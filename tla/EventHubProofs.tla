--------------------------- MODULE EventHubProofs ---------------------------
(***************************************************************************)
(* EventHub for any number of publishers, subscribers and connections: no  *)
(* frame is torn, and publish reaches every connection that stays up.      *)
(***************************************************************************)
EXTENDS EventHub, TLAPS

Parts == ({"header", "payload"} \X Publishers) \cup {<<"close">>}

WireType == wire \in [Connections -> Seq(Parts)]

(* The monitor of a stream is held by the publisher between its two writes *)
(* to it and by no other; a publisher that sends has a connection.         *)
MonitorState ==
    /\ \A p \in Publishers :
          pub[p] \in {"send", "payload"} => target[p] \in Connections
    /\ \A p \in Publishers, c \in Connections :
          monitor[c] = p <=> pub[p] = "payload" /\ target[p] = c

\* Only close() closes the socket, as its last step.
CloseState == \A c \in Connections : ~socket[c] => closing[c] = "done"

(* A stream ends in a header while its publisher has the monitor, or       *)
(* because nobody can write to it any more.                                *)
TailState ==
    \A c \in Connections :
        LET last == wire[c][Len(wire[c])]
        IN  /\ \A p \in Publishers :
                  monitor[c] = p /\ peer[c] => wire[c] # << >> /\ last = <<"header", p>>
            /\ monitor[c] = None /\ wire[c] # << >> /\ last[1] = "header" =>
                  ~peer[c] \/ ~socket[c]

Absent(p, c) == \A i \in 1 .. Len(wire[c]) : wire[c][i] # <<"payload", p>>

Once(p, c) ==
    \E i \in 1 .. Len(wire[c]) :
        /\ wire[c][i] = <<"payload", p>>
        /\ \A j \in 1 .. Len(wire[c]) : wire[c][j] = <<"payload", p>> => j = i

\* The event of p is still to be sent to c.
Outstanding(p, c) ==
    \/ pub[p] = "idle"
    \/ pub[p] = "calls" /\ Hub \in toCall[p]
    \/ pub[p] \in {"hub", "send", "payload"} /\ c \in toSend[p]
    \/ pub[p] \in {"send", "payload"} /\ c = target[p]

(* What is still to be sent has not been sent, and what is owed to a       *)
(* connection that stayed up and is not to be sent any more was sent once. *)
ReachState ==
    \A p \in Publishers :
        /\ pub[p] = "idle" => owed[p] = {}
        /\ owed[p] \subseteq met
        /\ pub[p] \in {"hub", "send", "payload"} => Hub \notin toCall[p]
        /\ pub[p] \in {"send", "payload"} => target[p] \notin toSend[p]
        /\ \A c \in Connections :
              /\ Outstanding(p, c) => Absent(p, c)
              /\ c \in owed[p] /\ Steady(c) /\ ~Outstanding(p, c) => Once(p, c)

IInv ==
    /\ TypeOK
    /\ WireType
    /\ MonitorState
    /\ CloseState
    /\ TailState
    /\ FramesAreWhole
    /\ ReachState

USE HubAssumption DEF HubAssumption

\* No publisher and no connection has done anything at the start.
LEMMA InitIInv == Init => IInv
<1> SUFFICES ASSUME Init PROVE IInv
  OBVIOUS
<1>1. WireType
  BY DEF Init, WireType
<1>2. \A c \in Connections : Len(wire[c]) = 0
  BY DEF Init
<1>3. TypeOK
  BY <1>2 DEF Init, TypeOK
<1>4. MonitorState /\ CloseState
  BY DEF Init, MonitorState, CloseState
<1>5. TailState
  BY DEF Init, TailState
<1>6. FramesAreWhole
  BY <1>2 DEF FramesAreWhole
<1>7. ReachState
  <2>1. \A p \in Publishers, c \in Connections : Absent(p, c)
    BY <1>2 DEF Absent
  <2>2. \A p \in Publishers, c \in Connections : Outstanding(p, c)
    BY DEF Init, Outstanding
  <2> QED BY <2>1, <2>2 DEF Init, ReachState
<1> QED BY <1>1, <1>3, <1>4, <1>5, <1>6, <1>7 DEF IInv

-----------------------------------------------------------------------------
(* What a write to one stream, or none, does to what has been received     *)

(* A write reaches one stream, adds one part at its end, and does so only  *)
(* while the browser is there.                                             *)
LEMMA TransmitWire ==
    ASSUME WireType, NEW c \in Connections, NEW part \in Parts, Transmit(c, part)
    PROVE  /\ WireType'
           /\ (\A d \in Connections : \A i \in 1 .. Len(wire[d]) :
                  wire[d][i] \in {"header", "payload"} \X Publishers \cup {<<"close">>})'
           /\ Len(wire[c]) \in Nat
           /\ \A d \in Connections : d # c => wire'[d] = wire[d]
           /\ ~peer[c] => wire'[c] = wire[c]
           /\ peer[c] => /\ Len(wire'[c]) = Len(wire[c]) + 1
                         /\ \A i \in 1 .. Len(wire[c]) : wire'[c][i] = wire[c][i]
                         /\ wire'[c][Len(wire[c]) + 1] = part
<1>1. wire[c] \in Seq(Parts)
  BY DEF WireType
<1>2. Append(wire[c], part) \in Seq(Parts)
  BY <1>1
<1>3. WireType'
  BY <1>1, <1>2 DEF WireType, Transmit
<1>4. peer[c] => wire'[c] = Append(wire[c], part)
  BY DEF WireType, Transmit
<1>5. ~peer[c] => wire'[c] = wire[c]
  BY DEF WireType, Transmit
<1>6. \A d \in Connections : d # c => wire'[d] = wire[d]
  BY DEF WireType, Transmit
<1>7. \A d \in Connections : \A i \in 1 .. Len(wire'[d]) : wire'[d][i] \in Parts
  BY <1>3 DEF WireType
<1> QED BY <1>1, <1>3, <1>4, <1>5, <1>6, <1>7 DEF Parts

(* A stream of whole frames stays one if a payload is written only behind  *)
(* its own header, and nothing else is written behind a header.            *)
LEMMA TransmitWhole ==
    ASSUME WireType, FramesAreWhole,
           NEW c \in Connections, NEW part \in Parts, Transmit(c, part),
           peer[c] /\ part[1] = "payload" =>
               wire[c] # << >> /\ wire[c][Len(wire[c])] = <<"header", part[2]>>,
           peer[c] /\ wire[c] # << >> /\ wire[c][Len(wire[c])][1] = "header" =>
               part = <<"payload", wire[c][Len(wire[c])][2]>>
    PROVE  FramesAreWhole'
<1> DEFINE n == Len(wire[c])
           Whole(w, i) ==
               /\ w[i][1] = "header" /\ i < Len(w) => w[i + 1] = <<"payload", w[i][2]>>
               /\ w[i][1] = "payload" => i > 1 /\ w[i - 1] = <<"header", w[i][2]>>
<1>1. \A d \in Connections : \A i \in 1 .. Len(wire[d]) : Whole(wire[d], i)
  BY DEF FramesAreWhole
<1>2. ASSUME NEW d \in Connections, wire'[d] = wire[d]
      PROVE  \A i \in 1 .. Len(wire'[d]) : Whole(wire'[d], i)
  BY <1>1, <1>2
<1>3. ASSUME peer[c], NEW i \in 1 .. Len(wire'[c])
      PROVE  Whole(wire'[c], i)
  <2>1. /\ n \in Nat
        /\ Len(wire'[c]) = n + 1
        /\ \A j \in 1 .. n : wire'[c][j] = wire[c][j]
        /\ wire'[c][n + 1] = part
    BY <1>3, TransmitWire
  <2>2. wire[c] # << >> <=> n > 0
    BY DEF WireType
  <2>3. CASE i < n
    <3>1. i \in 1 .. n /\ i + 1 \in 1 .. n /\ (i > 1 => i - 1 \in 1 .. n)
      BY <2>1, <2>3
    <3>2. Whole(wire[c], i)
      BY <1>1, <3>1
    <3>3. /\ wire[c][i][1] = "header" => wire[c][i + 1] = <<"payload", wire[c][i][2]>>
          /\ wire[c][i][1] = "payload" => i > 1 /\ wire[c][i - 1] = <<"header", wire[c][i][2]>>
      BY <2>3, <3>2
    <3> HIDE DEF n
    <3> QED BY <2>1, <2>3, <3>1, <3>3
  <2>4. CASE i = n
    <3>1. i \in 1 .. n /\ (i > 1 => i - 1 \in 1 .. n)
      BY <2>1, <2>4
    <3>2. Whole(wire[c], i)
      BY <1>1, <3>1
    <3>3. wire[c][n][1] = "header" => part = <<"payload", wire[c][n][2]>>
      BY <1>3, <2>2, <2>4
    <3> HIDE DEF n
    <3> QED BY <2>1, <2>4, <3>1, <3>2, <3>3
  <2>5. CASE i = n + 1
    <3>1. part[1] = "payload" => n > 0 /\ wire[c][n] = <<"header", part[2]>>
      BY <1>3, <2>2
    <3> HIDE DEF n
    <3> QED BY <2>1, <2>5, <3>1
  <2> QED BY <2>1, <2>3, <2>4, <2>5
<1>4. \A d \in Connections : \A i \in 1 .. Len(wire'[d]) : Whole(wire'[d], i)
  <2>1. \A d \in Connections : d # c => wire'[d] = wire[d]
    BY TransmitWire
  <2>2. ~peer[c] => wire'[c] = wire[c]
    BY TransmitWire
  <2> HIDE DEF Whole
  <2> QED BY <1>2, <1>3, <2>1, <2>2
<1> QED BY <1>4 DEF FramesAreWhole

(* A write of something else than the payload of p changes nothing in how  *)
(* often the event of p has been received.                                 *)
LEMMA TransmitOther ==
    ASSUME WireType, NEW c \in Connections, NEW part \in Parts, Transmit(c, part),
           NEW p \in Publishers, part # <<"payload", p>>, NEW d \in Connections
    PROVE  /\ Absent(p, d) => Absent(p, d)'
           /\ Once(p, d) => Once(p, d)'
<1>1. CASE wire'[d] = wire[d]
  BY <1>1 DEF Absent, Once
<1>2. CASE d = c /\ peer[c]
  <2>1. /\ Len(wire[c]) \in Nat
        /\ Len(wire'[c]) = Len(wire[c]) + 1
        /\ \A i \in 1 .. Len(wire[c]) : wire'[c][i] = wire[c][i]
        /\ wire'[c][Len(wire[c]) + 1] = part
    BY <1>2, TransmitWire
  <2>2. \A i \in 1 .. Len(wire'[c]) :
            i \in 1 .. Len(wire[c]) \/ wire'[c][i] # <<"payload", p>>
    <3>1. \A i \in 1 .. Len(wire'[c]) : i \in 1 .. Len(wire[c]) \/ i = Len(wire[c]) + 1
      BY <2>1
    <3> QED BY <2>1, <3>1
  <2>3. 1 .. Len(wire[c]) \subseteq 1 .. Len(wire'[c])
    BY <2>1
  <2>4. Absent(p, c) => Absent(p, c)'
    BY <2>1, <2>2 DEF Absent
  <2>5. ASSUME Once(p, c) PROVE Once(p, c)'
    <3>1. PICK i \in 1 .. Len(wire[c]) :
              /\ wire[c][i] = <<"payload", p>>
              /\ \A j \in 1 .. Len(wire[c]) : wire[c][j] = <<"payload", p>> => j = i
      BY <2>5 DEF Once
    <3>2. i \in 1 .. Len(wire'[c]) /\ wire'[c][i] = <<"payload", p>>
      BY <2>1, <2>3, <3>1
    <3>3. \A j \in 1 .. Len(wire'[c]) : wire'[c][j] = <<"payload", p>> => j = i
      BY <2>1, <2>2, <3>1
    <3> QED BY <3>2, <3>3 DEF Once
  <2> QED BY <1>2, <2>4, <2>5
<1> QED BY <1>1, <1>2, TransmitWire

(* The payload of p, written to a browser that is there and has not had    *)
(* it, has then been received once.                                        *)
LEMMA TransmitPayload ==
    ASSUME WireType, NEW c \in Connections, NEW p \in Publishers,
           Transmit(c, <<"payload", p>>), peer[c], Absent(p, c)
    PROVE  Once(p, c)'
<1>1. <<"payload", p>> \in Parts
  BY DEF Parts
<1>2. /\ Len(wire[c]) \in Nat
      /\ Len(wire'[c]) = Len(wire[c]) + 1
      /\ \A i \in 1 .. Len(wire[c]) : wire'[c][i] = wire[c][i]
      /\ wire'[c][Len(wire[c]) + 1] = <<"payload", p>>
  BY <1>1, TransmitWire
<1>3. Len(wire[c]) + 1 \in 1 .. Len(wire'[c])
  BY <1>2
<1>4. \A j \in 1 .. Len(wire'[c]) : wire'[c][j] = <<"payload", p>> => j = Len(wire[c]) + 1
  <2>1. \A j \in 1 .. Len(wire'[c]) : j = Len(wire[c]) + 1 \/ j \in 1 .. Len(wire[c])
    BY <1>2
  <2>2. \A j \in 1 .. Len(wire[c]) : wire'[c][j] # <<"payload", p>>
    BY <1>2 DEF Absent
  <2> QED BY <2>1, <2>2
<1> QED BY <1>2, <1>3, <1>4 DEF Once

(* A step that writes nothing leaves all of that as it is.                 *)
LEMMA NoTransmit ==
    ASSUME WireType, FramesAreWhole, UNCHANGED wire
    PROVE  /\ WireType'
           /\ FramesAreWhole'
           /\ \A p \in Publishers, c \in Connections :
                 (Absent(p, c) => Absent(p, c)') /\ (Once(p, c) => Once(p, c)')
BY DEF WireType, FramesAreWhole, Absent, Once

-----------------------------------------------------------------------------
(* Whoever subscribes or unsubscribes, also while a publish is under way,  *)
(* the invariant is preserved.                                             *)
LEMMA SubscribeIInv ==
    ASSUME IInv,
           \/ \E h \in Handlers \cup {Hub} : Subscribe(h)
           \/ \E h \in Handlers : Unsubscribe(h)
           \/ Clear
    PROVE  IInv'
<1> USE DEF IInv, Subscribe, Unsubscribe, Clear, loop, connection
<1>1. /\ subscribers' \subseteq Handlers \cup {Hub}
      /\ UNCHANGED <<pub, toCall, toSend, target, owed, connections, met, open,
                     socket, peer, closing, monitor, wire>>
  BY DEF TypeOK
<1> QED BY <1>1, NoTransmit
        DEF TypeOK, MonitorState, CloseState, TailState, ReachState, Outstanding, Steady

(* The steps of publish and broadcast that write nothing preserve it.       *)
LEMMA QuietPublishIInv ==
    ASSUME IInv, NEW p \in Publishers,
           \/ Publish(p) \/ PublishEnds(p) \/ Broadcast(p) \/ BroadcastEnds(p)
           \/ SendFails(p)
           \/ \E h \in Handlers : CallHandler(p, h)
           \/ \E c \in Connections : CheckOpen(p, c)
    PROVE  IInv'
<1> USE DEF IInv, Go, loop, connection
<1>0. /\ UNCHANGED wire
      /\ WireType' /\ FramesAreWhole'
      /\ \A q \in Publishers, c \in Connections :
            (Absent(q, c) => Absent(q, c)') /\ (Once(q, c) => Once(q, c)')
  BY NoTransmit DEF Publish, PublishEnds, Broadcast, BroadcastEnds, SendFails,
                    CallHandler, CheckOpen
<1>1. CASE Publish(p)
  <2> USE <1>1 DEF Publish
  <2>1. TypeOK'
    BY <1>0 DEF TypeOK
  <2>2. MonitorState' /\ CloseState' /\ TailState'
    BY <1>0 DEF TypeOK, MonitorState, CloseState, TailState
  <2>3. ReachState'
    BY <1>0 DEF TypeOK, ReachState, Outstanding, Steady
  <2> QED BY <1>0, <2>1, <2>2, <2>3
<1>2. ASSUME PublishEnds(p) \/ \E h \in Handlers : CallHandler(p, h) PROVE IInv'
  <2>1. TypeOK'
    <3>1. CASE PublishEnds(p)
      BY <1>0, <3>1 DEF TypeOK, PublishEnds
    <3>2. ASSUME NEW h \in Handlers, CallHandler(p, h) PROVE TypeOK'
      BY <1>0, <3>2 DEF TypeOK, CallHandler
    <3> QED BY <1>2, <3>1, <3>2
  <2> USE <1>2 DEF PublishEnds, CallHandler
  <2>2. MonitorState' /\ CloseState' /\ TailState'
    BY <1>0 DEF TypeOK, MonitorState, CloseState, TailState
  <2>3. ReachState'
    BY <1>0 DEF TypeOK, ReachState, Outstanding, Steady
  <2> QED BY <1>0, <2>1, <2>2, <2>3
<1>3. CASE Broadcast(p) \/ BroadcastEnds(p)
  <2> USE <1>3 DEF Broadcast, BroadcastEnds
  <2>1. TypeOK'
    BY <1>0 DEF TypeOK
  <2>2. MonitorState' /\ CloseState' /\ TailState'
    BY <1>0 DEF TypeOK, MonitorState, CloseState, TailState
  <2>3. ReachState'
    BY <1>0 DEF TypeOK, ReachState, Outstanding, Steady
  <2> QED BY <1>0, <2>1, <2>2, <2>3
<1>4. ASSUME NEW c \in Connections, CheckOpen(p, c) PROVE IInv'
  <2> USE <1>4 DEF CheckOpen
  <2>1. TypeOK'
    BY <1>0 DEF TypeOK
  <2>2. MonitorState' /\ CloseState' /\ TailState'
    BY <1>0 DEF TypeOK, MonitorState, CloseState, TailState
  <2>3. ReachState'
    BY <1>0 DEF TypeOK, ReachState, Outstanding, Steady
  <2> QED BY <1>0, <2>1, <2>2, <2>3
<1>5. CASE SendFails(p)
  <2> USE <1>5 DEF SendFails
  <2>1. TypeOK'
    BY <1>0 DEF TypeOK, MonitorState
  <2>2. MonitorState' /\ CloseState'
    BY DEF TypeOK, MonitorState, CloseState
  <2>3. TailState'
    BY <1>0 DEF TypeOK, MonitorState, TailState
  <2>4. ReachState'
    BY <1>0 DEF TypeOK, MonitorState, ReachState, Outstanding, Steady
  <2> QED BY <1>0, <2>1, <2>2, <2>3, <2>4
<1> QED BY <1>1, <1>2, <1>3, <1>4, <1>5

(* The steps of a connection that write nothing preserve it: what becomes  *)
(* of a connection only makes it less steady.                              *)
LEMMA QuietConnectionIInv ==
    ASSUME IInv, NEW c \in Connections,
           \/ OnConnect(c) \/ OnDisconnect(c) \/ ReceiveEnd(c) \/ CloseFlag(c)
           \/ CloseFails(c) \/ CloseSocket(c) \/ PeerGoes(c)
    PROVE  IInv'
<1> USE DEF IInv, bus, loop
<1>0. /\ UNCHANGED <<wire, pub, toCall, toSend, target, owed, monitor>>
      /\ WireType' /\ FramesAreWhole'
      /\ \A q \in Publishers, d \in Connections :
            (Absent(q, d) => Absent(q, d)') /\ (Once(q, d) => Once(q, d)')
  BY NoTransmit DEF OnConnect, OnDisconnect, ReceiveEnd, CloseFlag, CloseFails,
                    CloseSocket, PeerGoes, connection
<1>1. TypeOK'
  <2>1. UNCHANGED <<wire, pub, toCall, toSend, target, owed, monitor>>
    BY <1>0
  <2>2. /\ connections' \subseteq met' /\ met' \subseteq Connections
        /\ subscribers' = subscribers
    BY DEF TypeOK, OnConnect, OnDisconnect, ReceiveEnd, CloseFlag, CloseFails,
           CloseSocket, PeerGoes
  <2>3. /\ open' \in [Connections -> BOOLEAN]
        /\ socket' \in [Connections -> BOOLEAN]
        /\ peer' \in [Connections -> BOOLEAN]
        /\ closing' \in [Connections -> {"no", "frame", "socket", "done"}]
    BY DEF TypeOK, OnConnect, OnDisconnect, ReceiveEnd, CloseFlag, CloseFails,
           CloseSocket, PeerGoes, connection
  <2> QED BY <2>1, <2>2, <2>3 DEF TypeOK
<1>2. MonitorState'
  BY <1>0 DEF MonitorState
<1>3. CloseState'
  BY DEF TypeOK, CloseState, OnConnect, OnDisconnect, ReceiveEnd, CloseFlag,
         CloseFails, CloseSocket, PeerGoes, connection
<1>4. \A d \in Connections : (peer'[d] => peer[d]) /\ (socket'[d] => socket[d])
  BY DEF TypeOK, OnConnect, OnDisconnect, ReceiveEnd, CloseFlag, CloseFails,
         CloseSocket, PeerGoes, connection
<1>5. TailState'
  BY <1>0, <1>4 DEF TailState
<1>6. \A d \in met : Steady(d)' => Steady(d)
  BY DEF TypeOK, Steady, OnConnect, OnDisconnect, ReceiveEnd, CloseFlag,
         CloseFails, CloseSocket, PeerGoes, connection
<1>7. met \subseteq met'
  BY DEF OnConnect, OnDisconnect, ReceiveEnd, CloseFlag, CloseFails, CloseSocket,
         PeerGoes, connection
<1>8. ReachState'
  <2>1. \A p \in Publishers, d \in Connections : Outstanding(p, d)' <=> Outstanding(p, d)
    BY <1>0 DEF Outstanding
  <2> QED BY <1>0, <1>6, <1>7, <2>1 DEF ReachState
<1> QED BY <1>0, <1>1, <1>2, <1>3, <1>5, <1>8

(* The header of a frame is written to a stream that ends in a whole       *)
(* frame: nobody has the monitor, and the socket is open.                  *)
LEMMA WriteHeaderIInv ==
    ASSUME IInv, NEW p \in Publishers, WriteHeader(p)
    PROVE  IInv'
<1> DEFINE c == target[p]
           part == <<"header", p>>
<1> USE DEF IInv, Go, loop, connection
<1>1. /\ c \in Connections /\ part \in Parts
      /\ pub[p] = "send" /\ pub' = [pub EXCEPT ![p] = "payload"]
      /\ monitor[c] = None /\ monitor' = [monitor EXCEPT ![c] = p]
      /\ socket[c]
      /\ Transmit(c, part)
      /\ UNCHANGED <<subscribers, toCall, toSend, target, owed, connections, met,
                     open, socket, peer, closing>>
  BY DEF WriteHeader, MonitorState, Parts
<1> HIDE DEF c, part
<1>2. /\ WireType'
      /\ (\A d \in Connections : \A i \in 1 .. Len(wire[d]) :
             wire[d][i] \in {"header", "payload"} \X Publishers \cup {<<"close">>})'
      /\ Len(wire[c]) \in Nat
      /\ \A d \in Connections : d # c => wire'[d] = wire[d]
      /\ peer[c] => /\ Len(wire'[c]) = Len(wire[c]) + 1
                    /\ wire'[c][Len(wire[c]) + 1] = part
  BY <1>1, TransmitWire
<1>3. TypeOK'
  BY <1>1, <1>2 DEF TypeOK
<1>4. MonitorState'
  BY <1>1 DEF TypeOK, MonitorState, c
<1>5. CloseState'
  BY <1>1 DEF CloseState
<1>6. TailState'
  <2>1. ASSUME peer[c]
        PROVE  wire'[c] # << >> /\ wire'[c][Len(wire'[c])] = <<"header", p>>
    BY <1>1, <1>2, <2>1 DEF WireType, part
  <2> QED BY <1>1, <1>2, <2>1 DEF TypeOK, TailState
<1>7. FramesAreWhole'
  <2>1. part[1] # "payload"
    BY DEF part
  <2>2. ~(peer[c] /\ wire[c] # << >> /\ wire[c][Len(wire[c])][1] = "header")
    BY <1>1 DEF TailState
  <2> QED BY <1>1, <2>1, <2>2, TransmitWhole
<1>8. ReachState'
  <2>1. \A q \in Publishers, d \in Connections :
            (Absent(q, d) => Absent(q, d)') /\ (Once(q, d) => Once(q, d)')
    <3>1. \A q \in Publishers : part # <<"payload", q>>
      BY DEF part
    <3> QED BY <1>1, <3>1, TransmitOther
  <2>2. \A q \in Publishers, d \in Connections : Outstanding(q, d)' <=> Outstanding(q, d)
    BY <1>1 DEF TypeOK, Outstanding
  <2>3. \A d \in Connections : Steady(d)' <=> Steady(d)
    BY <1>1 DEF Steady
  <2> QED BY <1>1, <2>1, <2>2, <2>3 DEF TypeOK, ReachState
<1> QED BY <1>2, <1>3, <1>4, <1>5, <1>6, <1>7, <1>8

(* The payload is written behind its own header, and its publisher leaves  *)
(* the monitor.                                                            *)
LEMMA WritePayloadIInv ==
    ASSUME IInv, NEW p \in Publishers, WritePayload(p)
    PROVE  IInv'
<1> DEFINE part == <<"payload", p>>
<1> USE DEF IInv, Go, loop, connection
<1>1. PICK c \in Connections : c = target[p]
  BY DEF WritePayload, MonitorState
<1>2. /\ c \in Connections /\ part \in Parts
      /\ pub[p] = "payload" /\ pub' = [pub EXCEPT ![p] = "hub"]
      /\ monitor[c] = p /\ monitor' = [monitor EXCEPT ![c] = None]
      /\ target' = [target EXCEPT ![p] = None]
      /\ Transmit(c, part)
      /\ UNCHANGED <<subscribers, toCall, toSend, owed, connections, met, open,
                     socket, peer, closing>>
  BY <1>1 DEF WritePayload, MonitorState, Parts
<1>3. Outstanding(p, c) /\ c \notin toSend[p]
  BY <1>1, <1>2 DEF Outstanding, ReachState
<1>4. \A d \in Connections : Outstanding(p, d) <=> d \in toSend[p] \/ d = c
  BY <1>1, <1>2 DEF Outstanding
<1>5. /\ WireType'
      /\ (\A d \in Connections : \A i \in 1 .. Len(wire[d]) :
             wire[d][i] \in {"header", "payload"} \X Publishers \cup {<<"close">>})'
      /\ Len(wire[c]) \in Nat
      /\ \A d \in Connections : d # c => wire'[d] = wire[d]
      /\ ~peer[c] => wire'[c] = wire[c]
      /\ peer[c] => /\ Len(wire'[c]) = Len(wire[c]) + 1
                    /\ wire'[c][Len(wire[c]) + 1] = part
  BY <1>2, TransmitWire
<1>6. TypeOK'
  BY <1>2, <1>5 DEF TypeOK
<1>7. MonitorState'
  BY <1>1, <1>2 DEF TypeOK, MonitorState
<1>8. CloseState'
  BY <1>2 DEF CloseState
<1>9. TailState'
  <2>1. ASSUME peer[c] PROVE wire'[c][Len(wire'[c])][1] # "header"
    BY <1>5, <2>1
  <2> QED BY <1>2, <1>5, <2>1 DEF TypeOK, TailState
<1>10. FramesAreWhole'
  <2>1. peer[c] => wire[c] # << >> /\ wire[c][Len(wire[c])] = <<"header", p>>
    BY <1>2 DEF TailState
  <2>2. part[2] = p /\ <<"header", p>>[2] = p
    OBVIOUS
  <2> HIDE DEF part
  <2>3. peer[c] /\ part[1] = "payload" =>
            wire[c] # << >> /\ wire[c][Len(wire[c])] = <<"header", part[2]>>
    BY <2>1, <2>2
  <2>4. peer[c] /\ wire[c] # << >> /\ wire[c][Len(wire[c])][1] = "header" =>
            part = <<"payload", wire[c][Len(wire[c])][2]>>
    BY <2>1, <2>2 DEF part
  <2> QED BY <1>2, <2>3, <2>4, TransmitWhole
<1>11. ReachState'
  <2>1. \A q \in Publishers, d \in Connections : q # p =>
            (Absent(q, d) => Absent(q, d)') /\ (Once(q, d) => Once(q, d)')
    BY <1>2, TransmitOther
  <2>2. \A d \in Connections : d # c =>
            (Absent(p, d) => Absent(p, d)') /\ (Once(p, d) => Once(p, d)')
    BY <1>5 DEF Absent, Once
  <2>3. ASSUME peer[c] PROVE Once(p, c)'
    <3>1. Absent(p, c)
      BY <1>3, <1>2 DEF ReachState
    <3>2. Transmit(c, <<"payload", p>>) /\ c \in Connections /\ WireType
      BY <1>2
    <3> QED BY <2>3, <3>1, <3>2, TransmitPayload
  <2>4. \A q \in Publishers, d \in Connections :
            q # p => (Outstanding(q, d)' <=> Outstanding(q, d))
    BY <1>2 DEF TypeOK, Outstanding
  <2>5. \A d \in Connections : Outstanding(p, d)' <=> d \in toSend[p]
    BY <1>2 DEF TypeOK, Outstanding
  <2>6. \A d \in Connections : Steady(d)' <=> Steady(d)
    BY <1>2 DEF Steady
  <2>7. ASSUME NEW q \in Publishers, q # p
        PROVE  \A d \in Connections :
                 /\ Outstanding(q, d)' => Absent(q, d)'
                 /\ (d \in owed[q] /\ Steady(d) /\ ~Outstanding(q, d))' => Once(q, d)'
    BY <1>2, <2>1, <2>4, <2>6, <2>7 DEF ReachState
  <2>8. \A d \in Connections :
           /\ Outstanding(p, d)' => Absent(p, d)'
           /\ (d \in owed[p] /\ Steady(d) /\ ~Outstanding(p, d))' => Once(p, d)'
    <3>1. Steady(c) => peer[c]
      BY DEF Steady
    <3>2. ASSUME NEW d \in Connections, d # c
          PROVE  /\ d \in toSend[p] => Absent(p, d)'
                 /\ d \in owed[p] /\ Steady(d) /\ d \notin toSend[p] => Once(p, d)'
      BY <1>4, <2>2, <3>2 DEF ReachState
    <3>3. Steady(c) => Once(p, c)'
      BY <2>3, <3>1
    <3>4. owed' = owed
      BY <1>2
    <3>5. ASSUME NEW d \in Connections
          PROVE  /\ Outstanding(p, d)' => Absent(p, d)'
                 /\ d \in owed[p] /\ Steady(d)' /\ ~Outstanding(p, d)' => Once(p, d)'
      <4>1. CASE d = c
        BY <1>3, <2>5, <2>6, <3>3, <4>1
      <4>2. CASE d # c
        BY <2>5, <2>6, <3>2, <4>2
      <4> QED BY <4>1, <4>2
    <3> QED BY <3>4, <3>5
  <2>9. \A q \in Publishers :
           /\ pub'[q] = "idle" => owed'[q] = {}
           /\ owed'[q] \subseteq met'
           /\ pub'[q] \in {"hub", "send", "payload"} => Hub \notin toCall'[q]
           /\ pub'[q] \in {"send", "payload"} => target'[q] \notin toSend'[q]
    BY <1>2 DEF TypeOK, ReachState
  <2> QED BY <2>7, <2>8, <2>9 DEF ReachState
<1> QED BY <1>5, <1>6, <1>7, <1>8, <1>9, <1>10, <1>11

(* The close frame is written between frames too: close() takes the same   *)
(* monitor, and the socket is still open when it does.                     *)
LEMMA CloseFrameIInv ==
    ASSUME IInv, NEW c \in Connections, CloseFrame(c)
    PROVE  IInv'
<1> DEFINE part == <<"close">>
<1> USE DEF IInv, bus, loop
<1>1. /\ part \in Parts
      /\ closing[c] = "frame" /\ closing' = [closing EXCEPT ![c] = "socket"]
      /\ monitor[c] = None
      /\ Transmit(c, part)
      /\ UNCHANGED <<subscribers, pub, toCall, toSend, target, owed, connections,
                     met, open, socket, peer, monitor>>
  BY DEF CloseFrame, Parts
<1>2. /\ WireType'
      /\ (\A d \in Connections : \A i \in 1 .. Len(wire[d]) :
             wire[d][i] \in {"header", "payload"} \X Publishers \cup {<<"close">>})'
      /\ Len(wire[c]) \in Nat
      /\ \A d \in Connections : d # c => wire'[d] = wire[d]
      /\ ~peer[c] => wire'[c] = wire[c]
      /\ peer[c] => /\ Len(wire'[c]) = Len(wire[c]) + 1
                    /\ wire'[c][Len(wire[c]) + 1] = part
  BY <1>1, TransmitWire
<1>3. TypeOK'
  BY <1>1, <1>2 DEF TypeOK
<1>4. MonitorState'
  BY <1>1 DEF MonitorState
<1>5. CloseState' /\ socket[c]
  BY <1>1 DEF TypeOK, CloseState
<1>6. TailState'
  <2>1. ASSUME peer[c] PROVE wire'[c][Len(wire'[c])][1] # "header"
    BY <1>2, <2>1
  <2> QED BY <1>1, <1>2, <2>1 DEF TypeOK, TailState
<1>7. FramesAreWhole'
  <2>1. part[1] # "payload"
    OBVIOUS
  <2>2. ~(peer[c] /\ wire[c] # << >> /\ wire[c][Len(wire[c])][1] = "header")
    BY <1>1, <1>5 DEF TailState
  <2> HIDE DEF part
  <2> QED BY <1>1, <2>1, <2>2, TransmitWhole
<1>8. ReachState'
  <2>1. \A q \in Publishers, d \in Connections :
            (Absent(q, d) => Absent(q, d)') /\ (Once(q, d) => Once(q, d)')
    <3>1. \A q \in Publishers : part # <<"payload", q>>
      OBVIOUS
    <3> HIDE DEF part
    <3> QED BY <1>1, <3>1, TransmitOther
  <2>2. \A q \in Publishers, d \in Connections : Outstanding(q, d)' <=> Outstanding(q, d)
    BY <1>1 DEF Outstanding
  <2>3. \A d \in Connections : Steady(d)' <=> Steady(d)
    BY <1>1 DEF Steady
  <2> QED BY <1>1, <2>1, <2>2, <2>3 DEF ReachState
<1> QED BY <1>2, <1>3, <1>4, <1>5, <1>6, <1>7, <1>8

-----------------------------------------------------------------------------
(* Every step of every thread preserves the inductive invariant.           *)
LEMMA NextIInv == IInv /\ [Next]_vars => IInv'
<1> SUFFICES ASSUME IInv, [Next]_vars PROVE IInv'
  OBVIOUS
<1>1. ASSUME NEW p \in Publishers, PublishStep(p) PROVE IInv'
  BY <1>1, QuietPublishIInv, WriteHeaderIInv, WritePayloadIInv DEF PublishStep
<1>2. ASSUME NEW c \in Connections, ConnectionStep(c) PROVE IInv'
  BY <1>2, QuietConnectionIInv, CloseFrameIInv DEF ConnectionStep
<1>3. CASE UNCHANGED vars
  <2>1. UNCHANGED <<subscribers, connections, pub, toCall, toSend, target, owed,
                    met, open, socket, peer, monitor, closing, wire>>
    BY <1>3 DEF vars, bus, loop, connection
  <2> QED BY <2>1, NoTransmit DEF IInv, TypeOK, MonitorState, CloseState,
                                  TailState, ReachState, Outstanding, Steady
<1> QED BY <1>1, <1>2, <1>3, SubscribeIInv DEF Next

(* The hub never leaves its inductive invariant.                           *)
THEOREM Invariance == Spec => []IInv
BY InitIInv, NextIInv, PTL DEF Spec

(* The lists, loops and streams keep their types.                          *)
THEOREM TypeCorrect == Spec => []TypeOK
BY Invariance, PTL DEF IInv

(* No frame that WebSocketConnection sends is torn by another broadcast or *)
(* by close(), for any number of publishers and connections.               *)
THEOREM NoTornFrame == Spec => []FramesAreWhole
BY Invariance, PTL DEF IInv

(* When publish has ended, every connection the hub knew when it began and *)
(* that stayed up has received the event exactly once, for any number of   *)
(* publishers, subscribers and connections.                                *)
THEOREM PublishIsHeard == Spec => []PublishReachesAll
<1>1. IInv => PublishReachesAll
  <2> SUFFICES ASSUME IInv, NEW p \in Publishers, pub[p] = "done",
                      NEW c \in owed[p], Steady(c)
               PROVE  \E i \in 1 .. Len(wire[c]) : Copies(p, c) = {i}
    BY DEF PublishReachesAll
  <2>1. c \in Connections /\ ~Outstanding(p, c)
    BY DEF IInv, TypeOK, Outstanding
  <2>2. Once(p, c)
    BY <2>1 DEF IInv, ReachState
  <2> QED BY <2>2 DEF Once, Copies
<1> QED BY <1>1, Invariance, PTL
=============================================================================
