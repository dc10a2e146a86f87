---------------------------- MODULE SocketFraming ----------------------------
(***************************************************************************)
(* ipc-core: length-prefixed messages over a Unix domain socket.  Threads  *)
(* that call UnixDomainSocketClient.sendMessage write to one stream; it is *)
(* read by UnixDomainSocketServer.handleClient (side "server") or, in the  *)
(* other direction, by UnixDomainSocketClient.receiveMessage (side         *)
(* "client").                                                              *)
(*                                                                         *)
(* A frame is HeaderSize bytes of length and Size[m] bytes of payload; a   *)
(* byte is named by its frame and its place in it.  One call of write may  *)
(* take only a part of the buffer and one call of read may return only a   *)
(* part of what was asked for: both are documented of SocketChannel.       *)
(***************************************************************************)
EXTENDS Integers, Sequences

CONSTANTS Messages,    \* one thread sends each of them
          Size,        \* the length of its payload
          HeaderSize,  \* Integer.BYTES
          BufferSize   \* the server's limit for a payload

ASSUME FramingAssumption ==
    /\ HeaderSize \in Nat /\ HeaderSize > 1
    /\ BufferSize \in Nat
    /\ Size \in [Messages -> Nat]

VARIABLES side,      \* who reads the stream
          running,   \* UnixDomainSocketServer.running
          bound,     \* the server's channel is open
          accepted,  \* the connection has its handler thread
          sent,      \* how much of each frame has been written
          wire,      \* bytes written and not yet read
          eof,       \* the writing end is closed
          reader,    \* where the reading thread is
          need,      \* bytes of the payload still to be read
          got,       \* bytes of the payload read so far
          delivered, \* payloads handed to the message handler, in order
          mixed,     \* history: two frames were written at the same time
          split      \* history: a header was read in parts

vars == <<side, running, bound, accepted, sent, wire, eof, reader, need, got,
          delivered, mixed, split>>

stream == <<sent, wire, eof, mixed>>
server == <<side, running, bound, accepted>>

Total(m) == HeaderSize + Size[m]
Byte(m, i) == <<m, i>>
Bytes == {b \in Messages \X Nat : b[2] \in 1 .. Total(b[1])}

Header(m) == [i \in 1 .. HeaderSize |-> Byte(m, i)]
Payload(m) == [i \in 1 .. Size[m] |-> Byte(m, HeaderSize + i)]

TypeOK ==
    /\ side \in {"server", "client"}
    /\ running \in BOOLEAN /\ bound \in BOOLEAN /\ accepted \in BOOLEAN
    /\ sent \in [Messages -> Nat] /\ \A m \in Messages : sent[m] <= Total(m)
    /\ wire \in Seq(Bytes)
    /\ eof \in BOOLEAN
    /\ reader \in {"top", "header", "body", "deliver", "closed"}
    /\ need \in Nat
    /\ got \in Seq(Bytes)
    /\ delivered \in Seq(Seq(Bytes))
    /\ mixed \in BOOLEAN /\ split \in BOOLEAN

Init ==
    /\ side \in {"server", "client"}
    /\ running = FALSE /\ bound = FALSE /\ accepted = FALSE
    /\ sent = [m \in Messages |-> 0]
    /\ wire = <<>>
    /\ eof = FALSE
    /\ reader = "top"
    /\ need = 0
    /\ got = <<>>
    /\ delivered = <<>>
    /\ mixed = FALSE /\ split = FALSE

-----------------------------------------------------------------------------
(* start, acceptLoop and stop of the server.  (On side "client" the worker *)
(* is the server; the same three steps make and end the connection.)       *)
Start ==
    /\ ~running
    /\ ~bound
    /\ ~accepted
    /\ running' = TRUE
    /\ bound' = TRUE
    /\ UNCHANGED <<side, accepted, stream, reader, need, got, delivered, split>>

Accept ==
    /\ running
    /\ bound
    /\ ~accepted
    /\ accepted' = TRUE
    /\ UNCHANGED <<side, running, bound, stream, reader, need, got, delivered, split>>

Stop ==
    /\ running
    /\ accepted
    /\ running' = FALSE
    /\ bound' = FALSE
    /\ UNCHANGED <<side, accepted, stream, reader, need, got, delivered, split>>

-----------------------------------------------------------------------------
Partial(m) == 0 < sent[m] /\ sent[m] < Total(m)

\* Seeded fault: sendMessage calls write once and goes on.
WriteSome_Once(m, n) ==
    /\ accepted
    /\ ~eof
    /\ sent[m] = 0
    /\ n \in 1 .. Total(m)
    /\ wire' = wire \o [i \in 1 .. n |-> Byte(m, i)]
    /\ sent' = [sent EXCEPT ![m] = Total(m)]
    /\ mixed' = (mixed \/ \E k \in Messages \ {m} : Partial(k))
    /\ UNCHANGED <<server, eof, reader, need, got, delivered, split>>

(* One turn of sendMessage's loop: n bytes of the buffer are taken.        *)
(* Nothing keeps another thread's write from coming in between two turns.  *)
WriteSome(m, n) ==
    /\ accepted
    /\ ~eof
    /\ n \in 1 .. Total(m) - sent[m]
    /\ wire' = wire \o [i \in 1 .. n |-> Byte(m, sent[m] + i)]
    /\ sent' = [sent EXCEPT ![m] = @ + n]
    /\ mixed' = (mixed \/ \E k \in Messages \ {m} : Partial(k))
    /\ UNCHANGED <<server, eof, reader, need, got, delivered, split>>

\* External: the writing process closes its end, or dies.
CloseWriter ==
    /\ accepted
    /\ ~eof
    /\ eof' = TRUE
    /\ UNCHANGED <<server, sent, wire, reader, need, got, delivered, mixed, split>>

-----------------------------------------------------------------------------
(* handleClient's loop condition; receiveMessage is called again by its    *)
(* caller.                                                                 *)
LoopTop ==
    /\ accepted
    /\ reader = "top"
    /\ reader' = IF side = "server" /\ ~running THEN "closed" ELSE "header"
    /\ got' = <<>>
    /\ UNCHANGED <<server, stream, need, delivered, split>>

\* What the header's bytes say: the frame's length, or anything if they are
\* not the header of one frame (BufferSize + 1 stands for all that are larger).
LengthsOf(bytes) ==
    IF \E m \in Messages : bytes = Header(m)
    THEN {Size[m] : m \in {k \in Messages : bytes = Header(k)}}
    ELSE 0 .. BufferSize + 1

\* Only the server has an upper limit.
Refused(len) == len = 0 \/ (side = "server" /\ len > BufferSize)

\* A header that is not accepted: the server closes, the client starts over.
GiveUp == IF side = "server" THEN "closed" ELSE "top"

Rest(n) == SubSeq(wire, n + 1, Len(wire))

ReadHeader ==
    /\ reader = "header"
    /\ Len(wire) >= HeaderSize
    /\ \E len \in LengthsOf(SubSeq(wire, 1, HeaderSize)) :
        /\ need' = len
        /\ reader' = IF Refused(len) THEN GiveUp ELSE "body"
    /\ wire' = Rest(HeaderSize)
    /\ UNCHANGED <<server, sent, eof, got, delivered, mixed, split>>

\* Seeded fault: a short header is dropped and the server reads on.
ShortHeader_Continues(n) ==
    /\ reader = "header"
    /\ n \in 1 .. HeaderSize - 1
    /\ n <= Len(wire)
    /\ wire' = Rest(n)
    /\ split' = TRUE
    /\ reader' = "top"
    /\ UNCHANGED <<server, sent, eof, need, got, delivered, mixed>>

(* read returned fewer bytes than a header has.                            *)
ShortHeader(n) ==
    /\ reader = "header"
    /\ n \in 1 .. HeaderSize - 1
    /\ n <= Len(wire)
    /\ wire' = Rest(n)
    /\ split' = TRUE
    /\ reader' = GiveUp
    /\ UNCHANGED <<server, sent, eof, need, got, delivered, mixed>>

\* read returned -1
HeaderAtEof ==
    /\ reader = "header"
    /\ eof
    /\ wire = <<>>
    /\ reader' = GiveUp
    /\ UNCHANGED <<server, stream, need, got, delivered, split>>

(* The loop that fills the payload's buffer.                               *)
ReadBody(n) ==
    /\ reader = "body"
    /\ n \in 1 .. need
    /\ n <= Len(wire)
    /\ got' = got \o SubSeq(wire, 1, n)
    /\ wire' = Rest(n)
    /\ need' = need - n
    /\ reader' = IF n = need THEN "deliver" ELSE "body"
    /\ UNCHANGED <<server, sent, eof, delivered, mixed, split>>

\* The stream ends inside a payload: what there is is delivered.
BodyAtEof ==
    /\ reader = "body"
    /\ eof
    /\ wire = <<>>
    /\ need' = 0
    /\ reader' = "deliver"
    /\ UNCHANGED <<server, stream, got, delivered, split>>

Deliver ==
    /\ reader = "deliver"
    /\ delivered' = Append(delivered, got)
    /\ reader' = "top"
    /\ UNCHANGED <<server, stream, need, got, split>>

ReaderStep ==
    \/ LoopTop \/ ReadHeader \/ HeaderAtEof \/ BodyAtEof \/ Deliver
    \/ \E n \in 1 .. HeaderSize - 1 : ShortHeader(n)
    \/ \E n \in 1 .. need : ReadBody(n)

Next ==
    \/ Start \/ Accept \/ Stop \/ CloseWriter
    \/ \E m \in Messages : \E n \in 1 .. Total(m) : WriteSome(m, n)
    \/ ReaderStep

(* The reading thread goes on while there is something to read.            *)
Spec == Init /\ [][Next]_vars /\ WF_vars(ReaderStep)

-----------------------------------------------------------------------------
Intact(data) == \E m \in Messages : data = Payload(m)

(* As long as no two writes were interleaved and the client got no header  *)
(* in parts, what is delivered is a message that was sent, whole, and no   *)
(* message is delivered twice.  Only the last may be cut short, by the end *)
(* of the stream.  A header in parts does not mislead the server: it       *)
(* closes the connection, where the client goes on inside the frame.       *)
DeliveredIntact ==
    ~mixed /\ (split => side = "server") =>
        /\ \A i \in 1 .. Len(delivered) :
              Intact(delivered[i]) \/ (eof /\ i = Len(delivered))
        /\ \A i, j \in 1 .. Len(delivered) :
              i # j => delivered[i] = <<>> \/ delivered[i] # delivered[j]

(* A stream that is undisturbed is read to its end: each message that was  *)
(* written completely is delivered, unless the server is stopped first or  *)
(* some message has a length the reader refuses: the server then closes    *)
(* the connection and what comes after it is lost.                         *)
WrittenIsDelivered ==
    \A m \in Messages :
        (sent[m] = Total(m)) ~>
            \/ \E i \in 1 .. Len(delivered) : delivered[i] = Payload(m)
            \/ mixed \/ split \/ ~running
            \/ \E k \in Messages : Refused(Size[k]) /\ sent[k] > 0
=============================================================================
