----------------------------- MODULE ApiGateway -----------------------------
(***************************************************************************)
(* api-gateway: the HTTP server, the error wrapper around its handlers,    *)
(* AgentHandler and DocumentHandler, composed with the agents they run     *)
(* (AgentExecution).  Every exchange has a virtual thread of its own; an   *)
(* execute request makes one agent, named here after its exchange.         *)
(*                                                                         *)
(* kind[e] is what the request asks for:                                   *)
(*   "sync", "stream"   POST /agent/execute, without and with "stream"     *)
(*   "import"           POST /document/import of an existing file          *)
(*   "lookup"           GET /document/{id} and POST /document/export       *)
(*   "refused"          a required field is missing, or the file is        *)
(*   "other"            answered from the request alone: status, patch,    *)
(*                      system, OPTIONS, unknown paths                     *)
(*   "page"             the dashboard, the WebSocket upgrade, and other    *)
(*                      paths outside the wrapped ones                     *)
(***************************************************************************)
EXTENDS AgentExecution

VARIABLES running,       \* ApiGateway.running
          server,        \* the HttpServer
          kind,          \* what each exchange asks for
          wants,         \* the document a lookup is about
          handler,       \* where the exchange's handler thread is
          reply,         \* the status code it is about to send
          raised,        \* an exception is on its way out of the handler
          status,        \* the status code sent to the client
          peer,          \* the client's end of the connection is open
          events,        \* the events written to an event stream
          closed,        \* the response body has been closed
          callback,      \* thenAccept's callback: none, waiting or ran
          activeAgents,  \* AgentHandler.activeAgents
          documentStore  \* DocumentHandler.documentStore

response == <<reply, raised, status, peer, events, closed, callback>>
serverVars == <<running, server, kind, wants>>
stores == <<activeAgents, documentStore>>
vars == <<agentVars, serverVars, handler, response, stores>>

Exchanges == Agents

Kinds == {"sync", "stream", "import", "lookup", "refused", "other", "page"}

Codes == {"101", "200", "204", "400", "404", "500"}

Handling == {"parse", "execute", "join", "headers", "start", "attach", "close",
             "send", "body", "finally", "wrap", "wrapBody"}

TypeOK ==
    /\ AgentTypeOK
    /\ running \in BOOLEAN
    /\ server \in {"down", "listening", "failed", "stopping", "closed"}
    /\ kind \in [Exchanges -> Kinds]
    /\ wants \in [Exchanges -> Exchanges]
    /\ handler \in [Exchanges -> Handling \cup {"none", "end", "died"}]
    /\ reply \in [Exchanges -> {"none"} \cup Codes]
    /\ raised \in [Exchanges -> BOOLEAN]
    /\ status \in [Exchanges -> {"none"} \cup Codes]
    /\ peer \in [Exchanges -> BOOLEAN]
    /\ \A e \in Exchanges : \A i \in 1 .. Len(events[e]) :
           events[e][i] \in {"start", "complete", "error"}
    /\ closed \in [Exchanges -> BOOLEAN]
    /\ callback \in [Exchanges -> {"none", "waiting", "ran"}]
    /\ activeAgents \subseteq Exchanges
    /\ documentStore \subseteq Exchanges

Init ==
    /\ AgentInit
    /\ running = FALSE
    /\ server = "down"
    /\ kind \in [Exchanges -> Kinds]
    /\ wants \in [Exchanges -> Exchanges]
    /\ \A e \in Exchanges : kind[e] # "lookup" => wants[e] = e
    /\ handler = [e \in Exchanges |-> "none"]
    /\ reply = [e \in Exchanges |-> "none"]
    /\ raised = [e \in Exchanges |-> FALSE]
    /\ status = [e \in Exchanges |-> "none"]
    /\ peer = [e \in Exchanges |-> TRUE]
    /\ events = [e \in Exchanges |-> <<>>]
    /\ closed = [e \in Exchanges |-> FALSE]
    /\ callback = [e \in Exchanges |-> "none"]
    /\ activeAgents = {}
    /\ documentStore = {}

-----------------------------------------------------------------------------
(* ApiGateway.start and stop.  The flag is set before the port is bound.   *)
Start ==
    /\ ~running
    /\ server = "down"
    /\ running' = TRUE
    /\ server' \in {"listening", "failed"}
    /\ UNCHANGED <<agentVars, kind, wants, handler, response, stores>>

Stop ==
    /\ running
    /\ running' = FALSE
    /\ server' = IF server = "listening" THEN "stopping" ELSE "closed"
    /\ UNCHANGED <<agentVars, kind, wants, handler, response, stores>>

(* External: HttpServer.stop(2) closes every connection when the exchanges *)
(* have ended or two seconds have passed; it stops no handler thread.      *)
ServerCloses ==
    /\ server = "stopping"
    /\ server' = "closed"
    /\ peer' = [e \in Exchanges |-> FALSE]
    /\ UNCHANGED <<agentVars, running, kind, wants, handler, reply, raised,
                   status, events, closed, callback, stores>>

\* External: a client closes its end of the connection.
PeerCloses(e) ==
    /\ peer[e]
    /\ handler[e] # "none"
    /\ peer' = [peer EXCEPT ![e] = FALSE]
    /\ UNCHANGED <<agentVars, serverVars, handler, reply, raised, status,
                   events, closed, callback, stores>>

\* External: the server accepts a request and starts its handler thread.
Receive(e) ==
    /\ server = "listening"
    /\ handler[e] = "none"
    /\ handler' = [handler EXCEPT ![e] = "parse"]
    /\ UNCHANGED <<agentVars, serverVars, response, stores>>

-----------------------------------------------------------------------------
\* The handler goes on to sendJson with a status code.
Reply(e, code) ==
    /\ reply' = [reply EXCEPT ![e] = code]
    /\ handler' = [handler EXCEPT ![e] = "send"]
    /\ UNCHANGED <<raised, status, peer, events, closed, callback>>

\* A handler that answers without touching any state.
Answer(e, k, codes) ==
    /\ handler[e] = "parse"
    /\ kind[e] = k
    /\ \E code \in codes : Reply(e, code)
    /\ UNCHANGED <<agentVars, serverVars, stores>>

\* handleExecute without a goal; handleImport without a known, existing file
RefuseExecute(e) == Answer(e, "refused", {"400"})
RefuseImport(e) == Answer(e, "refused", {"400", "404"})

\* status, patch, SystemHandler, paths no handler knows, and OPTIONS
AnswerStatus(e) == Answer(e, "other", {"200"})
AnswerPatch(e) == Answer(e, "other", {"200", "400"})
AnswerSystem(e) == Answer(e, "other", {"200", "404"})
AnswerUnknown(e) == Answer(e, "other", {"404"})
AnswerOptions(e) == Answer(e, "other", {"204"})

\* handleStaticFiles and handleWebSocketUpgrade, which are not wrapped
AnswerPage(e) == Answer(e, "page", {"200", "404"})
AnswerUpgrade(e) == Answer(e, "page", {"101", "400"})

Found(e) == IF wants[e] \in documentStore THEN "200" ELSE "404"

GetDocument(e) == Answer(e, "lookup", {Found(e)})
ExportDocument(e) == Answer(e, "lookup", {Found(e)})

(* handleImport: the document is stored before the answer is built; an     *)
(* exception of the importer becomes an answer of its own.                 *)
ImportDocument(e) ==
    /\ handler[e] = "parse"
    /\ kind[e] = "import"
    /\ documentStore' = documentStore \cup {e}
    /\ Reply(e, "200")
    /\ UNCHANGED <<agentVars, serverVars, activeAgents>>

ImportFails(e) ==
    /\ handler[e] = "parse"
    /\ kind[e] = "import"
    /\ Reply(e, "500")
    /\ UNCHANGED <<agentVars, serverVars, stores>>

PutAgent(e) ==
    /\ handler[e] = "parse"
    /\ kind[e] \in {"sync", "stream"}
    /\ activeAgents' = activeAgents \cup {e}
    /\ handler' = [handler EXCEPT ![e] =
                     IF kind[e] = "sync" THEN "execute" ELSE "headers"]
    /\ UNCHANGED <<agentVars, serverVars, response, documentStore>>

-----------------------------------------------------------------------------
(* handleSyncExecute                                                       *)
CallExecute(e) ==
    /\ handler[e] = "execute"
    /\ \E g \in Goals : Execute(e, g)
    /\ handler' = [handler EXCEPT ![e] =
                     IF kind[e] = "sync" THEN "join" ELSE "attach"]
    /\ UNCHANGED <<serverVars, response, stores>>

\* Seeded fault: an agent that failed is answered like one that did not.
JoinReturns_IgnoresError(e) ==
    /\ handler[e] = "join"
    /\ Settled(e)
    /\ Reply(e, "200")
    /\ UNCHANGED <<agentVars, serverVars, stores>>

\* Seeded fault: only a result ends the wait.
JoinReturns_OnlyResult(e) ==
    /\ handler[e] = "join"
    /\ future[e] = "done"
    /\ Reply(e, "200")
    /\ UNCHANGED <<agentVars, serverVars, stores>>

JoinReturns(e) ==
    /\ handler[e] = "join"
    /\ Settled(e)
    /\ Reply(e, IF future[e] = "done" THEN "200" ELSE "500")
    /\ UNCHANGED <<agentVars, serverVars, stores>>

-----------------------------------------------------------------------------
(* handleStreamExecute.  A write succeeds, or fails because the connection *)
(* is gone; the JDK's output stream may still take bytes when it is.       *)
Writable(e) == peer[e]

StreamHeaders(e) ==
    /\ handler[e] = "headers"
    /\ status' = [status EXCEPT ![e] = "200"]
    /\ handler' = [handler EXCEPT ![e] = "start"]
    /\ UNCHANGED <<agentVars, serverVars, reply, raised, peer, events, closed,
                   callback, stores>>

\* sendResponseHeaders is called before the try that removes the agent.
StreamHeadersFail(e) ==
    /\ handler[e] = "headers"
    /\ ~Writable(e)
    /\ handler' = [handler EXCEPT ![e] = "wrap"]
    /\ UNCHANGED <<agentVars, serverVars, response, stores>>

WriteStart(e) ==
    /\ handler[e] = "start"
    /\ events' = [events EXCEPT ![e] = Append(@, "start")]
    /\ handler' = [handler EXCEPT ![e] = "execute"]
    /\ UNCHANGED <<agentVars, serverVars, reply, raised, status, peer, closed,
                   callback, stores>>

WriteStartFails(e) ==
    /\ handler[e] = "start"
    /\ ~Writable(e)
    /\ closed' = [closed EXCEPT ![e] = TRUE]
    /\ raised' = [raised EXCEPT ![e] = TRUE]
    /\ handler' = [handler EXCEPT ![e] = "finally"]
    /\ UNCHANGED <<agentVars, serverVars, reply, status, peer, events,
                   callback, stores>>

(* The callbacks' write of the outcome: on a closed stream, and on a lost  *)
(* connection, the exception is ignored.                                   *)
WriteOutcome(e) ==
    LET event == IF future[e] = "done" THEN "complete" ELSE "error"
    IN  \/ ~closed[e] /\ events' = [events EXCEPT ![e] = Append(@, event)]
        \/ (closed[e] \/ ~Writable(e)) /\ events' = events

\* Seeded fault: a settled future is answered at once and by its callback.
Attach_BothWays(e) ==
    /\ handler[e] = "attach"
    /\ IF Settled(e) THEN WriteOutcome(e) ELSE events' = events
    /\ callback' = [callback EXCEPT ![e] = "waiting"]
    /\ handler' = [handler EXCEPT ![e] = "close"]
    /\ UNCHANGED <<agentVars, serverVars, reply, raised, status, peer, closed, stores>>

(* thenAccept: a settled future runs the callback in the handler thread.   *)
Attach(e) ==
    /\ handler[e] = "attach"
    /\ IF Settled(e)
       THEN WriteOutcome(e) /\ callback' = [callback EXCEPT ![e] = "ran"]
       ELSE events' = events /\ callback' = [callback EXCEPT ![e] = "waiting"]
    /\ handler' = [handler EXCEPT ![e] = "close"]
    /\ UNCHANGED <<agentVars, serverVars, reply, raised, status, peer, closed, stores>>

\* The pool thread that settled the future runs the waiting callback.
RunCallback(e) ==
    /\ callback[e] = "waiting"
    /\ Settled(e)
    /\ WriteOutcome(e)
    /\ callback' = [callback EXCEPT ![e] = "ran"]
    /\ UNCHANGED <<agentVars, serverVars, handler, reply, raised, status, peer,
                   closed, stores>>

(* The end of the try block closes the stream; closing may raise.          *)
CloseStream(e) ==
    /\ handler[e] = "close"
    /\ closed' = [closed EXCEPT ![e] = TRUE]
    /\ raised' \in {raised, [raised EXCEPT ![e] = ~Writable(e)]}
    /\ handler' = [handler EXCEPT ![e] = "finally"]
    /\ UNCHANGED <<agentVars, serverVars, reply, status, peer, events, callback, stores>>

-----------------------------------------------------------------------------
\* Seeded fault: the agent is removed only when nothing was raised.
RemoveAgent_NotWhenRaised(e) ==
    /\ handler[e] = "finally"
    /\ activeAgents' = IF raised[e] THEN activeAgents ELSE activeAgents \ {e}
    /\ handler' = [handler EXCEPT ![e] = IF raised[e] THEN "wrap" ELSE "end"]
    /\ UNCHANGED <<agentVars, serverVars, response, documentStore>>

\* The finally of both execute handlers.
RemoveAgent(e) ==
    /\ handler[e] = "finally"
    /\ activeAgents' = activeAgents \ {e}
    /\ handler' = [handler EXCEPT ![e] = IF raised[e] THEN "wrap" ELSE "end"]
    /\ UNCHANGED <<agentVars, serverVars, response, documentStore>>

\* OPTIONS, and of the unwrapped handlers all but the dashboard, write none.
HasBody(e) == reply[e] # "204" /\ (kind[e] = "page" => reply[e] = "200")

(* RequestHandler.sendJson: the headers, then the body and its close.      *)
SendHeaders(e) ==
    /\ handler[e] = "send"
    /\ status[e] = "none"
    /\ status' = [status EXCEPT ![e] = reply[e]]
    /\ handler' = [handler EXCEPT ![e] = IF HasBody(e) THEN "body" ELSE "end"]
    /\ UNCHANGED <<agentVars, serverVars, reply, raised, peer, events, closed,
                   callback, stores>>

SendBody(e) ==
    /\ handler[e] = "body"
    /\ closed' = [closed EXCEPT ![e] = TRUE]
    /\ handler' = [handler EXCEPT ![e] = IF kind[e] = "sync" THEN "finally" ELSE "end"]
    /\ UNCHANGED <<agentVars, serverVars, reply, raised, status, peer, events,
                   callback, stores>>

(* An IOException of sendJson: headers sent twice, or a lost connection.   *)
(* The catch of handleSyncExecute and of handleImport turns the one of the *)
(* good answer into an error answer; every other one leaves the handler.   *)
SendFails(e) ==
    /\ \/ handler[e] = "send" /\ (status[e] # "none" \/ ~Writable(e))
       \/ handler[e] = "body" /\ ~Writable(e)
    /\ IF kind[e] \in {"sync", "import"} /\ reply[e] = "200"
       THEN Reply(e, "500")
       ELSE /\ raised' = [raised EXCEPT ![e] = TRUE]
            /\ handler' = [handler EXCEPT ![e] =
                             CASE kind[e] = "sync" -> "finally"
                               [] kind[e] = "page" -> "died"
                               [] OTHER -> "wrap"]
            /\ UNCHANGED <<reply, status, peer, events, closed, callback>>
    /\ UNCHANGED <<agentVars, serverVars, stores>>

(* ApiGateway.wrap: an exception that left the handler is answered with a  *)
(* 500, unless that raises as well: then the server drops the connection.  *)
WrapSends(e) ==
    /\ handler[e] = "wrap"
    /\ status[e] = "none"
    /\ status' = [status EXCEPT ![e] = "500"]
    /\ handler' = [handler EXCEPT ![e] = "wrapBody"]
    /\ UNCHANGED <<agentVars, serverVars, reply, raised, peer, events, closed,
                   callback, stores>>

WrapBody(e) ==
    /\ handler[e] = "wrapBody"
    /\ closed' = [closed EXCEPT ![e] = TRUE]
    /\ handler' = [handler EXCEPT ![e] = "end"]
    /\ UNCHANGED <<agentVars, serverVars, reply, raised, status, peer, events,
                   callback, stores>>

WrapFails(e) ==
    /\ \/ handler[e] = "wrap" /\ (status[e] # "none" \/ ~Writable(e))
       \/ handler[e] = "wrapBody" /\ ~Writable(e)
    /\ handler' = [handler EXCEPT ![e] = "died"]
    /\ UNCHANGED <<agentVars, serverVars, response, stores>>

-----------------------------------------------------------------------------
(* External: an Error (out of memory, say) in a run whose registry is      *)
(* empty and which therefore calls no tool.                                *)
RunDies(e) ==
    /\ run[e] = "loop"
    /\ run' = [run EXCEPT ![e] = "over"]
    /\ future' = [future EXCEPT ![e] = "exceptional"]
    /\ UNCHANGED <<goal, plan, steps, planStatus, tool, tools, memory,
                   serverVars, handler, response, stores>>

AgentRuns(e) == RunStep(e) /\ UNCHANGED <<serverVars, handler, response, stores>>

HandlerStep(e) ==
    \/ RefuseExecute(e) \/ RefuseImport(e) \/ GetDocument(e) \/ ExportDocument(e)
    \/ AnswerStatus(e) \/ AnswerPatch(e) \/ AnswerSystem(e) \/ AnswerUnknown(e)
    \/ AnswerOptions(e) \/ AnswerPage(e) \/ AnswerUpgrade(e)
    \/ ImportDocument(e) \/ ImportFails(e) \/ PutAgent(e)
    \/ CallExecute(e) \/ JoinReturns(e)
    \/ StreamHeaders(e) \/ StreamHeadersFail(e) \/ WriteStart(e)
    \/ WriteStartFails(e) \/ Attach(e) \/ CloseStream(e) \/ RemoveAgent(e)
    \/ SendHeaders(e) \/ SendBody(e) \/ SendFails(e)
    \/ WrapSends(e) \/ WrapBody(e) \/ WrapFails(e)

Next ==
    \/ Start \/ Stop \/ ServerCloses
    \/ \E e \in Exchanges :
          \/ Receive(e) \/ PeerCloses(e) \/ HandlerStep(e) \/ RunCallback(e)
          \/ AgentRuns(e) \/ RunDies(e)

(* Handler and pool threads that can go on do.  Answers are at most some   *)
(* kilobytes and fit the socket's buffer, so a client that does not read   *)
(* them does not block the thread that writes them.                        *)
Fairness ==
    \A e \in Exchanges : WF_vars(HandlerStep(e)) /\ WF_vars(AgentRuns(e))

Spec == Init /\ [][Next]_vars /\ Fairness

-----------------------------------------------------------------------------
Executing == {"execute", "join", "headers", "start", "attach", "close", "send",
              "body", "finally"}

(* activeAgents agrees with the runs, so GET /agent/status can be trusted. *)
(* An agent is listed only while its handler runs; the exception is a      *)
(* streamed request whose headers could not be sent: that call stands      *)
(* before the try block, and its agent stays listed.  And the agent of a   *)
(* request without "stream" is listed for as long as its run lasts.  (That *)
(* of a streamed one leaves the map when its handler ends, with its run    *)
(* just started: status does not count it.)                                *)
ActiveAreTheRuns ==
    /\ \A e \in activeAgents :
          \/ handler[e] \in Executing
          \/ kind[e] = "stream" /\ events[e] = <<>> /\ status[e] # "200"
    /\ \A e \in Exchanges :
          kind[e] = "sync" /\ future[e] = "running" => e \in activeAgents

(* A 200 tells the truth, whatever failed and was answered again after it: *)
(* the agent's run has a result, the imported document is stored, and so   *)
(* is the one that was asked for.                                          *)
OkMeansDone ==
    \A e \in Exchanges : status[e] = "200" =>
        /\ kind[e] = "sync" => future[e] = "done"
        /\ kind[e] = "import" => e \in documentStore
        /\ kind[e] = "lookup" => wants[e] \in documentStore
        /\ kind[e] # "refused"

(* An event stream is its start, then at most one outcome, the one the run *)
(* really had, whichever of the two threads writes it.                     *)
StreamIsWellFormed ==
    \A e \in Exchanges :
        /\ events[e] \in {<<>>, <<"start">>, <<"start", "complete">>, <<"start", "error">>}
        /\ events[e] = <<"start", "complete">> => future[e] = "done"
        /\ events[e] = <<"start", "error">> => future[e] = "exceptional"

(* Every handler ends, whether its client stays or goes, the agent returns *)
(* or fails, or the gateway is stopped meanwhile.                          *)
EveryExchangeEnds ==
    \A e \in Exchanges : handler[e] = "parse" ~> handler[e] \in {"end", "died"}
=============================================================================
