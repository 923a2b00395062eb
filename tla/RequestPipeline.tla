-------------------------- MODULE RequestPipeline --------------------------
(***************************************************************************)
(* A request on its way through the layers that main.py puts together:     *)
(*                                                                         *)
(*   ServerErrorMiddleware      the catch-all, global_exception_handler    *)
(*   CorrelationIdMiddleware    the id in context, log lines and header    *)
(*   ExceptionMiddleware        the handlers for particular exceptions     *)
(*   route                      body and path are validated, some routes   *)
(*                              write a line, and what the mediator        *)
(*                              returns is rendered as the response_model  *)
(*   LoggingBehavior            one line before, one after the handler     *)
(*   PerformanceBehavior        a warning when the handler was slow        *)
(*   handler                    the use case, here only how it ends        *)
(*                                                                         *)
(* Starlette runs what is inside the correlation middleware in a task of   *)
(* its own, with a copy of the context of the task that made it.           *)
(* The lines the use cases write themselves are left out.                  *)
(***************************************************************************)
EXTENDS ErrorReplies, Sequences

CONSTANTS
    Tasks,         \* tasks of the server, one per request
    Routes,        \* where the requests of clients go
    UpstreamIds,   \* correlation ids that clients send
    Uuids,         \* what uuid4 may return
    NoId,          \* no correlation id: header absent or empty, nothing bound
    Failures       \* the exceptions that use cases are let end with

VARIABLES
    request,          \* per task: the request, NoRequest before it
    stage,            \* per task: how far the request has come
    correlation_id,   \* per task: the local variable of dispatch
    context,          \* per task: the id bound in the outer and the inner task
    lines,            \* per task: its log lines, each with the id it carries
    outcome,          \* per task: what comes back through call_next
    reply             \* per task: what was sent to the client

pipelineVars == <<request, stage, correlation_id, context, lines, outcome, reply>>

(* The order routes by what they do around their use case: the routes that *)
(* create an order, update it and change its status; the two that read;    *)
(* and the one that deletes.                                               *)
UseCases == {"write", "read", "delete"}

(* Where else a request can go: to the health route, to no route, to an    *)
(* order route with a body or path that is not valid.                      *)
Targets == UseCases \cup {"health", "unknown", "invalid"}

Request == [target : Routes, upstream : UpstreamIds \cup {NoId}]
NoRequest == [target |-> "none", upstream |-> NoId]

Raisable == {"NotFoundException", "BusinessRuleViolationException", "ValueError",
             "StaleDataError", "DBAPIError", "TimeoutError"}

ASSUME PipelineConstants ==
    /\ Routes \subseteq Targets
    /\ NoId \notin UpstreamIds \cup Uuids
    /\ UpstreamIds \cap Uuids = {}
    /\ Failures \subseteq Raisable

\* Every task draws an id that no other draws.
Apart(draws) == \A t, u \in Tasks : t # u => draws[t] # draws[u]

\* uuid4 draws from 2^122 values, far more than there are tasks.
ASSUME EnoughUuids == \E draws \in [Tasks -> Uuids] : Apart(draws)

-----------------------------------------------------------------------------
\* FastAPI's own handlers write no line.
Writes(exception) == exception \notin {"HTTPException", "RequestValidationError"}

Returned(code) == [raised |-> "nothing", code |-> code]
Raised(exception) == [raised |-> exception, code |-> 0]
NoOutcome == [raised |-> "nothing", code |-> 0]
NoReply == [code |-> 0, id |-> NoId]

Unbound == [outer |-> NoId, inner |-> NoId]

PipelineInit ==
    /\ request = [t \in Tasks |-> NoRequest]
    /\ stage = [t \in Tasks |-> "idle"]
    /\ correlation_id = [t \in Tasks |-> NoId]
    /\ context = [t \in Tasks |-> Unbound]
    /\ lines = [t \in Tasks |-> <<>>]
    /\ outcome = [t \in Tasks |-> NoOutcome]
    /\ reply = [t \in Tasks |-> NoReply]

GoTo(t, label) == stage' = [stage EXCEPT ![t] = label]

\* The lines of these events, with what is bound in that part of the task.
Logged(t, part, events) ==
    lines[t] \o [i \in DOMAIN events |-> [event |-> events[i], id |-> context[t][part]]]

Log(t, part, events) == lines' = [lines EXCEPT ![t] = Logged(t, part, events)]

\* The server makes a task for a request; its context is empty.
Receive(t) ==
    /\ stage[t] = "idle"
    /\ \E r \in Request : request' = [request EXCEPT ![t] = r]
    /\ GoTo(t, "received")
    /\ UNCHANGED <<correlation_id, context, lines, outcome, reply>>

\* uuid4 returns what no other request has; which id that is makes no
\* difference, so each task has one for all its requests.
uuid4 == CHOOSE draws \in [Tasks -> Uuids] : Apart(draws)

\* Faulty variant: the id is kept on the middleware, which all requests share.
RememberOnInstance(t, id) == correlation_id' = [u \in Tasks |-> id]
Remember(t, id) == correlation_id' = [correlation_id EXCEPT ![t] = id]

\* Faulty variant: clear_contextvars comes after bind_contextvars.
BindThenClear(id) == Unbound
Bind(id) == [outer |-> id, inner |-> id]

\* CorrelationIdMiddleware.dispatch up to call_next, which makes the inner
\* task with a copy of the context.
Dispatch(t) ==
    LET id == IF request[t].upstream = NoId THEN uuid4[t] ELSE request[t].upstream
    IN  /\ stage[t] = "received"
        /\ Remember(t, id)
        /\ context' = [context EXCEPT ![t] = Bind(id)]
        /\ GoTo(t, "forwarded")
        /\ UNCHANGED <<request, lines, outcome, reply>>

-----------------------------------------------------------------------------
\* An exception meets the handlers inside the correlation middleware: one of
\* them answers, or it leaves the inner task for call_next.
Throw(t, exception, events) ==
    IF IsHandled(exception)
    THEN /\ Log(t, "inner", IF Writes(exception) THEN Append(events, "refused") ELSE events)
         /\ outcome' = [outcome EXCEPT ![t] = Returned(HttpStatus(exception))]
    ELSE /\ Log(t, "inner", events)
         /\ outcome' = [outcome EXCEPT ![t] = Raised(exception)]

\* The inner task ends without a use case.
AnswerEarly(t) ==
    /\ stage[t] = "forwarded"
    /\ \/ /\ request[t].target = "health"
          /\ outcome' = [outcome EXCEPT ![t] = Returned(200)]
          /\ UNCHANGED lines
       \/ request[t].target = "unknown" /\ Throw(t, "HTTPException", <<>>)
       \/ request[t].target = "invalid" /\ Throw(t, "RequestValidationError", <<>>)
    /\ GoTo(t, "returned")
    /\ UNCHANGED <<request, correlation_id, context, reply>>

\* The lines before the handler: of the route, if it writes one, and of the
\* LoggingBehavior.
Opening(target) == IF target = "write" THEN <<"called", "handling">> ELSE <<"handling">>

\* The route sends the command to a new handler, wrapped in both behaviors.
CallHandler(t) ==
    /\ stage[t] = "forwarded"
    /\ request[t].target \in UseCases
    /\ Log(t, "inner", Opening(request[t].target))
    /\ GoTo(t, "handling")
    /\ UNCHANGED <<request, correlation_id, context, outcome, reply>>

\* What PerformanceBehavior and LoggingBehavior write when the handler returns,
\* in time or slowly.
Success == {<<"handled">>, <<"slow", "handled">>}

\* The handler returns and the route renders its result as the response_model;
\* 200 stands for every 2xx.
HandlerReturns(t) ==
    /\ stage[t] = "handling"
    /\ \E events \in Success : Log(t, "inner", events)
    /\ outcome' = [outcome EXCEPT ![t] = Returned(200)]
    /\ GoTo(t, "returned")
    /\ UNCHANGED <<request, correlation_id, context, reply>>

(* The handler returns, and the route cannot render the result: a total    *)
(* that has overflowed to infinity is a float, but JSONResponse refuses it.*)
(* The behaviors are over by then.  A delete has no body to render.        *)
RenderingFails(t) ==
    /\ stage[t] = "handling"
    /\ request[t].target # "delete"
    /\ \E events \in Success : Throw(t, "ValueError", events)
    /\ GoTo(t, "returned")
    /\ UNCHANGED <<request, correlation_id, context, reply>>

\* Faulty variant: LoggingBehavior does not raise again what it has logged; a
\* route without a response body is then answered as if nothing had happened.
HandlerSwallows(t) ==
    /\ stage[t] = "handling"
    /\ Log(t, "inner", <<"failed">>)
    /\ outcome' = [outcome EXCEPT ![t] = Returned(200)]
    /\ GoTo(t, "returned")
    /\ UNCHANGED <<request, correlation_id, context, reply>>

\* The handler raises: PerformanceBehavior is passed by, LoggingBehavior
\* writes its line and raises again.
HandlerRaises(t) ==
    /\ stage[t] = "handling"
    /\ \E exception \in Failures : Throw(t, exception, <<"failed">>)
    /\ GoTo(t, "returned")
    /\ UNCHANGED <<request, correlation_id, context, reply>>

-----------------------------------------------------------------------------
Send(t, code, id) ==
    /\ reply' = [reply EXCEPT ![t] = [code |-> code, id |-> id]]
    /\ GoTo(t, "answered")

\* call_next has a response: dispatch writes the header.
Echo(t) ==
    /\ stage[t] = "returned"
    /\ outcome[t].raised = "nothing"
    /\ Send(t, outcome[t].code, correlation_id[t])
    /\ UNCHANGED <<request, correlation_id, context, lines, outcome>>

\* call_next raises through dispatch; ServerErrorMiddleware answers.
CatchAll(t) ==
    /\ stage[t] = "returned"
    /\ outcome[t].raised # "nothing"
    /\ Log(t, "outer", <<"unhandled">>)
    /\ Send(t, 500, NoId)
    /\ UNCHANGED <<request, correlation_id, context, outcome>>

\* The client has the reply and the task is over.
Reset(over) ==
    /\ request' = [t \in Tasks |-> IF t \in over THEN NoRequest ELSE request[t]]
    /\ stage' = [t \in Tasks |-> IF t \in over THEN "idle" ELSE stage[t]]
    /\ correlation_id' = [t \in Tasks |-> IF t \in over THEN NoId ELSE correlation_id[t]]
    /\ context' = [t \in Tasks |-> IF t \in over THEN Unbound ELSE context[t]]
    /\ lines' = [t \in Tasks |-> IF t \in over THEN <<>> ELSE lines[t]]
    /\ outcome' = [t \in Tasks |-> IF t \in over THEN NoOutcome ELSE outcome[t]]
    /\ reply' = [t \in Tasks |-> IF t \in over THEN NoReply ELSE reply[t]]

Finish(t) == stage[t] = "answered" /\ Reset({t})

RequestStep(t) ==
    \/ Dispatch(t) \/ AnswerEarly(t) \/ CallHandler(t)
    \/ HandlerReturns(t) \/ RenderingFails(t) \/ HandlerRaises(t)
    \/ Echo(t) \/ CatchAll(t) \/ Finish(t)

=============================================================================
