---------------------------- MODULE Application ----------------------------
(***************************************************************************)
(* The application as it runs: server processes that start, serve, stop    *)
(* and die (Lifespan), and the requests that each of them has under way    *)
(* (RequestPipeline).  A process takes requests between the two halves of  *)
(* its lifespan only, and the second half waits for the requests it has    *)
(* taken; both are how uvicorn drives the lifespan of an application.      *)
(***************************************************************************)
EXTENDS Lifespan, RequestPipeline

VARIABLE server     \* per task: the process it runs in, NoServer when idle

CONSTANT NoServer

ASSUME NoServerIsNoProcess == NoServer \notin Processes

vars == <<schema, phase, step, missing, created, outrun, request, stage, correlation_id,
          context, lines, outcome, reply, server>>

Init == LifespanInit /\ PipelineInit /\ server = [t \in Tasks |-> NoServer]

TasksOf(p) == {t \in Tasks : server[t] = p}

Accept(p, t) ==
    /\ phase[p] = "serving"
    /\ Receive(t)
    /\ server' = [server EXCEPT ![t] = p]
    /\ UNCHANGED lifespanVars

\* Faulty variant: the server keeps a task it is done with.
AdvanceAndKeep(t) == RequestStep(t) /\ UNCHANGED <<lifespanVars, server>>

Advance(t) ==
    /\ RequestStep(t)
    /\ server' = [server EXCEPT ![t] = IF stage'[t] = "idle" THEN NoServer ELSE @]
    /\ UNCHANGED lifespanVars

\* The rest of a process's life.
StopWhenIdle(p) == TasksOf(p) = {} /\ Dispose(p) /\ UNCHANGED <<pipelineVars, server>>

Live(p) ==
    \/ StartStep(p) /\ UNCHANGED <<pipelineVars, server>>
    \/ StopWhenIdle(p)

\* What nobody promises: that processes are started and stopped, and faults.
Environment(p) ==
    \/ (Start(p) \/ Stop(p) \/ StartFails(p)) /\ UNCHANGED <<pipelineVars, server>>
    \/ /\ Kill(p)
       /\ Reset(TasksOf(p))
       /\ server' = [t \in Tasks |-> IF server[t] = p THEN NoServer ELSE server[t]]

Next ==
    \/ \E p \in Processes : Live(p) \/ Environment(p)
    \/ \E p \in Processes, t \in Tasks : Accept(p, t)
    \/ \E t \in Tasks : Advance(t)

(* The event loop runs every task that is ready, and PostgreSQL hands a    *)
(* name to those that wait for it in turn, so nobody is passed over for    *)
(* ever.  Handlers are assumed to end; OrderService shows that they do.    *)
Fairness ==
    /\ \A p \in Processes : SF_vars(Live(p))
    /\ \A t \in Tasks : WF_vars(Advance(t))

Spec == Init /\ [][Next]_vars /\ Fairness

-----------------------------------------------------------------------------
(* Properties.                                                             *)

Phases == {"down", "starting", "serving", "stopping"}
Stages == {"idle", "received", "forwarded", "handling", "returned", "answered"}
Ids == UpstreamIds \cup Uuids \cup {NoId}
Events == {"called", "handling", "slow", "handled", "failed", "refused", "unhandled"}
Codes == {0, 200, 400, 404, 409, 422, 500}

\* Every variable holds a value of its type, and idle tasks have no server.
TypeOK ==
    /\ schema \subseteq Objects
    /\ phase \in [Processes -> Phases]
    /\ step \in [Processes -> 1 .. Done]
    /\ missing \in [Processes -> SUBSET Objects]
    /\ created \in [Processes -> SUBSET Objects]
    /\ outrun \in [Processes -> BOOLEAN]
    /\ request \in [Tasks -> Request \cup {NoRequest}]
    /\ stage \in [Tasks -> Stages]
    /\ correlation_id \in [Tasks -> Ids]
    /\ context \in [Tasks -> [outer : Ids, inner : Ids]]
    /\ lines \in [Tasks -> Seq([event : Events, id : Ids])]
    /\ outcome \in [Tasks -> [raised : Raisable \cup {"nothing"}, code : Codes]]
    /\ reply \in [Tasks -> [code : Codes, id : Ids]]
    /\ server \in [Tasks -> Processes \cup {NoServer}]
    /\ \A t \in Tasks : server[t] = NoServer <=> stage[t] = "idle"

(* Processes that start together, that fail and that die in the middle of  *)
(* a start leave the schema whole or leave none, so the next start can use *)
(* or make it.  Of processes that race for the tables one may fail on a    *)
(* name the other was faster to create; the tables are there then, so it   *)
(* succeeds when it is started again.                                      *)
SchemaIsWhole ==
    /\ schema \in {{}, Objects}
    /\ \A p \in Processes : outrun[p] => schema = Objects

(* A request is only ever under way in a process that has made sure of the *)
(* tables and has not yet given up its connections, and the tables are     *)
(* there for its handler.                                                  *)
ServedWithTables ==
    /\ \A p \in Processes : phase[p] \in {"serving", "stopping"} => schema = Objects
    /\ \A t \in Tasks : stage[t] # "idle" => phase[server[t]] \in {"serving", "stopping"}

(* The log lines of a request all carry one id, the one in the header of   *)
(* its reply, and it is the id the client sent, if it sent one; requests   *)
(* without one are told apart by it, however they overlap.                 *)
OneIdPerRequest ==
    \A t \in Tasks :
        LET ids == {lines[t][i].id : i \in DOMAIN lines[t]}
                       \cup (IF reply[t].id = NoId THEN {} ELSE {reply[t].id})
        IN  /\ request[t].upstream # NoId => ids \subseteq {request[t].upstream}
            /\ request[t].upstream = NoId =>
                  \E id \in Uuids :
                     /\ ids \subseteq {id}
                     /\ \A u \in Tasks \ {t} :
                           ids # {} => reply[u].id # id
                                       /\ \A i \in DOMAIN lines[u] : lines[u][i].id # id

\* The events of the lines of a request, in the order they were written.
Told(t) == [i \in DOMAIN lines[t] |-> lines[t][i].event]

(* What the log has to say after the opening lines of a use case that was  *)
(* answered with this code.                                                *)
Endings(target, code) ==
    CASE code = 200 -> Success
      [] code = 500 -> {<<"failed", "unhandled">>}
      [] code = 400 /\ target # "delete" ->
            {<<"failed", "refused">>} \cup {Append(events, "refused") : events \in Success}
      [] OTHER -> {<<"failed", "refused">>}

(* The layers log how each use case ended as the client was told.  The     *)
(* last line is that of the behavior if the client was told of success,    *)
(* that of an exception's handler if it was refused, and that of the       *)
(* catch-all if it was told 500.  Before it the behavior says whether the  *)
(* handler failed.  It has said "handled" of a request that is then        *)
(* refused only with 400 and only where there is a body to render: the     *)
(* response is rendered when the behaviors are over.                       *)
LogMatchesReply ==
    \A t \in Tasks : stage[t] = "answered" =>
        IF request[t].target \in UseCases
        THEN \E ending \in Endings(request[t].target, reply[t].code) :
                Told(t) = Opening(request[t].target) \o ending
        ELSE Told(t) = <<>>

(* The only replies without a correlation id are those of the catch-all,   *)
(* and for each of them the log has the exception under the request's id.  *)
UnmarkedRepliesAreInTheLog ==
    \A t \in Tasks : stage[t] = "answered" /\ reply[t].id = NoId =>
        /\ reply[t].code = 500
        /\ \E i \in DOMAIN lines[t] :
              lines[t][i] = [event |-> "unhandled", id |-> correlation_id[t]]

(* A start ends, in service or in failure, also when it waits for another  *)
(* process's transaction; and a stop ends, so every request that it waits  *)
(* for has been answered: no layer keeps one for ever.                     *)
PhasesEnd ==
    \A p \in Processes :
        phase[p] \in {"starting", "stopping"} ~> phase[p] \in {"serving", "down"}

-----------------------------------------------------------------------------
(* Every reply carries the correlation id: "Return it in the response      *)
(* header" (correlation_id.py).                                            *)
EveryReplyCarriesItsId ==
    \A t \in Tasks : stage[t] = "answered" => reply[t].id = correlation_id[t]

=============================================================================
