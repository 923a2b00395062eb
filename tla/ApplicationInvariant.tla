------------------------ MODULE ApplicationInvariant ------------------------
(***************************************************************************)
(* The inductive invariant of Application: how far each process has come   *)
(* with create_all, and what each request carries from layer to layer.     *)
(***************************************************************************)
EXTENDS Application

\* The objects that the statements before the i-th one look for or create.
Passed(i, does) ==
    {create_all[j].object : j \in {k \in 1 .. i - 1 : create_all[k].does = does}}

(* As long as there is no schema, a start has missed all it looked for and *)
(* has created all it passed; once there is one, nothing can be created.   *)
StartOf(p) ==
    /\ phase[p] # "starting" => step[p] = 1 /\ missing[p] = {} /\ created[p] = {}
    /\ schema = {} => /\ missing[p] = Passed(step[p], "check")
                      /\ created[p] = Passed(step[p], "create")
    /\ schema = Objects => created[p] = {}

\* No two open transactions have created the same name.
StartsApart == \A p, q \in Processes : p # q => created[p] \cap created[q] = {}

Starts == (\A p \in Processes : StartOf(p)) /\ StartsApart

-----------------------------------------------------------------------------
\* The id of a request: its client's or a fresh one, bound in both tasks.
IdOf(t) ==
    /\ stage[t] \in {"idle", "received"} => correlation_id[t] = NoId
    /\ stage[t] \notin {"idle", "received"} =>
          /\ IF request[t].upstream = NoId
             THEN correlation_id[t] = uuid4[t]
             ELSE correlation_id[t] = request[t].upstream
          /\ context[t] = Bind(correlation_id[t])
    /\ \A i \in DOMAIN lines[t] : lines[t][i].id = correlation_id[t]
    /\ reply[t].id \in {NoId, correlation_id[t]}

\* What the log says after the opening lines when the inner task has ended.
Closings(target, result) ==
    IF result.raised # "nothing" THEN {<<"failed">>} ELSE Endings(target, result.code)

\* How the inner task can have ended, and what it has written by then.
Ended(t) ==
    /\ request[t].target \in UseCases =>
          \E ending \in Closings(request[t].target, outcome[t]) :
             Told(t) = Opening(request[t].target) \o ending
    /\ request[t].target \notin UseCases => Told(t) = <<>>
    /\ outcome[t].raised # "nothing" => request[t].target \in UseCases

\* What a request has written at each stage.
LogOf(t) ==
    /\ stage[t] = "idle" => request[t] = NoRequest
    /\ stage[t] # "idle" => request[t] \in Request
    /\ stage[t] \in {"idle", "received", "forwarded"} => lines[t] = <<>>
    /\ stage[t] # "answered" => reply[t] = NoReply
    /\ stage[t] = "handling" =>
          request[t].target \in UseCases /\ Told(t) = Opening(request[t].target)
    /\ stage[t] = "returned" => Ended(t)

Carried == \A t \in Tasks : IdOf(t) /\ LogOf(t)

(* The conjunction that every step of the application preserves.           *)
ApplicationInvariant ==
    /\ TypeOK
    /\ SchemaIsWhole
    /\ Starts
    /\ ServedWithTables
    /\ Carried
    /\ LogMatchesReply
    /\ UnmarkedRepliesAreInTheLog

=============================================================================
