------------------------------ MODULE Lifespan ------------------------------
(***************************************************************************)
(* Start and stop of the server processes, the lifespan of src/main.py.    *)
(* Every process that starts makes sure of the tables, by create_all in    *)
(* one transaction, before it serves; processes that start together do so  *)
(* against the same PostgreSQL database.                                   *)
(*                                                                         *)
(* create_all looks first, table by table, each look with a snapshot of    *)
(* its own, then looks for the enum type of orders.status, and creates what*)
(* it missed.  PostgreSQL runs DDL in the transaction: nobody sees it      *)
(* before the commit, and the creation of a name that an open transaction  *)
(* has created waits for it.                                               *)
(***************************************************************************)
EXTENDS Integers, Sequences

CONSTANTS Processes     \* the server processes that share the database

Objects == {"order_status", "orders", "order_items"}

VARIABLES
    schema,     \* the objects in the catalogue of the database
    phase,      \* per process: down, starting, serving or stopping
    step,       \* per process: its next statement in create_all
    missing,    \* per process: what it did not find
    created,    \* per process: what its open transaction has created
    outrun      \* per process: its last start failed on a name another had created

lifespanVars == <<schema, phase, step, missing, created, outrun>>

Check(object) == [does |-> "check", object |-> object]
Create(object) == [does |-> "create", object |-> object]

create_all == <<Check("orders"), Check("order_items"), Check("order_status"),
                Create("order_status"), Create("orders"), Create("order_items")>>

Done == Len(create_all) + 1

\* Whether a statement is sent when `lacking' was found missing so far.
Sent(statement, lacking) == statement.does = "create" => statement.object \in lacking

NextStep(i, lacking) ==
    CHOOSE j \in i + 1 .. Done :
        /\ j = Done \/ Sent(create_all[j], lacking)
        /\ \A k \in i + 1 .. j - 1 : ~Sent(create_all[k], lacking)

-----------------------------------------------------------------------------
LifespanInit ==
    /\ schema = {}
    /\ phase = [p \in Processes |-> "down"]
    /\ step = [p \in Processes |-> 1]
    /\ missing = [p \in Processes |-> {}]
    /\ created = [p \in Processes |-> {}]
    /\ outrun = [p \in Processes |-> FALSE]

\* The process begins (again); engine.begin() opens a transaction.
Start(p) ==
    /\ phase[p] = "down"
    /\ phase' = [phase EXCEPT ![p] = "starting"]
    /\ outrun' = [outrun EXCEPT ![p] = FALSE]
    /\ UNCHANGED <<schema, step, missing, created>>

Sending(p, does) ==
    /\ phase[p] = "starting"
    /\ step[p] # Done
    /\ create_all[step[p]].does = does

Object(p) == create_all[step[p]].object

\* has_table and has_type read the committed catalogue.
LookFor(p) ==
    LET lacking == IF Object(p) \in schema THEN missing[p] ELSE missing[p] \cup {Object(p)}
    IN  /\ Sending(p, "check")
        /\ missing' = [missing EXCEPT ![p] = lacking]
        /\ step' = [step EXCEPT ![p] = NextStep(@, lacking)]
        /\ UNCHANGED <<schema, phase, created, outrun>>

\* No other open transaction has created the same name.
Unclaimed(p) == \A q \in Processes \ {p} : Object(p) \notin created[q]

\* Faulty variant: every statement is committed at once.
CreateAtOnce(p) ==
    /\ Sending(p, "create")
    /\ Object(p) \notin schema
    /\ schema' = schema \cup {Object(p)}
    /\ step' = [step EXCEPT ![p] = NextStep(@, missing[p])]
    /\ UNCHANGED <<phase, missing, created, outrun>>

CreateObject(p) ==
    /\ Sending(p, "create")
    /\ Unclaimed(p)
    /\ Object(p) \notin schema
    /\ created' = [created EXCEPT ![p] = @ \cup {Object(p)}]
    /\ step' = [step EXCEPT ![p] = NextStep(@, missing[p])]
    /\ UNCHANGED <<schema, phase, missing, outrun>>

\* Faulty variant: the transaction stays open when create_all is over.
EndStartOpen(p) ==
    /\ step' = [step EXCEPT ![p] = 1]
    /\ missing' = [missing EXCEPT ![p] = {}]
    /\ UNCHANGED created

\* The engine's transaction is over and create_all with it.
EndStart(p) ==
    /\ step' = [step EXCEPT ![p] = 1]
    /\ missing' = [missing EXCEPT ![p] = {}]
    /\ created' = [created EXCEPT ![p] = {}]

\* The process is gone, and what it had not committed is rolled back.
GoDown(p) ==
    /\ phase' = [phase EXCEPT ![p] = "down"]
    /\ EndStart(p)
    /\ UNCHANGED schema

\* Another process was faster: the statement raises, the lifespan with it.
CreateFails(p) ==
    /\ Sending(p, "create")
    /\ Unclaimed(p)
    /\ Object(p) \in schema
    /\ GoDown(p)
    /\ outrun' = [outrun EXCEPT ![p] = TRUE]

\* Faulty variant: engine.connect(), which does not commit on exit.
ServeUncommitted(p) ==
    /\ phase[p] = "starting"
    /\ step[p] = Done
    /\ phase' = [phase EXCEPT ![p] = "serving"]
    /\ EndStart(p)
    /\ UNCHANGED <<schema, outrun>>

\* The block of engine.begin() is left, so the transaction commits; yield.
Serve(p) ==
    /\ phase[p] = "starting"
    /\ step[p] = Done
    /\ schema' = schema \cup created[p]
    /\ phase' = [phase EXCEPT ![p] = "serving"]
    /\ EndStart(p)
    /\ UNCHANGED outrun

\* The database refuses or loses a statement of the start.
StartFails(p) == phase[p] = "starting" /\ GoDown(p) /\ UNCHANGED outrun

\* The server is told to stop and takes no new request.
Stop(p) ==
    /\ phase[p] = "serving"
    /\ phase' = [phase EXCEPT ![p] = "stopping"]
    /\ UNCHANGED <<schema, step, missing, created, outrun>>

\* After the yield: engine.dispose() closes the pooled connections.
Dispose(p) == phase[p] = "stopping" /\ GoDown(p) /\ UNCHANGED outrun

Kill(p) == phase[p] # "down" /\ GoDown(p) /\ UNCHANGED outrun

StartStep(p) == LookFor(p) \/ CreateObject(p) \/ CreateFails(p) \/ Serve(p)

=============================================================================
