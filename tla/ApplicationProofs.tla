------------------------- MODULE ApplicationProofs -------------------------
(***************************************************************************)
(* Proof that ApplicationInvariant is an invariant of Application, and of  *)
(* the safety properties that follow from it, for any number of processes  *)
(* and of requests.                                                        *)
(***************************************************************************)
EXTENDS ApplicationInvariant, SequenceTheorems, TLAPS

(* The statements of create_all: three looks, then three creations.        *)
LEMMA Statements ==
    /\ Done = 7
    /\ \A i \in 1 .. 6 : create_all[i].does = (IF i <= 3 THEN "check" ELSE "create")
    /\ create_all[1].object = "orders"
    /\ create_all[2].object = "order_items"
    /\ create_all[3].object = "order_status"
    /\ create_all[4].object = "order_status"
    /\ create_all[5].object = "orders"
    /\ create_all[6].object = "order_items"
  <1>1. /\ Len(create_all) = 6
        /\ create_all[1] = Check("orders")
        /\ create_all[2] = Check("order_items")
        /\ create_all[3] = Check("order_status")
        /\ create_all[4] = Create("order_status")
        /\ create_all[5] = Create("orders")
        /\ create_all[6] = Create("order_items")
    BY DEF create_all
  <1>2. \A i \in 1 .. 6 : i = 1 \/ i = 2 \/ i = 3 \/ i = 4 \/ i = 5 \/ i = 6
    OBVIOUS
  <1>3. \A object : /\ Check(object).does = "check" /\ Check(object).object = object
                    /\ Create(object).does = "create" /\ Create(object).object = object
    BY DEF Check, Create
  <1>. QED
    BY <1>1, <1>2, <1>3 DEF Done

(* Every statement deals with one of the objects.                          *)
LEMMA StatementObjects ==
    ASSUME NEW i \in 1 .. 6
    PROVE  create_all[i].object \in Objects
  <1>1. i = 1 \/ i = 2 \/ i = 3 \/ i = 4 \/ i = 5 \/ i = 6
    OBVIOUS
  <1>. QED
    BY <1>1, Statements DEF Objects

(* What has been passed grows statement by statement to all objects.       *)
LEMMA PassedGrows ==
    /\ \A does : Passed(1, does) = {}
    /\ \A i \in 1 .. 6 : \A does :
          Passed(i + 1, does) =
              IF create_all[i].does = does THEN Passed(i, does) \cup {create_all[i].object}
              ELSE Passed(i, does)
    /\ \A i \in 4 .. 7 : Passed(i, "check") = Objects
    /\ Passed(7, "create") = Objects
    /\ \A i \in 1 .. 4 : Passed(i, "create") = {}
    /\ \A i \in 5 .. 7 : "order_status" \in Passed(i, "create")
  <1>1. \A does : Passed(1, does) = {}
    BY DEF Passed
  <1>2. ASSUME NEW i \in 1 .. 6, NEW does
        PROVE  Passed(i + 1, does) =
                  IF create_all[i].does = does THEN Passed(i, does) \cup {create_all[i].object}
                  ELSE Passed(i, does)
    <2>1. 1 .. (i + 1) - 1 = (1 .. i - 1) \cup {i}
      OBVIOUS
    <2>. QED
      BY <2>1 DEF Passed
  <1>3. /\ Passed(2, "check") = {"orders"}
        /\ Passed(3, "check") = {"orders", "order_items"}
        /\ Passed(4, "check") = Objects
        /\ Passed(5, "check") = Objects
        /\ Passed(6, "check") = Objects
        /\ Passed(7, "check") = Objects
    BY <1>1, <1>2, Statements DEF Objects
  <1>4. /\ Passed(2, "create") = {}
        /\ Passed(3, "create") = {}
        /\ Passed(4, "create") = {}
        /\ Passed(5, "create") = {"order_status"}
        /\ Passed(6, "create") = {"order_status", "orders"}
        /\ Passed(7, "create") = Objects
    BY <1>1, <1>2, Statements DEF Objects
  <1>5. /\ \A i \in 4 .. 7 : i = 4 \/ i = 5 \/ i = 6 \/ i = 7
        /\ \A i \in 1 .. 4 : i = 1 \/ i = 2 \/ i = 3 \/ i = 4
    OBVIOUS
  <1>. QED
    BY <1>1, <1>2, <1>3, <1>4, <1>5 DEF Objects

(* A statement that is sent is not skipped.                                *)
LEMMA SentIsNext ==
    ASSUME NEW i \in 1 .. 6, NEW lacking, i = 6 \/ Sent(create_all[i + 1], lacking)
    PROVE  NextStep(i, lacking) = i + 1
  <1>. DEFINE Follows(j) == /\ j = Done \/ Sent(create_all[j], lacking)
                            /\ \A k \in i + 1 .. j - 1 : ~Sent(create_all[k], lacking)
  <1>1. i + 1 \in i + 1 .. Done /\ Follows(i + 1)
    BY Statements
  <1>2. ASSUME NEW j \in i + 1 .. Done, Follows(j)
        PROVE  j = i + 1
    BY <1>2, Statements
  <1>. HIDE DEF Follows
  <1>3. (CHOOSE j \in i + 1 .. Done : Follows(j)) = i + 1
    BY <1>1, <1>2
  <1>. QED
    BY <1>3 DEF NextStep, Follows

(* There is always a next step.                                            *)
LEMMA NextStepType ==
    ASSUME NEW i \in 1 .. 6, NEW lacking
    PROVE  NextStep(i, lacking) \in i + 1 .. Done
  <1>. DEFINE Follows(j) == /\ j = Done \/ Sent(create_all[j], lacking)
                            /\ \A k \in i + 1 .. j - 1 : ~Sent(create_all[k], lacking)
  <1>. DEFINE IsSent(k) == Sent(create_all[k], lacking)
  <1>1. \E j \in i + 1 .. 7 : /\ j = 7 \/ IsSent(j)
                              /\ \A k \in i + 1 .. j - 1 : ~IsSent(k)
    <2>. HIDE DEF IsSent
    <2>1. CASE i = 6
      BY <2>1
    <2>2. CASE i # 6 /\ IsSent(i + 1)
      BY <2>2
    <2>3. CASE i < 5 /\ ~IsSent(i + 1) /\ IsSent(i + 2)
      BY <2>3
    <2>4. CASE i < 4 /\ ~IsSent(i + 1) /\ ~IsSent(i + 2) /\ IsSent(i + 3)
      BY <2>4
    <2>5. CASE i < 3 /\ ~IsSent(i + 1) /\ ~IsSent(i + 2) /\ ~IsSent(i + 3) /\ IsSent(i + 4)
      BY <2>5
    <2>6. CASE \A k \in i + 1 .. 6 : ~IsSent(k)
      BY <2>6
    <2>7. CASE i = 1 /\ IsSent(6) /\ \A k \in 2 .. 5 : ~IsSent(k)
      BY <2>7
    <2>. QED
      BY <2>1, <2>2, <2>3, <2>4, <2>5, <2>6, <2>7
  <1>2. \E j \in i + 1 .. Done : Follows(j)
    BY <1>1, Statements
  <1>. HIDE DEF Follows
  <1>3. (CHOOSE j \in i + 1 .. Done : Follows(j)) \in i + 1 .. Done
    BY <1>2
  <1>. QED
    BY <1>3 DEF NextStep, Follows

-----------------------------------------------------------------------------
(* Processes that start, serve and stop.                                   *)

LifespanType ==
    /\ schema \subseteq Objects
    /\ phase \in [Processes -> Phases]
    /\ step \in [Processes -> 1 .. 7]
    /\ missing \in [Processes -> SUBSET Objects]
    /\ created \in [Processes -> SUBSET Objects]
    /\ outrun \in [Processes -> BOOLEAN]

\* The part of the invariant that is about processes.
LifespanInvariant ==
    /\ LifespanType
    /\ SchemaIsWhole
    /\ Starts
    /\ \A p \in Processes : phase[p] \in {"serving", "stopping"} => schema = Objects

LifespanStep(p) ==
    StartStep(p) \/ Start(p) \/ Stop(p) \/ StartFails(p) \/ Dispose(p) \/ Kill(p)

(* Before any start the invariant of the lifespan holds.                   *)
LEMMA LifespanInit_ ==
    ASSUME LifespanInit
    PROVE  LifespanInvariant
  BY PassedGrows DEF LifespanInit, LifespanInvariant, LifespanType, Phases, SchemaIsWhole, Starts,
                     StartOf, StartsApart

(* The catalogue changes only when create_all commits, and then from       *)
(* nothing to everything; what a start has created before is nobody        *)
(* else's.                                                                 *)
LEMMA Committed ==
    ASSUME NEW p \in Processes, LifespanInvariant, Serve(p)
    PROVE  /\ schema' = Objects
           /\ schema = Objects => created[p] = {}
           /\ schema = {} => \A q \in Processes \ {p} : created[q] = {}
<1>. USE DEF LifespanInvariant, LifespanType, Starts, StartOf
<1>1. step[p] = 7 /\ schema' = schema \cup created[p]
  BY Statements DEF Serve
<1>2. schema = {} => created[p] = Objects
  BY <1>1, PassedGrows
<1>3. schema = Objects => created[p] = {}
  OBVIOUS
<1>4. schema \in {{}, Objects}
  BY DEF SchemaIsWhole
<1>. QED
  BY <1>1, <1>2, <1>3, <1>4 DEF StartsApart

(* A start that is over has left nothing behind.                           *)
LEMMA EndedStart ==
    ASSUME NEW p \in Processes, LifespanInvariant, GoDown(p), outrun' \in [Processes -> BOOLEAN],
           \A q \in Processes : outrun'[q] => schema = Objects
    PROVE  LifespanInvariant'
<1>. USE DEF LifespanInvariant, LifespanType, GoDown, EndStart
<1>1. LifespanType'
  <2>1. phase' \in [Processes -> Phases] /\ step' \in [Processes -> 1 .. 7]
    BY DEF Phases
  <2>2. created' \in [Processes -> SUBSET Objects] /\ missing' \in [Processes -> SUBSET Objects]
    OBVIOUS
  <2>3. schema' \subseteq Objects
    OBVIOUS
  <2>. QED
    BY <2>1, <2>2, <2>3
<1>2. Starts'
  <2>1. ASSUME NEW q \in Processes
        PROVE  StartOf(q)'
    BY PassedGrows, ZenonT(30) DEF Starts, StartOf
  <2>2. StartsApart'
    BY DEF Starts, StartsApart
  <2>. QED
    BY <2>1, <2>2 DEF Starts
<1>. QED
  BY <1>1, <1>2 DEF SchemaIsWhole

(* Every step of a process keeps the invariant of the lifespan.            *)
LEMMA LifespanNext ==
    ASSUME NEW p \in Processes, LifespanInvariant, LifespanStep(p)
    PROVE  LifespanInvariant'
<1>. USE DEF LifespanInvariant, LifespanType
<1>1. CASE Start(p) \/ Stop(p)
  <2>1. LifespanType' /\ SchemaIsWhole'
    BY <1>1 DEF Start, Stop, Phases, SchemaIsWhole
  <2>2. Starts'
    BY <1>1 DEF Start, Stop, Starts, StartOf, StartsApart
  <2>. QED
    BY <1>1, <2>1, <2>2 DEF Start, Stop
<1>2. CASE StartFails(p) \/ Dispose(p) \/ Kill(p)
  BY <1>2, EndedStart DEF StartFails, Dispose, Kill, SchemaIsWhole
<1>3. CASE CreateFails(p)
  <2>1. schema = Objects
    BY <1>3 DEF CreateFails, SchemaIsWhole
  <2>2. outrun' \in [Processes -> BOOLEAN] /\ GoDown(p)
    BY <1>3 DEF CreateFails
  <2>. QED
    BY <2>1, <2>2, EndedStart
<1>4. CASE LookFor(p)
  <2>. DEFINE lacking == IF Object(p) \in schema THEN missing[p] ELSE missing[p] \cup {Object(p)}
  <2>1. /\ step[p] \in 1 .. 3
        /\ create_all[step[p]].does = "check"
        /\ missing' = [missing EXCEPT ![p] = lacking]
        /\ step' = [step EXCEPT ![p] = NextStep(step[p], lacking)]
        /\ UNCHANGED <<schema, phase, created, outrun>>
    BY <1>4, Statements DEF LookFor, Sending
  <2>2. Object(p) \in Objects /\ Object(p) = create_all[step[p]].object
    BY <2>1, StatementObjects DEF Object
  <2>3. NextStep(step[p], lacking) \in 1 .. 7
    BY <2>1, NextStepType, Statements
  <2>4. LifespanType' /\ SchemaIsWhole'
    BY <2>1, <2>2, <2>3 DEF SchemaIsWhole
  <2>5. ASSUME schema = {}
        PROVE  /\ lacking = Passed(step[p] + 1, "check")
               /\ NextStep(step[p], lacking) = step[p] + 1
               /\ created[p] = Passed(step[p] + 1, "create")
    <3>1. lacking = Passed(step[p] + 1, "check")
      BY <2>1, <2>2, <2>5, PassedGrows DEF Starts, StartOf
    <3>2. step[p] = 3 => lacking = Objects
      BY <3>1, PassedGrows
    <3>3. Sent(create_all[step[p] + 1], lacking)
      BY <2>1, <3>2, StatementObjects, Statements DEF Sent
    <3>. QED
      BY <2>1, <2>5, <3>1, <3>3, SentIsNext, PassedGrows DEF Starts, StartOf
  <2>6. Starts'
    <3>1. phase[p] = "starting"
      BY <1>4 DEF LookFor, Sending
    <3>2. StartOf(p)'
      BY <2>1, <2>5, <3>1 DEF Starts, StartOf
    <3>3. \A q \in Processes \ {p} : StartOf(q)'
      BY <2>1 DEF Starts, StartOf
    <3>. QED
      BY <2>1, <3>2, <3>3 DEF Starts, StartsApart
  <2>. QED
    BY <2>1, <2>4, <2>6
<1>5. CASE CreateObject(p)
  <2>1. /\ step[p] \in 4 .. 6
        /\ create_all[step[p]].does = "create"
        /\ created' = [created EXCEPT ![p] = @ \cup {Object(p)}]
        /\ step' = [step EXCEPT ![p] = NextStep(step[p], missing[p])]
        /\ phase[p] = "starting"
        /\ UNCHANGED <<schema, phase, missing, outrun>>
    BY <1>5, Statements DEF CreateObject, Sending
  <2>2. Object(p) \in Objects /\ Object(p) = create_all[step[p]].object
    BY <2>1, StatementObjects DEF Object
  <2>3. schema = {}
    BY <1>5, <2>2 DEF CreateObject, SchemaIsWhole
  <2>4. missing[p] = Objects
    BY <2>1, <2>3, PassedGrows DEF Starts, StartOf
  <2>5. NextStep(step[p], missing[p]) = step[p] + 1
    <3>1. step[p] = 6 \/ Sent(create_all[step[p] + 1], missing[p])
      BY <2>1, <2>4, StatementObjects DEF Sent
    <3>. QED
      BY <2>1, <3>1, SentIsNext
  <2>6. LifespanType' /\ SchemaIsWhole'
    BY <2>1, <2>2, <2>5 DEF SchemaIsWhole
  <2>7. Starts'
    <3>1. StartOf(p)'
      BY <2>1, <2>2, <2>3, <2>4, <2>5, PassedGrows DEF Starts, StartOf
    <3>2. \A q \in Processes \ {p} : StartOf(q)'
      BY <2>1 DEF Starts, StartOf
    <3>3. StartsApart'
      BY <1>5, <2>1 DEF Starts, StartsApart, CreateObject, Unclaimed
    <3>. QED
      BY <3>1, <3>2, <3>3 DEF Starts
  <2>. QED
    BY <2>1, <2>6, <2>7
<1>6. CASE Serve(p)
  <2>1. /\ schema' = Objects
        /\ \A q \in Processes \ {p} : created[q] = {}
    <3>1. schema = Objects => \A q \in Processes : created[q] = {}
      BY DEF Starts, StartOf
    <3>. QED
      BY <1>6, <3>1, Committed DEF SchemaIsWhole
  <2>2. /\ phase' = [phase EXCEPT ![p] = "serving"]
        /\ step' = [step EXCEPT ![p] = 1]
        /\ missing' = [missing EXCEPT ![p] = {}]
        /\ created' = [created EXCEPT ![p] = {}]
        /\ outrun' = outrun
    BY <1>6 DEF Serve, EndStart
  <2>3. LifespanType' /\ SchemaIsWhole'
    BY <2>1, <2>2 DEF Phases, SchemaIsWhole
  <2>4. Starts'
    BY <2>1, <2>2 DEF Starts, StartOf, StartsApart, Objects
  <2>. QED
    BY <2>1, <2>3, <2>4
<1>. QED
  BY <1>1, <1>2, <1>3, <1>4, <1>5, <1>6 DEF LifespanStep, StartStep

-----------------------------------------------------------------------------
(* Requests on their way through the layers.                               *)

PipelineType ==
    /\ request \in [Tasks -> Request \cup {NoRequest}]
    /\ stage \in [Tasks -> Stages]
    /\ correlation_id \in [Tasks -> Ids]
    /\ context \in [Tasks -> [outer : Ids, inner : Ids]]
    /\ lines \in [Tasks -> Seq([event : Events, id : Ids])]
    /\ outcome \in [Tasks -> [raised : Raisable \cup {"nothing"}, code : Codes]]
    /\ reply \in [Tasks -> [code : Codes, id : Ids]]

\* What LogMatchesReply and UnmarkedRepliesAreInTheLog say of one request.
AnsweredOf(t) ==
    stage[t] = "answered" =>
        /\ IF request[t].target \in UseCases
           THEN \E ending \in Endings(request[t].target, reply[t].code) :
                   Told(t) = Opening(request[t].target) \o ending
           ELSE Told(t) = <<>>
        /\ reply[t].id = NoId =>
              /\ reply[t].code = 500
              /\ \E i \in DOMAIN lines[t] :
                    lines[t][i] = [event |-> "unhandled", id |-> correlation_id[t]]

\* The part of the invariant that is about requests.
PipelineInvariant ==
    /\ PipelineType
    /\ \A t \in Tasks : IdOf(t) /\ LogOf(t) /\ AnsweredOf(t)

(* The handlers of particular exceptions never answer 200 or 500; the      *)
(* exceptions that FastAPI raises itself have one, and so has the one that *)
(* rendering raises.                                                       *)
LEMMA HandledExceptions ==
    /\ \A e : IsHandled(e) => HttpStatus(e) \in {400, 404, 409, 422}
    /\ IsHandled("HTTPException")
    /\ IsHandled("RequestValidationError")
    /\ IsHandled("ValueError") /\ HttpStatus("ValueError") = 400
  <1>1. \A class \in DOMAIN ExceptionHandlers : ExceptionHandlers[class] \in {400, 404, 409, 422}
    BY DEF ExceptionHandlers
  <1>2. \A e : IsHandled(e) => HttpStatus(e) \in {400, 404, 409, 422}
    BY <1>1 DEF HttpStatus, IsHandled
  <1>3. {"HTTPException", "RequestValidationError", "ValueError"} \subseteq DOMAIN ExceptionHandlers
    BY DEF ExceptionHandlers
  <1>4. /\ Superclasses["HTTPException"] = {"HTTPException"}
        /\ Superclasses["RequestValidationError"] = {"RequestValidationError"}
        /\ Superclasses["ValueError"] = {"ValueError"}
    BY DEF Superclasses
  <1>5. IsHandled("HTTPException") /\ IsHandled("RequestValidationError")
    BY <1>3, <1>4 DEF IsHandled, Handles, HandledClasses
  <1>6. \A class \in DOMAIN ExceptionHandlers :
           Handles(class, "ValueError") <=> class = "ValueError"
    BY <1>3, <1>4 DEF Handles, HandledClasses
  <1>7. IsHandled("ValueError") /\ ExceptionHandlers["ValueError"] = 400
    BY <1>3, <1>6 DEF IsHandled, ExceptionHandlers
  <1>8. (CHOOSE class \in DOMAIN ExceptionHandlers : Handles(class, "ValueError")) = "ValueError"
    BY <1>3, <1>6
  <1>9. HttpStatus("ValueError") = 400
    BY <1>7, <1>8 DEF HttpStatus
  <1>. QED
    BY <1>2, <1>5, <1>7, <1>9

(* There are enough uuids for every task to draw one that no other draws.  *)
LEMMA UuidsApart ==
    uuid4 \in [Tasks -> Uuids] /\ Apart(uuid4)
  BY EnoughUuids DEF uuid4

(* What is logged carries the id that is bound in its part of the task.    *)
LEMMA LoggedLines ==
    ASSUME NEW t \in Tasks, PipelineType, IdOf(t), NEW part \in {"outer", "inner"},
           context[t] = Bind(correlation_id[t]), NEW events \in Seq(Events)
    PROVE  /\ Logged(t, part, events) \in Seq([event : Events, id : Ids])
           /\ \A i \in DOMAIN Logged(t, part, events) :
                 Logged(t, part, events)[i].id = correlation_id[t]
           /\ [i \in DOMAIN Logged(t, part, events) |-> Logged(t, part, events)[i].event] =
                 Told(t) \o events
<1>. DEFINE new == [i \in DOMAIN events |-> [event |-> events[i], id |-> correlation_id[t]]]
            Line == [event : Events, id : Ids]
<1>1. Logged(t, part, events) = lines[t] \o new
  <2>1. context[t][part] = correlation_id[t]
    BY DEF Bind
  <2>. QED
    BY <2>1 DEF Logged
<1>2. /\ new \in Seq(Line)
      /\ Len(new) = Len(events)
      /\ \A i \in 1 .. Len(events) : new[i].event = events[i] /\ new[i].id = correlation_id[t]
  <2>1. DOMAIN events = 1 .. Len(events) /\ Len(events) \in Nat
    OBVIOUS
  <2>2. \A i \in 1 .. Len(events) : new[i] \in Line
    BY <2>1 DEF PipelineType
  <2>3. new \in [1 .. Len(events) -> Line]
    BY <2>1, <2>2
  <2>. QED
    BY <2>1, <2>3
<1>3. lines[t] \in Seq(Line)
  BY DEF PipelineType
<1>. HIDE DEF new, Line
<1>4. /\ lines[t] \o new \in Seq(Line)
      /\ DOMAIN (lines[t] \o new) = 1 .. Len(lines[t]) + Len(events)
      /\ \A i \in 1 .. Len(lines[t]) : (lines[t] \o new)[i] = lines[t][i]
      /\ \A i \in Len(lines[t]) + 1 .. Len(lines[t]) + Len(events) :
            (lines[t] \o new)[i] = new[i - Len(lines[t])]
  <2>1. Len(lines[t]) \in Nat /\ Len(events) \in Nat
    BY <1>3
  <2>2. /\ lines[t] \o new \in Seq(Line)
        /\ Len(lines[t] \o new) = Len(lines[t]) + Len(new)
        /\ \A i \in 1 .. Len(lines[t]) + Len(new) :
              (lines[t] \o new)[i] =
                  IF i <= Len(lines[t]) THEN lines[t][i] ELSE new[i - Len(lines[t])]
    <3>1. lines[t] \in Seq(Line) /\ new \in Seq(Line)
      BY <1>2, <1>3
    <3>. QED
      BY ONLY <3>1, ConcatProperties
  <2>3. DOMAIN (lines[t] \o new) = 1 .. Len(lines[t] \o new)
    BY <2>2, LenProperties
  <2>. QED
    BY <1>2, <2>1, <2>2, <2>3
<1>5. \A i \in 1 .. Len(lines[t]) + Len(events) :
          \/ i \in 1 .. Len(lines[t])
          \/ /\ i \in Len(lines[t]) + 1 .. Len(lines[t]) + Len(events)
             /\ i - Len(lines[t]) \in 1 .. Len(events)
  BY <1>3
<1>6. \A i \in DOMAIN (lines[t] \o new) : (lines[t] \o new)[i].id = correlation_id[t]
  <2>1. \A i \in 1 .. Len(lines[t]) : lines[t][i].id = correlation_id[t]
    BY <1>3 DEF IdOf
  <2>2. ASSUME NEW i \in 1 .. Len(lines[t]) + Len(events)
        PROVE  (lines[t] \o new)[i].id = correlation_id[t]
    <3>1. CASE i \in 1 .. Len(lines[t])
      BY <1>4, <2>1, <3>1
    <3>2. CASE /\ i \in Len(lines[t]) + 1 .. Len(lines[t]) + Len(events)
               /\ i - Len(lines[t]) \in 1 .. Len(events)
      BY <1>2, <1>4, <3>2
    <3>. QED
      BY <1>5, <3>1, <3>2
  <2>. QED
    BY <1>4, <2>2
<1>7. [i \in DOMAIN (lines[t] \o new) |-> (lines[t] \o new)[i].event] = Told(t) \o events
  <2>0. DOMAIN lines[t] = 1 .. Len(lines[t]) /\ Len(lines[t]) \in Nat /\ Len(events) \in Nat
    BY <1>3
  <2>1. /\ Told(t) \in Seq(Events)
        /\ Len(Told(t)) = Len(lines[t])
        /\ \A i \in 1 .. Len(lines[t]) : Told(t)[i] = lines[t][i].event
    <3>1. Told(t) \in [1 .. Len(lines[t]) -> Events]
      <4>1. \A i \in 1 .. Len(lines[t]) : lines[t][i] \in Line
        BY <1>3, ElementOfSeq
      <4>2. \A line \in Line : line.event \in Events
        BY DEF Line
      <4>. QED
        BY <2>0, <4>1, <4>2 DEF Told
    <3>. QED
      BY <2>0, <3>1 DEF Told
  <2>2. /\ Told(t) \o events \in Seq(Events)
        /\ Len(Told(t) \o events) = Len(lines[t]) + Len(events)
        /\ \A i \in 1 .. Len(lines[t]) : (Told(t) \o events)[i] = lines[t][i].event
        /\ \A i \in Len(lines[t]) + 1 .. Len(lines[t]) + Len(events) :
              (Told(t) \o events)[i] = events[i - Len(lines[t])]
    <3>1. /\ Told(t) \o events \in Seq(Events)
          /\ Len(Told(t) \o events) = Len(Told(t)) + Len(events)
          /\ \A i \in 1 .. Len(Told(t)) + Len(events) :
                (Told(t) \o events)[i] =
                    IF i <= Len(Told(t)) THEN Told(t)[i] ELSE events[i - Len(Told(t))]
      BY <2>1, ConcatProperties
    <3>. QED
      BY <2>0, <2>1, <3>1
  <2>3. \A i \in 1 .. Len(lines[t]) + Len(events) :
            (lines[t] \o new)[i].event = (Told(t) \o events)[i]
    BY <1>2, <1>4, <1>5, <2>2
  <2>. QED
    BY <1>4, <2>2, <2>3, LenProperties
<1>. QED
  BY <1>1, <1>4, <1>6, <1>7 DEF Line

(* A list of events that begins with one list and goes on with another.    *)
LEMMA Joined ==
    ASSUME NEW first \in Seq(Events), NEW second \in Seq(Events), NEW whole \in Seq(Events),
           Len(whole) = Len(first) + Len(second),
           \A i \in 1 .. Len(first) : whole[i] = first[i],
           \A i \in 1 .. Len(second) : whole[Len(first) + i] = second[i]
    PROVE  first \o second = whole
  <1>1. /\ first \o second \in Seq(Events)
        /\ Len(first \o second) = Len(first) + Len(second)
        /\ \A i \in 1 .. Len(first) + Len(second) :
              (first \o second)[i] = IF i <= Len(first) THEN first[i] ELSE second[i - Len(first)]
    BY ConcatProperties
  <1>2. Len(first) \in Nat /\ Len(second) \in Nat
    OBVIOUS
  <1>3. ASSUME NEW i \in 1 .. Len(first) + Len(second)
        PROVE  (first \o second)[i] = whole[i]
    <2>1. CASE i <= Len(first)
      BY <1>1, <1>2, <2>1
    <2>2. CASE i > Len(first)
      <3>1. i - Len(first) \in 1 .. Len(second) /\ Len(first) + (i - Len(first)) = i
        BY <1>2, <2>2
      <3>2. whole[i] = second[i - Len(first)]
        BY <3>1
      <3>. QED
        BY <1>1, <1>2, <2>2, <3>2
    <2>. QED
      BY <1>2, <2>1, <2>2
  <1>. QED
    BY <1>1, <1>3, SeqEqual

(* Two events, joined.                                                     *)
LEMMA JoinedPair ==
    ASSUME NEW a \in Events, NEW b \in Events
    PROVE  <<a>> \o <<b>> = <<a, b>> /\ Append(<<a>>, b) = <<a, b>>
  <1>. DEFINE A == <<a>>
              B == <<b>>
              AB == <<a, b>>
  <1>1. /\ A \in Seq(Events) /\ Len(A) = 1 /\ A[1] = a
        /\ B \in Seq(Events) /\ Len(B) = 1 /\ B[1] = b
        /\ AB \in Seq(Events) /\ Len(AB) = 2 /\ AB[1] = a /\ AB[2] = b
    OBVIOUS
  <1>2. Append(A, b) = A \o B
    BY <1>1, AppendIsConcat
  <1>. HIDE DEF A, B, AB
  <1>3. \A i \in 1 .. 1 : i = 1
    OBVIOUS
  <1>4. A \o B = AB
    <2>1. \A i \in 1 .. Len(A) : AB[i] = A[i]
      BY <1>1, <1>3
    <2>2. \A i \in 1 .. Len(B) : AB[Len(A) + i] = B[i]
      BY <1>1, <1>3
    <2>3. /\ Len(AB) = Len(A) + Len(B)
          /\ A \in Seq(Events) /\ B \in Seq(Events) /\ AB \in Seq(Events)
      BY <1>1
    <2>. QED
      BY ONLY <2>1, <2>2, <2>3, Joined
  <1>. QED
    BY <1>2, <1>4 DEF A, B, AB

(* The lines that are written together are lists of events.                *)
LEMMA LinesInOrder ==
    /\ {<<>>, <<"failed">>, <<"failed", "refused">>, <<"unhandled">>} \subseteq Seq(Events)
    /\ Success \subseteq Seq(Events)
    /\ \A events \in Success : Append(events, "refused") \in Seq(Events)
    /\ \A target : Opening(target) \in Seq(Events)
    /\ Append(<<"failed">>, "refused") = <<"failed", "refused">>
    /\ <<"failed">> \o <<"unhandled">> = <<"failed", "unhandled">>
  <1>1. Events = {"called", "handling", "slow", "handled", "failed", "refused", "unhandled"}
    BY DEF Events
  <1>2. /\ <<>> \in Seq(Events)
        /\ \A x \in Events : <<x>> \in Seq(Events)
        /\ \A x, y \in Events : <<x, y>> \in Seq(Events)
    OBVIOUS
  <1>3. {<<>>, <<"failed">>, <<"failed", "refused">>, <<"unhandled">>} \subseteq Seq(Events)
    BY <1>1, <1>2
  <1>4. Success \subseteq Seq(Events)
    BY <1>1, <1>2 DEF Success
  <1>5. \A events \in Success : Append(events, "refused") \in Seq(Events)
    BY <1>1, <1>4, AppendProperties
  <1>6. \A target : Opening(target) \in Seq(Events)
    BY <1>1, <1>2 DEF Opening
  <1>7. /\ Append(<<"failed">>, "refused") = <<"failed", "refused">>
        /\ <<"failed">> \o <<"unhandled">> = <<"failed", "unhandled">>
    BY <1>1, JoinedPair
  <1>. QED
    BY <1>3, <1>4, <1>5, <1>6, <1>7

(* What a step that writes lines does to them.                             *)
LEMMA LogStep ==
    ASSUME NEW t \in Tasks, PipelineType, IdOf(t), NEW part \in {"outer", "inner"},
           context[t] = Bind(correlation_id[t]), NEW events \in Seq(Events),
           Log(t, part, events)
    PROVE  /\ lines' \in [Tasks -> Seq([event : Events, id : Ids])]
           /\ \A i \in DOMAIN lines'[t] : lines'[t][i].id = correlation_id[t]
           /\ Told(t)' = Told(t) \o events
<1>1. lines' = [lines EXCEPT ![t] = Logged(t, part, events)]
  BY DEF Log
<1>2. lines'[t] = Logged(t, part, events)
  BY <1>1 DEF PipelineType
<1>3. Told(t)' = [i \in DOMAIN lines'[t] |-> lines'[t][i].event]
  BY DEF Told
<1>4. /\ Logged(t, part, events) \in Seq([event : Events, id : Ids])
      /\ \A i \in DOMAIN Logged(t, part, events) :
            Logged(t, part, events)[i].id = correlation_id[t]
      /\ [i \in DOMAIN Logged(t, part, events) |-> Logged(t, part, events)[i].event] =
            Told(t) \o events
  BY LoggedLines
<1>5. lines' \in [Tasks -> Seq([event : Events, id : Ids])]
  BY <1>1, <1>4 DEF PipelineType
<1>. QED
  BY <1>2, <1>3, <1>4, <1>5

\* A step of one task leaves what the others carry alone.
Elsewhere(t) ==
    \A u \in Tasks \ {t} :
        /\ request'[u] = request[u]
        /\ stage'[u] = stage[u]
        /\ correlation_id'[u] = correlation_id[u]
        /\ context'[u] = context[u]
        /\ lines'[u] = lines[u]
        /\ outcome'[u] = outcome[u]
        /\ reply'[u] = reply[u]

(* What an answered request was told stands while its part of the pipeline *)
(* does.                                                                   *)
LEMMA AnswersStand ==
    ASSUME NEW u \in Tasks, AnsweredOf(u), Told(u)' = Told(u),
           request'[u] = request[u], stage'[u] = stage[u],
           correlation_id'[u] = correlation_id[u], lines'[u] = lines[u],
           reply'[u] = reply[u]
    PROVE  AnsweredOf(u)'
<1>1. SUFFICES ASSUME stage[u] = "answered"
               PROVE  AnsweredOf(u)'
  BY DEF AnsweredOf
<1>2. IF request'[u].target \in UseCases
      THEN \E ending \in Endings(request'[u].target, reply'[u].code) :
              Told(u)' = Opening(request'[u].target) \o ending
      ELSE Told(u)' = <<>>
  <2>1. IF request[u].target \in UseCases
        THEN \E ending \in Endings(request[u].target, reply[u].code) :
                Told(u) = Opening(request[u].target) \o ending
        ELSE Told(u) = <<>>
    BY <1>1, Zenon DEF AnsweredOf
  <2>2. CASE request[u].target \in UseCases
    <3>1. PICK ending \in Endings(request[u].target, reply[u].code) :
             Told(u) = Opening(request[u].target) \o ending
      BY <2>1, <2>2
    <3>2. ending \in Endings(request'[u].target, reply'[u].code)
      BY <3>1
    <3>3. Told(u)' = Opening(request'[u].target) \o ending
      BY <3>1
    <3>. QED
      BY <2>2, <3>2, <3>3
  <2>3. CASE request[u].target \notin UseCases
    BY <2>1, <2>3
  <2>. QED
    BY <2>2, <2>3
<1>3. reply'[u].id = NoId =>
         /\ reply'[u].code = 500
         /\ \E i \in DOMAIN lines'[u] :
               lines'[u][i] = [event |-> "unhandled", id |-> correlation_id'[u]]
  BY <1>1 DEF AnsweredOf
<1>. QED
  BY <1>2, <1>3, Zenon DEF AnsweredOf

(* An invariant of each request holds after a step if it holds of the      *)
(* request that made it.                                                   *)
LEMMA OneTaskSteps ==
    ASSUME NEW t \in Tasks, PipelineInvariant, Elsewhere(t), PipelineType',
           IdOf(t)', LogOf(t)', AnsweredOf(t)'
    PROVE  PipelineInvariant'
<1>1. ASSUME NEW u \in Tasks \ {t}
      PROVE  IdOf(u)' /\ LogOf(u)' /\ AnsweredOf(u)'
  <2>1. IdOf(u) /\ LogOf(u) /\ AnsweredOf(u)
    BY DEF PipelineInvariant
  <2>2. IdOf(u)'
    BY <2>1 DEF Elsewhere, IdOf
  <2>3. Told(u)' = Told(u)
    BY DEF Elsewhere, Told
  <2>4. LogOf(u)'
    BY <2>1, <2>3 DEF Elsewhere, LogOf, Ended
  <2>5. AnsweredOf(u)'
    BY <2>1, <2>3, AnswersStand DEF Elsewhere
  <2>. QED
    BY <2>2, <2>4, <2>5
<1>. QED
  BY <1>1 DEF PipelineInvariant

(* The task of a request is made, and no two requests get the same id.     *)
LEMMA Arrivals ==
    ASSUME NEW t \in Tasks, PipelineInvariant, Receive(t) \/ Dispatch(t)
    PROVE  PipelineInvariant'
<1>a. PipelineType /\ IdOf(t) /\ LogOf(t)
  BY DEF PipelineInvariant
<1>1. CASE Receive(t)
  <2>1. PipelineType' /\ Elsewhere(t)
    BY <1>a, <1>1 DEF Receive, GoTo, PipelineType, Stages, Elsewhere
  <2>2. IdOf(t)' /\ LogOf(t)' /\ AnsweredOf(t)'
    BY <1>a, <1>1 DEF Receive, GoTo, PipelineType, IdOf, LogOf, AnsweredOf
  <2>. QED
    BY <2>1, <2>2, OneTaskSteps
<1>2. CASE Dispatch(t)
  <2>. DEFINE id == IF request[t].upstream = NoId THEN uuid4[t] ELSE request[t].upstream
  <2>1. /\ stage[t] = "received"
        /\ correlation_id[t] = NoId
        /\ request[t] \in Request
        /\ lines[t] = <<>>
        /\ reply[t] = NoReply
    BY <1>a, <1>2 DEF Dispatch, IdOf, LogOf
  <2>2. id \in UpstreamIds \cup Uuids
    BY <2>1, UuidsApart DEF Request
  <2>. HIDE DEF id
  <2>3. /\ correlation_id' = [correlation_id EXCEPT ![t] = id]
        /\ context' = [context EXCEPT ![t] = [outer |-> id, inner |-> id]]
        /\ stage' = [stage EXCEPT ![t] = "forwarded"]
        /\ UNCHANGED <<request, lines, outcome, reply>>
    BY <1>2 DEF Dispatch, Remember, Bind, GoTo, id
  <2>4. id \in Ids
    BY <2>2 DEF Ids
  <2>5. PipelineType' /\ Elsewhere(t)
    BY <1>a, <2>3, <2>4 DEF PipelineType, Stages, Elsewhere
  <2>6. IdOf(t)'
    BY <1>a, <2>1, <2>3 DEF PipelineType, IdOf, Bind, NoReply, id
  <2>7. LogOf(t)' /\ AnsweredOf(t)'
    BY <1>a, <2>1, <2>3 DEF PipelineType, LogOf, AnsweredOf
  <2>. QED
    BY <2>5, <2>6, <2>7, OneTaskSteps
<1>. QED
  BY <1>1, <1>2

(* The inner task of a request runs: the id stays bound in it.             *)
LEMMA InnerSteps ==
    ASSUME NEW t \in Tasks, PipelineInvariant, PipelineType', Elsewhere(t),
           stage[t] \in {"forwarded", "handling", "returned"},
           stage'[t] \in {"handling", "returned", "answered"},
           request'[t] = request[t],
           correlation_id'[t] = correlation_id[t],
           context'[t] = context[t],
           \A i \in DOMAIN lines'[t] : lines'[t][i].id = correlation_id[t],
           reply'[t].id \in {NoId, correlation_id[t]},
           LogOf(t)', AnsweredOf(t)'
    PROVE  PipelineInvariant'
<1>1. IdOf(t)
  BY DEF PipelineInvariant
<1>2. IdOf(t)'
  BY <1>1 DEF IdOf
<1>. QED
  BY <1>2, OneTaskSteps

(* The inner task raises: what a handler takes becomes its reply, with its *)
(* line, what no handler takes leaves the inner task.                      *)
LEMMA Thrown ==
    ASSUME NEW t \in Tasks, NEW exception, NEW events, Throw(t, exception, events),
           outcome \in [Tasks -> [raised : Raisable \cup {"nothing"}, code : Codes]]
    PROVE  /\ IsHandled(exception) =>
                 /\ outcome' = [outcome EXCEPT ![t] = Returned(HttpStatus(exception))]
                 /\ HttpStatus(exception) \in {400, 404, 409, 422}
                 /\ Log(t, "inner",
                        IF Writes(exception) THEN Append(events, "refused") ELSE events)
           /\ ~IsHandled(exception) => /\ outcome' = [outcome EXCEPT ![t] = Raised(exception)]
                                       /\ Log(t, "inner", events)
  BY HandledExceptions DEF Throw

(* What is known of a request that the route has, or its handler.          *)
LEMMA InnerState ==
    ASSUME NEW t \in Tasks, PipelineInvariant,
           stage[t] \in {"forwarded", "handling", "returned"}
    PROVE  /\ PipelineType /\ IdOf(t) /\ LogOf(t)
           /\ context[t] = Bind(correlation_id[t])
           /\ request[t] \in Request
           /\ reply[t] = NoReply
           /\ stage[t] = "forwarded" => Told(t) = <<>>
           /\ stage[t] = "handling" =>
                 request[t].target \in UseCases /\ Told(t) = Opening(request[t].target)
           /\ stage[t] = "returned" => Ended(t)
<1>1. PipelineType /\ IdOf(t) /\ LogOf(t)
  BY DEF PipelineInvariant
<1>2. lines[t] = <<>> => Told(t) = <<>>
  BY DEF Told
<1>. QED
  BY <1>1, <1>2 DEF IdOf, LogOf

(* The route and the use case behind it.                                   *)
LEMMA RouteSteps ==
    ASSUME NEW t \in Tasks, PipelineInvariant, AnswerEarly(t) \/ CallHandler(t)
    PROVE  PipelineInvariant'
<1>a. stage[t] = "forwarded"
  BY DEF AnswerEarly, CallHandler
<1>b. /\ PipelineType /\ IdOf(t) /\ LogOf(t)
      /\ context[t] = Bind(correlation_id[t])
      /\ request[t] \in Request
      /\ reply[t] = NoReply
      /\ Told(t) = <<>>
  BY <1>a, InnerState
<1>1. CASE CallHandler(t)
  <2>1. /\ Log(t, "inner", Opening(request[t].target))
        /\ request[t].target \in UseCases
        /\ stage' = [stage EXCEPT ![t] = "handling"]
        /\ UNCHANGED <<request, correlation_id, context, outcome, reply>>
    BY <1>1 DEF CallHandler, GoTo
  <2>2. /\ lines' \in [Tasks -> Seq([event : Events, id : Ids])]
        /\ \A i \in DOMAIN lines'[t] : lines'[t][i].id = correlation_id[t]
        /\ Told(t)' = Opening(request[t].target)
    <3>1. Opening(request[t].target) \in Seq(Events)
      BY LinesInOrder
    <3>2. <<>> \o Opening(request[t].target) = Opening(request[t].target)
      BY <3>1, ConcatEmptySeq
    <3>. QED
      BY <1>b, <2>1, <3>1, <3>2, LogStep
  <2>3. PipelineType' /\ Elsewhere(t)
    BY <1>b, <2>1, <2>2 DEF PipelineType, Stages, Elsewhere, Log
  <2>4. stage'[t] = "handling"
    BY <1>b, <2>1 DEF PipelineType
  <2>5. LogOf(t)' /\ AnsweredOf(t)'
    BY <1>b, <2>1, <2>2, <2>4 DEF LogOf, AnsweredOf
  <2>. QED
    BY <1>a, <1>b, <2>1, <2>2, <2>3, <2>4, <2>5, InnerSteps DEF NoReply
<1>2. CASE AnswerEarly(t)
  <2>1. /\ stage' = [stage EXCEPT ![t] = "returned"]
        /\ UNCHANGED <<request, correlation_id, context, reply>>
    BY <1>2 DEF AnswerEarly, GoTo
  <2>2. /\ request[t].target \notin UseCases
        /\ outcome' \in [Tasks -> [raised : Raisable \cup {"nothing"}, code : Codes]]
        /\ outcome'[t].raised = "nothing"
        /\ \A u \in Tasks \ {t} : outcome'[u] = outcome[u]
        /\ lines' = lines \/ Log(t, "inner", <<>>)
    <3>1. CASE outcome' = [outcome EXCEPT ![t] = Returned(200)] /\ request[t].target = "health"
               /\ lines' = lines
      BY <1>b, <3>1 DEF Returned, PipelineType, Codes, UseCases
    <3>2. CASE Throw(t, "HTTPException", <<>>) /\ request[t].target = "unknown"
      <4>1. /\ outcome' = [outcome EXCEPT ![t] = Returned(HttpStatus("HTTPException"))]
            /\ HttpStatus("HTTPException") \in {400, 404, 409, 422}
            /\ Log(t, "inner", <<>>)
        BY <1>b, <3>2, Thrown, HandledExceptions DEF PipelineType, Writes
      <4>2. /\ Returned(HttpStatus("HTTPException")) \in [raised : Raisable \cup {"nothing"}, code : Codes]
            /\ Returned(HttpStatus("HTTPException")).raised = "nothing"
        BY <4>1 DEF Returned, Codes
      <4>. QED
        BY <1>b, <3>2, <4>1, <4>2 DEF PipelineType, UseCases
    <3>3. CASE Throw(t, "RequestValidationError", <<>>) /\ request[t].target = "invalid"
      <4>1. /\ outcome' = [outcome EXCEPT ![t] = Returned(HttpStatus("RequestValidationError"))]
            /\ HttpStatus("RequestValidationError") \in {400, 404, 409, 422}
            /\ Log(t, "inner", <<>>)
        BY <1>b, <3>3, Thrown, HandledExceptions DEF PipelineType, Writes
      <4>2. /\ Returned(HttpStatus("RequestValidationError")) \in [raised : Raisable \cup {"nothing"}, code : Codes]
            /\ Returned(HttpStatus("RequestValidationError")).raised = "nothing"
        BY <4>1 DEF Returned, Codes
      <4>. QED
        BY <1>b, <3>3, <4>1, <4>2 DEF PipelineType, UseCases
    <3>. QED
      BY <1>2, <3>1, <3>2, <3>3 DEF AnswerEarly
  <2>3. /\ lines' \in [Tasks -> Seq([event : Events, id : Ids])]
        /\ \A i \in DOMAIN lines'[t] : lines'[t][i].id = correlation_id[t]
        /\ Told(t)' = <<>>
        /\ \A u \in Tasks \ {t} : lines'[u] = lines[u]
    <3>1. CASE lines' = lines
      BY <1>b, <3>1 DEF PipelineType, IdOf, Told
    <3>2. CASE Log(t, "inner", <<>>)
      BY <1>b, <2>1, <3>2, LogStep, LinesInOrder, ConcatEmptySeq DEF Log, PipelineType
    <3>. QED
      BY <2>2, <3>1, <3>2
  <2>4. PipelineType' /\ Elsewhere(t)
    BY <1>b, <2>1, <2>2, <2>3 DEF PipelineType, Stages, Elsewhere
  <2>5. stage'[t] = "returned"
    BY <1>b, <2>1 DEF PipelineType
  <2>6. LogOf(t)' /\ AnsweredOf(t)'
    BY <1>b, <2>1, <2>2, <2>3, <2>5 DEF LogOf, AnsweredOf, Ended
  <2>. QED
    BY <1>a, <1>b, <2>1, <2>3, <2>4, <2>5, <2>6, InnerSteps DEF NoReply
<1>. QED
  BY <1>1, <1>2

(* How an exception that has been thrown leaves the inner task.            *)
LEMMA ThrownResult ==
    ASSUME NEW t \in Tasks, NEW exception \in Raisable, NEW events \in Seq(Events),
           Throw(t, exception, events), PipelineType
    PROVE  \E result \in [raised : Raisable \cup {"nothing"}, code : Codes] :
              /\ outcome' = [outcome EXCEPT ![t] = result]
              /\ IsHandled(exception) => /\ result = Returned(HttpStatus(exception))
                                         /\ HttpStatus(exception) \in {400, 404, 409, 422}
                                         /\ Log(t, "inner", Append(events, "refused"))
              /\ ~IsHandled(exception) => /\ result = Raised(exception)
                                          /\ Log(t, "inner", events)
<1>1. Writes(exception) /\ exception # "nothing"
  BY DEF Raisable, Writes
<1>2. outcome \in [Tasks -> [raised : Raisable \cup {"nothing"}, code : Codes]]
  BY DEF PipelineType
<1>3. CASE IsHandled(exception)
  <2>1. /\ outcome' = [outcome EXCEPT ![t] = Returned(HttpStatus(exception))]
        /\ HttpStatus(exception) \in {400, 404, 409, 422}
        /\ Log(t, "inner", Append(events, "refused"))
    BY <1>1, <1>2, <1>3, Thrown
  <2>2. Returned(HttpStatus(exception)) \in [raised : Raisable \cup {"nothing"}, code : Codes]
    BY <2>1 DEF Returned, Codes
  <2>. QED
    BY <1>3, <2>1, <2>2
<1>4. CASE ~IsHandled(exception)
  <2>1. /\ outcome' = [outcome EXCEPT ![t] = Raised(exception)]
        /\ Log(t, "inner", events)
    BY <1>2, <1>4, Thrown
  <2>2. Raised(exception) \in [raised : Raisable \cup {"nothing"}, code : Codes]
    BY DEF Raised, Codes
  <2>. QED
    BY <1>4, <2>1, <2>2
<1>. QED
  BY <1>3, <1>4

(* The handler ends, with a result, which may or may not be rendered, or   *)
(* with an exception.                                                      *)
LEMMA HandlerSteps ==
    ASSUME NEW t \in Tasks, PipelineInvariant,
           HandlerReturns(t) \/ RenderingFails(t) \/ HandlerRaises(t)
    PROVE  PipelineInvariant'
<1>. DEFINE target == request[t].target
<1>a. stage[t] = "handling"
  BY DEF HandlerReturns, RenderingFails, HandlerRaises
<1>b. /\ PipelineType /\ IdOf(t) /\ LogOf(t)
      /\ context[t] = Bind(correlation_id[t])
      /\ request[t] \in Request
      /\ reply[t] = NoReply
      /\ target \in UseCases
      /\ Told(t) = Opening(target)
  BY <1>a, InnerState
<1>c. /\ stage' = [stage EXCEPT ![t] = "returned"]
      /\ UNCHANGED <<request, correlation_id, context, reply>>
  BY DEF HandlerReturns, RenderingFails, HandlerRaises, GoTo
<1>1. \E events \in Seq(Events), result \in [raised : Raisable \cup {"nothing"}, code : Codes] :
          /\ Log(t, "inner", events)
          /\ outcome' = [outcome EXCEPT ![t] = result]
          /\ events \in Closings(target, result)
  <2>1. CASE HandlerReturns(t)
    <3>1. PICK events \in Success : Log(t, "inner", events)
      BY <2>1 DEF HandlerReturns
    <3>2. /\ Returned(200) \in [raised : Raisable \cup {"nothing"}, code : Codes]
          /\ Closings(target, Returned(200)) = Success
      BY DEF Returned, Codes, Closings, Endings
    <3>3. outcome' = [outcome EXCEPT ![t] = Returned(200)]
      BY <2>1 DEF HandlerReturns
    <3>. QED
      BY <3>1, <3>2, <3>3, LinesInOrder
  <2>2. CASE RenderingFails(t)
    <3>1. PICK events \in Success : Throw(t, "ValueError", events)
      BY <2>2 DEF RenderingFails
    <3>2. PICK result \in [raised : Raisable \cup {"nothing"}, code : Codes] :
              /\ outcome' = [outcome EXCEPT ![t] = result]
              /\ result = Returned(400)
              /\ Log(t, "inner", Append(events, "refused"))
      BY <1>b, <3>1, ThrownResult, HandledExceptions, LinesInOrder DEF Raisable
    <3>3. target # "delete"
      BY <2>2 DEF RenderingFails
    <3>4. Append(events, "refused") \in Closings(target, result)
      BY <3>1, <3>2, <3>3 DEF Closings, Endings, Returned
    <3>. QED
      BY <3>2, <3>4, LinesInOrder
  <2>3. CASE HandlerRaises(t)
    <3>1. PICK exception \in Failures : Throw(t, exception, <<"failed">>)
      BY <2>3 DEF HandlerRaises
    <3>2. exception \in Raisable
      BY PipelineConstants
    <3>3. PICK result \in [raised : Raisable \cup {"nothing"}, code : Codes] :
              /\ outcome' = [outcome EXCEPT ![t] = result]
              /\ IsHandled(exception) => /\ result = Returned(HttpStatus(exception))
                                         /\ HttpStatus(exception) \in {400, 404, 409, 422}
                                         /\ Log(t, "inner", Append(<<"failed">>, "refused"))
              /\ ~IsHandled(exception) => /\ result = Raised(exception)
                                          /\ Log(t, "inner", <<"failed">>)
      BY <1>b, <3>1, <3>2, ThrownResult, LinesInOrder
    <3>4. CASE IsHandled(exception)
      <4>1. <<"failed", "refused">> \in Closings(target, result)
        BY <3>3, <3>4 DEF Closings, Endings, Returned
      <4>2. /\ Append(<<"failed">>, "refused") = <<"failed", "refused">>
            /\ <<"failed", "refused">> \in Seq(Events)
        BY LinesInOrder DEF Events
      <4>3. Log(t, "inner", <<"failed", "refused">>)
        BY <3>3, <3>4, <4>2
      <4>. QED
        BY <3>3, <4>1, <4>2, <4>3
    <3>5. CASE ~IsHandled(exception)
      <4>1. <<"failed">> \in Closings(target, result)
        BY <3>2, <3>3, <3>5 DEF Closings, Raised, Raisable
      <4>. QED
        BY <3>3, <3>5, <4>1, LinesInOrder
    <3>. QED
      BY <3>4, <3>5
  <2>. QED
    BY <2>1, <2>2, <2>3
<1>2. PICK events \in Seq(Events), result \in [raised : Raisable \cup {"nothing"}, code : Codes] :
          /\ Log(t, "inner", events)
          /\ outcome' = [outcome EXCEPT ![t] = result]
          /\ events \in Closings(target, result)
  BY <1>1
<1>3. /\ lines' \in [Tasks -> Seq([event : Events, id : Ids])]
      /\ \A i \in DOMAIN lines'[t] : lines'[t][i].id = correlation_id[t]
      /\ Told(t)' = Opening(target) \o events
  BY <1>b, <1>2, LogStep
<1>4. PipelineType' /\ Elsewhere(t)
  BY <1>b, <1>c, <1>2, <1>3 DEF PipelineType, Stages, Elsewhere, Log
<1>5. stage'[t] = "returned" /\ outcome'[t] = result
  BY <1>b, <1>c, <1>2 DEF PipelineType
<1>6. Ended(t)'
  <2>1. request'[t] = request[t]
    BY <1>c
  <2>. QED
    BY <1>b, <1>2, <1>3, <1>5, <2>1 DEF Ended
<1>7. LogOf(t)' /\ AnsweredOf(t)'
  BY <1>b, <1>c, <1>5, <1>6 DEF LogOf, AnsweredOf
<1>. QED
  <2>1. /\ request'[t] = request[t]
        /\ correlation_id'[t] = correlation_id[t]
        /\ context'[t] = context[t]
        /\ reply'[t].id = NoId
    BY <1>b, <1>c DEF NoReply
  <2>. QED
    BY <1>a, <1>3, <1>4, <1>5, <1>7, <2>1, InnerSteps

(* The reply is sent: with the id by the middleware, or without it, after  *)
(* a line with the id, by the catch-all.                                   *)
LEMMA ReplySteps ==
    ASSUME NEW t \in Tasks, PipelineInvariant, Echo(t) \/ CatchAll(t)
    PROVE  PipelineInvariant'
<1>a. stage[t] = "returned"
  BY DEF Echo, CatchAll
<1>b. /\ PipelineType /\ IdOf(t) /\ LogOf(t)
      /\ context[t] = Bind(correlation_id[t])
      /\ request[t] \in Request
      /\ Ended(t)
  BY <1>a, InnerState
<1>c. correlation_id[t] # NoId
  <2>1. uuid4[t] # NoId
    BY UuidsApart, PipelineConstants
  <2>. QED
    BY <1>a, <1>b, <2>1 DEF IdOf
<1>1. CASE Echo(t)
  <2>1. /\ outcome[t].raised = "nothing"
        /\ reply' = [reply EXCEPT ![t] = [code |-> outcome[t].code, id |-> correlation_id[t]]]
        /\ stage' = [stage EXCEPT ![t] = "answered"]
        /\ UNCHANGED <<request, correlation_id, context, lines, outcome>>
    BY <1>1 DEF Echo, Send, GoTo
  <2>2. /\ stage'[t] = "answered"
        /\ reply'[t].code = outcome[t].code
        /\ reply'[t].id = correlation_id[t]
        /\ Told(t)' = Told(t)
    BY <1>b, <2>1 DEF PipelineType, Told
  <2>3. PipelineType' /\ Elsewhere(t)
    BY <1>b, <2>1 DEF PipelineType, Stages, Elsewhere
  <2>4. LogOf(t)'
    BY <1>b, <2>1, <2>2 DEF LogOf
  <2>5. AnsweredOf(t)'
    BY <1>b, <1>c, <2>1, <2>2 DEF AnsweredOf, Ended, Closings
  <2>. QED
    BY <1>a, <1>b, <2>1, <2>2, <2>3, <2>4, <2>5, InnerSteps DEF IdOf
<1>2. CASE CatchAll(t)
  <2>1. /\ outcome[t].raised # "nothing"
        /\ Log(t, "outer", <<"unhandled">>)
        /\ reply' = [reply EXCEPT ![t] = [code |-> 500, id |-> NoId]]
        /\ stage' = [stage EXCEPT ![t] = "answered"]
        /\ UNCHANGED <<request, correlation_id, context, outcome>>
    BY <1>2 DEF CatchAll, Send, GoTo
  <2>. DEFINE opening == Opening(request[t].target)
              before  == opening \o <<"failed">>
  <2>2. /\ request[t].target \in UseCases
        /\ Told(t) = before
    BY <1>b, <2>1 DEF Ended, Closings
  <2>0. /\ before \in Seq(Events)
        /\ before \o <<"unhandled">> = opening \o <<"failed", "unhandled">>
        /\ Len(before) + 1 \in DOMAIN (before \o <<"unhandled">>)
        /\ (before \o <<"unhandled">>)[Len(before) + 1] = "unhandled"
    <3>1. opening \in Seq(Events) /\ <<"failed">> \in Seq(Events) /\ <<"unhandled">> \in Seq(Events)
      BY LinesInOrder
    <3>2. before \in Seq(Events)
      BY <3>1, ConcatProperties
    <3>3. before \o <<"unhandled">> = opening \o (<<"failed">> \o <<"unhandled">>)
      BY <3>1, ConcatAssociative
    <3>4. before \o <<"unhandled">> = Append(before, "unhandled")
      BY <3>2, AppendIsConcat DEF Events
    <3>5. /\ Append(before, "unhandled") \in Seq(Events)
          /\ Len(Append(before, "unhandled")) = Len(before) + 1
          /\ Append(before, "unhandled")[Len(before) + 1] = "unhandled"
      BY <3>2, AppendProperties DEF Events
    <3>6. Len(before) + 1 \in DOMAIN Append(before, "unhandled")
      BY <3>2, <3>5, LenProperties
    <3>. QED
      BY <3>2, <3>3, <3>4, <3>5, <3>6, LinesInOrder
  <2>3. /\ lines' \in [Tasks -> Seq([event : Events, id : Ids])]
        /\ \A i \in DOMAIN lines'[t] : lines'[t][i].id = correlation_id[t]
        /\ Told(t)' = before \o <<"unhandled">>
    BY <1>b, <2>1, <2>2, LogStep, LinesInOrder
  <2>. HIDE DEF before
  <2>4. /\ stage'[t] = "answered"
        /\ reply'[t].code = 500
        /\ reply'[t].id = NoId
    BY <1>b, <2>1 DEF PipelineType
  <2>5. PipelineType' /\ Elsewhere(t)
    <3>1. Elsewhere(t)
      BY <1>b, <2>1 DEF PipelineType, Elsewhere, Log
    <3>2. [code |-> 500, id |-> NoId] \in [code : Codes, id : Ids]
      BY DEF Codes, Ids
    <3>3. /\ reply' \in [Tasks -> [code : Codes, id : Ids]]
          /\ stage' \in [Tasks -> Stages]
      BY <1>b, <2>1, <3>2 DEF PipelineType, Stages
    <3>. QED
      BY <1>b, <2>1, <2>3, <3>1, <3>3 DEF PipelineType
  <2>6. \E i \in DOMAIN lines'[t] :
            lines'[t][i] = [event |-> "unhandled", id |-> correlation_id[t]]
    <3>1. lines'[t] \in Seq([event : Events, id : Ids])
      BY <2>3
    <3>2. Told(t)' = [i \in DOMAIN lines'[t] |-> lines'[t][i].event]
      BY DEF Told
    <3>3. /\ Len(before) + 1 \in DOMAIN lines'[t]
          /\ lines'[t][Len(before) + 1].event = "unhandled"
      BY <2>0, <2>3, <3>2
    <3>4. lines'[t][Len(before) + 1] \in [event : Events, id : Ids]
      BY <3>1, <3>3, LenProperties, ElementOfSeq
    <3>. QED
      BY <2>3, <3>3, <3>4
  <2>7. LogOf(t)' /\ AnsweredOf(t)'
    <3>1. LogOf(t)'
      BY <1>b, <2>1, <2>4 DEF LogOf
    <3>2. <<"failed", "unhandled">> \in Endings(request'[t].target, reply'[t].code)
      BY <2>4 DEF Endings
    <3>3. Told(t)' = Opening(request'[t].target) \o <<"failed", "unhandled">>
      BY <2>0, <2>1, <2>3
    <3>4. request'[t].target \in UseCases /\ correlation_id'[t] = correlation_id[t]
      BY <2>1, <2>2
    <3>5. AnsweredOf(t)'
      <4>1. \E ending \in Endings(request'[t].target, reply'[t].code) :
               Told(t)' = Opening(request'[t].target) \o ending
        BY <3>2, <3>3, Zenon
      <4>2. \E i \in DOMAIN lines'[t] :
               lines'[t][i] = [event |-> "unhandled", id |-> correlation_id'[t]]
        BY <2>6, <3>4, Zenon
      <4>. QED
        BY <2>4, <3>4, <4>1, <4>2, Zenon DEF AnsweredOf
    <3>. QED
      BY <3>1, <3>5
  <2>. QED
    BY <1>a, <2>1, <2>3, <2>4, <2>5, <2>7, InnerSteps
<1>. QED
  BY <1>1, <1>2

(* A task that is over, or whose process died, leaves nothing behind.      *)
LEMMA ResetKeeps ==
    ASSUME NEW over, PipelineInvariant, Reset(over)
    PROVE  PipelineInvariant'
<1>1. PipelineType'
  <2>1. /\ NoRequest \in Request \cup {NoRequest}
        /\ "idle" \in Stages
        /\ NoId \in Ids
        /\ Unbound \in [outer : Ids, inner : Ids]
        /\ <<>> \in Seq([event : Events, id : Ids])
        /\ NoOutcome \in [raised : Raisable \cup {"nothing"}, code : Codes]
        /\ NoReply \in [code : Codes, id : Ids]
    BY DEF Stages, Ids, Unbound, NoOutcome, NoReply, Codes
  <2>. QED
    BY <2>1 DEF PipelineInvariant, PipelineType, Reset
<1>2. ASSUME NEW t \in Tasks
      PROVE  IdOf(t)' /\ LogOf(t)' /\ AnsweredOf(t)'
  <2>1. CASE t \in over
    <3>1. /\ request'[t] = NoRequest
          /\ stage'[t] = "idle"
          /\ correlation_id'[t] = NoId
          /\ lines'[t] = <<>>
          /\ reply'[t] = NoReply
      BY <2>1 DEF Reset
    <3>. QED
      BY <3>1 DEF IdOf, LogOf, AnsweredOf, NoReply
  <2>2. CASE t \notin over
    <3>1. /\ request'[t] = request[t]
          /\ stage'[t] = stage[t]
          /\ correlation_id'[t] = correlation_id[t]
          /\ context'[t] = context[t]
          /\ lines'[t] = lines[t]
          /\ outcome'[t] = outcome[t]
          /\ reply'[t] = reply[t]
      BY <2>2 DEF Reset
    <3>2. Told(t)' = Told(t)
      BY <3>1 DEF Told
    <3>3. IdOf(t) /\ LogOf(t) /\ AnsweredOf(t)
      BY DEF PipelineInvariant
    <3>4. IdOf(t)'
      BY <3>1, <3>3 DEF IdOf
    <3>5. LogOf(t)'
      BY ONLY <3>1, <3>2, <3>3 DEF LogOf, Ended
    <3>6. AnsweredOf(t)'
      BY <3>1, <3>2, <3>3, AnswersStand
    <3>. QED
      BY <3>4, <3>5, <3>6
  <2>. QED
    BY <2>1, <2>2
<1>. QED
  BY <1>1, <1>2 DEF PipelineInvariant

(* Every step of a request keeps the invariant of the pipeline.            *)
LEMMA PipelineNext ==
    ASSUME NEW t \in Tasks, PipelineInvariant, Receive(t) \/ RequestStep(t)
    PROVE  PipelineInvariant'
  BY Arrivals, RouteSteps, HandlerSteps, ReplySteps, ResetKeeps DEF RequestStep, Finish

(* So does a step that leaves the pipeline alone,                          *)
LEMMA PipelineStutters ==
    ASSUME PipelineInvariant, UNCHANGED pipelineVars
    PROVE  PipelineInvariant'
<1>. USE DEF pipelineVars
<1>1. PipelineType'
  BY DEF PipelineInvariant, PipelineType
<1>2. ASSUME NEW t \in Tasks
      PROVE  IdOf(t)' /\ LogOf(t)' /\ AnsweredOf(t)'
  <2>1. IdOf(t) /\ LogOf(t) /\ AnsweredOf(t)
    BY DEF PipelineInvariant
  <2>2. Told(t)' = Told(t)
    BY DEF Told
  <2>3. /\ request'[t] = request[t]
        /\ stage'[t] = stage[t]
        /\ correlation_id'[t] = correlation_id[t]
        /\ lines'[t] = lines[t]
        /\ outcome'[t] = outcome[t]
        /\ reply'[t] = reply[t]
    OBVIOUS
  <2>4. IdOf(t)'
    BY <2>1 DEF IdOf
  <2>5. LogOf(t)'
    BY ONLY <2>1, <2>2, <2>3 DEF LogOf, Ended
  <2>6. AnsweredOf(t)'
    BY <2>1, <2>2, <2>3, AnswersStand
  <2>. QED
    BY <2>4, <2>5, <2>6
<1>. QED
  BY <1>1, <1>2 DEF PipelineInvariant

(* and the lifespan invariant a step that leaves the lifespan alone.       *)
LEMMA LifespanStutters ==
    ASSUME LifespanInvariant, UNCHANGED lifespanVars
    PROVE  LifespanInvariant'
  BY DEF lifespanVars, LifespanInvariant, LifespanType, SchemaIsWhole, Starts, StartOf, StartsApart

(* Before any request the invariant of the pipeline holds.                 *)
LEMMA PipelineInit_ ==
    ASSUME PipelineInit
    PROVE  PipelineInvariant
<1>1. PipelineType
  BY DEF PipelineInit, PipelineType, Stages, Ids, Unbound, NoOutcome, NoReply, Codes
<1>2. ASSUME NEW t \in Tasks
      PROVE  IdOf(t) /\ LogOf(t) /\ AnsweredOf(t)
  BY DEF PipelineInit, IdOf, LogOf, AnsweredOf, NoReply
<1>. QED
  BY <1>1, <1>2 DEF PipelineInvariant

-----------------------------------------------------------------------------
(* The application as a whole.                                             *)

\* The part of the invariant that relates requests to processes.
ServerInvariant ==
    /\ server \in [Tasks -> Processes \cup {NoServer}]
    /\ \A t \in Tasks : server[t] = NoServer <=> stage[t] = "idle"
    /\ \A t \in Tasks : stage[t] # "idle" => phase[server[t]] \in {"serving", "stopping"}

(* The three parts are the whole.                                          *)
LEMMA InvariantParts ==
    ApplicationInvariant <=> LifespanInvariant /\ PipelineInvariant /\ ServerInvariant
<1>1. TypeOK <=> /\ LifespanType
                 /\ PipelineType
                 /\ server \in [Tasks -> Processes \cup {NoServer}]
                 /\ \A t \in Tasks : server[t] = NoServer <=> stage[t] = "idle"
  BY Statements DEF TypeOK, LifespanType, PipelineType
<1>2. LogMatchesReply /\ UnmarkedRepliesAreInTheLog <=> \A t \in Tasks : AnsweredOf(t)
  BY ZenonT(30) DEF LogMatchesReply, UnmarkedRepliesAreInTheLog, AnsweredOf
<1>. QED
  BY <1>1, <1>2 DEF ApplicationInvariant, LifespanInvariant, PipelineInvariant, ServerInvariant,
                    ServedWithTables, Carried

(* A step of a request is the request's own, and it is under way then.     *)
LEMMA RequestIsLocal ==
    ASSUME NEW t \in Tasks, PipelineType, Receive(t) \/ RequestStep(t)
    PROVE  /\ \A u \in Tasks \ {t} : stage'[u] = stage[u]
           /\ RequestStep(t) => stage[t] # "idle"
           /\ Receive(t) => stage'[t] # "idle"
  BY DEF PipelineType, Receive, RequestStep, Dispatch, AnswerEarly, CallHandler, HandlerReturns,
         RenderingFails, HandlerRaises, Echo, CatchAll, Finish, Reset, Send, GoTo

(* A process changes its own phase; it has no requests until it serves.    *)
LEMMA PhaseSteps ==
    ASSUME NEW p \in Processes, LifespanType, LifespanStep(p)
    PROVE  /\ \A q \in Processes \ {p} : phase'[q] = phase[q]
           /\ Stop(p) => phase'[p] = "stopping"
           /\ StartStep(p) \/ Start(p) \/ StartFails(p) =>
                 phase[p] \notin {"serving", "stopping"}
  BY DEF LifespanType, LifespanStep, StartStep, LookFor, CreateObject, CreateFails, Serve, Sending,
         Start, Stop, StartFails, Dispose, Kill, GoDown

Parts == LifespanInvariant /\ PipelineInvariant /\ ServerInvariant

(* All three parts hold initially.                                         *)
LEMMA PartsInit ==
    ASSUME Init
    PROVE  Parts
<1>1. LifespanInvariant /\ PipelineInvariant
  BY LifespanInit_, PipelineInit_ DEF Init
<1>2. ServerInvariant
  BY DEF Init, PipelineInit, ServerInvariant
<1>. QED
  BY <1>1, <1>2 DEF Parts

(* Every step of the application keeps the invariant.                      *)
LEMMA PartsNext ==
    ASSUME Parts, [Next]_vars
    PROVE  Parts'
<1>a. LifespanInvariant /\ PipelineInvariant /\ ServerInvariant
  BY DEF Parts
<1>b. LifespanType /\ PipelineType
  BY <1>a DEF LifespanInvariant, PipelineInvariant
\* A process starts, or stops when it has answered its requests.
<1>1. ASSUME NEW p \in Processes, LifespanStep(p), UNCHANGED <<pipelineVars, server>>,
             Stop(p) \/ TasksOf(p) = {}
      PROVE  Parts'
  <2>1. LifespanInvariant' /\ PipelineInvariant'
    BY <1>a, <1>1, LifespanNext, PipelineStutters
  <2>2. ASSUME NEW t \in Tasks, stage[t] # "idle"
        PROVE  phase'[server[t]] \in {"serving", "stopping"}
    <3>1. server[t] \in Processes /\ phase[server[t]] \in {"serving", "stopping"}
      BY <1>a, <2>2 DEF ServerInvariant
    <3>2. server[t] = p => Stop(p)
      BY <1>1 DEF TasksOf
    <3>. QED
      BY <1>b, <1>1, <3>1, <3>2, PhaseSteps
  <2>3. ServerInvariant'
    BY <1>a, <1>1, <2>2 DEF ServerInvariant, pipelineVars
  <2>. QED
    BY <2>1, <2>3 DEF Parts
\* A process dies with its requests.
<1>2. ASSUME NEW p \in Processes, Kill(p), Reset(TasksOf(p)),
             server' = [t \in Tasks |-> IF server[t] = p THEN NoServer ELSE server[t]]
      PROVE  Parts'
  <2>1. LifespanInvariant' /\ PipelineInvariant'
    BY <1>a, <1>2, LifespanNext, ResetKeeps DEF LifespanStep
  <2>2. ASSUME NEW t \in Tasks
        PROVE  /\ server'[t] \in Processes \cup {NoServer}
               /\ server'[t] = NoServer <=> stage'[t] = "idle"
               /\ stage'[t] # "idle" => phase'[server'[t]] \in {"serving", "stopping"}
    <3>1. CASE server[t] = p
      BY <1>2, <3>1 DEF Reset, TasksOf
    <3>2. CASE server[t] # p
      <4>1. server'[t] = server[t] /\ stage'[t] = stage[t]
        BY <1>2, <3>2 DEF Reset, TasksOf
      <4>2. server[t] \in Processes => phase'[server[t]] = phase[server[t]]
        BY <1>b, <1>2, <3>2, PhaseSteps DEF LifespanStep
      <4>. QED
        BY <1>a, <4>1, <4>2 DEF ServerInvariant
    <3>. QED
      BY <3>1, <3>2
  <2>. QED
    BY <1>2, <2>1, <2>2 DEF ServerInvariant, Parts
<1>3. ASSUME NEW p \in Processes, Live(p) \/ Environment(p)
      PROVE  Parts'
  <2>1. CASE /\ StartStep(p) \/ Start(p) \/ StartFails(p)
             /\ UNCHANGED <<pipelineVars, server>>
    <3>1. LifespanStep(p) /\ TasksOf(p) = {}
      BY <1>a, <1>b, <2>1, PhaseSteps, NoServerIsNoProcess
         DEF LifespanStep, ServerInvariant, TasksOf
    <3>. QED
      BY <1>1, <2>1, <3>1
  <2>2. CASE Stop(p) /\ UNCHANGED <<pipelineVars, server>>
    BY <1>1, <2>2 DEF LifespanStep
  <2>3. CASE StopWhenIdle(p)
    BY <1>1, <2>3 DEF StopWhenIdle, LifespanStep
  <2>. QED
    BY <1>2, <1>3, <2>1, <2>2, <2>3 DEF Live, Environment
\* A process takes a request.
<1>4. ASSUME NEW p \in Processes, NEW t \in Tasks, Accept(p, t)
      PROVE  Parts'
  <2>1. LifespanInvariant' /\ PipelineInvariant'
    BY <1>a, <1>4, LifespanStutters, PipelineNext DEF Accept
  <2>2. ServerInvariant'
    BY <1>a, <1>b, <1>4, RequestIsLocal, NoServerIsNoProcess
       DEF Accept, lifespanVars, ServerInvariant
  <2>. QED
    BY <2>1, <2>2 DEF Parts
\* A request goes on.
<1>5. ASSUME NEW t \in Tasks, Advance(t)
      PROVE  Parts'
  <2>1. LifespanInvariant' /\ PipelineInvariant'
    BY <1>a, <1>5, LifespanStutters, PipelineNext DEF Advance
  <2>2. ServerInvariant'
    BY <1>a, <1>b, <1>5, RequestIsLocal DEF Advance, lifespanVars, ServerInvariant
  <2>. QED
    BY <2>1, <2>2 DEF Parts
<1>6. ASSUME UNCHANGED vars
      PROVE  Parts'
  <2>1. LifespanInvariant' /\ PipelineInvariant'
    BY <1>a, <1>6, LifespanStutters, PipelineStutters DEF vars, lifespanVars, pipelineVars
  <2>2. ServerInvariant'
    BY <1>a, <1>6 DEF vars, ServerInvariant
  <2>. QED
    BY <2>1, <2>2 DEF Parts
<1>. QED
  BY <1>3, <1>4, <1>5, <1>6 DEF Next

-----------------------------------------------------------------------------
(* For any number of processes and requests:                               *)

(* The inductive invariant of the application holds throughout: how far    *)
(* each start has come, and what each request carries.                     *)
THEOREM ApplicationInvariantHolds == Spec => []ApplicationInvariant
<1>1. Init => Parts
  BY PartsInit
<1>2. Parts /\ [Next]_vars => Parts'
  BY PartsNext
<1>3. Parts => ApplicationInvariant
  BY InvariantParts DEF Parts
<1>. QED
  BY <1>1, <1>2, <1>3, PTL DEF Spec

(* Every variable of the application keeps its type.                       *)
THEOREM ApplicationTypeCorrect == Spec => []TypeOK
<1>1. ApplicationInvariant => TypeOK
  BY DEF ApplicationInvariant
<1>. QED
  BY <1>1, ApplicationInvariantHolds, PTL

(* However starts, failures and crashes of processes interleave, the       *)
(* schema is there as a whole or not at all.                               *)
THEOREM SchemaIsNeverPartial == Spec => []SchemaIsWhole
<1>1. ApplicationInvariant => SchemaIsWhole
  BY DEF ApplicationInvariant
<1>. QED
  BY <1>1, ApplicationInvariantHolds, PTL

(* No handler runs without the tables or in a process that is not up.      *)
THEOREM HandlersHaveTables == Spec => []ServedWithTables
<1>1. ApplicationInvariant => ServedWithTables
  BY DEF ApplicationInvariant
<1>. QED
  BY <1>1, ApplicationInvariantHolds, PTL

(* A request has one id, in its log lines and its reply, which no other    *)
(* request under way was given.                                            *)
THEOREM IdsIdentify == Spec => []OneIdPerRequest
<1>1. ApplicationInvariant => OneIdPerRequest
  <2>. SUFFICES ASSUME ApplicationInvariant, NEW t \in Tasks
                PROVE  LET ids == {lines[t][i].id : i \in DOMAIN lines[t]}
                                     \cup (IF reply[t].id = NoId THEN {} ELSE {reply[t].id})
                       IN  /\ request[t].upstream # NoId => ids \subseteq {request[t].upstream}
                           /\ request[t].upstream = NoId =>
                                 \E id \in Uuids :
                                    /\ ids \subseteq {id}
                                    /\ \A u \in Tasks \ {t} :
                                          ids # {} =>
                                             /\ reply[u].id # id
                                             /\ \A i \in DOMAIN lines[u] : lines[u][i].id # id
    BY DEF OneIdPerRequest
  <2>. DEFINE ids == {lines[t][i].id : i \in DOMAIN lines[t]}
                        \cup (IF reply[t].id = NoId THEN {} ELSE {reply[t].id})
  <2>1. \A u \in Tasks : IdOf(u) /\ LogOf(u)
    BY DEF ApplicationInvariant, Carried
  <2>2. ids \subseteq {correlation_id[t]}
    BY <2>1 DEF IdOf
  <2>3. CASE stage[t] \in {"idle", "received"}
    <3>1. lines[t] = <<>> /\ reply[t] = NoReply
      BY <2>1, <2>3 DEF LogOf
    <3>2. ids = {}
      BY <3>1 DEF NoReply
    <3>3. uuid4[t] \in Uuids
      BY UuidsApart
    <3>. QED
      BY <3>2, <3>3
  <2>4. CASE stage[t] \notin {"idle", "received"}
    <3>1. CASE request[t].upstream # NoId
      BY <2>1, <2>2, <2>4, <3>1 DEF IdOf
    <3>2. CASE request[t].upstream = NoId
      <4>1. correlation_id[t] = uuid4[t] /\ uuid4[t] \in Uuids
        BY <2>1, <2>4, <3>2, UuidsApart DEF IdOf
      <4>2. ASSUME NEW u \in Tasks \ {t}
            PROVE  /\ reply[u].id # uuid4[t]
                   /\ \A i \in DOMAIN lines[u] : lines[u][i].id # uuid4[t]
        <5>1. correlation_id[u] \in {NoId, uuid4[u]} \cup UpstreamIds
          BY <2>1 DEF IdOf, LogOf, Request
        <5>2. uuid4[u] # uuid4[t]
          BY UuidsApart DEF Apart
        <5>. QED
          BY <2>1, <4>1, <5>1, <5>2, PipelineConstants DEF IdOf
      <4>. QED
        BY <2>2, <3>2, <4>1, <4>2
    <3>. QED
      BY <3>1, <3>2
  <2>. QED
    BY <2>3, <2>4
<1>. QED
  BY <1>1, ApplicationInvariantHolds, PTL

(* What the log says of a use case is what the client was told.            *)
THEOREM LogTellsTheReply == Spec => []LogMatchesReply
<1>1. ApplicationInvariant => LogMatchesReply
  BY DEF ApplicationInvariant
<1>. QED
  BY <1>1, ApplicationInvariantHolds, PTL

(* A reply that lacks the id is a 500 whose exception the log has with it. *)
THEOREM CatchAllIsLogged == Spec => []UnmarkedRepliesAreInTheLog
<1>1. ApplicationInvariant => UnmarkedRepliesAreInTheLog
  BY DEF ApplicationInvariant
<1>. QED
  BY <1>1, ApplicationInvariantHolds, PTL

=============================================================================
