------------------------------ MODULE MCParts ------------------------------
(***************************************************************************)
(* The smaller parts of the system, explored one at a time: part is the    *)
(* one that moves in a behaviour, the others are at rest. They share no    *)
(* state, so their state spaces add up and nothing is lost.                *)
(***************************************************************************)
EXTENDS Messages, Schema, Resolver, Evaluation, Detection

VARIABLE part

partsVars == <<part, slackVars, schemaVars, trackVars, evalVars, detectVars>>

MCAddedIn == [c \in Columns |-> IF c \in {"token", "action"} THEN 2 ELSE 3]
MCSurge   == [k \in Kinds |-> IF k = "Deployment" THEN 1 ELSE 0]

(* Memory that ran out while the container ran and while it started, a     *)
(* start that failed without a word of memory, a crash of the application, *)
(* and an exit that says nothing                                           *)
MCDeaths ==
    {[reason |-> "OOMKilled", memory |-> FALSE, exit |-> "killed"],
     [reason |-> "StartError", memory |-> TRUE, exit |-> "other"],
     [reason |-> "StartError", memory |-> FALSE, exit |-> "other"],
     [reason |-> "Error", memory |-> FALSE, exit |-> "other"],
     [reason |-> "Completed", memory |-> FALSE, exit |-> "zero"]}

(* A part at rest: nothing was clicked, the ledger is open, no workload is *)
(* tracked, no phase of the harness runs, the container runs               *)
Init ==
    /\ part \in {"slack", "schema", "resolver", "evaluation", "detection"}
    /\ MessagesInit /\ (part # "slack" => promoted = {})
    /\ IF part = "schema" THEN SchemaInit
       ELSE /\ file = [tables |-> {"schema_meta", "diagnoses"}, columns |-> Columns,
                       version |-> 3]
            /\ opener = [Closed EXCEPT !.stage = "open", !.release = 3, !.current = 3,
                                       !.view = file]
            /\ kills = 0
    /\ IF part = "resolver" THEN ResolverInit
       ELSE /\ kind = "Deployment" /\ clock = 0
            /\ pods = [current |-> Want, currentReady |-> Want, old |-> 0, oldReady |-> 0]
            /\ object = [generation |-> 1, observed |-> 1, ready |-> Want,
                         updated |-> Want, unavailable |-> 0, sound |-> TRUE]
            /\ tracker = [phase |-> "ended", readyAt |-> 0, wakes |-> 0]
            /\ stretch = [now |-> 0, longest |-> 0]
    /\ EvaluationInit
    /\ DetectionInit /\ (part # "detection" => box.phase = "run")

Slack(A)    == /\ part = "slack" /\ A
               /\ UNCHANGED <<part, schemaVars, trackVars, evalVars, detectVars>>
Ledger(A)   == /\ part = "schema" /\ A
               /\ UNCHANGED <<part, slackVars, trackVars, evalVars, detectVars>>
Tracks(A)   == /\ part = "resolver" /\ A
               /\ UNCHANGED <<part, slackVars, schemaVars, evalVars, detectVars>>
Measures(A) == /\ part = "evaluation" /\ A
               /\ UNCHANGED <<part, slackVars, schemaVars, trackVars, detectVars>>
Detects(A)  == /\ part = "detection" /\ A
               /\ UNCHANGED <<part, slackVars, schemaVars, trackVars, evalVars>>

Next == Slack(MessagesNext) \/ Ledger(SchemaNext) \/ Tracks(ResolverNext)
        \/ Measures(EvaluationNext) \/ Detects(DetectionNext)

(* The fairness of each part's own specification *)
Spec ==
    /\ Init /\ [][Next]_partsVars
    /\ WF_partsVars(Slack(TakeAny)) /\ WF_partsVars(Slack(HandleAny))
    /\ WF_partsVars(Ledger(Opening))
    /\ WF_partsVars(Tracks(Track)) /\ WF_partsVars(Tracks(Advance))
=============================================================================
