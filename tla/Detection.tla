----------------------------- MODULE Detection -----------------------------
(***************************************************************************)
(* From a failing container to a contract: the agent's informer delivers   *)
(* the statuses the kubelet writes, one is classified, an incident id is   *)
(* derived and marked, and evidence is collected about it. Statuses wait   *)
(* in a queue, so what is collected may be younger than what was           *)
(* classified.                                                             *)
(*                                                                         *)
(* One container of one pod. Its deaths are numbered from 1: death n ends  *)
(* its n-th run, in which its restart count is n - 1.                      *)
(***************************************************************************)
EXTENDS Naturals, Sequences

CONSTANTS
    Deaths,        \* what the runtime may say of the end of a run
    StablePeriod,  \* StableRunPeriod
    MaxDeaths,     \* bound on the deaths of the container
    MaxPending,    \* bound on the statuses that wait
    MaxAge         \* bound on the clock

(* memory: the message names memory. ContainerCannotRun is a StartError    *)
Death ==
    [reason: {"OOMKilled", "StartError", "Error", "Completed"},
     memory: BOOLEAN, exit: {"zero", "killed", "other"}]

ASSUME DetectionAssumption ==
    /\ Deaths \subseteq Death
    /\ {StablePeriod, MaxDeaths, MaxPending, MaxAge} \subseteq Nat

VARIABLES
    ends,       \* the deaths of the container, in order
    box,        \* the container
    age,        \* the clock
    pending,    \* statuses delivered and not yet handled
    marked,     \* ids this agent process has seen
    collector,  \* the contract being collected
    told        \* history: the ids of the contracts handed to the handler

detectVars == <<ends, box, age, pending, marked, collector, told>>

Phases == {"run", "dead", "backoff", "wait", "pull"}
FailureTypes  == {"CrashLoopBackOff", "OOMKilled", "OOMKilledDuringInit", "ImagePullBackOff"}

Box == [phase: Phases, ready: BOOLEAN, since: Nat]

(* A status: last and terminated are deaths, 0 if there is none            *)
ContainerStatus ==
    [phase: Phases, ready: BOOLEAN, since: Nat, restarts: Nat, last: Nat,
     terminated: Nat]

Id == [restarts: Nat, type: FailureTypes]

Free == [pc |-> "idle"]
Collecting == [pc: {"events", "previous", "current"}, id: Id, death: Nat]

(* A contract in the handler's hands: the death it reports, and the run    *)
(* its logs are of, 0 if it has none                                       *)
Handed == [pc: {"handle"}, id: Id, death: Nat, logs: Nat]

DetectionTypeOK ==
    /\ ends \in Seq(Deaths) /\ box \in Box /\ age \in Nat
    /\ pending \in Seq(ContainerStatus)
    /\ marked \subseteq Id
    /\ collector \in {Free} \cup Collecting \cup Handed
    /\ told \subseteq Id

DetectionInit ==
    /\ ends = <<>>
    /\ box \in [phase: {"run", "pull"}, ready: {FALSE}, since: {0}]
    /\ age = 0
    /\ pending = <<>> /\ marked = {} /\ collector = Free
    /\ told = {}

-----------------------------------------------------------------------------
(***************************************************************************)
(* The container, as its node runs it and writes its status. The status of *)
(* a container that has just died still shows the death before as the last *)
(* one; that of a container that waits to be restarted shows this death.   *)
(***************************************************************************)
Run == IF box.phase = "run" THEN Len(ends) + 1 ELSE Len(ends)

Last == IF box.phase = "dead" THEN Len(ends) - 1 ELSE Len(ends)

StatusNow ==
    [phase |-> box.phase, ready |-> box.ready, since |-> box.since,
     restarts |-> IF Run = 0 THEN 0 ELSE Run - 1,
     last |-> Last,
     terminated |-> IF box.phase = "dead" THEN Len(ends) ELSE 0]

Container(b) ==
    /\ box' = b
    /\ UNCHANGED <<age, pending, marked, collector, told>>

Die(d) ==
    /\ box.phase = "run" /\ Len(ends) < MaxDeaths
    /\ d.reason # "StartError"
    /\ ends' = Append(ends, d)
    /\ Container([box EXCEPT !.phase = "dead", !.ready = FALSE, !.since = 0])

(* The kill lands on the runtime's init: the run is never seen running     *)
FailToStart(d) ==
    /\ box.phase # "run" /\ Len(ends) < MaxDeaths
    /\ d.reason = "StartError"
    /\ ends' = Append(ends, d)
    /\ Container([box EXCEPT !.phase = "dead", !.ready = FALSE, !.since = 0])

Boot ==
    /\ box.phase # "run"
    /\ Container([box EXCEPT !.phase = "run", !.since = age])
    /\ UNCHANGED ends

(* The kubelet backs off, or waits with RunContainerError or for an image  *)
Wait(p) ==
    /\ box.phase = "dead" \/ (p = "pull" /\ box.phase \in {"backoff", "wait"})
    /\ p = "wait" => ends[Len(ends)].reason = "StartError"
    /\ Container([box EXCEPT !.phase = p])
    /\ UNCHANGED ends

Probe ==
    /\ box.phase = "run"
    /\ Container([box EXCEPT !.ready = ~@])
    /\ UNCHANGED ends

Tick ==
    /\ age < MaxAge
    /\ age' = age + 1
    /\ UNCHANGED <<ends, box, pending, marked, collector, told>>

(* The informer delivers what it was told of a change, and again what it   *)
(* knows, at every resync                                                  *)
Deliver ==
    /\ Len(pending) < MaxPending
    /\ pending' = Append(pending, StatusNow)
    /\ UNCHANGED <<ends, box, age, marked, collector, told>>

-----------------------------------------------------------------------------
(***************************************************************************)
(* classify: which failure a status shows, at time t.                      *)
(***************************************************************************)

(* Fault: the state of the run that ended is looked at before the last     *)
TerminatedNewest(s) == IF s.terminated # 0 THEN s.terminated ELSE s.last

(* The death a status is about: the last one, as the current state is the  *)
(* symptom; 0 if it shows none                                             *)
Terminated(s) == IF s.last # 0 THEN s.last ELSE s.terminated

classifyRecovered(s, t) ==
    s.phase = "run" /\ s.ready /\ t >= s.since + StablePeriod

isCrashLoopWaiting(s) == s.phase = "backoff"

classifyTerminated(s) ==
    LET d == ends[Terminated(s)]
    IN  IF d.reason = "OOMKilled" THEN "OOMKilled"
        ELSE IF d.memory THEN "OOMKilledDuringInit"
        ELSE IF d.exit = "killed" /\ d.reason = "Error" THEN "OOMKilled"
        ELSE IF d.exit # "zero" /\ (isCrashLoopWaiting(s) \/ s.restarts > 0)
        THEN "CrashLoopBackOff"
        ELSE "none"

(* Fault: a death that says nothing settles it, whatever the kubelet waits *)
(* for                                                                     *)
ContainerAtLast(s, t) ==
    IF classifyRecovered(s, t) THEN "none"
    ELSE IF s.phase = "pull" THEN "ImagePullBackOff"
    ELSE IF Terminated(s) # 0 THEN classifyTerminated(s)
    ELSE IF isCrashLoopWaiting(s) THEN "CrashLoopBackOff" ELSE "none"

ContainerAt(s, t) ==
    LET byDeath == IF Terminated(s) = 0 THEN "none" ELSE classifyTerminated(s)
    IN  IF classifyRecovered(s, t) THEN "none"
        ELSE IF s.phase = "pull" THEN "ImagePullBackOff"
        ELSE IF byDeath # "none" THEN byDeath
        ELSE IF isCrashLoopWaiting(s) THEN "CrashLoopBackOff" ELSE "none"

(* Fault: an old word of memory makes a memory kill of any crash           *)
WithEventsAny(type, death, names) ==
    IF type = "CrashLoopBackOff" /\ death # 0 /\ names
    THEN "OOMKilledDuringInit" ELSE type

(* names: an event of the pod names memory                                 *)
WithEvents(type, death, names) ==
    IF /\ type = "CrashLoopBackOff" /\ death # 0
       /\ ends[death].reason = "StartError" /\ names
    THEN "OOMKilledDuringInit" ELSE type

-----------------------------------------------------------------------------
(***************************************************************************)
(* The agent. client-go calls a handler from one goroutine, so statuses    *)
(* wait while one is handled. Each read of the cluster is a step.          *)
(***************************************************************************)
markNew ==
    /\ pending # <<>> /\ collector = Free
    /\ pending' = Tail(pending)
    /\ LET s    == Head(pending)
           type == ContainerAt(s, age)
           id   == [restarts |-> s.restarts, type |-> type]
       IN  IF type = "none" \/ id \in marked THEN UNCHANGED <<marked, collector>>
           ELSE /\ marked' = marked \cup {id}
                /\ collector' = [pc |-> "events", id |-> id, death |-> Terminated(s)]
    /\ UNCHANGED <<ends, box, age, told>>

(* The kubelet writes an event about a run that failed to start            *)
NamedByEvents ==
    \E i \in DOMAIN ends : ends[i].reason = "StartError" /\ ends[i].memory

(* The id of the contract is that of the refined type. No events are found *)
(* if the request fails                                                    *)
collectEvents(found) ==
    /\ collector.pc = "events"
    /\ collector' =
           [collector EXCEPT !.pc = "previous",
                !.id.type = WithEvents(@, collector.death, found /\ NamedByEvents)]
    /\ UNCHANGED <<ends, box, age, pending, marked, told>>

Tell(run) ==
    /\ collector' = [pc |-> "handle", id |-> collector.id, death |-> collector.death,
                     logs |-> run]
    /\ told' = told \cup {collector.id}
    /\ UNCHANGED <<ends, box, age, pending, marked>>

(* Logs of the run before, by the kubelet's view of now                    *)
collectPrevious ==
    /\ collector.pc = "previous" /\ Last # 0
    /\ Tell(Last)

previousFails ==
    /\ collector.pc = "previous"
    /\ collector' = [collector EXCEPT !.pc = "current"]
    /\ UNCHANGED <<ends, box, age, pending, marked, told>>

(* A run that waits to be restarted has the logs of its last death         *)
collectCurrent(answered) ==
    /\ collector.pc = "current"
    /\ Tell(IF ~answered THEN 0
            ELSE IF box.phase \in {"run", "dead"} THEN Run ELSE Last)

handled ==
    /\ collector.pc = "handle"
    /\ collector' = Free
    /\ UNCHANGED <<ends, box, age, pending, marked, told>>

Agent ==
    \/ markNew
    \/ \E found \in BOOLEAN : collectEvents(found)
    \/ collectPrevious \/ previousFails
    \/ \E answered \in BOOLEAN : collectCurrent(answered)
    \/ handled

Node ==
    \/ \E d \in Deaths : Die(d) \/ FailToStart(d)
    \/ \E p \in {"backoff", "wait", "pull"} : Wait(p)
    \/ Boot \/ Probe

DetectionNext == Node \/ Tick \/ Deliver \/ Agent

DetectionSpec == DetectionInit /\ [][DetectionNext]_detectVars

-----------------------------------------------------------------------------
(* What a container that is held back from running must be reported as, if *)
(* its last death leaves no doubt                                          *)
Failure ==
    IF box.phase = "pull" THEN {"ImagePullBackOff"}
    ELSE IF ends[Len(ends)].reason = "OOMKilled" THEN {"OOMKilled"}
    ELSE IF ends[Len(ends)].memory THEN {"OOMKilledDuringInit"}
    ELSE FailureTypes

Reported(ids) ==
    \E id \in ids : id.restarts = StatusNow.restarts /\ id.type \in Failure

(* When the agent takes a status that is up to date, of a container that   *)
(* waits in back-off or for its image, then what it died of has been told  *)
(* or is about to be, although the id may be marked for the death before,  *)
(* or by a status that was out of date (watch, ContainerAt).               *)
FailureIsTold ==
    [][pending # <<>> /\ pending' = Tail(pending) /\ Head(pending) = StatusNow
          /\ box.phase \in {"backoff", "pull"}
          => \/ Reported(told)
             \/ (collector'.pc = "events" /\ Reported({collector'.id}))]_detectVars

(* The logs of a contract are never those of a run before the one whose    *)
(* end it reports, although they are read later and the container goes on: *)
(* they may be younger (collectLogs, buildContainer).                      *)
LogsAreNotOlder ==
    collector.pc = "handle" /\ collector.logs # 0 => collector.death <= collector.logs

(* Only a death that named memory itself, or a failure to start in a pod   *)
(* whose runtime named it, is reported as a memory kill of init: an old    *)
(* event does not make one of a container that ran (WithEvents).           *)
InitKillIsNamed ==
    collector.pc = "handle" /\ collector.id.type = "OOMKilledDuringInit" =>
        /\ collector.death # 0
        /\ \/ ends[collector.death].memory
           \/ (ends[collector.death].reason = "StartError" /\ NamedByEvents)

(* The same death may be reported under two ids, before and after the next *)
(* start, and an id may stand for two deaths, but no more (IncidentID).    *)
IdSpansTwoDeaths ==
    collector.pc = "handle" /\ collector.death # 0 =>
        collector.id.restarts \in {collector.death - 1, collector.death}
=============================================================================
