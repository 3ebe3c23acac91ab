------------------------------ MODULE Resolver ------------------------------
(***************************************************************************)
(* Resolver.Track: after an executed action, did the workload become Ready *)
(* in time and stay so. The resolver polls the object and reads the status *)
(* its controller last wrote, which may be about an older generation and   *)
(* older pods. Code takes no time against the clock; a tick is a part of   *)
(* the interval between two polls.                                         *)
(***************************************************************************)
EXTENDS Naturals

CONSTANTS
    Kinds,           \* kinds of workload that are tracked
    Want,            \* desired replicas
    Surge,           \* kind -> pods a rollout may have beyond those
    ReadyWithin,     \* time to become ready
    StableFor,       \* time to stay ready
    Poll,            \* interval of the polls
    MaxGeneration,   \* bound on changes of the workload
    MaxTick          \* bound on the clock

ASSUME ResolverAssumption ==
    /\ Kinds \subseteq {"Deployment", "StatefulSet", "DaemonSet"}
    /\ Surge \in [Kinds -> Nat]
    /\ \A k \in Kinds : k # "Deployment" => Surge[k] = 0
    /\ {Want, Poll} \subseteq Nat \ {0}
    /\ {ReadyWithin, StableFor, MaxGeneration, MaxTick} \subseteq Nat

VARIABLES
    kind,     \* of the workload that is tracked
    clock,
    pods,     \* pods of the current generation and older, all and ready
    object,   \* the object: its generation and its status
    tracker,  \* Track
    stretch   \* history: how long the status was not ready, at its longest
              \* since the workload was accepted as ready, and by now

trackVars == <<kind, clock, pods, object, tracker, stretch>>

Pods == [current: Nat, currentReady: Nat, old: Nat, oldReady: Nat]

(* sound: history, whether all wanted pods were current and ready when the *)
(* controller wrote this status                                            *)
Object ==
    [generation: Nat, observed: Nat, ready: Nat, updated: Nat, unavailable: Nat,
     sound: BOOLEAN]

Tracker ==
    [phase: {"reach", "stable", "resolved", "late", "flapped", "ended"},
     readyAt: Nat, wakes: Nat]

ResolverTypeOK ==
    /\ kind \in Kinds /\ clock \in Nat /\ pods \in Pods
    /\ object \in Object /\ tracker \in Tracker
    /\ stretch \in [now: Nat, longest: Nat]

(* The patch has been applied: the generation is new, the status is not    *)
ResolverInit ==
    /\ kind \in Kinds
    /\ clock = 0
    /\ pods = [current |-> 0, currentReady |-> 0, old |-> Want, oldReady |-> Want]
    /\ object = [generation |-> 2, observed |-> 1, ready |-> Want, updated |-> Want,
                 unavailable |-> 0, sound |-> TRUE]
    /\ tracker = [phase |-> "reach", readyAt |-> 0, wakes |-> 0]
    /\ stretch = [now |-> 0, longest |-> 0]

-----------------------------------------------------------------------------
(* Fault: the status may be about an older generation *)
readyStale(k, o) ==
    /\ o.ready >= Want /\ o.updated >= Want
    /\ k = "Deployment" => o.unavailable = 0

(* Fault: a Deployment is read like the other kinds *)
readySurging(k, o) ==
    /\ o.observed >= o.generation
    /\ o.ready >= Want /\ o.updated >= Want

(* Resolver.ready. A Deployment may run more pods than it wants, so it     *)
(* must also have none that is unavailable                                 *)
ready(k, o) ==
    /\ o.observed >= o.generation
    /\ o.ready >= Want /\ o.updated >= Want
    /\ k = "Deployment" => o.unavailable = 0

(* An action in which no poll is due keeps the tracker *)
Tracking == tracker.phase \in {"reach", "stable"}
Due == Tracking /\ clock >= tracker.wakes

Sleeps == [tracker EXCEPT !.wakes = clock + Poll]

(* Fault: the first phase has no end *)
ReachUnbounded ==
    /\ tracker.phase = "reach" /\ Due
    /\ tracker' =
           IF ready(kind, object)
           THEN [phase |-> IF StableFor = 0 THEN "resolved" ELSE "stable",
                 readyAt |-> clock, wakes |-> clock + Poll]
           ELSE Sleeps
    /\ stretch' = [now |-> 0, longest |-> 0]
    /\ UNCHANGED <<kind, clock, pods, object>>

(* The first phase. The time is looked at after the workload               *)
Reach ==
    /\ tracker.phase = "reach" /\ Due
    /\ tracker' =
           IF ready(kind, object)
           THEN [phase |-> IF StableFor = 0 THEN "resolved" ELSE "stable",
                 readyAt |-> clock, wakes |-> clock + Poll]
           ELSE IF clock >= ReadyWithin THEN [tracker EXCEPT !.phase = "late"]
           ELSE Sleeps
    /\ stretch' = [now |-> 0, longest |-> 0]
    /\ UNCHANGED <<kind, clock, pods, object>>

(* Fault: the second phase looks at the workload at its end only *)
StableOnce ==
    /\ tracker.phase = "stable" /\ Due
    /\ tracker' =
           IF clock < tracker.readyAt + StableFor THEN Sleeps
           ELSE [tracker EXCEPT !.phase = IF ready(kind, object) THEN "resolved"
                                          ELSE "flapped"]
    /\ UNCHANGED <<kind, clock, pods, object, stretch>>

Stable ==
    /\ tracker.phase = "stable" /\ Due
    /\ tracker' =
           IF ~ready(kind, object) THEN [tracker EXCEPT !.phase = "flapped"]
           ELSE IF clock >= tracker.readyAt + StableFor
           THEN [tracker EXCEPT !.phase = "resolved"]
           ELSE Sleeps
    /\ UNCHANGED <<kind, clock, pods, object, stretch>>

(* An error of the API, or the agent ends: no label *)
End ==
    /\ Tracking
    /\ tracker' = [tracker EXCEPT !.phase = "ended"]
    /\ UNCHANGED <<kind, clock, pods, object, stretch>>

-----------------------------------------------------------------------------
(***************************************************************************)
(* The cluster: somebody changes the workload again, pods come and go and  *)
(* become ready or not, and the controller writes what it sees.            *)
(***************************************************************************)
Change ==
    /\ object.generation < MaxGeneration
    /\ object' = [object EXCEPT !.generation = @ + 1]
    /\ pods' = [current |-> 0, currentReady |-> 0, old |-> pods.old + pods.current,
                oldReady |-> pods.oldReady + pods.currentReady]
    /\ UNCHANGED <<kind, clock, tracker, stretch>>

Pod(p) ==
    /\ pods' = p
    /\ UNCHANGED <<kind, clock, object, tracker, stretch>>

Create ==
    /\ pods.current < Want /\ pods.current + pods.old < Want + Surge[kind]
    /\ Pod([pods EXCEPT !.current = @ + 1])

Remove ==
    /\ pods.old > 0
    /\ \/ pods.oldReady > 0 /\ Pod([pods EXCEPT !.old = @ - 1, !.oldReady = @ - 1])
       \/ pods.oldReady < pods.old /\ Pod([pods EXCEPT !.old = @ - 1])

BecomeReady ==
    pods.currentReady < pods.current /\ Pod([pods EXCEPT !.currentReady = @ + 1])

BecomeUnready ==
    pods.currentReady > 0 /\ Pod([pods EXCEPT !.currentReady = @ - 1])

Sync ==
    LET all == pods.current + pods.old
        allReady == pods.currentReady + pods.oldReady
    IN  /\ object' = [object EXCEPT !.observed = object.generation,
                                    !.ready = allReady, !.updated = pods.current,
                                    !.unavailable = all - allReady,
                                    !.sound = pods.currentReady >= Want]
        /\ stretch' = IF ready(kind, object') THEN [stretch EXCEPT !.now = 0]
                      ELSE stretch
        /\ UNCHANGED <<kind, clock, pods, tracker>>

Advance ==
    /\ clock < MaxTick
    /\ ~Due
    /\ clock' = clock + 1
    /\ stretch' = IF tracker.phase # "stable" \/ ready(kind, object) THEN stretch
                  ELSE [now |-> stretch.now + 1,
                        longest |-> IF stretch.now < stretch.longest THEN stretch.longest
                                    ELSE stretch.now + 1]
    /\ UNCHANGED <<kind, pods, object, tracker>>

Track == Reach \/ Stable

ResolverNext ==
    \/ Track \/ End
    \/ Change \/ Create \/ Remove \/ BecomeReady \/ BecomeUnready \/ Sync
    \/ Advance

(* The agent runs and time passes; pods and controller need do nothing *)
ResolverSpec ==
    /\ ResolverInit /\ [][ResolverNext]_trackVars
    /\ WF_trackVars(Track) /\ WF_trackVars(Advance)

-----------------------------------------------------------------------------
(* A workload is accepted as ready only if, when its controller last wrote *)
(* its status, all the pods it wants were of the current generation and    *)
(* ready: never on the strength of the pods the patch replaces (ready).    *)
AcceptedIsSound ==
    [][tracker.phase = "reach" /\ tracker'.phase \in {"stable", "resolved"} =>
          object.sound /\ object.observed = object.generation]_trackVars

(* A workload whose status was not ready for longer than the interval of   *)
(* the polls, at any time in the window, is not labelled resolved, and the *)
(* window is never shorter than StableFor (Track, second phase).           *)
FlapIsSeen ==
    tracker.phase = "resolved" =>
        stretch.longest <= Poll /\ clock >= tracker.readyAt + StableFor

(* Tracking ends, with a label or without, whatever the workload does: a   *)
(* workload that never becomes ready, or flaps, does not hold it (Track).  *)
TrackingEnds == <>~Tracking
=============================================================================
