--------------------------- MODULE ResolverProofs ---------------------------
(***************************************************************************)
(* For any kind of workload, any number of pods, any windows and any poll  *)
(* interval, whatever pods, controller and further changes do: a workload  *)
(* is accepted on the strength of its new pods alone, and is labelled      *)
(* resolved only after a whole window without a flap longer than a poll.   *)
(***************************************************************************)
EXTENDS Resolver, TLAPS

(* No pod is counted as ready that is not there, and a rollout never has   *)
(* more pods than it may                                                   *)
PodsAreBounded ==
    /\ pods.currentReady <= pods.current
    /\ pods.oldReady <= pods.old
    /\ pods.current + pods.old <= Want + Surge[kind]

(* A status that is about the newest generation and reads as ready was     *)
(* written when it was: the controller never saw a later generation        *)
StatusIsSound ==
    /\ object.observed <= object.generation
    /\ ready(kind, object) => object.sound

(* Within the window, the status was ready at the poll before, so it has   *)
(* not been unready for longer than since then                             *)
StretchIsSeen ==
    /\ tracker.phase = "stable" =>
           /\ ready(kind, object) => stretch.now = 0
           /\ stretch.now + tracker.wakes <= clock + Poll
           /\ clock <= tracker.wakes
           /\ stretch.longest <= Poll
    /\ tracker.phase = "resolved" =>
           stretch.longest <= Poll /\ clock >= tracker.readyAt + StableFor

IInv == ResolverTypeOK /\ PodsAreBounded /\ StatusIsSound /\ StretchIsSeen

-----------------------------------------------------------------------------
(* What the controller counts tells of the new pods, if it reads as ready: *)
(* a Deployment has no pod that is unavailable, and the other kinds have   *)
(* no pod beyond those they want (Resolver.ready).                         *)
LEMMA CountIsSound ==
    ASSUME kind \in Kinds, pods \in Pods, PodsAreBounded,
           pods.currentReady + pods.oldReady >= Want, pods.current >= Want,
           kind = "Deployment" =>
               (pods.current + pods.old) - (pods.currentReady + pods.oldReady) = 0
    PROVE  pods.currentReady >= Want
<1>1. /\ pods.current \in Nat /\ pods.currentReady \in Nat
      /\ pods.old \in Nat /\ pods.oldReady \in Nat
      /\ Want \in Nat /\ Surge[kind] \in Nat
  BY ResolverAssumption DEF Pods
<1>2. CASE kind = "Deployment"
  BY <1>1, <1>2 DEF PodsAreBounded
<1>3. CASE kind # "Deployment"
  <2>1. Surge[kind] = 0
    BY <1>3, ResolverAssumption
  <2> QED
    BY <1>1, <2>1 DEF PodsAreBounded
<1> QED
  BY <1>2, <1>3

(* A status written now is sound (the controller's update).                *)
LEMMA SyncKeeps ==
    ASSUME IInv, Sync
    PROVE  IInv'
<1>1. ResolverTypeOK /\ kind' = kind /\ clock' = clock /\ pods' = pods /\ tracker' = tracker
  BY DEF IInv, Sync
<1>2. /\ pods.current \in Nat /\ pods.currentReady \in Nat
      /\ pods.old \in Nat /\ pods.oldReady \in Nat
      /\ pods.currentReady <= pods.current /\ pods.oldReady <= pods.old
      /\ Want \in Nat /\ object \in Object /\ object.generation \in Nat
  BY ResolverAssumption DEF IInv, ResolverTypeOK, Pods, PodsAreBounded, Object
<1> DEFINE r == pods.currentReady + pods.oldReady
           n == (pods.current + pods.old) - (pods.currentReady + pods.oldReady)
           s == pods.currentReady >= Want
<1>3. r \in Nat /\ n \in Nat /\ s \in BOOLEAN
  BY <1>2
<1>4. PICK o : /\ object' = o
               /\ o = [object EXCEPT !.observed = object.generation, !.ready = r,
                                     !.updated = pods.current, !.unavailable = n,
                                     !.sound = s]
  BY DEF Sync
<1> HIDE DEF r, n, s
<1>5. /\ o \in Object /\ o.observed = object.generation /\ o.generation = object.generation
      /\ o.ready = r /\ o.updated = pods.current /\ o.unavailable = n /\ o.sound = s
  BY <1>2, <1>3, <1>4 DEF Object
<1>6. ready(kind, o) => s
  <2> SUFFICES ASSUME ready(kind, o) PROVE s
    OBVIOUS
  <2>1. r >= Want /\ pods.current >= Want /\ (kind = "Deployment" => n = 0)
    BY <1>5 DEF ready
  <2> QED
    BY <1>1, <2>1, CountIsSound DEF IInv, ResolverTypeOK, r, n, s
<1>7. \/ stretch' = [stretch EXCEPT !.now = 0] /\ ready(kind, o)
      \/ stretch' = stretch /\ ~ready(kind, o)
  BY <1>4 DEF Sync
<1>8. stretch' \in [now: Nat, longest: Nat] /\ stretch'.longest = stretch.longest
      /\ stretch'.now <= stretch.now /\ (ready(kind, o) => stretch'.now = 0)
  BY <1>1, <1>7 DEF ResolverTypeOK
<1>9. StatusIsSound' /\ PodsAreBounded'
  <2>1. object'.observed <= object'.generation
    BY <1>2, <1>4, <1>5
  <2>2. ready(kind, object)' = ready(kind, o)
    BY <1>1, <1>4 DEF ready
  <2>3. ready(kind, object)' => object'.sound
    BY <1>4, <1>5, <1>6, <2>2, Zenon
  <2> QED
    BY <1>1, <2>1, <2>3 DEF IInv, StatusIsSound, PodsAreBounded
<1>10. StretchIsSeen'
  <2>1. stretch.now \in Nat /\ stretch'.now \in Nat /\ clock \in Nat /\ tracker.wakes \in Nat
        /\ Poll \in Nat
    BY <1>1, <1>8, ResolverAssumption DEF ResolverTypeOK, Tracker
  <2> QED
    BY <1>1, <1>4, <1>8, <2>1 DEF IInv, StretchIsSeen, ready
<1> QED
  BY <1>1, <1>4, <1>5, <1>8, <1>9, <1>10 DEF IInv, ResolverTypeOK

(* Pods come, go and become ready or not.                                  *)
LEMMA PodsKeep ==
    ASSUME IInv, Create \/ Remove \/ BecomeReady \/ BecomeUnready
    PROVE  IInv'
<1>1. UNCHANGED <<kind, clock, object, tracker, stretch>>
  BY DEF Create, Remove, BecomeReady, BecomeUnready, Pod
<1>2. /\ pods \in Pods /\ pods.current \in Nat /\ pods.currentReady \in Nat
      /\ pods.old \in Nat /\ pods.oldReady \in Nat
      /\ Want \in Nat /\ Surge[kind] \in Nat /\ PodsAreBounded
  BY ResolverAssumption DEF IInv, ResolverTypeOK, Pods
<1>3. pods' \in Pods /\ PodsAreBounded'
  <2>1. CASE Create
    <3>1. pods' = [pods EXCEPT !.current = pods.current + 1]
      BY <2>1 DEF Create, Pod
    <3> QED
      BY <1>1, <1>2, <2>1, <3>1 DEF Create, Pods, PodsAreBounded
  <2>2. CASE Remove
    <3> DEFINE all == pods.old - 1
               some == pods.oldReady - 1
    <3>1. all \in Nat /\ all <= pods.old
      BY <1>2, <2>2 DEF Remove
    <3>2. CASE pods.oldReady > 0 /\ Pod([pods EXCEPT !.old = all, !.oldReady = some])
      <4>1. some \in Nat /\ some <= all
        BY <1>2, <3>2 DEF PodsAreBounded
      <4> HIDE DEF all, some
      <4>2. /\ pods' \in Pods /\ pods'.old = all /\ pods'.oldReady = some
            /\ pods'.current = pods.current /\ pods'.currentReady = pods.currentReady
        BY <1>2, <3>1, <3>2, <4>1 DEF Pods, Pod
      <4> QED
        BY <1>1, <1>2, <3>1, <4>1, <4>2 DEF PodsAreBounded
    <3>3. CASE pods.oldReady < pods.old /\ Pod([pods EXCEPT !.old = all])
      <4>1. pods.oldReady <= all
        BY <1>2, <3>3
      <4> HIDE DEF all
      <4>2. /\ pods' \in Pods /\ pods'.old = all /\ pods'.oldReady = pods.oldReady
            /\ pods'.current = pods.current /\ pods'.currentReady = pods.currentReady
        BY <1>2, <3>1, <3>3 DEF Pods, Pod
      <4> QED
        BY <1>1, <1>2, <3>1, <4>1, <4>2 DEF PodsAreBounded
    <3> QED
      BY <2>2, <3>2, <3>3 DEF Remove
  <2>3. CASE BecomeReady \/ BecomeUnready
    <3>1. PICK c \in Nat : pods' = [pods EXCEPT !.currentReady = c] /\ c <= pods.current
      BY <1>2, <2>3 DEF BecomeReady, BecomeUnready, Pod, PodsAreBounded
    <3> QED
      BY <1>1, <1>2, <3>1 DEF Pods, PodsAreBounded
  <2> QED
    BY <2>1, <2>2, <2>3
<1> QED
  BY <1>1, <1>3 DEF IInv, ResolverTypeOK, StatusIsSound, StretchIsSeen, ready

(* A further change makes every status one of an older generation.         *)
LEMMA ChangeKeeps ==
    ASSUME IInv, Change
    PROVE  IInv'
<1>1. UNCHANGED <<kind, clock, tracker, stretch>> /\ kind \in Kinds
  BY DEF Change, IInv, ResolverTypeOK
<1>2. /\ pods \in Pods /\ pods.current \in Nat /\ pods.currentReady \in Nat
      /\ pods.old \in Nat /\ pods.oldReady \in Nat
      /\ Want \in Nat /\ Surge[kind] \in Nat /\ PodsAreBounded
      /\ object \in Object /\ object.generation \in Nat /\ object.observed \in Nat
      /\ object.observed <= object.generation
  BY ResolverAssumption DEF IInv, ResolverTypeOK, Pods, Object, StatusIsSound
<1>3. pods' \in Pods /\ PodsAreBounded'
  BY <1>1, <1>2 DEF Change, Pods, PodsAreBounded
<1>4. /\ object' \in Object /\ object'.generation = object.generation + 1
      /\ object'.observed = object.observed
  BY <1>2 DEF Change, Object
<1>5. ~ready(kind, object') /\ object'.observed <= object'.generation
  BY <1>2, <1>4 DEF ready
<1> QED
  BY <1>1, <1>3, <1>4, <1>5 DEF IInv, ResolverTypeOK, StatusIsSound, StretchIsSeen

(* Time passes, but never beyond a poll that is due.                       *)
LEMMA AdvanceKeeps ==
    ASSUME IInv, Advance
    PROVE  IInv'
<1>1. UNCHANGED <<kind, pods, object, tracker>> /\ clock' = clock + 1 /\ ~Due
  BY DEF Advance
<1>2. /\ clock \in Nat /\ tracker.wakes \in Nat /\ tracker.readyAt \in Nat
      /\ stretch \in [now: Nat, longest: Nat] /\ stretch.now \in Nat /\ stretch.longest \in Nat
      /\ Poll \in Nat /\ StableFor \in Nat
  BY ResolverAssumption DEF IInv, ResolverTypeOK, Tracker
<1>3. CASE tracker.phase # "stable" \/ ready(kind, object)
  <2>1. stretch' = stretch
    BY <1>3 DEF Advance
  <2>2. tracker.phase = "stable" => clock < tracker.wakes
    BY <1>1, <1>2 DEF Due, Tracking
  <2>3. StretchIsSeen'
    BY <1>1, <1>2, <2>1, <2>2 DEF IInv, StretchIsSeen, ready
  <2> QED
    BY <1>1, <1>2, <2>1, <2>3 DEF IInv, ResolverTypeOK, PodsAreBounded, StatusIsSound, ready
<1>4. CASE tracker.phase = "stable" /\ ~ready(kind, object)
  <2>1. stretch' = [now |-> stretch.now + 1,
                    longest |-> IF stretch.now < stretch.longest THEN stretch.longest
                                ELSE stretch.now + 1]
    BY <1>4 DEF Advance
  <2>2. clock < tracker.wakes
    BY <1>1, <1>2, <1>4 DEF Due, Tracking
  <2>3. StretchIsSeen'
    BY <1>1, <1>2, <1>4, <2>1, <2>2 DEF IInv, StretchIsSeen, ready
  <2>4. stretch' \in [now: Nat, longest: Nat]
    BY <1>2, <2>1
  <2> QED
    BY <1>1, <1>2, <2>3, <2>4 DEF IInv, ResolverTypeOK, PodsAreBounded, StatusIsSound, ready
<1> QED
  BY <1>3, <1>4

(* A poll: both phases of Track, and its end.                              *)
LEMMA TrackKeeps ==
    ASSUME IInv, Track \/ End
    PROVE  IInv'
<1>1. UNCHANGED <<kind, clock, pods, object>>
  BY DEF Track, Reach, Stable, End
<1>2. /\ clock \in Nat /\ tracker \in Tracker /\ tracker.readyAt \in Nat
      /\ stretch \in [now: Nat, longest: Nat] /\ stretch.now \in Nat /\ stretch.longest \in Nat
      /\ Poll \in Nat /\ StableFor \in Nat
  BY ResolverAssumption DEF IInv, ResolverTypeOK, Tracker
<1>3. PodsAreBounded' /\ StatusIsSound'
  BY <1>1 DEF IInv, PodsAreBounded, StatusIsSound, ready
<1>4. tracker' \in Tracker /\ stretch' \in [now: Nat, longest: Nat] /\ StretchIsSeen'
  <2>1. CASE Reach
    <3>1. stretch' = [now |-> 0, longest |-> 0]
      BY <2>1 DEF Reach
    <3>2. \/ tracker' = [phase |-> IF StableFor = 0 THEN "resolved" ELSE "stable",
                         readyAt |-> clock, wakes |-> clock + Poll]
          \/ tracker' = [tracker EXCEPT !.phase = "late"]
          \/ tracker' = [tracker EXCEPT !.wakes = clock + Poll] /\ tracker.phase = "reach"
      BY <2>1 DEF Reach, Sleeps
    <3> QED
      BY <1>1, <1>2, <3>1, <3>2 DEF Tracker, StretchIsSeen
  <2>2. CASE Stable
    <3>1. tracker.phase = "stable" /\ stretch' = stretch
      BY <2>2 DEF Stable
    <3>2. \/ tracker' = [tracker EXCEPT !.phase = "flapped"]
          \/ /\ tracker' = [tracker EXCEPT !.phase = "resolved"]
             /\ clock >= tracker.readyAt + StableFor
          \/ tracker' = [tracker EXCEPT !.wakes = clock + Poll] /\ ready(kind, object)
      BY <2>2 DEF Stable, Sleeps
    <3> QED
      BY <1>1, <1>2, <3>1, <3>2 DEF Tracker, IInv, StretchIsSeen, ready
  <2>3. CASE End
    BY <1>1, <1>2, <2>3 DEF End, Tracker, StretchIsSeen
  <2> QED
    BY <2>1, <2>2, <2>3 DEF Track
<1> QED
  BY <1>1, <1>3, <1>4 DEF IInv, ResolverTypeOK

-----------------------------------------------------------------------------
LEMMA IInvInit == ResolverInit => IInv
<1> SUFFICES ASSUME ResolverInit PROVE IInv
  OBVIOUS
<1>1. Want \in Nat /\ Surge[kind] \in Nat /\ kind \in Kinds
  BY ResolverAssumption DEF ResolverInit
<1>2. ResolverTypeOK
  BY <1>1 DEF ResolverInit, ResolverTypeOK, Pods, Object, Tracker
<1>3. PodsAreBounded /\ StatusIsSound /\ StretchIsSeen
  BY <1>1 DEF ResolverInit, PodsAreBounded, StatusIsSound, StretchIsSeen, ready
<1> QED
  BY <1>2, <1>3 DEF IInv

LEMMA IInvStep == IInv /\ [ResolverNext]_trackVars => IInv'
<1> SUFFICES ASSUME IInv, [ResolverNext]_trackVars PROVE IInv'
  OBVIOUS
<1>1. CASE UNCHANGED trackVars
  BY <1>1 DEF trackVars, IInv, ResolverTypeOK, PodsAreBounded, StatusIsSound, StretchIsSeen,
              ready
<1> QED
  BY <1>1, TrackKeeps, ChangeKeeps, PodsKeep, SyncKeeps, AdvanceKeeps DEF ResolverNext

(* Every reachable state satisfies the invariant.                          *)
THEOREM Invariance == ResolverSpec => []IInv
BY IInvInit, IInvStep, PTL DEF ResolverSpec

(* The workload, its status and the tracker have the types their code      *)
(* assumes.                                                                *)
THEOREM TypeCorrectness == ResolverSpec => []ResolverTypeOK
<1>1. IInv => ResolverTypeOK
  BY DEF IInv
<1> QED
  BY <1>1, Invariance, PTL

(* A workload is accepted as ready only on the strength of its new pods,   *)
(* whatever its controller has or has not seen (Resolver.ready).           *)
THEOREM AcceptanceSafety == ResolverSpec => AcceptedIsSound
<1>1. IInv /\ [ResolverNext]_trackVars =>
          [tracker.phase = "reach" /\ tracker'.phase \in {"stable", "resolved"} =>
              object.sound /\ object.observed = object.generation]_trackVars
  <2> SUFFICES ASSUME IInv, ResolverNext, tracker.phase = "reach",
                      tracker'.phase \in {"stable", "resolved"}
               PROVE  object.sound /\ object.observed = object.generation
    BY DEF trackVars
  <2>1. Reach \/ End \/ tracker' = tracker
    BY DEF ResolverNext, Track, Stable, Change, Create, Remove, BecomeReady, BecomeUnready,
           Pod, Sync, Advance
  <2>2. tracker \in Tracker /\ object.observed \in Nat /\ object.generation \in Nat
    BY DEF IInv, ResolverTypeOK, Object
  <2>3. Reach /\ ready(kind, object)
    BY <2>1, <2>2 DEF Reach, End, Sleeps, Tracker
  <2> QED
    BY <2>2, <2>3 DEF IInv, StatusIsSound, ready
<1> QED
  BY <1>1, Invariance, PTL DEF ResolverSpec, AcceptedIsSound

(* A workload that was not ready for longer than a poll within its window  *)
(* is not resolved, and no window is too short (Track, second phase).      *)
THEOREM FlapSafety == ResolverSpec => []FlapIsSeen
<1>1. IInv => FlapIsSeen
  BY DEF IInv, StretchIsSeen, FlapIsSeen
<1> QED
  BY <1>1, Invariance, PTL
=============================================================================
