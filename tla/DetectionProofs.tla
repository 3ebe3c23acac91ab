-------------------------- MODULE DetectionProofs --------------------------
(***************************************************************************)
(* For any container, any deaths and any delay of what the agent reads:    *)
(* the types of the agent's state, what an incident id stands for, which   *)
(* run's logs go with which death, when memory is blamed for a start that  *)
(* failed, and that no failure is passed over for its id having been seen. *)
(***************************************************************************)
EXTENDS Detection, SequenceTheorems, TLAPS

(* A death something was read of: it happened, and whatever the kubelet    *)
(* shows as the last death now is that one or a later one                  *)
Past(d) == d \in 0 .. Len(ends) /\ (Last # 0 => d <= Last)

(* A death and the restart count it is reported with                       *)
Counted(d, restarts) == d # 0 => restarts \in {d - 1, d}

MemoryOrNamed(d) ==
    /\ d # 0
    /\ ends[d].memory \/ (ends[d].reason = "StartError" /\ NamedByEvents)

(* An id that is told stands for a marked one: events may have refined it  *)
StandsFor(id, m) ==
    /\ id.restarts = m.restarts
    /\ \/ id.type = m.type
       \/ m.type = "CrashLoopBackOff" /\ id.type = "OOMKilledDuringInit"

BoxIsSound == box.phase \in {"dead", "backoff", "wait"} => ends # <<>>

StatusIsSound(s) == Past(Terminated(s)) /\ Counted(Terminated(s), s.restarts)

PendingIsSound == \A i \in 1 .. Len(pending) : StatusIsSound(pending[i])

CollectorIsSound ==
    collector # Free =>
        /\ Past(collector.death)
        /\ Counted(collector.death, collector.id.restarts)
        /\ collector.id.type = "OOMKilledDuringInit" => MemoryOrNamed(collector.death)
        /\ collector.pc = "handle" =>
               /\ collector.id \in told
               /\ collector.logs # 0 => collector.death <= collector.logs

MarkedIsTold ==
    \A m \in marked :
        \/ \E id \in told : StandsFor(id, m)
        \/ collector # Free /\ StandsFor(collector.id, m)

IInv ==
    /\ DetectionTypeOK /\ BoxIsSound /\ PendingIsSound /\ CollectorIsSound
    /\ MarkedIsTold

-----------------------------------------------------------------------------
(* What the agent collects has the shape its pc says (collect).            *)
LEMMA CollectorShape ==
    ASSUME collector \in {Free} \cup Collecting \cup Handed
    PROVE  /\ collector = Free <=> collector.pc = "idle"
           /\ collector.pc \in {"events", "previous", "current"} =>
                  /\ collector \in Collecting
                  /\ collector = [pc |-> collector.pc, id |-> collector.id,
                                  death |-> collector.death]
           /\ collector.pc = "handle" => collector \in Handed
           /\ collector # Free => /\ collector.id \in Id
                                  /\ collector.id = [restarts |-> collector.id.restarts,
                                                     type |-> collector.id.type]
                                  /\ collector.death \in Nat
BY DEF Free, Collecting, Handed, Id

(* The kubelet's numbers are numbers: Run, Last and the status of now.     *)
LEMMA StatusShape ==
    ASSUME DetectionTypeOK, BoxIsSound
    PROVE  /\ Len(ends) \in Nat /\ Run \in Nat /\ Last \in Nat
           /\ Last \in {Len(ends), Len(ends) - 1} /\ Run \in {Len(ends), Len(ends) + 1}
           /\ StatusNow \in ContainerStatus
<1>1. Len(ends) \in Nat /\ box \in Box
  BY LenProperties DEF DetectionTypeOK
<1>2. box.phase = "dead" => Len(ends) # 0
  BY EmptySeq DEF DetectionTypeOK, BoxIsSound
<1> QED
  BY <1>1, <1>2 DEF Run, Last, StatusNow, ContainerStatus, Box

(* The status the kubelet writes is sound when it is written.              *)
LEMMA StatusNowIsSound ==
    ASSUME IInv
    PROVE  StatusIsSound(StatusNow)
<1>1. /\ Len(ends) \in Nat /\ Run \in Nat /\ Last \in Nat
      /\ Last \in {Len(ends), Len(ends) - 1} /\ Run \in {Len(ends), Len(ends) + 1}
  BY StatusShape DEF IInv
<1>2. CASE box.phase = "dead"
  BY <1>1, <1>2 DEF StatusIsSound, Past, Counted, Terminated, StatusNow, Run, Last
<1>3. CASE box.phase # "dead"
  BY <1>1, <1>3 DEF StatusIsSound, Past, Counted, Terminated, StatusNow, Run, Last
<1> QED
  BY <1>2, <1>3

(* What was read stays past, and memory stays named, when a death is added *)
(* or the container goes on (Die, FailToStart, Boot, Wait).                *)
LEMMA PastStays ==
    ASSUME IInv, NEW d, Past(d),
           \/ ends' = ends
           \/ (\E e \in Deaths : ends' = Append(ends, e)) /\ box'.phase = "dead",
           ends' = ends /\ box'.phase = "dead" => box.phase = "dead"
    PROVE  Past(d)' /\ (MemoryOrNamed(d) => MemoryOrNamed(d)')
<1>1. Len(ends) \in Nat /\ ends \in Seq(Deaths)
  BY LenProperties DEF IInv, DetectionTypeOK
<1>2. CASE ends' = ends
  <2>1. Past(d)'
    BY <1>1, <1>2 DEF Past, Last
  <2> QED
    BY <2>1, <1>2 DEF MemoryOrNamed, NamedByEvents
<1>3. CASE (\E e \in Deaths : ends' = Append(ends, e)) /\ box'.phase = "dead"
  <2>1. PICK e \in Deaths : ends' = Append(ends, e)
    BY <1>3
  <2>2. /\ Len(ends') = Len(ends) + 1
        /\ \A i \in 1 .. Len(ends) : ends'[i] = ends[i]
        /\ DOMAIN ends = 1 .. Len(ends) /\ DOMAIN ends' = 1 .. Len(ends')
    BY <1>1, <2>1, AppendProperties, LenProperties
  <2>3. Past(d)'
    <3>1. box'.phase = "dead" /\ Len(ends') = Len(ends) + 1 /\ Len(ends) \in Nat
      BY <1>1, <1>3, <2>2
    <3>3. Last' = Len(ends') - 1
      BY <3>1 DEF Last
    <3>4. Last' = Len(ends)
      BY <3>1, <3>3
    <3>2. d \in 0 .. Len(ends)
      BY DEF Past
    <3> QED
      BY <1>1, <2>2, <3>2, <3>4 DEF Past
  <2>4. NamedByEvents => NamedByEvents'
    BY <1>1, <2>2 DEF NamedByEvents
  <2> QED
    BY <1>1, <2>2, <2>3, <2>4 DEF MemoryOrNamed, Past
<1> QED
  BY <1>2, <1>3

(* A step of the container keeps what the agent holds (Container).         *)
LEMMA ContainerFrame ==
    ASSUME IInv, DetectionTypeOK', BoxIsSound',
           UNCHANGED <<pending, marked, collector, told>>,
           \/ ends' = ends
           \/ (\E e \in Deaths : ends' = Append(ends, e)) /\ box'.phase = "dead",
           ends' = ends /\ box'.phase = "dead" => box.phase = "dead"
    PROVE  IInv'
<1>1. ASSUME NEW i \in 1 .. Len(pending)
      PROVE  StatusIsSound(pending[i])'
  <2>1. StatusIsSound(pending[i])
    BY DEF IInv, PendingIsSound
  <2>2. Past(Terminated(pending[i]))'
    <3> DEFINE d == Terminated(pending[i])
    <3>1. Past(d)
      BY <2>1 DEF StatusIsSound
    <3>2. d' = d
      BY DEF Terminated
    <3> HIDE DEF d
    <3>3. ASSUME NEW c, Past(c)
          PROVE  Past(c)'
      BY <3>3, PastStays
    <3> QED
      BY <3>1, <3>2, <3>3 DEF Past, d
  <2> QED
    BY <2>1, <2>2 DEF StatusIsSound, Counted, Terminated
<1>2. PendingIsSound'
  BY <1>1 DEF PendingIsSound
<1>3. CollectorIsSound'
  <2>1. ASSUME NEW c, Past(c)
        PROVE  Past(c)' /\ (MemoryOrNamed(c) => MemoryOrNamed(c)')
    BY <2>1, PastStays
  <2>2. CASE collector = Free
    BY <2>2 DEF CollectorIsSound, Free
  <2>3. CASE collector # Free
    <3> DEFINE d == collector.death
    <3>1. Past(d) /\ (collector.id.type = "OOMKilledDuringInit" => MemoryOrNamed(d))
      BY <2>3 DEF IInv, CollectorIsSound
    <3>2. Past(d)' /\ (MemoryOrNamed(d) => MemoryOrNamed(d)')
      <4>1. d' = d
        OBVIOUS
      <4> HIDE DEF d
      <4> QED
        BY <2>1, <3>1, <4>1 DEF Past, MemoryOrNamed
    <3> QED
      BY <2>3, <3>1, <3>2 DEF IInv, CollectorIsSound, Counted
  <2> QED
    BY <2>2, <2>3
<1>4. MarkedIsTold'
  BY DEF IInv, MarkedIsTold, StandsFor
<1> QED
  BY <1>2, <1>3, <1>4 DEF IInv

(* Every step of the container, and the clock's, keep the invariant.       *)
LEMMA NodeKeeps ==
    ASSUME IInv, Node \/ Tick
    PROVE  IInv'
<1>1. DetectionTypeOK /\ BoxIsSound /\ box \in Box /\ ends \in Seq(Deaths) /\ age \in Nat
  BY DEF IInv, DetectionTypeOK
<1>2. ASSUME NEW d \in Deaths, Die(d) \/ FailToStart(d)
      PROVE  IInv'
  <2>1. ends' = Append(ends, d) /\ box' = [box EXCEPT !.phase = "dead", !.ready = FALSE, !.since = 0]
    BY <1>2 DEF Die, FailToStart, Container
  <2>2. /\ ends' \in Seq(Deaths) /\ ends' # <<>>
    BY <1>1, <2>1, AppendProperties, EmptySeq
  <2>3. box' \in Box /\ box'.phase = "dead"
    BY <1>1, <2>1 DEF Box, Phases
  <2>4. UNCHANGED <<age, pending, marked, collector, told>>
    BY <1>2 DEF Die, FailToStart, Container
  <2>5. DetectionTypeOK' /\ BoxIsSound'
    BY <1>1, <2>2, <2>3, <2>4 DEF DetectionTypeOK, BoxIsSound
  <2>6. \E e \in Deaths : ends' = Append(ends, e)
    BY <2>1
  <2>7. ends' # ends
    BY <1>1, <2>1, AppendProperties, LenProperties
  <2> QED
    BY <2>3, <2>4, <2>5, <2>6, <2>7, ContainerFrame
<1>3. ASSUME NEW p \in {"backoff", "wait", "pull"}, Wait(p)
      PROVE  IInv'
  <2>1. /\ box' = [box EXCEPT !.phase = p]
        /\ UNCHANGED <<ends, age, pending, marked, collector, told>>
    BY <1>3 DEF Wait, Container
  <2>2. box' \in Box /\ box'.phase = p
    BY <1>1, <2>1 DEF Box, Phases
  <2>3. p # "pull" => box.phase = "dead"
    BY <1>3 DEF Wait
  <2>4. DetectionTypeOK' /\ BoxIsSound'
    BY <1>1, <2>1, <2>2, <2>3 DEF DetectionTypeOK, BoxIsSound
  <2> QED
    BY <2>1, <2>2, <2>4, ContainerFrame
<1>4. CASE Boot \/ Probe
  <2>1. /\ UNCHANGED <<ends, age, pending, marked, collector, told>>
        /\ box' = [box EXCEPT !.phase = "run", !.since = age]
           \/ (box' = [box EXCEPT !.ready = ~@] /\ box.phase = "run")
    BY <1>4 DEF Boot, Probe, Container
  <2>2. box' \in Box /\ box'.phase = "run"
    BY <1>1, <2>1 DEF Box, Phases
  <2>3. DetectionTypeOK' /\ BoxIsSound'
    BY <1>1, <2>1, <2>2 DEF DetectionTypeOK, BoxIsSound
  <2> QED
    BY <2>1, <2>2, <2>3, ContainerFrame
<1>5. CASE Tick
  <2>1. UNCHANGED <<ends, box, pending, marked, collector, told>> /\ age' = age + 1
    BY <1>5 DEF Tick
  <2>2. DetectionTypeOK' /\ BoxIsSound'
    BY <1>1, <2>1 DEF DetectionTypeOK, BoxIsSound
  <2> QED
    BY <2>1, <2>2, ContainerFrame
<1> QED
  BY <1>2, <1>3, <1>4, <1>5 DEF Node

(* A status that is delivered is sound, and so are the others (Deliver).   *)
LEMMA DeliverKeeps ==
    ASSUME IInv, Deliver
    PROVE  IInv'
<1>1. /\ pending' = Append(pending, StatusNow)
      /\ UNCHANGED <<ends, box, age, marked, collector, told>>
  BY DEF Deliver
<1>2. StatusNow \in ContainerStatus /\ StatusIsSound(StatusNow)
  BY StatusShape, StatusNowIsSound DEF IInv
<1>3. pending \in Seq(ContainerStatus) /\ Len(pending) \in Nat
  BY LenProperties DEF IInv, DetectionTypeOK
<1>4. /\ pending' \in Seq(ContainerStatus)
      /\ Len(pending') = Len(pending) + 1
      /\ \A i \in 1 .. Len(pending) : pending'[i] = pending[i]
      /\ pending'[Len(pending) + 1] = StatusNow
  BY <1>1, <1>2, <1>3, AppendProperties
<1>5. ASSUME NEW s, StatusIsSound(s)
      PROVE  StatusIsSound(s)'
  BY <1>1, <1>5 DEF StatusIsSound, Past, Last, Counted, Terminated
<1>6. \A i \in 1 .. Len(pending') : StatusIsSound(pending'[i])
  BY <1>2, <1>3, <1>4 DEF IInv, PendingIsSound
<1>7. PendingIsSound'
  BY <1>1, <1>6 DEF PendingIsSound, StatusIsSound, Past, Last, Counted, Terminated
<1> QED
  BY <1>1, <1>4, <1>7
     DEF IInv, DetectionTypeOK, BoxIsSound, CollectorIsSound, Past, Last, Counted,
         MemoryOrNamed, NamedByEvents, MarkedIsTold, StandsFor

(* What the classifier says of a status: a failure type or nothing, and    *)
(* memory during init only of a death whose message named it.              *)
LEMMA ContainerAtIsType ==
    ASSUME NEW s \in ContainerStatus
    PROVE  /\ ContainerAt(s, age) \in FailureTypes \cup {"none"}
           /\ ContainerAt(s, age) = "OOMKilledDuringInit" =>
                  Terminated(s) # 0 /\ ends[Terminated(s)].memory
<1>1. /\ classifyTerminated(s) \in FailureTypes \cup {"none"}
      /\ classifyTerminated(s) = "OOMKilledDuringInit" => ends[Terminated(s)].memory
  BY DEF classifyTerminated, FailureTypes
<1> QED
  BY <1>1 DEF ContainerAt, FailureTypes

(* The oldest status is taken from the queue and found sound (markNew).    *)
LEMMA TakenIsSound ==
    ASSUME IInv, pending # <<>>, pending' = Tail(pending)
    PROVE  /\ Head(pending) \in ContainerStatus /\ StatusIsSound(Head(pending))
           /\ pending' \in Seq(ContainerStatus)
           /\ \A i \in 1 .. Len(pending') : StatusIsSound(pending'[i])
<1>1. pending \in Seq(ContainerStatus) /\ Len(pending) \in Nat /\ Len(pending) # 0
  BY LenProperties, EmptySeq DEF IInv, DetectionTypeOK
<1>2. /\ Head(pending) = pending[1] /\ pending[1] \in ContainerStatus
  BY <1>1, HeadTailProperties, ElementOfSeq
<1>3. /\ Tail(pending) \in Seq(ContainerStatus)
      /\ Len(Tail(pending)) = Len(pending) - 1
      /\ \A i \in 1 .. Len(Tail(pending)) : Tail(pending)[i] = pending[i + 1]
  BY <1>1, HeadTailProperties
<1>4. \A i \in 1 .. Len(pending) : StatusIsSound(pending[i])
  BY DEF IInv, PendingIsSound
<1> QED
  BY <1>1, <1>2, <1>3, <1>4

(* A new id is marked together with the contract that will tell it, and an *)
(* id that is not new is left as it was (markNew).                         *)
LEMMA MarkNewKeeps ==
    ASSUME IInv, markNew
    PROVE  IInv'
<1> DEFINE s == Head(pending)
           type == ContainerAt(s, age)
           id == [restarts |-> s.restarts, type |-> type]
<1>1. /\ pending # <<>> /\ collector = Free /\ pending' = Tail(pending)
      /\ UNCHANGED <<ends, box, age, told>>
      /\ \/ UNCHANGED <<marked, collector>>
         \/ /\ type # "none" /\ marked' = marked \cup {id}
            /\ collector' = [pc |-> "events", id |-> id, death |-> Terminated(s)]
  BY DEF markNew
<1>2. /\ s \in ContainerStatus /\ StatusIsSound(s)
      /\ pending' \in Seq(ContainerStatus)
      /\ \A i \in 1 .. Len(pending') : StatusIsSound(pending'[i])
  BY <1>1, TakenIsSound
<1>3. PendingIsSound'
  BY <1>1, <1>2 DEF PendingIsSound, StatusIsSound, Past, Last, Counted, Terminated
<1>4. /\ type \in FailureTypes \cup {"none"}
      /\ type = "OOMKilledDuringInit" => MemoryOrNamed(Terminated(s))
  BY <1>2, ContainerAtIsType DEF MemoryOrNamed
<1>5. s.restarts \in Nat /\ Terminated(s) \in Nat
  BY <1>2 DEF ContainerStatus, Terminated
<1>6. Past(Terminated(s)) /\ Counted(Terminated(s), s.restarts)
  BY <1>2 DEF StatusIsSound
<1> HIDE DEF s, type
<1>7. CASE UNCHANGED <<marked, collector>>
  BY <1>1, <1>2, <1>3, <1>7
     DEF IInv, DetectionTypeOK, BoxIsSound, CollectorIsSound, Past, Last, Counted,
         MemoryOrNamed, NamedByEvents, MarkedIsTold, StandsFor
<1>8. CASE /\ type # "none" /\ marked' = marked \cup {id}
           /\ collector' = [pc |-> "events", id |-> id, death |-> Terminated(s)]
  <2>1. id \in Id
    BY <1>4, <1>5, <1>8 DEF Id
  <2>2. collector' \in Collecting /\ collector' # Free
    BY <1>5, <1>8, <2>1 DEF Collecting, Free
  <2>3. /\ collector'.pc = "events" /\ collector'.id = id
        /\ collector'.death = Terminated(s)
    BY <1>8
  <2>4. DetectionTypeOK' /\ BoxIsSound'
    BY <1>1, <1>2, <1>8, <2>1, <2>2 DEF IInv, DetectionTypeOK, BoxIsSound
  <2>5. CollectorIsSound'
    <3> DEFINE d == Terminated(s)
    <3>1. id.type = type /\ id.restarts = s.restarts
      OBVIOUS
    <3>2. collector'.death = d /\ Past(d) /\ Counted(d, s.restarts)
      BY <1>6, <2>3
    <3>3. type = "OOMKilledDuringInit" => MemoryOrNamed(d)
      BY <1>4
    <3> HIDE DEF d
    <3>4. Past(collector.death)'
      BY <1>1, <3>2 DEF Past, Last
    <3>5. Counted(collector.death, collector.id.restarts)'
      BY <2>3, <3>1, <3>2 DEF Counted
    <3>6. (collector.id.type = "OOMKilledDuringInit" => MemoryOrNamed(collector.death))'
      BY <1>1, <2>3, <3>1, <3>2, <3>3 DEF MemoryOrNamed, NamedByEvents
    <3> QED
      BY <2>3, <3>4, <3>5, <3>6 DEF CollectorIsSound
  <2>6. MarkedIsTold'
    <3>1. ASSUME NEW m \in marked
          PROVE  \E o \in told : StandsFor(o, m)
      BY <1>1 DEF IInv, MarkedIsTold
    <3>2. StandsFor(id, id)
      BY DEF StandsFor
    <3> QED
      BY <1>1, <1>8, <2>2, <2>3, <3>1, <3>2 DEF MarkedIsTold, StandsFor
  <2> QED
    BY <1>3, <2>4, <2>5, <2>6 DEF IInv
<1> QED
  BY <1>1, <1>7, <1>8

(* What collecting does not touch keeps its part of the invariant.         *)
LEMMA CollectFrame ==
    ASSUME IInv, UNCHANGED <<ends, box, age, pending, marked>>,
           collector' \in {Free} \cup Collecting \cup Handed,
           told' \subseteq Id, CollectorIsSound', MarkedIsTold'
    PROVE  IInv'
BY DEF IInv, DetectionTypeOK, BoxIsSound, PendingIsSound, StatusIsSound, Past, Last,
       Counted, Terminated

(* Events refine the type of a crash only if the container failed to start *)
(* and they name memory (collectEvents).                                   *)
LEMMA CollectEventsKeeps ==
    ASSUME IInv, NEW found \in BOOLEAN, collectEvents(found)
    PROVE  IInv'
<1> DEFINE refined == WithEvents(collector.id.type, collector.death, found /\ NamedByEvents)
<1>1. /\ collector.pc = "events"
      /\ collector' = [collector EXCEPT !.pc = "previous", !.id.type = refined]
      /\ UNCHANGED <<ends, box, age, pending, marked, told>>
  BY DEF collectEvents
<1>2. /\ collector \in Collecting /\ collector # Free /\ collector.id \in Id
      /\ collector.death \in Nat
  BY <1>1, CollectorShape DEF IInv, DetectionTypeOK
<1>3. /\ refined \in {collector.id.type, "OOMKilledDuringInit"}
      /\ refined # collector.id.type =>
             collector.id.type = "CrashLoopBackOff" /\ MemoryOrNamed(collector.death)
  BY DEF WithEvents, MemoryOrNamed
<1> HIDE DEF refined
<1>4. /\ collector' = [pc |-> "previous", id |-> [collector.id EXCEPT !.type = refined],
                       death |-> collector.death]
  BY <1>1, <1>2 DEF Collecting
<1>5. /\ collector'.pc = "previous" /\ collector'.death = collector.death
      /\ collector'.id = [collector.id EXCEPT !.type = refined]
  BY <1>4
<1>6. /\ collector'.id \in Id /\ collector'.id.type = refined
      /\ collector'.id.restarts = collector.id.restarts
  BY <1>2, <1>3, <1>5 DEF Id, FailureTypes
<1>7. collector' \in Collecting
  BY <1>2, <1>4, <1>5, <1>6 DEF Collecting
<1>8. /\ Past(collector.death) /\ Counted(collector.death, collector.id.restarts)
      /\ collector.id.type = "OOMKilledDuringInit" => MemoryOrNamed(collector.death)
  BY <1>2 DEF IInv, CollectorIsSound
<1>9. CollectorIsSound'
  <2>1. Past(collector.death)' /\ Counted(collector.death, collector.id.restarts)'
    BY <1>1, <1>5, <1>6, <1>8 DEF Past, Last, Counted
  <2>2. collector'.id.type = "OOMKilledDuringInit" => MemoryOrNamed(collector.death)'
    BY <1>1, <1>3, <1>5, <1>6, <1>8 DEF MemoryOrNamed, NamedByEvents
  <2> QED
    BY <1>5, <2>1, <2>2 DEF CollectorIsSound
<1>10. MarkedIsTold'
  <2>1. ASSUME NEW m \in marked, StandsFor(collector.id, m)
        PROVE  StandsFor(collector'.id, m)
    BY <1>3, <1>6, <2>1 DEF StandsFor
  <2>2. collector' # Free
    BY <1>5 DEF Free
  <2> QED
    BY <1>1, <2>1, <2>2 DEF IInv, MarkedIsTold, StandsFor
<1> QED
  BY <1>1, <1>7, <1>9, <1>10, CollectFrame DEF IInv, DetectionTypeOK

(* The logs that are read are of a run no older than the death that is     *)
(* reported, and telling tells what was marked (collectPrevious,           *)
(* collectCurrent).                                                        *)
LEMMA TellKeeps ==
    ASSUME IInv, NEW run \in Nat, collector.pc \in {"previous", "current"},
           run # 0 => collector.death <= run, Tell(run)
    PROVE  IInv'
<1>1. /\ collector' = [pc |-> "handle", id |-> collector.id, death |-> collector.death,
                       logs |-> run]
      /\ told' = told \cup {collector.id}
      /\ UNCHANGED <<ends, box, age, pending, marked>>
  BY DEF Tell
<1>2. collector # Free /\ collector.id \in Id /\ collector.death \in Nat
  BY CollectorShape DEF IInv, DetectionTypeOK
<1>3. collector' \in Handed
  BY <1>1, <1>2 DEF Handed
<1>4. /\ collector'.pc = "handle" /\ collector'.id = collector.id
      /\ collector'.death = collector.death /\ collector'.logs = run
  BY <1>1
<1>5. /\ Past(collector.death) /\ Counted(collector.death, collector.id.restarts)
      /\ collector.id.type = "OOMKilledDuringInit" => MemoryOrNamed(collector.death)
  BY <1>2 DEF IInv, CollectorIsSound
<1>6. CollectorIsSound'
  <2>1. Past(collector.death)' /\ Counted(collector.death, collector.id.restarts)'
    BY <1>1, <1>4, <1>5 DEF Past, Last, Counted
  <2>2. collector'.id.type = "OOMKilledDuringInit" => MemoryOrNamed(collector.death)'
    BY <1>1, <1>4, <1>5 DEF MemoryOrNamed, NamedByEvents
  <2> QED
    BY <1>1, <1>4, <2>1, <2>2 DEF CollectorIsSound
<1>7. MarkedIsTold'
  BY <1>1, <1>4 DEF IInv, MarkedIsTold, StandsFor
<1>8. told' \subseteq Id
  BY <1>1, <1>2 DEF IInv, DetectionTypeOK
<1> QED
  BY <1>1, <1>3, <1>6, <1>7, <1>8, CollectFrame

(* Every step of the agent keeps the invariant.                            *)
LEMMA AgentKeeps ==
    ASSUME IInv, Agent
    PROVE  IInv'
<1>1. /\ Len(ends) \in Nat /\ Run \in Nat /\ Last \in Nat
      /\ Last \in {Len(ends), Len(ends) - 1} /\ Run \in {Len(ends), Len(ends) + 1}
  BY StatusShape DEF IInv
<1>2. collector # Free => Past(collector.death)
  BY DEF IInv, CollectorIsSound
<1>3. collector.pc \in {"previous", "current", "handle"} => collector # Free
  BY DEF Free
<1>4. CASE collectPrevious
  <2>1. collector.pc = "previous" /\ Last # 0 /\ Tell(Last)
    BY <1>4 DEF collectPrevious
  <2> QED
    BY <1>1, <1>2, <1>3, <2>1, TellKeeps DEF Past
<1>5. ASSUME NEW answered \in BOOLEAN, collectCurrent(answered)
      PROVE  IInv'
  <2> DEFINE run == IF ~answered THEN 0
                    ELSE IF box.phase \in {"run", "dead"} THEN Run ELSE Last
  <2>1. collector.pc = "current" /\ Tell(run)
    BY <1>5 DEF collectCurrent
  <2>2. run \in Nat /\ run \in {0, Run, Last}
    BY <1>1
  <2>3. run # 0 => collector.death <= run
    BY <1>1, <1>2, <1>3, <2>1, <2>2 DEF Past
  <2> HIDE DEF run
  <2> QED
    BY <2>1, <2>2, <2>3, TellKeeps
<1>6. CASE previousFails
  <2>1. /\ collector.pc = "previous" /\ collector' = [collector EXCEPT !.pc = "current"]
        /\ UNCHANGED <<ends, box, age, pending, marked, told>>
    BY <1>6 DEF previousFails
  <2>2. collector \in Collecting
    BY <2>1, CollectorShape DEF IInv, DetectionTypeOK
  <2>3. /\ collector' \in Collecting /\ collector'.pc = "current"
        /\ collector'.id = collector.id /\ collector'.death = collector.death
        /\ collector' # Free
    BY <2>1, <2>2 DEF Collecting, Free
  <2>4. CollectorIsSound'
    BY <1>3, <2>1, <2>3
       DEF IInv, CollectorIsSound, Past, Last, Counted, MemoryOrNamed, NamedByEvents
  <2>5. MarkedIsTold'
    BY <1>3, <2>1, <2>3 DEF IInv, MarkedIsTold, StandsFor
  <2> QED
    BY <2>1, <2>3, <2>4, <2>5, CollectFrame DEF IInv, DetectionTypeOK
<1>7. CASE handled
  <2>1. /\ collector.pc = "handle" /\ collector' = Free
        /\ UNCHANGED <<ends, box, age, pending, marked, told>>
    BY <1>7 DEF handled
  <2>2. collector.id \in told
    BY <1>3, <2>1 DEF IInv, CollectorIsSound
  <2>3. CollectorIsSound'
    BY <2>1 DEF CollectorIsSound
  <2>4. MarkedIsTold'
    BY <2>1, <2>2 DEF IInv, MarkedIsTold, StandsFor
  <2> QED
    BY <2>1, <2>3, <2>4, CollectFrame DEF IInv, DetectionTypeOK
<1> QED
  BY <1>4, <1>5, <1>6, <1>7, MarkNewKeeps, CollectEventsKeeps DEF Agent

-----------------------------------------------------------------------------
(* Every reachable state satisfies the invariant.                          *)
THEOREM Invariance == DetectionSpec => []IInv
<1>1. DetectionInit => IInv
  <2> SUFFICES ASSUME DetectionInit PROVE IInv
    OBVIOUS
  <2>1. PICK p \in {"run", "pull"} : box = [phase |-> p, ready |-> FALSE, since |-> 0]
    BY DEF DetectionInit
  <2>2. box \in Box /\ box.phase \in {"run", "pull"}
    BY <2>1 DEF Box, Phases
  <2>3. /\ ends = <<>> /\ pending = <<>> /\ collector = Free /\ marked = {}
        /\ age = 0 /\ told = {}
    BY DEF DetectionInit
  <2>4. DetectionTypeOK
    BY <2>2, <2>3, EmptySeq DEF DetectionTypeOK
  <2>5. PendingIsSound
    BY <2>3, EmptySeq DEF PendingIsSound
  <2> QED
    BY <2>2, <2>3, <2>4, <2>5 DEF IInv, BoxIsSound, CollectorIsSound, MarkedIsTold
<1>2. IInv /\ [DetectionNext]_detectVars => IInv'
  <2> SUFFICES ASSUME IInv, [DetectionNext]_detectVars PROVE IInv'
    OBVIOUS
  <2>1. CASE UNCHANGED detectVars
    BY <2>1
       DEF detectVars, IInv, DetectionTypeOK, BoxIsSound, PendingIsSound, StatusIsSound,
           Past, Last, Counted, Terminated, CollectorIsSound, MemoryOrNamed,
           NamedByEvents, MarkedIsTold, StandsFor
  <2> QED
    BY <2>1, NodeKeeps, DeliverKeeps, AgentKeeps DEF DetectionNext
<1> QED
  BY <1>1, <1>2, PTL DEF DetectionSpec

(* The agent's state has the types its code assumes.                       *)
THEOREM TypeCorrectness == DetectionSpec => []DetectionTypeOK
<1>1. IInv => DetectionTypeOK
  BY DEF IInv
<1> QED
  BY <1>1, Invariance, PTL

(* The logs of a contract are never older than the death it reports        *)
(* (collectLogs).                                                          *)
THEOREM LogSafety == DetectionSpec => []LogsAreNotOlder
<1>1. IInv => LogsAreNotOlder
  BY DEF IInv, CollectorIsSound, LogsAreNotOlder, Free
<1> QED
  BY <1>1, Invariance, PTL

(* Memory is blamed for a start only if the runtime named it (WithEvents). *)
THEOREM BlameSafety == DetectionSpec => []InitKillIsNamed
<1>1. IInv => InitKillIsNamed
  BY DEF IInv, CollectorIsSound, InitKillIsNamed, MemoryOrNamed, Free
<1> QED
  BY <1>1, Invariance, PTL

(* A death is reported under at most two restart counts (IncidentID).      *)
THEOREM IdSafety == DetectionSpec => []IdSpansTwoDeaths
<1>1. IInv => IdSpansTwoDeaths
  BY DEF IInv, CollectorIsSound, IdSpansTwoDeaths, Counted, Free
<1> QED
  BY <1>1, Invariance, PTL

(* A container that is held back is classified as what it died of          *)
(* (ContainerAt).                                                          *)
LEMMA HeldBackIsClassified ==
    ASSUME IInv, box.phase \in {"backoff", "pull"}
    PROVE  /\ ContainerAt(StatusNow, age) \in Failure
           /\ ContainerAt(StatusNow, age) = "CrashLoopBackOff" => Failure = FailureTypes
<1>1. /\ StatusNow \in ContainerStatus /\ StatusNow.phase = box.phase
      /\ StatusNow.last = Len(ends) /\ Len(ends) \in Nat
  BY StatusShape DEF IInv, StatusNow, Last
<1>2. ContainerAt(StatusNow, age) \in FailureTypes \cup {"none"}
  BY <1>1, ContainerAtIsType
<1>3. CASE box.phase = "pull"
  BY <1>1, <1>3 DEF ContainerAt, classifyRecovered, Failure
<1>4. CASE box.phase = "backoff"
  <2>1. Len(ends) # 0
    BY <1>4, EmptySeq DEF IInv, BoxIsSound, DetectionTypeOK
  <2>2. Terminated(StatusNow) = Len(ends)
    BY <1>1, <2>1 DEF Terminated
  <2>3. ContainerAt(StatusNow, age) =
            IF classifyTerminated(StatusNow) # "none" THEN classifyTerminated(StatusNow)
            ELSE "CrashLoopBackOff"
    BY <1>1, <1>4, <2>1, <2>2 DEF ContainerAt, classifyRecovered, isCrashLoopWaiting
  <2>4. /\ ends[Len(ends)].reason = "OOMKilled" =>
               classifyTerminated(StatusNow) = "OOMKilled"
        /\ ends[Len(ends)].reason # "OOMKilled" /\ ends[Len(ends)].memory =>
               classifyTerminated(StatusNow) = "OOMKilledDuringInit"
    BY <2>2 DEF classifyTerminated
  <2>5. ContainerAt(StatusNow, age) \in FailureTypes
    BY <1>2, <2>3 DEF FailureTypes
  <2> QED
    BY <1>4, <2>3, <2>4, <2>5 DEF Failure
<1> QED
  BY <1>3, <1>4

(* A failure the agent reads up to date has been told or is about to be,   *)
(* whatever was marked before (watch).                                     *)
THEOREM FailureSafety == DetectionSpec => FailureIsTold
<1> DEFINE Taken ==
        pending # <<>> /\ pending' = Tail(pending) /\ Head(pending) = StatusNow
          /\ box.phase \in {"backoff", "pull"}
          => \/ Reported(told)
             \/ (collector'.pc = "events" /\ Reported({collector'.id}))
<1>1. IInv /\ [DetectionNext]_detectVars => [Taken]_detectVars
  <2> SUFFICES ASSUME IInv, DetectionNext, pending # <<>>, pending' = Tail(pending),
                      Head(pending) = StatusNow, box.phase \in {"backoff", "pull"}
               PROVE  \/ Reported(told)
                      \/ (collector'.pc = "events" /\ Reported({collector'.id}))
    BY DEF detectVars
  <2>1. pending \in Seq(ContainerStatus) /\ Len(pending) \in Nat /\ Len(pending) # 0
    BY LenProperties, EmptySeq DEF IInv, DetectionTypeOK
  <2>2. Len(pending') = Len(pending) - 1
    BY <2>1, HeadTailProperties
  <2>3. pending' # pending
    <3>1. Len(pending) - 1 # Len(pending)
      BY <2>1
    <3> QED
      BY <2>2, <3>1, Zenon
  <2>4. Len(Append(pending, StatusNow)) = Len(pending) + 1
    BY <2>1, StatusShape, AppendProperties DEF IInv
  <2>5. ~Deliver
    <3>1. Len(pending) - 1 # Len(pending) + 1
      BY <2>1
    <3>2. pending' # Append(pending, StatusNow)
      BY <2>2, <2>4, <3>1, Zenon
    <3> QED
      BY <3>2 DEF Deliver
  <2>6. markNew
    BY <2>3, <2>5
       DEF DetectionNext, Node, Die, FailToStart, Wait, Boot, Probe, Container, Tick, Agent,
           collectEvents, collectPrevious, previousFails, collectCurrent, Tell, handled
  <2> DEFINE type == ContainerAt(StatusNow, age)
             id == [restarts |-> StatusNow.restarts, type |-> type]
  <2>7. type \in Failure /\ (type = "CrashLoopBackOff" => Failure = FailureTypes)
    BY HeldBackIsClassified
  <2>8. type # "none"
    BY <2>7 DEF Failure, FailureTypes
  <2>9. \/ id \in marked /\ collector = Free
        \/ collector' = [pc |-> "events", id |-> id, death |-> Terminated(StatusNow)]
    BY <2>6, <2>8 DEF markNew
  <2> HIDE DEF type
  <2>10. CASE id \in marked /\ collector = Free
    <3>1. PICK o \in told : StandsFor(o, id)
      BY <2>10 DEF IInv, MarkedIsTold
    <3>2. o.restarts = StatusNow.restarts /\ o.type \in Failure
      BY <2>7, <3>1 DEF StandsFor, FailureTypes
    <3> QED
      BY <3>1, <3>2 DEF Reported
  <2>11. CASE collector' = [pc |-> "events", id |-> id, death |-> Terminated(StatusNow)]
    BY <2>7, <2>11 DEF Reported
  <2> QED
    BY <2>9, <2>10, <2>11
<1> QED
  BY <1>1, Invariance, PTL DEF DetectionSpec, FailureIsTold
=============================================================================
