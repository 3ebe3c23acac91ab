------------------------------ MODULE Verdicts ------------------------------
(***************************************************************************)
(* What the diagnosis pipeline promises its caller: every request gets one *)
(* verdict, on record before the caller hears of it and never revised; and *)
(* a diagnosis comes with a confidence that its threshold admits and that  *)
(* the evidence can carry. How a verdict is reached is left open.          *)
(***************************************************************************)
EXTENDS Naturals

CONSTANTS
    Runs,       \* diagnosis requests
    Threshold,  \* the least confidence a diagnosis may have
    None

VARIABLES
    ceilings,   \* request -> the most its evidence supports, or None
    verdicts,   \* request -> its verdict, or None
    told        \* request -> whether its answer offers approval, or None

verdictVars == <<ceilings, verdicts, told>>

Percent == 0 .. 100

Verdict(cap) ==
    [outcome: {"DIAGNOSED"}, final: Threshold .. cap]
    \cup [outcome: {"INSUFFICIENT_CONTEXT", "DISCARDED"}, final: {None}]

Init ==
    /\ ceilings = [r \in Runs |-> None]
    /\ verdicts = [r \in Runs |-> None]
    /\ told = [r \in Runs |-> None]

Request(r) ==
    /\ ceilings[r] = None
    /\ \E cap \in Percent : ceilings' = [ceilings EXCEPT ![r] = cap]
    /\ UNCHANGED <<verdicts, told>>

Conclude(r) ==
    /\ ceilings[r] # None
    /\ verdicts[r] = None
    /\ \E v \in Verdict(ceilings[r]) :
          verdicts' = [verdicts EXCEPT ![r] = v]
    /\ UNCHANGED <<ceilings, told>>

Tell(r) ==
    /\ verdicts[r] # None
    /\ told[r] = None
    /\ told' = [told EXCEPT ![r] = (verdicts[r].outcome = "DIAGNOSED")]
    /\ UNCHANGED <<ceilings, verdicts>>

Next == \E r \in Runs : Request(r) \/ Conclude(r) \/ Tell(r)

Spec == Init /\ [][Next]_verdictVars
=============================================================================
