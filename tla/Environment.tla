---------------------------- MODULE Environment ----------------------------
(***************************************************************************)
(* What surrounds the process: the clock, and the faults it must survive.  *)
(* A fault is a crash of the process, a failed database transaction or a   *)
(* refused Telegram call.  MaxNow and MaxFaults bound the model only.      *)
(***************************************************************************)
EXTENDS SubscriptionDomain

CONSTANTS
    MaxNow,      \* bound: the clock stops here
    MaxFaults,   \* bound: faults in one behaviour
    FaultKinds   \* which of "crash", "database", "telegram" may happen

ASSUME EnvironmentAssumption ==
    MaxNow \in Nat /\ MaxFaults \in Nat /\ FaultKinds \subseteq {"crash", "database", "telegram"}

VARIABLES
    now,      \* utcnow()
    faults    \* faults so far

environmentVars == <<now, faults>>

EnvironmentTypeOK == now \in Nat /\ faults \in Nat

EnvironmentInit == now = 0 /\ faults = 0

FaultOccurs(kind) ==
    /\ kind \in FaultKinds
    /\ faults < MaxFaults
    /\ faults' = faults + 1

AdvanceClock ==
    /\ now < MaxNow
    /\ now' = now + 1
    /\ UNCHANGED faults

=============================================================================
