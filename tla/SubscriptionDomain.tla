------------------------- MODULE SubscriptionDomain -------------------------
(***************************************************************************)
(* The pure rules of the bot: the subscription state machine               *)
(* (app/domain/subscription.py), how a renewal computes the new expiry     *)
(* (payment_service._compute_renewed_expires_at) and how many days a       *)
(* reminder announces (app/domain/time.py).                                *)
(*                                                                         *)
(* Instants are natural numbers, None is the SQL NULL.                     *)
(***************************************************************************)
EXTENDS Naturals

CONSTANTS
    None,               \* SQL NULL
    Day,                \* instants per day
    SubscriptionDays,   \* what one payment buys, in days
    WarningWindowDays   \* a reminder goes out this many days before expiry

ASSUME NoneAssumption == None \notin Nat
ASSUME DaysAssumption ==
    Day \in Nat \ {0} /\ SubscriptionDays \in Nat \ {0} /\ WarningWindowDays \in Nat \ {0}

Status == {"pending", "active", "expiring", "expired", "kicked"}

LiveStatuses == {"active", "expiring"}

TRANSITIONS ==
    [pending  |-> {"active"},
     active   |-> {"expiring", "active"},
     expiring |-> {"active", "expired"},
     expired  |-> {"active", "kicked"},
     kicked   |-> {"active"}]

CanTransition(from, to) == to \in TRANSITIONS[from]

\* Mutant: the later of the two ends, not their sum.
RenewedToTheLater(now, current) ==
    IF current = None \/ current <= now + SubscriptionDays * Day
    THEN now + SubscriptionDays * Day ELSE current

\* Time already paid for and not yet used is kept.
RenewedExpiresAt(now, current) ==
    (IF current = None \/ current <= now THEN now ELSE current) + SubscriptionDays * Day

\* Mutant: without the max(1, ...).
DaysRemainingUnclamped(now, expiresAt) == (expiresAt - now + Day - 1) \div Day

\* Mutant: floor instead of ceil.
DaysRemainingRoundedDown(now, expiresAt) ==
    IF expiresAt < now + 2 * Day THEN 1 ELSE (expiresAt - now - 1) \div Day

\* max(1, ceil((expires_at - now) / day)), also for an instant in the past.
DaysRemaining(now, expiresAt) ==
    IF expiresAt <= now THEN 1 ELSE (expiresAt - now + Day - 1) \div Day

=============================================================================
