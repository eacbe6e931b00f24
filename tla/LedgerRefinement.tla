-------------------------- MODULE LedgerRefinement --------------------------
(***************************************************************************)
(* The bot implements PaymentLedger: the committed tables, the checkout    *)
(* sessions and the answered events, seen as an abstract ledger.           *)
(***************************************************************************)
EXTENDS SubscriptionSystem

SettledSessions == {s \in Session : Settled(s)}

GrantedPayments == {p \in Ref : grants[p] > 0}

\* Screenshots whose payment is recorded on a placeholder.
FiledScreenshots == {m \in Message : payments[m] # None /\ grants[m] = 0}

\* Whose subscription each recorded payment is on.
AccountOf(p) == IF payments[p] = None THEN None ELSE subs[payments[p]].user

\* Sessions for which Stripe has got a 200 to an event that says "paid".
AnsweredSessions ==
    {s \in Session : \E type \in EventType : <<s, type>> \in acked /\ SaysPaid(s, type)}

Abstract == INSTANCE PaymentLedger WITH
    settled  <- SettledSessions,
    waiting  <- FiledScreenshots,
    granted  <- GrantedPayments,
    account  <- [p \in Ref |-> AccountOf(p)],
    answered <- AnsweredSessions

\* Through deliveries, presses, crashes and rollbacks, every commit and every
\* answer of the bot is one step of the ledger, and everything else is none.
ImplementsLedger == Abstract!Spec

=============================================================================
