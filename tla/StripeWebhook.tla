--------------------------- MODULE StripeWebhook ---------------------------
(***************************************************************************)
(* handle_stripe_webhook (app/web/stripe_webhook.py) and the Stripe side   *)
(* of it.  Stripe may deliver an event any number of times, concurrently   *)
(* with itself and in any order; it has to keep trying only until the      *)
(* event is answered with a 200.                                           *)
(***************************************************************************)
EXTENDS ChannelAccess

CONSTANT Payer   \* client_reference_id of each session, None if unreadable

ASSUME PayerAssumption == Payer \in [Session -> TelegramId \cup {None}]

VARIABLES
    checkout,   \* what became of each checkout session
    acked       \* events answered with a 200

stripeVars == <<checkout, acked>>

EventType == {"completed", "async_payment_succeeded", "async_payment_failed", "expired"}

Checkout == {"open", "expired", "paid", "processing", "succeeded", "failed"}

StripeTypeOK ==
    /\ checkout \in [Session -> Checkout]
    /\ acked \subseteq (Session \X EventType)

StripeInit ==
    /\ checkout = [s \in Session |-> "open"]
    /\ acked = {}

\* A card pays at once; BLIK completes first and settles later.
CheckoutSteps ==
    [open       |-> {"expired", "paid", "processing"},
     processing |-> {"succeeded", "failed"},
     paid |-> {}, expired |-> {}, succeeded |-> {}, failed |-> {}]

Settled(s) == checkout[s] \in {"paid", "succeeded"}

\* The events Stripe has emitted for a session.
Emitted(s) ==
    [open |-> {}, expired |-> {"expired"},
     paid |-> {"completed"}, processing |-> {"completed"},
     succeeded |-> {"completed", "async_payment_succeeded"},
     failed    |-> {"completed", "async_payment_failed"}][checkout[s]]

\* Mutant: payment_status is not looked at.
SaysPaidOnceCompleted(s, type) == type \in {"completed", "async_payment_succeeded"}

\* Mutant: only a completed checkout is ever activated.
SaysPaidByCardOnly(s, type) == type = "completed" /\ checkout[s] = "paid"

\* The event that says the money has arrived: completed carries
\* payment_status "paid" for a card only.
SaysPaid(s, type) ==
    \/ type = "async_payment_succeeded"
    \/ type = "completed" /\ checkout[s] = "paid"

CustomerActs(s) ==
    /\ \E next \in CheckoutSteps[checkout[s]] : checkout' = [checkout EXCEPT ![s] = next]
    /\ UNCHANGED <<environmentVars, databaseVars, serviceVars, channelVars, acked>>

Acknowledge(s, type) == acked' = acked \cup {<<s, type>>}

\* Mutant: a delivery is answered while another one is still being handled.
AcknowledgeEventInProgress(s, type) ==
    /\ type \in Emitted(s)
    /\ \E t \in Task : task[t].ref = s
    /\ Acknowledge(s, type)
    /\ UNCHANGED <<environmentVars, databaseVars, serviceVars, channelVars, checkout>>

\* Every path that answers 200 before a transaction is opened.
AcknowledgeEvent(s, type) ==
    /\ type \in Emitted(s)
    /\ \/ payments[s] # None
       \/ ~SaysPaid(s, type)
       \/ Payer[s] = None
    /\ Acknowledge(s, type)
    /\ UNCHANGED <<environmentVars, databaseVars, serviceVars, channelVars, checkout>>

\* No payment is recorded yet as far as this SELECT can see.
BeginStripeActivation(t, s, type) ==
    /\ At(t, "idle")
    /\ type \in Emitted(s)
    /\ payments[s] = None
    /\ SaysPaid(s, type)
    /\ Payer[s] # None
    /\ BeginActivation(t, s, Payer[s])
    /\ UNCHANGED <<environmentVars, databaseVars, grants, grantedAt, raced, channelVars,
                   stripeVars>>

\* 200 after the confirmation, or because another delivery recorded the payment.
RespondOK(t) ==
    /\ \/ At(t, "respond")
       \/ At(t, "duplicate") /\ task[t].ref \in Session
    /\ \E type \in EventType :
          /\ type \in Emitted(task[t].ref)
          /\ SaysPaid(task[t].ref, type)
          /\ Acknowledge(task[t].ref, type)
    /\ End(t)
    /\ UNCHANGED <<environmentVars, databaseVars, grants, grantedAt, raced, channelVars,
                   checkout>>

=============================================================================
