------------------------- MODULE SubscriptionSystem -------------------------
(***************************************************************************)
(* The bot process (main.py): Telegram handlers, the Stripe webhook and    *)
(* the two daily jobs over one database, in one event loop that may crash  *)
(* at any await; then the properties of the whole.                         *)
(***************************************************************************)
EXTENDS StripeWebhook, ManualPayments, ExpirationWarnings, AutoKick, FiniteSets

vars == <<environmentVars, databaseVars, serviceVars, channelVars,
          stripeVars, manualVars, warningsVars, kick>>

Init ==
    /\ EnvironmentInit /\ DatabaseInit /\ ServiceInit /\ ChannelInit
    /\ StripeInit /\ ManualInit /\ WarningsInit /\ KickInit

TypeOK ==
    /\ EnvironmentTypeOK /\ DatabaseTypeOK /\ ServiceTypeOK /\ ChannelTypeOK
    /\ StripeTypeOK /\ ManualTypeOK /\ WarningsTypeOK /\ KickTypeOK

-----------------------------------------------------------------------------

\* The clock, the checkout pages, and users outside a payment.
WorldNext ==
    \/ /\ AdvanceClock
       /\ UNCHANGED <<databaseVars, serviceVars, channelVars, stripeVars, manualVars,
                      warningsVars, kick>>
    \/ /\ \E u \in TelegramId : JoinChannel(u)
       /\ UNCHANGED <<stripeVars, manualVars, warningsVars, kick>>
    \/ /\ \E u \in TelegramId : RegisterUser(u)
       /\ UNCHANGED <<stripeVars, warningsVars, kick>>
    \/ /\ \E s \in Session : CustomerActs(s)
       /\ UNCHANGED <<manualVars, warningsVars, kick>>

WebhookNext(s, type) ==
    /\ \/ AcknowledgeEvent(s, type)
       \/ \E t \in Task : BeginStripeActivation(t, s, type)
    /\ UNCHANGED <<manualVars, warningsVars, kick>>

\* The deliveries Stripe is bound to repeat.
RetryNext(s) == \E type \in EventType : <<s, type>> \notin acked /\ WebhookNext(s, type)

\* What users and the admin ask for.
RequestNext ==
    /\ \E t \in Task :
          \/ \E m \in Message : ReceiveScreenshot(t, m)
          \/ \E r \in SubId : PressConfirm(t, r)
          \/ \E p \in Uuid, u \in TelegramId : AdminActivate(t, p, u)
          \/ \E u \in TelegramId : AdminInvite(t, u)
    /\ UNCHANGED <<stripeVars, warningsVars, kick>>

\* A handler in progress takes its next step.
HandlerNext(t) ==
    \/ /\ ActivationStep(t)
       /\ UNCHANGED <<channelVars, stripeVars, manualVars, warningsVars, kick>>
    \/ /\ AccessStep(t)
       /\ UNCHANGED <<stripeVars, manualVars, warningsVars, kick>>
    \/ /\ RespondOK(t)
       /\ UNCHANGED <<manualVars, warningsVars, kick>>
    \/ /\ ScreenshotStep(t) \/ InviteStep(t)
       /\ UNCHANGED <<stripeVars, warningsVars, kick>>

WarningsNext == WarningsStep /\ UNCHANGED <<stripeVars, manualVars, kick>>

KickNextStep == KickStep /\ UNCHANGED <<stripeVars, manualVars, warningsVars>>

\* The process dies: transactions roll back, handlers and job runs are gone.
Crash ==
    /\ FaultOccurs("crash")
    /\ task' = [t \in Task |-> IdleTask]
    /\ warn' = WarnReady({})
    /\ kick' = KickReady({})
    /\ LeaveUntold(Task)
    /\ LeaveUnrecorded
    /\ leftBanned' = leftBanned \cup (IF kick.pc = "unban" THEN {kick.row.user} ELSE {})
    /\ UNCHANGED <<now, databaseVars, grants, grantedAt, raced, members, banned, links, told,
                   stripeVars, manualVars, reminders>>

FailureNext ==
    \/ /\ \E t \in Task : TransactionFails(t) /\ LeaveUntold({t})
       /\ UNCHANGED <<members, banned, links, told, leftBanned, stripeVars, manualVars,
                      warningsVars, kick>>
    \/ WarningsFail /\ UNCHANGED <<stripeVars, manualVars, kick>>
    \/ KickFails /\ UNCHANGED <<stripeVars, manualVars, warningsVars>>
    \/ OtherHandlerFails /\ UNCHANGED <<stripeVars, warningsVars, kick>>

\* Everything but a crash.
RunningNext ==
    \/ WorldNext
    \/ \E s \in Session, type \in EventType : WebhookNext(s, type)
    \/ RequestNext
    \/ \E t \in Task : HandlerNext(t)
    \/ WarningsNext
    \/ KickNextStep
    \/ FailureNext

Next == RunningNext \/ Crash

Spec == Init /\ [][Next]_vars

\* The event loop runs every ready coroutine, the scheduler starts each job
\* every day, and Stripe retries an event until it is answered with a 200.  The
\* last is strong because a model may have all its tasks busy, the server not.
Fairness ==
    /\ \A t \in Task : WF_vars(HandlerNext(t))
    /\ \A s \in Session : SF_vars(RetryNext(s))
    /\ WF_vars(WarningsNext)
    /\ WF_vars(KickNextStep)

FairSpec == Spec /\ Fairness

-----------------------------------------------------------------------------
(* Payments and what they buy                                              *)

\* A payment, however often its event is delivered, its button pressed or
\* its handler retried, extends a subscription at most once (the unique
\* constraint, the webhook's lookup and the FOR UPDATE lock together).
PaymentGrantsOnce == \A p \in Ref : grants[p] <= 1

\* A recorded payment has bought its time exactly when the row it points at
\* has left PENDING; only a screenshot's payment waits, and a transaction
\* cannot leave one without the other.
PaymentBacksAccess ==
    \A p \in Ref :
        payments[p] # None =>
            /\ (grants[p] = 1) = (subs[payments[p]].status # "pending")
            /\ p \notin Message => grants[p] = 1

\* Once Stripe stops retrying an event that says "paid", the payment is on
\* record, unless nobody can tell whose it is: a 200 is never sent early.
AckedMeansRecorded ==
    \A s \in Session, type \in EventType :
        <<s, type>> \in acked /\ SaysPaid(s, type) /\ Payer[s] # None => payments[s] # None

\* No access for a session whose money has not arrived: a BLIK completion
\* alone buys nothing, and neither does a late or a failed one.
OnlySettledSessionsGrant == \A s \in Session : grants[s] > 0 => Settled(s)

\* A payment never ends up on someone else's subscription, whatever row it
\* is re-pointed to.
PaymentBelongsToPayer ==
    /\ \A s \in Session : payments[s] # None => subs[payments[s]].user = Payer[s]
    /\ \A m \in Message : payments[m] # None => subs[payments[m]].user = Sender[m]

\* A payment of u has been granted.
HasPaid(u) ==
    \E p \in Ref : /\ grants[p] > 0 /\ payments[p] # None
                  /\ subs[payments[p]].user = u

\* Whoever is in the channel or holds a link into it has paid for it once:
\* links go out only after a commit, or by /invite to the owner of a live row.
AccessIsPaidFor == \A u \in TelegramId : u \in members \/ links[u] > 0 => HasPaid(u)

\* Between the FOR UPDATE and the COMMIT of a confirmation the placeholder
\* and its payment stay as they were checked.
LockedPlaceholderIsUnprocessed ==
    \A t \in Task, r \in SubId :
        Locks(t, r) =>
            /\ subs[r].status = "pending"
            /\ payments[task[t].ref] = r
            /\ grants[task[t].ref] = 0

\* A placeholder whose payment was re-pointed to a live row, or never
\* recorded, is inert for good.
OrphanPlaceholdersStayPending ==
    [][\A r \in SubId :
         /\ subs[r].status = "pending"
         /\ \A p \in Ref : payments[p] # r
         /\ \A t \in Task : ~(At(t, "save_payment") /\ task[t].pending = r)
         => subs'[r] = subs[r]]_vars

-----------------------------------------------------------------------------
(* Renewals                                                                *)

\* At most one live row per payer, as long as no two activations of different
\* payments ran at once for them (first purchases are serialised by the
\* INSERT of the users row).
SerialRenewalsKeepOneLiveRow == UsersWithMultipleLive \subseteq raced

\* The task whose activation a step commits.
Commits(t) ==
    /\ task[t].pc \in {"activate", "confirm_activate"}
    /\ task'[t].pc \in {"create_link", "notify"}

\* Without such a race, each activation adds its days to the expiry that is
\* in the database at that moment, whatever the jobs did since it was read.
SerialRenewalsAreAdditive ==
    [][\A t \in Task :
         Commits(t) /\ task[t].user \notin raced =>
            subs'[task[t].sub].expires
                = RenewedExpiresAt(now, subs[task[t].sub].expires)]_vars

\* One payment's worth of time.
Period == SubscriptionDays * Day

\* The payments whose time is on row r.
Bought(r) == {p \in Ref : payments[p] = r /\ grants[p] > 0}

\* Nobody has more time left than their payments bought, whatever repeats,
\* overlaps or is read before it changes.
TimeIsPaidFor ==
    \A r \in SubId :
        subs[r].expires # None =>
            subs[r].expires <= now + Cardinality(Bought(r)) * Period

\* The payments on row r granted when p was, or later.
BoughtSince(p, r) == {q \in Bought(r) : grantedAt[q] >= grantedAt[p]}

\* Without a race, no payment's time is lost: from the moment a payment is
\* granted, its row has left, laid end to end, the period of that payment and
\* of each one granted since, whichever of the three paths granted them.
PaidTimeIsKept ==
    \A r \in SubId : subs[r].user \notin raced =>
        \A p \in Bought(r) :
            subs[r].expires >= grantedAt[p] + Cardinality(BoughtSince(p, r)) * Period

\* A payer whose money has settled gets the payment recorded (and with it,
\* by PaymentBacksAccess, the access), through crashes and failed
\* transactions, as long as Stripe keeps retrying.
SettledPaymentsAreRecorded ==
    \A s \in Session : Settled(s) /\ Payer[s] # None ~> payments[s] # None

\* A payment is confirmed, and with a link only, once: nobody is about to tell a
\* payer who has been told of it, nor are two handlers about to, however often
\* the event is delivered or the button pressed.
PayersAreToldOnce ==
    \A t \in Task : Confirming(t) =>
        /\ task[t].ref \notin told
        /\ \A other \in Task :
              Confirming(other) /\ task[other].ref = task[t].ref => other = t

\* A payer whose payment extended a subscription is told so, unless that very
\* message is refused or its handler cut short after the COMMIT, since nothing
\* repeats it.  A link that cannot be created, and whatever else failed before
\* or elsewhere, is no excuse.
GrantedPayersAreTold ==
    \A p \in Ref : grants[p] > 0 ~> p \in told \/ p \in untold

\* No handler waits forever: the waits on uncommitted inserts and row locks
\* never form a cycle.
HandlersFinish == \A t \in Task : ~At(t, "idle") ~> At(t, "idle")

-----------------------------------------------------------------------------
(* The daily jobs                                                          *)

\* A row past its expiry does not stay live: it is renewed or closed, even
\* when renewals make the job lose its races.
Overdue(r) ==
    subs[r].status \in LiveStatuses /\ subs[r].expires # None /\ subs[r].expires < now

OverdueRowsLeaveLive == \A r \in SubId : Overdue(r) ~> ~Overdue(r)

\* A reminder about to go out says less than the row has on record for it,
\* however old the candidate it was listed as.
ReminderSaysLess ==
    warn.pc = "send" =>
        \/ subs[warn.sub].warned = None
        \/ warn.days < subs[warn.sub].warned

\* A reminder that is about to go out has not been delivered in this cycle
\* ("never sends a duplicate", expiration_warnings.run_expiration_warnings),
\* unless the record of that delivery is missing, because Telegram reported an
\* error for it or the run was cut short right after it; or unless two
\* activations of the payer raced, as one of them may take an expiry back.
NoDuplicateReminder ==
    warn.pc = "send" /\ warn.row.user \notin raced => Reminder \notin (reminders \ unrecorded)

\* A row about to be moved to EXPIRING or reminded of is due; one with more
\* days left than the job counted was paid for again after the job listed it,
\* and that is the only way.
OnlyRenewedRowsAreRemindedEarly ==
    warn.pc \in {"mark", "send"} /\ subs[warn.sub].expires > now + warn.days * Day
       => Bought(warn.sub) \ warn.seen # {}

\* Administrators and the creator stay in the channel whatever becomes of their
\* subscriptions, unless the look at their role failed just before the ban, and
\* that is the only way ("never removed from the channel, full stop", auto_kick.py).
AdministratorsStay == [][members \cap Protected \subseteq members' \/ kick.blind]_vars

\* Whoever the kick job takes out of the channel has no live row with time
\* left but one paid for after the job looked: the ban is two calls later.
PayersKeepTheirPlace ==
    [][\A u \in members \ members', r \in SubId :
         u \notin raced /\ r \in LiveOf(u) /\ subs[r].expires > now
            => Bought(r) \ kick.seen # {}]_vars

\* A row is kicked after it has run out; one that has not was paid for again
\* after the job listed it, and that is the only way (see RenewedRowIsNotKicked).
OnlyRenewedRowsAreKickedEarly ==
    [][\A r \in SubId :
         subs[r].status # "kicked" /\ subs'[r].status = "kicked" /\ subs[r].expires >= now
            => Bought(r) \ kick.seen # {}]_vars

\* Whoever is banned is the one the job is about to unban, or somebody whose
\* removal was cut short by a crash or by an error of either call, and these are
\* the only ways ("Nobody is left permanently banned", auto_kick.py, holds but
\* for them).
OnlyCutRemovalsLeaveBans ==
    \A u \in banned : (kick.pc = "unban" /\ kick.row.user = u) \/ u \in leftBanned

=============================================================================
