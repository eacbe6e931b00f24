------------------------------- MODULE Claims -------------------------------
(***************************************************************************)
(* What the repository's comments, docstrings and README promise and the   *)
(* code does not keep.  Each formula states the sentence it quotes, and a  *)
(* run of its own exhibits the behaviour that breaks it.                   *)
(***************************************************************************)
EXTENDS SubscriptionSystem

\* "the renewal-reuses-live-subscription fix ... prevents new instances" of
\* a payer with several live rows (auto_kick.py:144-147).
NoDuplicateLive == UsersWithMultipleLive = {}

\* "genuinely additive for an on-time renewal of a live subscription"
\* (payment_service.py:69-70): what is in the database is what is added to.
RenewalIsAdditive ==
    [][\A t \in Task :
         Commits(t) /\ subs[task[t].sub].status \in LiveStatuses
            => subs'[task[t].sub].expires
                 = RenewedExpiresAt(now, subs[task[t].sub].expires)]_vars

\* The transaction "can never leave a recorded payment with no access behind
\* it" (payment_service.py:121-122).
PaymentMeansActive ==
    [][\A t \in Task : Commits(t) => subs'[task[t].sub].status \in LiveStatuses]_vars

\* A row renewed since it was listed is skipped: "Lost a race with ... a
\* renewal ... nothing left to kick" (auto_kick.py:159-160).
RenewedRowIsNotKicked ==
    [][\A r \in SubId :
         subs[r].status # "kicked" /\ subs'[r].status = "kicked"
            => subs[r].expires < now]_vars

\* last_warning_days_left is "Reset to NULL on every renewal ... so the next
\* cycle gets all three reminders again" (models.py:79-81).
RenewalResetsReminders ==
    [][\A t \in Task :
         Commits(t) => subs'[task[t].sub].warned = None]_vars

=============================================================================
