--------------------------- MODULE PaymentService ---------------------------
(***************************************************************************)
(* The activation paths of app/services/payment_service.py.                *)
(*                                                                         *)
(* Handlers are asyncio tasks over one database, so they interleave at     *)
(* every await.  Each step below is one statement of a transaction.  What  *)
(* a transaction has written and not committed is invisible to the others  *)
(* except where Postgres makes them wait: an INSERT of the same telegram   *)
(* id, an INSERT of the same (provider, provider_ref), a row FOR UPDATE.   *)
(* Private writes therefore live in the task's record and the last UPDATE  *)
(* and the COMMIT are one step.                                            *)
(***************************************************************************)
EXTENDS Database

CONSTANT Task   \* bound: the handlers that may run at once

VARIABLES
    task,      \* the handlers in progress
    grants,    \* history: how many activations each ref has paid for
    grantedAt, \* history: when it was last granted
    raced      \* history: users whose rows two units of work handled at once

serviceVars == <<task, grants, grantedAt, raced>>

\* _activate_subscription is get_user .. activate, confirm_manual_payment is
\* lock .. confirm_activate; the other labels belong to the callers.
Label == {"idle",
          "get_user", "find_live", "insert_payment", "activate", "duplicate",
          "lock", "find_renewable", "confirm_activate",
          "save_user", "save_placeholder", "save_payment", "forward", "thank",
          "invite", "send_invite",
          "create_link", "send_link", "confirm_access", "notify", "respond"}

TaskRecord == [pc      : Label,
               ref     : Ref \cup {None},          \* the payment being handled
               user    : TelegramId \cup {None},   \* its payer
               sub     : SubId \cup {None},        \* the row to activate
               row     : Row,                      \* that row as this session read it
               pending : SubId \cup {None}]        \* the screenshot's placeholder

\* A handler that has read nothing yet.
Starting(label, p, u, r) ==
    [pc |-> label, ref |-> p, user |-> u, sub |-> None, row |-> NoRow, pending |-> r]

IdleTask == Starting("idle", None, None, None)

ServiceTypeOK ==
    /\ task \in [Task -> TaskRecord]
    /\ grants \in [Ref -> Nat]
    /\ grantedAt \in [Ref -> Nat \cup {None}]
    /\ raced \subseteq TelegramId

ServiceInit ==
    /\ task = [t \in Task |-> IdleTask]
    /\ grants = [p \in Ref |-> 0]
    /\ grantedAt = [p \in Ref |-> None]
    /\ raced = {}

At(t, label) == task[t].pc = label

Goto(t, label) == task' = [task EXCEPT ![t].pc = label]

End(t) == task' = [task EXCEPT ![t] = IdleTask]

-----------------------------------------------------------------------------

\* Tasks holding the uncommitted INSERT of users row u.
InsertsUser(t, u) ==
    /\ task[t].user = u /\ u \notin users
    /\ task[t].pc \in {"find_live", "insert_payment", "activate"}

\* Tasks that chose the row to activate and have not committed yet.
Activating(t) == task[t].pc \in {"insert_payment", "activate", "confirm_activate"}

\* Mutant: a plain SELECT instead of FOR UPDATE.
LocksNothing(t, r) == FALSE

\* Tasks holding the placeholder r FOR UPDATE.
Locks(t, r) == task[t].pending = r /\ task[t].pc \in {"find_renewable", "confirm_activate"}

\* Mutant: the sequence hands out the id of an INSERT still in flight.
FreeIdsUnreserved == {r \in SubId : subs[r] = NoRow}

\* Ids the sequence can still give out.  A rolled back id comes back here,
\* which no one can tell from a fresh one.
FreeIds == {r \in SubId : subs[r] = NoRow /\ \A t \in Task : task[t].sub # r}

BeginActivation(t, p, u) ==
    task' = [task EXCEPT ![t] = Starting("get_user", p, u, None)]

NoteRace(t) ==
    raced' = IF \E other \in Task : /\ Activating(other)
                                    /\ task[other].user = task[t].user
                                    /\ task[other].ref # task[t].ref
             THEN raced \cup {task[t].user}
             ELSE raced

\* The row this session goes on to activate, as its SELECT returned it.
ChooseRow(t, r, row, label) ==
    /\ task' = [task EXCEPT ![t].pc = label, ![t].sub = r, ![t].row = row]
    /\ NoteRace(t)

\* The INSERT waits while another transaction inserts the same telegram id,
\* then reads the winner's row or inserts its own.
GetOrCreateUser(t) ==
    /\ At(t, "get_user")
    /\ \A other \in Task : ~InsertsUser(other, task[t].user)
    /\ Goto(t, "find_live")
    /\ UNCHANGED <<environmentVars, databaseVars, grants, grantedAt, raced>>

\* Mutant: a renewal never reuses the live row.
CreateSubscriptionAlways(t) ==
    /\ At(t, "find_live")
    /\ \E r \in FreeIds : ChooseRow(t, r, PendingRow(task[t].user), "insert_payment")
    /\ UNCHANGED <<environmentVars, databaseVars, grants, grantedAt>>

\* Mutant: an expiring row is not looked for.
FindOrCreateActiveOnly(t) ==
    LET active == {r \in LiveOf(task[t].user) : subs[r].status = "active"}
    IN  /\ At(t, "find_live")
        /\ \/ \E r \in active : ChooseRow(t, r, subs[r], "insert_payment")
           \/ /\ active = {}
              /\ \E r \in FreeIds : ChooseRow(t, r, PendingRow(task[t].user), "insert_payment")
        /\ UNCHANGED <<environmentVars, databaseVars, grants, grantedAt>>

\* Mutant: a pending row of the payer is taken for a live one.
FindPendingOrCreateSubscription(t) ==
    LET found == {r \in SubId : /\ subs[r].user = task[t].user
                                /\ subs[r].status \in {"pending", "active", "expiring"}}
    IN  /\ At(t, "find_live")
        /\ \E r \in found : ChooseRow(t, r, subs[r], "insert_payment")
        /\ UNCHANGED <<environmentVars, databaseVars, grants, grantedAt>>

FindOrCreateSubscription(t) ==
    /\ At(t, "find_live")
    /\ \/ \E r \in SubId :
            /\ IsLatestLive(r, task[t].user)
            /\ ChooseRow(t, r, subs[r], "insert_payment")
       \/ /\ LiveOf(task[t].user) = {}
          /\ \E r \in FreeIds : ChooseRow(t, r, PendingRow(task[t].user), "insert_payment")
    /\ UNCHANGED <<environmentVars, databaseVars, grants, grantedAt>>

\* Mutant: payments has no unique constraint.
CreatePaymentUnchecked(t) ==
    /\ At(t, "insert_payment")
    /\ Goto(t, "activate")
    /\ UNCHANGED <<environmentVars, databaseVars, grants, grantedAt, raced>>

\* Mutant: the payment is committed in a session of its own.
CreatePaymentCommitted(t) ==
    /\ At(t, "insert_payment")
    /\ payments[task[t].ref] = None
    /\ payments' = [payments EXCEPT ![task[t].ref] = task[t].sub]
    /\ Goto(t, "activate")
    /\ UNCHANGED <<environmentVars, users, subs, grants, grantedAt, raced>>

\* Mutant: a duplicate is retried instead of reported.
CreatePaymentRetried(t) ==
    /\ At(t, "insert_payment")
    /\ payments[task[t].ref] = None
    /\ Goto(t, "activate")
    /\ UNCHANGED <<environmentVars, databaseVars, grants, grantedAt, raced>>

\* Waits for an uncommitted INSERT of the same ref; a committed one raises
\* DuplicatePaymentError, which rolls everything back.
CreatePayment(t) ==
    /\ At(t, "insert_payment")
    /\ ~\E other \in Task : At(other, "activate") /\ task[other].ref = task[t].ref
    /\ \/ /\ payments[task[t].ref] = None
          /\ Goto(t, "activate")
       \/ /\ payments[task[t].ref] # None
          /\ task' = [task EXCEPT ![t] = Starting("duplicate", task[t].ref, None, None)]
    /\ UNCHANGED <<environmentVars, databaseVars, grants, grantedAt, raced>>

\* Mutant: the new period always starts now.
ActivatedFromNow(row) == [row EXCEPT !.status = "active",
                                     !.expires = RenewedExpiresAt(now, None),
                                     !.warned = None]

\* Mutant: the unused days of an expiring row are lost.
ActivatedWithoutRest(row) ==
    IF row.status = "expiring" THEN ActivatedFromNow(row)
    ELSE [row EXCEPT !.status = "active",
                     !.expires = RenewedExpiresAt(now, row.expires),
                     !.warned = None]

Activated(row) == [row EXCEPT !.status = "active",
                              !.expires = RenewedExpiresAt(now, row.expires),
                              !.warned = None]

\* _activate: both UPDATEs and the COMMIT that follows them.
WriteActivation(t) ==
    /\ subs' = [subs EXCEPT ![task[t].sub] = Flush(@, task[t].row, Activated(task[t].row))]
    /\ grants' = [grants EXCEPT ![task[t].ref] = @ + 1]
    /\ grantedAt' = [grantedAt EXCEPT ![task[t].ref] = now]

ActivateSubscription(t) ==
    /\ At(t, "activate")
    /\ WriteActivation(t)
    /\ users' = users \cup {task[t].user}
    /\ payments' = [payments EXCEPT ![task[t].ref] = task[t].sub]
    /\ Goto(t, "create_link")
    /\ UNCHANGED <<environmentVars, raced>>

-----------------------------------------------------------------------------

\* Mutant: the status of the locked row is not checked.
LockAnyRow(t) ==
    LET r == task[t].pending
    IN  /\ At(t, "lock")
        /\ \A other \in Task : ~Locks(other, r)
        /\ \E p \in Ref :
              /\ payments[p] = r
              /\ task' = [task EXCEPT ![t].pc = "find_renewable", ![t].ref = p,
                                      ![t].user = subs[r].user, ![t].row = subs[r]]
        /\ UNCHANGED <<environmentVars, databaseVars, grants, grantedAt, raced>>

\* SELECT ... FOR UPDATE, then get_for_subscription and the already-processed
\* check on what they returned.
LockPlaceholder(t) ==
    LET r == task[t].pending
        owned == {p \in Ref : payments[p] = r}
    IN  /\ At(t, "lock")
        /\ \A other \in Task : ~Locks(other, r)
        /\ \/ /\ subs[r].status = "pending"
              /\ \E p \in owned :
                    task' = [task EXCEPT ![t].pc = "find_renewable", ![t].ref = p,
                                         ![t].user = subs[r].user, ![t].row = subs[r]]
           \/ /\ subs[r].status # "pending" \/ owned = {}
              /\ End(t)
        /\ UNCHANGED <<environmentVars, databaseVars, grants, grantedAt, raced>>

\* Mutant: the placeholder is activated even if the payer has a live row.
FindPlaceholder(t) ==
    /\ At(t, "find_renewable")
    /\ ChooseRow(t, task[t].pending, task[t].row, "confirm_activate")
    /\ UNCHANGED <<environmentVars, databaseVars, grants, grantedAt>>

FindRenewable(t) ==
    /\ At(t, "find_renewable")
    /\ \/ \E r \in SubId :
            /\ IsLatestLive(r, task[t].user)
            /\ ChooseRow(t, r, subs[r], "confirm_activate")
       \/ /\ LiveOf(task[t].user) = {}
          /\ ChooseRow(t, task[t].pending, task[t].row, "confirm_activate")
    /\ UNCHANGED <<environmentVars, databaseVars, grants, grantedAt>>

\* Mutant: repoint_subscription gets its arguments the wrong way round.
ConfirmRepointingBack(t) ==
    /\ At(t, "confirm_activate")
    /\ WriteActivation(t)
    /\ payments' = [p \in Ref |-> IF payments[p] = task[t].sub
                                  THEN task[t].pending ELSE payments[p]]
    /\ Goto(t, "notify")
    /\ UNCHANGED <<environmentVars, users, raced>>

\* repoint_subscription, _activate and the COMMIT.
ConfirmManualPayment(t) ==
    /\ At(t, "confirm_activate")
    /\ WriteActivation(t)
    /\ payments' = [p \in Ref |-> IF payments[p] = task[t].pending
                                  THEN task[t].sub ELSE payments[p]]
    /\ Goto(t, "notify")
    /\ UNCHANGED <<environmentVars, users, raced>>

\* A statement or the COMMIT fails and the transaction rolls back, or only the
\* answer to the COMMIT is lost, and it does not (the labels a COMMIT leads
\* to).  The exception ends the handler: Stripe gets a 500, aiogram logs it.
TransactionFails(t) ==
    /\ task[t].pc \in {"get_user", "find_live", "insert_payment", "activate",
                       "lock", "find_renewable", "confirm_activate",
                       "save_user", "save_placeholder", "save_payment",
                       "create_link", "notify", "forward"}
    /\ FaultOccurs("database")
    /\ End(t)
    /\ UNCHANGED <<now, databaseVars, grants, grantedAt, raced>>

ActivationStep(t) ==
    \/ GetOrCreateUser(t) \/ FindOrCreateSubscription(t) \/ CreatePayment(t)
    \/ ActivateSubscription(t)
    \/ LockPlaceholder(t) \/ FindRenewable(t) \/ ConfirmManualPayment(t)

=============================================================================
