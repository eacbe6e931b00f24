----------------------- MODULE SubscriptionInvariants -----------------------
(***************************************************************************)
(* The inductive invariants behind the theorems of                         *)
(* SubscriptionSystemProofs: what every handler and job may rely on when   *)
(* it resumes after an await.                                              *)
(***************************************************************************)
EXTENDS SubscriptionSystem

\* A row that some payment has activated, whatever became of it since.
Opened(row) == row.status \in {"active", "expiring", "expired", "kicked"}

RowOK(row) ==
    /\ row.status = "absent" => row = NoRow
    /\ row.status = "pending" => row.user \in TelegramId /\ row = PendingRow(row.user)
    /\ Opened(row) => row.user \in TelegramId /\ row.expires \in Nat

RowsOK == \A r \in SubId : RowOK(subs[r])

ServiceLabels == {"get_user", "find_live", "insert_payment", "activate"}
SavingLabels == {"save_user", "save_placeholder", "save_payment"}
SavedLabels == {"forward", "thank"}
InviteLabels == {"invite", "send_invite"}
LockingLabels == {"find_renewable", "confirm_activate"}

\* What a handler's place in its code says about its local variables.
LocalsOK(t) ==
    /\ task[t].pc \in ServiceLabels => task[t].ref \in Session \cup Uuid
    /\ task[t].pc \in SavingLabels \cup SavedLabels => task[t].ref \in Message
    /\ task[t].pc \in LockingLabels \cup AfterCommitLabels => task[t].ref \in Ref
    /\ task[t].pc = "respond" => task[t].ref \in Session
    /\ task[t].pc \in ServiceLabels \cup SavingLabels \cup SavedLabels \cup LockingLabels
                        \cup AfterCommitLabels \cup InviteLabels
          => task[t].user \in TelegramId
    /\ task[t].pc \in {"insert_payment", "activate", "confirm_activate"}
          => task[t].sub \in SubId
    /\ task[t].pc \in {"save_payment", "forward", "lock"} \cup LockingLabels
          => task[t].pending \in SubId

\* Rows a job has listed or is working on have been opened.
WarnShape ==
    /\ \A c \in warn.todo : /\ Opened(c.row) /\ RowOK(c.row)
                            /\ Opened(subs[c.sub]) /\ subs[c.sub].user = c.row.user
    /\ warn.pc # "ready" =>
          /\ warn.sub \in SubId /\ Opened(subs[warn.sub])
          /\ Opened(warn.row) /\ RowOK(warn.row)
          /\ warn.row.user = subs[warn.sub].user
          /\ warn.pc = "mark" => warn.row.status = "active"
          /\ warn.days \in Nat

KickShape ==
    /\ \A c \in kick.todo : Opened(subs[c.sub])
    /\ kick.pc # "ready" => /\ kick.sub \in SubId /\ Opened(subs[kick.sub])
                           /\ kick.hop \in {"expiring", "expired", "kicked"}
    /\ kick.pc \notin {"ready", "read"} => Opened(kick.row) /\ RowOK(kick.row)

JobShape == WarnShape /\ KickShape

\* The row a handler is about to activate is either one it reserved, that no
\* one else has, or one already opened; a confirmation may also open the
\* placeholder it holds.
ChosenRow(t) ==
    LET opened == /\ Opened(subs[task[t].sub]) /\ Opened(task[t].row) /\ RowOK(task[t].row)
                  /\ subs[task[t].sub].user = task[t].user
        reserved == /\ subs[task[t].sub] = NoRow
                    /\ task[t].row = PendingRow(task[t].user)
                    /\ \A other \in Task : task[other].sub = task[t].sub => other = t
        placeholder == /\ task[t].sub = task[t].pending
                       /\ task[t].row = PendingRow(task[t].user)
    IN  /\ task[t].pc \in {"insert_payment", "activate"} => reserved \/ opened
        /\ task[t].pc = "confirm_activate" => placeholder \/ opened

\* A handler holding FOR UPDATE holds it alone, on a payment not yet granted.
Confirmation(t) ==
    task[t].pc \in LockingLabels =>
        /\ payments[task[t].ref] = task[t].pending
        /\ subs[task[t].pending] = PendingRow(task[t].user)
        /\ task[t].pc = "find_renewable" => task[t].row = PendingRow(task[t].user)
        /\ \A other \in Task :
              task[other].pc \in LockingLabels /\ task[other].pending = task[t].pending
                 => other = t

\* A screenshot being saved is saved by one handler, and nothing else knows
\* its placeholder.
Screenshot(t) ==
    task[t].pc \in SavingLabels =>
        /\ task[t].ref \in received
        /\ payments[task[t].ref] = None
        /\ \A other \in Task :
              task[other].pc \in SavingLabels /\ task[other].ref = task[t].ref => other = t
        /\ task[t].pc = "save_payment" =>
              /\ subs[task[t].pending].status = "pending"
              /\ \A p \in Ref : payments[p] # task[t].pending
              /\ \A other \in Task : At(other, "save_payment")
                    /\ task[other].pending = task[t].pending => other = t

\* One transaction at most is about to record a given payment.
Recording(t) ==
    At(t, "activate") =>
        /\ payments[task[t].ref] = None
        /\ \A other \in Task : At(other, "activate") /\ task[other].ref = task[t].ref => other = t

HandlerOK(t) ==
    LocalsOK(t) /\ ChosenRow(t) /\ Confirmation(t) /\ Screenshot(t) /\ Recording(t)

\* The tables agree with what has been granted.
Ledger ==
    /\ \A p \in Ref \ Message : grants[p] = IF payments[p] = None THEN 0 ELSE 1
    /\ \A m \in Message : payments[m] = None => grants[m] = 0
    /\ \A m \in Message \ received : payments[m] = None
    /\ \A p \in Ref : payments[p] # None =>
          \/ grants[p] = 1 /\ Opened(subs[payments[p]])
          \/ grants[p] = 0 /\ subs[payments[p]].status = "pending"
    /\ \A p, q \in Ref :
          payments[p] # None /\ payments[p] = payments[q]
             /\ subs[payments[p]].status = "pending" => p = q

GrantInv ==
    /\ TypeOK
    /\ RowsOK
    /\ \A t \in Task : HandlerOK(t)
    /\ JobShape
    /\ Ledger

-----------------------------------------------------------------------------

\* Whose payment a handler carries, that the money behind it has arrived, and
\* that nobody is told before it is recorded.
Carries(t) ==
    /\ task[t].ref \in Session /\ task[t].pc \in ServiceLabels
          => Settled(task[t].ref) /\ task[t].user = Payer[task[t].ref]
    /\ task[t].pc \in SavingLabels => task[t].user = Sender[task[t].ref]
    /\ At(t, "save_payment") => subs[task[t].pending].user = task[t].user
    /\ task[t].ref \in Session /\ task[t].pc \in AfterCommitLabels \cup {"respond", "duplicate"}
          => payments[task[t].ref] # None

\* A recorded payment is on its payer's row, and a session's has settled.
Owned(p) ==
    payments[p] # None =>
        /\ p \in Session => subs[payments[p]].user = Payer[p] /\ Settled(p)
        /\ p \in Message => subs[payments[p]].user = Sender[p]

\* An answered event was emitted, and nothing it says is still to be done.
Answered(s, type) ==
    <<s, type>> \in acked =>
        /\ type \in Emitted(s)
        /\ SaysPaid(s, type) /\ Payer[s] # None => payments[s] # None

\* With GrantInv, inductive.
PayerInv ==
    /\ \A t \in Task : Carries(t)
    /\ \A p \in Ref : Owned(p)
    /\ \A s \in Session, type \in EventType : Answered(s, type)

-----------------------------------------------------------------------------

\* Only the reminder job raises a count, renewals just reset it: a candidate's
\* count is at most out of date by a reset, and nobody is a candidate twice.
ReminderInv ==
    /\ ReminderSaysLess
    /\ \A c \in warn.todo :
          /\ subs[c.sub].warned \in {c.row.warned, None}
          /\ warn.pc # "ready" => c.sub # warn.sub
          /\ \A other \in warn.todo : other.sub = c.sub => other = c

-----------------------------------------------------------------------------

\* Whoever is about to commit; a second delivery of a recorded payment is not.
Undecided(t) ==
    \/ task[t].pc \in {"activate", "confirm_activate"}
    \/ At(t, "insert_payment") /\ payments[task[t].ref] = None

\* For a payer without races, whoever is about to commit has chosen the only
\* row that is live, and all of them carry one payment.
ChosenAlone ==
    \A t \in Task : task[t].user \notin raced =>
        /\ Undecided(t) => LiveOf(task[t].user) \subseteq {task[t].sub}
        /\ \A other \in Task :
              Activating(t) /\ Activating(other) /\ task[other].user = task[t].user
                 => task[other].ref = task[t].ref

\* The kick job does not bring a closed row back to life.
HopStaysLive ==
    kick.pc = "write" /\ kick.hop = "expiring" => subs[kick.sub].status \in LiveStatuses

SerialInv == SerialRenewalsKeepOneLiveRow /\ ChosenAlone /\ HopStaysLive

-----------------------------------------------------------------------------

\* For a payer without races, whoever is about to commit has read the expiry
\* that is in the database: the jobs never touch it.
FreshReads ==
    \A t \in Task :
        Undecided(t) /\ task[t].user \notin raced
           => subs[task[t].sub].expires = task[t].row.expires

-----------------------------------------------------------------------------

\* The reminders whose record should be on file, or about to be.
OnFile == reminders \ unrecorded

\* What was said of a row's present cycle is on record, or about to be, and
\* the expiry it was said of has not been taken back.
RemindersOnRecord ==
    \A x \in OnFile :
        /\ Opened(subs[x[1]])
        /\ subs[x[1]].user \notin raced =>
              /\ x[2] <= subs[x[1]].expires
              /\ x[2] = subs[x[1]].expires =>
                    \/ AlreadyWarned(subs[x[1]], x[3])
                    \/ warn.pc = "record" /\ x = Reminder

\* A candidate was listed with what is on record for its expiry.
CandidatesKnow ==
    \A c \in warn.todo : c.row.user \notin raced =>
        /\ c.row.expires <= subs[c.sub].expires
        /\ \A x \in OnFile :
              x[1] = c.sub /\ x[2] = c.row.expires => AlreadyWarned(c.row, x[3])

\* The reminder under way is new, and so is the count about to be recorded.
NewReminder ==
    /\ NoDuplicateReminder
    /\ warn.pc # "ready" /\ warn.row.user \notin raced
          => warn.row.expires <= subs[warn.sub].expires
    /\ warn.pc = "record"
          => subs[warn.sub].warned = None \/ warn.days < subs[warn.sub].warned

\* Inductive with ReminderInv and FreshReads: a run cut short between a
\* reminder and its record takes that reminder off what should be on record.
OnceInv == RemindersOnRecord /\ CandidatesKnow /\ NewReminder

\* Row r has no more days left than announced, or has a payment that the job
\* has not seen.
Due(r, days, seen) == subs[r].expires <= now + days * Day \/ Bought(r) \ seen # {}

\* So have the rows the job has listed; their expiry is the one it was listed
\* with, or there is such a payment.
DueInv ==
    /\ \A c \in warn.todo :
          /\ c.seen \subseteq {p \in Ref : grants[p] > 0}
          /\ subs[c.sub].expires <= c.row.expires \/ Bought(c.sub) \ c.seen # {}
    /\ warn.seen \subseteq {p \in Ref : grants[p] > 0}
    /\ warn.pc # "ready" => Due(warn.sub, warn.days, warn.seen)

-----------------------------------------------------------------------------

\* The last instant that what is paid for on row r can reach.
PaidTime(r) == now + Cardinality(Bought(r)) * Period

\* Neither a row nor what a handler has read of the one it is about to
\* activate is ahead of the payments; these are finitely many at any time.
TimeInv ==
    /\ \A r \in SubId : IsFiniteSet(Bought(r))
    /\ \A r \in SubId : subs[r].expires # None => subs[r].expires <= PaidTime(r)
    /\ \A t \in Task : Activating(t) /\ task[t].row.expires # None
                           => task[t].row.expires <= PaidTime(task[t].sub)

\* With the above and FreshReads: payments have been granted by now, and what
\* they bought is there.
PaidInv ==
    /\ \A p \in Ref : grants[p] > 0 => grantedAt[p] \in Nat /\ grantedAt[p] <= now
    /\ PaidTimeIsKept

-----------------------------------------------------------------------------

\* Between the look for another live row and the ban, only a payment the job
\* did not see gives the user a live row with time left.
KeepInv ==
    /\ kick.seen \subseteq {p \in Ref : grants[p] > 0}
    /\ \A c \in kick.todo : c.seen \subseteq {p \in Ref : grants[p] > 0}
    /\ kick.pc \in {"check_member", "ban"} /\ kick.row.user \notin raced =>
          \A r \in LiveOf(kick.row.user) :
              subs[r].expires > now => Bought(r) \ kick.seen # {}

\* Only granted payments are confirmed, each by one handler, and a granted one
\* is confirmed, about to be, or known not to be.
ToldInv ==
    /\ PayersAreToldOnce
    /\ \A p \in told : grants[p] > 0
    /\ \A t \in Task : Confirming(t) => grants[task[t].ref] > 0
    /\ \A p \in Ref : grants[p] > 0 =>
          p \in told \cup untold \/ \E t \in Task : Confirming(t) /\ task[t].ref = p

-----------------------------------------------------------------------------

\* Row r is out of time, or has a payment that the job has not seen.
RunOut(r, seen) == subs[r].expires < now \/ Bought(r) \ seen # {}

\* With KeepInv: so are the rows the job has listed and not yet closed.
LapseInv ==
    /\ \A c \in kick.todo : RunOut(c.sub, c.seen)
    /\ kick.pc \in {"read", "write"} => RunOut(kick.sub, kick.seen)

-----------------------------------------------------------------------------

\* Unless the lookup failed, no administrator is about to be banned.
BanInv == kick.pc = "ban" => kick.row.user \notin Protected \/ kick.blind

=============================================================================
