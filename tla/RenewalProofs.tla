---------------------------- MODULE RenewalProofs ----------------------------
(***************************************************************************)
(* Renewals add up, paid time is neither lost nor given away, and the kick *)
(* job takes no one's place or row but by a race it cannot see: what       *)
(* follows from SerialInv for any number of payers, rows and handlers.     *)
(***************************************************************************)
EXTENDS SerialProofs, AccessProofs, FiniteSetTheorems

\* No row gets another expiry.
ExpiriesKept == \A r \in SubId : subs'[r].expires = subs[r].expires

\* An UPDATE without expires_at leaves the stored one alone.
LEMMA FlushKeepsExpiry ==
    ASSUME NEW stored \in Row, NEW read \in Row, NEW written \in Row,
           stored # NoRow, written.expires = read.expires
    PROVE  Flush(stored, read, written).expires = stored.expires
  BY DEF Flush, Row

\* Nobody but an activation writes an expiry.
LEMMA ExpiriesElsewhere ==
    ASSUME GrantInv, [Next]_vars, ~Deciding
    PROVE  ExpiriesKept
<1>1. /\ subs \in [SubId -> Row] /\ WarnShape /\ KickShape /\ warn \in WarnRecord
      /\ kick \in KickRecord
  BY DEF GrantInv, TypeOK, DatabaseTypeOK, JobShape, WarningsTypeOK, KickTypeOK
<1>2. ASSUME NEW own \in SubId, NEW new, subs' = [subs EXCEPT ![own] = new],
             new.expires = subs[own].expires
      PROVE  ExpiriesKept
  BY <1>1, <1>2 DEF ExpiriesKept
<1>3. ASSUME UNCHANGED subs PROVE ExpiriesKept
  BY <1>3 DEF ExpiriesKept
<1>4. ASSUME NEW t \in Task, SavePlaceholder(t) PROVE ExpiriesKept
  <2>1. PICK r \in FreeIds : subs' = [subs EXCEPT ![r] = PendingRow(task[t].user)]
    BY <1>4 DEF SavePlaceholder
  <2>2. r \in SubId /\ subs[r] = NoRow
    BY <2>1 DEF FreeIds
  <2>3. PendingRow(task[t].user).expires = subs[r].expires
    BY <2>2 DEF PendingRow, NoRow
  <2> QED
    BY <1>2, <2>1, <2>2, <2>3
<1>5. ASSUME MarkExpiring PROVE ExpiriesKept
  <2> DEFINE written == WithStatus(warn.row, "expiring")
             new == Flush(subs[warn.sub], warn.row, written)
  <2>1. /\ warn.sub \in SubId /\ warn.row \in Row /\ subs[warn.sub] \in Row
        /\ subs[warn.sub] # NoRow
    BY <1>1, <1>5 DEF MarkExpiring, WarnShape, WarnRecord, Opened, NoRow
  <2>2. written \in Row /\ written.expires = warn.row.expires
    BY <2>1 DEF WithStatus, Row, Status
  <2> HIDE DEF written
  <2>3. new.expires = subs[warn.sub].expires
    BY <2>1, <2>2, FlushKeepsExpiry
  <2>4. subs' = [subs EXCEPT ![warn.sub] = new]
    BY <1>5 DEF MarkExpiring, written
  <2> HIDE DEF new
  <2> QED
    BY <1>2, <2>1, <2>3, <2>4
<1>6. ASSUME RecordReminder PROVE ExpiriesKept
  <2>1. warn.sub \in SubId /\ subs' = [subs EXCEPT ![warn.sub].warned = warn.days]
    BY <1>1, <1>6 DEF RecordReminder, WarnShape
  <2> QED
    BY <1>1, <2>1 DEF ExpiriesKept, Row
<1>7. ASSUME WriteHop PROVE ExpiriesKept
  <2> DEFINE written == WithStatus(kick.row, kick.hop)
             new == Flush(subs[kick.sub], kick.row, written)
  <2>1. /\ kick.sub \in SubId /\ kick.row \in Row /\ subs[kick.sub] \in Row
        /\ subs[kick.sub] # NoRow /\ kick.hop \in {"expiring", "expired", "kicked"}
    BY <1>1, <1>7 DEF WriteHop, KickShape, KickRecord, Opened, NoRow
  <2>2. written \in Row /\ written.expires = kick.row.expires
    BY <2>1 DEF WithStatus, Row, Status
  <2> HIDE DEF written
  <2>3. new.expires = subs[kick.sub].expires
    BY <2>1, <2>2, FlushKeepsExpiry
  <2>4. subs' = [subs EXCEPT ![kick.sub] = new]
    BY <1>7 DEF WriteHop, written
  <2> HIDE DEF new
  <2> QED
    BY <1>2, <2>1, <2>3, <2>4
<1> QED
  BY <1>3, <1>4, <1>5, <1>6, <1>7, WritersElsewhere

\* As long as nobody chooses or commits, what was read stays fresh.
LEMMA FreshKept ==
    ASSUME GrantInv, FreshReads, ChoicesKept, ExpiriesKept, raced \subseteq raced'
    PROVE  FreshReads'
<1> SUFFICES ASSUME NEW t \in Task, Undecided(t)', task'[t].user \notin raced'
             PROVE  subs'[task'[t].sub].expires = task'[t].row.expires
  BY DEF FreshReads
<1>1. Activating(t)'
  BY DEF Undecided, Activating, At
<1>2. /\ Undecided(t) /\ task'[t].sub = task[t].sub /\ task'[t].row = task[t].row
      /\ task'[t].user = task[t].user
  BY <1>1 DEF ChoicesKept
<1>3. task[t].sub \in SubId
  BY <1>2 DEF GrantInv, HandlerOK, LocalsOK, Undecided, At
<1> QED
  BY <1>2, <1>3 DEF FreshReads, ExpiriesKept

\* Whoever chooses a row has just read it, or found its id free.
LEMMA ChoosingIsFresh ==
    ASSUME GrantInv, FreshReads, NEW t \in Task, NEW r, NEW row, NEW label,
           ChooseRow(t, r, row, label), UNCHANGED <<subs, payments>>,
           row.expires = subs[r].expires
    PROVE  FreshReads'
<1>1. /\ task[t] \in TaskRecord
      /\ task'[t] = [task[t] EXCEPT !.pc = label, !.sub = r, !.row = row]
      /\ \A o \in Task \ {t} : task'[o] = task[o]
  BY DEF GrantInv, TypeOK, ServiceTypeOK, ChooseRow
<1>2. task'[t].sub = r /\ task'[t].row = row
  BY <1>1 DEF TaskRecord
<1>3. raced \subseteq raced'
  BY DEF ChooseRow, NoteRace
<1> SUFFICES ASSUME NEW o \in Task, Undecided(o)', task'[o].user \notin raced'
             PROVE  subs'[task'[o].sub].expires = task'[o].row.expires
  BY DEF FreshReads
<1>4. CASE o = t
  BY <1>2, <1>4
<1>5. CASE o # t
  BY <1>1, <1>3, <1>5 DEF FreshReads, Undecided, At
<1> QED
  BY <1>4, <1>5

LEMMA FindingIsFresh ==
    ASSUME GrantInv, FreshReads, NEW t \in Task,
           FindOrCreateSubscription(t) \/ FindRenewable(t)
    PROVE  FreshReads'
<1>1. UNCHANGED <<subs, payments>>
  BY DEF FindOrCreateSubscription, FindRenewable, databaseVars
<1>2. CASE FindOrCreateSubscription(t)
  <2>1. ASSUME NEW r \in SubId, ChooseRow(t, r, subs[r], "insert_payment") PROVE FreshReads'
    BY <1>1, <2>1, ChoosingIsFresh
  <2>2. ASSUME NEW r \in FreeIds, ChooseRow(t, r, PendingRow(task[t].user), "insert_payment")
        PROVE  FreshReads'
    <3>1. PendingRow(task[t].user).expires = subs[r].expires
      BY <2>2 DEF FreeIds, PendingRow, NoRow
    <3> QED
      BY <1>1, <2>2, <3>1, ChoosingIsFresh
  <2> QED
    BY <1>2, <2>1, <2>2 DEF FindOrCreateSubscription
<1>3. CASE FindRenewable(t)
  <2>1. ASSUME NEW r \in SubId, ChooseRow(t, r, subs[r], "confirm_activate") PROVE FreshReads'
    BY <1>1, <2>1, ChoosingIsFresh
  <2>2. ASSUME ChooseRow(t, task[t].pending, task[t].row, "confirm_activate") PROVE FreshReads'
    <3>1. task[t].row = subs[task[t].pending]
      BY <1>3 DEF GrantInv, HandlerOK, Confirmation, FindRenewable, At, LockingLabels
    <3> QED
      BY <1>1, <2>2, <3>1, ChoosingIsFresh
  <2> QED
    BY <1>3, <2>1, <2>2 DEF FindRenewable
<1> QED
  BY <1>2, <1>3

\* A handler that has chosen a row someone commits to is of the same payer.
LEMMA ChosenRowIsOwn ==
    ASSUME GrantInv, NEW t \in Task, NEW o \in Task, o # t,
           task[t].pc \in {"activate", "confirm_activate"}, WriteActivation(t),
           Undecided(o), task[o].sub = task[t].sub
    PROVE  task[o].user = task[t].user
<1>1. PICK r \in SubId : r = task[t].sub /\ RowsKept /\ subs'[r].user = task[t].user
  BY ActivatesOwnRow
<1>2. /\ ChosenRow(o) /\ Confirmation(o) /\ LocalsOK(o) /\ subs \in [SubId -> Row]
      /\ task[o].user \in TelegramId
  BY DEF GrantInv, HandlerOK, TypeOK, DatabaseTypeOK, LocalsOK, Undecided, At, ServiceLabels,
      LockingLabels
<1>3. subs[r].user = task[o].user
  <2>1. CASE Opened(subs[r]) /\ subs[r].user = task[o].user
    BY <2>1
  <2>2. CASE task[o].sub = task[o].pending /\ task[o].pc = "confirm_activate"
    BY <1>1, <1>2, <2>2 DEF Confirmation, LockingLabels, PendingRow
  <2> QED
    BY <1>1, <1>2, <2>1, <2>2 DEF ChosenRow, Undecided, At
<1>4. task[o].user # None
  BY <1>2, DatabaseAssumption
<1>5. subs'[r].user = subs[r].user
  BY <1>1, <1>3, <1>4 DEF RowsKept, NoRow
<1> QED
  BY <1>1, <1>3, <1>5

\* A commit is the last of its payer's to have read the row.
LEMMA CommitIsFresh ==
    ASSUME GrantInv, ChosenAlone, FreshReads, NEW t \in Task,
           ActivateSubscription(t) \/ ConfirmManualPayment(t)
    PROVE  FreshReads'
<1>1. /\ task[t].pc \in {"activate", "confirm_activate"} /\ WriteActivation(t) /\ UNCHANGED raced
  BY DEF ActivateSubscription, ConfirmManualPayment, At
<1>2. subs \in [SubId -> Row] /\ payments \in [Ref -> SubId \cup {None}]
  BY DEF GrantInv, TypeOK, DatabaseTypeOK
<1> SUFFICES ASSUME NEW o \in Task, Undecided(o)', task'[o].user \notin raced'
             PROVE  subs'[task'[o].sub].expires = task'[o].row.expires
  BY DEF FreshReads
<1>3. o # t
  BY CommitAlone DEF Undecided, At
<1>4. task'[o] = task[o]
  BY <1>3, CommitAlone
<1>5. Undecided(o) /\ task[o].sub \in SubId
  <2>1. task[o].pc \in ServiceLabels \cup LockingLabels
    BY <1>4 DEF Undecided, At, ServiceLabels, LockingLabels
  <2>2. LocalsOK(o)
    BY DEF GrantInv, HandlerOK
  <2>3. task[o].ref \in Ref
    BY <2>1, <2>2 DEF LocalsOK, Ref
  <2>4. Undecided(o)
    BY <1>4, <2>3, CommitAlone DEF Undecided, At
  <2> QED
    BY <2>2, <2>4 DEF LocalsOK, Undecided, At
<1>6. task[o].sub # task[t].sub
  BY <1>1, <1>3, <1>4, <1>5, ChosenRowIsOwn, CommitAlone
<1>7. subs'[task[o].sub] = subs[task[o].sub]
  BY <1>1, <1>2, <1>5, <1>6 DEF WriteActivation
<1> QED
  BY <1>1, <1>4, <1>5, <1>7 DEF FreshReads

LEMMA FreshInit == Init => FreshReads
  BY DEF Init, ServiceInit, IdleTask, Starting, FreshReads, Undecided, At

LEMMA FreshStep == GrantInv /\ SerialInv /\ FreshReads /\ [Next]_vars => FreshReads'
<1> SUFFICES ASSUME GrantInv, SerialInv, FreshReads, [Next]_vars PROVE FreshReads'
  OBVIOUS
<1>1. ChosenAlone /\ HopStaysLive
  BY DEF SerialInv
<1>2. CASE ~Deciding
  BY <1>1, <1>2, ChoicesElsewhere, ExpiriesElsewhere, LiveKeptElsewhere, FreshKept
<1>3. ASSUME NEW t \in Task, CreatePayment(t) PROVE FreshReads'
  <2>1. ExpiriesKept /\ raced \subseteq raced'
    BY <1>3 DEF CreatePayment, databaseVars, ExpiriesKept
  <2> QED
    BY <1>3, <2>1, CreatePaymentChoices, FreshKept
<1>4. ASSUME NEW t \in Task, FindOrCreateSubscription(t) \/ FindRenewable(t) PROVE FreshReads'
  BY <1>4, FindingIsFresh
<1>5. ASSUME NEW t \in Task, ActivateSubscription(t) \/ ConfirmManualPayment(t) PROVE FreshReads'
  BY <1>1, <1>5, CommitIsFresh
<1> QED
  BY <1>2, <1>3, <1>4, <1>5 DEF Deciding

\* FreshReads is an invariant, for any number of payers, rows and handlers.
THEOREM FreshReadsHolds == Spec => []FreshReads
  BY FreshInit, FreshStep, GrantInvHolds, SerialInvHolds, PTL DEF Spec

-----------------------------------------------------------------------------

\* Only the last step of an activation takes a handler past its commit.
LEMMA Committing ==
    ASSUME GrantInv, [Next]_vars, NEW t \in Task, Commits(t)
    PROVE  ActivateSubscription(t) \/ ConfirmManualPayment(t)
<1>1. /\ task \in [Task -> TaskRecord]
      /\ task[t].pc \in {"activate", "confirm_activate"}
      /\ task'[t].pc \in {"create_link", "notify"}
  BY DEF GrantInv, TypeOK, ServiceTypeOK, Commits
<1>2. task'[t] # task[t]
  BY <1>1
<1>3. CASE WorldNext \/ WarningsNext \/ KickNextStep \/ UNCHANGED vars
  BY <1>2, <1>3 DEF WorldNext, AdvanceClock, JoinChannel, RegisterUser, CustomerActs, WarningsNext,
      WarningsStep, StartWarnings, WarnNext, ReadForExpiring, MarkExpiring, RefreshMarked,
      SendReminder, RecordReminder, KickNextStep, KickStep, StartAutoKick, KickNext, ReadHop,
      WriteHop, FindOtherLive, CheckMember, BanMember, UnbanMember, vars, serviceVars
<1>4. CASE (\E s \in Session, type \in EventType : WebhookNext(s, type)) \/ RequestNext
  BY <1>1, <1>2, <1>4 DEF WebhookNext, AcknowledgeEvent, BeginStripeActivation, BeginActivation,
      RequestNext, ReceiveScreenshot, PressConfirm, AdminActivate, AdminInvite, At, serviceVars
<1>5. ASSUME NEW o \in Task, HandlerNext(o), o # t
      PROVE  task'[t] = task[t]
  <2>1. CASE ActivationStep(o)
    BY <1>1, <1>5, <2>1 DEF ActivationStep, GetOrCreateUser, FindOrCreateSubscription, ChooseRow,
        CreatePayment, ActivateSubscription, LockPlaceholder, FindRenewable, ConfirmManualPayment,
        Goto, End
  <2>2. CASE AccessStep(o) \/ RespondOK(o) \/ ScreenshotStep(o) \/ InviteStep(o)
    BY <1>1, <1>5, <2>2 DEF AccessStep, CreateInviteLink, SendConfirmation, RespondOK,
        ScreenshotStep, SaveUser, SavePlaceholder, SavePayment, ForwardScreenshot, ThankSender,
        InviteStep, CreateFreshLink, SendFreshLink, Goto, End
  <2> QED
    BY <1>5, <2>1, <2>2 DEF HandlerNext
<1>6. CASE HandlerNext(t)
  BY <1>1, <1>6 DEF HandlerNext, ActivationStep, GetOrCreateUser, FindOrCreateSubscription,
      CreatePayment, LockPlaceholder, FindRenewable, AccessStep, CreateInviteLink,
      SendConfirmation, RespondOK, ScreenshotStep, SaveUser, SavePlaceholder, SavePayment,
      ForwardScreenshot, ThankSender, InviteStep, CreateFreshLink, SendFreshLink, At
<1>7. CASE FailureNext \/ Crash
  <2>1. ASSUME NEW o \in Task, TransactionFails(o) PROVE FALSE
    <3>1. task' = [task EXCEPT ![o] = IdleTask]
      BY <2>1 DEF TransactionFails, End
    <3> QED
      BY <1>1, <1>2, <3>1 DEF IdleTask, Starting
  <2>2. CASE Crash
    BY <1>1, <2>2 DEF Crash, IdleTask, Starting
  <2>3. CASE UNCHANGED task
    BY <1>2, <2>3
  <2> QED
    BY <1>7, <2>1, <2>2, <2>3 DEF FailureNext, WarningsFail, KickFails, OtherHandlerFails,
        serviceVars
<1> QED
  BY <1>2, <1>3, <1>4, <1>5, <1>6, <1>7 DEF Next, RunningNext

\* The last step of an activation, on any of its paths.
CommitsActivation(t) == ActivateSubscription(t) \/ ConfirmManualPayment(t)

\* Without a race, what an activation read is what it finds when it commits.
LEMMA CommitRenews ==
    ASSUME GrantInv, FreshReads, NEW t \in Task, CommitsActivation(t), task[t].user \notin raced
    PROVE  subs'[task[t].sub].expires = RenewedExpiresAt(now, subs[task[t].sub].expires)
<1> DEFINE read == task[t].row
           old == subs[task[t].sub]
           new == Flush(old, read, Activated(read))
<1>1. WriteActivation(t) /\ Undecided(t) /\ task[t].pc \in {"activate", "confirm_activate"}
  BY DEF CommitsActivation, ActivateSubscription, ConfirmManualPayment, Undecided, At
<1>2. read \in Row /\ task[t].sub \in SubId /\ old \in Row /\ subs \in [SubId -> Row]
  BY <1>1 DEF GrantInv, TypeOK, ServiceTypeOK, DatabaseTypeOK, HandlerOK, LocalsOK, TaskRecord
<1>3. old.expires = read.expires
  BY <1>1 DEF FreshReads
<1>4. Activated(read).expires = RenewedExpiresAt(now, old.expires)
  BY <1>2, <1>3 DEF Activated, Row
<1>5. new.expires = RenewedExpiresAt(now, old.expires)
  BY <1>2, <1>3, <1>4 DEF Flush, Row
<1> QED
  BY <1>1, <1>2, <1>5 DEF WriteActivation

\* Every renewal adds its days to what is in the database when it commits
\* (_compute_renewed_expires_at), as long as no two of them race on the row.
THEOREM RenewalsAddUp == Spec => SerialRenewalsAreAdditive
<1>1. ASSUME GrantInv, FreshReads, [Next]_vars, NEW t \in Task,
             Commits(t), task[t].user \notin raced
      PROVE  subs'[task[t].sub].expires = RenewedExpiresAt(now, subs[task[t].sub].expires)
  BY <1>1, Committing, CommitRenews DEF CommitsActivation
<1>2. GrantInv /\ FreshReads /\ [Next]_vars =>
        [\A t \in Task :
            Commits(t) /\ task[t].user \notin raced =>
               subs'[task[t].sub].expires
                   = RenewedExpiresAt(now, subs[task[t].sub].expires)]_vars
  BY <1>1
<1> QED
  BY <1>2, GrantInvHolds, FreshReadsHolds, PTL DEF Spec, SerialRenewalsAreAdditive

-----------------------------------------------------------------------------

\* Nobody is taken off the list of races.
LEMMA RacesStay == GrantInv /\ SerialInv /\ [Next]_vars => raced \subseteq raced'
<1> SUFFICES ASSUME GrantInv, SerialInv, [Next]_vars PROVE raced \subseteq raced'
  OBVIOUS
<1>1. SerialRenewalsKeepOneLiveRow /\ ChosenAlone /\ HopStaysLive
  BY DEF SerialInv
<1>2. ASSUME NEW t \in Task, CreatePayment(t) PROVE raced \subseteq raced'
  BY <1>2 DEF CreatePayment
<1>3. ASSUME NEW t \in Task, FindOrCreateSubscription(t) \/ FindRenewable(t)
      PROVE  raced \subseteq raced'
  BY <1>1, <1>3, FindingKeepsSerial
<1>4. ASSUME NEW t \in Task, ActivateSubscription(t) \/ ConfirmManualPayment(t)
      PROVE  raced \subseteq raced'
  BY <1>4 DEF ActivateSubscription, ConfirmManualPayment
<1> QED
  BY <1>1, <1>2, <1>3, <1>4, LiveKeptElsewhere DEF Deciding

-----------------------------------------------------------------------------
(* The time that payments buy.                                             *)

\* A payment is granted by a commit and by nothing else.
LEMMA GrantsElsewhere ==
    ASSUME [Next]_vars, ~\E t \in Task : CommitsActivation(t)
    PROVE  UNCHANGED <<grants, grantedAt>>
<1>1. CASE WorldNext \/ (\E s \in Session, type \in EventType : WebhookNext(s, type)) \/ RequestNext
  BY <1>1 DEF WorldNext, AdvanceClock, JoinChannel, RegisterUser, CustomerActs, WebhookNext,
      AcknowledgeEvent, BeginStripeActivation, RequestNext, ReceiveScreenshot, PressConfirm,
      AdminActivate, AdminInvite, serviceVars
<1>2. ASSUME NEW t \in Task, HandlerNext(t) PROVE UNCHANGED <<grants, grantedAt>>
  BY <1>2 DEF HandlerNext, ActivationStep, AccessStep, ScreenshotStep, InviteStep, CommitsActivation,
      GetOrCreateUser, FindOrCreateSubscription, CreatePayment, LockPlaceholder, FindRenewable,
      CreateInviteLink, SendConfirmation, RespondOK, SaveUser, SavePlaceholder, SavePayment,
      ForwardScreenshot, ThankSender, CreateFreshLink, SendFreshLink
<1>3. CASE WarningsNext \/ KickNextStep
  BY <1>3 DEF WarningsNext, WarningsStep, StartWarnings, WarnNext, ReadForExpiring, MarkExpiring,
      RefreshMarked, SendReminder, RecordReminder, KickNextStep, KickStep, StartAutoKick,
      KickNext, ReadHop, WriteHop, FindOtherLive, CheckMember, BanMember, UnbanMember, serviceVars
<1>4. CASE FailureNext \/ Crash \/ UNCHANGED vars
  BY <1>4 DEF FailureNext, Crash, TransactionFails, WarningsFail, KickFails, OtherHandlerFails,
      vars, serviceVars
<1> QED
  BY <1>1, <1>2, <1>3, <1>4 DEF Next, RunningNext

\* A screenshot on file has bought nothing yet.
LEMMA BoughtQuiet ==
    ASSUME GrantInv, Quiet \/ \E m \in Message, o \in SubId : Files(m, o)
    PROVE  \A r \in SubId : Bought(r)' = Bought(r)
<1>1. grants \in [Ref -> Nat] /\ payments \in [Ref -> SubId \cup {None}]
  BY DEF GrantInv, TypeOK, DatabaseTypeOK, ServiceTypeOK
<1>2. CASE Quiet
  BY <1>2 DEF Quiet, Bought
<1>3. ASSUME NEW m \in Message, NEW o \in SubId, Files(m, o)
      PROVE  \A r \in SubId : Bought(r)' = Bought(r)
  <2>1. grants[m] = 0 /\ grants' = grants
    BY <1>3 DEF Files, GrantInv, Ledger
  <2>2. \A p \in Ref : p # m => payments'[p] = payments[p]
    BY <1>1, <1>3 DEF Files
  <2> QED
    BY <1>1, <2>1, <2>2 DEF Bought
<1> QED
  BY <1>2, <1>3

\* So what is bought changes with a commit only.
LEMMA BoughtElsewhere ==
    ASSUME GrantInv, PayerInv, [Next]_vars, ~\E t \in Task : CommitsActivation(t)
    PROVE  \A r \in SubId : Bought(r)' = Bought(r)
<1>1. UNCHANGED grants /\ grants \in [Ref -> Nat]
  BY GrantsElsewhere DEF GrantInv, TypeOK, ServiceTypeOK
<1>2. ASSUME NEW p \in Ref, NEW r \in SubId, Buys(p, r) PROVE FALSE
  BY <1>1, <1>2 DEF Buys
<1> QED
  BY <1>2, StepEffects, BoughtQuiet

\* A commit adds its payment to what the row was bought with.
LEMMA BuyingAdds ==
    ASSUME GrantInv, NEW p \in Ref, NEW r \in SubId, Buys(p, r)
    PROVE  /\ p \notin Bought(r) /\ Bought(r)' = Bought(r) \cup {p}
           /\ \A other \in SubId \ {r} : Bought(other)' = Bought(other)
<1>1. /\ grants \in [Ref -> Nat] /\ payments \in [Ref -> SubId \cup {None}]
      /\ grants[p] = 0 /\ grants'[p] = 1 /\ payments'[p] = r
      /\ \A q \in Ref : q # p => payments'[q] = payments[q] /\ grants'[q] = grants[q]
  BY DEF GrantInv, TypeOK, DatabaseTypeOK, ServiceTypeOK, Buys
<1> QED
  BY <1>1 DEF Bought

\* One period more.
LEMMA OnePeriodMore ==
    ASSUME NEW count \in Nat
    PROVE  /\ Period \in Nat /\ count * Period \in Nat
           /\ (count + 1) * Period = count * Period + Period
<1>1. Period \in Nat
  BY DaysAssumption DEF Period
<1> QED
  BY <1>1

\* What is paid for never gets less, and a commit adds a period to it.
LEMMA PaidTimeGrows ==
    ASSUME GrantInv, PayerInv, TimeInv, [Next]_vars, NEW r \in SubId
    PROVE  /\ IsFiniteSet(Bought(r)') /\ PaidTime(r) \in Nat /\ PaidTime(r)' \in Nat
           /\ PaidTime(r) <= PaidTime(r)'
<1> DEFINE count == Cardinality(Bought(r))
<1>1. IsFiniteSet(Bought(r)) /\ count \in Nat
  BY FS_CardinalityType DEF TimeInv
<1>2. now \in Nat /\ now' \in Nat /\ now <= now'
  BY ClockMoves DEF GrantInv, TypeOK, EnvironmentTypeOK, vars, environmentVars
<1>3. IsFiniteSet(Bought(r)') /\ count' \in {count, count + 1}
  <2>1. CASE Bought(r)' = Bought(r)
    BY <1>1, <2>1
  <2>2. ASSUME NEW p, p \notin Bought(r), Bought(r)' = Bought(r) \cup {p}
        PROVE  IsFiniteSet(Bought(r)') /\ count' = count + 1
    BY <1>1, <2>2, FS_AddElement
  <2>3. Bought(r)' = Bought(r) \/ \E p \in Ref : p \notin Bought(r) /\ Bought(r)' = Bought(r) \cup {p}
    <3>1. CASE Quiet \/ \E m \in Message, o \in SubId : Files(m, o)
      BY <3>1, BoughtQuiet
    <3>2. ASSUME NEW p \in Ref, NEW o \in SubId, Buys(p, o)
          PROVE  Bought(r)' = Bought(r) \/ (p \notin Bought(r) /\ Bought(r)' = Bought(r) \cup {p})
      BY <3>2, BuyingAdds
    <3> QED
      BY <3>1, <3>2, StepEffects
  <2> QED
    BY <2>1, <2>2, <2>3
<1>4. /\ Period \in Nat /\ count * Period \in Nat
      /\ (count + 1) * Period = count * Period + Period
  BY <1>1, OnePeriodMore
<1>5. count * Period <= count' * Period
  BY <1>3, <1>4
<1>6. count' * Period \in Nat
  BY <1>3, <1>4
<1> QED
  BY <1>2, <1>3, <1>4, <1>5, <1>6 DEF PaidTime

\* The commit of an activation buys its row a period.
LEMMA CommitBuys ==
    ASSUME GrantInv, PayerInv, NEW t \in Task, CommitsActivation(t)
    PROVE  /\ task[t].ref \in Ref /\ task[t].sub \in SubId
           /\ Buys(task[t].ref, task[t].sub)
  BY ActivateSubscriptionBuys, ConfirmManualPaymentBuys DEF CommitsActivation

LEMMA CommitAddsPeriod ==
    ASSUME GrantInv, PayerInv, TimeInv, NEW t \in Task, CommitsActivation(t),
           NEW r \in SubId, r = task[t].sub
    PROVE  /\ UNCHANGED now /\ now \in Nat /\ Period \in Nat
           /\ PaidTime(r) \in Nat /\ now <= PaidTime(r)
           /\ PaidTime(r)' = PaidTime(r) + Period
<1> DEFINE count == Cardinality(Bought(r))
<1>1. /\ now \in Nat /\ UNCHANGED now
  BY DEF GrantInv, TypeOK, EnvironmentTypeOK, CommitsActivation, ActivateSubscription,
      ConfirmManualPayment, environmentVars
<1>2. PICK p \in Ref : p = task[t].ref /\ Buys(p, r)
  BY CommitBuys
<1>3. IsFiniteSet(Bought(r)) /\ count \in Nat
  BY FS_CardinalityType DEF TimeInv
<1>4. p \notin Bought(r) /\ Bought(r)' = Bought(r) \cup {p}
  BY <1>2, BuyingAdds
<1>5. count' = count + 1
  BY <1>3, <1>4, FS_AddElement
<1>6. /\ Period \in Nat /\ count * Period \in Nat
      /\ (count + 1) * Period = count * Period + Period
  BY <1>3, OnePeriodMore
<1>7. PaidTime(r) = now + count * Period /\ PaidTime(r)' = now' + count' * Period
  BY DEF PaidTime, Period
<1> QED
  BY <1>1, <1>5, <1>6, <1>7

\* An activation writes what the row had left, or now, and a period.
LEMMA CommitWrites ==
    ASSUME GrantInv, NEW t \in Task, CommitsActivation(t),
           NEW r \in SubId, r = task[t].sub
    PROVE  /\ task[t].row \in Row /\ subs[r] \in Row
           /\ \A other \in SubId \ {r} : subs'[other] = subs[other]
           /\ subs'[r].expires \in {subs[r].expires, RenewedExpiresAt(now, task[t].row.expires)}
<1> DEFINE read == task[t].row
           new == Flush(subs[r], read, Activated(read))
<1>1. /\ read \in Row /\ subs \in [SubId -> Row] /\ WriteActivation(t)
  BY DEF GrantInv, TypeOK, ServiceTypeOK, DatabaseTypeOK, TaskRecord, CommitsActivation,
      ActivateSubscription, ConfirmManualPayment
<1>2. subs' = [subs EXCEPT ![r] = new]
  BY <1>1 DEF WriteActivation
<1>3. Activated(read).expires = RenewedExpiresAt(now, read.expires)
  BY <1>1 DEF Activated, Row
<1>4. new.expires \in {subs[r].expires, RenewedExpiresAt(now, read.expires)}
  BY <1>1, <1>3 DEF Flush, Row
<1> HIDE DEF new
<1> QED
  BY <1>1, <1>2, <1>4

\* Nothing but such a commit writes an expiry.
LEMMA ExpiriesStay ==
    ASSUME GrantInv, [Next]_vars, ~\E t \in Task : CommitsActivation(t)
    PROVE  ExpiriesKept
<1>1. CASE Deciding
  <2>1. UNCHANGED subs
    BY <1>1 DEF Deciding, CommitsActivation, FindOrCreateSubscription, FindRenewable,
        CreatePayment, databaseVars
  <2> QED
    BY <2>1 DEF ExpiriesKept
<1> QED
  BY <1>1, ExpiriesElsewhere

\* A row keeps the time it has, and gets no more than it was bought.
LEMMA RowsStayPaidFor ==
    ASSUME GrantInv, PayerInv, TimeInv, [Next]_vars,
           NEW r \in SubId, subs'[r].expires # None
    PROVE  subs'[r].expires <= PaidTime(r)'
<1>1. /\ PaidTime(r) \in Nat /\ PaidTime(r)' \in Nat /\ PaidTime(r) <= PaidTime(r)'
      /\ subs \in [SubId -> Row]
  BY PaidTimeGrows DEF GrantInv, TypeOK, DatabaseTypeOK
<1>2. CASE subs'[r].expires = subs[r].expires
  BY <1>1, <1>2 DEF TimeInv, Row
<1>3. ASSUME NEW t \in Task, CommitsActivation(t), r = task[t].sub,
             subs'[r].expires = RenewedExpiresAt(now, task[t].row.expires)
      PROVE  subs'[r].expires <= PaidTime(r)'
  <2> DEFINE read == task[t].row.expires
  <2>1. /\ now \in Nat /\ Period \in Nat /\ now <= PaidTime(r)
        /\ PaidTime(r)' = PaidTime(r) + Period
    BY <1>3, CommitAddsPeriod
  <2>2. read \in Nat \cup {None}
    BY <1>3, CommitWrites DEF Row
  <2>3. read # None => read <= PaidTime(r)
    BY <1>3 DEF TimeInv, Activating, CommitsActivation, ActivateSubscription,
        ConfirmManualPayment, At
  <2>4. RenewedExpiresAt(now, read) = (IF read = None \/ read <= now THEN now ELSE read) + Period
    BY DEF RenewedExpiresAt, Period
  <2> QED
    BY <1>1, <1>3, <2>1, <2>2, <2>3, <2>4
<1>4. CASE \E t \in Task : CommitsActivation(t)
  <2>1. PICK t \in Task : CommitsActivation(t)
    BY <1>4
  <2>2. PICK own \in SubId : own = task[t].sub
    BY <2>1, CommitBuys
  <2> QED
    BY <1>2, <1>3, <2>1, <2>2, CommitWrites
<1>5. CASE ~\E t \in Task : CommitsActivation(t)
  BY <1>2, <1>5, ExpiriesStay DEF ExpiriesKept
<1> QED
  BY <1>4, <1>5

\* Nor has a handler read more of the row it is about to activate.
LEMMA ReadsStayPaidFor ==
    ASSUME GrantInv, PayerInv, SerialInv, TimeInv, [Next]_vars,
           NEW t \in Task, Activating(t)', task'[t].row.expires # None
    PROVE  task'[t].row.expires <= PaidTime(task[t].sub)'
<1>1. ChosenAlone /\ \A o \in Task : LocalsOK(o) /\ Confirmation(o) /\ task[o] \in TaskRecord
  BY DEF SerialInv, GrantInv, HandlerOK, TypeOK, ServiceTypeOK
<1>2. ASSUME Activating(t), task'[t].sub = task[t].sub, task'[t].row = task[t].row
      PROVE  task'[t].row.expires <= PaidTime(task[t].sub)'
  <2>1. PICK r \in SubId : r = task[t].sub
    BY <1>1, <1>2 DEF LocalsOK, Activating
  <2>2. task[t].row.expires <= PaidTime(r) /\ task[t].row.expires \in Nat
    BY <1>1, <1>2, <2>1 DEF TimeInv, TaskRecord, Row
  <2>3. PaidTime(r) \in Nat /\ PaidTime(r)' \in Nat /\ PaidTime(r) <= PaidTime(r)'
    BY PaidTimeGrows
  <2>4. PaidTime(task[t].sub)' = PaidTime(r)'
    BY <1>2, <2>1
  <2> QED
    BY <1>2, <2>2, <2>3, <2>4
<1>3. CASE ~Deciding
  BY <1>2, <1>3, ChoicesElsewhere DEF ChoicesKept
<1>4. ASSUME NEW o \in Task, CreatePayment(o)
      PROVE  task'[t].row.expires <= PaidTime(task[t].sub)'
  BY <1>2, <1>4, CreatePaymentChoices DEF ChoicesKept
<1>5. ASSUME NEW o \in Task, FindOrCreateSubscription(o) \/ FindRenewable(o)
      PROVE  task'[t].row.expires <= PaidTime(task[t].sub)'
  <2>1. ASSUME NEW r \in SubId, NEW row, NEW label, ChooseRow(o, r, row, label),
               row = subs[r] \/ row.expires = None
        PROVE  task'[t].row.expires <= PaidTime(task[t].sub)'
    <3>1. /\ task[o] \in TaskRecord
          /\ task'[o] = [task[o] EXCEPT !.pc = label, !.sub = r, !.row = row]
          /\ \A q \in Task \ {o} : task'[q] = task[q]
      BY <2>1 DEF GrantInv, TypeOK, ServiceTypeOK, ChooseRow
    <3>2. CASE t = o
      <4>1. task'[t].sub = r /\ task'[t].row = row
        BY <3>1, <3>2 DEF TaskRecord
      <4>2. row = subs[r] /\ subs' = subs
        BY <1>5, <2>1, <4>1 DEF FindOrCreateSubscription, FindRenewable, databaseVars
      <4>3. subs'[r].expires # None => subs'[r].expires <= PaidTime(r)'
        BY RowsStayPaidFor
      <4>4. PaidTime(task[t].sub)' = PaidTime(r)'
        BY <4>1
      <4> QED
        BY <4>1, <4>2, <4>3, <4>4
    <3>3. CASE t # o
      <4>1. task'[t] = task[t]
        BY <3>1, <3>3
      <4> QED
        BY <1>2, <4>1 DEF Activating
    <3> QED
      BY <3>2, <3>3
  <2>2. CASE FindOrCreateSubscription(o)
    <3>1. ASSUME NEW r \in SubId, ChooseRow(o, r, subs[r], "insert_payment")
          PROVE  task'[t].row.expires <= PaidTime(task[t].sub)'
      BY <2>1, <3>1
    <3>2. ASSUME NEW r \in FreeIds, ChooseRow(o, r, PendingRow(task[o].user), "insert_payment")
          PROVE  task'[t].row.expires <= PaidTime(task[t].sub)'
      <4> DEFINE row == PendingRow(task[o].user)
      <4>1. row.expires = None /\ r \in SubId
        BY DEF PendingRow, FreeIds
      <4>2. ChooseRow(o, r, row, "insert_payment")
        BY <3>2
      <4> HIDE DEF row
      <4> QED
        BY <2>1, <4>1, <4>2
    <3> QED
      BY <2>2, <3>1, <3>2 DEF FindOrCreateSubscription
  <2>3. CASE FindRenewable(o)
    <3>1. task[o].pc = "find_renewable" /\ LocalsOK(o) /\ Confirmation(o)
      BY <1>1, <2>3 DEF FindRenewable, At
    <3>2. task[o].row.expires = None /\ task[o].pending \in SubId
      BY <3>1 DEF Confirmation, LockingLabels, PendingRow, LocalsOK
    <3>3. ASSUME NEW r \in SubId, ChooseRow(o, r, subs[r], "confirm_activate")
          PROVE  task'[t].row.expires <= PaidTime(task[t].sub)'
      BY <2>1, <3>3
    <3>4. ASSUME ChooseRow(o, task[o].pending, task[o].row, "confirm_activate")
          PROVE  task'[t].row.expires <= PaidTime(task[t].sub)'
      BY <2>1, <3>2, <3>4
    <3> QED
      BY <2>3, <3>3, <3>4 DEF FindRenewable
  <2> QED
    BY <1>5, <2>2, <2>3
<1>6. ASSUME NEW o \in Task, CommitsActivation(o)
      PROVE  task'[t].row.expires <= PaidTime(task[t].sub)'
  <2>1. /\ \A q \in Task \ {o} : task'[q] = task[q]
        /\ task'[o].pc \in {"create_link", "notify"}
    BY <1>1, <1>6, CommitAlone DEF CommitsActivation
  <2>2. t # o
    BY <2>1 DEF Activating
  <2>3. task'[t] = task[t]
    BY <2>1, <2>2
  <2> QED
    BY <1>2, <2>3 DEF Activating
<1> QED
  BY <1>3, <1>4, <1>5, <1>6 DEF Deciding, CommitsActivation

LEMMA TimeInvInit == Init => TimeInv
<1> SUFFICES ASSUME Init PROVE TimeInv
  OBVIOUS
<1>1. \A r \in SubId : Bought(r) = {}
  BY DatabaseAssumption DEF Init, DatabaseInit, ServiceInit, Bought
<1>2. \A r \in SubId : IsFiniteSet(Bought(r))
  BY <1>1, FS_EmptySet
<1>3. \A r \in SubId : subs[r].expires = None
  BY DEF Init, DatabaseInit, NoRow
<1>4. \A t \in Task : ~Activating(t)
  BY DEF Init, ServiceInit, IdleTask, Starting, Activating
<1> QED
  BY <1>2, <1>3, <1>4 DEF TimeInv

LEMMA TimeInvStep == GrantInv /\ PayerInv /\ SerialInv /\ TimeInv /\ [Next]_vars => TimeInv'
<1> SUFFICES ASSUME GrantInv, PayerInv, SerialInv, TimeInv, [Next]_vars PROVE TimeInv'
  OBVIOUS
<1>1. \A r \in SubId : IsFiniteSet(Bought(r))'
  BY PaidTimeGrows
<1>2. \A r \in SubId : subs'[r].expires # None => subs'[r].expires <= PaidTime(r)'
  BY RowsStayPaidFor
<1>3. \A t \in Task : Activating(t)' /\ task'[t].row.expires # None
                         => task'[t].row.expires <= PaidTime(task[t].sub)'
  BY ReadsStayPaidFor
<1> QED
  BY <1>1, <1>2, <1>3 DEF TimeInv

\* TimeInv is an invariant, for any number of payers, payments, rows and
\* handlers, and however long a period is.
THEOREM TimeInvHolds == Spec => []TimeInv
  BY TimeInvInit, TimeInvStep, GrantInvHolds, PayerInvHolds, SerialInvHolds, PTL DEF Spec

\* Nobody is given more than they paid for (_compute_renewed_expires_at):
\* whatever is delivered twice, overlaps or was read before it changed, a row
\* runs at most one period per payment on it from now.
THEOREM NoTimeForFree == Spec => []TimeIsPaidFor
<1>1. TimeInv => TimeIsPaidFor
  BY DEF TimeInv, TimeIsPaidFor, PaidTime
<1> QED
  BY <1>1, TimeInvHolds, PTL

\* A row that was bought has been opened.
LEMMA BoughtRow ==
    ASSUME GrantInv, NEW r \in SubId, Bought(r) # {}
    PROVE  subs[r] # NoRow /\ subs[r].expires \in Nat
<1>1. PICK p \in Ref : payments[p] = r /\ grants[p] > 0
  BY DEF Bought
<1>2. Opened(subs[r])
  BY <1>1, DatabaseAssumption DEF GrantInv, Ledger
<1> QED
  BY <1>2 DEF GrantInv, RowsOK, RowOK, Opened, NoRow

\* A commit grants its payment now.
LEMMA CommitIsDated ==
    ASSUME GrantInv, PayerInv, NEW t \in Task, CommitsActivation(t)
    PROVE  /\ task[t].ref \in Ref /\ UNCHANGED <<now, raced>>
           /\ grantedAt' = [grantedAt EXCEPT ![task[t].ref] = now]
           /\ grantedAt \in [Ref -> Nat \cup {None}]
  BY CommitBuys DEF GrantInv, TypeOK, ServiceTypeOK, CommitsActivation, ActivateSubscription,
      ConfirmManualPayment, WriteActivation, environmentVars

\* Payments are granted at the clock's time, which only passes.
LEMMA GrantedByNow ==
    ASSUME GrantInv, PayerInv, PaidInv, [Next]_vars, NEW p \in Ref, grants'[p] > 0
    PROVE  grantedAt'[p] \in Nat /\ grantedAt'[p] <= now'
<1>1. now \in Nat /\ now' \in Nat /\ now <= now'
  BY ClockMoves DEF GrantInv, TypeOK, EnvironmentTypeOK, vars, environmentVars
<1>2. CASE UNCHANGED <<grants, grantedAt>>
  BY <1>1, <1>2 DEF PaidInv
<1>3. ASSUME NEW t \in Task, CommitsActivation(t)
      PROVE  grantedAt'[p] \in Nat /\ grantedAt'[p] <= now'
  <2>1. CASE p = task[t].ref
    BY <1>1, <1>3, <2>1, CommitIsDated
  <2>2. CASE p # task[t].ref
    <3>1. grants'[p] = grants[p] /\ grantedAt'[p] = grantedAt[p]
      BY <1>3, <2>2, CommitBuys, CommitIsDated DEF Buys, GrantInv, TypeOK, ServiceTypeOK
    <3> QED
      BY <1>1, <3>1 DEF PaidInv
  <2> QED
    BY <2>1, <2>2
<1> QED
  BY <1>2, <1>3, GrantsElsewhere

\* A renewal keeps what the others bought, and adds its own.
LEMMA CommitKeepsPaidTime ==
    ASSUME GrantInv, PayerInv, SerialInv, FreshReads, TimeInv, PaidInv,
           NEW t \in Task, CommitsActivation(t), NEW r \in SubId, r = task[t].sub,
           subs'[r].user \notin raced,
           NEW p \in Bought(r)'
    PROVE  subs'[r].expires >= grantedAt'[p] + Cardinality(BoughtSince(p, r)') * Period
<1> DEFINE old == subs[r].expires
           latest == {q \in Bought(r) : grantedAt[q] >= now}
<1>1. /\ task[t].pc \in {"activate", "confirm_activate"} /\ WriteActivation(t)
      /\ old \in Nat \cup {None} /\ now \in Nat
  BY DEF CommitsActivation, ActivateSubscription, ConfirmManualPayment, At, GrantInv, TypeOK,
      DatabaseTypeOK, EnvironmentTypeOK, Row
<1>2. RowsKept /\ subs'[r].user = task[t].user
  BY <1>1, ActivatesOwnRow
<1>3. subs'[r].expires = (IF old = None \/ old <= now THEN now ELSE old) + Period
  BY <1>2, CommitRenews DEF RenewedExpiresAt, Period
<1>4. PICK paid \in Ref : paid = task[t].ref /\ paid \notin Bought(r) /\ Bought(r)' = Bought(r) \cup {paid}
  BY CommitBuys, BuyingAdds
<1>5. /\ grantedAt'[paid] = now
      /\ \A q \in Bought(r) : grantedAt'[q] = grantedAt[q] /\ grantedAt[q] \in Nat /\ grantedAt[q] <= now
  BY <1>4, CommitIsDated DEF Bought, PaidInv
<1>6. IsFiniteSet(Bought(r)) /\ Period \in Nat
  BY DaysAssumption DEF TimeInv, Period
<1>7. ASSUME NEW q \in Bought(r)
      PROVE  /\ old \in Nat /\ IsFiniteSet(BoughtSince(q, r))
             /\ Cardinality(BoughtSince(q, r)) \in Nat
             /\ old >= grantedAt[q] + Cardinality(BoughtSince(q, r)) * Period
  <2>1. subs[r] # NoRow /\ old \in Nat
    BY <1>7, BoughtRow
  <2>2. subs[r].user \notin raced
    BY <1>2, <2>1 DEF RowsKept
  <2>3. IsFiniteSet(BoughtSince(q, r))
    BY <1>6, FS_Subset DEF BoughtSince
  <2> QED
    BY <2>1, <2>2, <2>3, FS_CardinalityType DEF PaidInv, PaidTimeIsKept
<1>8. CASE p \in Bought(r)
  <2> DEFINE since == BoughtSince(p, r)
             count == Cardinality(since)
  <2>1. BoughtSince(p, r)' = since \cup {paid} /\ paid \notin since
    BY <1>4, <1>5, <1>8 DEF BoughtSince
  <2>2. Cardinality(BoughtSince(p, r)') = count + 1
    BY <1>7, <1>8, <2>1, FS_AddElement
  <2>3. count \in Nat /\ count * Period \in Nat /\ (count + 1) * Period = count * Period + Period
    BY <1>7, <1>8, OnePeriodMore
  <2>4. old \in Nat /\ grantedAt[p] \in Nat /\ old >= grantedAt[p] + count * Period
    BY <1>5, <1>7, <1>8
  <2>5. subs'[r].expires >= old + Period
    BY <1>1, <1>3, <1>6, <2>4, NoneAssumption
  <2>6. subs'[r].expires \in Nat
    BY <1>1, <1>3, <1>6
  <2>7. grantedAt'[p] = grantedAt[p]
    BY <1>5, <1>8
  <2> HIDE DEF count, since
  <2> QED
    BY <1>6, <2>2, <2>3, <2>4, <2>5, <2>6, <2>7
<1>9. CASE p = paid
  <2> DEFINE count == Cardinality(latest)
  <2>1. BoughtSince(p, r)' = latest \cup {paid} /\ paid \notin latest
    BY <1>1, <1>4, <1>5, <1>9 DEF BoughtSince
  <2>2. IsFiniteSet(latest) /\ count \in Nat
    BY <1>6, FS_Subset, FS_CardinalityType
  <2>3. Cardinality(BoughtSince(p, r)') = count + 1
    BY <2>1, <2>2, FS_AddElement
  <2>4. count * Period \in Nat /\ (count + 1) * Period = count * Period + Period
    BY <2>2, OnePeriodMore
  <2>5. CASE latest = {}
    <3>1. count = 0
      BY <2>5, FS_EmptySet
    <3>2. count * Period = 0
      BY <2>4, <3>1, <1>6
    <3> HIDE DEF count
    <3> QED
      BY <1>1, <1>3, <1>5, <1>6, <1>9, <2>3, <2>4, <3>2
  <2>6. ASSUME NEW q \in latest
        PROVE  old \in Nat /\ old >= now + count * Period
    <3>1. q \in Bought(r) /\ grantedAt[q] = now
      BY <1>1, <1>5
    <3>2. BoughtSince(q, r) = latest
      BY <3>1 DEF BoughtSince
    <3> QED
      BY <1>7, <3>1, <3>2
  <2>7. CASE latest # {}
    <3>1. old \in Nat /\ old >= now + count * Period
      BY <2>6, <2>7
    <3>2. subs'[r].expires >= old + Period /\ subs'[r].expires \in Nat
      BY <1>1, <1>3, <1>6, <3>1, NoneAssumption
    <3>3. grantedAt'[p] = now
      BY <1>5, <1>9
    <3> HIDE DEF count
    <3> QED
      BY <1>1, <1>6, <2>3, <2>4, <3>1, <3>2, <3>3
  <2> QED
    BY <2>5, <2>7
<1> QED
  BY <1>4, <1>8, <1>9

LEMMA PaidTimeIsKeptStep ==
    GrantInv /\ PayerInv /\ SerialInv /\ FreshReads /\ TimeInv /\ PaidInv /\ [Next]_vars
        => PaidTimeIsKept'
<1> SUFFICES ASSUME GrantInv, PayerInv, SerialInv, FreshReads, TimeInv, PaidInv,
                    [Next]_vars,
                    NEW r \in SubId, subs'[r].user \notin raced', NEW p \in Bought(r)'
             PROVE  subs'[r].expires >= grantedAt'[p] + Cardinality(BoughtSince(p, r)') * Period
  BY DEF PaidTimeIsKept, Period
<1>1. RowsKept /\ raced \subseteq raced'
  BY StepEffects, RacesStay
<1>2. ASSUME subs'[r].expires = subs[r].expires, Bought(r)' = Bought(r),
             \A q \in Bought(r) : grantedAt'[q] = grantedAt[q]
      PROVE  subs'[r].expires >= grantedAt'[p] + Cardinality(BoughtSince(p, r)') * Period
  <2>1. subs[r].user = subs'[r].user
    BY <1>1, <1>2, BoughtRow DEF RowsKept
  <2>2. BoughtSince(p, r)' = BoughtSince(p, r) /\ grantedAt'[p] = grantedAt[p]
    BY <1>2 DEF BoughtSince
  <2> QED
    BY <1>1, <1>2, <2>1, <2>2 DEF PaidInv, PaidTimeIsKept
<1>3. CASE ~\E t \in Task : CommitsActivation(t)
  BY <1>2, <1>3, ExpiriesStay, BoughtElsewhere, GrantsElsewhere DEF ExpiriesKept
<1>4. ASSUME NEW t \in Task, CommitsActivation(t)
      PROVE  subs'[r].expires >= grantedAt'[p] + Cardinality(BoughtSince(p, r)') * Period
  <2>1. PICK own \in SubId : own = task[t].sub /\ Buys(task[t].ref, own) /\ task[t].ref \in Ref
    BY <1>4, CommitBuys
  <2>2. CASE r = own
    BY <1>1, <1>4, <2>1, <2>2, CommitKeepsPaidTime
  <2>3. CASE r # own
    <3>1. subs'[r] = subs[r] /\ Bought(r)' = Bought(r)
      BY <2>1, <2>3, BuyingAdds DEF Buys
    <3>2. task[t].ref \notin Bought(r)
      BY <2>1 DEF Buys, Bought
    <3> QED
      BY <1>2, <1>4, <3>1, <3>2, CommitIsDated DEF Bought
  <2> QED
    BY <2>2, <2>3
<1> QED
  BY <1>3, <1>4

\* No payment's time is lost (_activate, repoint_subscription): as long as no
\* two activations of a payer raced, a row has left, laid end to end from the
\* moment a payment was granted, the periods of that payment and of each one
\* granted since, whichever path each came by.
THEOREM NoTimeLost == Spec => []PaidTimeIsKept
<1>1. Init => PaidInv
  BY DatabaseAssumption DEF Init, DatabaseInit, ServiceInit, PaidInv, PaidTimeIsKept, Bought
<1>2. GrantInv /\ PayerInv /\ SerialInv /\ FreshReads /\ TimeInv /\ PaidInv /\ [Next]_vars
        => PaidInv'
  BY PaidTimeIsKeptStep, GrantedByNow DEF PaidInv
<1>3. PaidInv => PaidTimeIsKept
  BY DEF PaidInv
<1> QED
  BY <1>1, <1>2, <1>3, GrantInvHolds, PayerInvHolds, SerialInvHolds, FreshReadsHolds,
     TimeInvHolds, PTL DEF Spec

-----------------------------------------------------------------------------
(* Who keeps their place in the channel.                                   *)

\* The payments the job has noted have been granted, and stay so.
LEMMA NotedStaysGranted ==
    ASSUME GrantInv, PayerInv, KeepInv, [Next]_vars
    PROVE  /\ kick'.seen \subseteq {p \in Ref : grants'[p] > 0}
           /\ \A c \in kick'.todo : c.seen \subseteq {p \in Ref : grants'[p] > 0}
<1> DEFINE Granted == {p \in Ref : grants[p] > 0}
<1>1. Granted \subseteq {p \in Ref : grants'[p] > 0}
  BY GrantedKept
<1>2. kick \in KickRecord /\ kick.seen \subseteq Granted /\ \A c \in kick.todo : c.seen \subseteq Granted
  BY DEF GrantInv, TypeOK, KickTypeOK, KeepInv
<1>3. ASSUME NEW todo, kick' = KickReady(todo), \A c \in todo : c.seen \subseteq Granted
      PROVE  kick'.seen \subseteq Granted /\ \A c \in kick'.todo : c.seen \subseteq Granted
  BY <1>3 DEF KickReady
<1>4. kick'.seen \subseteq Granted /\ \A c \in kick'.todo : c.seen \subseteq Granted
  <2>1. CASE UNCHANGED kick
    BY <1>2, <2>1
  <2>2. CASE kick' = KickReady({}) \/ kick' = KickReady(kick.todo)
    BY <1>2, <1>3, <2>2
  <2>3. CASE StartAutoKick
    BY <1>3, <2>3 DEF StartAutoKick
  <2>4. CASE KickNext
    BY <1>2, <2>4 DEF KickNext
  <2>5. CASE FindOtherLive
    BY <1>2, <2>2, <2>5 DEF FindOtherLive, LookedUp, KickRecord
  <2>6. CASE ReadHop
    BY <1>2, <2>2, <2>6 DEF ReadHop, KickRecord
  <2>7. CASE WriteHop
    BY <1>2, <2>7 DEF WriteHop, KickRecord
  <2>8. CASE CheckMember \/ BanMember \/ UnbanMember
    BY <1>2, <2>2, <2>8 DEF CheckMember, BanMember, UnbanMember, KickRecord
  <2> QED
    BY <2>1, <2>2, <2>3, <2>4, <2>5, <2>6, <2>7, <2>8, KickMovers DEF KickStep
<1> HIDE DEF Granted
<1> QED
  BY <1>1, <1>4

\* While the job waits for Telegram, a row gets time left only by a payment.
LEMMA WaitingKeepsPlace ==
    ASSUME GrantInv, PayerInv, SerialInv, KeepInv, [Next]_vars,
           kick.pc \in {"check_member", "ban"}, NEW u \in TelegramId, u = kick.row.user,
           u \notin raced', NEW r \in LiveOf(u)', subs'[r].expires > now'
    PROVE  Bought(r)' \ kick.seen # {}
<1>1. /\ raced \subseteq raced' /\ r \in SubId /\ HopStaysLive
      /\ kick.seen \subseteq {p \in Ref : grants[p] > 0}
  BY RacesStay DEF LiveOf, SerialInv, KeepInv
<1>2. now \in Nat /\ now' \in Nat /\ now <= now'
  BY ClockMoves DEF GrantInv, TypeOK, EnvironmentTypeOK, vars, environmentVars
<1>3. ASSUME r \in LiveOf(u), subs'[r].expires = subs[r].expires, Bought(r)' = Bought(r)
      PROVE  Bought(r)' \ kick.seen # {}
  <2>1. subs[r].expires \in Nat
    BY <1>1, <1>3 DEF LiveOf, LiveStatuses, GrantInv, RowsOK, RowOK, Opened
  <2>2. subs[r].expires > now
    BY <1>2, <1>3, <2>1
  <2> QED
    BY <1>1, <1>3, <2>2 DEF KeepInv
<1>4. CASE ~\E t \in Task : CommitsActivation(t)
  <2>1. r \in LiveOf(u)
    <3>1. CASE Deciding
      <4>1. UNCHANGED subs
        BY <1>4, <3>1 DEF Deciding, CommitsActivation, FindOrCreateSubscription, FindRenewable,
            CreatePayment, databaseVars
      <4> QED
        BY <4>1 DEF LiveOf
    <3>2. CASE ~Deciding
      BY <1>1, <3>2, LiveKeptElsewhere DEF LiveKept
    <3> QED
      BY <3>1, <3>2
  <2> QED
    BY <1>1, <1>3, <1>4, <2>1, ExpiriesStay, BoughtElsewhere DEF ExpiriesKept
<1>5. ASSUME NEW t \in Task, CommitsActivation(t)
      PROVE  Bought(r)' \ kick.seen # {}
  <2>1. PICK p \in Ref, own \in SubId : Buys(p, own)
    BY <1>5, CommitBuys
  <2>2. CASE r = own
    <3>1. p \in Bought(r)'
      BY <2>1, <2>2, BuyingAdds
    <3>2. p \notin kick.seen
      BY <1>1, <2>1 DEF Buys
    <3> QED
      BY <3>1, <3>2
  <2>3. CASE r # own
    <3>1. subs'[r] = subs[r]
      BY <1>1, <2>1, <2>3 DEF Buys
    <3>2. r \in LiveOf(u)
      BY <1>1, <3>1 DEF LiveOf
    <3> QED
      BY <1>1, <1>3, <2>1, <2>3, <3>1, <3>2, BuyingAdds
  <2> QED
    BY <2>2, <2>3
<1> QED
  BY <1>4, <1>5

\* The job goes on only if no row it saw has time left.
LEMMA LookingFindsNone ==
    ASSUME GrantInv, KeepInv, FindOtherLive, kick' = LookedUp
    PROVE  KeepInv'
<1>1. /\ kick \in KickRecord /\ UNCHANGED <<now, subs, payments, grants, raced>>
      /\ kick.pc = "find_other" /\ now \in Nat
  BY DEF GrantInv, TypeOK, KickTypeOK, EnvironmentTypeOK, FindOtherLive, environmentVars,
      databaseVars, serviceVars
<1>2. /\ kick'.seen = {p \in Ref : grants[p] > 0} /\ kick'.row = kick.row
      /\ kick'.todo = kick.todo /\ kick' # KickReady(kick.todo)
  BY <1>1 DEF LookedUp, KickRecord, KickReady
<1>3. ASSUME NEW r \in LiveOf(kick.row.user) PROVE subs[r].expires <= now
  <2>1. /\ r \in SubId /\ subs[r].expires \in Nat
        /\ \A o \in LiveOf(kick.row.user) : subs[o].expires \in Nat
    BY DEF LiveOf, LiveStatuses, GrantInv, RowsOK, RowOK, Opened
  <2>2. PICK o \in LiveOf(kick.row.user) :
           IsLatestLive(o, kick.row.user) /\ subs[o].expires <= now
    BY <1>2, <1>3 DEF FindOtherLive
  <2>3. subs[r].expires <= subs[o].expires
    BY <2>2 DEF IsLatestLive
  <2> QED
    BY <1>1, <2>1, <2>2, <2>3
<1>4. ASSUME NEW r \in LiveOf(kick.row.user)' PROVE ~(subs'[r].expires > now')
  <2>1. r \in LiveOf(kick.row.user) /\ r \in SubId
    BY <1>1, <1>2 DEF LiveOf
  <2>2. subs[r].expires \in Nat
    BY <2>1 DEF LiveOf, LiveStatuses, GrantInv, RowsOK, RowOK, Opened
  <2> QED
    BY <1>1, <1>3, <2>1, <2>2
<1> QED
  BY <1>1, <1>2, <1>4 DEF KeepInv

LEMMA KeepInvStep == GrantInv /\ PayerInv /\ SerialInv /\ KeepInv /\ [Next]_vars => KeepInv'
<1> SUFFICES ASSUME GrantInv, PayerInv, SerialInv, KeepInv, [Next]_vars PROVE KeepInv'
  OBVIOUS
<1>1. kick \in KickRecord /\ KickShape
  BY DEF GrantInv, TypeOK, KickTypeOK, JobShape
<1>2. ASSUME kick'.pc \notin {"check_member", "ban"} PROVE KeepInv'
  BY <1>2, NotedStaysGranted DEF KeepInv
<1>3. ASSUME NEW todo, kick' = KickReady(todo) PROVE KeepInv'
  BY <1>2, <1>3 DEF KickReady
<1>4. ASSUME kick'.pc \in {"check_member", "ban"}, kick.pc \in {"check_member", "ban"},
             kick'.row = kick.row, kick'.seen = kick.seen
      PROVE  KeepInv'
  <2>1. PICK u \in TelegramId : u = kick.row.user
    BY <1>1, <1>4 DEF KickShape, RowOK
  <2>2. ASSUME u \notin raced', NEW r \in LiveOf(u)', subs'[r].expires > now'
        PROVE  Bought(r)' \ kick.seen # {}
    BY <1>4, <2>1, <2>2, WaitingKeepsPlace
  <2>3. LiveOf(kick.row.user)' = LiveOf(u)'
    BY <1>4, <2>1
  <2> QED
    BY <1>1, <1>4, <2>1, <2>2, <2>3, NotedStaysGranted DEF KeepInv
<1>5. CASE UNCHANGED kick
  BY <1>2, <1>4, <1>5
<1>6. CASE FindOtherLive
  BY <1>3, <1>6, LookingFindsNone DEF FindOtherLive
<1>7. CASE CheckMember
  <2>1. CASE kick' = [kick EXCEPT !.pc = "ban"]
    BY <1>1, <1>4, <1>7, <2>1 DEF CheckMember, KickRecord
  <2>2. CASE kick' = [kick EXCEPT !.pc = "ban", !.blind = TRUE]
    BY <1>1, <1>4, <1>7, <2>2 DEF CheckMember, KickRecord
  <2> QED
    BY <1>3, <1>7, <2>1, <2>2 DEF CheckMember
<1>8. CASE StartAutoKick \/ KickNext \/ UnbanMember
  BY <1>2, <1>3, <1>8 DEF StartAutoKick, KickNext, UnbanMember
<1>9. CASE ReadHop
  <2>1. CASE kick' = [kick EXCEPT !.pc = "write", !.row = subs[kick.sub]]
    BY <1>1, <1>2, <2>1 DEF KickRecord
  <2> QED
    BY <1>3, <1>9, <2>1 DEF ReadHop
<1>10. CASE WriteHop
  <2>1. kick'.pc \in {"read", "find_other"}
    BY <1>1, <1>10 DEF WriteHop, KickRecord
  <2> QED
    BY <1>2, <2>1
<1>11. CASE BanMember
  <2>1. CASE kick' = [kick EXCEPT !.pc = "unban"]
    BY <1>1, <1>2, <2>1 DEF KickRecord
  <2> QED
    BY <1>3, <1>11, <2>1 DEF BanMember
<1> QED
  BY <1>3, <1>5, <1>6, <1>7, <1>8, <1>9, <1>10, <1>11, KickMovers DEF KickStep

\* KeepInv is an invariant, whatever is renewed, closed or confirmed while the
\* job waits for Telegram's answers.
THEOREM KeepInvHolds == Spec => []KeepInv
<1>1. Init => KeepInv
  BY DEF Init, KickInit, KickReady, KeepInv
<1> QED
  BY <1>1, KeepInvStep, GrantInvHolds, PayerInvHolds, SerialInvHolds, PTL DEF Spec

\* Whoever the job removes has no live row with time left but one paid for
\* after it looked (_has_other_live_subscription), unless a race spoilt the
\* rows: a renewal that was committed in time is never answered with a ban.
THEOREM PayersKept == Spec => PayersKeepTheirPlace
<1>1. ASSUME KeepInv, [Next]_vars, NEW u \in members \ members', NEW r \in SubId,
             u \notin raced, r \in LiveOf(u), subs[r].expires > now
      PROVE  Bought(r) \ kick.seen # {}
  <2>1. kick.pc = "ban" /\ u = kick.row.user
    BY <1>1, MembersLeaveByBan DEF BanMember, Ban
  <2> QED
    BY <1>1, <2>1 DEF KeepInv
<1>2. KeepInv /\ [Next]_vars =>
        [\A u \in members \ members', r \in SubId :
            u \notin raced /\ r \in LiveOf(u) /\ subs[r].expires > now
               => Bought(r) \ kick.seen # {}]_vars
  BY <1>1
<1> QED
  BY <1>2, KeepInvHolds, PTL DEF Spec, PayersKeepTheirPlace

-----------------------------------------------------------------------------
(* Who loses a subscription.                                               *)

\* A row that has run out stays so until it is paid for again.
LEMMA StaysRunOut ==
    ASSUME GrantInv, PayerInv, [Next]_vars, NEW r \in SubId, Opened(subs[r]),
           NEW seen, seen \subseteq {p \in Ref : grants[p] > 0}, RunOut(r, seen)
    PROVE  RunOut(r, seen)'
<1>1. now \in Nat /\ now' \in Nat /\ now <= now' /\ subs[r].expires \in Nat
  BY ClockMoves DEF GrantInv, TypeOK, EnvironmentTypeOK, vars, environmentVars, RowsOK, RowOK
<1>2. ASSUME subs'[r].expires = subs[r].expires, Bought(r)' = Bought(r)
      PROVE  RunOut(r, seen)'
  BY <1>1, <1>2 DEF RunOut
<1>3. CASE ~\E t \in Task : CommitsActivation(t)
  BY <1>2, <1>3, ExpiriesStay, BoughtElsewhere DEF ExpiriesKept
<1>4. ASSUME NEW t \in Task, CommitsActivation(t) PROVE RunOut(r, seen)'
  <2>1. PICK p \in Ref, own \in SubId : Buys(p, own)
    BY <1>4, CommitBuys
  <2>2. CASE r = own
    <3>1. p \in Bought(r)'
      BY <2>1, <2>2, BuyingAdds
    <3>2. p \notin seen
      BY <2>1 DEF Buys
    <3> QED
      BY <3>1, <3>2 DEF RunOut
  <2>3. CASE r # own
    BY <1>2, <2>1, <2>3, BuyingAdds DEF Buys
  <2> QED
    BY <2>2, <2>3
<1> QED
  BY <1>3, <1>4

\* A row is listed with what was granted by then, when it has run out.
LEMMA ListedHaveRunOut ==
    ASSUME GrantInv, StartAutoKick
    PROVE  LapseInv'
<1>1. UNCHANGED <<now, subs, payments, grants>> /\ kick'.pc = "ready"
  BY DEF StartAutoKick, KickReady, environmentVars, databaseVars, serviceVars
<1>2. ASSUME NEW c \in kick'.todo PROVE subs[c.sub].expires < now
  BY <1>2 DEF StartAutoKick, KickReady, Expired
<1> QED
  BY <1>1, <1>2 DEF LapseInv, RunOut

LEMMA LapseInvStep == GrantInv /\ PayerInv /\ KeepInv /\ LapseInv /\ [Next]_vars => LapseInv'
<1> SUFFICES ASSUME GrantInv, PayerInv, KeepInv, LapseInv, [Next]_vars PROVE LapseInv'
  OBVIOUS
<1>1. kick \in KickRecord /\ KickShape
  BY DEF GrantInv, TypeOK, KickTypeOK, JobShape
<1>2. ASSUME NEW c \in kick.todo PROVE RunOut(c.sub, c.seen)'
  <2>1. c.sub \in SubId /\ Opened(subs[c.sub]) /\ RunOut(c.sub, c.seen)
        /\ c.seen \subseteq {p \in Ref : grants[p] > 0}
    BY <1>1 DEF KickRecord, KickCandidate, KickShape, LapseInv, KeepInv
  <2> QED
    BY <2>1, StaysRunOut
<1>3. ASSUME kick.pc \in {"read", "write"}, kick'.sub = kick.sub, kick'.seen = kick.seen
      PROVE  RunOut(kick.sub, kick.seen)'
  <2>1. PICK r \in SubId, seen \in SUBSET Ref :
           /\ r = kick.sub /\ seen = kick.seen /\ Opened(subs[r]) /\ RunOut(r, seen)
           /\ seen \subseteq {p \in Ref : grants[p] > 0}
    BY <1>1, <1>3 DEF KickRecord, KickShape, LapseInv, KeepInv
  <2>2. RunOut(r, seen)'
    BY <2>1, StaysRunOut
  <2> QED
    BY <1>3, <2>1, <2>2 DEF RunOut, Bought
<1>4. ASSUME kick'.todo \subseteq kick.todo, kick'.pc \notin {"read", "write"}
      PROVE  LapseInv'
  BY <1>2, <1>4 DEF LapseInv
<1>5. ASSUME kick'.todo = kick.todo, kick.pc \in {"read", "write"}, kick'.sub = kick.sub,
             kick'.seen = kick.seen
      PROVE  LapseInv'
  BY <1>2, <1>3, <1>5 DEF LapseInv
<1>6. CASE UNCHANGED kick
  BY <1>4, <1>5, <1>6
<1>7. CASE kick' = KickReady({}) \/ kick' = KickReady(kick.todo)
  BY <1>4, <1>7 DEF KickReady
<1>8. CASE StartAutoKick
  BY <1>8, ListedHaveRunOut
<1>9. ASSUME KickNext PROVE LapseInv'
  <2>1. PICK c \in kick.todo :
           /\ kick'.todo = kick.todo \ {c} /\ kick'.sub = c.sub /\ kick'.seen = c.seen
    BY <1>9 DEF KickNext
  <2>2. RunOut(kick.sub, kick.seen)'
    BY <1>2, <2>1 DEF RunOut, Bought
  <2> QED
    BY <1>2, <2>1, <2>2 DEF LapseInv
<1>10. CASE ReadHop
  BY <1>1, <1>5, <1>7, <1>10 DEF ReadHop, KickRecord
<1>11. CASE WriteHop
  BY <1>1, <1>4, <1>5, <1>11 DEF WriteHop, KickRecord
<1>12. CASE FindOtherLive
  BY <1>1, <1>4, <1>7, <1>12 DEF FindOtherLive, LookedUp, KickRecord
<1>13. CASE CheckMember \/ BanMember \/ UnbanMember
  BY <1>1, <1>4, <1>7, <1>13 DEF CheckMember, BanMember, UnbanMember, KickRecord
<1> QED
  BY <1>6, <1>7, <1>8, <1>9, <1>10, <1>11, <1>12, <1>13, KickMovers DEF KickStep

\* LapseInv is an invariant: what the job is about to close has run out or
\* has been paid for since the job listed it.
THEOREM LapseInvHolds == Spec => []LapseInv
<1>1. Init => LapseInv
  BY DEF Init, KickInit, KickReady, LapseInv
<1> QED
  BY <1>1, LapseInvStep, GrantInvHolds, PayerInvHolds, KeepInvHolds, PTL DEF Spec

\* Only the job's last hop kicks a row: an activation makes one active, the
\* reminder job expiring.
LEMMA KickedByHop ==
    ASSUME GrantInv, [Next]_vars, NEW r \in SubId,
           subs[r].status # "kicked", subs'[r].status = "kicked"
    PROVE  WriteHop /\ r = kick.sub
<1>1. /\ subs \in [SubId -> Row] /\ WarnShape /\ KickShape /\ warn \in WarnRecord
      /\ kick \in KickRecord
  BY DEF GrantInv, TypeOK, DatabaseTypeOK, JobShape, WarningsTypeOK, KickTypeOK
<1>2. ASSUME NEW own \in SubId, NEW new, subs' = [subs EXCEPT ![own] = new],
             new.status # "kicked" \/ new.status = subs[own].status
      PROVE  FALSE
  BY <1>1, <1>2
<1>3. ASSUME NEW t \in Task, CommitsActivation(t) PROVE FALSE
  <2> DEFINE read == task[t].row
             new == Flush(subs[task[t].sub], read, Activated(read))
  <2>1. read \in Row /\ task[t].sub \in SubId \cup {None} /\ WriteActivation(t)
    BY <1>3 DEF GrantInv, TypeOK, ServiceTypeOK, TaskRecord, CommitsActivation,
        ActivateSubscription, ConfirmManualPayment
  <2>2. task[t].sub \in SubId
    BY <1>1, <2>1 DEF WriteActivation
  <2>3. Activated(read).status = "active"
    BY <2>1 DEF Activated, Row
  <2>4. new.status \in {subs[task[t].sub].status, "active"}
    BY <1>1, <2>1, <2>2, <2>3 DEF Flush, Row
  <2>5. subs' = [subs EXCEPT ![task[t].sub] = new]
    BY <2>1 DEF WriteActivation
  <2> HIDE DEF new
  <2> QED
    BY <1>2, <2>2, <2>4, <2>5
<1>4. CASE \E t \in Task : SavePlaceholder(t)
  BY <1>2, <1>4 DEF SavePlaceholder, FreeIds, PendingRow
<1>5. CASE MarkExpiring
  <2> DEFINE new == Flush(subs[warn.sub], warn.row, WithStatus(warn.row, "expiring"))
  <2>1. /\ warn.sub \in SubId /\ warn.row \in Row /\ subs[warn.sub] \in Row
    BY <1>1, <1>5 DEF MarkExpiring, WarnShape, WarnRecord
  <2>2. new.status \in {subs[warn.sub].status, "expiring"}
    BY <2>1 DEF Flush, WithStatus, Row
  <2>3. subs' = [subs EXCEPT ![warn.sub] = new]
    BY <1>5 DEF MarkExpiring
  <2> HIDE DEF new
  <2> QED
    BY <1>2, <2>1, <2>2, <2>3
<1>6. CASE RecordReminder
  <2>1. warn.sub \in SubId /\ subs' = [subs EXCEPT ![warn.sub].warned = warn.days]
    BY <1>1, <1>6 DEF RecordReminder, WarnShape
  <2> QED
    BY <1>1, <2>1 DEF Row
<1>7. CASE WriteHop
  BY <1>1, <1>7 DEF WriteHop
<1>8. CASE Deciding /\ ~\E t \in Task : CommitsActivation(t)
  <2>1. UNCHANGED subs
    BY <1>8 DEF Deciding, CommitsActivation, FindOrCreateSubscription, FindRenewable,
        CreatePayment, databaseVars
  <2> QED
    BY <2>1
<1> QED
  BY <1>3, <1>4, <1>5, <1>6, <1>7, <1>8, WritersElsewhere

\* No one is kicked out of time that is paid for (list_expired, update_status):
\* a row that is kicked has run out, or was paid for after the job listed it.
\* The second is a race the code loses, see RenewedRowIsNotKicked in Claims.
THEOREM KickedHaveRunOut == Spec => OnlyRenewedRowsAreKickedEarly
<1>1. ASSUME GrantInv, LapseInv, [Next]_vars, NEW r \in SubId,
             subs[r].status # "kicked", subs'[r].status = "kicked", subs[r].expires >= now
      PROVE  Bought(r) \ kick.seen # {}
  <2>1. WriteHop /\ r = kick.sub
    BY <1>1, KickedByHop
  <2>2. subs[r].expires \in Nat /\ now \in Nat
    BY <1>1, <2>1 DEF WriteHop, KickShape, JobShape, GrantInv, TypeOK, EnvironmentTypeOK,
        RowsOK, RowOK
  <2>3. RunOut(kick.sub, kick.seen)
    BY <1>1, <2>1 DEF WriteHop, LapseInv
  <2> QED
    BY <1>1, <2>1, <2>2, <2>3 DEF RunOut
<1>2. GrantInv /\ LapseInv /\ [Next]_vars =>
        [\A r \in SubId :
            subs[r].status # "kicked" /\ subs'[r].status = "kicked" /\ subs[r].expires >= now
               => Bought(r) \ kick.seen # {}]_vars
  BY <1>1
<1> QED
  BY <1>2, LapseInvHolds, GrantInvHolds, PTL DEF Spec, OnlyRenewedRowsAreKickedEarly

=============================================================================
