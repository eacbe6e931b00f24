---------------------- MODULE SubscriptionSystemProofs ----------------------
(***************************************************************************)
(* Theorems of SubscriptionSystem, for any sets of payers, payments, rows  *)
(* and handlers and any bounds.                                            *)
(***************************************************************************)
EXTENDS SubscriptionInvariants, TLAPS

\* A renewed expiry is an instant (_compute_renewed_expires_at).
LEMMA RenewedExpiresAtType ==
    ASSUME NEW n \in Nat, NEW current \in Nat \cup {None}
    PROVE  RenewedExpiresAt(n, current) \in Nat
BY NoneAssumption, DaysAssumption DEF RenewedExpiresAt

\* A reminder announces a natural number of days (days_remaining).
LEMMA DaysRemainingType ==
    ASSUME NEW n \in Nat, NEW e \in Nat
    PROVE  DaysRemaining(n, e) \in Nat
BY DaysAssumption DEF DaysRemaining

\* ceil((expires_at - now) / day), and 1 for an instant that has passed
\* (days_remaining): the least number of days, but 1, that reaches the expiry.
THEOREM DaysRemainingIsLeast ==
    ASSUME NEW n \in Nat, NEW e \in Nat
    PROVE  /\ DaysRemaining(n, e) >= 1
           /\ e <= n + DaysRemaining(n, e) * Day
           /\ \A d \in Nat \ {0} : e <= n + d * Day => DaysRemaining(n, e) <= d
<1>1. CASE e <= n
  <2>1. DaysRemaining(n, e) = 1
    BY <1>1 DEF DaysRemaining
  <2> QED
    BY <1>1, <2>1, DaysAssumption
<1>2. CASE e > n
  <2> DEFINE x == e - n + Day - 1
             q == x \div Day
  <2>1. DaysRemaining(n, e) = q
    BY <1>2 DEF DaysRemaining
  <2>2. x \in Nat /\ Day \in Nat /\ Day > 0 /\ x >= Day
    BY <1>2, DaysAssumption
  <2>3. q \in Nat /\ q * Day <= x /\ x < q * Day + Day
    BY <2>2
  <2> HIDE DEF q
  <2>4. q >= 1
    <3>1. CASE q = 0
      <4>1. q * Day = 0
        BY <2>2, <3>1
      <4> QED
        BY <2>2, <2>3, <4>1
    <3> QED
      BY <2>3, <3>1
  <2>5. e <= n + q * Day
    <3>1. q * Day \in Nat
      BY <2>2, <2>3
    <3> QED
      BY <1>2, <2>2, <2>3, <3>1
  <2>6. ASSUME NEW d \in Nat \ {0}, e <= n + d * Day, q > d PROVE FALSE
    <3>1. q * Day >= d * Day + Day
      BY <2>2, <2>3, <2>6
    <3>2. d * Day \in Nat /\ q * Day \in Nat
      BY <2>2, <2>3
    <3> QED
      BY <1>2, <2>2, <2>3, <2>6, <3>1, <3>2
  <2> QED
    BY <2>1, <2>3, <2>4, <2>5, <2>6
<1> QED
  BY <1>1, <1>2

\* The ORM's partial UPDATE of a row gives a row (update_status).
LEMMA FlushType ==
    ASSUME NEW stored \in Row, NEW read \in Row, NEW written \in Row
    PROVE  Flush(stored, read, written) \in Row
BY DEF Flush, Row

\* _activate, applied to a fresh, a placeholder or an opened row as it was
\* read, flushes an opened row of the same payer.
LEMMA ActivatedRow ==
    ASSUME NEW u \in TelegramId, now \in Nat,
           NEW stored \in Row, NEW read \in Row, RowOK(stored), RowOK(read),
           \/ stored = NoRow /\ read = PendingRow(u)
           \/ stored = PendingRow(u) /\ read = PendingRow(u)
           \/ Opened(stored) /\ Opened(read) /\ stored.user = u,
           NEW new, new = Flush(stored, read, Activated(read))
    PROVE  new \in Row /\ RowOK(new) /\ Opened(new) /\ new.user = u
<1>1. RenewedExpiresAt(now, read.expires) \in Nat
  BY RenewedExpiresAtType DEF Row
<1>2. Activated(read) \in Row
  BY <1>1 DEF Activated, Row, Status
<1>3. new \in Row
  BY <1>2, FlushType
<1>4. CASE stored = NoRow
  BY <1>1, <1>4, <1>3, NoneAssumption DEF Flush, Activated, PendingRow, NoRow, RowOK, Opened, Row
<1>5. CASE stored # NoRow /\ stored = PendingRow(u) /\ read = PendingRow(u)
  BY <1>1, <1>5, <1>3, NoneAssumption DEF Flush, Activated, PendingRow, NoRow, RowOK, Opened, Row
<1>6. CASE stored # NoRow /\ Opened(stored) /\ Opened(read) /\ stored.user = u
  BY <1>1, <1>6, <1>3 DEF Flush, Activated, RowOK, Opened, Row
<1> QED
  BY <1>4, <1>5, <1>6 DEF Opened, NoRow

\* update_status, applied to an opened row by a job, flushes an opened row
\* of the same payer whatever was committed since it was read.
LEMMA MovedRow ==
    ASSUME NEW stored \in Row, NEW read \in Row, RowOK(stored), Opened(stored), Opened(read),
           NEW s \in {"expiring", "expired", "kicked"},
           NEW new, new = Flush(stored, read, WithStatus(read, s))
    PROVE  /\ new \in Row /\ RowOK(new) /\ Opened(new)
           /\ new.user = stored.user /\ new.expires = stored.expires
           /\ new.status = IF read.status = s THEN stored.status ELSE s
<1>1. WithStatus(read, s) \in Row
  BY DEF WithStatus, Row, Status
<1>2. new \in Row
  BY <1>1, FlushType
<1>3. stored # NoRow
  BY DEF Opened, NoRow
<1> QED
  BY <1>1, <1>2, <1>3 DEF Flush, WithStatus, RowOK, Opened, Row

-----------------------------------------------------------------------------
(* Frames: what survives a step that leaves some of the state alone.       *)

\* What the jobs rely on only concerns their records and which rows are open.
LEMMA JobsFrame ==
    ASSUME GrantInv, UNCHANGED <<warn, kick>>,
           \A r \in SubId : Opened(subs[r]) =>
               Opened(subs'[r]) /\ subs'[r].user = subs[r].user
    PROVE  JobShape'
BY DEF GrantInv, JobShape, WarnShape, KickShape, TypeOK, WarningsTypeOK, KickTypeOK, WarnRecord, KickRecord, Candidate,
      KickCandidate

\* Only the handler t moves: what holds of it afterwards is all there is to show.
LEMMA TaskMoves ==
    ASSUME GrantInv, TypeOK', NEW t \in Task,
           \A other \in Task \ {t} : task'[other] = task[other],
           UNCHANGED <<subs, payments, grants, warn, kick>>,
           received \subseteq received',
           \/ task'[t].sub \in {None, task[t].sub}
           \/ subs[task'[t].sub] # NoRow
           \/ \A other \in Task : task[other].sub # task'[t].sub,
           HandlerOK(t)'
    PROVE  GrantInv'
<1>1. RowsOK'
  BY DEF GrantInv, RowsOK
<1>2. Ledger'
  BY DEF GrantInv, Ledger
<1>3. JobShape'
  BY JobsFrame
<1>4. ASSUME NEW other \in Task PROVE HandlerOK(other)'
  <2>1. CASE other = t
    BY <2>1
  <2>2. CASE other # t
    <3>1. task'[other] = task[other] /\ HandlerOK(other)
      BY <2>2 DEF GrantInv
    <3>2. LocalsOK(other)'
      BY <3>1 DEF HandlerOK, LocalsOK
    <3>3. ChosenRow(other)'
      BY <3>1, <2>2, DatabaseAssumption DEF HandlerOK, ChosenRow, LocalsOK
    <3>4. Confirmation(other)'
      BY <3>1, <2>2 DEF HandlerOK, Confirmation
    <3>5. Screenshot(other)'
      BY <3>1, <2>2 DEF HandlerOK, Screenshot, At
    <3>6. Recording(other)'
      BY <3>1, <2>2 DEF HandlerOK, Recording, At
    <3> QED
      BY <3>2, <3>3, <3>4, <3>5, <3>6 DEF HandlerOK
  <2> QED
    BY <2>1, <2>2
<1> QED
  BY <1>1, <1>2, <1>3, <1>4 DEF GrantInv

-----------------------------------------------------------------------------
(* What the ways of moving a handler do to its record.                     *)

TaskTyped == task \in [Task -> TaskRecord]

OthersStay(t) == \A other \in Task \ {t} : task'[other] = task[other]

\* Assigning to the variables of one handler.
LEMMA SetTask ==
    ASSUME TaskTyped, NEW t \in Task, NEW new \in TaskRecord,
           task' = [task EXCEPT ![t] = new]
    PROVE  TaskTyped' /\ OthersStay(t) /\ task'[t] = new
BY DEF TaskTyped, OthersStay

\* A handler that only moves on keeps its variables.
LEMMA GotoTask ==
    ASSUME TaskTyped, NEW t \in Task, NEW label \in Label, Goto(t, label)
    PROVE  /\ TaskTyped' /\ OthersStay(t)
           /\ task'[t].pc = label /\ task'[t].ref = task[t].ref
           /\ task'[t].user = task[t].user /\ task'[t].sub = task[t].sub
           /\ task'[t].row = task[t].row /\ task'[t].pending = task[t].pending
<1> DEFINE new == [task[t] EXCEPT !.pc = label]
<1>1. new \in TaskRecord
  BY DEF TaskTyped, TaskRecord
<1>2. task' = [task EXCEPT ![t] = new]
  BY DEF Goto
<1>3. TaskTyped' /\ OthersStay(t) /\ task'[t] = new
  BY <1>1, <1>2, SetTask
<1> QED
  BY <1>3 DEF TaskTyped, TaskRecord

\* A handler that starts over, with nothing read yet.
LEMMA BeginTask ==
    ASSUME TaskTyped, NEW t \in Task, NEW label \in Label, NEW p \in Ref \cup {None},
           NEW u \in TelegramId \cup {None}, NEW r \in SubId \cup {None},
           task' = [task EXCEPT ![t] = Starting(label, p, u, r)]
    PROVE  /\ TaskTyped' /\ OthersStay(t)
           /\ task'[t].pc = label /\ task'[t].ref = p /\ task'[t].user = u
           /\ task'[t].sub = None /\ task'[t].pending = r
<1>1. NoRow \in Row
  BY DEF NoRow, Row
<1>2. Starting(label, p, u, r) \in TaskRecord
  BY <1>1 DEF Starting, TaskRecord
<1>3. TaskTyped' /\ OthersStay(t) /\ task'[t] = Starting(label, p, u, r)
  BY <1>2, SetTask
<1> QED
  BY <1>3 DEF Starting

\* A handler that returns.
LEMMA EndTask ==
    ASSUME TaskTyped, NEW t \in Task, End(t)
    PROVE  TaskTyped' /\ OthersStay(t) /\ task'[t].pc = "idle" /\ task'[t].sub = None
<1>1. "idle" \in Label
  BY DEF Label
<1>2. task' = [task EXCEPT ![t] = Starting("idle", None, None, None)]
  BY DEF End, IdleTask
<1> QED
  BY <1>1, <1>2, BeginTask

\* A handler that enters _activate_subscription.
LEMMA BeginActivationTask ==
    ASSUME TaskTyped, NEW t \in Task, NEW p \in Ref, NEW u \in TelegramId, BeginActivation(t, p, u)
    PROVE  /\ TaskTyped' /\ OthersStay(t)
           /\ task'[t].pc = "get_user" /\ task'[t].ref = p /\ task'[t].user = u
           /\ task'[t].sub = None /\ task'[t].pending = None
<1>1. NoRow \in Row
  BY DEF NoRow, Row
<1>2. Starting("get_user", p, u, None) \in TaskRecord
  BY <1>1 DEF Starting, TaskRecord, Label
<1>3. TaskTyped' /\ OthersStay(t) /\ task'[t] = Starting("get_user", p, u, None)
  BY <1>2, SetTask DEF BeginActivation
<1> QED
  BY <1>3 DEF Starting

\* A handler that keeps the row its SELECT returned.
LEMMA ChooseTask ==
    ASSUME TaskTyped, NEW t \in Task, NEW r \in SubId, NEW row \in Row, NEW label \in Label,
           ChooseRow(t, r, row, label)
    PROVE  /\ TaskTyped' /\ OthersStay(t)
           /\ task'[t].pc = label /\ task'[t].ref = task[t].ref
           /\ task'[t].user = task[t].user /\ task'[t].sub = r
           /\ task'[t].row = row /\ task'[t].pending = task[t].pending
<1> DEFINE new == [task[t] EXCEPT !.pc = label, !.sub = r, !.row = row]
<1>1. new \in TaskRecord
  BY DEF TaskTyped, TaskRecord
<1>2. task' = [task EXCEPT ![t] = new]
  BY DEF ChooseRow
<1>3. TaskTyped' /\ OthersStay(t) /\ task'[t] = new
  BY <1>1, <1>2, SetTask
<1> QED
  BY <1>3 DEF TaskTyped, TaskRecord

\* The race history only holds payers.
LEMMA NoteRaceType ==
    ASSUME raced \subseteq TelegramId, NEW t \in Task, task[t].user \in TelegramId, NoteRace(t)
    PROVE  raced' \subseteq TelegramId
BY DEF NoteRace

-----------------------------------------------------------------------------
(* Steps that move one handler and leave the tables alone.                 *)

\* The webhook enters the activation of a session that has no payment yet
\* (handle_stripe_webhook).
LEMMA BeginStripeActivationStep ==
    ASSUME GrantInv, NEW t \in Task, NEW s \in Session, NEW type \in EventType,
           BeginStripeActivation(t, s, type),
           UNCHANGED <<manualVars, warningsVars, kick>>
    PROVE  GrantInv'
<1>0. TypeOK /\ RowsOK /\ HandlerOK(t) /\ Ledger /\ TaskTyped
  BY DEF GrantInv, TypeOK, ServiceTypeOK, TaskTyped
<1>1. /\ TaskTyped' /\ OthersStay(t)
      /\ task'[t].pc = "get_user" /\ task'[t].ref = s /\ task'[t].user \in TelegramId
      /\ task'[t].sub = None /\ task'[t].pending = None
  BY <1>0, BeginActivationTask, PayerAssumption DEF BeginStripeActivation, Ref
<1>2. TypeOK'
  BY <1>0, <1>1 DEF BeginStripeActivation, TaskTyped,
      TypeOK, EnvironmentTypeOK, DatabaseTypeOK, ServiceTypeOK, ChannelTypeOK, StripeTypeOK,
      ManualTypeOK, WarningsTypeOK, KickTypeOK,
      environmentVars, databaseVars, serviceVars, channelVars, stripeVars, manualVars, warningsVars
<1>3. HandlerOK(t)'
  BY <1>0, <1>1 DEF BeginStripeActivation, HandlerOK, LocalsOK, ChosenRow, Confirmation, Screenshot, Recording, At,
      ServiceLabels, SavingLabels, SavedLabels, InviteLabels, LockingLabels, AfterCommitLabels,
      environmentVars, databaseVars, serviceVars, channelVars, stripeVars, manualVars, warningsVars
<1> QED
  BY <1>0, <1>1, <1>2, <1>3, TaskMoves DEF BeginStripeActivation, OthersStay,
      environmentVars, databaseVars, serviceVars, channelVars, stripeVars, manualVars, warningsVars

\* /activate enters the activation of a fresh uuid4 ref (admin_activate).
LEMMA AdminActivateStep ==
    ASSUME GrantInv, NEW t \in Task, NEW p \in Uuid, NEW u \in TelegramId, AdminActivate(t, p, u),
           UNCHANGED <<stripeVars, warningsVars, kick>>
    PROVE  GrantInv'
<1>0. TypeOK /\ RowsOK /\ HandlerOK(t) /\ Ledger /\ TaskTyped
  BY DEF GrantInv, TypeOK, ServiceTypeOK, TaskTyped
<1>1. /\ TaskTyped' /\ OthersStay(t)
      /\ task'[t].pc = "get_user" /\ task'[t].ref = p /\ task'[t].user = u
      /\ task'[t].sub = None /\ task'[t].pending = None
  BY <1>0, BeginActivationTask DEF AdminActivate, Ref
<1>2. TypeOK'
  BY <1>0, <1>1 DEF AdminActivate, TaskTyped,
      TypeOK, EnvironmentTypeOK, DatabaseTypeOK, ServiceTypeOK, ChannelTypeOK, StripeTypeOK,
      ManualTypeOK, WarningsTypeOK, KickTypeOK,
      environmentVars, databaseVars, serviceVars, channelVars, stripeVars, manualVars, warningsVars
<1>3. HandlerOK(t)'
  BY <1>0, <1>1 DEF AdminActivate, HandlerOK, LocalsOK, ChosenRow, Confirmation, Screenshot, Recording, At,
      ServiceLabels, SavingLabels, SavedLabels, InviteLabels, LockingLabels, AfterCommitLabels,
      environmentVars, databaseVars, serviceVars, channelVars, stripeVars, manualVars, warningsVars
<1> QED
  BY <1>0, <1>1, <1>2, <1>3, TaskMoves DEF AdminActivate, OthersStay,
      environmentVars, databaseVars, serviceVars, channelVars, stripeVars, manualVars, warningsVars

\* The admin presses the confirm button (confirm_payment).
LEMMA PressConfirmStep ==
    ASSUME GrantInv, NEW t \in Task, NEW r \in SubId, PressConfirm(t, r),
           UNCHANGED <<stripeVars, warningsVars, kick>>
    PROVE  GrantInv'
<1>0. TypeOK /\ RowsOK /\ HandlerOK(t) /\ Ledger /\ TaskTyped
  BY DEF GrantInv, TypeOK, ServiceTypeOK, TaskTyped
<1>1. /\ TaskTyped' /\ OthersStay(t)
      /\ task'[t].pc = "lock" /\ task'[t].ref = None /\ task'[t].user = None
      /\ task'[t].sub = None /\ task'[t].pending = r
  BY <1>0, BeginTask DEF PressConfirm, Label
<1>2. TypeOK'
  BY <1>0, <1>1 DEF PressConfirm, TaskTyped,
      TypeOK, EnvironmentTypeOK, DatabaseTypeOK, ServiceTypeOK, ChannelTypeOK, StripeTypeOK,
      ManualTypeOK, WarningsTypeOK, KickTypeOK,
      environmentVars, databaseVars, serviceVars, channelVars, stripeVars, manualVars, warningsVars
<1>3. HandlerOK(t)'
  BY <1>0, <1>1 DEF PressConfirm, HandlerOK, LocalsOK, ChosenRow, Confirmation, Screenshot, Recording, At,
      ServiceLabels, SavingLabels, SavedLabels, InviteLabels, LockingLabels, AfterCommitLabels,
      environmentVars, databaseVars, serviceVars, channelVars, stripeVars, manualVars, warningsVars
<1> QED
  BY <1>0, <1>1, <1>2, <1>3, TaskMoves DEF PressConfirm, OthersStay,
      environmentVars, databaseVars, serviceVars, channelVars, stripeVars, manualVars, warningsVars

\* UserRepository.get_or_create inside an activation.
LEMMA GetOrCreateUserStep ==
    ASSUME GrantInv, NEW t \in Task, GetOrCreateUser(t),
           UNCHANGED <<channelVars, stripeVars, manualVars, warningsVars, kick>>
    PROVE  GrantInv'
<1>0. TypeOK /\ RowsOK /\ HandlerOK(t) /\ Ledger /\ TaskTyped
  BY DEF GrantInv, TypeOK, ServiceTypeOK, TaskTyped
<1>1. /\ TaskTyped' /\ OthersStay(t)
      /\ task'[t].pc = "find_live" /\ task'[t].ref = task[t].ref
      /\ task'[t].user = task[t].user /\ task'[t].sub = task[t].sub
      /\ task'[t].row = task[t].row /\ task'[t].pending = task[t].pending
  BY <1>0, GotoTask DEF GetOrCreateUser, Label
<1>2. TypeOK'
  BY <1>0, <1>1 DEF GetOrCreateUser, TaskTyped,
      TypeOK, EnvironmentTypeOK, DatabaseTypeOK, ServiceTypeOK, ChannelTypeOK, StripeTypeOK,
      ManualTypeOK, WarningsTypeOK, KickTypeOK,
      environmentVars, databaseVars, serviceVars, channelVars, stripeVars, manualVars, warningsVars
<1>3. HandlerOK(t)'
  BY <1>0, <1>1 DEF GetOrCreateUser, HandlerOK, LocalsOK, ChosenRow, Confirmation, Screenshot, Recording, At,
      ServiceLabels, SavingLabels, SavedLabels, InviteLabels, LockingLabels, AfterCommitLabels,
      environmentVars, databaseVars, serviceVars, channelVars, stripeVars, manualVars, warningsVars
<1> QED
  BY <1>0, <1>1, <1>2, <1>3, TaskMoves DEF GetOrCreateUser, OthersStay,
      environmentVars, databaseVars, serviceVars, channelVars, stripeVars, manualVars, warningsVars

\* The screenshot goes to the admin (receive_screenshot).
LEMMA ForwardScreenshotStep ==
    ASSUME GrantInv, NEW t \in Task, ForwardScreenshot(t),
           UNCHANGED <<stripeVars, warningsVars, kick>>
    PROVE  GrantInv'
<1>0. TypeOK /\ RowsOK /\ HandlerOK(t) /\ Ledger /\ TaskTyped
  BY DEF GrantInv, TypeOK, ServiceTypeOK, TaskTyped
<1>1. /\ TaskTyped' /\ OthersStay(t)
      /\ task'[t].pc = "thank" /\ task'[t].ref = task[t].ref
      /\ task'[t].user = task[t].user /\ task'[t].sub = task[t].sub
      /\ task'[t].row = task[t].row /\ task'[t].pending = task[t].pending
  BY <1>0, GotoTask DEF ForwardScreenshot, Label
<1>2. TypeOK'
  BY <1>0, <1>1 DEF ForwardScreenshot, TaskTyped,
      TypeOK, EnvironmentTypeOK, DatabaseTypeOK, ServiceTypeOK, ChannelTypeOK, StripeTypeOK,
      ManualTypeOK, WarningsTypeOK, KickTypeOK,
      environmentVars, databaseVars, serviceVars, channelVars, stripeVars, manualVars, warningsVars, FaultOccurs, At, HandlerOK, LocalsOK
<1>3. HandlerOK(t)'
  BY <1>0, <1>1 DEF ForwardScreenshot, HandlerOK, LocalsOK, ChosenRow, Confirmation, Screenshot, Recording, At,
      ServiceLabels, SavingLabels, SavedLabels, InviteLabels, LockingLabels, AfterCommitLabels,
      environmentVars, databaseVars, serviceVars, channelVars, stripeVars, manualVars, warningsVars
<1> QED
  BY <1>0, <1>1, <1>2, <1>3, TaskMoves DEF ForwardScreenshot, OthersStay,
      environmentVars, databaseVars, serviceVars, channelVars, stripeVars, manualVars, warningsVars

\* The sender of a screenshot is thanked (receive_screenshot).
LEMMA ThankSenderStep ==
    ASSUME GrantInv, NEW t \in Task, ThankSender(t),
           UNCHANGED <<stripeVars, warningsVars, kick>>
    PROVE  GrantInv'
<1>0. TypeOK /\ RowsOK /\ HandlerOK(t) /\ Ledger /\ TaskTyped
  BY DEF GrantInv, TypeOK, ServiceTypeOK, TaskTyped
<1>1. /\ TaskTyped' /\ OthersStay(t)
      /\ task'[t].pc = "idle" /\ task'[t].sub = None
  BY <1>0, EndTask DEF ThankSender
<1>2. TypeOK'
  BY <1>0, <1>1 DEF ThankSender, TaskTyped,
      TypeOK, EnvironmentTypeOK, DatabaseTypeOK, ServiceTypeOK, ChannelTypeOK, StripeTypeOK,
      ManualTypeOK, WarningsTypeOK, KickTypeOK,
      environmentVars, databaseVars, serviceVars, channelVars, stripeVars, manualVars, warningsVars, FaultOccurs
<1>3. HandlerOK(t)'
  BY <1>0, <1>1 DEF ThankSender, HandlerOK, LocalsOK, ChosenRow, Confirmation, Screenshot, Recording, At,
      ServiceLabels, SavingLabels, SavedLabels, InviteLabels, LockingLabels, AfterCommitLabels,
      environmentVars, databaseVars, serviceVars, channelVars, stripeVars, manualVars, warningsVars
<1> QED
  BY <1>0, <1>1, <1>2, <1>3, TaskMoves DEF ThankSender, OthersStay,
      environmentVars, databaseVars, serviceVars, channelVars, stripeVars, manualVars, warningsVars

\* The admin asks for a fresh link (admin_invite).
LEMMA AdminInviteStep ==
    ASSUME GrantInv, NEW t \in Task, NEW u \in TelegramId, AdminInvite(t, u),
           UNCHANGED <<stripeVars, warningsVars, kick>>
    PROVE  GrantInv'
<1>0. TypeOK /\ RowsOK /\ HandlerOK(t) /\ Ledger /\ TaskTyped
  BY DEF GrantInv, TypeOK, ServiceTypeOK, TaskTyped
<1>1. /\ TaskTyped' /\ OthersStay(t)
      /\ task'[t].pc = "invite" /\ task'[t].ref = None /\ task'[t].user = u
      /\ task'[t].sub = None /\ task'[t].pending = None
  BY <1>0, BeginTask DEF AdminInvite, Label
<1>2. TypeOK'
  BY <1>0, <1>1 DEF AdminInvite, TaskTyped,
      TypeOK, EnvironmentTypeOK, DatabaseTypeOK, ServiceTypeOK, ChannelTypeOK, StripeTypeOK,
      ManualTypeOK, WarningsTypeOK, KickTypeOK,
      environmentVars, databaseVars, serviceVars, channelVars, stripeVars, manualVars, warningsVars, FaultOccurs
<1>3. HandlerOK(t)'
  BY <1>0, <1>1 DEF AdminInvite, HandlerOK, LocalsOK, ChosenRow, Confirmation, Screenshot, Recording, At,
      ServiceLabels, SavingLabels, SavedLabels, InviteLabels, LockingLabels, AfterCommitLabels,
      environmentVars, databaseVars, serviceVars, channelVars, stripeVars, manualVars, warningsVars
<1> QED
  BY <1>0, <1>1, <1>2, <1>3, TaskMoves DEF AdminInvite, OthersStay,
      environmentVars, databaseVars, serviceVars, channelVars, stripeVars, manualVars, warningsVars

\* The link is created, or the refusal is reported (admin_invite).
LEMMA CreateFreshLinkStep ==
    ASSUME GrantInv, NEW t \in Task, CreateFreshLink(t),
           UNCHANGED <<stripeVars, warningsVars, kick>>
    PROVE  GrantInv'
<1>0. TypeOK /\ RowsOK /\ HandlerOK(t) /\ Ledger /\ TaskTyped
  BY DEF GrantInv, TypeOK, ServiceTypeOK, TaskTyped
<1>1. /\ TaskTyped' /\ OthersStay(t)
      /\ \/ task'[t].pc = "idle"
         \/ task'[t].pc = "send_invite" /\ task'[t].user = task[t].user
      /\ task'[t].sub \in {None, task[t].sub}
  BY <1>0, EndTask, GotoTask DEF CreateFreshLink, Label
<1>2. TypeOK'
  BY <1>0, <1>1 DEF CreateFreshLink, TaskTyped,
      TypeOK, EnvironmentTypeOK, DatabaseTypeOK, ServiceTypeOK, ChannelTypeOK, StripeTypeOK,
      ManualTypeOK, WarningsTypeOK, KickTypeOK,
      environmentVars, databaseVars, serviceVars, channelVars, stripeVars, manualVars, warningsVars, FaultOccurs
<1>3. HandlerOK(t)'
  BY <1>0, <1>1 DEF CreateFreshLink, HandlerOK, LocalsOK, ChosenRow, Confirmation, Screenshot,
      Recording, At, ServiceLabels, SavingLabels, SavedLabels, InviteLabels, LockingLabels,
      AfterCommitLabels
<1> QED
  BY <1>0, <1>1, <1>2, <1>3, TaskMoves DEF CreateFreshLink, OthersStay,
      environmentVars, databaseVars, serviceVars, channelVars, stripeVars, manualVars, warningsVars

\* The payer gets the link, from the bot or from the admin (admin_invite).
LEMMA SendFreshLinkStep ==
    ASSUME GrantInv, NEW t \in Task, SendFreshLink(t),
           UNCHANGED <<stripeVars, warningsVars, kick>>
    PROVE  GrantInv'
<1>0. TypeOK /\ RowsOK /\ HandlerOK(t) /\ Ledger /\ TaskTyped
  BY DEF GrantInv, TypeOK, ServiceTypeOK, TaskTyped
<1>1. /\ TaskTyped' /\ OthersStay(t)
      /\ task'[t].pc = "idle" /\ task'[t].sub = None
  BY <1>0, EndTask DEF SendFreshLink
<1>2. links' \in [TelegramId -> Nat]
  <2>1. links \in [TelegramId -> Nat]
    BY <1>0 DEF TypeOK, ChannelTypeOK
  <2> QED
    BY <2>1 DEF SendFreshLink, HandLink
<1>3. TypeOK'
  BY <1>0, <1>1, <1>2 DEF SendFreshLink, TaskTyped,
      TypeOK, EnvironmentTypeOK, DatabaseTypeOK, ServiceTypeOK, ChannelTypeOK, StripeTypeOK,
      ManualTypeOK, WarningsTypeOK, KickTypeOK,
      environmentVars, databaseVars, serviceVars, channelVars, stripeVars, manualVars, warningsVars, FaultOccurs
<1>4. HandlerOK(t)'
  BY <1>0, <1>1 DEF HandlerOK, LocalsOK, ChosenRow, Confirmation, Screenshot,
      Recording, At, ServiceLabels, SavingLabels, SavedLabels, InviteLabels, LockingLabels,
      AfterCommitLabels
<1> QED
  BY <1>0, <1>1, <1>3, <1>4, TaskMoves DEF SendFreshLink, OthersStay,
      environmentVars, databaseVars, serviceVars, channelVars, stripeVars, manualVars, warningsVars

\* Only payments are left unconfirmed (LeaveUntold).
LEMMA UntoldTyped ==
    ASSUME GrantInv, NEW handlers \in SUBSET Task, LeaveUntold(handlers)
    PROVE  untold' \subseteq Ref
<1>1. \A t \in handlers : Confirming(t) => task[t].ref \in Ref
  BY DEF GrantInv, HandlerOK, LocalsOK, Confirming
<1> QED
  BY <1>1 DEF LeaveUntold, GrantInv, TypeOK, ChannelTypeOK

\* A rollback leaves the tables as they were committed.
LEMMA TransactionFailsStep ==
    ASSUME GrantInv, NEW t \in Task, TransactionFails(t), LeaveUntold({t}),
           UNCHANGED <<members, banned, links, told, leftBanned>>,
           UNCHANGED <<stripeVars, manualVars, warningsVars, kick>>
    PROVE  GrantInv'
<1>0. TypeOK /\ RowsOK /\ HandlerOK(t) /\ Ledger /\ TaskTyped
  BY DEF GrantInv, TypeOK, ServiceTypeOK, TaskTyped
<1>1. /\ TaskTyped' /\ OthersStay(t)
      /\ task'[t].pc = "idle" /\ task'[t].sub = None
  BY <1>0, EndTask DEF TransactionFails, End
<1>2. untold' \subseteq Ref
  BY UntoldTyped
<1>4. TypeOK'
  BY <1>0, <1>1, <1>2 DEF TransactionFails, TaskTyped,
      TypeOK, EnvironmentTypeOK, DatabaseTypeOK, ServiceTypeOK, ChannelTypeOK, StripeTypeOK,
      ManualTypeOK, WarningsTypeOK, KickTypeOK,
      environmentVars, databaseVars, stripeVars, manualVars, warningsVars, FaultOccurs
<1>5. HandlerOK(t)'
  BY <1>0, <1>1 DEF TransactionFails, HandlerOK, LocalsOK, ChosenRow, Confirmation, Screenshot, Recording, At,
      ServiceLabels, SavingLabels, SavedLabels, InviteLabels, LockingLabels, AfterCommitLabels,
      environmentVars, databaseVars, serviceVars, channelVars, stripeVars, manualVars, warningsVars
<1> QED
  BY <1>0, <1>1, <1>4, <1>5, TaskMoves DEF TransactionFails, OthersStay,
      environmentVars, databaseVars, serviceVars, channelVars, stripeVars, manualVars, warningsVars

\* The webhook answers 200 (handle_stripe_webhook).
LEMMA RespondOKStep ==
    ASSUME GrantInv, NEW t \in Task, RespondOK(t),
           UNCHANGED <<manualVars, warningsVars, kick>>
    PROVE  GrantInv'
<1>0. TypeOK /\ RowsOK /\ HandlerOK(t) /\ Ledger /\ TaskTyped
  BY DEF GrantInv, TypeOK, ServiceTypeOK, TaskTyped
<1>1. /\ TaskTyped' /\ OthersStay(t)
      /\ task'[t].pc = "idle" /\ task'[t].sub = None
  BY <1>0, EndTask DEF RespondOK, End
<1>2. TypeOK'
  BY <1>0, <1>1 DEF RespondOK, TaskTyped,
      TypeOK, EnvironmentTypeOK, DatabaseTypeOK, ServiceTypeOK, ChannelTypeOK, StripeTypeOK,
      ManualTypeOK, WarningsTypeOK, KickTypeOK,
      environmentVars, databaseVars, serviceVars, channelVars, stripeVars, manualVars, warningsVars, Acknowledge, At, HandlerOK, LocalsOK
<1>3. HandlerOK(t)'
  BY <1>0, <1>1 DEF RespondOK, HandlerOK, LocalsOK, ChosenRow, Confirmation, Screenshot, Recording, At,
      ServiceLabels, SavingLabels, SavedLabels, InviteLabels, LockingLabels, AfterCommitLabels,
      environmentVars, databaseVars, serviceVars, channelVars, stripeVars, manualVars, warningsVars
<1> QED
  BY <1>0, <1>1, <1>2, <1>3, TaskMoves DEF RespondOK, OthersStay,
      environmentVars, databaseVars, serviceVars, channelVars, stripeVars, manualVars, warningsVars

\* A screenshot is handed to a handler, once (receive_screenshot).
LEMMA ReceiveScreenshotStep ==
    ASSUME GrantInv, NEW t \in Task, NEW m \in Message, ReceiveScreenshot(t, m),
           UNCHANGED <<stripeVars, warningsVars, kick>>
    PROVE  GrantInv'
<1>0. TypeOK /\ RowsOK /\ HandlerOK(t) /\ Ledger /\ TaskTyped
  BY DEF GrantInv, TypeOK, ServiceTypeOK, TaskTyped
<1>1. /\ TaskTyped' /\ OthersStay(t)
      /\ task'[t].pc = "save_user" /\ task'[t].ref = m /\ task'[t].user = Sender[m]
      /\ task'[t].sub = None /\ task'[t].pending = None
  BY <1>0, BeginTask, SenderAssumption DEF ReceiveScreenshot, Label, Ref
<1>2. TypeOK'
  BY <1>0, <1>1 DEF ReceiveScreenshot, TaskTyped,
      TypeOK, EnvironmentTypeOK, DatabaseTypeOK, ServiceTypeOK, ChannelTypeOK, StripeTypeOK,
      ManualTypeOK, WarningsTypeOK, KickTypeOK,
      environmentVars, databaseVars, serviceVars, channelVars, stripeVars, manualVars, warningsVars
<1>3. payments[m] = None
  BY <1>0 DEF ReceiveScreenshot, Ledger
<1>4. \A other \in Task \ {t} :
         task'[other].pc \in SavingLabels => task'[other].ref \in received
  BY <1>1 DEF GrantInv, HandlerOK, Screenshot, OthersStay
<1>5. Screenshot(t)'
  BY <1>1, <1>3, <1>4 DEF ReceiveScreenshot, Screenshot, SavingLabels, databaseVars
<1>6. LocalsOK(t)' /\ ChosenRow(t)' /\ Confirmation(t)' /\ Recording(t)'
  BY <1>1, SenderAssumption DEF LocalsOK, ChosenRow, Confirmation, Recording, At,
      ServiceLabels, SavingLabels, SavedLabels, InviteLabels, LockingLabels, AfterCommitLabels, Ref
<1> QED
  BY <1>1, <1>2, <1>5, <1>6, TaskMoves DEF ReceiveScreenshot, OthersStay, HandlerOK,
      environmentVars, databaseVars, serviceVars, channelVars, stripeVars, manualVars, warningsVars

\* The row to activate is an opened one of the payer, or a reserved one
\* (_find_or_create_subscription).
LEMMA FindOrCreateSubscriptionStep ==
    ASSUME GrantInv, NEW t \in Task, FindOrCreateSubscription(t),
           UNCHANGED <<channelVars, stripeVars, manualVars, warningsVars, kick>>
    PROVE  GrantInv'
<1>0. TypeOK /\ RowsOK /\ HandlerOK(t) /\ Ledger /\ TaskTyped
  BY DEF GrantInv, TypeOK, ServiceTypeOK, TaskTyped
<1>1. /\ task[t].pc = "find_live" /\ task[t].user \in TelegramId
      /\ task[t].ref \in Session \cup Uuid
  BY <1>0 DEF FindOrCreateSubscription, At, HandlerOK, LocalsOK, ServiceLabels, SavingLabels, SavedLabels, InviteLabels, LockingLabels, AfterCommitLabels
<1>2. PICK r \in SubId, row \in Row :
         /\ ChooseRow(t, r, row, "insert_payment")
         /\ \/ row = subs[r] /\ Opened(subs[r]) /\ subs[r].user = task[t].user
            \/ r \in FreeIds /\ row = PendingRow(task[t].user)
  <2>1. CASE \E r \in SubId : IsLatestLive(r, task[t].user)
                              /\ ChooseRow(t, r, subs[r], "insert_payment")
    BY <2>1, <1>0 DEF IsLatestLive, LiveOf, LiveStatuses, Opened, TypeOK, DatabaseTypeOK
  <2>2. CASE \E r \in FreeIds : ChooseRow(t, r, PendingRow(task[t].user), "insert_payment")
    <3>1. PendingRow(task[t].user) \in Row
      BY <1>1 DEF PendingRow, Row, Status
    <3> QED
      BY <2>2, <3>1 DEF FreeIds
  <2> QED
    BY <2>1, <2>2 DEF FindOrCreateSubscription
<1>3. /\ TaskTyped' /\ OthersStay(t)
      /\ task'[t].pc = "insert_payment" /\ task'[t].ref = task[t].ref
      /\ task'[t].user = task[t].user /\ task'[t].sub = r
      /\ task'[t].row = row /\ task'[t].pending = task[t].pending
  BY <1>0, <1>2, ChooseTask DEF Label
<1>4. raced' \subseteq TelegramId
  BY <1>0, <1>1, <1>2, NoteRaceType DEF ChooseRow, TypeOK, ServiceTypeOK
<1>5. TypeOK'
  BY <1>0, <1>3, <1>4 DEF FindOrCreateSubscription, TaskTyped,
      TypeOK, EnvironmentTypeOK, DatabaseTypeOK, ServiceTypeOK, ChannelTypeOK, StripeTypeOK,
      ManualTypeOK, WarningsTypeOK, KickTypeOK,
      environmentVars, databaseVars, serviceVars, channelVars, stripeVars, manualVars, warningsVars
<1>6. subs[r] # NoRow \/ \A other \in Task : task[other].sub # r
  BY <1>2 DEF Opened, NoRow, FreeIds
<1>7. UNCHANGED <<subs, payments>>
  BY DEF FindOrCreateSubscription, databaseVars
<1>8. ChosenRow(t)'
  BY <1>0, <1>1, <1>2, <1>3, <1>7 DEF ChosenRow, RowsOK, FreeIds, OthersStay
<1>9. LocalsOK(t)' /\ Confirmation(t)' /\ Screenshot(t)' /\ Recording(t)'
  BY <1>1, <1>3 DEF LocalsOK, Confirmation, Screenshot, Recording, At,
      ServiceLabels, SavingLabels, SavedLabels, InviteLabels, LockingLabels, AfterCommitLabels
<1> QED
  BY <1>3, <1>5, <1>6, <1>8, <1>9, TaskMoves DEF FindOrCreateSubscription, OthersStay, HandlerOK,
      environmentVars, databaseVars, serviceVars, channelVars, stripeVars, manualVars, warningsVars

\* The row to activate is an opened one of the payer, or the locked
\* placeholder (confirm_manual_payment).
LEMMA FindRenewableStep ==
    ASSUME GrantInv, NEW t \in Task, FindRenewable(t),
           UNCHANGED <<channelVars, stripeVars, manualVars, warningsVars, kick>>
    PROVE  GrantInv'
<1>0. TypeOK /\ RowsOK /\ HandlerOK(t) /\ Ledger /\ TaskTyped
  BY DEF GrantInv, TypeOK, ServiceTypeOK, TaskTyped
<1>1. /\ task[t].pc = "find_renewable" /\ task[t].user \in TelegramId
      /\ task[t].ref \in Ref /\ task[t].pending \in SubId
      /\ task[t].row = PendingRow(task[t].user)
      /\ subs[task[t].pending] = PendingRow(task[t].user)
      /\ payments[task[t].ref] = task[t].pending
      /\ \A other \in Task : task[other].pc \in LockingLabels
            /\ task[other].pending = task[t].pending => other = t
  BY <1>0 DEF FindRenewable, At, HandlerOK, Confirmation, LocalsOK, ServiceLabels, SavingLabels, SavedLabels, InviteLabels, LockingLabels, AfterCommitLabels
<1>2. PICK r \in SubId, row \in Row :
         /\ ChooseRow(t, r, row, "confirm_activate")
         /\ \/ row = subs[r] /\ Opened(subs[r]) /\ subs[r].user = task[t].user
            \/ r = task[t].pending /\ row = PendingRow(task[t].user)
  <2>1. CASE \E r \in SubId : IsLatestLive(r, task[t].user)
                              /\ ChooseRow(t, r, subs[r], "confirm_activate")
    BY <2>1, <1>0 DEF IsLatestLive, LiveOf, LiveStatuses, Opened, TypeOK, DatabaseTypeOK
  <2>2. CASE ChooseRow(t, task[t].pending, task[t].row, "confirm_activate")
    BY <2>2, <1>0, <1>1 DEF TypeOK, DatabaseTypeOK
  <2> QED
    BY <2>1, <2>2 DEF FindRenewable
<1>3. /\ TaskTyped' /\ OthersStay(t)
      /\ task'[t].pc = "confirm_activate" /\ task'[t].ref = task[t].ref
      /\ task'[t].user = task[t].user /\ task'[t].sub = r
      /\ task'[t].row = row /\ task'[t].pending = task[t].pending
  BY <1>0, <1>2, ChooseTask DEF Label
<1>4. raced' \subseteq TelegramId
  BY <1>0, <1>1, <1>2, NoteRaceType DEF ChooseRow, TypeOK, ServiceTypeOK
<1>5. TypeOK'
  BY <1>0, <1>3, <1>4 DEF FindRenewable, TaskTyped,
      TypeOK, EnvironmentTypeOK, DatabaseTypeOK, ServiceTypeOK, ChannelTypeOK, StripeTypeOK,
      ManualTypeOK, WarningsTypeOK, KickTypeOK,
      environmentVars, databaseVars, serviceVars, channelVars, stripeVars, manualVars, warningsVars
<1>6. subs[r] # NoRow
  BY <1>1, <1>2 DEF Opened, NoRow, PendingRow
<1>7. UNCHANGED <<subs, payments>>
  BY DEF FindRenewable, databaseVars
<1>8. ChosenRow(t)'
  BY <1>0, <1>1, <1>2, <1>3, <1>7 DEF ChosenRow, RowsOK
<1>9. Confirmation(t)'
  BY <1>1, <1>3, <1>7 DEF Confirmation, OthersStay, LockingLabels
<1>10. LocalsOK(t)' /\ Screenshot(t)' /\ Recording(t)'
  BY <1>1, <1>3 DEF LocalsOK, Screenshot, Recording, At,
      ServiceLabels, SavingLabels, SavedLabels, InviteLabels, LockingLabels, AfterCommitLabels
<1> QED
  BY <1>3, <1>5, <1>6, <1>8, <1>9, <1>10, TaskMoves DEF FindRenewable, OthersStay, HandlerOK,
      environmentVars, databaseVars, serviceVars, channelVars, stripeVars, manualVars, warningsVars

\* The unique constraint lets one transaction per ref through
\* (PaymentRepository.create).
LEMMA CreatePaymentStep ==
    ASSUME GrantInv, NEW t \in Task, CreatePayment(t),
           UNCHANGED <<channelVars, stripeVars, manualVars, warningsVars, kick>>
    PROVE  GrantInv'
<1>0. TypeOK /\ RowsOK /\ HandlerOK(t) /\ Ledger /\ TaskTyped
  BY DEF GrantInv, TypeOK, ServiceTypeOK, TaskTyped
<1>1. /\ task[t].pc = "insert_payment" /\ task[t].user \in TelegramId /\ task[t].sub \in SubId
      /\ task[t].ref \in Session \cup Uuid
  BY <1>0 DEF CreatePayment, At, HandlerOK, LocalsOK, ServiceLabels, SavingLabels, SavedLabels, InviteLabels, LockingLabels, AfterCommitLabels
<1>2. UNCHANGED <<subs, payments, grants, grantedAt, now, faults, users, raced>>
  BY DEF CreatePayment, environmentVars, databaseVars
<1>3. CASE payments[task[t].ref] = None /\ Goto(t, "activate")
  <2>1. /\ TaskTyped' /\ OthersStay(t)
        /\ task'[t].pc = "activate" /\ task'[t].ref = task[t].ref
        /\ task'[t].user = task[t].user /\ task'[t].sub = task[t].sub
        /\ task'[t].row = task[t].row /\ task'[t].pending = task[t].pending
    BY <1>0, <1>3, GotoTask DEF Label
  <2>2. TypeOK'
    BY <1>0, <1>2, <2>1 DEF TaskTyped,
        TypeOK, EnvironmentTypeOK, DatabaseTypeOK, ServiceTypeOK, ChannelTypeOK, StripeTypeOK,
      ManualTypeOK, WarningsTypeOK, KickTypeOK,
        channelVars, stripeVars, manualVars, warningsVars
  <2>3. ChosenRow(t)'
    BY <1>0, <1>1, <1>2, <2>1 DEF HandlerOK, ChosenRow, OthersStay
  <2>4. Recording(t)'
    BY <1>2, <1>3, <2>1 DEF CreatePayment, Recording, At, OthersStay
  <2>5. LocalsOK(t)' /\ Confirmation(t)' /\ Screenshot(t)'
    BY <1>1, <2>1 DEF LocalsOK, Confirmation, Screenshot, At,
        ServiceLabels, SavingLabels, SavedLabels, InviteLabels, LockingLabels, AfterCommitLabels
  <2> QED
    BY <1>2, <2>1, <2>2, <2>3, <2>4, <2>5, TaskMoves DEF OthersStay, HandlerOK,
        manualVars, warningsVars
<1>4. CASE task' = [task EXCEPT ![t] = Starting("duplicate", task[t].ref, None, None)]
  <2>1. TaskTyped' /\ OthersStay(t) /\ task'[t].pc = "duplicate" /\ task'[t].sub = None
    <3>1. task[t].ref \in Ref \cup {None} /\ "duplicate" \in Label
      BY <1>1 DEF Label, Ref
    <3> QED
      BY <1>0, <1>4, <3>1, BeginTask
  <2>2. TypeOK'
    BY <1>0, <1>2, <2>1 DEF TaskTyped,
        TypeOK, EnvironmentTypeOK, DatabaseTypeOK, ServiceTypeOK, ChannelTypeOK, StripeTypeOK,
      ManualTypeOK, WarningsTypeOK, KickTypeOK,
        channelVars, stripeVars, manualVars, warningsVars
  <2>3. HandlerOK(t)'
    BY <2>1 DEF HandlerOK, LocalsOK, ChosenRow, Confirmation, Screenshot, Recording, At,
      ServiceLabels, SavingLabels, SavedLabels, InviteLabels, LockingLabels, AfterCommitLabels
  <2> QED
    BY <1>2, <2>1, <2>2, <2>3, TaskMoves DEF OthersStay, manualVars, warningsVars
<1> QED
  BY <1>3, <1>4 DEF CreatePayment

\* FOR UPDATE, then the already-processed check (confirm_manual_payment).
LEMMA LockPlaceholderStep ==
    ASSUME GrantInv, NEW t \in Task, LockPlaceholder(t),
           UNCHANGED <<channelVars, stripeVars, manualVars, warningsVars, kick>>
    PROVE  GrantInv'
<1>0. TypeOK /\ RowsOK /\ HandlerOK(t) /\ Ledger /\ TaskTyped
  BY DEF GrantInv, TypeOK, ServiceTypeOK, TaskTyped
<1>1. task[t].pc = "lock" /\ task[t].pending \in SubId
  BY <1>0 DEF LockPlaceholder, At, HandlerOK, LocalsOK, ServiceLabels, SavingLabels, SavedLabels, InviteLabels, LockingLabels, AfterCommitLabels
<1>2. UNCHANGED <<subs, payments, grants, grantedAt, now, faults, users, raced>>
  BY DEF LockPlaceholder, environmentVars, databaseVars
<1>3. ASSUME NEW p \in Ref, payments[p] = task[t].pending, subs[task[t].pending].status = "pending",
             task' = [task EXCEPT ![t].pc = "find_renewable", ![t].ref = p,
                                  ![t].user = subs[task[t].pending].user,
                                  ![t].row = subs[task[t].pending]]
      PROVE  GrantInv'
  <2> DEFINE r == task[t].pending
             new == [task[t] EXCEPT !.pc = "find_renewable", !.ref = p,
                                    !.user = subs[r].user, !.row = subs[r]]
  <2>1. subs[r].user \in TelegramId /\ subs[r] \in Row /\ subs[r] = PendingRow(subs[r].user)
    BY <1>0, <1>1, <1>3 DEF RowsOK, RowOK, TypeOK, DatabaseTypeOK
  <2>2. new \in TaskRecord
    BY <1>0, <2>1 DEF TaskTyped, TaskRecord, Label
  <2>3. task' = [task EXCEPT ![t] = new]
    BY <1>3
  <2>4. TaskTyped' /\ OthersStay(t) /\ task'[t] = new
    BY <1>0, <2>2, <2>3, SetTask
  <2>5. /\ task'[t].pc = "find_renewable" /\ task'[t].ref = p /\ task'[t].user = subs[r].user
        /\ task'[t].sub = task[t].sub /\ task'[t].row = subs[r] /\ task'[t].pending = r
    BY <1>0, <2>4 DEF TaskTyped, TaskRecord
  <2>6. TypeOK'
    BY <1>0, <1>2, <2>4 DEF TaskTyped,
        TypeOK, EnvironmentTypeOK, DatabaseTypeOK, ServiceTypeOK, ChannelTypeOK, StripeTypeOK,
      ManualTypeOK, WarningsTypeOK, KickTypeOK,
        channelVars, stripeVars, manualVars, warningsVars
  <2>7. Confirmation(t)'
    <3>1. \A other \in Task : ~Locks(other, r)
      BY DEF LockPlaceholder
    <3>2. \A other \in Task : task'[other].pc \in LockingLabels /\ task'[other].pending = r
                                => other = t
      BY <2>4, <3>1 DEF Locks, OthersStay, LockingLabels
    <3>3. task'[t].row = PendingRow(task'[t].user) /\ subs'[r] = PendingRow(task'[t].user)
      BY <1>2, <2>1, <2>5
    <3> QED
      BY <1>2, <1>3, <2>5, <3>2, <3>3 DEF Confirmation
  <2>8. LocalsOK(t)' /\ ChosenRow(t)' /\ Screenshot(t)' /\ Recording(t)'
    BY <1>1, <2>1, <2>5 DEF LocalsOK, ChosenRow, Screenshot, Recording, At,
        ServiceLabels, SavingLabels, SavedLabels, InviteLabels, LockingLabels, AfterCommitLabels
  <2> QED
    BY <1>2, <2>4, <2>5, <2>6, <2>7, <2>8, TaskMoves DEF OthersStay, HandlerOK,
        manualVars, warningsVars
<1>4. CASE End(t)
  <2>1. TaskTyped' /\ OthersStay(t) /\ task'[t].pc = "idle" /\ task'[t].sub = None
    BY <1>0, <1>4, EndTask
  <2>2. TypeOK'
    BY <1>0, <1>2, <2>1 DEF TaskTyped,
        TypeOK, EnvironmentTypeOK, DatabaseTypeOK, ServiceTypeOK, ChannelTypeOK, StripeTypeOK,
      ManualTypeOK, WarningsTypeOK, KickTypeOK,
        channelVars, stripeVars, manualVars, warningsVars
  <2>3. HandlerOK(t)'
    BY <2>1 DEF HandlerOK, LocalsOK, ChosenRow, Confirmation, Screenshot, Recording, At,
      ServiceLabels, SavingLabels, SavedLabels, InviteLabels, LockingLabels, AfterCommitLabels
  <2> QED
    BY <1>2, <2>1, <2>2, <2>3, TaskMoves DEF OthersStay, manualVars, warningsVars
<1> QED
  BY <1>3, <1>4 DEF LockPlaceholder

\* The invite link touches nothing the invariant speaks of.
LEMMA CreateInviteLinkStep ==
    ASSUME GrantInv, NEW t \in Task, CreateInviteLink(t),
           UNCHANGED <<stripeVars, manualVars, warningsVars, kick>>
    PROVE  GrantInv'
<1>0. TypeOK /\ RowsOK /\ HandlerOK(t) /\ Ledger /\ TaskTyped
  BY DEF GrantInv, TypeOK, ServiceTypeOK, TaskTyped
<1>1. /\ task[t].pc = "create_link" /\ task[t].user \in TelegramId /\ task[t].ref \in Ref
  BY <1>0 DEF CreateInviteLink, At, HandlerOK, LocalsOK, ServiceLabels, SavingLabels, SavedLabels, InviteLabels, LockingLabels, AfterCommitLabels
<1>2. PICK label \in {"send_link", "confirm_access"} : Goto(t, label)
  BY DEF CreateInviteLink
<1>3. /\ TaskTyped' /\ OthersStay(t)
      /\ task'[t].pc = label /\ task'[t].ref = task[t].ref
      /\ task'[t].user = task[t].user /\ task'[t].sub = task[t].sub
      /\ task'[t].row = task[t].row /\ task'[t].pending = task[t].pending
  BY <1>0, <1>2, GotoTask DEF Label
<1>4. TypeOK'
  BY <1>0, <1>3 DEF CreateInviteLink, TaskTyped, FaultOccurs,
      TypeOK, EnvironmentTypeOK, DatabaseTypeOK, ServiceTypeOK, ChannelTypeOK, StripeTypeOK,
      ManualTypeOK, WarningsTypeOK, KickTypeOK,
      environmentVars, databaseVars, serviceVars, channelVars, stripeVars, manualVars, warningsVars
<1>5. HandlerOK(t)'
  BY <1>1, <1>3 DEF HandlerOK, LocalsOK, ChosenRow, Confirmation, Screenshot, Recording, At,
      ServiceLabels, SavingLabels, SavedLabels, InviteLabels, LockingLabels, AfterCommitLabels
<1> QED
  BY <1>3, <1>4, <1>5, TaskMoves DEF CreateInviteLink, OthersStay,
      environmentVars, databaseVars, serviceVars, channelVars, stripeVars, manualVars, warningsVars

\* The confirmation touches nothing the invariant speaks of.
LEMMA SendConfirmationStep ==
    ASSUME GrantInv, NEW t \in Task, SendConfirmation(t),
           UNCHANGED <<stripeVars, manualVars, warningsVars, kick>>
    PROVE  GrantInv'
<1>0. TypeOK /\ RowsOK /\ HandlerOK(t) /\ Ledger /\ TaskTyped
  BY DEF GrantInv, TypeOK, ServiceTypeOK, TaskTyped
<1>1. /\ task[t].user \in TelegramId /\ task[t].ref \in Ref
  BY <1>0 DEF SendConfirmation, HandlerOK, LocalsOK, ServiceLabels, SavingLabels, SavedLabels, InviteLabels, LockingLabels, AfterCommitLabels
<1>2. UNCHANGED <<now, users, subs, payments, grants, grantedAt, raced, members, banned, leftBanned>>
  BY DEF SendConfirmation, databaseVars
<1>3. /\ faults' \in Nat /\ told' \subseteq Ref /\ untold' \subseteq Ref
      /\ links' \in [TelegramId -> Nat]
  BY <1>0, <1>1 DEF SendConfirmation, HandLink, FaultOccurs, LeaveUntold, TypeOK,
      EnvironmentTypeOK, ChannelTypeOK
<1>4. CASE task[t].ref \in Session /\ Goto(t, "respond")
  <2>1. /\ TaskTyped' /\ OthersStay(t)
        /\ task'[t].pc = "respond" /\ task'[t].ref = task[t].ref /\ task'[t].sub = task[t].sub
    BY <1>0, <1>4, GotoTask DEF Label
  <2>2. TypeOK'
    BY <1>0, <1>2, <1>3, <2>1 DEF TaskTyped,
        TypeOK, EnvironmentTypeOK, DatabaseTypeOK, ServiceTypeOK, ChannelTypeOK, StripeTypeOK,
      ManualTypeOK, WarningsTypeOK, KickTypeOK,
        stripeVars, manualVars, warningsVars
  <2>3. HandlerOK(t)'
    BY <1>4, <2>1 DEF HandlerOK, LocalsOK, ChosenRow, Confirmation, Screenshot, Recording, At,
      ServiceLabels, SavingLabels, SavedLabels, InviteLabels, LockingLabels, AfterCommitLabels
  <2> QED
    BY <1>2, <2>1, <2>2, <2>3, TaskMoves DEF OthersStay, manualVars, warningsVars
<1>5. CASE End(t)
  <2>1. TaskTyped' /\ OthersStay(t) /\ task'[t].pc = "idle" /\ task'[t].sub = None
    BY <1>0, <1>5, EndTask
  <2>2. TypeOK'
    BY <1>0, <1>2, <1>3, <2>1 DEF TaskTyped,
        TypeOK, EnvironmentTypeOK, DatabaseTypeOK, ServiceTypeOK, ChannelTypeOK, StripeTypeOK,
      ManualTypeOK, WarningsTypeOK, KickTypeOK,
        stripeVars, manualVars, warningsVars
  <2>3. HandlerOK(t)'
    BY <2>1 DEF HandlerOK, LocalsOK, ChosenRow, Confirmation, Screenshot, Recording, At,
      ServiceLabels, SavingLabels, SavedLabels, InviteLabels, LockingLabels, AfterCommitLabels
  <2> QED
    BY <1>2, <2>1, <2>2, <2>3, TaskMoves DEF OthersStay, manualVars, warningsVars
<1> QED
  BY <1>4, <1>5 DEF SendConfirmation

-----------------------------------------------------------------------------
(* Steps that write the tables.                                            *)

\* The handlers that wait while t writes the row r and moves on keep what
\* they rely on, if none of them has reserved, locked or is saving r.
LEMMA OtherKept ==
    ASSUME GrantInv, NEW t \in Task, NEW other \in Task \ {t}, NEW r \in SubId,
           OthersStay(t), received' = received,
           \A q \in SubId \ {r} : subs'[q] = subs[q],
           Opened(subs[r]) => Opened(subs'[r]) /\ subs'[r].user = subs[r].user,
           subs[r] # NoRow \/ task[other].sub # r,
           ~(task[other].pc \in LockingLabels \cup {"save_payment"} /\ task[other].pending = r),
           task[other].pc \in LockingLabels \cup SavingLabels \cup {"activate"}
               => payments'[task[other].ref] = payments[task[other].ref],
           At(other, "save_payment") => \A p \in Ref : payments'[p] # task[other].pending,
           task'[t].sub \in {None, task[t].sub},
           task'[t].pc \notin LockingLabels \cup {"activate"},
           task'[t].pc \in SavingLabels
               => task[t].pc \in SavingLabels /\ task'[t].ref = task[t].ref,
           task'[t].pc = "save_payment" => task'[t].pending = r
    PROVE  HandlerOK(other)'
<1>1. task'[other] = task[other] /\ HandlerOK(other)
  BY DEF GrantInv, OthersStay
<1>2. LocalsOK(other)'
  BY <1>1 DEF HandlerOK, LocalsOK
<1>3. ChosenRow(other)'
  <2>1. CASE task[other].pc \in {"insert_payment", "activate"}
    BY <1>1, <2>1, DatabaseAssumption DEF HandlerOK, ChosenRow, LocalsOK, OthersStay
  <2>2. CASE task[other].pc = "confirm_activate"
    BY <1>1, <2>2 DEF HandlerOK, ChosenRow, LocalsOK
  <2> QED
    BY <1>1, <2>1, <2>2 DEF ChosenRow
<1>4. Confirmation(other)'
  BY <1>1 DEF HandlerOK, Confirmation, LocalsOK, OthersStay
<1>5. Screenshot(other)'
  BY <1>1 DEF HandlerOK, Screenshot, LocalsOK, OthersStay, At, SavingLabels, SavedLabels, InviteLabels, LockingLabels
<1>6. Recording(other)'
  BY <1>1 DEF HandlerOK, Recording, OthersStay, At
<1> QED
  BY <1>2, <1>3, <1>4, <1>5, <1>6 DEF HandlerOK

\* The first commit of receive_screenshot.
LEMMA SaveUserStep ==
    ASSUME GrantInv, NEW t \in Task, SaveUser(t),
           UNCHANGED <<stripeVars, warningsVars, kick>>
    PROVE  GrantInv'
<1>0. TypeOK /\ RowsOK /\ HandlerOK(t) /\ Ledger /\ TaskTyped
  BY DEF GrantInv, TypeOK, ServiceTypeOK, TaskTyped
<1>1. /\ task[t].pc = "save_user" /\ task[t].user \in TelegramId /\ task[t].ref \in Message
  BY <1>0 DEF SaveUser, At, HandlerOK, LocalsOK, ServiceLabels, SavingLabels, SavedLabels, InviteLabels, LockingLabels, AfterCommitLabels
<1>2. /\ TaskTyped' /\ OthersStay(t)
      /\ task'[t].pc = "save_placeholder" /\ task'[t].ref = task[t].ref
      /\ task'[t].user = task[t].user /\ task'[t].sub = task[t].sub
      /\ task'[t].row = task[t].row /\ task'[t].pending = task[t].pending
  BY <1>0, GotoTask DEF SaveUser, Label
<1>3. TypeOK'
  BY <1>0, <1>1, <1>2 DEF SaveUser, TaskTyped,
      TypeOK, EnvironmentTypeOK, DatabaseTypeOK, ServiceTypeOK, ChannelTypeOK, StripeTypeOK,
      ManualTypeOK, WarningsTypeOK, KickTypeOK,
      environmentVars, databaseVars, serviceVars, channelVars, stripeVars, manualVars, warningsVars
<1>4. Screenshot(t)'
  BY <1>0, <1>1, <1>2 DEF SaveUser, HandlerOK, Screenshot, SavingLabels, OthersStay, manualVars
<1>5. LocalsOK(t)' /\ ChosenRow(t)' /\ Confirmation(t)' /\ Recording(t)'
  BY <1>1, <1>2 DEF LocalsOK, ChosenRow, Confirmation, Recording, At,
      ServiceLabels, SavingLabels, SavedLabels, InviteLabels, LockingLabels, AfterCommitLabels
<1> QED
  BY <1>2, <1>3, <1>4, <1>5, TaskMoves DEF SaveUser, OthersStay, HandlerOK,
      environmentVars, databaseVars, serviceVars, channelVars, stripeVars, manualVars, warningsVars

\* The second commit of receive_screenshot: an id nobody else knows.
LEMMA SavePlaceholderStep ==
    ASSUME GrantInv, NEW t \in Task, SavePlaceholder(t),
           UNCHANGED <<stripeVars, warningsVars, kick>>
    PROVE  GrantInv'
<1>0. TypeOK /\ RowsOK /\ HandlerOK(t) /\ Ledger /\ TaskTyped
  BY DEF GrantInv, TypeOK, ServiceTypeOK, TaskTyped
<1>1. /\ task[t].pc = "save_placeholder" /\ task[t].user \in TelegramId /\ task[t].ref \in Message
  BY <1>0 DEF SavePlaceholder, At, HandlerOK, LocalsOK, ServiceLabels, SavingLabels, SavedLabels, InviteLabels, LockingLabels, AfterCommitLabels
<1>2. PICK r \in FreeIds :
         /\ subs' = [subs EXCEPT ![r] = PendingRow(task[t].user)]
         /\ task' = [task EXCEPT ![t].pc = "save_payment", ![t].pending = r]
  BY DEF SavePlaceholder
<1>3. r \in SubId /\ subs[r] = NoRow /\ (\A o \in Task : task[o].sub # r)
  BY DEF FreeIds
<1>4. UNCHANGED <<now, faults, users, payments, grants, grantedAt, raced, warn, kick, reminders, unrecorded, received>>
  BY DEF SavePlaceholder, environmentVars, manualVars, warningsVars
<1>5. /\ TaskTyped' /\ OthersStay(t)
      /\ task'[t].pc = "save_payment" /\ task'[t].ref = task[t].ref
      /\ task'[t].user = task[t].user /\ task'[t].sub = task[t].sub
      /\ task'[t].row = task[t].row /\ task'[t].pending = r
  <2> DEFINE new == [task[t] EXCEPT !.pc = "save_payment", !.pending = r]
  <2>1. new \in TaskRecord
    BY <1>0, <1>3 DEF TaskTyped, TaskRecord, Label
  <2>2. task' = [task EXCEPT ![t] = new]
    BY <1>2
  <2>3. TaskTyped' /\ OthersStay(t) /\ task'[t] = new
    BY <1>0, <2>1, <2>2, SetTask
  <2> QED
    BY <1>0, <2>3 DEF TaskTyped, TaskRecord
<1>6. PendingRow(task[t].user) \in Row /\ RowOK(PendingRow(task[t].user))
  BY <1>1 DEF PendingRow, Row, Status, RowOK, Opened
<1>7. subs' \in [SubId -> Row] /\ subs'[r] = PendingRow(task[t].user)
      /\ \A q \in SubId \ {r} : subs'[q] = subs[q]
  BY <1>0, <1>2, <1>3, <1>6 DEF TypeOK, DatabaseTypeOK
<1>8. TypeOK'
  BY <1>0, <1>4, <1>5, <1>7 DEF SavePlaceholder, TaskTyped,
      TypeOK, EnvironmentTypeOK, DatabaseTypeOK, ServiceTypeOK, ChannelTypeOK, StripeTypeOK,
      ManualTypeOK, WarningsTypeOK, KickTypeOK,
      channelVars, stripeVars, manualVars, warningsVars
<1>9. RowsOK'
  BY <1>0, <1>6, <1>7 DEF RowsOK
<1>10. ~Opened(subs[r]) /\ subs[r].status = "absent"
  BY <1>3 DEF Opened, NoRow
<1>11. JobShape'
  BY <1>4, <1>7, <1>10, JobsFrame
<1>12. \A p \in Ref : payments[p] # r
  BY <1>0, <1>3, <1>10, DatabaseAssumption DEF Ledger
<1>13. Ledger'
  BY <1>0, <1>4, <1>7, <1>12, DatabaseAssumption DEF Ledger, TypeOK, DatabaseTypeOK
<1>14. ASSUME NEW o \in Task
       PROVE  ~(task[o].pc \in LockingLabels \cup {"save_payment"} /\ task[o].pending = r)
  <2>1. Confirmation(o) /\ Screenshot(o)
    BY DEF GrantInv, HandlerOK
  <2>2. CASE task[o].pc \in LockingLabels
    BY <1>10, <2>1, <2>2 DEF Confirmation, PendingRow
  <2>3. CASE task[o].pc = "save_payment"
    BY <1>10, <2>1, <2>3 DEF Screenshot, SavingLabels
  <2> QED
    BY <2>2, <2>3
<1>15. ASSUME NEW other \in Task \ {t} PROVE HandlerOK(other)'
  <2>1. At(other, "save_payment") => \A p \in Ref : payments'[p] # task[other].pending
    BY <1>4 DEF GrantInv, HandlerOK, Screenshot, SavingLabels, At
  <2> QED
    BY <1>1, <1>3, <1>4, <1>5, <1>7, <1>10, <1>14, <2>1, OtherKept DEF LockingLabels, SavingLabels
<1>16. Screenshot(t)'
  BY <1>0, <1>1, <1>4, <1>5, <1>7, <1>12, <1>14 DEF HandlerOK, Screenshot, SavingLabels, OthersStay,
      PendingRow, At
<1>17. LocalsOK(t)' /\ ChosenRow(t)' /\ Confirmation(t)' /\ Recording(t)'
  BY <1>1, <1>3, <1>5 DEF LocalsOK, ChosenRow, Confirmation, Recording, At,
      ServiceLabels, SavingLabels, SavedLabels, InviteLabels, LockingLabels, AfterCommitLabels
<1> QED
  BY <1>8, <1>9, <1>11, <1>13, <1>15, <1>16, <1>17 DEF GrantInv, HandlerOK

\* The third commit of receive_screenshot: the placeholder gets its payment.
LEMMA SavePaymentStep ==
    ASSUME GrantInv, NEW t \in Task, SavePayment(t),
           UNCHANGED <<stripeVars, warningsVars, kick>>
    PROVE  GrantInv'
<1>0. TypeOK /\ RowsOK /\ HandlerOK(t) /\ Ledger /\ TaskTyped
  BY DEF GrantInv, TypeOK, ServiceTypeOK, TaskTyped
<1> DEFINE r == task[t].pending
           p0 == task[t].ref
<1>1. /\ task[t].pc = "save_payment" /\ p0 \in Message /\ r \in SubId
      /\ task[t].user \in TelegramId
      /\ p0 \in received /\ payments[p0] = None /\ subs[r].status = "pending"
      /\ \A p \in Ref : payments[p] # r
      /\ \A o \in Task : At(o, "save_payment") /\ task[o].pending = r => o = t
      /\ \A o \in Task : task[o].pc \in SavingLabels /\ task[o].ref = p0 => o = t
  BY <1>0 DEF SavePayment, At, HandlerOK, Screenshot, LocalsOK, ServiceLabels, SavingLabels, SavedLabels, InviteLabels, LockingLabels, AfterCommitLabels
<1>2. UNCHANGED <<now, faults, users, subs, grants, grantedAt, raced, warn, kick, reminders, unrecorded, received>>
  BY DEF SavePayment, environmentVars, manualVars, warningsVars
<1>3. /\ TaskTyped' /\ OthersStay(t)
      /\ task'[t].pc = "forward" /\ task'[t].ref = task[t].ref
      /\ task'[t].user = task[t].user /\ task'[t].sub = task[t].sub
      /\ task'[t].row = task[t].row /\ task'[t].pending = task[t].pending
  BY <1>0, GotoTask DEF SavePayment, Label
<1>4. p0 \in Ref /\ payments' \in [Ref -> SubId \cup {None}] /\ payments'[p0] = r
      /\ \A p \in Ref \ {p0} : payments'[p] = payments[p]
  BY <1>0, <1>1 DEF SavePayment, TypeOK, DatabaseTypeOK, Ref
<1>5. TypeOK'
  BY <1>0, <1>2, <1>3, <1>4 DEF SavePayment, TaskTyped,
      TypeOK, EnvironmentTypeOK, DatabaseTypeOK, ServiceTypeOK, ChannelTypeOK, StripeTypeOK,
      ManualTypeOK, WarningsTypeOK, KickTypeOK,
      channelVars, stripeVars, manualVars, warningsVars
<1>6. RowsOK' /\ JobShape'
  BY <1>0, <1>2, JobsFrame DEF RowsOK
<1>7. grants[p0] = 0
  BY <1>0, <1>1 DEF Ledger
<1>8. Ledger'
  <2>1. \A p \in Ref \ Message : grants'[p] = IF payments'[p] = None THEN 0 ELSE 1
    BY <1>0, <1>1, <1>2, <1>4 DEF Ledger
  <2>2. \A m \in Message : payments'[m] = None => grants'[m] = 0
    BY <1>0, <1>2, <1>4, <1>7 DEF Ledger, Ref
  <2>3. \A m \in Message \ received' : payments'[m] = None
    BY <1>0, <1>1, <1>2, <1>4 DEF Ledger, Ref
  <2>4. \A p \in Ref : payments'[p] # None =>
          \/ grants'[p] = 1 /\ Opened(subs'[payments'[p]])
          \/ grants'[p] = 0 /\ subs'[payments'[p]].status = "pending"
    BY <1>0, <1>1, <1>2, <1>4, <1>7 DEF Ledger
  <2>5. \A p, q \in Ref :
          payments'[p] # None /\ payments'[p] = payments'[q]
             /\ subs'[payments'[p]].status = "pending" => p = q
    BY <1>0, <1>1, <1>2, <1>4 DEF Ledger
  <2> QED
    BY <2>1, <2>2, <2>3, <2>4, <2>5 DEF Ledger
<1>9. ASSUME NEW other \in Task \ {t} PROVE HandlerOK(other)'
  <2>1. HandlerOK(other)
    BY DEF GrantInv
  <2>2. ~(task[other].pc \in LockingLabels \cup {"save_payment"} /\ task[other].pending = r)
    BY <1>1, <2>1 DEF HandlerOK, Confirmation, LocalsOK, LockingLabels, At
  <2>3. task[other].pc \in LockingLabels \cup SavingLabels \cup {"activate"}
           => task[other].ref \in Ref /\ task[other].ref # p0
    BY <1>1, <2>1, DatabaseAssumption DEF HandlerOK, Confirmation, Ref, LocalsOK, ServiceLabels, SavingLabels, SavedLabels, InviteLabels, LockingLabels, AfterCommitLabels
  <2>4. At(other, "save_payment") => \A p \in Ref : payments'[p] # task[other].pending
    BY <1>1, <1>4, <2>1, <2>2 DEF HandlerOK, Screenshot, SavingLabels, At
  <2>5. subs[r] # NoRow
    BY <1>1 DEF NoRow
  <2> QED
    BY <1>1, <1>2, <1>3, <1>4, <2>2, <2>3, <2>4, <2>5, OtherKept DEF LockingLabels, SavingLabels
<1>10. HandlerOK(t)'
  BY <1>1, <1>3 DEF HandlerOK, LocalsOK, ChosenRow, Confirmation, Screenshot, Recording, At,
      ServiceLabels, SavingLabels, SavedLabels, InviteLabels, LockingLabels, AfterCommitLabels
<1> QED
  BY <1>5, <1>6, <1>8, <1>9, <1>10 DEF GrantInv

\* The COMMIT of _activate_subscription: payment, row and grant at once.
LEMMA ActivateSubscriptionStep ==
    ASSUME GrantInv, NEW t \in Task, ActivateSubscription(t),
           UNCHANGED <<channelVars, stripeVars, manualVars, warningsVars, kick>>
    PROVE  GrantInv'
<1>0. TypeOK /\ RowsOK /\ HandlerOK(t) /\ Ledger /\ TaskTyped
  BY DEF GrantInv, TypeOK, ServiceTypeOK, TaskTyped
<1> DEFINE r == task[t].sub
           p0 == task[t].ref
           u == task[t].user
<1>1. /\ task[t].pc = "activate" /\ p0 \in Session \cup Uuid /\ u \in TelegramId /\ r \in SubId
      /\ payments[p0] = None
      /\ \A o \in Task : At(o, "activate") /\ task[o].ref = p0 => o = t
      /\ \/ /\ subs[r] = NoRow /\ task[t].row = PendingRow(u)
            /\ \A o \in Task : task[o].sub = r => o = t
         \/ /\ Opened(subs[r]) /\ Opened(task[t].row) /\ RowOK(task[t].row)
            /\ subs[r].user = u
  BY <1>0 DEF ActivateSubscription, At, HandlerOK, ChosenRow, Recording, LocalsOK, ServiceLabels, SavingLabels, SavedLabels, InviteLabels, LockingLabels, AfterCommitLabels
<1>2. UNCHANGED <<now, faults, raced, warn, kick, reminders, unrecorded, received, buttons>>
  BY DEF ActivateSubscription, environmentVars, manualVars, warningsVars
<1>3. /\ TaskTyped' /\ OthersStay(t)
      /\ task'[t].pc = "create_link" /\ task'[t].ref = task[t].ref
      /\ task'[t].user = task[t].user /\ task'[t].sub = task[t].sub
      /\ task'[t].row = task[t].row /\ task'[t].pending = task[t].pending
  BY <1>0, GotoTask DEF ActivateSubscription, Label
<1>4. /\ p0 \in Ref \ Message /\ payments' \in [Ref -> SubId \cup {None}] /\ payments'[p0] = r
      /\ \A p \in Ref \ {p0} : payments'[p] = payments[p]
  BY <1>0, <1>1, DatabaseAssumption DEF ActivateSubscription, TypeOK, DatabaseTypeOK, Ref
<1>5. /\ grants' \in [Ref -> Nat] /\ grants'[p0] = grants[p0] + 1
      /\ \A p \in Ref \ {p0} : grants'[p] = grants[p]
  BY <1>0, <1>4 DEF ActivateSubscription, WriteActivation, TypeOK, ServiceTypeOK
<1> grantedAt' \in [Ref -> Nat \cup {None}]
  BY <1>0 DEF ActivateSubscription, WriteActivation, TypeOK, ServiceTypeOK, EnvironmentTypeOK
<1>6. grants[p0] = 0
  BY <1>0, <1>1, <1>4 DEF Ledger
<1>7. task[t].row \in Row /\ subs[r] \in Row /\ RowOK(subs[r]) /\ now \in Nat
      /\ RowOK(task[t].row)
  BY <1>0, <1>1 DEF TypeOK, DatabaseTypeOK, EnvironmentTypeOK, TaskTyped, TaskRecord, RowsOK, RowOK,
      PendingRow, Opened
<1>8. /\ subs' \in [SubId -> Row] /\ RowOK(subs'[r]) /\ Opened(subs'[r]) /\ subs'[r].user = u
      /\ \A q \in SubId \ {r} : subs'[q] = subs[q]
  <2> DEFINE new == Flush(subs[r], task[t].row, Activated(task[t].row))
  <2>1. new \in Row /\ RowOK(new) /\ Opened(new) /\ new.user = u
    <3>1. \/ subs[r] = NoRow /\ task[t].row = PendingRow(u)
          \/ Opened(subs[r]) /\ Opened(task[t].row) /\ subs[r].user = u
      BY <1>1
    <3> HIDE DEF new, u, r
    <3> QED
      BY <1>1, <1>7, <3>1, ActivatedRow DEF new
  <2>2. subs' = [subs EXCEPT ![r] = new]
    BY DEF ActivateSubscription, WriteActivation
  <2> HIDE DEF new
  <2> QED
    BY <1>0, <1>1, <2>1, <2>2 DEF TypeOK, DatabaseTypeOK
<1>9. TypeOK'
  BY <1>0, <1>1, <1>2, <1>3, <1>4, <1>5, <1>8 DEF ActivateSubscription, TaskTyped,
      TypeOK, EnvironmentTypeOK, DatabaseTypeOK, ServiceTypeOK, ChannelTypeOK, StripeTypeOK,
      ManualTypeOK, WarningsTypeOK, KickTypeOK,
      channelVars, stripeVars, manualVars, warningsVars
<1>10. RowsOK'
  BY <1>0, <1>8 DEF RowsOK
<1>11. JobShape'
  BY <1>1, <1>2, <1>8, JobsFrame DEF Opened, NoRow
<1>12. Ledger'
  <2>1. \A p \in Ref \ Message : grants'[p] = IF payments'[p] = None THEN 0 ELSE 1
    BY <1>0, <1>1, <1>4, <1>5, <1>6, DatabaseAssumption DEF Ledger
  <2>2. \A m \in Message : payments'[m] = None => grants'[m] = 0
    BY <1>0, <1>4, <1>5 DEF Ledger, Ref
  <2>3. \A m \in Message \ received' : payments'[m] = None
    BY <1>0, <1>2, <1>4 DEF Ledger, Ref
  <2>4. \A p \in Ref : payments'[p] # None =>
          \/ grants'[p] = 1 /\ Opened(subs'[payments'[p]])
          \/ grants'[p] = 0 /\ subs'[payments'[p]].status = "pending"
    <3>1. ASSUME NEW p \in Ref \ {p0}, payments[p] # None, payments[p] = r
          PROVE  grants[p] = 1 /\ Opened(subs'[r])
      BY <1>0, <1>1, <1>8, <3>1 DEF Ledger, NoRow, Opened
    <3>2. ASSUME NEW p \in Ref \ {p0}, payments[p] # None, payments[p] # r
          PROVE  subs'[payments[p]] = subs[payments[p]]
      BY <1>0, <1>8, <3>2 DEF TypeOK, DatabaseTypeOK
    <3> QED
      BY <1>0, <1>4, <1>5, <1>6, <1>8, <3>1, <3>2 DEF Ledger
  <2>5. \A p, q \in Ref :
          payments'[p] # None /\ payments'[p] = payments'[q]
             /\ subs'[payments'[p]].status = "pending" => p = q
    BY <1>0, <1>1, <1>4, <1>8 DEF Ledger, TypeOK, DatabaseTypeOK, Opened
  <2> QED
    BY <2>1, <2>2, <2>3, <2>4, <2>5 DEF Ledger
<1>13. ASSUME NEW other \in Task \ {t} PROVE HandlerOK(other)'
  <2>1. HandlerOK(other)
    BY DEF GrantInv
  <2>2. ~(task[other].pc \in LockingLabels \cup {"save_payment"} /\ task[other].pending = r)
    BY <1>1, <2>1 DEF HandlerOK, Confirmation, Screenshot, SavingLabels, NoRow, PendingRow, Opened
  <2>3. task[other].pc \in LockingLabels \cup SavingLabels \cup {"activate"}
           => task[other].ref \in Ref /\ task[other].ref # p0
    BY <1>1, <1>4, <2>1, DatabaseAssumption DEF HandlerOK, Confirmation, Ref, At, LocalsOK, ServiceLabels, SavingLabels, SavedLabels, InviteLabels, LockingLabels, AfterCommitLabels
  <2>4. At(other, "save_payment") => \A p \in Ref : payments'[p] # task[other].pending
    BY <1>1, <1>4, <2>1, <2>2 DEF HandlerOK, Screenshot, SavingLabels, At
  <2>5. subs[r] # NoRow \/ task[other].sub # r
    BY <1>1 DEF NoRow, Opened
  <2>6. Opened(subs[r]) => Opened(subs'[r]) /\ subs'[r].user = subs[r].user
    BY <1>1, <1>8 DEF Opened, NoRow
  <2> QED
    BY <1>1, <1>2, <1>3, <1>4, <1>8, <2>2, <2>3, <2>4, <2>5, <2>6, OtherKept
       DEF LockingLabels, SavingLabels
<1>14. HandlerOK(t)'
  BY <1>1, <1>3 DEF HandlerOK, LocalsOK, ChosenRow, Confirmation, Screenshot, Recording, At,
      ServiceLabels, SavingLabels, SavedLabels, InviteLabels, LockingLabels, AfterCommitLabels, Ref
<1> QED
  BY <1>9, <1>10, <1>11, <1>12, <1>13, <1>14 DEF GrantInv

\* The COMMIT of confirm_manual_payment: the payment follows the activated row.
LEMMA ConfirmManualPaymentStep ==
    ASSUME GrantInv, NEW t \in Task, ConfirmManualPayment(t),
           UNCHANGED <<channelVars, stripeVars, manualVars, warningsVars, kick>>
    PROVE  GrantInv'
<1>0. TypeOK /\ RowsOK /\ HandlerOK(t) /\ Ledger /\ TaskTyped
  BY DEF GrantInv, TypeOK, ServiceTypeOK, TaskTyped
<1> DEFINE r == task[t].sub
           p0 == task[t].ref
           u == task[t].user
           held == task[t].pending
<1>1. /\ task[t].pc = "confirm_activate" /\ p0 \in Ref /\ u \in TelegramId /\ r \in SubId
      /\ held \in SubId /\ payments[p0] = held /\ subs[held] = PendingRow(u)
      /\ \A o \in Task : task[o].pc \in LockingLabels /\ task[o].pending = held => o = t
      /\ \/ r = held /\ task[t].row = PendingRow(u)
         \/ /\ Opened(subs[r]) /\ Opened(task[t].row) /\ RowOK(task[t].row)
            /\ subs[r].user = u
  BY <1>0 DEF ConfirmManualPayment, At, HandlerOK, ChosenRow, Confirmation, LocalsOK, ServiceLabels, SavingLabels, SavedLabels, InviteLabels, LockingLabels, AfterCommitLabels
<1>2. UNCHANGED <<now, faults, users, raced, warn, kick, reminders, unrecorded, received, buttons>>
  BY DEF ConfirmManualPayment, environmentVars, manualVars, warningsVars
<1>3. /\ TaskTyped' /\ OthersStay(t)
      /\ task'[t].pc = "notify" /\ task'[t].ref = task[t].ref
      /\ task'[t].user = task[t].user /\ task'[t].sub = task[t].sub
      /\ task'[t].row = task[t].row /\ task'[t].pending = task[t].pending
  BY <1>0, GotoTask DEF ConfirmManualPayment, Label
<1>4. \A p \in Ref : payments[p] = held => p = p0
  BY <1>0, <1>1, DatabaseAssumption DEF Ledger, PendingRow
<1>5. /\ payments' \in [Ref -> SubId \cup {None}] /\ payments'[p0] = r
      /\ \A p \in Ref \ {p0} : payments'[p] = payments[p] /\ payments[p] # held
  BY <1>0, <1>1, <1>4 DEF ConfirmManualPayment, TypeOK, DatabaseTypeOK
<1>6. /\ grants' \in [Ref -> Nat] /\ grants'[p0] = grants[p0] + 1
      /\ \A p \in Ref \ {p0} : grants'[p] = grants[p]
  BY <1>0, <1>1 DEF ConfirmManualPayment, WriteActivation, TypeOK, ServiceTypeOK
<1> grantedAt' \in [Ref -> Nat \cup {None}]
  BY <1>0 DEF ConfirmManualPayment, WriteActivation, TypeOK, ServiceTypeOK, EnvironmentTypeOK
<1>7. grants[p0] = 0 /\ p0 \in Message
  BY <1>0, <1>1, DatabaseAssumption DEF Ledger, PendingRow, Opened
<1>8. task[t].row \in Row /\ subs[r] \in Row /\ RowOK(subs[r]) /\ now \in Nat
      /\ RowOK(task[t].row)
  BY <1>0, <1>1 DEF TypeOK, DatabaseTypeOK, EnvironmentTypeOK, TaskTyped, TaskRecord, RowsOK, RowOK,
      PendingRow, Opened
<1>9. /\ subs' \in [SubId -> Row] /\ RowOK(subs'[r]) /\ Opened(subs'[r]) /\ subs'[r].user = u
      /\ \A q \in SubId \ {r} : subs'[q] = subs[q]
  <2> DEFINE new == Flush(subs[r], task[t].row, Activated(task[t].row))
  <2>1. new \in Row /\ RowOK(new) /\ Opened(new) /\ new.user = u
    <3>1. \/ subs[r] = PendingRow(u) /\ task[t].row = PendingRow(u)
          \/ Opened(subs[r]) /\ Opened(task[t].row) /\ subs[r].user = u
      BY <1>1
    <3> HIDE DEF new, u, r
    <3> QED
      BY <1>1, <1>8, <3>1, ActivatedRow DEF new
  <2>2. subs' = [subs EXCEPT ![r] = new]
    BY DEF ConfirmManualPayment, WriteActivation
  <2> HIDE DEF new
  <2> QED
    BY <1>0, <1>1, <2>1, <2>2 DEF TypeOK, DatabaseTypeOK
<1>10. TypeOK'
  BY <1>0, <1>2, <1>3, <1>5, <1>6, <1>9 DEF TaskTyped,
      TypeOK, EnvironmentTypeOK, DatabaseTypeOK, ServiceTypeOK, ChannelTypeOK, StripeTypeOK,
      ManualTypeOK, WarningsTypeOK, KickTypeOK,
      channelVars, stripeVars, manualVars, warningsVars
<1>11. RowsOK' /\ JobShape'
  <2>1. RowsOK'
    BY <1>0, <1>9 DEF RowsOK
  <2>2. JobShape'
    BY <1>1, <1>2, <1>9, JobsFrame DEF Opened, PendingRow
  <2> QED
    BY <2>1, <2>2
<1>12. Ledger'
  <2>1. \A p \in Ref \ Message : grants'[p] = IF payments'[p] = None THEN 0 ELSE 1
    BY <1>0, <1>5, <1>6, <1>7 DEF Ledger
  <2>2. \A m \in Message : payments'[m] = None => grants'[m] = 0
    BY <1>0, <1>1, <1>5, <1>6, DatabaseAssumption DEF Ledger, Ref
  <2>3. \A m \in Message \ received' : payments'[m] = None
    BY <1>0, <1>1, <1>2, <1>5, DatabaseAssumption DEF Ledger, Ref
  <2>4. \A p \in Ref : payments'[p] # None =>
          \/ grants'[p] = 1 /\ Opened(subs'[payments'[p]])
          \/ grants'[p] = 0 /\ subs'[payments'[p]].status = "pending"
    <3>1. ASSUME NEW p \in Ref \ {p0}, payments[p] # None, payments[p] = r
          PROVE  grants[p] = 1 /\ Opened(subs'[r])
      BY <1>0, <1>1, <1>5, <1>9, <3>1 DEF Ledger, Opened
    <3>2. ASSUME NEW p \in Ref \ {p0}, payments[p] # None, payments[p] # r
          PROVE  subs'[payments[p]] = subs[payments[p]]
      BY <1>0, <1>9, <3>2 DEF TypeOK, DatabaseTypeOK
    <3> QED
      BY <1>0, <1>5, <1>6, <1>7, <1>9, <3>1, <3>2 DEF Ledger
  <2>5. \A p, q \in Ref :
          payments'[p] # None /\ payments'[p] = payments'[q]
             /\ subs'[payments'[p]].status = "pending" => p = q
    BY <1>0, <1>1, <1>5, <1>9 DEF Ledger, TypeOK, DatabaseTypeOK, Opened
  <2> QED
    BY <2>1, <2>2, <2>3, <2>4, <2>5 DEF Ledger
<1>13. ASSUME NEW other \in Task \ {t} PROVE HandlerOK(other)'
  <2>1. HandlerOK(other)
    BY DEF GrantInv
  <2>2. ~(task[other].pc \in LockingLabels \cup {"save_payment"} /\ task[other].pending \in {r, held})
    BY <1>1, <2>1 DEF HandlerOK, Confirmation, Screenshot, SavingLabels, PendingRow, Opened
  <2>3. task[other].pc \in LockingLabels \cup SavingLabels \cup {"activate"}
           => task[other].ref \in Ref /\ task[other].ref # p0
    BY <1>1, <2>1, <2>2, DatabaseAssumption
       DEF HandlerOK, Confirmation, Screenshot, Recording, Ref, At, LocalsOK, ServiceLabels, SavingLabels, SavedLabels, InviteLabels, LockingLabels, AfterCommitLabels
  <2>4. At(other, "save_payment") => \A p \in Ref : payments'[p] # task[other].pending
    BY <1>1, <1>5, <2>1, <2>2 DEF HandlerOK, Screenshot, SavingLabels, At
  <2>5. subs[r] # NoRow
    BY <1>1 DEF NoRow, Opened, PendingRow
  <2>6. Opened(subs[r]) => Opened(subs'[r]) /\ subs'[r].user = subs[r].user
    BY <1>1, <1>9 DEF Opened, PendingRow
  <2> QED
    BY <1>1, <1>2, <1>3, <1>5, <1>9, <2>2, <2>3, <2>4, <2>5, <2>6, OtherKept
       DEF LockingLabels, SavingLabels
<1>14. HandlerOK(t)'
  BY <1>1, <1>3 DEF HandlerOK, LocalsOK, ChosenRow, Confirmation, Screenshot, Recording, At,
      ServiceLabels, SavingLabels, SavedLabels, InviteLabels, LockingLabels, AfterCommitLabels
<1> QED
  BY <1>10, <1>11, <1>12, <1>13, <1>14 DEF GrantInv

-----------------------------------------------------------------------------
(* The jobs.                                                               *)

\* A job step that writes nothing, or only rows that have been opened.
LEMMA JobMoves ==
    ASSUME GrantInv, TypeOK', UNCHANGED <<task, payments, grants>>, received' = received,
           JobShape',
           \A r \in SubId :
               \/ subs'[r] = subs[r]
               \/ /\ Opened(subs[r]) /\ Opened(subs'[r]) /\ RowOK(subs'[r])
                  /\ subs'[r].user = subs[r].user
    PROVE  GrantInv'
<1>1. RowsOK'
  BY DEF GrantInv, RowsOK
<1>2. Ledger'
  <2>1. \A p \in Ref : payments[p] # None => payments[p] \in SubId
    BY DEF GrantInv, TypeOK, DatabaseTypeOK
  <2>2. \A r \in SubId : /\ Opened(subs'[r]) <=> Opened(subs[r])
                         /\ subs'[r].status = "pending" <=> subs[r].status = "pending"
    BY DEF Opened
  <2> QED
    BY <2>1, <2>2 DEF GrantInv, Ledger
<1>3. ASSUME NEW t \in Task PROVE HandlerOK(t)'
  <2>1. HandlerOK(t)
    BY DEF GrantInv
  <2>2. LocalsOK(t)' /\ Recording(t)'
    BY <2>1 DEF HandlerOK, LocalsOK, Recording, At
  <2>3. ChosenRow(t)'
    BY <2>1 DEF HandlerOK, ChosenRow, LocalsOK, Opened, NoRow
  <2>4. Confirmation(t)'
    BY <2>1 DEF HandlerOK, Confirmation, LocalsOK, Opened, PendingRow
  <2>5. Screenshot(t)'
    BY <2>1 DEF HandlerOK, Screenshot, LocalsOK, Opened, At, SavingLabels
  <2> QED
    BY <2>2, <2>3, <2>4, <2>5 DEF HandlerOK
<1> QED
  BY <1>1, <1>2, <1>3 DEF GrantInv

\* A job between two candidates holds nothing.
LEMMA ReadyRecords ==
    /\ \A todo \in SUBSET Candidate : WarnReady(todo) \in WarnRecord
    /\ \A todo \in SUBSET KickCandidate : KickReady(todo) \in KickRecord
<1>1. NoRow \in Row
  BY DEF NoRow, Row
<1> QED
  BY <1>1 DEF WarnReady, WarnRecord, WarnLabel, KickReady, KickRecord, KickLabel

\* Only reminders are left unrecorded (LeaveUnrecorded).
LEMMA UnrecordedTyped ==
    ASSUME GrantInv, LeaveUnrecorded
    PROVE  unrecorded' \subseteq (SubId \X Nat \X Nat)
<1>1. warn.pc = "record" => Reminder \in (SubId \X Nat \X Nat)
  BY DEF GrantInv, JobShape, WarnShape, RowOK, Reminder
<1> QED
  BY <1>1 DEF LeaveUnrecorded, GrantInv, TypeOK, WarningsTypeOK

\* What is left to check of a step of the reminder job that reads only.
LEMMA WarnMoves ==
    ASSUME GrantInv, warn' \in WarnRecord, WarnShape', reminders' \subseteq (SubId \X Nat \X Nat),
           unrecorded' \subseteq (SubId \X Nat \X Nat), faults' \in Nat, UNCHANGED <<now, databaseVars, serviceVars, channelVars>>,
           UNCHANGED <<stripeVars, manualVars, kick>>
    PROVE  GrantInv'
<1>1. TypeOK'
  BY DEF GrantInv,
      TypeOK, EnvironmentTypeOK, DatabaseTypeOK, ServiceTypeOK, ChannelTypeOK, StripeTypeOK,
      ManualTypeOK, WarningsTypeOK, KickTypeOK,
      environmentVars, databaseVars, serviceVars, channelVars, stripeVars, manualVars, warningsVars
<1>2. JobShape'
  BY DEF GrantInv, JobShape, KickShape, databaseVars
<1> QED
  BY <1>1, <1>2, JobMoves DEF databaseVars, serviceVars, manualVars

\* The same for the kick job.
LEMMA KickMoves ==
    ASSUME GrantInv, kick' \in KickRecord, KickShape', faults' \in Nat,
           members' \subseteq TelegramId, banned' \subseteq TelegramId,
           leftBanned' \subseteq TelegramId,
           UNCHANGED <<now, databaseVars, serviceVars, links, told, untold>>,
           UNCHANGED <<stripeVars, manualVars, warningsVars>>
    PROVE  GrantInv'
<1>1. TypeOK'
  BY DEF GrantInv,
      TypeOK, EnvironmentTypeOK, DatabaseTypeOK, ServiceTypeOK, ChannelTypeOK, StripeTypeOK,
      ManualTypeOK, WarningsTypeOK, KickTypeOK,
      environmentVars, databaseVars, serviceVars, channelVars, stripeVars, manualVars, warningsVars
<1>2. JobShape'
  BY DEF GrantInv, JobShape, WarnShape, databaseVars, warningsVars
<1> QED
  BY <1>1, <1>2, JobMoves DEF databaseVars, serviceVars, manualVars

\* The steps of the reminder job that write no table.
LEMMA WarningsReadingStep ==
    ASSUME GrantInv, UNCHANGED <<stripeVars, manualVars, kick>>,
           \/ StartWarnings \/ WarnNext \/ ReadForExpiring \/ RefreshMarked \/ SendReminder
           \/ WarningsFail
    PROVE  GrantInv'
<1>0. /\ TypeOK /\ RowsOK /\ WarnShape /\ warn \in WarnRecord /\ subs \in [SubId -> Row]
      /\ reminders \subseteq (SubId \X Nat \X Nat) /\ now \in Nat /\ faults \in Nat
      /\ warn.todo \in SUBSET Candidate /\ unrecorded \subseteq (SubId \X Nat \X Nat)
  BY DEF GrantInv, JobShape, TypeOK, WarningsTypeOK, DatabaseTypeOK, EnvironmentTypeOK, WarnRecord
<1>1. ASSUME NEW todo \in SUBSET warn.todo, warn' = WarnReady(todo), UNCHANGED subs
      PROVE  warn' \in WarnRecord /\ WarnShape'
  <2>1. warn' \in WarnRecord
    BY <1>0, <1>1, ReadyRecords
  <2>2. warn'.pc = "ready" /\ warn'.todo = todo
    BY <1>1 DEF WarnReady
  <2> QED
    BY <1>0, <1>1, <2>1, <2>2 DEF WarnShape
<1>2. CASE StartWarnings
  <2> DEFINE todo == {[sub |-> r, row |-> subs[r],
                       seen |-> {p \in Ref : grants[p] > 0}] : r \in ExpiringWithin}
  <2>1. \A r \in ExpiringWithin : r \in SubId /\ Opened(subs[r]) /\ RowOK(subs[r])
    BY <1>0 DEF ExpiringWithin, LiveStatuses, Opened, RowsOK
  <2>2. warn' = WarnReady(todo) /\ UNCHANGED subs
    BY <1>2 DEF StartWarnings, databaseVars
  <2>3. \A c \in todo : /\ c \in Candidate /\ Opened(c.row) /\ RowOK(c.row)
                        /\ Opened(subs[c.sub]) /\ subs[c.sub].user = c.row.user
    BY <1>0, <2>1 DEF Candidate
  <2>4. warn' \in WarnRecord
    <3>1. todo \in SUBSET Candidate
      BY <2>3
    <3> QED
      BY <2>2, <3>1, ReadyRecords
  <2>5. warn'.pc = "ready" /\ warn'.todo = todo
    BY <2>2 DEF WarnReady
  <2>6. WarnShape'
    BY <2>2, <2>3, <2>5 DEF WarnShape
  <2> QED
    BY <1>0, <1>2, <2>4, <2>6, WarnMoves DEF StartWarnings, environmentVars
<1>3. CASE WarnNext
  <2>1. PICK c \in warn.todo :
          LET days == DaysRemaining(now, c.row.expires)
              rest == warn.todo \ {c}
          IN  \/ warn' = WarnReady(rest)
              \/ \E label \in {"read", "send"} :
                    warn' = [pc |-> label, todo |-> rest, sub |-> c.sub, row |-> c.row,
                             days |-> days, seen |-> c.seen]
    BY <1>3 DEF WarnNext
  <2>2. UNCHANGED <<now, faults, subs, reminders, unrecorded>>
    BY <1>3 DEF WarnNext, environmentVars, databaseVars
  <2>3. warn' \in WarnRecord /\ WarnShape'
    <3> DEFINE rest == warn.todo \ {c}
               days == DaysRemaining(now, c.row.expires)
    <3>1. CASE warn' = WarnReady(rest)
      BY <1>1, <2>2, <3>1
    <3>2. ASSUME NEW label \in {"read", "send"},
                 warn' = [pc |-> label, todo |-> rest, sub |-> c.sub, row |-> c.row,
                          days |-> days, seen |-> c.seen]
          PROVE  warn' \in WarnRecord /\ WarnShape'
      <4>1. /\ c \in Candidate /\ Opened(c.row) /\ RowOK(c.row)
            /\ Opened(subs[c.sub]) /\ subs[c.sub].user = c.row.user
        BY <1>0 DEF WarnShape
      <4>2. c.row.expires \in Nat /\ days \in Nat
        BY <1>0, <4>1, DaysRemainingType DEF RowOK
      <4>3. warn' \in WarnRecord
        <5> HIDE DEF days
        <5> QED
          BY <1>0, <3>2, <4>1, <4>2 DEF WarnRecord, WarnLabel, Candidate
      <4>4. /\ warn'.pc = label /\ warn'.todo = rest /\ warn'.sub = c.sub
            /\ warn'.row = c.row /\ warn'.days = days
        BY <3>2
      <4> HIDE DEF days
      <4> QED
        BY <1>0, <2>2, <4>1, <4>2, <4>3, <4>4 DEF WarnShape, Candidate
    <3> QED
      BY <2>1, <3>1, <3>2
  <2> QED
    BY <1>0, <1>3, <2>2, <2>3, WarnMoves DEF WarnNext
<1>4. ASSUME NEW label \in {"mark", "send"}, warn.pc \in {"read", "refresh"},
             warn' = [warn EXCEPT !.pc = label, !.row = subs[warn.sub]], UNCHANGED subs,
             label = "mark" => subs[warn.sub].status = "active"
      PROVE  warn' \in WarnRecord /\ WarnShape'
  <2>1. warn.sub \in SubId /\ Opened(subs[warn.sub]) /\ warn.days \in Nat /\ RowOK(subs[warn.sub])
    BY <1>0, <1>4 DEF WarnShape, RowsOK
  <2>2. warn' \in WarnRecord
    BY <1>0, <1>4, <2>1 DEF WarnRecord, WarnLabel
  <2>3. /\ warn'.pc = label /\ warn'.todo = warn.todo /\ warn'.sub = warn.sub
        /\ warn'.row = subs[warn.sub] /\ warn'.days = warn.days
    BY <1>0, <1>4 DEF WarnRecord
  <2> QED
    BY <1>0, <1>4, <2>1, <2>2, <2>3 DEF WarnShape
<1>5. CASE ReadForExpiring
  <2>1. UNCHANGED <<now, faults, subs, reminders, unrecorded>>
    BY <1>5 DEF ReadForExpiring, environmentVars, databaseVars
  <2>2. warn' \in WarnRecord /\ WarnShape'
    <3>1. CASE CanTransition(subs[warn.sub].status, "expiring")
      <4>1. subs[warn.sub].status = "active"
        <5>1. warn.sub \in SubId /\ Opened(subs[warn.sub])
          BY <1>0, <1>5 DEF WarnShape, ReadForExpiring
        <5> QED
          BY <3>1, <5>1 DEF CanTransition, TRANSITIONS, Opened
      <4> QED
        BY <1>4, <1>5, <2>1, <3>1, <4>1 DEF ReadForExpiring
    <3>2. CASE warn' = WarnReady(warn.todo)
      BY <1>1, <2>1, <3>2
    <3> QED
      BY <1>5, <3>1, <3>2 DEF ReadForExpiring
  <2> QED
    BY <1>0, <1>5, <2>1, <2>2, WarnMoves DEF ReadForExpiring
<1>6. CASE RefreshMarked
  <2>1. UNCHANGED <<now, faults, subs, reminders, unrecorded>>
    BY <1>6 DEF RefreshMarked, environmentVars, databaseVars
  <2>2. warn' \in WarnRecord /\ WarnShape'
    BY <1>1, <1>4, <1>6, <2>1 DEF RefreshMarked
  <2> QED
    BY <1>0, <1>6, <2>1, <2>2, WarnMoves DEF RefreshMarked
<1>7. CASE SendReminder
  <2>1. UNCHANGED <<now, subs>> /\ faults' \in Nat /\ warn.pc = "send"
    BY <1>0, <1>7 DEF SendReminder, databaseVars, FaultOccurs
  <2>2. /\ warn.sub \in SubId /\ Opened(subs[warn.sub]) /\ warn.days \in Nat
        /\ Opened(warn.row) /\ RowOK(warn.row) /\ warn.row.expires \in Nat
    BY <1>0, <2>1 DEF WarnShape, RowOK
  <2>3. reminders' \subseteq (SubId \X Nat \X Nat) /\ unrecorded' \subseteq (SubId \X Nat \X Nat)
    BY <1>0, <1>7, <2>2 DEF SendReminder, Reminder
  <2>4. warn' \in WarnRecord /\ WarnShape'
    <3>1. CASE warn' = WarnReady(warn.todo)
      BY <1>1, <2>1, <3>1
    <3>2. CASE warn' = [warn EXCEPT !.pc = "record"]
      <4>1. warn' \in WarnRecord
        BY <1>0, <3>2 DEF WarnRecord, WarnLabel
      <4>2. /\ warn'.pc = "record" /\ warn'.todo = warn.todo /\ warn'.sub = warn.sub
            /\ warn'.row = warn.row /\ warn'.days = warn.days
        BY <1>0, <3>2 DEF WarnRecord
      <4> QED
        BY <1>0, <2>1, <2>2, <4>1, <4>2 DEF WarnShape
    <3> QED
      BY <1>7, <3>1, <3>2 DEF SendReminder
  <2> QED
    BY <1>7, <2>1, <2>3, <2>4, WarnMoves DEF SendReminder
<1>8. CASE WarningsFail
  <2>1. UNCHANGED <<now, subs, reminders>> /\ faults' \in Nat /\ warn' = WarnReady({})
    BY <1>0, <1>8 DEF WarningsFail, databaseVars, FaultOccurs
  <2>2. unrecorded' \subseteq (SubId \X Nat \X Nat)
    BY <1>8, UnrecordedTyped DEF WarningsFail
  <2> QED
    BY <1>0, <1>1, <1>8, <2>1, <2>2, WarnMoves DEF WarningsFail
<1> QED
  BY <1>2, <1>3, <1>5, <1>6, <1>7, <1>8

\* A job writes an opened row: what it adds to JobMoves is the frame of the
\* other job and of the tables.
LEMMA JobWrites ==
    ASSUME GrantInv, NEW r \in SubId, NEW new \in Row, Opened(subs[r]),
           RowOK(new), Opened(new), new.user = subs[r].user,
           subs' = [subs EXCEPT ![r] = new], raced' \subseteq TelegramId,
           UNCHANGED <<environmentVars, users, payments, task, grants, grantedAt, channelVars>>,
           UNCHANGED <<reminders, unrecorded, stripeVars, manualVars>>,
           warn' \in WarnRecord, kick' \in KickRecord,
           (WarnShape /\ warn' = warn) \/ WarnShape', (KickShape /\ kick' = kick) \/ KickShape'
    PROVE  GrantInv'
<1>1. /\ subs' \in [SubId -> Row] /\ subs'[r] = new
      /\ \A q \in SubId \ {r} : subs'[q] = subs[q]
  BY DEF GrantInv, TypeOK, DatabaseTypeOK
<1>2. TypeOK'
  BY <1>1 DEF GrantInv,
      TypeOK, EnvironmentTypeOK, DatabaseTypeOK, ServiceTypeOK, ChannelTypeOK, StripeTypeOK,
      ManualTypeOK, WarningsTypeOK, KickTypeOK,
      environmentVars, databaseVars, serviceVars, channelVars, stripeVars, manualVars, warningsVars
<1>3. \A q \in SubId : Opened(subs[q]) => Opened(subs'[q]) /\ subs'[q].user = subs[q].user
  BY <1>1
<1>4. JobShape'
  <2>1. warn \in WarnRecord /\ kick \in KickRecord
    BY DEF GrantInv, TypeOK, WarningsTypeOK, KickTypeOK
  <2>2. WarnShape'
    BY <1>3, <2>1 DEF WarnShape, WarnRecord, Candidate
  <2>3. KickShape'
    BY <1>3, <2>1 DEF KickShape, KickRecord
  <2> QED
    BY <2>2, <2>3 DEF JobShape
<1> QED
  BY <1>1, <1>2, <1>4, JobMoves DEF manualVars

\* The reminder job writes EXPIRING (update_status).
LEMMA MarkExpiringStep ==
    ASSUME GrantInv, MarkExpiring, UNCHANGED <<stripeVars, manualVars, kick>>
    PROVE  GrantInv'
<1> DEFINE r == warn.sub
           new == Flush(subs[r], warn.row, WithStatus(warn.row, "expiring"))
<1>1. /\ r \in SubId /\ Opened(subs[r]) /\ Opened(warn.row) /\ RowOK(warn.row)
      /\ warn.row.user = subs[r].user /\ warn.days \in Nat
      /\ warn \in WarnRecord /\ warn.row \in Row /\ subs[r] \in Row /\ RowOK(subs[r])
      /\ kick \in KickRecord /\ KickShape /\ raced \subseteq TelegramId
      /\ subs \in [SubId -> Row] /\ WarnShape
  BY DEF GrantInv, JobShape, WarnShape, MarkExpiring, TypeOK, WarningsTypeOK, WarnRecord,
      KickTypeOK, DatabaseTypeOK, ServiceTypeOK, RowsOK
<1>2. new \in Row /\ RowOK(new) /\ Opened(new) /\ new.user = subs[r].user
  <2> HIDE DEF new, r
  <2> QED
    BY <1>1, MovedRow DEF new
<1> HIDE DEF new
<1>3. subs' = [subs EXCEPT ![r] = new]
  BY DEF MarkExpiring, new
<1>4. warn' \in WarnRecord
  BY <1>1 DEF MarkExpiring, WarnRecord, WarnLabel
<1>5. /\ warn'.pc = "refresh" /\ warn'.todo = warn.todo /\ warn'.sub = r
      /\ warn'.row = warn.row /\ warn'.days = warn.days
  BY <1>1 DEF MarkExpiring, WarnRecord
<1>6. \A q \in SubId : Opened(subs[q]) => Opened(subs'[q]) /\ subs'[q].user = subs[q].user
  BY <1>1, <1>2, <1>3
<1>7. WarnShape'
  BY <1>1, <1>4, <1>5, <1>6 DEF WarnShape, WarnRecord, Candidate
<1>8. raced' \subseteq TelegramId
  BY <1>1 DEF MarkExpiring, RowOK
<1> QED
  BY <1>1, <1>2, <1>3, <1>4, <1>7, <1>8, JobWrites DEF MarkExpiring

\* The reminder job writes the count it sent (set_last_warning_days_left).
LEMMA RecordReminderStep ==
    ASSUME GrantInv, RecordReminder, UNCHANGED <<stripeVars, manualVars, kick>>
    PROVE  GrantInv'
<1> DEFINE r == warn.sub
           new == [subs[r] EXCEPT !.warned = warn.days]
<1>1. /\ r \in SubId /\ Opened(subs[r]) /\ warn.days \in Nat
      /\ warn \in WarnRecord /\ subs[r] \in Row /\ RowOK(subs[r])
      /\ kick \in KickRecord /\ KickShape /\ raced \subseteq TelegramId
      /\ subs \in [SubId -> Row] /\ WarnShape /\ warn.todo \in SUBSET Candidate
  BY DEF GrantInv, JobShape, WarnShape, RecordReminder, TypeOK, WarningsTypeOK, WarnRecord,
      KickTypeOK, DatabaseTypeOK, ServiceTypeOK, RowsOK
<1>2. new \in Row /\ RowOK(new) /\ Opened(new) /\ new.user = subs[r].user
  BY <1>1 DEF Row, RowOK, Opened
<1>3. subs' = [subs EXCEPT ![r] = new]
  BY DEF RecordReminder
<1> HIDE DEF new
<1>4. warn' \in WarnRecord /\ warn'.pc = "ready" /\ warn'.todo = warn.todo
  BY <1>1, ReadyRecords DEF RecordReminder, WarnReady
<1>5. \A q \in SubId : Opened(subs[q]) => Opened(subs'[q]) /\ subs'[q].user = subs[q].user
  BY <1>1, <1>2, <1>3
<1>6. WarnShape'
  BY <1>1, <1>4, <1>5 DEF WarnShape, Candidate
<1> QED
  BY <1>1, <1>2, <1>3, <1>4, <1>6, JobWrites DEF RecordReminder, serviceVars

\* The kick job writes a hop (update_status in _advance_to_kicked).
LEMMA WriteHopStep ==
    ASSUME GrantInv, WriteHop, UNCHANGED <<stripeVars, manualVars, warningsVars>>
    PROVE  GrantInv'
<1> DEFINE r == kick.sub
           new == Flush(subs[r], kick.row, WithStatus(kick.row, kick.hop))
<1>1. /\ r \in SubId /\ Opened(subs[r]) /\ Opened(kick.row) /\ RowOK(kick.row)
      /\ kick.hop \in {"expiring", "expired", "kicked"}
      /\ kick \in KickRecord /\ kick.row \in Row /\ subs[r] \in Row /\ RowOK(subs[r])
      /\ warn \in WarnRecord /\ WarnShape /\ raced \subseteq TelegramId
      /\ subs \in [SubId -> Row] /\ KickShape
      /\ kick.todo \in SUBSET KickCandidate
  BY DEF GrantInv, JobShape, KickShape, WriteHop, TypeOK, WarningsTypeOK, KickRecord,
      KickTypeOK, DatabaseTypeOK, ServiceTypeOK, RowsOK
<1>2. new \in Row /\ RowOK(new) /\ Opened(new) /\ new.user = subs[r].user
  <2> DEFINE hop == kick.hop
             old == subs[r]
             read == kick.row
  <2>1. /\ old \in Row /\ RowOK(old) /\ Opened(old) /\ read \in Row /\ Opened(read)
        /\ hop \in {"expiring", "expired", "kicked"} /\ new = Flush(old, read, WithStatus(read, hop))
    BY <1>1
  <2> HIDE DEF new, old, read, hop
  <2>2. new \in Row /\ RowOK(new) /\ Opened(new) /\ new.user = old.user
    BY <2>1, MovedRow
  <2> QED
    BY <2>2 DEF old
<1> HIDE DEF new
<1>3. subs' = [subs EXCEPT ![r] = new]
  BY DEF WriteHop, new
<1>4. PICK label \in {"read", "find_other"}, hop \in {"expired", "kicked"} :
         kick' = [kick EXCEPT !.pc = label, !.hop = hop]
  <2>1. CASE kick.hop = "expiring"
    BY <2>1 DEF WriteHop
  <2>2. CASE kick.hop = "expired"
    BY <2>2 DEF WriteHop
  <2>3. CASE kick.hop = "kicked"
    <3>1. kick' = [kick EXCEPT !.pc = "find_other"]
      BY <2>3 DEF WriteHop
    <3>2. [kick EXCEPT !.pc = "find_other"] = [kick EXCEPT !.pc = "find_other", !.hop = "kicked"]
      BY <1>1, <2>3 DEF KickRecord
    <3> QED
      BY <3>1, <3>2
  <2> QED
    BY <1>1, <2>1, <2>2, <2>3
<1>5. kick' \in KickRecord
  BY <1>1, <1>4 DEF KickRecord, KickLabel
<1>6. /\ kick'.pc = label /\ kick'.todo = kick.todo /\ kick'.sub = r
      /\ kick'.row = kick.row /\ kick'.hop = hop
  BY <1>1, <1>4 DEF KickRecord
<1>7. \A q \in SubId : Opened(subs[q]) => Opened(subs'[q]) /\ subs'[q].user = subs[q].user
  BY <1>1, <1>2, <1>3
<1>8. KickShape'
  BY <1>1, <1>5, <1>6, <1>7 DEF KickShape, KickCandidate
<1> QED
  BY <1>1, <1>2, <1>3, <1>5, <1>8, JobWrites DEF WriteHop, warningsVars, serviceVars

\* The steps of the kick job that write no table.
LEMMA KickReadingStep ==
    ASSUME GrantInv, UNCHANGED <<stripeVars, manualVars, warningsVars>>,
           \/ StartAutoKick \/ KickNext \/ ReadHop \/ FindOtherLive \/ CheckMember
           \/ BanMember \/ UnbanMember \/ KickFails
    PROVE  GrantInv'
<1>0. /\ TypeOK /\ RowsOK /\ KickShape /\ kick \in KickRecord /\ subs \in [SubId -> Row]
      /\ now \in Nat /\ faults \in Nat /\ members \subseteq TelegramId /\ banned \subseteq TelegramId
      /\ leftBanned \subseteq TelegramId
      /\ kick.todo \in SUBSET KickCandidate
  BY DEF GrantInv, JobShape, TypeOK, KickTypeOK, DatabaseTypeOK, EnvironmentTypeOK, ChannelTypeOK,
      KickRecord
<1>1. ASSUME NEW todo \in SUBSET kick.todo, kick' = KickReady(todo), UNCHANGED subs
      PROVE  kick' \in KickRecord /\ KickShape'
  <2>1. kick' \in KickRecord
    BY <1>0, <1>1, ReadyRecords
  <2>2. kick'.pc = "ready" /\ kick'.todo = todo
    BY <1>1 DEF KickReady
  <2> QED
    BY <1>0, <1>1, <2>1, <2>2 DEF KickShape
<1>2. ASSUME NEW label \in {"check_member", "ban", "unban"},
             \/ kick' = [kick EXCEPT !.pc = label]
             \/ label = "check_member" /\ kick' = LookedUp
             \/ kick' = [kick EXCEPT !.pc = label, !.blind = TRUE],
             kick.pc \in {"find_other", "check_member", "ban"}, UNCHANGED subs
      PROVE  kick' \in KickRecord /\ KickShape'
  <2>1. kick' \in KickRecord
    BY <1>0, <1>2 DEF KickRecord, KickLabel, LookedUp
  <2>2. /\ kick'.pc = label /\ kick'.todo = kick.todo /\ kick'.sub = kick.sub
        /\ kick'.row = kick.row /\ kick'.hop = kick.hop
    BY <1>0, <1>2 DEF KickRecord, LookedUp
  <2> QED
    BY <1>0, <1>2, <2>1, <2>2 DEF KickShape
<1>3. CASE StartAutoKick
  <2> DEFINE todo == {[sub |-> r, status |-> subs[r].status,
                       seen |-> {p \in Ref : grants[p] > 0}] : r \in Expired}
  <2>1. \A r \in Expired : r \in SubId /\ subs[r].status \in LiveStatuses /\ Opened(subs[r])
    BY DEF Expired, LiveStatuses, Opened
  <2>2. kick' = KickReady(todo) /\ UNCHANGED subs
    BY <1>3 DEF StartAutoKick, databaseVars
  <2>3. \A c \in todo : c \in KickCandidate /\ Opened(subs[c.sub])
    BY <2>1 DEF KickCandidate
  <2>4. kick' \in KickRecord
    <3>1. todo \in SUBSET KickCandidate
      BY <2>3
    <3> QED
      BY <2>2, <3>1, ReadyRecords
  <2>5. kick'.pc = "ready" /\ kick'.todo = todo
    BY <2>2 DEF KickReady
  <2>6. KickShape'
    BY <2>2, <2>3, <2>5 DEF KickShape
  <2> QED
    BY <1>0, <1>3, <2>4, <2>6, KickMoves DEF StartAutoKick, environmentVars, channelVars
<1>4. CASE KickNext
  <2>1. PICK c \in kick.todo, hop \in {"expiring", "expired"} :
          kick' = [pc |-> "read", todo |-> kick.todo \ {c}, sub |-> c.sub, row |-> NoRow,
                   hop |-> hop, seen |-> c.seen, blind |-> FALSE]
    BY <1>4 DEF KickNext
  <2>2. UNCHANGED <<now, faults, subs>>
    BY <1>4 DEF KickNext, environmentVars, databaseVars
  <2>3. c.sub \in SubId /\ c.seen \subseteq Ref /\ Opened(subs[c.sub]) /\ NoRow \in Row
    BY <1>0 DEF KickShape, KickCandidate, NoRow, Row
  <2>4. kick' \in KickRecord
    BY <1>0, <2>1, <2>3 DEF KickRecord, KickLabel
  <2>5. /\ kick'.pc = "read" /\ kick'.todo = kick.todo \ {c} /\ kick'.sub = c.sub
        /\ kick'.hop = hop
    BY <2>1
  <2>6. KickShape'
    BY <1>0, <2>2, <2>3, <2>5 DEF KickShape
  <2> QED
    BY <1>0, <1>4, <2>2, <2>4, <2>6, KickMoves DEF KickNext, channelVars
<1>5. CASE ReadHop
  <2>1. UNCHANGED <<now, faults, subs>>
    BY <1>5 DEF ReadHop, environmentVars, databaseVars
  <2>2. kick' \in KickRecord /\ KickShape'
    <3>1. CASE kick' = KickReady(kick.todo)
      BY <1>1, <2>1, <3>1
    <3>2. CASE kick' = [kick EXCEPT !.pc = "write", !.row = subs[kick.sub]]
      <4>1. kick.sub \in SubId /\ Opened(subs[kick.sub]) /\ RowOK(subs[kick.sub])
            /\ kick.hop \in {"expiring", "expired", "kicked"}
        BY <1>0, <1>5 DEF KickShape, ReadHop, RowsOK
      <4>2. kick' \in KickRecord
        BY <1>0, <3>2, <4>1 DEF KickRecord, KickLabel
      <4>3. /\ kick'.pc = "write" /\ kick'.todo = kick.todo /\ kick'.sub = kick.sub
            /\ kick'.row = subs[kick.sub] /\ kick'.hop = kick.hop
        BY <1>0, <3>2 DEF KickRecord
      <4> QED
        BY <1>0, <2>1, <4>1, <4>2, <4>3 DEF KickShape
    <3> QED
      BY <1>5, <3>1, <3>2 DEF ReadHop
  <2> QED
    BY <1>0, <1>5, <2>1, <2>2, KickMoves DEF ReadHop, channelVars
<1>6. CASE FindOtherLive
  <2>1. UNCHANGED <<now, faults, subs>>
    BY <1>6 DEF FindOtherLive, environmentVars, databaseVars
  <2>2. kick' \in KickRecord /\ KickShape'
    BY <1>1, <1>2, <1>6, <2>1 DEF FindOtherLive
  <2> QED
    BY <1>0, <1>6, <2>1, <2>2, KickMoves DEF FindOtherLive, channelVars
<1>7. CASE CheckMember \/ BanMember \/ UnbanMember
  <2>1. UNCHANGED <<now, databaseVars, serviceVars, links, told, untold>> /\ faults' \in Nat
    BY <1>0, <1>7 DEF CheckMember, BanMember, UnbanMember, FaultOccurs, channelVars
  <2>2. /\ \/ kick' = KickReady(kick.todo)
           \/ \E label \in {"ban", "unban"} : kick' = [kick EXCEPT !.pc = label]
           \/ kick' = [kick EXCEPT !.pc = "ban", !.blind = TRUE]
        /\ kick.pc \in {"check_member", "ban", "unban"}
    BY <1>7 DEF CheckMember, BanMember, UnbanMember
  <2>3. UNCHANGED subs
    BY <2>1 DEF databaseVars
  <2>4. kick.pc = "unban" => kick' = KickReady(kick.todo)
    BY <1>7 DEF CheckMember, BanMember, UnbanMember
  <2>5. kick' \in KickRecord /\ KickShape'
    <3>1. CASE kick' = KickReady(kick.todo)
      BY <1>1, <2>3, <3>1
    <3>2. CASE kick' # KickReady(kick.todo)
      BY <1>2, <2>2, <2>3, <2>4, <3>2
    <3> QED
      BY <3>1, <3>2
  <2>6. /\ members' \subseteq TelegramId /\ banned' \subseteq TelegramId
        /\ leftBanned' \subseteq TelegramId
    <3>1. kick.row.user \in TelegramId
      BY <1>0, <2>2 DEF KickShape, RowOK
    <3> QED
      BY <1>0, <1>7, <3>1 DEF CheckMember, BanMember, UnbanMember, Ban, channelVars, TypeOK, ChannelTypeOK
  <2> QED
    BY <2>1, <2>5, <2>6, KickMoves
<1>8. CASE KickFails
  <2>1. UNCHANGED <<now, databaseVars, serviceVars, channelVars, subs>> /\ faults' \in Nat
        /\ kick' = KickReady({})
    BY <1>0, <1>8 DEF KickFails, FaultOccurs, databaseVars
  <2>2. kick' \in KickRecord /\ KickShape'
    BY <1>1, <2>1
  <2> QED
    BY <1>0, <2>1, <2>2, KickMoves DEF channelVars
<1> QED
  BY <1>3, <1>4, <1>5, <1>6, <1>7, <1>8

-----------------------------------------------------------------------------
(* The world, and the whole.                                               *)

\* The clock, Stripe's checkout page and the payers.
LEMMA WorldStep ==
    ASSUME GrantInv,
           WorldNext \/ (\E s \in Session, type \in EventType :
                            /\ AcknowledgeEvent(s, type)
                            /\ UNCHANGED <<manualVars, warningsVars, kick>>)
    PROVE  GrantInv'
<1>1. /\ UNCHANGED <<subs, payments, serviceVars, manualVars, warningsVars, kick>>
      /\ UNCHANGED <<faults, banned, told, untold, leftBanned>>
  BY DEF WorldNext, AcknowledgeEvent, AdvanceClock, JoinChannel, RegisterUser, CustomerActs,
      environmentVars, databaseVars, channelVars
<1>2. now' \in Nat
  BY DEF WorldNext, AcknowledgeEvent, AdvanceClock, JoinChannel, RegisterUser, CustomerActs,
      environmentVars, GrantInv, TypeOK, EnvironmentTypeOK
<1>3. links' \in [TelegramId -> Nat] /\ members' \subseteq TelegramId /\ users' \subseteq TelegramId
  <2>1. /\ links \in [TelegramId -> Nat] /\ members \subseteq TelegramId
        /\ users \subseteq TelegramId
    BY DEF GrantInv, TypeOK, ChannelTypeOK, DatabaseTypeOK
  <2>2. CASE \E u \in TelegramId : JoinChannel(u)
    BY <2>1, <2>2 DEF JoinChannel, databaseVars
  <2>3. CASE \E u \in TelegramId : RegisterUser(u)
    BY <2>1, <2>3 DEF RegisterUser, channelVars
  <2>4. CASE UNCHANGED <<users, links, members>>
    BY <2>1, <2>4
  <2> QED
    BY <2>2, <2>3, <2>4 DEF WorldNext, AcknowledgeEvent, AdvanceClock, CustomerActs, channelVars,
        databaseVars
<1>4. checkout' \in [Session -> Checkout]
  <2>1. checkout \in [Session -> Checkout]
    BY DEF GrantInv, TypeOK, StripeTypeOK
  <2>2. ASSUME NEW s \in Session, CustomerActs(s)
        PROVE  checkout' \in [Session -> Checkout]
    <3>1. CheckoutSteps[checkout[s]] \subseteq Checkout
      BY <2>1 DEF CheckoutSteps, Checkout
    <3> QED
      BY <2>1, <2>2, <3>1 DEF CustomerActs
  <2> QED
    BY <2>1, <2>2 DEF WorldNext, AcknowledgeEvent, stripeVars
<1>5. acked' \subseteq (Session \X EventType)
  BY DEF WorldNext, AcknowledgeEvent, Acknowledge, CustomerActs, stripeVars,
      GrantInv, TypeOK, StripeTypeOK
<1>6. TypeOK'
  BY <1>1, <1>2, <1>3, <1>4, <1>5 DEF GrantInv,
      TypeOK, EnvironmentTypeOK, DatabaseTypeOK, ServiceTypeOK, ChannelTypeOK, StripeTypeOK,
      ManualTypeOK, WarningsTypeOK, KickTypeOK,
      serviceVars, manualVars, warningsVars
<1>7. JobShape'
  BY <1>1 DEF GrantInv, JobShape, WarnShape, KickShape, warningsVars
<1> QED
  BY <1>1, <1>6, <1>7, JobMoves DEF serviceVars, manualVars

\* A failing call of a handler that keeps nothing here only counts as a fault.
LEMMA OtherHandlerFailsStep ==
    ASSUME GrantInv, OtherHandlerFails, UNCHANGED <<stripeVars, warningsVars, kick>>
    PROVE  GrantInv'
<1>1. /\ UNCHANGED <<now, databaseVars, serviceVars, links, told, untold, subs>>
      /\ UNCHANGED <<stripeVars, manualVars, warningsVars>>
      /\ UNCHANGED <<members, banned, leftBanned, kick>>
  BY DEF OtherHandlerFails, channelVars, databaseVars
<1>2. /\ kick' \in KickRecord /\ members' \subseteq TelegramId /\ banned' \subseteq TelegramId
      /\ leftBanned' \subseteq TelegramId /\ faults' \in Nat
  BY <1>1 DEF GrantInv, TypeOK, KickTypeOK, ChannelTypeOK, EnvironmentTypeOK, OtherHandlerFails,
      FaultOccurs
<1>3. KickShape'
  BY <1>1 DEF GrantInv, JobShape, KickShape
<1> QED
  BY <1>1, <1>2, <1>3, KickMoves

\* A crash forgets handlers and runs, and keeps what is committed.
LEMMA CrashStep ==
    ASSUME GrantInv, Crash
    PROVE  GrantInv'
<1>1. /\ UNCHANGED <<now, databaseVars, grants, grantedAt, raced, members, banned, links, told>>
      /\ UNCHANGED <<stripeVars, manualVars, reminders>>
      /\ untold' \subseteq Ref /\ leftBanned' \subseteq TelegramId
      /\ unrecorded' \subseteq (SubId \X Nat \X Nat)
      /\ warn' = WarnReady({}) /\ kick' = KickReady({}) /\ task' = [t \in Task |-> IdleTask]
  <2>1. kick.pc = "unban" => kick.row.user \in TelegramId
    BY DEF GrantInv, JobShape, KickShape, RowOK
  <2> QED
    BY <2>1, UntoldTyped, UnrecordedTyped DEF Crash, GrantInv, TypeOK, ChannelTypeOK
<1>2. IdleTask \in TaskRecord /\ IdleTask.pc = "idle"
  BY DEF IdleTask, Starting, TaskRecord, Label, NoRow, Row
<1>3. warn' \in WarnRecord /\ kick' \in KickRecord
  BY <1>1, ReadyRecords
<1>4. TypeOK'
  BY <1>1, <1>2, <1>3 DEF Crash, FaultOccurs, GrantInv,
      TypeOK, EnvironmentTypeOK, DatabaseTypeOK, ServiceTypeOK, ChannelTypeOK, StripeTypeOK,
      ManualTypeOK, WarningsTypeOK, KickTypeOK,
      databaseVars, stripeVars, manualVars
<1>5. RowsOK' /\ Ledger'
  BY <1>1 DEF GrantInv, RowsOK, Ledger, databaseVars, manualVars
<1>6. JobShape'
  BY <1>1 DEF JobShape, WarnShape, KickShape, WarnReady, KickReady
<1>7. \A t \in Task : task'[t].pc = "idle"
  BY <1>1, <1>2
<1>8. ASSUME NEW t \in Task PROVE HandlerOK(t)'
  BY <1>7 DEF HandlerOK, LocalsOK, ChosenRow, Confirmation, Screenshot, Recording, At,
      ServiceLabels, SavingLabels, SavedLabels, InviteLabels, LockingLabels, AfterCommitLabels
<1> QED
  BY <1>4, <1>5, <1>6, <1>8 DEF GrantInv

\* GrantInv holds of a fresh database.
LEMMA GrantInvInit == Init => GrantInv
<1> SUFFICES ASSUME Init PROVE GrantInv
  OBVIOUS
<1> USE DEF Init, EnvironmentInit, DatabaseInit, ServiceInit, ChannelInit, StripeInit, ManualInit,
            WarningsInit, KickInit
<1>1. /\ \A r \in SubId : subs[r] = NoRow
      /\ \A p \in Ref : payments[p] = None /\ grants[p] = 0
      /\ \A t \in Task : task[t].pc = "idle"
  BY DEF IdleTask, Starting
<1>2. /\ NoRow \in Row /\ NoRow.status = "absent" /\ IdleTask \in TaskRecord
      /\ WarnReady({}) \in WarnRecord /\ KickReady({}) \in KickRecord
  BY ReadyRecords DEF NoRow, Row, IdleTask, Starting, TaskRecord, Label
<1>3. TypeOK
  BY <1>2 DEF
      TypeOK, EnvironmentTypeOK, DatabaseTypeOK, ServiceTypeOK, ChannelTypeOK, StripeTypeOK,
      ManualTypeOK, WarningsTypeOK, KickTypeOK, Checkout
<1>4. RowsOK
  BY <1>1, <1>2 DEF RowsOK, RowOK, Opened
<1>5. JobShape
  BY DEF JobShape, WarnShape, KickShape, WarnReady, KickReady
<1>6. Ledger
  BY <1>1 DEF Ledger, Ref
<1>7. ASSUME NEW t \in Task PROVE HandlerOK(t)
  BY <1>1 DEF HandlerOK, LocalsOK, ChosenRow, Confirmation, Screenshot, Recording, At,
      ServiceLabels, SavingLabels, SavedLabels, InviteLabels, LockingLabels, AfterCommitLabels
<1> QED
  BY <1>3, <1>4, <1>5, <1>6, <1>7 DEF GrantInv

\* Every step of a handler in progress preserves GrantInv.
LEMMA HandlerStep ==
    ASSUME GrantInv, NEW t \in Task, HandlerNext(t)
    PROVE  GrantInv'
<1>1. CASE ActivationStep(t) /\ UNCHANGED <<channelVars, stripeVars, manualVars, warningsVars, kick>>
  BY <1>1, GetOrCreateUserStep, FindOrCreateSubscriptionStep, CreatePaymentStep,
     ActivateSubscriptionStep, LockPlaceholderStep, FindRenewableStep, ConfirmManualPaymentStep
     DEF ActivationStep
<1>2. CASE AccessStep(t) /\ UNCHANGED <<stripeVars, manualVars, warningsVars, kick>>
  BY <1>2, CreateInviteLinkStep, SendConfirmationStep DEF AccessStep
<1>3. CASE RespondOK(t) /\ UNCHANGED <<manualVars, warningsVars, kick>>
  BY <1>3, RespondOKStep
<1>4. CASE (ScreenshotStep(t) \/ InviteStep(t)) /\ UNCHANGED <<stripeVars, warningsVars, kick>>
  BY <1>4, SaveUserStep, SavePlaceholderStep, SavePaymentStep, ForwardScreenshotStep,
     ThankSenderStep, CreateFreshLinkStep, SendFreshLinkStep DEF ScreenshotStep, InviteStep
<1> QED
  BY <1>1, <1>2, <1>3, <1>4 DEF HandlerNext

\* Every step of the system preserves GrantInv.
LEMMA GrantInvStep == GrantInv /\ [Next]_vars => GrantInv'
<1> SUFFICES ASSUME GrantInv, [Next]_vars PROVE GrantInv'
  OBVIOUS
<1>1. CASE WorldNext
  BY <1>1, WorldStep
<1>2. CASE \E s \in Session, type \in EventType : WebhookNext(s, type)
  BY <1>2, WorldStep, BeginStripeActivationStep DEF WebhookNext
<1>3. CASE RequestNext
  BY <1>3, ReceiveScreenshotStep, PressConfirmStep, AdminActivateStep, AdminInviteStep
     DEF RequestNext
<1>4. CASE \E t \in Task : HandlerNext(t)
  BY <1>4, HandlerStep
<1>5. CASE WarningsNext
  BY <1>5, WarningsReadingStep, MarkExpiringStep, RecordReminderStep DEF WarningsNext, WarningsStep
<1>6. CASE KickNextStep
  BY <1>6, KickReadingStep, WriteHopStep DEF KickNextStep, KickStep
<1>7. CASE FailureNext \/ Crash
  BY <1>7, CrashStep, TransactionFailsStep, WarningsReadingStep, KickReadingStep,
     OtherHandlerFailsStep DEF FailureNext
<1>8. CASE UNCHANGED vars
  <2>1. UNCHANGED <<environmentVars, databaseVars, serviceVars, channelVars, stripeVars, manualVars,
                    warningsVars, kick>>
    BY <1>8 DEF vars
  <2>2. TypeOK'
    BY <2>1 DEF GrantInv,
        TypeOK, EnvironmentTypeOK, DatabaseTypeOK, ServiceTypeOK, ChannelTypeOK, StripeTypeOK,
      ManualTypeOK, WarningsTypeOK, KickTypeOK,
        environmentVars, databaseVars, serviceVars, channelVars, stripeVars, manualVars, warningsVars
  <2>3. JobShape'
    BY <2>1 DEF GrantInv, JobShape, WarnShape, KickShape, databaseVars, warningsVars
  <2> QED
    BY <2>1, <2>2, <2>3, JobMoves DEF databaseVars, serviceVars, manualVars
<1> QED
  BY <1>1, <1>2, <1>3, <1>4, <1>5, <1>6, <1>7, <1>8 DEF Next, RunningNext

\* GrantInv is an invariant: what every handler and job relies on when it
\* resumes after an await, for any number of payers, rows, handlers and faults.
THEOREM GrantInvHolds == Spec => []GrantInv
  BY GrantInvInit, GrantInvStep, PTL DEF Spec

-----------------------------------------------------------------------------

\* Every value the program keeps has the type its declaration promises.
THEOREM TypeCorrect == Spec => []TypeOK
<1>1. GrantInv => TypeOK
  BY DEF GrantInv
<1> QED
  BY <1>1, GrantInvHolds, PTL

\* However often an event is delivered, a button pressed or a handler
\* retried, and in whatever order their statements interleave, no payment is
\* granted twice (payments_unique, stripe_webhook's lookup, FOR UPDATE).
THEOREM GrantedOnce == Spec => []PaymentGrantsOnce
<1>1. GrantInv => PaymentGrantsOnce
  BY DatabaseAssumption DEF GrantInv, Ledger, PaymentGrantsOnce, Ref
<1> QED
  BY <1>1, GrantInvHolds, PTL

\* A recorded payment and the row it points at agree at all times on whether
\* the payment has been granted (payment_service's single transactions).
THEOREM PaymentsBacked == Spec => []PaymentBacksAccess
<1>1. GrantInv => PaymentBacksAccess
  BY DatabaseAssumption DEF GrantInv, Ledger, PaymentBacksAccess, Opened
<1> QED
  BY <1>1, GrantInvHolds, PTL

\* What confirm_manual_payment checked under the lock is still true when it
\* commits.
THEOREM LockedUnprocessed == Spec => []LockedPlaceholderIsUnprocessed
<1>1. ASSUME GrantInv PROVE LockedPlaceholderIsUnprocessed
  <2> SUFFICES ASSUME NEW t \in Task, NEW r \in SubId, Locks(t, r)
               PROVE  subs[r].status = "pending" /\ payments[task[t].ref] = r
                      /\ grants[task[t].ref] = 0
    BY DEF LockedPlaceholderIsUnprocessed
  <2>1. task[t].pc \in LockingLabels /\ task[t].pending = r /\ HandlerOK(t) /\ Ledger
    BY <1>1 DEF GrantInv, Locks, LockingLabels
  <2>2. /\ task[t].ref \in Ref /\ payments[task[t].ref] = r
        /\ subs[r].status = "pending"
    BY <2>1 DEF HandlerOK, LocalsOK, Confirmation, PendingRow
  <2> QED
    BY <2>1, <2>2, DatabaseAssumption DEF Ledger, Opened
<1> QED
  BY <1>1, GrantInvHolds, PTL

=============================================================================
