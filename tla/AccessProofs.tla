---------------------------- MODULE AccessProofs ----------------------------
(***************************************************************************)
(* What a payment opens: every step is quiet, files a screenshot or buys a *)
(* period, so an opened row is always a paid one, and so are the links,    *)
(* the memberships and the admin's report that hang on it.                 *)
(***************************************************************************)
EXTENDS PayerProofs, AdminReport

\* A screenshot m goes on file, on a placeholder r of its sender.
Files(m, r) ==
    /\ payments[m] = None
    /\ payments' = [payments EXCEPT ![m] = r]
    /\ subs[r].user = Sender[m]
    /\ UNCHANGED <<subs, grants>>

\* A payment p buys a period on row r.
Buys(p, r) ==
    /\ grants[p] = 0
    /\ grants' = [grants EXCEPT ![p] = 1]
    /\ payments' = [payments EXCEPT ![p] = r]
    /\ subs'[r].user \in TelegramId
    /\ \A other \in SubId \ {r} : subs'[other] = subs[other]
    /\ p \in Session => payments[p] = None /\ Settled(p) /\ subs'[r].user = Payer[p]
    /\ p \in Uuid => payments[p] = None
    /\ p \in Message => payments[p] # None /\ subs'[r].user = Sender[p]

Quiet == UNCHANGED <<payments, grants>> /\ NothingOpens

\* The third commit of receive_screenshot.
LEMMA SavePaymentFiles ==
    ASSUME GrantInv, PayerInv, NEW t \in Task, SavePayment(t)
    PROVE  RowsKept /\ \E m \in Message, r \in SubId : Files(m, r)
<1>1. LocalsOK(t) /\ Screenshot(t) /\ Carries(t) /\ task[t].pc = "save_payment"
  BY DEF GrantInv, HandlerOK, PayerInv, SavePayment, At
<1>2. /\ task[t].ref \in Message /\ task[t].pending \in SubId
      /\ payments[task[t].ref] = None /\ subs[task[t].pending].user = Sender[task[t].ref]
  BY <1>1 DEF LocalsOK, Screenshot, Carries, SavingLabels, At
<1> QED
  BY <1>2 DEF SavePayment, Files, RowsKept

\* The COMMIT of _activate_subscription.
LEMMA ActivateSubscriptionBuys ==
    ASSUME GrantInv, PayerInv, NEW t \in Task, ActivateSubscription(t)
    PROVE  /\ RowsKept /\ task[t].ref \in Ref /\ task[t].sub \in SubId
           /\ subs'[task[t].sub].user = task[t].user
           /\ Buys(task[t].ref, task[t].sub)
<1>1. /\ LocalsOK(t) /\ Recording(t) /\ Carries(t) /\ task[t].pc = "activate"
      /\ grants \in [Ref -> Nat] /\ subs \in [SubId -> Row]
  BY DEF GrantInv, HandlerOK, PayerInv, ActivateSubscription, At, TypeOK, ServiceTypeOK,
      DatabaseTypeOK
<1>2. /\ task[t].ref \in Session \cup Uuid /\ task[t].user \in TelegramId
      /\ payments[task[t].ref] = None
  BY <1>1 DEF LocalsOK, Recording, ServiceLabels, At
<1>3. RowsKept /\ task[t].sub \in SubId /\ subs'[task[t].sub].user = task[t].user
  BY <1>1, ActivatesOwnRow DEF ActivateSubscription
<1>4. task[t].ref \in Session => Settled(task[t].ref) /\ task[t].user = Payer[task[t].ref]
  BY <1>1 DEF Carries, ServiceLabels
<1>5. task[t].ref \in Ref /\ task[t].ref \notin Message
  BY <1>2, DatabaseAssumption DEF Ref
<1>6. grants[task[t].ref] = 0
  BY <1>2, <1>5 DEF GrantInv, Ledger
<1>7. grants' = [grants EXCEPT ![task[t].ref] = 1]
  BY <1>1, <1>5, <1>6 DEF ActivateSubscription, WriteActivation
<1>8. payments' = [payments EXCEPT ![task[t].ref] = task[t].sub]
  BY DEF ActivateSubscription
<1>9. \A other \in SubId \ {task[t].sub} : subs'[other] = subs[other]
  BY <1>1 DEF ActivateSubscription, WriteActivation
<1> QED
  BY <1>2, <1>3, <1>4, <1>5, <1>6, <1>7, <1>8, <1>9 DEF Buys

\* The COMMIT of confirm_manual_payment: the placeholder has one payment, so
\* re-pointing moves that one and no other.
LEMMA ConfirmManualPaymentBuys ==
    ASSUME GrantInv, PayerInv, NEW t \in Task, ConfirmManualPayment(t)
    PROVE  /\ RowsKept /\ task[t].ref \in Ref /\ task[t].sub \in SubId
           /\ Buys(task[t].ref, task[t].sub)
<1>1. /\ LocalsOK(t) /\ Confirmation(t) /\ task[t].pc = "confirm_activate" /\ Ledger
      /\ grants \in [Ref -> Nat] /\ subs \in [SubId -> Row]
      /\ payments \in [Ref -> SubId \cup {None}]
  BY DEF GrantInv, HandlerOK, ConfirmManualPayment, At, TypeOK, ServiceTypeOK, DatabaseTypeOK
<1>2. PICK p \in Ref : p = task[t].ref
  BY <1>1 DEF LocalsOK, LockingLabels
<1>3. PICK held \in SubId : held = task[t].pending
  BY <1>1 DEF LocalsOK, LockingLabels
<1>4. /\ payments[p] = held /\ subs[held] = PendingRow(task[t].user)
      /\ task[t].user \in TelegramId
  BY <1>1, <1>2, <1>3 DEF Confirmation, LocalsOK, LockingLabels
<1>5. PICK r \in SubId : r = task[t].sub /\ RowsKept /\ subs'[r].user = task[t].user
  BY <1>1, ActivatesOwnRow DEF ConfirmManualPayment
<1>6. held # None /\ subs[held].status = "pending" /\ subs[held].user = task[t].user
  BY <1>4, DatabaseAssumption DEF PendingRow
<1>7. grants[p] = 0 /\ p \in Message
  <2>1. grants[p] = 0
    BY <1>1, <1>4, <1>6 DEF Ledger, Opened
  <2> QED
    BY <1>1, <1>4, <1>6, <2>1 DEF Ledger
<1>8. \A q \in Ref : payments[q] = held => q = p
  BY <1>1, <1>4, <1>6 DEF Ledger
<1>9. payments' = [payments EXCEPT ![p] = r]
  <2>1. payments' = [q \in Ref |-> IF payments[q] = held THEN r ELSE payments[q]]
    BY <1>3, <1>5 DEF ConfirmManualPayment
  <2> QED
    BY <1>1, <1>4, <1>8, <2>1
<1>10. grants' = [grants EXCEPT ![p] = 1]
  BY <1>1, <1>2, <1>7 DEF ConfirmManualPayment, WriteActivation
<1>11. \A other \in SubId \ {r} : subs'[other] = subs[other]
  BY <1>1, <1>5 DEF ConfirmManualPayment, WriteActivation
<1>12. task[t].user = Sender[p]
  BY <1>4, <1>6, <1>7 DEF PayerInv, Owned
<1>13. p \notin Session /\ p \notin Uuid
  BY <1>7, DatabaseAssumption
<1> QED
  BY <1>2, <1>4, <1>5, <1>6, <1>7, <1>9, <1>10, <1>11, <1>12, <1>13 DEF Buys

\* Time only passes.
LEMMA ClockMoves ==
    ASSUME now \in Nat, Next
    PROVE  now' \in Nat /\ now <= now'
<1>1. UNCHANGED now \/ AdvanceClock
  <2>1. CASE WorldNext
    BY <2>1 DEF WorldNext, JoinChannel, RegisterUser, CustomerActs, environmentVars
  <2>2. CASE \E s \in Session, type \in EventType : WebhookNext(s, type)
    BY <2>2 DEF WebhookNext, AcknowledgeEvent, BeginStripeActivation, environmentVars
  <2>3. CASE RequestNext
    BY <2>3 DEF RequestNext, ReceiveScreenshot, PressConfirm, AdminActivate, AdminInvite,
        environmentVars
  <2>4. CASE \E t \in Task : HandlerNext(t)
    BY <2>4 DEF HandlerNext, ActivationStep, AccessStep, ScreenshotStep, InviteStep,
        GetOrCreateUser, FindOrCreateSubscription, CreatePayment, ActivateSubscription,
        LockPlaceholder, FindRenewable, ConfirmManualPayment, CreateInviteLink,
        SendConfirmation, RespondOK, SaveUser, SavePlaceholder, SavePayment, ForwardScreenshot,
        ThankSender, CreateFreshLink, SendFreshLink, environmentVars
  <2>5. CASE WarningsNext
    BY <2>5 DEF WarningsNext, WarningsStep, StartWarnings, WarnNext, ReadForExpiring,
        MarkExpiring, RefreshMarked, SendReminder, RecordReminder, environmentVars
  <2>6. CASE KickNextStep
    BY <2>6 DEF KickNextStep, KickStep, StartAutoKick, KickNext, ReadHop, WriteHop,
        FindOtherLive, CheckMember, BanMember, UnbanMember, environmentVars
  <2>7. CASE FailureNext
    BY <2>7 DEF FailureNext, TransactionFails, WarningsFail, KickFails, OtherHandlerFails
  <2>8. CASE Crash
    BY <2>8 DEF Crash
  <2> QED
    BY <2>1, <2>2, <2>3, <2>4, <2>5, <2>6, <2>7, <2>8 DEF Next, RunningNext
<1> QED
  BY <1>1 DEF AdvanceClock

\* Every step is quiet, files one screenshot or buys one period.
LEMMA StepEffects ==
    ASSUME GrantInv, PayerInv, [Next]_vars
    PROVE  /\ RowsKept
           /\ \/ Quiet
              \/ /\ UNCHANGED stripeVars
                 /\ \/ \E m \in Message, r \in SubId : Files(m, r)
                    \/ \E p \in Ref, r \in SubId : Buys(p, r)
<1>1. CASE UNCHANGED <<subs, payments, grants>>
  BY <1>1 DEF RowsKept, Quiet, NothingOpens
<1>2. ASSUME NEW t \in Task, HandlerNext(t), ~UNCHANGED <<subs, payments, grants>>
      PROVE  \/ SavePlaceholder(t)
             \/ /\ UNCHANGED stripeVars
                /\ SavePayment(t) \/ ActivateSubscription(t) \/ ConfirmManualPayment(t)
  BY <1>2 DEF HandlerNext, ActivationStep, AccessStep, ScreenshotStep, InviteStep,
      GetOrCreateUser, FindOrCreateSubscription, CreatePayment, LockPlaceholder, FindRenewable,
      CreateInviteLink, SendConfirmation, RespondOK, SaveUser, ForwardScreenshot, ThankSender,
      CreateFreshLink, SendFreshLink, databaseVars
<1>3. ASSUME NEW t \in Task, SavePlaceholder(t) PROVE RowsKept /\ Quiet
  <2>1. PICK r \in SubId : subs[r] = NoRow /\ subs' = [subs EXCEPT ![r] = PendingRow(task[t].user)]
    BY <1>3 DEF SavePlaceholder, FreeIds
  <2>2. subs \in [SubId -> Row] /\ UNCHANGED <<payments, grants>>
    BY <1>3 DEF GrantInv, TypeOK, DatabaseTypeOK, SavePlaceholder
  <2> QED
    BY <2>1, <2>2 DEF RowsKept, Quiet, NothingOpens, PendingRow, Opened
<1>4. CASE \E t \in Task : HandlerNext(t)
  BY <1>1, <1>2, <1>3, <1>4, SavePaymentFiles, ActivateSubscriptionBuys, ConfirmManualPaymentBuys
<1>5. CASE WarningsNext \/ KickNextStep \/ FailureNext
  <2>1. \/ WarningsStep \/ WarningsFail \/ KickStep \/ KickFails
        \/ OtherHandlerFails \/ \E t \in Task : TransactionFails(t)
    BY <1>5 DEF WarningsNext, KickNextStep, FailureNext
  <2>2. CASE WarningsStep \/ WarningsFail \/ KickStep \/ KickFails
    BY <2>2, JobsKeepRows DEF Quiet
  <2> QED
    BY <1>1, <2>1, <2>2 DEF TransactionFails, OtherHandlerFails, databaseVars, serviceVars
<1>6. CASE WorldNext \/ (\E s \in Session, type \in EventType : WebhookNext(s, type)) \/ RequestNext
           \/ Crash \/ UNCHANGED vars
  <2>1. UNCHANGED <<subs, payments, grants>>
    BY <1>6 DEF WorldNext, AdvanceClock, JoinChannel, RegisterUser, CustomerActs, WebhookNext,
        AcknowledgeEvent, BeginStripeActivation, RequestNext, ReceiveScreenshot, PressConfirm,
        AdminActivate, AdminInvite, Crash, vars, databaseVars, serviceVars
  <2> QED
    BY <1>1, <2>1
<1> QED
  BY <1>4, <1>5, <1>6 DEF Next, RunningNext

-----------------------------------------------------------------------------

\* An opened row has a payment that was granted.
OpenedRowsArePaid ==
    \A r \in SubId : Opened(subs[r]) => \E p \in Ref : payments[p] = r /\ grants[p] > 0

PayingLabels == {"create_link", "send_link"} \cup InviteLabels

\* With GrantInv and PayerInv, inductive: who is about to get a link has paid.
AccessInv ==
    /\ OpenedRowsArePaid
    /\ \A t \in Task : task[t].pc \in PayingLabels => HasPaid(task[t].user)
    /\ AccessIsPaidFor

\* A granted payment stays granted, and where it is.
LEMMA GrantedKept ==
    ASSUME GrantInv, PayerInv, [Next]_vars, NEW p \in Ref, grants[p] > 0
    PROVE  payments'[p] = payments[p] /\ grants'[p] = grants[p]
<1>1. ASSUME NEW q \in Ref, NEW r \in SubId, Buys(q, r)
      PROVE  payments'[p] = payments[p] /\ grants'[p] = grants[p]
  BY <1>1 DEF Buys, GrantInv, TypeOK, DatabaseTypeOK, ServiceTypeOK
<1>2. ASSUME NEW m \in Message, NEW r \in SubId, Files(m, r)
      PROVE  payments'[p] = payments[p] /\ grants'[p] = grants[p]
  <2>1. p # m
    BY <1>2 DEF Files, GrantInv, Ledger
  <2> QED
    BY <1>2, <2>1 DEF Files, GrantInv, TypeOK, DatabaseTypeOK
<1> QED
  BY <1>1, <1>2, StepEffects DEF Quiet

\* Whoever has paid once has paid for good.
LEMMA HasPaidKept ==
    ASSUME GrantInv, PayerInv, [Next]_vars, NEW u, HasPaid(u)
    PROVE  HasPaid(u)'
<1>1. PICK p \in Ref : grants[p] > 0 /\ payments[p] # None /\ subs[payments[p]].user = u
  BY DEF HasPaid
<1>2. payments[p] \in SubId /\ subs[payments[p]] # NoRow
  BY <1>1 DEF GrantInv, Ledger, TypeOK, DatabaseTypeOK, Opened, NoRow
<1>3. subs'[payments[p]].user = u
  BY <1>1, <1>2, StepEffects DEF RowsKept
<1> QED
  BY <1>1, <1>3, GrantedKept DEF HasPaid

\* An activation opens a row together with the payment that paid for it.
LEMMA OpenedRowsStep ==
    ASSUME GrantInv, PayerInv, [Next]_vars, OpenedRowsArePaid
    PROVE  OpenedRowsArePaid'
<1>1. payments \in [Ref -> SubId \cup {None}] /\ grants \in [Ref -> Nat]
  BY DEF GrantInv, TypeOK, DatabaseTypeOK, ServiceTypeOK
<1>2. CASE Quiet
  BY <1>2 DEF Quiet, NothingOpens, OpenedRowsArePaid
<1>3. ASSUME NEW m \in Message, NEW r \in SubId, Files(m, r) PROVE OpenedRowsArePaid'
  <2>1. grants[m] = 0
    BY <1>3 DEF Files, GrantInv, Ledger
  <2> QED
    BY <1>1, <1>3, <2>1 DEF Files, OpenedRowsArePaid
<1>4. ASSUME NEW p \in Ref, NEW r \in SubId, Buys(p, r) PROVE OpenedRowsArePaid'
  <2>1. payments'[p] = r /\ grants'[p] = 1
    BY <1>1, <1>4 DEF Buys
  <2>2. \A q \in Ref : grants[q] > 0 => payments'[q] = payments[q] /\ grants'[q] = grants[q]
    BY <1>1, <1>4 DEF Buys
  <2> QED
    BY <1>4, <2>1, <2>2 DEF Buys, OpenedRowsArePaid
<1> QED
  BY <1>2, <1>3, <1>4, StepEffects

\* The owner of a live row has paid.
LEMMA LiveHasPaid ==
    ASSUME OpenedRowsArePaid, DatabaseTypeOK, NEW u \in TelegramId, LiveOf(u) # {}
    PROVE  HasPaid(u)
<1>1. PICK r \in SubId : subs[r].user = u /\ Opened(subs[r])
  BY DEF LiveOf, LiveStatuses, Opened
<1>2. PICK p \in Ref : payments[p] = r /\ grants[p] > 0
  BY <1>1 DEF OpenedRowsArePaid
<1> QED
  BY <1>1, <1>2, DatabaseAssumption DEF HasPaid

\* A handler that does not start to grant access has no new payer to answer for.
PayingKept(t) ==
    task'[t].pc \in PayingLabels =>
        task[t].pc \in PayingLabels /\ task'[t].user = task[t].user

\* Only a COMMIT of _activate_subscription and /invite start to grant access.
LEMMA PayingSteps ==
    ASSUME GrantInv, [Next]_vars, NEW t \in Task
    PROVE  \/ PayingKept(t)
           \/ ActivateSubscription(t) /\ task'[t].user = task[t].user
           \/ \E u \in TelegramId : LiveOf(u) # {} /\ task'[t].user = u
<1> USE DEF PayingKept, PayingLabels, InviteLabels
<1>0. TaskTyped
  BY DEF GrantInv, TypeOK, ServiceTypeOK, TaskTyped
<1>1. CASE task'[t] = task[t] \/ task'[t].pc \notin PayingLabels
  BY <1>1
<1>2. ASSUME NEW other \in Task, NEW label \in Label, Goto(other, label),
             label \notin PayingLabels
      PROVE  PayingKept(t)
  BY <1>0, <1>1, <1>2, GotoTask DEF OthersStay
<1>3. ASSUME NEW other \in Task, End(other) PROVE PayingKept(t)
  BY <1>0, <1>1, <1>3, EndTask DEF OthersStay
<1>4. ASSUME NEW other \in Task, NEW p, NEW u, NEW r, NEW label,
             label \notin PayingLabels,
             task' = [task EXCEPT ![other] = Starting(label, p, u, r)]
      PROVE  PayingKept(t)
  BY <1>0, <1>4 DEF Starting, TaskTyped
<1>5. ASSUME NEW other \in Task, NEW r, NEW row, NEW label, label \notin PayingLabels,
             ChooseRow(other, r, row, label)
      PROVE  PayingKept(t)
  BY <1>0, <1>5 DEF ChooseRow, TaskTyped, TaskRecord
<1>6. CASE RequestNext
  <2>1. PICK other \in Task :
          \/ \E m \in Message : ReceiveScreenshot(other, m)
          \/ \E r \in SubId : PressConfirm(other, r)
          \/ \E p \in Uuid, u \in TelegramId : AdminActivate(other, p, u)
          \/ \E u \in TelegramId : AdminInvite(other, u)
    BY <1>6 DEF RequestNext
  <2>2. CASE \E u \in TelegramId : AdminInvite(other, u)
    <3>1. PICK u \in TelegramId : AdminInvite(other, u)
      BY <2>2
    <3>2. task' = [task EXCEPT ![other] = Starting("invite", None, u, None)] /\ LiveOf(u) # {}
      BY <3>1 DEF AdminInvite
    <3>3. OthersStay(other) /\ task'[other].user = u
      <4>1. /\ "invite" \in Label /\ None \in Ref \cup {None} /\ None \in SubId \cup {None}
            /\ u \in TelegramId \cup {None}
        BY DEF Label
      <4>2. task'[other].user = u /\ OthersStay(other)
        BY <1>0, <3>2, <4>1, BeginTask
      <4> QED
        BY <4>2
    <3>4. CASE t = other
      BY <3>2, <3>3, <3>4
    <3>5. CASE t # other
      <4>1. PayingKept(t)
        BY <1>1, <3>3, <3>5 DEF OthersStay
      <4> QED
        BY <4>1
    <3> QED
      BY <3>4, <3>5
  <2> QED
    BY <1>4, <2>1, <2>2 DEF ReceiveScreenshot, PressConfirm, AdminActivate, BeginActivation
<1>7. ASSUME NEW other \in Task, ActivationStep(other), ~ActivateSubscription(other)
      PROVE  PayingKept(t)
  <2>1. CASE GetOrCreateUser(other) \/ ConfirmManualPayment(other)
    BY <1>2, <2>1 DEF GetOrCreateUser, ConfirmManualPayment, Label
  <2>2. CASE FindOrCreateSubscription(other) \/ FindRenewable(other)
    BY <1>5, <2>2 DEF FindOrCreateSubscription, FindRenewable
  <2>3. CASE CreatePayment(other)
    BY <1>2, <1>4, <2>3 DEF CreatePayment, Label
  <2>4. CASE LockPlaceholder(other)
    <3>1. CASE End(other)
      BY <1>3, <3>1
    <3>2. ASSUME NEW p \in Ref,
                 task' = [task EXCEPT ![other].pc = "find_renewable", ![other].ref = p,
                                      ![other].user = subs[task[other].pending].user,
                                      ![other].row = subs[task[other].pending]]
          PROVE  PayingKept(t)
      BY <1>0, <3>2 DEF TaskTyped, TaskRecord
    <3> QED
      BY <2>4, <3>1, <3>2 DEF LockPlaceholder
  <2> QED
    BY <1>7, <2>1, <2>2, <2>3, <2>4 DEF ActivationStep
<1>8. ASSUME NEW other \in Task, ActivateSubscription(other)
      PROVE  PayingKept(t) \/ (ActivateSubscription(t) /\ task'[t].user = task[t].user)
  <2>1. OthersStay(other) /\ task'[other].user = task[other].user
    BY <1>0, <1>8, GotoTask DEF ActivateSubscription, Label
  <2> QED
    BY <1>8, <2>1 DEF OthersStay
<1>9. ASSUME NEW other \in Task, AccessStep(other) \/ RespondOK(other) \/ ScreenshotStep(other)
                                   \/ InviteStep(other)
      PROVE  PayingKept(t)
  <2>1. CASE CreateInviteLink(other)
    <3>1. PICK label \in {"send_link", "confirm_access"} : Goto(other, label)
      BY <2>1 DEF CreateInviteLink
    <3>2. task[other].pc = "create_link"
      BY <2>1 DEF CreateInviteLink, At
    <3> QED
      BY <1>0, <3>1, <3>2, GotoTask DEF Label, OthersStay
  <2>2. CASE CreateFreshLink(other)
    <3>1. CASE Goto(other, "send_invite")
      BY <1>0, <2>2, <3>1, GotoTask DEF Label, OthersStay, CreateFreshLink, At
    <3> QED
      BY <1>3, <2>2, <3>1 DEF CreateFreshLink
  <2>3. CASE SavePlaceholder(other)
    BY <1>0, <2>3 DEF SavePlaceholder, TaskTyped, TaskRecord
  <2>4. CASE SendConfirmation(other) \/ RespondOK(other)
    BY <1>2, <1>3, <2>4 DEF SendConfirmation, RespondOK, Label
  <2>5. CASE SaveUser(other) \/ SavePayment(other) \/ ForwardScreenshot(other)
             \/ ThankSender(other) \/ SendFreshLink(other)
    BY <1>2, <1>3, <2>5 DEF SaveUser, SavePayment, ForwardScreenshot, ThankSender,
        SendFreshLink, Label
  <2> QED
    BY <1>9, <2>1, <2>2, <2>3, <2>4, <2>5 DEF AccessStep, ScreenshotStep, InviteStep
<1>10. CASE \E other \in Task : HandlerNext(other)
  BY <1>7, <1>8, <1>9, <1>10 DEF HandlerNext
<1>11. CASE WorldNext \/ WarningsNext \/ KickNextStep \/ UNCHANGED vars
  <2>1. UNCHANGED task
    BY <1>11, JobsKeepRows DEF WorldNext, AdvanceClock, JoinChannel, RegisterUser, CustomerActs,
        WarningsNext, KickNextStep, vars, serviceVars
  <2> QED
    BY <1>1, <2>1
<1>12. CASE FailureNext \/ Crash
  <2>1. CASE Crash
    BY <2>1 DEF Crash, IdleTask, Starting
  <2>2. CASE WarningsFail \/ KickFails
    BY <1>1, <2>2, JobsKeepRows
  <2> QED
    BY <1>1, <1>3, <1>12, <2>1, <2>2 DEF FailureNext, TransactionFails, OtherHandlerFails, serviceVars
<1>13. ASSUME NEW s \in Session, NEW type \in EventType, WebhookNext(s, type)
       PROVE  PayingKept(t)
  BY <1>1, <1>4, <1>13 DEF WebhookNext, AcknowledgeEvent, BeginStripeActivation, BeginActivation,
      serviceVars
<1> QED
  BY <1>6, <1>10, <1>11, <1>12, <1>13 DEF Next, RunningNext

\* Links go to the payer of a handler that grants access, and members come
\* from links or were members before.
LEMMA AccessSteps ==
    ASSUME GrantInv, [Next]_vars, NEW u \in TelegramId, u \in members' \/ links'[u] > 0
    PROVE  \/ u \in members \/ links[u] > 0
           \/ \E t \in Task : task[t].pc \in PayingLabels /\ task[t].user = u
<1>1. links \in [TelegramId -> Nat] /\ \A t \in Task : HandlerOK(t)
  BY DEF GrantInv, TypeOK, ChannelTypeOK
<1>2. CASE UNCHANGED links /\ members' \subseteq members
  BY <1>2
<1>3. ASSUME NEW t \in Task, SendConfirmation(t) \/ SendFreshLink(t), ~UNCHANGED links
      PROVE  /\ task[t].pc \in PayingLabels /\ UNCHANGED members
             /\ links' = [links EXCEPT ![task[t].user] = @ + 1]
  BY <1>3 DEF SendConfirmation, SendFreshLink, HandLink, At, PayingLabels, InviteLabels
<1>4. ASSUME NEW t \in Task, SendConfirmation(t) \/ SendFreshLink(t)
      PROVE  \/ u \in members \/ links[u] > 0
             \/ task[t].pc \in PayingLabels /\ task[t].user = u
  <2>1. UNCHANGED members
    BY <1>4 DEF SendConfirmation, SendFreshLink
  <2>2. CASE UNCHANGED links
    BY <2>1, <2>2
  <2>3. CASE ~UNCHANGED links
    BY <1>1, <1>3, <1>4, <2>1, <2>3
  <2> QED
    BY <2>2, <2>3
<1>5. ASSUME NEW other \in TelegramId, JoinChannel(other)
      PROVE  u \in members \/ links[u] > 0
  BY <1>1, <1>5 DEF JoinChannel
<1>6. ASSUME NEW t \in Task, HandlerNext(t)
      PROVE  SendConfirmation(t) \/ SendFreshLink(t) \/ UNCHANGED <<links, members>>
  BY <1>6 DEF HandlerNext, AccessStep, CreateInviteLink, RespondOK, ScreenshotStep, InviteStep,
      SaveUser, SavePlaceholder, SavePayment, ForwardScreenshot, ThankSender, CreateFreshLink,
      channelVars
<1>7. CASE WarningsNext \/ KickNextStep \/ FailureNext \/ Crash
  <2>1. CASE BanMember
    BY <1>2, <2>1 DEF BanMember, Ban
  <2>2. CASE ~BanMember
    BY <1>2, <1>7, <2>2 DEF WarningsNext, WarningsStep, StartWarnings, WarnNext, ReadForExpiring,
        MarkExpiring, RefreshMarked, SendReminder, RecordReminder, KickNextStep, KickStep,
        StartAutoKick, KickNext, ReadHop, WriteHop, FindOtherLive, CheckMember,
        UnbanMember, FailureNext, WarningsFail, KickFails, OtherHandlerFails, Crash, channelVars
  <2> QED
    BY <2>1, <2>2
<1>8. ASSUME NEW s \in Session, NEW type \in EventType, WebhookNext(s, type)
      PROVE  UNCHANGED <<links, members>>
  BY <1>8 DEF WebhookNext, AcknowledgeEvent, BeginStripeActivation, channelVars
<1>9. CASE RequestNext \/ UNCHANGED vars
  BY <1>2, <1>9 DEF RequestNext, ReceiveScreenshot, PressConfirm, AdminActivate, AdminInvite, vars,
      channelVars
<1>10. CASE WorldNext
  BY <1>2, <1>5, <1>10 DEF WorldNext, RegisterUser, CustomerActs, channelVars
<1> QED
  BY <1>2, <1>4, <1>6, <1>7, <1>8, <1>9, <1>10 DEF Next, RunningNext

\* AccessInv holds of a fresh database.
LEMMA AccessInvInit == Init => AccessInv
<1> SUFFICES ASSUME Init PROVE AccessInv
  OBVIOUS
<1> USE DEF Init, ServiceInit, DatabaseInit, ChannelInit
<1>1. OpenedRowsArePaid
  BY DEF OpenedRowsArePaid, Opened, NoRow
<1>2. \A t \in Task : task[t].pc \notin PayingLabels
  BY DEF IdleTask, Starting, PayingLabels, InviteLabels
<1>3. AccessIsPaidFor
  BY DEF AccessIsPaidFor
<1> QED
  BY <1>1, <1>2, <1>3 DEF AccessInv

\* Every step of the system preserves AccessInv.
LEMMA AccessInvStep == GrantInv /\ PayerInv /\ AccessInv /\ [Next]_vars => AccessInv'
<1> SUFFICES ASSUME GrantInv, PayerInv, AccessInv, [Next]_vars PROVE AccessInv'
  OBVIOUS
<1>1. OpenedRowsArePaid'
  BY OpenedRowsStep DEF AccessInv
<1>2. ASSUME NEW t \in Task, NEW u, task'[t].pc \in PayingLabels, task'[t].user = u
      PROVE  HasPaid(u)'
  <2>1. CASE PayingKept(t)
    BY <1>2, <2>1, HasPaidKept DEF AccessInv, PayingKept
  <2>2. CASE ActivateSubscription(t) /\ task'[t].user = task[t].user
    <3>1. PICK p \in Ref, r \in SubId :
            p = task[t].ref /\ r = task[t].sub /\ subs'[r].user = u /\ Buys(p, r)
      BY <1>2, <2>2, ActivateSubscriptionBuys
    <3>2. payments'[p] = r /\ grants'[p] = 1
      BY <3>1 DEF Buys, GrantInv, TypeOK, DatabaseTypeOK, ServiceTypeOK
    <3> QED
      BY <3>1, <3>2, DatabaseAssumption DEF HasPaid
  <2>3. CASE \E owner \in TelegramId : LiveOf(owner) # {} /\ task'[t].user = owner
    <3>1. u \in TelegramId /\ LiveOf(u) # {}
      BY <1>2, <2>3
    <3>2. HasPaid(u)
      BY <3>1, LiveHasPaid DEF AccessInv, GrantInv, TypeOK
    <3> QED
      BY <3>2, HasPaidKept
  <2> QED
    BY <2>1, <2>2, <2>3, PayingSteps
<1>3. ASSUME NEW u \in TelegramId, u \in members' \/ links'[u] > 0 PROVE HasPaid(u)'
  <2>1. HasPaid(u)
    BY <1>3, AccessSteps DEF AccessInv, AccessIsPaidFor
  <2> QED
    BY <2>1, HasPaidKept
<1>4. AccessIsPaidFor'
  BY <1>3 DEF AccessIsPaidFor
<1>5. \A t \in Task : task'[t].pc \in PayingLabels => \A u : task'[t].user = u => HasPaid(u)'
  BY <1>2
<1>6. (\A t \in Task : task[t].pc \in PayingLabels => HasPaid(task[t].user))'
  BY <1>5 DEF HasPaid
<1> QED
  BY <1>1, <1>4, <1>6 DEF AccessInv

\* AccessInv is an invariant, for any number of payers, rows and handlers.
THEOREM AccessInvHolds == Spec => []AccessInv
  BY AccessInvInit, AccessInvStep, GrantInvHolds, PayerInvHolds, PTL DEF Spec

\* Whoever is in the channel or can get in with a link of the bot's has paid
\* once: after a commit (confirm_and_grant_access) or by /invite.
THEOREM AccessPaidFor == Spec => []AccessIsPaidFor
<1>1. AccessInv => AccessIsPaidFor
  BY DEF AccessInv
<1> QED
  BY <1>1, AccessInvHolds, PTL

-----------------------------------------------------------------------------

\* Handler t is as close to telling its payer as it was.
ConfirmingKept(t) ==
    /\ Confirming(t)' <=> Confirming(t)
    /\ Confirming(t) => task'[t].ref = task[t].ref

\* A step that neither grants nor tells.
TellsNobody ==
    /\ UNCHANGED <<told, untold, grants>>
    /\ \A t \in Task : ConfirmingKept(t)

\* A step that cuts these handlers short: what they were about to tell they
\* leave untold.
GivesUp(handlers) ==
    /\ UNCHANGED <<told, grants>> /\ LeaveUntold(handlers)
    /\ \A t \in handlers : ~Confirming(t)'
    /\ \A t \in Task \ handlers : ConfirmingKept(t)

\* A handler at any other label begins, moves on or ends.
LEMMA OtherLabels ==
    ASSUME TaskTyped, NEW t \in Task, ~Confirming(t),
           \/ \E label \in Label \ AfterCommitLabels :
                 \/ Goto(t, label)
                 \/ \E p, u, r : task' = [task EXCEPT ![t] = Starting(label, p, u, r)]
                 \/ \E r, row : ChooseRow(t, r, row, label)
                 \/ \E p, u, row : task' = [task EXCEPT ![t].pc = label, ![t].ref = p,
                                                        ![t].user = u, ![t].row = row]
                 \/ \E r : task' = [task EXCEPT ![t].pc = label, ![t].pending = r]
           \/ End(t)
    PROVE  \A other \in Task : ConfirmingKept(other)
<1> SUFFICES (\A other \in Task \ {t} : task'[other] = task[other])
              /\ task'[t].pc \notin AfterCommitLabels
  <2>1. ASSUME \A other \in Task \ {t} : task'[other] = task[other],
               task'[t].pc \notin AfterCommitLabels, NEW other \in Task
        PROVE  ConfirmingKept(other)
    BY <2>1 DEF ConfirmingKept, Confirming
  <2> QED
    BY <2>1
<1>1. CASE End(t)
  BY <1>1, EndTask DEF OthersStay, AfterCommitLabels
<1>2. ASSUME NEW label \in Label \ AfterCommitLabels, Goto(t, label)
      PROVE  /\ \A other \in Task \ {t} : task'[other] = task[other]
             /\ task'[t].pc \notin AfterCommitLabels
  BY <1>2, GotoTask DEF OthersStay
<1>3. ASSUME NEW label \in Label \ AfterCommitLabels, NEW p, NEW u, NEW r,
             task' = [task EXCEPT ![t] = Starting(label, p, u, r)]
      PROVE  /\ \A other \in Task \ {t} : task'[other] = task[other]
             /\ task'[t].pc \notin AfterCommitLabels
  BY <1>3 DEF Starting, TaskTyped
<1>4. ASSUME NEW label \in Label \ AfterCommitLabels, NEW r, NEW row, ChooseRow(t, r, row, label)
      PROVE  /\ \A other \in Task \ {t} : task'[other] = task[other]
             /\ task'[t].pc \notin AfterCommitLabels
  BY <1>4 DEF ChooseRow, TaskTyped, TaskRecord
<1>5. ASSUME NEW label \in Label \ AfterCommitLabels, NEW p, NEW u, NEW row,
             task' = [task EXCEPT ![t].pc = label, ![t].ref = p, ![t].user = u, ![t].row = row]
      PROVE  /\ \A other \in Task \ {t} : task'[other] = task[other]
             /\ task'[t].pc \notin AfterCommitLabels
  BY <1>5 DEF TaskTyped, TaskRecord
<1>6. ASSUME NEW label \in Label \ AfterCommitLabels, NEW r,
             task' = [task EXCEPT ![t].pc = label, ![t].pending = r]
      PROVE  /\ \A other \in Task \ {t} : task'[other] = task[other]
             /\ task'[t].pc \notin AfterCommitLabels
  BY <1>6 DEF TaskTyped, TaskRecord
<1> QED
  BY <1>1, <1>2, <1>3, <1>4, <1>5, <1>6

\* Apart from the two COMMITs and the DM, a step tells nobody or gives up on it.
LEMMA TellingSteps ==
    ASSUME GrantInv, [Next]_vars
    PROVE  \/ TellsNobody
           \/ \E t \in Task : /\ ActivateSubscription(t) \/ ConfirmManualPayment(t)
                             /\ UNCHANGED <<told, untold>>
           \/ \E t \in Task : SendConfirmation(t)
           \/ \E handlers \in SUBSET Task : GivesUp(handlers)
<1>0. TaskTyped
  BY DEF GrantInv, TypeOK, ServiceTypeOK, TaskTyped
<1>1. ASSUME UNCHANGED task PROVE \A t \in Task : ConfirmingKept(t)
  BY <1>1 DEF ConfirmingKept, Confirming
<1>3. CASE RequestNext
  <2>1. PICK t \in Task :
          \/ \E m \in Message : ReceiveScreenshot(t, m)
          \/ \E r \in SubId : PressConfirm(t, r)
          \/ \E p \in Uuid, u \in TelegramId : AdminActivate(t, p, u)
          \/ \E u \in TelegramId : AdminInvite(t, u)
    BY <1>3 DEF RequestNext
  <2>2. ~Confirming(t) /\ UNCHANGED <<told, untold, grants>>
    BY <2>1 DEF ReceiveScreenshot, PressConfirm, AdminActivate, AdminInvite, At, Confirming,
        AfterCommitLabels, channelVars
  <2>3. \E label \in Label \ AfterCommitLabels : \E p, u, r :
           task' = [task EXCEPT ![t] = Starting(label, p, u, r)]
    <3>1. {"save_user", "lock", "get_user", "invite"} \subseteq Label \ AfterCommitLabels
      BY DEF Label, AfterCommitLabels
    <3>2. CASE \E m \in Message : ReceiveScreenshot(t, m)
      BY <3>1, <3>2 DEF ReceiveScreenshot
    <3>3. CASE \E r \in SubId : PressConfirm(t, r)
      BY <3>1, <3>3 DEF PressConfirm
    <3>4. CASE \E p \in Uuid, u \in TelegramId : AdminActivate(t, p, u)
      BY <3>1, <3>4 DEF AdminActivate, BeginActivation
    <3>5. CASE \E u \in TelegramId : AdminInvite(t, u)
      BY <3>1, <3>5 DEF AdminInvite
    <3> QED
      BY <2>1, <3>2, <3>3, <3>4, <3>5
  <2>4. \A other \in Task : ConfirmingKept(other)
    BY <1>0, <2>2, <2>3, OtherLabels
  <2> QED
    BY <2>2, <2>4 DEF TellsNobody
<1>4. ASSUME NEW s \in Session, NEW type \in EventType, WebhookNext(s, type)
      PROVE  TellsNobody
  <2>1. UNCHANGED <<told, untold, grants>>
    BY <1>4 DEF WebhookNext, AcknowledgeEvent, BeginStripeActivation, channelVars, serviceVars
  <2>2. CASE AcknowledgeEvent(s, type)
    BY <1>1, <2>1, <2>2 DEF AcknowledgeEvent, serviceVars, TellsNobody
  <2>3. ASSUME NEW t \in Task, BeginStripeActivation(t, s, type) PROVE TellsNobody
    <3>1. ~Confirming(t) /\ "get_user" \in Label \ AfterCommitLabels
      BY <2>3 DEF BeginStripeActivation, At, Confirming, AfterCommitLabels, Label
    <3>2. task' = [task EXCEPT ![t] = Starting("get_user", s, Payer[s], None)]
      BY <2>3 DEF BeginStripeActivation, BeginActivation
    <3> QED
      BY <1>0, <2>1, <3>1, <3>2, OtherLabels DEF TellsNobody
  <2> QED
    BY <1>4, <2>2, <2>3 DEF WebhookNext
<1>5. ASSUME NEW t \in Task, ActivationStep(t), UNCHANGED <<told, untold>>
      PROVE  \/ TellsNobody
             \/ ActivateSubscription(t) \/ ConfirmManualPayment(t)
  <2>1. SUFFICES ASSUME ~ActivateSubscription(t), ~ConfirmManualPayment(t) PROVE TellsNobody
    OBVIOUS
  <2>2. ~Confirming(t) /\ UNCHANGED grants
    BY <1>5, <2>1 DEF ActivationStep, GetOrCreateUser, FindOrCreateSubscription, CreatePayment,
        LockPlaceholder, FindRenewable, At, Confirming, AfterCommitLabels
  <2>3. {"find_live", "insert_payment", "activate", "duplicate", "find_renewable",
         "confirm_activate"} \subseteq Label \ AfterCommitLabels
    BY DEF Label, AfterCommitLabels
  <2>4. \A other \in Task : ConfirmingKept(other)
    <3>1. CASE GetOrCreateUser(t)
      BY <1>0, <2>2, <2>3, <3>1, OtherLabels DEF GetOrCreateUser
    <3>2. CASE FindOrCreateSubscription(t)
      <4>1. \E r, row : ChooseRow(t, r, row, "insert_payment")
        BY <3>2 DEF FindOrCreateSubscription
      <4> QED
        BY <1>0, <2>2, <2>3, <4>1, OtherLabels
    <3>3. CASE CreatePayment(t)
      BY <1>0, <2>2, <2>3, <3>3, OtherLabels DEF CreatePayment
    <3>4. CASE LockPlaceholder(t)
      <4>1. \/ End(t)
            \/ \E p, u, row : task' = [task EXCEPT ![t].pc = "find_renewable", ![t].ref = p,
                                                   ![t].user = u, ![t].row = row]
        <5>1. CASE End(t)
          BY <5>1
        <5>2. CASE ~End(t)
          <6>1. PICK p \in Ref :
                  task' = [task EXCEPT ![t].pc = "find_renewable", ![t].ref = p,
                                       ![t].user = subs[task[t].pending].user,
                                       ![t].row = subs[task[t].pending]]
            BY <3>4, <5>2 DEF LockPlaceholder
          <6> QED
            BY <6>1
        <5> QED
          BY <5>1, <5>2
      <4> QED
        BY <1>0, <2>2, <2>3, <4>1, OtherLabels
    <3>5. CASE FindRenewable(t)
      <4>1. \E r, row : ChooseRow(t, r, row, "confirm_activate")
        BY <3>5 DEF FindRenewable
      <4> QED
        BY <1>0, <2>2, <2>3, <4>1, OtherLabels
    <3> QED
      BY <1>5, <2>1, <3>1, <3>2, <3>3, <3>4, <3>5 DEF ActivationStep
  <2> QED
    BY <1>5, <2>2, <2>4 DEF TellsNobody
<1>6. ASSUME NEW t \in Task, CreateInviteLink(t) PROVE TellsNobody
  <2>1. PICK label \in {"send_link", "confirm_access"} : Goto(t, label)
    BY <1>6 DEF CreateInviteLink
  <2>2. /\ label \in Label /\ label \in AfterCommitLabels /\ Confirming(t)
        /\ UNCHANGED <<told, untold, grants>>
    BY <1>6 DEF CreateInviteLink, At, Confirming, AfterCommitLabels, Label, channelVars
  <2>3. OthersStay(t) /\ task'[t].pc = label /\ task'[t].ref = task[t].ref
    BY <1>0, <2>1, <2>2, GotoTask
  <2>4. \A other \in Task : ConfirmingKept(other)
    BY <2>2, <2>3 DEF ConfirmingKept, Confirming, OthersStay
  <2> QED
    BY <2>2, <2>4 DEF TellsNobody
<1>7. ASSUME NEW t \in Task, RespondOK(t) \/ ScreenshotStep(t) \/ InviteStep(t)
      PROVE  TellsNobody
  <2>1. ~Confirming(t) /\ UNCHANGED <<told, untold, grants>>
    BY <1>7 DEF RespondOK, ScreenshotStep, InviteStep, SaveUser, SavePlaceholder, SavePayment,
        ForwardScreenshot, ThankSender, CreateFreshLink, SendFreshLink, At, Confirming,
        AfterCommitLabels, channelVars
  <2>2. {"save_placeholder", "save_payment", "forward", "thank", "send_invite"}
           \subseteq Label \ AfterCommitLabels
    BY DEF Label, AfterCommitLabels
  <2>3. CASE SavePlaceholder(t)
    <3>1. \E r : task' = [task EXCEPT ![t].pc = "save_payment", ![t].pending = r]
      BY <2>3 DEF SavePlaceholder
    <3> QED
      BY <1>0, <2>1, <2>2, <3>1, OtherLabels DEF TellsNobody
  <2>4. CASE ~SavePlaceholder(t)
    <3>1. End(t) \/ \E label \in Label \ AfterCommitLabels : Goto(t, label)
      BY <1>7, <2>2, <2>4 DEF RespondOK, ScreenshotStep, InviteStep, SaveUser, SavePayment,
          ForwardScreenshot, ThankSender, CreateFreshLink, SendFreshLink
    <3> QED
      BY <1>0, <2>1, <3>1, OtherLabels DEF TellsNobody
  <2> QED
    BY <2>3, <2>4
<1>8. ASSUME NEW t \in Task, HandlerNext(t)
      PROVE  \/ TellsNobody
             \/ (ActivateSubscription(t) \/ ConfirmManualPayment(t)) /\ UNCHANGED <<told, untold>>
             \/ SendConfirmation(t)
  BY <1>5, <1>6, <1>7, <1>8 DEF HandlerNext, AccessStep, channelVars
<1>9. CASE WorldNext \/ WarningsNext \/ KickNextStep \/ UNCHANGED vars
  <2>1. UNCHANGED <<task, grants>>
    BY <1>9, JobsKeepRows DEF WorldNext, AdvanceClock, JoinChannel, RegisterUser, CustomerActs,
        WarningsNext, KickNextStep, vars, serviceVars
  <2>2. UNCHANGED <<told, untold>>
    BY <1>9 DEF WorldNext, AdvanceClock, JoinChannel, RegisterUser, CustomerActs, WarningsNext,
        WarningsStep, StartWarnings, WarnNext, ReadForExpiring, MarkExpiring, RefreshMarked,
        SendReminder, RecordReminder, KickNextStep, KickStep, StartAutoKick, KickNext, ReadHop,
        WriteHop, FindOtherLive, CheckMember, BanMember, UnbanMember, vars, channelVars
  <2> QED
    BY <1>1, <2>1, <2>2 DEF TellsNobody
<1>10. CASE FailureNext
  <2>1. ASSUME NEW t \in Task, TransactionFails(t), LeaveUntold({t}), UNCHANGED told
        PROVE  GivesUp({t})
    <3>1. OthersStay(t) /\ task'[t].pc = "idle" /\ UNCHANGED grants
      BY <1>0, <2>1, EndTask DEF TransactionFails
    <3> QED
      BY <2>1, <3>1 DEF GivesUp, ConfirmingKept, Confirming, OthersStay, AfterCommitLabels
  <2>2. CASE WarningsFail \/ KickFails \/ OtherHandlerFails
    <3>1. UNCHANGED <<task, told, untold, grants>>
      BY <2>2 DEF WarningsFail, KickFails, OtherHandlerFails, serviceVars, channelVars
    <3> QED
      BY <1>1, <3>1 DEF TellsNobody
  <2> QED
    BY <1>10, <2>1, <2>2 DEF FailureNext
<1>11. CASE Crash
  <2>1. UNCHANGED <<told, grants>> /\ LeaveUntold(Task) /\ \A t \in Task : ~Confirming(t)'
    BY <1>11 DEF Crash, IdleTask, Starting, Confirming, AfterCommitLabels
  <2>2. GivesUp(Task)
    BY <2>1 DEF GivesUp
  <2> QED
    BY <2>2
<1> QED
  BY <1>3, <1>4, <1>8, <1>9, <1>10, <1>11 DEF Next, RunningNext

\* ToldInv holds before anything is paid.
LEMMA ToldInvInit == Init => ToldInv
<1> SUFFICES ASSUME Init PROVE ToldInv
  OBVIOUS
<1>1. (\A t \in Task : ~Confirming(t)) /\ told = {} /\ \A p \in Ref : grants[p] = 0
  BY DEF Init, ServiceInit, ChannelInit, IdleTask, Starting, Confirming, AfterCommitLabels
<1> QED
  BY <1>1 DEF ToldInv, PayersAreToldOnce

\* Every step of the system preserves ToldInv.
LEMMA ToldInvStep == GrantInv /\ PayerInv /\ ToldInv /\ [Next]_vars => ToldInv'
<1> SUFFICES ASSUME GrantInv, PayerInv, ToldInv, [Next]_vars PROVE ToldInv'
  OBVIOUS
<1>0. /\ TaskTyped /\ told \subseteq Ref /\ grants \in [Ref -> Nat]
      /\ \A t \in Task : Confirming(t) => task[t].ref \in Ref
  BY DEF GrantInv, TypeOK, ServiceTypeOK, ChannelTypeOK, TaskTyped, HandlerOK, LocalsOK,
      Confirming
<1>1. CASE TellsNobody
  <2>1. PayersAreToldOnce'
    BY <1>1 DEF TellsNobody, ConfirmingKept, ToldInv, PayersAreToldOnce
  <2>2. \A p \in told' : grants'[p] > 0
    BY <1>1 DEF TellsNobody, ToldInv
  <2>3. (\A t \in Task : Confirming(t) => grants[task[t].ref] > 0)'
    BY <1>1 DEF TellsNobody, ConfirmingKept, ToldInv
  <2>4. ASSUME NEW p \in Ref, grants'[p] > 0
        PROVE  p \in told' \cup untold' \/ \E t \in Task : Confirming(t)' /\ task'[t].ref = p
    BY <1>1, <2>4 DEF TellsNobody, ConfirmingKept, ToldInv
  <2> QED
    BY <2>1, <2>2, <2>3, <2>4 DEF ToldInv
<1>2. ASSUME NEW t \in Task, ActivateSubscription(t) \/ ConfirmManualPayment(t),
             UNCHANGED <<told, untold>>
      PROVE  ToldInv'
  <2>1. PICK p \in Ref : /\ p = task[t].ref /\ grants[p] = 0
                         /\ grants' = [grants EXCEPT ![p] = 1]
    BY <1>2, ActivateSubscriptionBuys, ConfirmManualPaymentBuys DEF Buys
  <2>2. grants'[p] = 1 /\ \A q \in Ref \ {p} : grants'[q] = grants[q]
    BY <1>0, <2>1
  <2>3. OthersStay(t) /\ Confirming(t)' /\ task'[t].ref = p
    <3>1. {"create_link", "notify"} \subseteq Label \cap AfterCommitLabels
      BY DEF Label, AfterCommitLabels
    <3>2. \E label \in {"create_link", "notify"} : Goto(t, label)
      BY <1>2 DEF ActivateSubscription, ConfirmManualPayment
    <3> QED
      BY <1>0, <2>1, <3>1, <3>2, GotoTask DEF Confirming
  <2>4. p \notin told /\ \A other \in Task : Confirming(other) => task[other].ref # p
    BY <2>1 DEF ToldInv
  <2>5. \A other \in Task \ {t} : /\ Confirming(other)' <=> Confirming(other)
                                  /\ task'[other] = task[other]
    BY <2>3 DEF OthersStay, Confirming
  <2>6. PayersAreToldOnce'
    BY <1>2, <2>3, <2>4, <2>5 DEF ToldInv, PayersAreToldOnce
  <2>7. \A q \in told' : grants'[q] > 0
    BY <1>0, <1>2, <2>2, <2>4 DEF ToldInv
  <2>8. ASSUME NEW other \in Task, Confirming(other)' PROVE grants'[task'[other].ref] > 0
    <3>1. CASE other = t
      BY <2>2, <2>3, <3>1
    <3>2. CASE other # t
      BY <1>0, <2>2, <2>4, <2>5, <2>8, <3>2 DEF ToldInv
    <3> QED
      BY <3>1, <3>2
  <2>9. ASSUME NEW q \in Ref, grants'[q] > 0
        PROVE  q \in told' \cup untold' \/ \E other \in Task : Confirming(other)' /\ task'[other].ref = q
    <3>1. CASE q = p
      BY <2>3, <3>1
    <3>2. CASE q # p
      <4>1. grants[q] > 0
        BY <2>2, <2>3, <2>9, <3>2
      <4>2. q \in told \cup untold \/ \E other \in Task : Confirming(other) /\ task[other].ref = q
        BY <4>1 DEF ToldInv
      <4> QED
        BY <1>2, <2>4, <2>5, <3>2, <4>2, <2>1
    <3> QED
      BY <3>1, <3>2
  <2> QED
    BY <2>6, <2>7, <2>8, <2>9 DEF ToldInv
<1>3. ASSUME NEW t \in Task, SendConfirmation(t), task[t].ref \in told' \cup untold'
      PROVE  ToldInv'
  <2>1. /\ Confirming(t) /\ UNCHANGED grants
        /\ told' = told \cup {task[t].ref} \/ told' = told
        /\ untold \subseteq untold'
    BY <1>3 DEF SendConfirmation, LeaveUntold, Confirming, AfterCommitLabels
  <2>2. OthersStay(t) /\ ~Confirming(t)'
    <3>1. "respond" \in Label /\ "respond" \notin AfterCommitLabels /\ "idle" \notin AfterCommitLabels
      BY DEF Label, AfterCommitLabels
    <3>2. Goto(t, "respond") \/ End(t)
      BY <1>3 DEF SendConfirmation
    <3> QED
      BY <1>0, <3>1, <3>2, GotoTask, EndTask DEF Confirming
  <2>3. \A other \in Task \ {t} : /\ Confirming(other)' <=> Confirming(other)
                                  /\ task'[other] = task[other]
    BY <2>2 DEF OthersStay, Confirming
  <2>4. PayersAreToldOnce'
    BY <2>1, <2>2, <2>3 DEF ToldInv, PayersAreToldOnce
  <2>5. \A p \in told' : grants'[p] > 0
    BY <2>1 DEF ToldInv
  <2>6. \A other \in Task : Confirming(other)' => grants'[task'[other].ref] > 0
    BY <2>1, <2>2, <2>3 DEF ToldInv
  <2>7. ASSUME NEW p \in Ref, grants'[p] > 0
        PROVE  p \in told' \cup untold' \/ \E other \in Task : Confirming(other)' /\ task'[other].ref = p
    <3>1. p \in told \cup untold \/ \E other \in Task : Confirming(other) /\ task[other].ref = p
      BY <2>1, <2>7 DEF ToldInv
    <3> QED
      BY <1>3, <2>1, <2>3, <3>1
  <2> QED
    BY <2>4, <2>5, <2>6, <2>7 DEF ToldInv
<1>4. ASSUME NEW t \in Task, SendConfirmation(t) PROVE task[t].ref \in told' \cup untold'
  BY <1>4 DEF SendConfirmation, LeaveUntold, Confirming, AfterCommitLabels
<1>5. ASSUME NEW handlers \in SUBSET Task, GivesUp(handlers) PROVE ToldInv'
  <2>1. \A t \in Task : Confirming(t)' => Confirming(t) /\ task'[t].ref = task[t].ref
    BY <1>5 DEF GivesUp, ConfirmingKept
  <2>2. UNCHANGED <<told, grants>>
    BY <1>5 DEF GivesUp
  <2>3. ASSUME NEW p \in Ref, grants'[p] > 0
        PROVE  p \in told' \cup untold' \/ \E t \in Task : Confirming(t)' /\ task'[t].ref = p
    <3>1. CASE p \in told \cup untold
      BY <1>5, <3>1 DEF GivesUp, LeaveUntold
    <3>2. ASSUME NEW t \in Task, Confirming(t), task[t].ref = p
          PROVE  \/ p \in told' \cup untold'
                 \/ \E other \in Task : Confirming(other)' /\ task'[other].ref = p
      BY <1>5, <3>2 DEF GivesUp, LeaveUntold, ConfirmingKept
    <3> QED
      BY <2>2, <2>3, <3>1, <3>2 DEF ToldInv
  <2> QED
    BY <2>1, <2>2, <2>3 DEF ToldInv, PayersAreToldOnce
<1> QED
  BY <1>1, <1>2, <1>3, <1>4, <1>5, TellingSteps

\* Of what has been granted, all is told, in a handler's hands or known to be
\* left untold, and only that (confirm_and_grant_access, confirm_payment).
THEOREM ToldInvHolds == Spec => []ToldInv
  BY ToldInvInit, ToldInvStep, GrantInvHolds, PayerInvHolds, PTL DEF Spec

\* A payment is confirmed, and its link sent, once at most, however often its
\* event is delivered or its button pressed (confirm_and_grant_access, the DM
\* of confirm_payment).
THEOREM ToldOnce == Spec => []PayersAreToldOnce
<1>1. ToldInv => PayersAreToldOnce
  BY DEF ToldInv
<1> QED
  BY <1>1, ToldInvHolds, PTL

-----------------------------------------------------------------------------

\* Whoever is banned by then was, or is banned by this step.
LEMMA BanSteps ==
    ASSUME GrantInv, [Next]_vars, OnlyCutRemovalsLeaveBans
    PROVE  OnlyCutRemovalsLeaveBans'
<1>1. kick \in KickRecord
  BY DEF GrantInv, TypeOK, KickTypeOK
<1>2. CASE UNCHANGED <<kick, banned, leftBanned>>
  BY <1>2 DEF OnlyCutRemovalsLeaveBans
<1>3. CASE kick.pc # "unban" /\ UNCHANGED <<banned, leftBanned>>
  BY <1>3 DEF OnlyCutRemovalsLeaveBans
<1>4. CASE BanMember
  <2>1. kick.pc # "unban"
    BY <1>4 DEF BanMember
  <2>2. CASE Ban(kick.row.user) /\ kick' = [kick EXCEPT !.pc = "unban"] /\ UNCHANGED leftBanned
    <3>1. kick'.pc = "unban" /\ kick'.row = kick.row
      BY <1>1, <2>2 DEF KickRecord
    <3> QED
      BY <2>1, <2>2, <3>1 DEF Ban, OnlyCutRemovalsLeaveBans
  <2>3. CASE Ban(kick.row.user) /\ leftBanned' = leftBanned \cup {kick.row.user}
    BY <2>1, <2>3 DEF Ban, OnlyCutRemovalsLeaveBans
  <2> QED
    BY <1>3, <1>4, <2>1, <2>2, <2>3 DEF BanMember
<1>5. CASE UnbanMember
  <2>1. kick.pc = "unban"
    BY <1>5 DEF UnbanMember
  <2>2. CASE banned' = banned \ {kick.row.user} /\ leftBanned' = leftBanned \ {kick.row.user}
    BY <2>1, <2>2 DEF OnlyCutRemovalsLeaveBans
  <2>3. CASE leftBanned' = leftBanned \cup {kick.row.user} /\ UNCHANGED banned
    BY <2>1, <2>3 DEF OnlyCutRemovalsLeaveBans
  <2> QED
    BY <1>5, <2>2, <2>3 DEF UnbanMember
<1>6. CASE Crash
  <2>1. /\ UNCHANGED banned
        /\ leftBanned' = leftBanned \cup (IF kick.pc = "unban" THEN {kick.row.user} ELSE {})
    BY <1>6 DEF Crash
  <2> QED
    BY <2>1 DEF OnlyCutRemovalsLeaveBans
<1>7. CASE FailureNext
  <2>1. UNCHANGED <<banned, leftBanned>> /\ (UNCHANGED kick \/ kick.pc # "unban")
    BY <1>7 DEF FailureNext, WarningsFail, KickFails, OtherHandlerFails, channelVars
  <2> QED
    BY <1>2, <1>3, <2>1
<1>8. CASE KickNextStep
  <2>1. ASSUME ~BanMember, ~UnbanMember
        PROVE  kick.pc # "unban" /\ UNCHANGED <<banned, leftBanned>>
    BY <1>8, <2>1 DEF KickNextStep, KickStep, StartAutoKick, KickNext, ReadHop, WriteHop,
        FindOtherLive, CheckMember, KickReady, channelVars
  <2> QED
    BY <1>3, <1>4, <1>5, <2>1
<1>9. CASE WorldNext \/ WarningsNext \/ RequestNext \/ UNCHANGED vars
           \/ (\E s \in Session, type \in EventType : WebhookNext(s, type))
           \/ (\E t \in Task : HandlerNext(t))
  <2>1. UNCHANGED kick
    BY <1>9 DEF WorldNext, WarningsNext, RequestNext, WebhookNext, HandlerNext, vars
  <2>2. UNCHANGED <<banned, leftBanned>>
    <3>1. CASE WorldNext \/ RequestNext \/ UNCHANGED vars
               \/ (\E s \in Session, type \in EventType : WebhookNext(s, type))
      BY <3>1 DEF WorldNext, AdvanceClock, JoinChannel, RegisterUser, CustomerActs, RequestNext,
          ReceiveScreenshot, PressConfirm, AdminActivate, AdminInvite, WebhookNext,
          AcknowledgeEvent, BeginStripeActivation, vars, channelVars
    <3>2. CASE WarningsNext
      BY <3>2 DEF WarningsNext, WarningsStep, StartWarnings, WarnNext, ReadForExpiring,
          MarkExpiring, RefreshMarked, SendReminder, RecordReminder, channelVars
    <3>3. CASE \E t \in Task : HandlerNext(t)
      BY <3>3 DEF HandlerNext, AccessStep, ScreenshotStep, InviteStep, RespondOK,
          CreateInviteLink, SendConfirmation, SaveUser, SavePlaceholder, SavePayment,
          ForwardScreenshot, ThankSender, CreateFreshLink, SendFreshLink, channelVars
    <3> QED
      BY <1>9, <3>1, <3>2, <3>3
  <2> QED
    BY <1>2, <2>1, <2>2
<1> QED
  BY <1>6, <1>7, <1>8, <1>9 DEF Next, RunningNext

\* "Nobody is left permanently banned" (auto_kick) but those whose removal was
\* cut short by an error of Telegram or a crash: whoever else is banned is the
\* one the job is about to let back in.
THEOREM BansAreInHand == Spec => []OnlyCutRemovalsLeaveBans
<1>1. Init => OnlyCutRemovalsLeaveBans
  BY DEF Init, ChannelInit, OnlyCutRemovalsLeaveBans
<1>2. GrantInv /\ OnlyCutRemovalsLeaveBans /\ [Next]_vars => OnlyCutRemovalsLeaveBans'
  BY BanSteps
<1> QED
  BY <1>1, <1>2, GrantInvHolds, PTL DEF Spec

-----------------------------------------------------------------------------
(* Administrators.                                                         *)

\* Only the ban takes anyone out of the channel.
LEMMA MembersLeaveByBan ==
    ASSUME [Next]_vars
    PROVE  BanMember \/ members \subseteq members'
<1>1. CASE WorldNext \/ (\E s \in Session, type \in EventType : WebhookNext(s, type)) \/ RequestNext
  BY <1>1 DEF WorldNext, AdvanceClock, JoinChannel, RegisterUser, CustomerActs, WebhookNext,
      AcknowledgeEvent, BeginStripeActivation, RequestNext, ReceiveScreenshot, PressConfirm,
      AdminActivate, AdminInvite, channelVars
<1>2. ASSUME NEW t \in Task, HandlerNext(t) PROVE members \subseteq members'
  BY <1>2 DEF HandlerNext, AccessStep, CreateInviteLink, SendConfirmation, RespondOK,
      ScreenshotStep, SaveUser, SavePlaceholder, SavePayment, ForwardScreenshot, ThankSender,
      InviteStep, CreateFreshLink, SendFreshLink, channelVars
<1>3. CASE WarningsNext \/ KickNextStep
  BY <1>3 DEF WarningsNext, WarningsStep, StartWarnings, WarnNext, ReadForExpiring, MarkExpiring,
      RefreshMarked, SendReminder, RecordReminder, KickNextStep, KickStep, StartAutoKick,
      KickNext, ReadHop, WriteHop, FindOtherLive, CheckMember, UnbanMember, channelVars
<1>4. CASE FailureNext \/ Crash \/ UNCHANGED vars
  BY <1>4 DEF FailureNext, WarningsFail, KickFails, OtherHandlerFails, Crash, vars, channelVars
<1> QED
  BY <1>1, <1>2, <1>3, <1>4 DEF Next, RunningNext

LEMMA BanInvStep ==
    ASSUME GrantInv, BanInv, [Next]_vars
    PROVE  BanInv'
<1>1. kick \in KickRecord
  BY DEF GrantInv, TypeOK, KickTypeOK
<1>2. CASE UNCHANGED kick \/ (\E todo : kick' = KickReady(todo))
  BY <1>2 DEF BanInv, KickReady
<1>3. CASE KickStep
  <2>1. CASE CheckMember
    <3>1. CASE kick' = [kick EXCEPT !.pc = "ban"] /\ kick.row.user \notin Protected
      BY <1>1, <3>1 DEF BanInv, KickRecord
    <3>2. CASE kick' = [kick EXCEPT !.pc = "ban", !.blind = TRUE]
      BY <1>1, <3>2 DEF BanInv, KickRecord
    <3> QED
      BY <1>2, <2>1, <3>1, <3>2 DEF CheckMember
  <2>2. ASSUME NEW label \in KickLabel \ {"ban"}, kick'.pc = label PROVE BanInv'
    BY <2>2 DEF BanInv
  <2>3. CASE StartAutoKick \/ UnbanMember
    BY <1>2, <2>3 DEF StartAutoKick, UnbanMember
  <2>4. CASE KickNext
    BY <2>2, <2>4 DEF KickNext, KickLabel
  <2>5. CASE ReadHop
    BY <1>1, <1>2, <2>2, <2>5 DEF ReadHop, KickRecord, KickLabel
  <2>6. CASE WriteHop
    <3>1. kick'.pc \in {"read", "find_other"}
      BY <1>1, <2>6 DEF WriteHop, KickRecord
    <3> QED
      BY <2>2, <3>1 DEF KickLabel
  <2>7. CASE FindOtherLive
    BY <1>1, <1>2, <2>2, <2>7 DEF FindOtherLive, LookedUp, KickRecord, KickLabel
  <2>8. CASE BanMember
    BY <1>1, <1>2, <2>2, <2>8 DEF BanMember, KickRecord, KickLabel
  <2> QED
    BY <1>3, <2>1, <2>3, <2>4, <2>5, <2>6, <2>7, <2>8 DEF KickStep
<1>4. UNCHANGED kick \/ KickStep \/ kick' = KickReady({})
  <2>1. CASE WorldNext \/ (\E s \in Session, type \in EventType : WebhookNext(s, type)) \/ RequestNext
    BY <2>1 DEF WorldNext, WebhookNext, RequestNext
  <2>2. CASE (\E t \in Task : HandlerNext(t)) \/ WarningsNext \/ KickNextStep
    BY <2>2 DEF HandlerNext, WarningsNext, KickNextStep
  <2>3. CASE FailureNext \/ Crash \/ UNCHANGED vars
    BY <2>3 DEF FailureNext, KickFails, Crash, vars
  <2> QED
    BY <2>1, <2>2, <2>3 DEF Next, RunningNext
<1> QED
  BY <1>2, <1>3, <1>4

\* No administrator is removed for a subscription that ran out, whatever
\* crashes or rolls back, unless the look at their role failed just before the
\* ban (_is_protected_member).
THEOREM AdministratorsKept == Spec => AdministratorsStay
<1>1. Init => BanInv
  BY DEF Init, KickInit, KickReady, BanInv
<1>2. GrantInv /\ BanInv /\ [Next]_vars => BanInv'
  BY BanInvStep
<1>3. ASSUME BanInv, [Next]_vars PROVE [members \cap Protected \subseteq members' \/ kick.blind]_vars
  <2>1. CASE BanMember
    BY <1>3, <2>1 DEF BanMember, Ban, BanInv
  <2>2. CASE members \subseteq members'
    BY <2>2
  <2> QED
    BY <1>3, <2>1, <2>2, MembersLeaveByBan
<1>4. BanInv /\ [Next]_vars => [members \cap Protected \subseteq members' \/ kick.blind]_vars
  BY <1>3
<1> QED
  BY <1>1, <1>2, <1>4, GrantInvHolds, PTL DEF Spec, AdministratorsStay

-----------------------------------------------------------------------------
(* The admin's report.                                                     *)

\* With AccessInv, inductive: every listed row has a granted payment, which
\* no confirmation moves away.
ReportInv ==
    /\ report.rows \subseteq SubId
    /\ \A r \in report.rows : \E p \in Ref : payments[p] = r /\ grants[p] > 0
    /\ report.dashes = {}

\* A report leaves the bot as it is.
LEMMA ReportStepIsNext == [ReportNext]_reportVars => [Next]_vars
  BY DEF ReportNext, reportVars, Next

\* Beside the report, the bot behaves as it does without it.
THEOREM ReportImplementsSpec == ReportSpec => Spec
<1>1. ReportInit => Init
  BY DEF ReportInit
<1> QED
  BY <1>1, ReportStepIsNext, PTL DEF ReportSpec, Spec

\* Every step preserves ReportInv, given the bot's invariants.
LEMMA ReportInvStep ==
    ASSUME GrantInv, PayerInv, AccessInv, ReportInv, [ReportNext]_reportVars
    PROVE  ReportInv'
<1>1. \A r \in SubId : (\E p \in Ref : payments[p] = r /\ grants[p] > 0)
                        => \E p \in Ref : payments'[p] = r /\ grants'[p] > 0
  BY ReportStepIsNext, GrantedKept
<1>2. CASE report'.rows \in {{}, report.rows} /\ report'.dashes = {}
  BY <1>1, <1>2 DEF ReportInv
<1>3. CASE UNCHANGED report
  BY <1>2, <1>3 DEF ReportInv
<1>4. CASE ReportStep /\ UNCHANGED vars
  <2>1. CASE StartReport
    <3>1. report'.rows = ListActiveOrExpiring /\ report'.dashes = {}
      BY <2>1 DEF StartReport
    <3>2. \A r \in ListActiveOrExpiring : r \in SubId /\ Opened(subs[r])
      BY DEF ListActiveOrExpiring, LiveStatuses, Opened
    <3> QED
      BY <1>1, <3>1, <3>2 DEF ReportInv, AccessInv, OpenedRowsArePaid
  <2>2. CASE LoadPayments
    <3> DEFINE dashes == {r \in report.rows : \A p \in Ref : payments[p] # r}
    <3>1. dashes = {}
      BY DEF ReportInv
    <3>2. report' = [report EXCEPT !.pc = "send", !.dashes = dashes]
      BY <2>2 DEF LoadPayments
    <3>3. report'.rows = report.rows
      BY <3>2
    <3>4. report'.dashes \in {dashes, report.dashes}
      BY <3>2
    <3> QED
      BY <1>2, <3>1, <3>3, <3>4 DEF ReportInv
  <2>3. CASE SendReport \/ AbandonReport
    BY <1>2, <2>3 DEF SendReport, AbandonReport, ReportReady
  <2> QED
    BY <1>4, <2>1, <2>2, <2>3 DEF ReportStep
<1>5. CASE Crash /\ report' = IF report.pc = "sent" THEN report ELSE ReportReady
  BY <1>2, <1>3, <1>5 DEF ReportReady
<1> QED
  BY <1>3, <1>4, <1>5 DEF ReportNext, reportVars

\* However confirmations fall between the report's statements, each line can
\* name a provider (admin_subscribers).
THEOREM LinesNameProvider == ReportSpec => []EveryLineNamesProvider
<1>1. ReportInit => ReportInv
  BY DEF ReportInit, ReportReady, ReportInv
<1>2. GrantInv /\ PayerInv /\ AccessInv /\ ReportInv /\ [ReportNext]_reportVars => ReportInv'
  BY ReportInvStep
<1>3. ReportInv => EveryLineNamesProvider
  BY DEF ReportInv, EveryLineNamesProvider
<1> QED
  BY <1>1, <1>2, <1>3, ReportImplementsSpec, GrantInvHolds, PayerInvHolds, AccessInvHolds, PTL
     DEF ReportSpec

\* The report keeps its type, whatever the bot does beside it.
THEOREM ReportTyped == ReportSpec => []ReportTypeOK
<1>1. ReportInit => ReportTypeOK
  BY DEF ReportInit, ReportReady, ReportTypeOK, ReportRecord
<1>2. ReportTypeOK /\ [ReportNext]_reportVars => ReportTypeOK'
  <2> SUFFICES ASSUME ReportTypeOK, [ReportNext]_reportVars PROVE ReportTypeOK'
    OBVIOUS
  <2>1. CASE UNCHANGED report \/ report' = ReportReady
    BY <2>1 DEF ReportTypeOK, ReportRecord, ReportReady
  <2>2. CASE StartReport
    BY <2>2 DEF StartReport, ListActiveOrExpiring, ReportTypeOK, ReportRecord
  <2>3. CASE LoadPayments
    BY <2>3 DEF LoadPayments, ReportTypeOK, ReportRecord
  <2>4. CASE SendReport \/ AbandonReport
    BY <2>4 DEF SendReport, AbandonReport, ReportReady, ReportTypeOK, ReportRecord
  <2> QED
    BY <2>1, <2>2, <2>3, <2>4 DEF ReportNext, ReportStep, reportVars
<1> QED
  BY <1>1, <1>2, PTL DEF ReportSpec

=============================================================================
