---------------------------- MODULE PayerProofs ----------------------------
(***************************************************************************)
(* Whose money buys what: theorems that relate what Stripe and the payers  *)
(* know to what the tables hold, from PayerInv on top of GrantInv, and the *)
(* placeholders that nothing buys.                                         *)
(***************************************************************************)
EXTENDS SubscriptionSystemProofs

\* A row never changes hands, a payment is never deleted, money never leaves.
RowsKept ==
    \A r \in SubId : subs[r] # NoRow => subs'[r] # NoRow /\ subs'[r].user = subs[r].user

NothingOpens == \A r \in SubId : Opened(subs'[r]) => Opened(subs[r])

PaymentsKept == \A p \in Ref : payments[p] # None => payments'[p] # None

SettledKept == \A s \in Session : Settled(s) => Settled(s)'

\* What a handler carries stays true while others move.
LEMMA CarriesKept ==
    ASSUME GrantInv, RowsKept, PaymentsKept, SettledKept,
           NEW t \in Task, task'[t] = task[t], Carries(t)
    PROVE  Carries(t)'
<1>1. LocalsOK(t) /\ Screenshot(t)
  BY DEF GrantInv, HandlerOK
<1>2. At(t, "save_payment") => /\ task[t].pending \in SubId
                               /\ subs[task[t].pending] # NoRow
  BY <1>1 DEF LocalsOK, Screenshot, At, SavingLabels, NoRow
<1>3. CASE task[t].ref \in Session
  BY <1>2, <1>3 DEF Carries, RowsKept, PaymentsKept, SettledKept, At, Ref
<1>4. CASE task[t].ref \notin Session
  BY <1>2, <1>4 DEF Carries, RowsKept, At
<1> QED
  BY <1>3, <1>4

\* A payment that is not written stays its payer's.
LEMMA OwnedKept ==
    ASSUME GrantInv, RowsKept, SettledKept,
           NEW p \in Ref, payments'[p] = payments[p], Owned(p)
    PROVE  Owned(p)'
<1>1. payments[p] # None => payments[p] \in SubId /\ subs[payments[p]] # NoRow
  BY DEF GrantInv, Ledger, TypeOK, DatabaseTypeOK, Opened, NoRow
<1> QED
  BY <1>1 DEF Owned, RowsKept, SettledKept

\* One handler moves and Stripe does not: what is left to show is about that
\* handler and the payments it wrote.
LEMMA PayerMoves ==
    ASSUME GrantInv, PayerInv, NEW t \in Task, OthersStay(t), RowsKept,
           UNCHANGED stripeVars,
           \A p \in Ref : payments'[p] = payments[p] \/ (payments'[p] # None /\ Owned(p)'),
           Carries(t)'
    PROVE  PayerInv'
<1>1. PaymentsKept /\ SettledKept
  BY DEF PaymentsKept, SettledKept, Settled, stripeVars
<1>2. ASSUME NEW other \in Task PROVE Carries(other)'
  BY <1>1, CarriesKept DEF OthersStay, PayerInv
<1>3. ASSUME NEW p \in Ref PROVE Owned(p)'
  BY <1>1, OwnedKept DEF PayerInv
<1>4. ASSUME NEW s \in Session, NEW type \in EventType PROVE Answered(s, type)'
  BY <1>1 DEF PayerInv, Answered, Emitted, SaysPaid, PaymentsKept, stripeVars, Ref
<1> QED
  BY <1>2, <1>3, <1>4 DEF PayerInv

\* No handler moves and Stripe does not.
LEMMA PayerStays ==
    ASSUME GrantInv, PayerInv, RowsKept, UNCHANGED <<task, payments, stripeVars>>
    PROVE  PayerInv'
<1>1. PaymentsKept /\ SettledKept
  BY DEF PaymentsKept, SettledKept, Settled, stripeVars
<1>2. ASSUME NEW t \in Task PROVE Carries(t)'
  BY <1>1, CarriesKept DEF PayerInv
<1>3. ASSUME NEW p \in Ref PROVE Owned(p)'
  BY <1>1, OwnedKept DEF PayerInv
<1>4. ASSUME NEW s \in Session, NEW type \in EventType PROVE Answered(s, type)'
  BY DEF PayerInv, Answered, Emitted, SaysPaid, stripeVars
<1> QED
  BY <1>2, <1>3, <1>4 DEF PayerInv
-----------------------------------------------------------------------------
(* Handlers that write neither rows nor payments.                          *)

\* Such a step only has to account for the variables of the handler it moves.
LEMMA PayerReads ==
    ASSUME GrantInv, PayerInv, NEW t \in Task, OthersStay(t),
           UNCHANGED <<databaseVars, stripeVars>>, Carries(t)'
    PROVE  PayerInv'
BY PayerMoves DEF RowsKept, databaseVars

\* A handler that has nothing to carry.
LEMMA CarriesNothing ==
    ASSUME NEW t \in Task, task[t].pc \in {"idle", "lock"} \cup SavedLabels \cup InviteLabels
    PROVE  Carries(t)
BY DEF Carries, At, ServiceLabels, SavingLabels, SavedLabels, InviteLabels, AfterCommitLabels

\* The webhook enters an activation on behalf of the session's payer, its
\* money settled (handle_stripe_webhook).
LEMMA BeginStripeActivationPayer ==
    ASSUME GrantInv, PayerInv, NEW t \in Task, NEW s \in Session, NEW type \in EventType,
           BeginStripeActivation(t, s, type)
    PROVE  PayerInv'
<1>1. TaskTyped /\ checkout[s] \in Checkout
  BY DEF GrantInv, TypeOK, ServiceTypeOK, StripeTypeOK, TaskTyped
<1>2. /\ OthersStay(t) /\ task'[t].pc = "get_user" /\ task'[t].ref = s
      /\ task'[t].user = Payer[s]
  BY <1>1, BeginActivationTask, PayerAssumption DEF BeginStripeActivation, Ref
<1>3. Settled(s)
  <2>1. type \in Emitted(s) /\ SaysPaid(s, type)
    BY DEF BeginStripeActivation
  <2> QED
    BY <1>1, <2>1 DEF Checkout, Emitted, SaysPaid, Settled
<1>4. UNCHANGED <<databaseVars, stripeVars>>
  BY DEF BeginStripeActivation
<1>5. Carries(t)'
  BY <1>2, <1>3, <1>4 DEF Carries, Settled, stripeVars, At, ServiceLabels, SavingLabels, AfterCommitLabels
<1> QED
  BY <1>2, <1>4, <1>5, PayerReads

\* What users and the admin ask for carries no session.
LEMMA RequestPayer ==
    ASSUME GrantInv, PayerInv, RequestNext
    PROVE  PayerInv'
<1>1. TaskTyped
  BY DEF GrantInv, TypeOK, ServiceTypeOK, TaskTyped
<1>2. UNCHANGED <<databaseVars, stripeVars>>
  BY DEF RequestNext, ReceiveScreenshot, PressConfirm, AdminActivate, AdminInvite
<1>3. PICK t \in Task :
        \/ \E m \in Message : ReceiveScreenshot(t, m)
        \/ \E r \in SubId : PressConfirm(t, r)
        \/ \E p \in Uuid, u \in TelegramId : AdminActivate(t, p, u)
        \/ \E u \in TelegramId : AdminInvite(t, u)
  BY DEF RequestNext
<1>4. ASSUME NEW m \in Message, ReceiveScreenshot(t, m)
      PROVE  PayerInv'
  <2>1. /\ TaskTyped' /\ OthersStay(t)
        /\ task'[t].pc = "save_user" /\ task'[t].ref = m /\ task'[t].user = Sender[m]
        /\ task'[t].sub = None /\ task'[t].pending = None
    BY <1>1, <1>4, BeginTask, SenderAssumption DEF ReceiveScreenshot, Label, Ref
  <2>2. Carries(t)'
    BY <2>1 DEF Carries, At, ServiceLabels, SavingLabels, AfterCommitLabels
  <2> QED
    BY <1>2, <2>1, <2>2, PayerReads
<1>5. ASSUME NEW r \in SubId, PressConfirm(t, r)
      PROVE  PayerInv'
  <2>1. OthersStay(t) /\ task'[t].pc = "lock"
    BY <1>1, <1>5, BeginTask DEF PressConfirm, Label
  <2>2. Carries(t)'
    BY <2>1 DEF Carries, At, ServiceLabels, SavingLabels, AfterCommitLabels
  <2> QED
    BY <1>2, <2>1, <2>2, PayerReads
<1>6. ASSUME NEW p \in Uuid, NEW u \in TelegramId, AdminActivate(t, p, u)
      PROVE  PayerInv'
  <2>1. /\ OthersStay(t) /\ task'[t].pc = "get_user" /\ task'[t].ref = p
    BY <1>1, <1>6, BeginActivationTask DEF AdminActivate, Ref
  <2>2. Carries(t)'
    BY <2>1, DatabaseAssumption DEF Carries, At, ServiceLabels, SavingLabels, AfterCommitLabels
  <2> QED
    BY <1>2, <2>1, <2>2, PayerReads
<1>7. ASSUME NEW u \in TelegramId, AdminInvite(t, u)
      PROVE  PayerInv'
  <2>1. OthersStay(t) /\ task'[t].pc = "invite"
    BY <1>1, <1>7, BeginTask DEF AdminInvite, Label
  <2>2. Carries(t)'
    BY <2>1 DEF Carries, At, ServiceLabels, SavingLabels, AfterCommitLabels
  <2> QED
    BY <1>2, <2>1, <2>2, PayerReads
<1> QED
  BY <1>3, <1>4, <1>5, <1>6, <1>7

\* _activate_subscription carries the same payment and payer to its COMMIT,
\* and gives up only on a payment that is recorded.
LEMMA ActivationReadsPayer ==
    ASSUME GrantInv, PayerInv, NEW t \in Task, UNCHANGED stripeVars,
           GetOrCreateUser(t) \/ FindOrCreateSubscription(t) \/ CreatePayment(t)
    PROVE  PayerInv'
<1>1. TaskTyped /\ LocalsOK(t) /\ Carries(t) /\ subs \in [SubId -> Row]
  BY DEF GrantInv, HandlerOK, TypeOK, ServiceTypeOK, DatabaseTypeOK, TaskTyped, PayerInv
<1>2. UNCHANGED databaseVars /\ task[t].pc \in ServiceLabels
  BY DEF GetOrCreateUser, FindOrCreateSubscription, CreatePayment, At, ServiceLabels
<1>3. task[t].ref \in Session \cup Uuid /\ task[t].user \in TelegramId
  BY <1>1, <1>2 DEF LocalsOK
<1>4. ASSUME OthersStay(t), task'[t].pc \in ServiceLabels,
             task'[t].ref = task[t].ref, task'[t].user = task[t].user
      PROVE  PayerInv'
  <2>1. Carries(t)'
    BY <1>1, <1>2, <1>4 DEF Carries, Settled, stripeVars, At, ServiceLabels, SavingLabels, AfterCommitLabels
  <2> QED
    BY <1>2, <1>4, <2>1, PayerReads
<1>5. CASE GetOrCreateUser(t)
  BY <1>1, <1>4, <1>5, GotoTask DEF GetOrCreateUser, Label, ServiceLabels
<1>6. CASE FindOrCreateSubscription(t)
  <2>1. PendingRow(task[t].user) \in Row
    BY <1>3 DEF PendingRow, Row, Status
  <2>2. PICK r \in SubId, row \in Row : ChooseRow(t, r, row, "insert_payment")
    BY <1>1, <1>6, <2>1 DEF FindOrCreateSubscription, FreeIds
  <2> QED
    BY <1>1, <1>4, <2>2, ChooseTask DEF Label, ServiceLabels
<1>7. CASE CreatePayment(t)
  <2>1. CASE Goto(t, "activate")
    BY <1>1, <1>4, <2>1, GotoTask DEF Label, ServiceLabels
  <2>2. CASE /\ payments[task[t].ref] # None
             /\ task' = [task EXCEPT ![t] = Starting("duplicate", task[t].ref, None, None)]
    <3> DEFINE new == Starting("duplicate", task[t].ref, None, None)
    <3>1. new \in TaskRecord
      BY <1>3 DEF Starting, TaskRecord, NoRow, Row, Label, Ref
    <3>2. OthersStay(t) /\ task'[t] = new
      BY <1>1, <2>2, <3>1, SetTask
    <3>3. Carries(t)'
      BY <1>2, <2>2, <3>2 DEF Carries, Starting, databaseVars, At, ServiceLabels, SavingLabels, AfterCommitLabels
    <3> QED
      BY <1>2, <3>2, <3>3, PayerReads
  <2> QED
    BY <1>7, <2>1, <2>2 DEF CreatePayment
<1> QED
  BY <1>5, <1>6, <1>7

\* confirm_manual_payment up to its COMMIT works on a screenshot.
LEMMA ConfirmationReadsPayer ==
    ASSUME GrantInv, PayerInv, NEW t \in Task, UNCHANGED stripeVars,
           LockPlaceholder(t) \/ FindRenewable(t)
    PROVE  PayerInv'
<1>1. TaskTyped /\ LocalsOK(t) /\ subs \in [SubId -> Row]
  BY DEF GrantInv, HandlerOK, TypeOK, ServiceTypeOK, DatabaseTypeOK, TaskTyped
<1>2. UNCHANGED databaseVars
  BY DEF LockPlaceholder, FindRenewable
<1>3. ASSUME OthersStay(t), task'[t].pc \in LockingLabels \cup {"idle"}
      PROVE  PayerInv'
  <2>1. Carries(t)'
    BY <1>3 DEF Carries, At, LockingLabels, ServiceLabels, SavingLabels, AfterCommitLabels
  <2> QED
    BY <1>2, <1>3, <2>1, PayerReads
<1>4. CASE LockPlaceholder(t)
  <2>1. CASE End(t)
    BY <1>1, <1>3, <2>1, EndTask
  <2>2. ASSUME NEW p \in Ref,
               task' = [task EXCEPT ![t].pc = "find_renewable", ![t].ref = p,
                                    ![t].user = subs[task[t].pending].user,
                                    ![t].row = subs[task[t].pending]]
        PROVE  PayerInv'
    <3>1. OthersStay(t) /\ task'[t].pc = "find_renewable"
      BY <1>1, <2>2 DEF TaskTyped, TaskRecord, OthersStay
    <3> QED
      BY <1>3, <3>1 DEF LockingLabels
  <2> QED
    BY <1>4, <2>1, <2>2 DEF LockPlaceholder
<1>5. CASE FindRenewable(t)
  <2>1. task[t].pending \in SubId /\ task[t].row \in Row
    BY <1>1, <1>5 DEF FindRenewable, At, LocalsOK, LockingLabels, TaskTyped, TaskRecord
  <2>2. PICK r \in SubId, row \in Row : ChooseRow(t, r, row, "confirm_activate")
    BY <1>1, <1>5, <2>1 DEF FindRenewable
  <2> QED
    BY <1>1, <1>3, <2>2, ChooseTask DEF Label, LockingLabels
<1> QED
  BY <1>4, <1>5

\* After the COMMIT the handler only reports on the payment it recorded.
LEMMA AccessPayer ==
    ASSUME GrantInv, PayerInv, NEW t \in Task, UNCHANGED stripeVars, AccessStep(t)
    PROVE  PayerInv'
<1>1. TaskTyped /\ Carries(t)
  BY DEF GrantInv, TypeOK, ServiceTypeOK, TaskTyped, PayerInv
<1>2. UNCHANGED databaseVars /\ task[t].pc \in AfterCommitLabels
  BY DEF AccessStep, CreateInviteLink, SendConfirmation, At, AfterCommitLabels
<1>3. CASE End(t)
  <2>1. OthersStay(t) /\ task'[t].pc = "idle"
    BY <1>1, <1>3, EndTask
  <2>2. Carries(t)'
    BY <2>1 DEF Carries, At, ServiceLabels, SavingLabels, AfterCommitLabels
  <2> QED
    BY <1>2, <2>1, <2>2, PayerReads
<1>4. ASSUME NEW label \in {"send_link", "confirm_access", "respond"}, Goto(t, label)
      PROVE  PayerInv'
  <2>1. OthersStay(t) /\ task'[t].pc = label /\ task'[t].ref = task[t].ref
    BY <1>1, <1>4, GotoTask DEF Label
  <2>2. Carries(t)'
    BY <1>1, <1>2, <2>1 DEF Carries, databaseVars, At, ServiceLabels, SavingLabels, AfterCommitLabels
  <2> QED
    BY <1>2, <2>1, <2>2, PayerReads
<1> QED
  BY <1>3, <1>4 DEF AccessStep, CreateInviteLink, SendConfirmation

\* A rollback leaves nothing behind.
LEMMA TransactionFailsPayer ==
    ASSUME GrantInv, PayerInv, NEW t \in Task, UNCHANGED stripeVars, TransactionFails(t)
    PROVE  PayerInv'
<1>1. TaskTyped
  BY DEF GrantInv, TypeOK, ServiceTypeOK, TaskTyped
<1>2. OthersStay(t) /\ task'[t].pc = "idle" /\ UNCHANGED databaseVars
  BY <1>1, EndTask DEF TransactionFails
<1>3. Carries(t)'
  BY <1>2 DEF Carries, At, ServiceLabels, SavingLabels, AfterCommitLabels
<1> QED
  BY <1>2, <1>3, PayerReads

-----------------------------------------------------------------------------
(* What Stripe does, and what it is told.                                  *)

\* Events already emitted stay emitted, and say no more than they did.
LEMMA CustomerActsPayer ==
    ASSUME GrantInv, PayerInv, NEW s \in Session, CustomerActs(s)
    PROVE  PayerInv'
<1>1. /\ checkout \in [Session -> Checkout]
      /\ UNCHANGED <<databaseVars, serviceVars, acked>>
  BY DEF GrantInv, TypeOK, StripeTypeOK, CustomerActs
<1>2. PICK next \in CheckoutSteps[checkout[s]] : checkout' = [checkout EXCEPT ![s] = next]
  BY DEF CustomerActs
<1>3. \/ checkout[s] = "open" /\ next \in {"expired", "paid", "processing"}
      \/ checkout[s] = "processing" /\ next \in {"succeeded", "failed"}
  <2>1. checkout[s] \in Checkout
    BY <1>1
  <2> QED
    BY <1>2, <2>1 DEF Checkout, CheckoutSteps
<1>4. RowsKept /\ PaymentsKept /\ UNCHANGED <<task, payments, subs>>
  BY <1>1 DEF RowsKept, PaymentsKept, databaseVars, serviceVars
<1>5. SettledKept
  BY <1>1, <1>2, <1>3 DEF SettledKept, Settled
<1>6. ASSUME NEW t \in Task PROVE Carries(t)'
  BY <1>4, <1>5, CarriesKept DEF PayerInv
<1>7. ASSUME NEW p \in Ref PROVE Owned(p)'
  BY <1>4, <1>5, OwnedKept DEF PayerInv
<1>8. ASSUME NEW other \in Session, NEW type \in EventType PROVE Answered(other, type)'
  <2>1. Answered(other, type)
    BY DEF PayerInv
  <2>2. CASE other = s
    <3>1. type \in Emitted(s) => /\ type \in Emitted(s)'
                                 /\ SaysPaid(s, type)' => SaysPaid(s, type)
      BY <1>1, <1>2, <1>3 DEF Emitted, SaysPaid
    <3> QED
      BY <1>1, <1>4, <2>1, <2>2, <3>1 DEF Answered
  <2>3. CASE other # s
    <3>1. checkout'[other] = checkout[other]
      BY <1>1, <1>2, <2>3
    <3> QED
      BY <1>1, <1>4, <2>1, <3>1 DEF Answered, Emitted, SaysPaid
  <2> QED
    BY <2>2, <2>3
<1> QED
  BY <1>6, <1>7, <1>8 DEF PayerInv

\* A 200 is sent for an event only when there is nothing left to do for it.
LEMMA AcknowledgePayer ==
    ASSUME GrantInv, PayerInv, NEW s \in Session, NEW type \in EventType,
           Acknowledge(s, type), type \in Emitted(s),
           SaysPaid(s, type) /\ Payer[s] # None => payments[s] # None,
           UNCHANGED <<databaseVars, checkout>>,
           \A t \in Task : task'[t] = task[t] \/ task'[t].pc = "idle"
    PROVE  PayerInv'
<1>1. RowsKept /\ PaymentsKept /\ SettledKept /\ UNCHANGED payments
  BY DEF RowsKept, PaymentsKept, SettledKept, Settled, databaseVars
<1>2. ASSUME NEW t \in Task PROVE Carries(t)'
  <2>1. CASE task'[t] = task[t]
    BY <1>1, <2>1, CarriesKept DEF PayerInv
  <2>2. CASE task'[t].pc = "idle"
    BY <2>2 DEF Carries, At, ServiceLabels, SavingLabels, AfterCommitLabels
  <2> QED
    BY <2>1, <2>2
<1>3. ASSUME NEW p \in Ref PROVE Owned(p)'
  BY <1>1, OwnedKept DEF PayerInv
<1>4. ASSUME NEW other \in Session, NEW kind \in EventType PROVE Answered(other, kind)'
  <2>1. <<other, kind>> \in acked' => <<other, kind>> \in acked \/ (other = s /\ kind = type)
    BY DEF Acknowledge
  <2>2. Emitted(other)' = Emitted(other) /\ SaysPaid(other, kind)' = SaysPaid(other, kind)
    BY DEF Emitted, SaysPaid
  <2> QED
    BY <1>1, <2>1, <2>2 DEF PayerInv, Answered
<1> QED
  BY <1>2, <1>3, <1>4 DEF PayerInv

\* The answer of a handler that recorded the payment, or found it recorded.
LEMMA RespondOKPayer ==
    ASSUME GrantInv, PayerInv, NEW t \in Task, RespondOK(t)
    PROVE  PayerInv'
<1>1. TaskTyped /\ Carries(t) /\ LocalsOK(t)
  BY DEF GrantInv, HandlerOK, TypeOK, ServiceTypeOK, TaskTyped, PayerInv
<1>2. OthersStay(t) /\ task'[t].pc = "idle" /\ UNCHANGED <<databaseVars, checkout>>
  BY <1>1, EndTask DEF RespondOK
<1>3. task[t].ref \in Session /\ payments[task[t].ref] # None
  BY <1>1 DEF RespondOK, At, LocalsOK, Carries
<1>4. PICK type \in EventType :
        type \in Emitted(task[t].ref) /\ Acknowledge(task[t].ref, type)
  BY DEF RespondOK
<1>5. \A other \in Task : task'[other] = task[other] \/ task'[other].pc = "idle"
  BY <1>2 DEF OthersStay
<1> QED
  BY <1>2, <1>3, <1>4, <1>5, AcknowledgePayer

\* The clock, Stripe's checkout page, the payers, and the events answered
\* without a transaction.
LEMMA WorldPayer ==
    ASSUME GrantInv, PayerInv,
           WorldNext \/ \E s \in Session, type \in EventType : AcknowledgeEvent(s, type)
    PROVE  PayerInv'
<1>1. CASE /\ AdvanceClock \/ \E u \in TelegramId : JoinChannel(u) \/ RegisterUser(u)
           /\ UNCHANGED <<subs, payments, serviceVars, stripeVars>>
  <2>1. RowsKept /\ UNCHANGED <<task, payments, stripeVars>>
    BY <1>1 DEF RowsKept, serviceVars
  <2> QED
    BY <2>1, PayerStays
<1>2. CASE \E s \in Session : CustomerActs(s)
  BY <1>2, CustomerActsPayer
<1>3. ASSUME NEW s \in Session, NEW type \in EventType, AcknowledgeEvent(s, type)
      PROVE  PayerInv'
  <2>1. /\ Acknowledge(s, type) /\ type \in Emitted(s)
        /\ SaysPaid(s, type) /\ Payer[s] # None => payments[s] # None
        /\ UNCHANGED <<databaseVars, checkout>> /\ UNCHANGED task
    BY <1>3 DEF AcknowledgeEvent, serviceVars
  <2> QED
    BY <2>1, AcknowledgePayer
<1> QED
  BY <1>1, <1>2, <1>3 DEF WorldNext, JoinChannel, RegisterUser, databaseVars
-----------------------------------------------------------------------------
(* Handlers that write rows and payments.                                  *)

\* Saving a screenshot: the placeholder and the payment are its sender's
\* (receive_screenshot).
LEMMA ScreenshotPayer ==
    ASSUME GrantInv, PayerInv, NEW t \in Task, UNCHANGED stripeVars, ScreenshotStep(t)
    PROVE  PayerInv'
<1>1. /\ TaskTyped /\ LocalsOK(t) /\ Carries(t) /\ Screenshot(t)
      /\ subs \in [SubId -> Row] /\ payments \in [Ref -> SubId \cup {None}]
  BY DEF GrantInv, HandlerOK, TypeOK, ServiceTypeOK, DatabaseTypeOK, TaskTyped, PayerInv
<1>2. CASE SaveUser(t)
  <2>1. /\ OthersStay(t) /\ task'[t].pc = "save_placeholder"
        /\ task'[t].ref = task[t].ref /\ task'[t].user = task[t].user
    BY <1>1, <1>2, GotoTask DEF SaveUser, Label
  <2>2. task[t].pc = "save_user" /\ task[t].ref \in Message /\ UNCHANGED <<subs, payments>>
    BY <1>1, <1>2 DEF SaveUser, At, LocalsOK, SavingLabels
  <2>3. Carries(t)'
    BY <1>1, <2>1, <2>2 DEF Carries, At, ServiceLabels, SavingLabels, AfterCommitLabels
  <2> QED
    BY <2>1, <2>2, <2>3, PayerMoves DEF RowsKept
<1>3. CASE SavePlaceholder(t)
  <2>1. PICK r \in FreeIds :
          /\ subs' = [subs EXCEPT ![r] = PendingRow(task[t].user)]
          /\ task' = [task EXCEPT ![t].pc = "save_payment", ![t].pending = r]
    BY <1>3 DEF SavePlaceholder
  <2>2. r \in SubId /\ subs[r] = NoRow
    BY DEF FreeIds
  <2>3. /\ OthersStay(t) /\ task'[t].pc = "save_payment" /\ task'[t].pending = r
        /\ task'[t].ref = task[t].ref /\ task'[t].user = task[t].user
    BY <1>1, <2>1 DEF TaskTyped, TaskRecord, OthersStay
  <2>4. /\ task[t].pc = "save_placeholder" /\ task[t].ref \in Message /\ UNCHANGED payments
        /\ task[t].user = Sender[task[t].ref]
    BY <1>1, <1>3 DEF SavePlaceholder, At, LocalsOK, Carries, SavingLabels
  <2>5. RowsKept /\ subs'[r].user = task[t].user
    BY <1>1, <2>1, <2>2 DEF RowsKept, PendingRow
  <2>6. Carries(t)'
    BY <2>3, <2>4, <2>5 DEF Carries, At, ServiceLabels, SavingLabels, AfterCommitLabels
  <2> QED
    BY <2>3, <2>4, <2>5, <2>6, PayerMoves
<1>4. CASE SavePayment(t)
  <2>1. /\ OthersStay(t) /\ task'[t].pc = "forward"
    BY <1>1, <1>4, GotoTask DEF SavePayment, Label
  <2>2. /\ task[t].ref \in Message /\ UNCHANGED subs /\ task[t].pending \in SubId
        /\ subs[task[t].pending].user = Sender[task[t].ref]
    BY <1>1, <1>4 DEF SavePayment, At, LocalsOK, Carries, SavingLabels
  <2>3. payments' = [payments EXCEPT ![task[t].ref] = task[t].pending]
    BY <1>4 DEF SavePayment
  <2>4. ASSUME NEW p \in Ref
        PROVE  payments'[p] = payments[p] \/ (payments'[p] # None /\ Owned(p)')
    <3>1. CASE p = task[t].ref
      <4>1. /\ payments'[p] = task[t].pending /\ payments'[p] # None
            /\ p \in Message /\ p \notin Session
        BY <1>1, <2>2, <2>3, <3>1, DatabaseAssumption
      <4> QED
        BY <2>2, <3>1, <4>1 DEF Owned
    <3>2. CASE p # task[t].ref
      BY <1>1, <2>3, <3>2
    <3> QED
      BY <3>1, <3>2
  <2>5. Carries(t)'
    BY <2>1 DEF Carries, At, ServiceLabels, SavingLabels, AfterCommitLabels
  <2> QED
    BY <2>1, <2>2, <2>4, <2>5, PayerMoves DEF RowsKept
<1>5. CASE ForwardScreenshot(t)
  <2>1. OthersStay(t) /\ task'[t].pc = "thank" /\ UNCHANGED databaseVars
    BY <1>1, <1>5, GotoTask DEF ForwardScreenshot, Label
  <2>2. Carries(t)'
    BY <2>1 DEF Carries, At, ServiceLabels, SavingLabels, AfterCommitLabels
  <2> QED
    BY <2>1, <2>2, PayerReads
<1>6. CASE ThankSender(t)
  <2>1. OthersStay(t) /\ task'[t].pc = "idle" /\ UNCHANGED databaseVars
    BY <1>1, <1>6, EndTask DEF ThankSender
  <2>2. Carries(t)'
    BY <2>1 DEF Carries, At, ServiceLabels, SavingLabels, AfterCommitLabels
  <2> QED
    BY <2>1, <2>2, PayerReads
<1> QED
  BY <1>2, <1>3, <1>4, <1>5, <1>6 DEF ScreenshotStep

\* /invite carries no payment (admin_invite).
LEMMA InvitePayer ==
    ASSUME GrantInv, PayerInv, NEW t \in Task, UNCHANGED stripeVars, InviteStep(t)
    PROVE  PayerInv'
<1>1. TaskTyped
  BY DEF GrantInv, TypeOK, ServiceTypeOK, TaskTyped
<1>2. /\ OthersStay(t) /\ UNCHANGED databaseVars
      /\ task'[t].pc \in {"send_invite", "idle"}
  BY <1>1, GotoTask, EndTask DEF InviteStep, CreateFreshLink, SendFreshLink, Label
<1>3. Carries(t)'
  BY <1>2 DEF Carries, At, ServiceLabels, SavingLabels, AfterCommitLabels
<1> QED
  BY <1>2, <1>3, PayerReads

\* The row an activation writes is, or becomes, the payer's (_activate).
LEMMA ActivatesOwnRow ==
    ASSUME GrantInv, NEW t \in Task, task[t].pc \in {"activate", "confirm_activate"},
           WriteActivation(t)
    PROVE  RowsKept /\ task[t].sub \in SubId /\ subs'[task[t].sub].user = task[t].user
<1> DEFINE r == task[t].sub
           u == task[t].user
           read == task[t].row
           old == subs[r]
           new == Flush(old, read, Activated(read))
<1>0. TypeOK /\ RowsOK /\ LocalsOK(t) /\ ChosenRow(t) /\ Confirmation(t) /\ TaskTyped
  BY DEF GrantInv, HandlerOK, TypeOK, ServiceTypeOK, TaskTyped
<1>1. /\ r \in SubId /\ u \in TelegramId
      /\ \/ old = NoRow /\ read = PendingRow(u)
         \/ old = PendingRow(u) /\ read = PendingRow(u)
         \/ Opened(old) /\ Opened(read) /\ RowOK(read) /\ old.user = u
  BY <1>0 DEF LocalsOK, ChosenRow, Confirmation, ServiceLabels, SavingLabels, SavedLabels, InviteLabels, LockingLabels,
      AfterCommitLabels
<1>2. old \in Row /\ read \in Row /\ RowOK(old) /\ RowOK(read) /\ now \in Nat
  BY <1>0, <1>1 DEF TypeOK, DatabaseTypeOK, EnvironmentTypeOK, TaskTyped, TaskRecord, RowsOK, RowOK,
      PendingRow, Opened
<1>3. new.user = u /\ Opened(new)
  <2> HIDE DEF r, u, read, old, new
  <2> QED
    BY <1>1, <1>2, ActivatedRow DEF new
<1>4. subs' = [subs EXCEPT ![r] = new] /\ subs \in [SubId -> Row]
  BY <1>0 DEF WriteActivation, TypeOK, DatabaseTypeOK
<1>5. subs[r] # NoRow => subs[r].user = u
  BY <1>1 DEF PendingRow
<1> HIDE DEF new
<1> QED
  BY <1>1, <1>3, <1>4, <1>5 DEF RowsKept, Opened, NoRow

\* The COMMIT of _activate_subscription records the payment on its payer's row.
LEMMA ActivateSubscriptionPayer ==
    ASSUME GrantInv, PayerInv, NEW t \in Task, UNCHANGED stripeVars, ActivateSubscription(t)
    PROVE  PayerInv'
<1>1. /\ TaskTyped /\ LocalsOK(t) /\ Carries(t) /\ payments \in [Ref -> SubId \cup {None}]
      /\ task[t].pc = "activate"
  BY DEF GrantInv, HandlerOK, TypeOK, ServiceTypeOK, DatabaseTypeOK, TaskTyped, PayerInv,
      ActivateSubscription, At
<1>2. PICK p0 \in Session \cup Uuid : p0 = task[t].ref
  BY <1>1 DEF LocalsOK, ServiceLabels
<1>3. p0 \in Session => Settled(p0) /\ task[t].user = Payer[p0]
  BY <1>1, <1>2 DEF Carries, ServiceLabels
<1>4. PICK r \in SubId : r = task[t].sub /\ RowsKept /\ subs'[r].user = task[t].user
  BY <1>1, ActivatesOwnRow DEF ActivateSubscription
<1>5. OthersStay(t) /\ task'[t].pc = "create_link" /\ task'[t].ref = p0
  BY <1>1, <1>2, GotoTask DEF ActivateSubscription, Label
<1>6. /\ p0 \in Ref /\ payments'[p0] = r /\ r # None
      /\ \A p \in Ref \ {p0} : payments'[p] = payments[p]
  BY <1>1, <1>2, <1>4, DatabaseAssumption DEF ActivateSubscription, Ref
<1>7. Owned(p0)'
  <2>1. Settled(p0)' = Settled(p0) /\ p0 \notin Message
    BY <1>2, DatabaseAssumption DEF Settled, stripeVars
  <2> QED
    BY <1>3, <1>4, <1>6, <2>1 DEF Owned
<1>8. Carries(t)'
  BY <1>5, <1>6 DEF Carries, At, ServiceLabels, SavingLabels, AfterCommitLabels
<1>9. \A p \in Ref : payments'[p] = payments[p] \/ (payments'[p] # None /\ Owned(p)')
  BY <1>6, <1>7
<1> QED
  BY <1>4, <1>5, <1>8, <1>9, PayerMoves

\* The COMMIT of confirm_manual_payment re-points the payment to another row
\* of the same payer.
LEMMA ConfirmManualPaymentPayer ==
    ASSUME GrantInv, PayerInv, NEW t \in Task, UNCHANGED stripeVars, ConfirmManualPayment(t)
    PROVE  PayerInv'
<1> DEFINE r == task[t].sub
           held == task[t].pending
<1>1. /\ TaskTyped /\ LocalsOK(t) /\ Confirmation(t) /\ payments \in [Ref -> SubId \cup {None}]
      /\ task[t].pc = "confirm_activate"
  BY DEF GrantInv, HandlerOK, TypeOK, ServiceTypeOK, DatabaseTypeOK, TaskTyped,
      ConfirmManualPayment, At
<1>2. /\ held \in SubId /\ subs[held] = PendingRow(task[t].user)
      /\ task[t].ref \in Ref /\ payments[task[t].ref] = held
  BY <1>1 DEF LocalsOK, Confirmation, LockingLabels
<1>3. RowsKept /\ r \in SubId /\ subs'[r].user = task[t].user
  BY <1>1, ActivatesOwnRow DEF ConfirmManualPayment
<1>4. /\ OthersStay(t) /\ task'[t].pc = "notify" /\ task'[t].ref = task[t].ref
  BY <1>1, GotoTask DEF ConfirmManualPayment, Label
<1>5. \A p \in Ref : payments'[p] = IF payments[p] = held THEN r ELSE payments[p]
  BY DEF ConfirmManualPayment
<1>6. ASSUME NEW p \in Ref PROVE payments'[p] = payments[p] \/ (payments'[p] # None /\ Owned(p)')
  <2>1. CASE payments[p] = held
    <3>1. payments[p] # None /\ payments'[p] = r /\ r # None
      BY <1>2, <1>3, <1>5, <2>1, DatabaseAssumption
    <3>2. /\ p \in Session => task[t].user = Payer[p] /\ Settled(p)
          /\ p \in Message => task[t].user = Sender[p]
      BY <1>2, <2>1, <3>1 DEF PayerInv, Owned, PendingRow
    <3>3. Settled(p)' = Settled(p)
      BY DEF Settled, stripeVars
    <3> QED
      BY <1>3, <3>1, <3>2, <3>3 DEF Owned
  <2>2. CASE payments[p] # held
    BY <1>5, <2>2
  <2> QED
    BY <2>1, <2>2
<1>7. payments'[task[t].ref] # None
  BY <1>2, <1>3, <1>5, DatabaseAssumption
<1>8. Carries(t)'
  BY <1>4, <1>7 DEF Carries, At, ServiceLabels, SavingLabels, AfterCommitLabels
<1> QED
  BY <1>3, <1>4, <1>6, <1>8, PayerMoves

-----------------------------------------------------------------------------
(* The jobs, a crash, and the whole.                                       *)

\* Neither job changes whose a row is, opens one, or touches a payment.
LEMMA JobsKeepRows ==
    ASSUME GrantInv, WarningsStep \/ WarningsFail \/ KickStep \/ KickFails
    PROVE  RowsKept /\ NothingOpens /\ UNCHANGED <<task, payments, grants>>
<1>1. RowsOK /\ WarnShape /\ KickShape /\ subs \in [SubId -> Row] /\ kick \in KickRecord
      /\ warn \in WarnRecord /\ warn.row \in Row
  BY DEF GrantInv, JobShape, TypeOK, DatabaseTypeOK, KickTypeOK, WarningsTypeOK, WarnRecord
<1>2. UNCHANGED <<task, payments, grants>>
  BY DEF WarningsStep, StartWarnings, WarnNext, ReadForExpiring, MarkExpiring, RefreshMarked,
      SendReminder, RecordReminder, WarningsFail, KickStep, StartAutoKick, KickNext, ReadHop,
      WriteHop, FindOtherLive, CheckMember, BanMember, UnbanMember, KickFails,
      databaseVars, serviceVars
<1>3. ASSUME NEW r \in SubId, NEW read \in Row, Opened(subs[r]), Opened(read),
             NEW s \in {"expiring", "expired", "kicked"},
             subs' = [subs EXCEPT ![r] = Flush(@, read, WithStatus(read, s))]
      PROVE  RowsKept /\ NothingOpens
  <2> DEFINE old == subs[r]
             new == Flush(old, read, WithStatus(read, s))
  <2>1. /\ old \in Row /\ RowOK(old) /\ Opened(old) /\ read \in Row /\ Opened(read)
        /\ new = Flush(old, read, WithStatus(read, s))
    BY <1>1, <1>3 DEF RowsOK
  <2>2. Opened(new) /\ new.user = old.user
    <3> HIDE DEF old, new
    <3>1. /\ new \in Row /\ RowOK(new) /\ Opened(new)
          /\ new.user = old.user /\ new.expires = old.expires
          /\ new.status = IF read.status = s THEN old.status ELSE s
      BY <2>1, MovedRow
    <3> QED
      BY <3>1
  <2>3. subs' = [subs EXCEPT ![r] = new]
    BY <1>3
  <2> HIDE DEF new
  <2>4. RowsKept
    BY <1>1, <2>2, <2>3 DEF RowsKept, Opened, NoRow
  <2>5. NothingOpens
    BY <1>1, <1>3, <2>3 DEF NothingOpens
  <2> QED
    BY <2>4, <2>5
<1>4. RowsKept /\ NothingOpens
  <2>1. CASE MarkExpiring
    BY <1>1, <1>3, <2>1 DEF MarkExpiring, WarnShape
  <2>2. CASE WriteHop
    <3>1. kick.row \in Row
      BY <1>1 DEF KickRecord
    <3> QED
      BY <1>1, <1>3, <2>2, <3>1 DEF WriteHop, KickShape
  <2>3. CASE RecordReminder
    <3>1. warn.sub \in SubId /\ Opened(subs[warn.sub])
      BY <1>1, <2>3 DEF RecordReminder, WarnShape
    <3> QED
      BY <1>1, <2>3, <3>1 DEF RecordReminder, RowsKept, NothingOpens, Row, Opened, NoRow
  <2>4. CASE UNCHANGED subs
    BY <2>4 DEF RowsKept, NothingOpens
  <2>5. UNCHANGED subs \/ MarkExpiring \/ RecordReminder \/ WriteHop
    BY DEF WarningsStep, StartWarnings, WarnNext, ReadForExpiring, RefreshMarked,
        SendReminder, WarningsFail, KickStep, StartAutoKick, KickNext, ReadHop,
        FindOtherLive, CheckMember, BanMember, UnbanMember, KickFails, databaseVars
  <2> QED
    BY <2>1, <2>2, <2>3, <2>4, <2>5
<1> QED
  BY <1>2, <1>4

\* ... so what handlers carry and payments stand for is not theirs to change.
LEMMA JobsPayer ==
    ASSUME GrantInv, PayerInv, UNCHANGED stripeVars,
           WarningsStep \/ WarningsFail \/ KickStep \/ KickFails
    PROVE  PayerInv'
BY JobsKeepRows, PayerStays

\* A crash forgets what was carried, not what was recorded or answered.
LEMMA CrashPayer ==
    ASSUME GrantInv, PayerInv, Crash
    PROVE  PayerInv'
<1>1. /\ UNCHANGED <<databaseVars, stripeVars>> /\ task' = [t \in Task |-> IdleTask]
  BY DEF Crash
<1>2. \A t \in Task : task'[t].pc = "idle"
  BY <1>1 DEF IdleTask, Starting
<1>3. RowsKept /\ SettledKept /\ UNCHANGED payments
  BY <1>1 DEF RowsKept, SettledKept, Settled, databaseVars, stripeVars
<1>4. ASSUME NEW t \in Task PROVE Carries(t)'
  BY <1>2 DEF Carries, At, ServiceLabels, SavingLabels, AfterCommitLabels
<1>5. ASSUME NEW p \in Ref PROVE Owned(p)'
  BY <1>3, OwnedKept DEF PayerInv
<1>6. ASSUME NEW s \in Session, NEW type \in EventType PROVE Answered(s, type)'
  BY <1>1, <1>3 DEF PayerInv, Answered, Emitted, SaysPaid, stripeVars
<1> QED
  BY <1>4, <1>5, <1>6 DEF PayerInv

\* A failure elsewhere touches nothing of it.
LEMMA OtherHandlerFailsPayer ==
    ASSUME GrantInv, PayerInv, OtherHandlerFails, UNCHANGED stripeVars
    PROVE  PayerInv'
BY PayerStays DEF OtherHandlerFails, RowsKept, databaseVars, serviceVars

\* PayerInv holds of a fresh database.
LEMMA PayerInvInit == Init => PayerInv
<1> SUFFICES ASSUME Init PROVE PayerInv
  OBVIOUS
<1>1. \A t \in Task : task[t].pc = "idle"
  BY DEF Init, ServiceInit, IdleTask, Starting
<1>2. \A t \in Task : Carries(t)
  BY <1>1, CarriesNothing
<1>3. \A p \in Ref : Owned(p)
  BY DEF Init, DatabaseInit, Owned
<1>4. acked = {}
  BY DEF Init, StripeInit
<1> QED
  BY <1>2, <1>3, <1>4 DEF PayerInv, Answered

\* Every step of the system preserves PayerInv, given GrantInv.
LEMMA PayerInvStep == GrantInv /\ PayerInv /\ [Next]_vars => PayerInv'
<1> SUFFICES ASSUME GrantInv, PayerInv, [Next]_vars PROVE PayerInv'
  OBVIOUS
<1>1. CASE WorldNext
  BY <1>1, WorldPayer
<1>2. CASE \E s \in Session, type \in EventType : WebhookNext(s, type)
  BY <1>2, WorldPayer, BeginStripeActivationPayer DEF WebhookNext
<1>3. CASE RequestNext
  BY <1>3, RequestPayer
<1>4. ASSUME NEW t \in Task, HandlerNext(t) PROVE PayerInv'
  <2>1. CASE ActivationStep(t) /\ UNCHANGED stripeVars
    BY <2>1, ActivationReadsPayer, ActivateSubscriptionPayer, ConfirmationReadsPayer,
       ConfirmManualPaymentPayer DEF ActivationStep
  <2>2. CASE AccessStep(t) /\ UNCHANGED stripeVars
    BY <2>2, AccessPayer
  <2>3. CASE RespondOK(t)
    BY <2>3, RespondOKPayer
  <2>4. CASE (ScreenshotStep(t) \/ InviteStep(t)) /\ UNCHANGED stripeVars
    BY <2>4, ScreenshotPayer, InvitePayer
  <2> QED
    BY <1>4, <2>1, <2>2, <2>3, <2>4 DEF HandlerNext
<1>5. CASE WarningsNext \/ KickNextStep
  BY <1>5, JobsPayer DEF WarningsNext, KickNextStep
<1>6. CASE FailureNext \/ Crash
  BY <1>6, CrashPayer, TransactionFailsPayer, JobsPayer, OtherHandlerFailsPayer DEF FailureNext
<1>7. CASE UNCHANGED vars
  <2>1. RowsKept /\ UNCHANGED <<task, payments, stripeVars>>
    BY <1>7 DEF vars, RowsKept, databaseVars, serviceVars
  <2> QED
    BY <2>1, PayerStays
<1> QED
  BY <1>1, <1>2, <1>3, <1>4, <1>5, <1>6, <1>7 DEF Next, RunningNext

\* Whose money each handler carries and each payment stands for, at all times.
THEOREM PayerInvHolds == Spec => []PayerInv
  BY PayerInvInit, PayerInvStep, GrantInvHolds, PTL DEF Spec

-----------------------------------------------------------------------------

\* Stripe is told to stop retrying an event that says "paid" only once the
\* payment is on record, through crashes and rollbacks (handle_stripe_webhook).
THEOREM AckedRecorded == Spec => []AckedMeansRecorded
<1>1. PayerInv => AckedMeansRecorded
  BY DEF PayerInv, Answered, AckedMeansRecorded
<1> QED
  BY <1>1, PayerInvHolds, PTL

\* A session whose money has not arrived never extends a subscription
\* (_ACTIVATING_EVENTS and payment_status).
THEOREM SettledGrants == Spec => []OnlySettledSessionsGrant
<1>1. GrantInv /\ PayerInv => OnlySettledSessionsGrant
  <2> SUFFICES ASSUME GrantInv, PayerInv, NEW s \in Session, grants[s] > 0 PROVE Settled(s)
    BY DEF OnlySettledSessionsGrant
  <2>1. s \in Ref \ Message
    BY DatabaseAssumption DEF Ref
  <2>2. payments[s] # None
    BY <2>1 DEF GrantInv, Ledger
  <2> QED
    BY <2>1, <2>2 DEF PayerInv, Owned
<1> QED
  BY <1>1, GrantInvHolds, PayerInvHolds, PTL

\* However renewals, confirmations and screenshots interleave, a payment
\* counts for the one who made it (repoint_subscription).
THEOREM PaidForPayer == Spec => []PaymentBelongsToPayer
<1>1. PayerInv => PaymentBelongsToPayer
  BY DEF PayerInv, Owned, PaymentBelongsToPayer, Ref
<1> QED
  BY <1>1, PayerInvHolds, PTL

\* The steps that write the subscriptions table ...
RowWriter ==
    \/ \E t \in Task : \/ SavePlaceholder(t)
                       \/ task[t].pc \in {"activate", "confirm_activate"} /\ WriteActivation(t)
    \/ MarkExpiring \/ RecordReminder \/ WriteHop

\* ... and no other step does.
LEMMA RowWriters == [Next]_vars => UNCHANGED subs \/ RowWriter
<1> SUFFICES ASSUME [Next]_vars PROVE UNCHANGED subs \/ RowWriter
  OBVIOUS
<1>1. CASE WorldNext \/ (\E s \in Session, type \in EventType : WebhookNext(s, type)) \/ RequestNext
  BY <1>1 DEF WorldNext, AdvanceClock, JoinChannel, RegisterUser, CustomerActs, WebhookNext,
      AcknowledgeEvent, BeginStripeActivation, RequestNext, ReceiveScreenshot, PressConfirm,
      AdminActivate, AdminInvite, databaseVars
<1>2. ASSUME NEW t \in Task, HandlerNext(t) PROVE UNCHANGED subs \/ RowWriter
  BY <1>2 DEF HandlerNext, ActivationStep, AccessStep, ScreenshotStep, InviteStep, RowWriter, At,
      GetOrCreateUser, FindOrCreateSubscription, CreatePayment, ActivateSubscription,
      LockPlaceholder, FindRenewable, ConfirmManualPayment, CreateInviteLink, SendConfirmation,
      RespondOK, SaveUser, SavePayment, ForwardScreenshot, ThankSender, CreateFreshLink,
      SendFreshLink, databaseVars
<1>3. CASE WarningsNext \/ KickNextStep
  BY <1>3 DEF WarningsNext, WarningsStep, StartWarnings, WarnNext, ReadForExpiring, RefreshMarked,
      SendReminder, KickNextStep, KickStep, StartAutoKick, KickNext, ReadHop, FindOtherLive,
      CheckMember, BanMember, UnbanMember, RowWriter, databaseVars
<1>4. CASE FailureNext \/ Crash \/ UNCHANGED vars
  BY <1>4 DEF FailureNext, Crash, TransactionFails, WarningsFail, KickFails, OtherHandlerFails,
      vars, databaseVars
<1> QED
  BY <1>1, <1>2, <1>3, <1>4 DEF Next, RunningNext

\* A placeholder without a payment, or whose payment was re-pointed to a live
\* row, is written by no job and by no activation (confirm_manual_payment).
THEOREM OrphansStay == Spec => OrphanPlaceholdersStayPending
<1>1. ASSUME GrantInv, [Next]_vars, NEW r \in SubId,
             subs[r].status = "pending", \A p \in Ref : payments[p] # r
      PROVE  subs'[r] = subs[r]
  <2>1. TypeOK /\ JobShape /\ \A t \in Task : HandlerOK(t)
    BY <1>1 DEF GrantInv
  <2>2. ~Opened(subs[r]) /\ subs[r] # NoRow /\ subs \in [SubId -> Row]
    BY <1>1, <2>1 DEF Opened, NoRow, TypeOK, DatabaseTypeOK
  <2>3. ASSUME NEW t \in Task, SavePlaceholder(t) PROVE subs'[r] = subs[r]
    BY <2>2, <2>3 DEF SavePlaceholder, FreeIds
  <2>4. ASSUME NEW t \in Task, task[t].pc \in {"activate", "confirm_activate"},
               WriteActivation(t)
        PROVE  subs'[r] = subs[r]
    <3>1. task[t].sub # r
      BY <1>1, <2>1, <2>2, <2>4 DEF HandlerOK, ChosenRow, Confirmation, LocalsOK,
          ServiceLabels, SavingLabels, SavedLabels, InviteLabels, LockingLabels, AfterCommitLabels
    <3> QED
      BY <2>2, <2>4, <3>1 DEF WriteActivation
  <2>5. CASE MarkExpiring \/ RecordReminder
    <3>1. warn.sub # r
      BY <2>1, <2>2, <2>5 DEF JobShape, WarnShape, MarkExpiring, RecordReminder
    <3> QED
      BY <2>2, <2>5, <3>1 DEF MarkExpiring, RecordReminder
  <2>6. CASE WriteHop
    <3>1. kick.sub # r
      BY <2>1, <2>2, <2>6 DEF JobShape, KickShape, WriteHop
    <3> QED
      BY <2>2, <2>6, <3>1 DEF WriteHop
  <2> QED
    BY <1>1, <2>3, <2>4, <2>5, <2>6, RowWriters DEF RowWriter
<1>2. GrantInv /\ [Next]_vars =>
        [\A r \in SubId :
           /\ subs[r].status = "pending"
           /\ \A p \in Ref : payments[p] # r
           /\ \A t \in Task : ~(At(t, "save_payment") /\ task[t].pending = r)
           => subs'[r] = subs[r]]_vars
  BY <1>1
<1> QED
  BY <1>2, GrantInvHolds, PTL DEF Spec, OrphanPlaceholdersStayPending

=============================================================================
