---------------------------- MODULE LedgerProofs ----------------------------
(***************************************************************************)
(* The bot implements the abstract ledger, for any number of payers,       *)
(* payments, handlers and failures: its initial states map to the ledger's *)
(* and every step maps to a step of the ledger or to none.                 *)
(***************************************************************************)
EXTENDS AccessProofs, LedgerRefinement

\* The ledger's view of the accounts.
Accounts == [p \in Ref |-> AccountOf(p)]

\* A fresh database is an empty ledger.
LEMMA LedgerInit == Init => Abstract!Init
<1> SUFFICES ASSUME Init PROVE Abstract!Init
  OBVIOUS
<1> USE DEF Init, ServiceInit, DatabaseInit, StripeInit
<1>1. SettledSessions = {}
  BY DEF SettledSessions, Settled
<1>2. FiledScreenshots = {} /\ GrantedPayments = {}
  BY DEF FiledScreenshots, GrantedPayments, Ref
<1>3. AnsweredSessions = {}
  BY DEF AnsweredSessions
<1>4. [p \in Ref |-> AccountOf(p)] = [p \in Session \cup Uuid \cup Message |-> None]
  BY DEF AccountOf, Ref
<1> QED
  BY <1>1, <1>2, <1>3, <1>4 DEF Abstract!Init

\* What a recorded payment says about its owner does not change while the
\* payment is not written.
LEMMA AccountKept ==
    ASSUME GrantInv, PayerInv, [Next]_vars, NEW p \in Ref, payments'[p] = payments[p]
    PROVE  AccountOf(p)' = AccountOf(p)
<1>1. payments[p] # None => payments[p] \in SubId /\ subs[payments[p]] # NoRow
  BY DEF GrantInv, Ledger, TypeOK, DatabaseTypeOK, Opened, NoRow
<1> QED
  BY <1>1, StepEffects DEF RowsKept, AccountOf

\* The tables are the same to the ledger.
LEMMA QuietTables ==
    ASSUME GrantInv, PayerInv, [Next]_vars, UNCHANGED <<payments, grants>>
    PROVE  UNCHANGED <<FiledScreenshots, GrantedPayments, Accounts>>
<1>1. \A p \in Ref : AccountOf(p)' = AccountOf(p)
  BY AccountKept
<1> QED
  BY <1>1 DEF FiledScreenshots, GrantedPayments, Accounts

\* Stripe's side is the same to the ledger.
LEMMA QuietStripe ==
    ASSUME UNCHANGED stripeVars
    PROVE  UNCHANGED <<SettledSessions, AnsweredSessions>>
BY DEF stripeVars, SettledSessions, AnsweredSessions, Settled, SaysPaid

\* The customer's page moves on: money arrives, or nothing the ledger sees.
LEMMA CustomerActsInLedger ==
    ASSUME GrantInv, PayerInv, [Next]_vars, NEW s \in Session, CustomerActs(s)
    PROVE  Abstract!Settle(s) \/ UNCHANGED Abstract!ledgerVars
<1>1. /\ checkout \in [Session -> Checkout] /\ UNCHANGED <<databaseVars, serviceVars, acked>>
      /\ acked \subseteq Session \X EventType
  BY DEF GrantInv, TypeOK, StripeTypeOK, CustomerActs
<1>2. PICK next \in CheckoutSteps[checkout[s]] : checkout' = [checkout EXCEPT ![s] = next]
  BY DEF CustomerActs
<1>3. \/ checkout[s] = "open" /\ next \in {"expired", "paid", "processing"}
      \/ checkout[s] = "processing" /\ next \in {"succeeded", "failed"}
  <2>1. checkout[s] \in Checkout
    BY <1>1
  <2> QED
    BY <1>2, <2>1 DEF Checkout, CheckoutSteps
<1>4. UNCHANGED <<FiledScreenshots, GrantedPayments, Accounts>>
  BY <1>1, QuietTables DEF databaseVars, serviceVars
<1>5. AnsweredSessions' = AnsweredSessions
  <2>1. ASSUME NEW other \in Session, NEW type \in EventType, <<other, type>> \in acked
        PROVE  SaysPaid(other, type)' = SaysPaid(other, type)
    <3>1. type \in Emitted(other)
      BY <2>1 DEF PayerInv, Answered
    <3>2. CASE other # s
      BY <1>1, <1>2, <3>2 DEF SaysPaid
    <3>3. CASE other = s
      BY <1>1, <1>2, <1>3, <3>1, <3>3 DEF SaysPaid, Emitted
    <3> QED
      BY <3>2, <3>3
  <2>2. acked' = acked
    BY <1>1
  <2> QED
    BY <2>1, <2>2 DEF AnsweredSessions
<1>6. \/ SettledSessions' = SettledSessions
      \/ s \notin SettledSessions /\ SettledSessions' = SettledSessions \cup {s}
  BY <1>1, <1>2, <1>3 DEF SettledSessions, Settled
<1> QED
  BY <1>4, <1>5, <1>6 DEF Abstract!Settle, Abstract!ledgerVars, Accounts

\* A 200 answers for a session only once its payment is granted, or hopeless.
LEMMA AcknowledgeInLedger ==
    ASSUME GrantInv, PayerInv, [Next]_vars, NEW s \in Session, NEW type \in EventType,
           Acknowledge(s, type), type \in Emitted(s),
           SaysPaid(s, type) /\ Payer[s] # None => payments[s] # None,
           UNCHANGED <<databaseVars, grants, checkout>>
    PROVE  Abstract!Answer(s) \/ UNCHANGED Abstract!ledgerVars
<1>1. UNCHANGED <<FiledScreenshots, GrantedPayments, Accounts>>
  BY QuietTables DEF databaseVars
<1>2. UNCHANGED SettledSessions
  BY DEF SettledSessions, Settled
<1>3. CASE ~SaysPaid(s, type)
  <2>1. AnsweredSessions' = AnsweredSessions
    BY <1>3 DEF AnsweredSessions, Acknowledge, SaysPaid
  <2> QED
    BY <1>1, <1>2, <2>1 DEF Abstract!ledgerVars, Accounts
<1>4. CASE SaysPaid(s, type)
  <2>1. AnsweredSessions' = AnsweredSessions \cup {s}
    BY <1>4 DEF AnsweredSessions, Acknowledge, SaysPaid
  <2>2. checkout[s] \in Checkout
    BY DEF GrantInv, TypeOK, StripeTypeOK
  <2>3. s \in SettledSessions
    BY <1>4, <2>2 DEF SettledSessions, Settled, Checkout, Emitted, SaysPaid
  <2>4. payments[s] # None => s \in GrantedPayments
    BY DatabaseAssumption DEF GrantInv, Ledger, GrantedPayments, Ref
  <2> QED
    BY <1>1, <1>2, <1>4, <2>1, <2>3, <2>4 DEF Abstract!Answer, Accounts
<1> QED
  BY <1>3, <1>4

\* A screenshot on file is a screenshot on file.
LEMMA FilesInLedger ==
    ASSUME GrantInv, PayerInv, [Next]_vars, NEW m \in Message, NEW r \in SubId, Files(m, r),
           UNCHANGED stripeVars
    PROVE  Abstract!File(m)
<1>1. payments \in [Ref -> SubId \cup {None}] /\ m \in Ref /\ grants[m] = 0 /\ r # None
  BY DatabaseAssumption DEF GrantInv, TypeOK, DatabaseTypeOK, Ledger, Files, Ref
<1>2. /\ payments'[m] = r /\ subs'[r].user = Sender[m] /\ payments[m] = None
      /\ \A p \in Ref \ {m} : payments'[p] = payments[p]
      /\ UNCHANGED grants
  BY <1>1 DEF Files
<1>3. m \notin FiledScreenshots \cup GrantedPayments
  BY <1>1, <1>2 DEF FiledScreenshots, GrantedPayments
<1>4. FiledScreenshots' = FiledScreenshots \cup {m}
  BY <1>1, <1>2 DEF FiledScreenshots, Ref
<1>5. GrantedPayments' = GrantedPayments
  BY <1>2 DEF GrantedPayments
<1>6. Accounts' = [Accounts EXCEPT ![m] = Sender[m]]
  <2>1. AccountOf(m)' = Sender[m]
    BY <1>1, <1>2 DEF AccountOf
  <2>2. \A p \in Ref \ {m} : AccountOf(p)' = AccountOf(p)
    BY <1>2, AccountKept
  <2> QED
    BY <2>1, <2>2 DEF Accounts
<1> QED
  BY <1>3, <1>4, <1>5, <1>6, QuietStripe DEF Abstract!File, Accounts

\* A period bought is a payment granted.
LEMMA BuysInLedger ==
    ASSUME GrantInv, PayerInv, [Next]_vars, NEW p \in Ref, NEW r \in SubId, Buys(p, r),
           UNCHANGED stripeVars
    PROVE  \/ p \in Session /\ Abstract!GrantSession(p)
           \/ p \in Message /\ Abstract!GrantScreenshot(p)
           \/ p \in Uuid /\ \E u \in TelegramId : Abstract!GrantByAdmin(p, u)
<1>1. /\ payments \in [Ref -> SubId \cup {None}] /\ grants \in [Ref -> Nat] /\ r # None
      /\ Session \cap Uuid = {} /\ Session \cap Message = {} /\ Uuid \cap Message = {}
  BY DatabaseAssumption DEF GrantInv, TypeOK, DatabaseTypeOK, ServiceTypeOK
<1>2. PICK u \in TelegramId : subs'[r].user = u
  BY DEF Buys
<1>3. /\ payments'[p] = r /\ grants[p] = 0 /\ grants'[p] = 1
      /\ \A q \in Ref \ {p} : payments'[q] = payments[q] /\ grants'[q] = grants[q]
  BY <1>1 DEF Buys
<1>4. p \notin GrantedPayments /\ GrantedPayments' = GrantedPayments \cup {p}
  BY <1>3 DEF GrantedPayments
<1>5. Accounts' = [Accounts EXCEPT ![p] = u]
  <2>1. AccountOf(p)' = u
    BY <1>1, <1>2, <1>3 DEF AccountOf
  <2>2. \A q \in Ref \ {p} : AccountOf(q)' = AccountOf(q)
    BY <1>3, AccountKept
  <2> QED
    BY <2>1, <2>2 DEF Accounts
<1>6. UNCHANGED <<SettledSessions, AnsweredSessions>>
  BY QuietStripe
<1>7. Abstract!Credit(p, u)
  BY <1>4, <1>5, <1>6 DEF Abstract!Credit, Accounts
<1>8. CASE p \in Message
  <2>1. u = Sender[p] /\ payments[p] # None
    BY <1>2, <1>8 DEF Buys
  <2>2. p \in FiledScreenshots /\ FiledScreenshots' = FiledScreenshots \ {p}
    BY <1>3, <1>8, <2>1 DEF FiledScreenshots, Ref
  <2> QED
    BY <1>7, <1>8, <2>1, <2>2 DEF Abstract!GrantScreenshot
<1>9. CASE p \notin Message
  <2>1. FiledScreenshots' = FiledScreenshots
    BY <1>3, <1>9 DEF FiledScreenshots, Ref
  <2>2. CASE p \in Session
    <3>1. u = Payer[p] /\ p \in SettledSessions
      BY <1>2, <2>2 DEF Buys, SettledSessions
    <3> QED
      BY <1>7, <2>1, <2>2, <3>1, DatabaseAssumption DEF Abstract!GrantSession
  <2>3. CASE p \in Uuid
    BY <1>7, <2>1, <2>3 DEF Abstract!GrantByAdmin
  <2> QED
    BY <1>9, <2>2, <2>3 DEF Ref
<1> QED
  BY <1>8, <1>9

\* The steps that Stripe sees are its customers' and the 200s it gets.
LEMMA StripeSteps ==
    ASSUME GrantInv, PayerInv, [Next]_vars
    PROVE  \/ UNCHANGED stripeVars
           \/ \E s \in Session : CustomerActs(s)
           \/ \E s \in Session, type \in EventType :
                 /\ Acknowledge(s, type) /\ type \in Emitted(s)
                 /\ SaysPaid(s, type) /\ Payer[s] # None => payments[s] # None
                 /\ UNCHANGED <<databaseVars, grants, checkout>>
<1>1. CASE WorldNext
  BY <1>1 DEF WorldNext, AdvanceClock
<1>2. ASSUME NEW s \in Session, NEW type \in EventType, WebhookNext(s, type)
      PROVE  \/ UNCHANGED stripeVars
             \/ /\ Acknowledge(s, type) /\ type \in Emitted(s)
                /\ SaysPaid(s, type) /\ Payer[s] # None => payments[s] # None
                /\ UNCHANGED <<databaseVars, grants, checkout>>
  BY <1>2 DEF WebhookNext, AcknowledgeEvent, BeginStripeActivation, serviceVars
<1>3. ASSUME NEW t \in Task, RespondOK(t)
      PROVE  \E s \in Session, type \in EventType :
                 /\ Acknowledge(s, type) /\ type \in Emitted(s)
                 /\ SaysPaid(s, type) /\ Payer[s] # None => payments[s] # None
                 /\ UNCHANGED <<databaseVars, grants, checkout>>
  <2>1. LocalsOK(t) /\ Carries(t)
    BY DEF GrantInv, HandlerOK, PayerInv
  <2>2. task[t].ref \in Session /\ payments[task[t].ref] # None
    BY <1>3, <2>1 DEF RespondOK, At, LocalsOK, Carries
  <2> QED
    BY <1>3, <2>2 DEF RespondOK
<1>4. ASSUME NEW t \in Task, HandlerNext(t) PROVE UNCHANGED stripeVars \/ RespondOK(t)
  BY <1>4 DEF HandlerNext
<1>5. CASE RequestNext \/ WarningsNext \/ KickNextStep \/ FailureNext \/ Crash \/ UNCHANGED vars
  BY <1>5 DEF RequestNext, WarningsNext, KickNextStep, FailureNext, OtherHandlerFails, Crash, vars,
      stripeVars
<1> QED
  BY <1>1, <1>2, <1>3, <1>4, <1>5 DEF Next, RunningNext

\* Every step of the bot is one step of the ledger, or none.
LEMMA LedgerStep ==
    ASSUME GrantInv, PayerInv, [Next]_vars
    PROVE  Abstract!Next \/ UNCHANGED Abstract!ledgerVars
<1>1. CASE \E s \in Session : CustomerActs(s)
  BY <1>1, CustomerActsInLedger DEF Abstract!Next
<1>2. CASE \E s \in Session, type \in EventType :
                 /\ Acknowledge(s, type) /\ type \in Emitted(s)
                 /\ SaysPaid(s, type) /\ Payer[s] # None => payments[s] # None
                 /\ UNCHANGED <<databaseVars, grants, checkout>>
  BY <1>2, AcknowledgeInLedger DEF Abstract!Next
<1>3. CASE UNCHANGED stripeVars
  <2>1. CASE Quiet
    BY <1>3, <2>1, QuietTables, QuietStripe DEF Quiet, Abstract!ledgerVars, Accounts
  <2>2. CASE \E m \in Message, r \in SubId : Files(m, r)
    BY <1>3, <2>2, FilesInLedger DEF Abstract!Next
  <2>3. CASE \E p \in Ref, r \in SubId : Buys(p, r)
    BY <1>3, <2>3, BuysInLedger DEF Abstract!Next
  <2> QED
    BY <2>1, <2>2, <2>3, StepEffects
<1> QED
  BY <1>1, <1>2, <1>3, StripeSteps

\* The bot implements the ledger: its transactions, retries, button presses
\* and crashes add up to payments granted once, to whoever made them, after
\* their money arrived, with no answer given too early.
THEOREM LedgerImplemented == Spec => ImplementsLedger
<1>1. GrantInv /\ PayerInv /\ [Next]_vars => [Abstract!Next]_(Abstract!ledgerVars)
  BY LedgerStep
<1> QED
  BY <1>1, LedgerInit, GrantInvHolds, PayerInvHolds, PTL
     DEF Spec, ImplementsLedger, Abstract!Spec

=============================================================================
