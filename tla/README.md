# Formal verification of the Telegram Subscription Manager

TLA+ models of the bot's payment and access logic, TLC configurations that
check them on small instances, and TLAPS proofs of the main safety results for
every instance. Paths below are relative to the repository (`app/...`).

## 1. The system

One Python process runs three things in one asyncio event loop (`main.py`):
Telegram polling, a Stripe webhook server and two daily APScheduler jobs. All of
them work on one Postgres database, through short sessions of their own, and
talk to Telegram. Between any two awaits any other of them may run.

| component | state it keeps | operations | talks to |
|---|---|---|---|
| state machine and rules (`app/domain/`) | none | `can_transition`, `transition`, `days_remaining`, renewal rule | called by everything |
| database (`app/db/`) | `users`, `subscriptions`, `payments` | repositories: each call is its own transaction, or part of the caller's | shared state of all parts |
| payment service (`app/services/payment_service.py`) | none beyond its transactions | `activate_paid_checkout`, `activate_manual_admin_grant`, `confirm_manual_payment` | database |
| Stripe webhook (`app/web/stripe_webhook.py`) | none | `handle_stripe_webhook` | payment service, channel access; called by Stripe |
| channel access (`app/services/channel_access.py`) | none; Telegram keeps members, bans, links | `confirm_and_grant_access` | Telegram |
| manual payments (`app/handlers.py`) | confirm buttons in the admin's chat | `receive_screenshot`, `confirm_payment`, `/activate` | database, payment service, channel access |
| conversations (`app/handlers.py`) | each user's FSM state, in memory; `users.last_question_at` | `request_screenshot`, `ask_question`, `back_to_main_menu`, `receive_question`, `state.clear()` | database, Telegram; let `receive_screenshot` in |
| admin commands (`app/handlers.py`) | none | `/subscribers`, `/invite` | database, Telegram |
| reminder job (`app/jobs/expiration_warnings.py`) | its list of candidates | `run_expiration_warnings`, `_warn_one` | database, Telegram |
| kick job (`app/jobs/auto_kick.py`) | its list of candidates | `run_auto_kick`, `_kick_one`, `_remove_from_channel` | database, Telegram |
| checkout creation, menus, `/my_subscription` | none | | Stripe, database (reads) |

What makes it hard:

* **Delivery.** Stripe delivers events repeatedly, concurrently and out of
  order. The admin may press a button twice. A Telegram update is handled once,
  or not at all if the process is down.
* **Read, await, write.** An activation reads the live row, awaits other
  statements and writes it. The jobs read a list and work through it over many
  awaits. `update_status` itself is a SELECT and then an UPDATE.
* **Partial UPDATEs.** The ORM writes only the columns that differ from what the
  session read. Two sessions that each wrote a consistent row can leave a mixture.
* **Waiting.** Inserts of the same unique key and `FOR UPDATE` make transactions
  wait for each other.
* **Several commits.** `receive_screenshot` commits three times, the kick job up
  to three times per row, and every Telegram call sits outside any transaction. A
  crash or an error may fall between any two of them.
* **Overlapping messages.** aiogram runs every update as a task of its own and
  looks the FSM state up when it dispatches; the handler clears it as its last
  act. An album is several messages that all pass the same check.
* **Lost answers.** `except TelegramAPIError` also catches a timeout after the
  call took effect, and a COMMIT may have succeeded although it raised.
* **Forgetting.** The FSM storage is in memory and dies with the process, while
  `users`, `payments` and `last_question_at` survive.
* **Time.** Rows expire while jobs look at them.

What correctness means, by component:

* payments: each one buys exactly one period, for its payer, and is never
  recorded without what it bought; only settled money buys anything; a paid
  event is acknowledged only after it is recorded;
* renewals: the payer's one live row is reused and its days are added to; the
  time on a row is what its payments bought, no more and no less;
* confirmation: idempotent, and an abandoned placeholder stays inert;
* access: whoever is in the channel, or holds a link into it, has paid once;
  a payer whose payment was granted hears of it, and gets a link for it, once;
* conversations: a prompt holds until it is answered, one prompt yields one
  payment, a thanked payer can be confirmed, questions keep their distance;
* the report: one line per person, each with a provider to name;
* reminders: at most one per day left in a cycle, each saying less than the last,
  and none to a row that is not due;
* closing: an overdue row is renewed or closed, a removal leaves no ban behind,
  administrators and whoever has time left stay;
* the process: no handler waits for ever.

## 2. The modules

    SubscriptionDomain        rules: TRANSITIONS, RenewedExpiresAt, DaysRemaining
      Environment             clock and faults
        Database              tables, queries, Flush (the ORM's UPDATE)
          PaymentService      the three activation paths
            ChannelAccess     confirmation, invite links, channel membership
              StripeWebhook   ManualPayments   ExpirationWarnings   AutoKick
                SubscriptionSystem      composition, fairness, the properties
                  AdminReport           /subscribers beside the system
                  Conversations         prompts, FSM state, questions beside it
                  LedgerRefinement      the mapping to PaymentLedger
                  Claims                sentences of the repository that fail
                  SubscriptionInvariants    inductive invariants

    PaymentLedger             what the bot promises about payments (abstract)

    MCSubscriptionSystem      instances of the system for TLC
      MCAdminReport           with the report
      MCConversations         with the conversations

    SubscriptionSystemProofs  grants and locks
      PayerProofs             whose money buys what
        AccessProofs          who gets into the channel and hears of it, who is not put out; the report
          LedgerProofs        the refinement
          ConversationProofs  prompts, thanks, questions; they implement the system
        SerialProofs          one live row per payer
          RenewalProofs       renewals add up, paid time, who keeps place and row (with AccessProofs)
            ReminderProofs    counts of reminders, none said twice, none too early

Each module extends the one above it in the indentation. `LedgerRefinement`
instantiates `PaymentLedger`. Everything is written without recursion, so all of
it can be proved about.

`/invite` is part of `ManualPayments`, as it hands out the links of
`ChannelAccess`. `AdminReport` and `Conversations` are modules *beside* the
system: their next-state relations take a step of the whole system, or one of
their own. The report writes nothing, so its steps leave `vars` alone
(`ReportImplementsSpec` proves it). The conversations restrict the system in one
place only, the router's filter: a screenshot is received in the state
"screenshot" (`BotStep`). A question's handler writes nothing of the system
either, but for the `users` row it may create (`RegisterUser`) and the faults
that befall it (`OtherHandlerFails`), so the system with conversations implements
the system without (`ConversationsImplementSpec`).

### State and how it corresponds to the code

| variable | meaning |
|---|---|
| `now`, `faults` | `utcnow()`; faults so far (bound) |
| `users`, `subs`, `payments` | *committed* tables. `subs[r]` is a row (owner, status, `expires_at`, `last_warning_days_left`) or `NoRow`; `payments[p]` is the `subscription_id` of the payment with that `(provider, provider_ref)` |
| `task[t]` | a handler in progress: the await it is at, and its local variables. `row` is the subscription as *its session* read it |
| `members`, `banned`, `links`, `told` | what Telegram knows: who is in the channel and banned from it, *how many* unused links each payer holds, and whose confirmation arrived |
| `checkout`, `acked` | Stripe's side: the fate of each session, and events answered with 200 |
| `received`, `buttons` | screenshots handed to a handler, confirm buttons sent to the admin |
| `warn`, `kick` | the run of each job: remaining candidates and the place in `_warn_one` / `_kick_one`. Two fields are history: `seen`, what was granted when the job listed a candidate (and, for `kick`, when it looked for another live row), and `blind`, that the look at a member's role failed |
| `report` | the `/subscribers` query in progress: the rows of its first statement, and the lines without a payment by its second |
| `state`, `asking`, `clearing` | the FSM storage, where the handler of each question is, and the messages whose handler still has to call `state.clear()` |
| `lastQuestion` | the column `users.last_question_at` |
| `grants`, `grantedAt`, `raced`, `reminders` | history, read by no guard: how often and when each payment was granted, payers whose activations overlapped, reminders delivered |
| `untold`, `leftBanned`, `unrecorded` | history of what a failure cut off: payments whose confirmation was refused or whose handler ended after the COMMIT, users whose removal ended between ban and unban, reminders delivered without a record |
| `prompted`, `admitted`, `thanked`, `unforwarded`, `lastForward`, `unlogged`, `disturbed` | history of the conversations, read by no guard; `unlogged` are the users whose last question was cut short before `last_question_at` was written |

Each action is one statement of a transaction, or one Telegram call. A
transaction's private writes live in `task[t]` until the step that commits; what
Postgres makes others wait for is a guard (`InsertsUser`, the unique constraint
in `CreatePayment`, `Locks`). The last UPDATE and the COMMIT are one step, since
nobody sees the first without the second. `Flush(stored, read, written)` is the
ORM's UPDATE: a column changes only if the session changed it. Rollback is
`TransactionFails`, possible at every statement.

A call to Telegram has three outcomes: it is done; it is not done and raises; it
is done and raises all the same, because only its answer was lost. The last two
are alike to the code and different to the admin, the payer and the channel, so
every action that sends, forwards, bans or unbans has all three. A COMMIT whose
answer is lost has taken effect and raises: the handler ends one step after it.

Abstractions: a session id, a uuid4 and a screenshot's `(chat, message_id)` are
model values, and stand for the pair with their provider (three disjoint sets).
Instants are naturals with `Day` instants per day. Amounts, currencies, texts and
signature verification decide no state and are left out. A crash is one step that
forgets handlers and job runs. After it the process is up again, and the updates
that came in meanwhile were dropped (`drop_pending_updates`). The jobs may start
at any instant, which includes the hours they are scheduled at. Postgres is
modelled, not the SQLite of the tests (which has no row locks).

## 3. Properties and runs

`Manual` uses `MCAdminReport`, `Conversations` uses `MCConversations`, all other
runs use `MCSubscriptionSystem`. Handlers and rows are symmetric, in
`Conversations` the messages of a kind too; `Liveness`, `Closing` and the claims
that are action properties use no symmetry. No run checks deadlock: with a
bounded clock and finitely many payments and messages the model does come to rest.

### Runs that pass

| run | instance | properties | distinct states |
|---|---|---|---|
| `Webhook` | sessions s1, s2 of one payer, s3 of nobody identifiable; 2 handlers, 2 rows, 1 fault of any kind | `PaymentGrantsOnce`, `PaymentBacksAccess`, `AckedMeansRecorded`, `OnlySettledSessionsGrant`, `SerialRenewalsKeepOneLiveRow`, `SerialRenewalsAreAdditive` | 1,075,545 |
| `Manual` | 2 screenshots, 1 `/activate`, 1 `/subscribers`, 2 payers, 2 handlers, 3 rows, clock to 1, 1 fault of any kind | `ReportTypeOK`, `EveryLineNamesProvider`, `GrantInv` (which implies `PaymentBacksAccess`), `LockedPlaceholderIsUnprocessed`, `PaymentBelongsToPayer`, `SerialRenewalsKeepOneLiveRow`, `TimeIsPaidFor`, `PaidTimeIsKept`, `PayersAreToldOnce`, `OrphanPlaceholdersStayPending`, `ImplementsLedger` | 882,404 |
| `Conversations` | 1 user with 2 screenshots and 2 questions, any prompts, 1 handler of screenshots and presses, clock to 1, cooldown 1, 1 fault of any kind | `ConversationTypeOK`, `PromptHolds`, `OnePaymentPerPrompt`, `ThankedCanBeConfirmed`, `QuestionsAreSpaced` | 766,968 |
| `Reminders` | 2 grants, 2 handlers, periods of 3 days, window of 2, clock to 5, 1 fault of any kind, no channel | `ReminderSaysLess`, `NoDuplicateReminder`, `OnlyRenewedRowsAreRemindedEarly` | 646,354 |
| `Jobs` | both jobs, 2 grants, `/invite` (1 unused link at a time), clock to 4, 1 fault of any kind | `TypeOK`, `GrantInv`, `AccessIsPaidFor`, `ReminderSaysLess`, `SerialRenewalsKeepOneLiveRow`, `SerialRenewalsAreAdditive` | 1,490,333 |
| `Liveness` | 1 session, 1 screenshot, 2 handlers, 2 faults of any kind, fair | `SettledPaymentsAreRecorded`, `HandlersFinish`, `GrantedPayersAreTold`, `ImplementsLedger` | 75,951 |
| `Closing` | kick job, 2 grants for 2 payers of whom one is protected, clock to 4, 1 fault of any kind, fair | `OverdueRowsLeaveLive`, `OnlyCutRemovalsLeaveBans`, `AdministratorsStay`, `PayersKeepTheirPlace`, `OnlyRenewedRowsAreKickedEarly` | 250,260 |

What the newer ones show, in words:

* `ImplementsLedger`: seen through the committed tables, the sessions and the
  answered events, the bot *is* `PaymentLedger`, a ledger with six operations
  (settle, file, three ways to grant, answer). No interleaving, retry, rollback
  or crash yields a step the ledger does not have.
* `TimeIsPaidFor`, `PaidTimeIsKept`: a row's expiry against the payments on it,
  from both sides. No one has more time left than was paid for, whatever races.
  Without a race (with one it is `ClaimAdditive`) none is lost either: from the
  instant a payment is granted, its row lasts for its period and for that of each
  payment granted since, laid end to end. The bound starts at the grant, so a
  period lost late in the life of a row shows. `Manual` has two of the three paths
  of activation and a clock that moves; the proof has all three.
* `PayersAreToldOnce`: no second message, and no second link, for one payment,
  whether its event is delivered again or its button pressed twice.
* `PayersKeepTheirPlace`: the kick job looks for another live row, then asks
  Telegram, then bans. Whoever it takes out with time left has paid after it
  looked; the code cannot see such a payment, and this is the only way.
* `OnlyRenewedRowsAreKickedEarly`: a row is kicked before its expiry only if it
  was paid for after the job listed it. `ClaimRenewedNotKicked` shows that this
  happens; the property, that nothing else leads there.
* `AccessIsPaidFor`: links are handed out after a commit or by `/invite`, and
  used any time later; still no one enters who never paid. That a link can be
  used after its row has closed is how the code works, and allowed.
* `GrantedPayersAreTold`: a granted payment is confirmed to its payer, or it is in
  `untold`: its own message was refused, or its own handler ended between the
  COMMIT and the message. A link that cannot be created, an attempt rolled back
  before, or a fault elsewhere is no excuse.
* `NoDuplicateReminder`: the same reminder goes out twice only if the first one's
  record is missing, because the run was cut short right after it or because
  Telegram reported an error for a message that had arrived.
* `OnlyRenewedRowsAreRemindedEarly`: a row about to be moved to EXPIRING or
  reminded of has no more days left than were counted, unless it was paid for
  after the job listed it.
* `OnlyCutRemovalsLeaveBans`, `AdministratorsStay`: the code's two promises about
  removals ("nobody is left permanently banned", "never removed from the channel,
  full stop"), each with the one way in which the code breaks it named: a removal
  cut short by a crash or by an error of either call, and a ban after a look at
  the role that failed (`kick.blind`).
* `EveryLineNamesProvider`: the two statements of the report see two different
  databases. A confirmation may re-point a payment in between, but never away from
  a row that was live.
* `PromptHolds`, `OnePaymentPerPrompt`, `ThankedCanBeConfirmed`: the state is
  read at dispatch and cleared at the end; these say what survives in between.
* `QuestionsAreSpaced`: the cooldown is read before the message is forwarded and
  written after it. `lastForward` is what the admin really got, also from a handler
  that failed or crashed afterwards. Two questions come closer than the cooldown
  only if two messages overlapped, or after one whose record was cut short.

Why the bounds are enough: every hazard here is between two handlers, or a
handler and a job, on the same payment, placeholder or row. Two handlers with two
payments of one payer, plus a delivery of either that repeats, show each of them.
A third row appears where a placeholder and a duplicate live row must coexist
with the live one. The clock goes far enough for a row to be bought, reminded of,
renewed, overdue and closed. One fault is enough to separate any two consecutive
steps, and `Liveness` has two so that a retry may fail as well.

In `Conversations` one handler runs screenshots and presses (overlap comes from
the two questions, each with a handler of its own, and from handlers that still
have to clear the state), so an album is two screenshots in turn, before either
is cleared.

`raced` makes the renewal properties precise. A payer enters it when two
handlers with *different* payments are activating that payer's rows at once, or
when the reminder job's SELECT and UPDATE straddle a change of status. Without
such an overlap there is one live row per payer, every renewal adds its days to
what is in the database when it commits, and no reminder on record is said twice
in a cycle: without a race an expiry only grows, so the pair of an expiry and a
count of days does not come back. With an overlap the
code promises one row and additive renewals and keeps neither (see below), and
an expiry that is taken back may be reminded of again.

`disturbed` does the same for conversations. A user enters it when a message or
a prompt comes while another message of theirs is being handled, when a handler
of theirs is cut short, or when a crash takes an open prompt; a prompt given
while nothing is in hand is a fresh start and takes them out. An album thus
leaves two payments, two questions at once both reach the admin, and a prompt
opened while a reply is still on its way is wiped by it. The properties say that
nothing *else* does that.

Fairness (`FairSpec`): weak for each handler (the event loop runs ready
coroutines; a statement waiting for a lock goes on when it is free) and for each
job (APScheduler starts it every day, its Postgres jobstore survives restarts).
Stripe repeats an event until it gets a 200, and its fairness is strong: with two
handlers in the model, presses of the confirm button can keep both busy at every
instant of delivery, while the aiohttp server accepts any number of requests. No
payer or admin has to act, the clock need not advance, and faults are finite.

### Runs that show a broken promise

Each checks one sentence of the repository against what the code does.

| run | sentence | what happens |
|---|---|---|
| `ClaimDuplicateLive` | duplicates of live rows are "prevented" (`auto_kick.py:144-147`) | two purchases by a known payer without a live row overlap; each creates a row |
| `ClaimAdditive` | renewals are "genuinely additive" (`payment_service.py:69-70`) | two overlapping renewals of one row write the same expiry; a paid period is lost |
| `ClaimPaymentMeansActive` | never "a recorded payment with no access behind it" (`payment_service.py:120-122`) | the kick job writes `expired` between a renewal's SELECT and UPDATE; the renewal's UPDATE has no status column |
| `ClaimRenewedNotKicked` | a renewed candidate is skipped (`auto_kick.py:159-160`) | the candidate was listed as ACTIVE, is renewed, is ACTIVE again: all three hops are valid |
| `ClaimRenewalResetsReminders` | the count is reset "on every renewal" (`models.py:79-81`) | a reminder is recorded between a renewal's SELECT and its UPDATE, which leaves the column out because it read NULL |

The code also behaves as follows; the model has all of it, and where a property
says "only", this is what it leaves open. A crash between a COMMIT and the DM, or a
refused DM, leaves a payer untold: the retry answers "already processed" without a
DM (`untold`). A crash between the EXPIRED and the KICKED commit leaves the row
EXPIRED for good, since `list_expired` lists only ACTIVE and EXPIRING. A crash
between a reminder and its record, or a lost answer to it, repeats the reminder
(`unrecorded`). A failed unban, a crash before it, or an error reported for a ban
that took effect, leaves the ban (`auto_kick.py:6-8`, `leftBanned`). A failed
membership lookup lets an administrator be removed (`auto_kick.py:8-9`,
`kick.blind`). A question that was forwarded while its record failed, or was cut
off by a crash, does not count for the limit (`unlogged`). A resubscriber with only a KICKED row gets a new one
(`README.md:27-28` has `KICKED -> ACTIVE`). A confirmed screenshot brings no
invite link (`README.md:5`); the message says the admin adds the payer by hand.
A question whose reply cannot be sent leaves the prompt open.

### Mutants

Definitions marked `\* Mutant:` are not part of the model. Each is a plausible
bug in the definition that follows it (no unique constraint, no `FOR UPDATE`, a
filter forgotten, an off-by-one). With it in place of the original, TLC finds the
corresponding property violated under the same configuration; the pairs are in
`PROJECT.json`.

## 4. What is proved

For any sets of payers, rows, sessions, screenshots, questions and handlers, any
number of faults of any kind, any cooldown and any clock:

| module | theorem | statement |
|---|---|---|
| `SubscriptionSystemProofs` | `GrantInvHolds` | `Spec => []GrantInv` |
| | `TypeCorrect` | `Spec => []TypeOK` |
| | `GrantedOnce` | `Spec => []PaymentGrantsOnce` |
| | `PaymentsBacked` | `Spec => []PaymentBacksAccess` |
| | `LockedUnprocessed` | `Spec => []LockedPlaceholderIsUnprocessed` |
| | `DaysRemainingIsLeast` | `DaysRemaining(n, e)` is the least d >= 1 with e <= n + d * `Day` |
| `PayerProofs` | `PayerInvHolds` | `Spec => []PayerInv` |
| | `AckedRecorded` | `Spec => []AckedMeansRecorded` |
| | `SettledGrants` | `Spec => []OnlySettledSessionsGrant` |
| | `PaidForPayer` | `Spec => []PaymentBelongsToPayer` |
| | `OrphansStay` | `Spec => OrphanPlaceholdersStayPending` |
| `AccessProofs` | `AccessInvHolds` | `Spec => []AccessInv` |
| | `AccessPaidFor` | `Spec => []AccessIsPaidFor` |
| | `ReportImplementsSpec` | `ReportSpec => Spec` |
| | `LinesNameProvider` | `ReportSpec => []EveryLineNamesProvider` |
| | `ReportTyped` | `ReportSpec => []ReportTypeOK` |
| | `AdministratorsKept` | `Spec => AdministratorsStay` |
| | `ToldInvHolds` | `Spec => []ToldInv` |
| | `ToldOnce` | `Spec => []PayersAreToldOnce` |
| | `BansAreInHand` | `Spec => []OnlyCutRemovalsLeaveBans` |
| `LedgerProofs` | `LedgerImplemented` | `Spec => ImplementsLedger` |
| `SerialProofs` | `SerialInvHolds` | `Spec => []SerialInv` |
| | `OneLiveRow` | `Spec => []SerialRenewalsKeepOneLiveRow` |
| `RenewalProofs` | `FreshReadsHolds` | `Spec => []FreshReads` |
| | `RenewalsAddUp` | `Spec => SerialRenewalsAreAdditive` |
| | `TimeInvHolds` | `Spec => []TimeInv` |
| | `NoTimeForFree` | `Spec => []TimeIsPaidFor` |
| | `NoTimeLost` | `Spec => []PaidTimeIsKept` |
| | `KeepInvHolds` | `Spec => []KeepInv` |
| | `PayersKept` | `Spec => PayersKeepTheirPlace` |
| | `LapseInvHolds` | `Spec => []LapseInv` |
| | `KickedHaveRunOut` | `Spec => OnlyRenewedRowsAreKickedEarly` |
| `ReminderProofs` | `ReminderInvHolds` | `Spec => []ReminderInv` |
| | `RemindersSayLess` | `Spec => []ReminderSaysLess` |
| | `OnceInvHolds` | `Spec => []OnceInv` |
| | `RemindedOnce` | `Spec => []NoDuplicateReminder` |
| | `DueInvHolds` | `Spec => []DueInv` |
| | `RemindersAreDue` | `Spec => []OnlyRenewedRowsAreRemindedEarly` |
| `ConversationProofs` | `SpacingInvHolds` | `ConversationSpec => []SpacingInv` |
| | `QuestionsSpaced` | `ConversationSpec => QuestionsAreSpaced` |
| | `ConversationsImplementSpec` | `ConversationSpec => Spec` |
| | `BotInvsHold` | `ConversationSpec => [](GrantInv /\ PayerInv)` |
| | `PromptInvHolds` | `ConversationSpec => []PromptInv` |
| | `ConversationTypesHold` | `ConversationSpec => []ConversationTypeOK` |
| | `PromptsHold` | `ConversationSpec => []PromptHolds` |
| | `OnePaymentEach` | `ConversationSpec => []OnePaymentPerPrompt` |
| | `ThankedAreConfirmable` | `ConversationSpec => []ThankedCanBeConfirmed` |

Assumptions: only the ones the modules declare on their constants (`None` is no
instant and no id, the three kinds of refs are disjoint, days and periods are
positive, `Payer`, `Sender` and `Asker` are functions of their type). TLC
evaluates them in every run. No theorem assumes a fault away: every one holds
with crashes, failed statements, and refused or unanswered calls.

`PaymentGrantsOnce` is not inductive: that a commit grants a payment for the
first time depends on what the handler checked several awaits earlier.
`GrantInv` (`SubscriptionInvariants`) records that:

* `LocalsOK`: which local variables are set at which await;
* `RowsOK`: a pending row has neither expiry nor reminder, an opened one has an
  owner and an expiry;
* `ChosenRow`: the row about to be activated is reserved by this handler alone,
  or opened and its payer's, or the placeholder it holds;
* `Confirmation`: who holds a placeholder `FOR UPDATE` is alone with it, it is
  still pending and still owns an ungranted payment;
* `Screenshot`: a placeholder between its commit and its payment's is known to
  one handler only;
* `Recording`: at most one handler is past the INSERT of a given payment, and
  the payment is not committed yet;
* `JobShape`: rows in a job's hands have been opened (this is what makes the
  jobs' blind UPDATEs harmless to the ledger);
* `Ledger`: `grants`, `payments` and row states agree, and no two payments
  share a pending row.

`PayerInv`, inductive with `GrantInv`, adds where the money comes from:

* `Carries`: a handler activating a session carries its payer and a settled
  session, one saving a screenshot its sender, and one that reports on a session
  has a recorded payment behind it;
* `Owned`: a recorded payment is on a row of its payer, and a session's has
  settled;
* `Answered`: an event answered with 200 was emitted, and if it says "paid" its
  payment is recorded. This is where the order of Stripe's events matters: what
  an emitted event says never turns into "paid" later (`CustomerActsPayer`).

Its proof rests on no step changing the owner of a row (`RowsKept`).

The proof of `GrantInv` has one lemma per action (`<Action>Step`), on top of frame lemmas: what
a step of one handler must show so that `GrantInv` holds of the others
(`TaskMoves`, `OtherKept`), and the same for the jobs (`JobMoves`, `WarnMoves`,
`KickMoves`, `JobWrites`). The arithmetic and the partial UPDATE are confined to
`RenewedExpiresAtType`, `DaysRemainingType`, `FlushType`, `ActivatedRow` and
`MovedRow`.

The other invariants stand on these two.

* `AccessInv`: every opened row has a granted payment, and everyone in the
  channel, holding a link, or in a handler that is about to hand one out, is the
  owner of one. It needs `Buys` and `Files`: every step of the system that
  writes a payment either files a screenshot on its sender's placeholder or buys
  a period, and all other steps are `Quiet`.
* The refinement is a step simulation on the same three kinds of steps:
  `Init` maps to the ledger's, a step that buys or files is a ledger step, and a
  quiet step is one of Stripe's side or none. `AccountKept` shows that no
  payment changes its owner, `PayerInv` that the ledger's guards hold.
* `SerialInv`: besides one live row, that whoever is past the choice of a row has
  chosen the only live one (`ChosenAlone`; all handlers at work for the payer
  carry the same payment) and that the kick job's EXPIRING hop does not revive a
  row (`HopStaysLive`).
* `FreshReads`, from `SerialInv`: whoever is about to commit has read the expiry
  that is in the database, because only activations write it (`ExpiriesElsewhere`).
* `TimeInv`: neither a row nor what a handler has read of the row it is about to
  activate is ahead of the payments on it; the read may be old, so the second
  half is needed. An activation is `Buys` seen from the row: it adds one payment
  to `Bought(r)` and one period to an expiry that was covered (`CommitBuys`,
  `CommitAddsPeriod`), and no other step writes an expiry (`ExpiriesStay`).
* `PaidInv`: `PaidTimeIsKept`, and that every payment granted was granted by now.
  A commit adds a period to the expiry in the database (`FreshReads`), one more
  payment to those since each earlier grant, and starts its own count at an instant
  no later than that expiry (`CommitKeepsPaidTime`).
* `KeepInv`: until the ban, a live row of the user with time left has a payment
  the job did not see. An expiry only comes from an activation
  (`WaitingKeepsPlace`), and when the job looked there was no such row
  (`LookingFindsNone`): for a payer without races the latest live row is the only
  one (`SerialInv`).
* `LapseInv`, beside `KeepInv`: a candidate's row has run out or has a payment
  granted after it was listed (`RunOut`). Time passes and only an activation
  writes an expiry, with a payment that had not been granted (`StaysRunOut`); and
  only the job's last hop writes `kicked` (`KickedByHop`). It needs of `KeepInv`
  that what the job noted as granted stays granted (`NotedStaysGranted`).
* `ToldInv`: only granted payments are confirmed, each by one handler and to a
  payer not yet told of it; and every granted payment is told, untold, or with a
  handler that is about to tell. Apart from the two COMMITs, the DM and what cuts a
  handler short no step grants, tells or gives up (`TellingSteps`, `GivesUp`). The
  last conjunct is the safety half of `GrantedPayersAreTold`.
* `OnlyCutRemovalsLeaveBans` is inductive beside `GrantInv` (`BanSteps`: who bans,
  who unbans, and what a step that ends a removal leaves behind).
* `ReminderInv`: a candidate's count is the row's, or the row's was reset since;
  nobody is a candidate twice. No step but `RecordReminder` raises a count.
* `OnceInv`, from `ReminderInv` and `FreshReads`: the reminders delivered and not
  left unrecorded (`OnFile`) that speak of a row's present expiry are on its
  record, or about to be (`RemindersOnRecord`); a candidate was listed with that
  record (`CandidatesKnow`); the reminder under way is new (`NewReminder`). It
  rests on `RenewalAges`: a renewal without a race moves the expiry forward, so
  old reminders speak of an expiry that is gone; and on `WarnMovers`: whatever cuts
  the job short takes the reminder under way off `OnFile`.
* `DueInv`: a candidate's row has the expiry it was listed with, or less, or a
  payment granted since (`ExpiryStaysUntilPaid`); so the count of days taken from
  it reaches the expiry for as long as the job works on the row
  (`DaysRemainingIsLeast`, and the clock only moves on).
* `BanInv`: unless the lookup failed, nobody protected is about to be banned;
  and only a ban takes anyone out of the channel (`MembersLeaveByBan`).
* `SpacingInv`: what the limit found still holds when the message goes out
  (`LimitStillHolds`), and whatever the admin got is on record, about to be, or
  unlogged (`ForwardsAreRecorded`).
* `PromptInv`: a user not disturbed is either waited for, with the state set, or
  being handled, never both, and has sent at most one screenshot since the prompt.
* `ThankInv`: `Confirmable` for those thanked, and for those about to be, what a
  screenshot's handler has saved so far.

What is proved of `Spec` holds of the report and of the conversations because
both implement it. `ReportImplementsSpec` is immediate. For
`ConversationsImplementSpec`, `ConversationStepIsNext` takes the steps one by
one: a step of the bot is a step of the system; a question's first statement is
`RegisterUser` or changes nothing; a fault of a question's handler is
`OtherHandlerFails`; prompts, replies and the clearing of the state leave the
system as it was.

Only model-checked: the liveness properties (`SettledPaymentsAreRecorded`,
`HandlersFinish`, `GrantedPayersAreTold`, `OverdueRowsLeaveLive`), which like everything about ENABLED are out of the prover's
reach. Every other property of a passing run is a theorem.

## 5. Not modelled, and why

* Menus, keyboards, prices, texts, configuration: no state. `/my_subscription`
  and the menus read one row by a query that is modelled, and write nothing.
* The creation of a checkout session: an HTTP call with the payer's id as
  `client_reference_id`, which is the constant `Payer`.
* Alembic migrations, Docker, Caddy: not part of the running bot.
* The DM that closes an access (`auto_kick.py:202-209`), the name and channel
  lookups of the report and the caption edit of the confirm button: nothing
  depends on them. A press may be under way when the button disappears, so the
  model lets any number of presses come.
* How `/activate` and `/invite` find their target (an id or a forwarded message):
  the target is any user.
* `DRY_RUN_KICK` is modelled (`DryRunKick`) but no run sets it.

## 6. Plan

Done: the core (domain, database, payment service, channel access, webhook,
manual payments, jobs, system), `/invite`, the abstract ledger and its
refinement, the report, the conversations with the question limit, and proofs of
every safety property that a run checks.

What remains:

1. The converse of the other claims, as `OnlyRenewedRowsAreKickedEarly` is of
   `ClaimRenewedNotKicked`: which overlaps leave a payment on a closed row, or an
   old reminder on a renewed one.
2. A larger `Conversations` instance with two users, a channel and the jobs.

No handler waits in a circle, by the order of the statements: whoever waits for
a `users` row or a lock holds nothing, and whoever waits for a payment's key does
so for a handler whose next step is its COMMIT. What `HandlersFinish` adds is
that no handler is overtaken for ever, which is not a matter of safety.
