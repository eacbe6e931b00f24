----------------------------- MODULE SerialProofs -----------------------------
(***************************************************************************)
(* One live row per payer, for any number of payers, rows and handlers: no *)
(* renewal, confirmation or job makes a second one unless two activations  *)
(* of different payments, or a job and a renewal, ran at once on the row.  *)
(***************************************************************************)
EXTENDS PayerProofs

\* No handler chooses a row or changes its mind.
ChoicesKept ==
    \A t \in Task : Activating(t)' =>
        /\ Activating(t) /\ (Undecided(t)' => Undecided(t))
        /\ task'[t].ref = task[t].ref /\ task'[t].user = task[t].user
        /\ task'[t].sub = task[t].sub /\ task'[t].row = task[t].row

\* No payer without races gets a live row.
LiveKept == \A u \in TelegramId : u \notin raced' => LiveOf(u)' \subseteq LiveOf(u)

LEMMA SerialKept ==
    ASSUME GrantInv, SerialRenewalsKeepOneLiveRow, ChosenAlone, ChoicesKept, LiveKept,
           raced \subseteq raced'
    PROVE  SerialRenewalsKeepOneLiveRow' /\ ChosenAlone'
<1>1. SerialRenewalsKeepOneLiveRow'
  <2> SUFFICES ASSUME NEW u \in TelegramId, u \notin raced',
                      NEW r1 \in LiveOf(u)', NEW r2 \in LiveOf(u)'
               PROVE  r1 = r2
    BY DEF SerialRenewalsKeepOneLiveRow, UsersWithMultipleLive
  <2>1. r1 \in LiveOf(u) /\ r2 \in LiveOf(u) /\ u \notin raced
    BY DEF LiveKept
  <2> QED
    BY <2>1 DEF SerialRenewalsKeepOneLiveRow, UsersWithMultipleLive
<1>2. \A t \in Task : Activating(t) => task[t].user \in TelegramId
  BY DEF GrantInv, HandlerOK, LocalsOK, Activating, ServiceLabels, LockingLabels
<1>3. ChosenAlone'
  <2> SUFFICES ASSUME NEW t \in Task, task'[t].user \notin raced'
               PROVE  /\ Undecided(t)' => LiveOf(task[t].user)' \subseteq {task'[t].sub}
                      /\ \A other \in Task :
                            Activating(t)' /\ Activating(other)' /\ task'[other].user = task'[t].user
                               => task'[other].ref = task'[t].ref
    BY DEF ChosenAlone
  <2>1. Undecided(t)' => Activating(t)'
    BY DEF Undecided, Activating, At
  <2>2. ASSUME Undecided(t)' PROVE LiveOf(task[t].user)' \subseteq {task'[t].sub}
    <3>1. PICK u \in TelegramId : u = task[t].user
      BY <1>2, <2>1, <2>2 DEF ChoicesKept
    <3>2. task'[t].user = u /\ task'[t].sub = task[t].sub /\ Undecided(t)
      BY <2>1, <2>2, <3>1 DEF ChoicesKept
    <3>3. LiveOf(u)' \subseteq LiveOf(u) /\ LiveOf(u) \subseteq {task[t].sub}
      BY <3>1, <3>2 DEF LiveKept, ChosenAlone
    <3>4. LiveOf(task[t].user)' = LiveOf(u)'
      BY <3>2 DEF LiveOf
    <3> QED
      BY <3>2, <3>3, <3>4
  <2>3. ASSUME NEW other \in Task, Activating(t)', Activating(other)',
               task'[other].user = task'[t].user
        PROVE  task'[other].ref = task'[t].ref
    BY <2>3 DEF ChoicesKept, ChosenAlone
  <2> QED
    BY <2>2, <2>3
<1> QED
  BY <1>1, <1>3

-----------------------------------------------------------------------------
(* Handlers.                                                               *)

\* A handler that is not activating when it moves has no part in this.
LEMMA OneMoves ==
    ASSUME task \in [Task -> TaskRecord], NEW t \in Task, NEW next,
           task' = [task EXCEPT ![t] = next],
           next.pc \notin {"insert_payment", "activate", "confirm_activate"},
           \A p \in Ref : payments[p] # None => payments'[p] # None,
           \A o \in Task : Activating(o) => task[o].ref \in Ref
    PROVE  ChoicesKept
<1>1. task'[t] = next /\ \A o \in Task \ {t} : task'[o] = task[o]
  OBVIOUS
<1>2. ~Activating(t)'
  BY <1>1 DEF Activating
<1> QED
  BY <1>1, <1>2 DEF ChoicesKept, Activating, Undecided, At

\* The steps that choose a row, record a payment or commit.
Deciding ==
    \E t \in Task :
        \/ FindOrCreateSubscription(t) \/ FindRenewable(t)
        \/ CreatePayment(t) \/ ActivateSubscription(t) \/ ConfirmManualPayment(t)

\* What any step does to the task of one handler, or to all.
LEMMA TasksElsewhere ==
    ASSUME GrantInv, [Next]_vars, ~Deciding
    PROVE  /\ UNCHANGED task \/ (\E t \in Task : \E next :
                 /\ task' = [task EXCEPT ![t] = next]
                 /\ next.pc \notin {"insert_payment", "activate", "confirm_activate"})
              \/ task' = [t \in Task |-> IdleTask]
           /\ \A p \in Ref : payments[p] # None => payments'[p] # None
<1> DEFINE Moves(t) == \E next :
                 /\ task' = [task EXCEPT ![t] = next]
                 /\ next.pc \notin {"insert_payment", "activate", "confirm_activate"}
<1>0. task \in [Task -> TaskRecord] /\ payments \in [Ref -> SubId \cup {None}]
      /\ \A t \in Task : LocalsOK(t)
  BY DEF GrantInv, TypeOK, ServiceTypeOK, DatabaseTypeOK, HandlerOK
<1>1. ASSUME NEW t \in Task, NEW label, Goto(t, label),
             label \notin {"insert_payment", "activate", "confirm_activate"}
      PROVE  Moves(t)
  <2> DEFINE next == [task[t] EXCEPT !.pc = label]
  <2>1. task' = [task EXCEPT ![t] = next] /\ next.pc = label
    BY <1>0, <1>1 DEF Goto, TaskRecord
  <2> HIDE DEF next
  <2> QED
    BY <1>1, <2>1
<1>2. ASSUME NEW t \in Task, NEW label, NEW p, NEW u, NEW r,
             task' = [task EXCEPT ![t] = Starting(label, p, u, r)],
             label \notin {"insert_payment", "activate", "confirm_activate"}
      PROVE  Moves(t)
  <2> DEFINE next == Starting(label, p, u, r)
  <2>1. task' = [task EXCEPT ![t] = next] /\ next.pc = label
    BY <1>2 DEF Starting
  <2> HIDE DEF next
  <2> QED
    BY <1>2, <2>1
<1>3. ASSUME NEW t \in Task, End(t) PROVE Moves(t)
  <2>1. task' = [task EXCEPT ![t] = Starting("idle", None, None, None)]
    BY <1>3 DEF End, IdleTask
  <2> QED
    BY <1>2, <2>1
<1> HIDE DEF Moves
<1>4. CASE WorldNext \/ WarningsNext \/ KickNextStep \/ UNCHANGED vars
  BY <1>4 DEF WorldNext, AdvanceClock, JoinChannel, RegisterUser, CustomerActs, WarningsNext,
      WarningsStep, StartWarnings, WarnNext, ReadForExpiring, MarkExpiring, RefreshMarked,
      SendReminder, RecordReminder, KickNextStep, KickStep, StartAutoKick, KickNext, ReadHop,
      WriteHop, FindOtherLive, CheckMember, BanMember, UnbanMember, vars, serviceVars,
      databaseVars
<1>5. ASSUME NEW s \in Session, NEW type \in EventType, WebhookNext(s, type)
      PROVE  UNCHANGED payments /\ (UNCHANGED task \/ \E t \in Task : Moves(t))
  BY <1>2, <1>5 DEF WebhookNext, AcknowledgeEvent, BeginStripeActivation, BeginActivation,
      serviceVars, databaseVars
<1>6. CASE RequestNext
  <2>1. UNCHANGED payments /\ \E t \in Task : Moves(t)
    BY <1>2, <1>6 DEF RequestNext, ReceiveScreenshot, PressConfirm, AdminActivate, AdminInvite,
        BeginActivation, databaseVars
  <2> QED
    BY <2>1 DEF Moves
<1>7. ASSUME NEW t \in Task, HandlerNext(t)
      PROVE  Moves(t) /\ \A p \in Ref : payments[p] # None => payments'[p] # None
  <2>1. CASE GetOrCreateUser(t)
    BY <1>1, <2>1 DEF GetOrCreateUser, databaseVars
  <2>2. CASE LockPlaceholder(t)
    <3>1. UNCHANGED payments
      BY <2>2 DEF LockPlaceholder, databaseVars
    <3>2. End(t) \/ \E next : task' = [task EXCEPT ![t] = next] /\ next.pc = "find_renewable"
      <4>1. ASSUME NEW p, NEW u, NEW row,
                   task' = [task EXCEPT ![t].pc = "find_renewable", ![t].ref = p,
                                        ![t].user = u, ![t].row = row]
            PROVE  \E next : task' = [task EXCEPT ![t] = next] /\ next.pc = "find_renewable"
        <5> DEFINE next == [task[t] EXCEPT !.pc = "find_renewable", !.ref = p, !.user = u, !.row = row]
        <5>1. task' = [task EXCEPT ![t] = next] /\ next.pc = "find_renewable"
          BY <1>0, <4>1 DEF TaskRecord
        <5> HIDE DEF next
        <5> QED
          BY <5>1
      <4>2. CASE End(t)
        BY <4>2
      <4>3. CASE ~End(t)
        <5>1. PICK p : task' = [task EXCEPT ![t].pc = "find_renewable", ![t].ref = p,
                                            ![t].user = subs[task[t].pending].user,
                                            ![t].row = subs[task[t].pending]]
          BY <2>2, <4>3 DEF LockPlaceholder
        <5> QED
          BY <4>1, <5>1
      <4> QED
        BY <4>2, <4>3
    <3> QED
      BY <1>3, <3>1, <3>2 DEF Moves
  <2>3. CASE CreateInviteLink(t) \/ SendConfirmation(t) \/ RespondOK(t)
    BY <1>1, <1>3, <2>3 DEF CreateInviteLink, SendConfirmation, RespondOK, databaseVars
  <2>4. CASE SaveUser(t) \/ ForwardScreenshot(t) \/ ThankSender(t) \/ InviteStep(t)
    BY <1>1, <1>3, <2>4 DEF SaveUser, ForwardScreenshot, ThankSender, InviteStep,
        CreateFreshLink, SendFreshLink, databaseVars
  <2>5. CASE SavePlaceholder(t)
    <3>1. PICK r : task' = [task EXCEPT ![t].pc = "save_payment", ![t].pending = r]
      BY <2>5 DEF SavePlaceholder
    <3> DEFINE next == [task[t] EXCEPT !.pc = "save_payment", !.pending = r]
    <3>2. task' = [task EXCEPT ![t] = next] /\ next.pc = "save_payment"
      BY <1>0, <3>1 DEF TaskRecord
    <3> HIDE DEF next
    <3> QED
      BY <2>5, <3>2 DEF Moves, SavePlaceholder
  <2>6. CASE SavePayment(t)
    <3>1. task[t].pending \in SubId /\ task[t].pending # None
      BY <1>0, <2>6, DatabaseAssumption DEF SavePayment, At, LocalsOK
    <3> QED
      BY <1>0, <1>1, <2>6, <3>1 DEF SavePayment
  <2> QED
    BY <1>7, <2>1, <2>2, <2>3, <2>4, <2>5, <2>6 DEF HandlerNext, ActivationStep, AccessStep,
        ScreenshotStep, Deciding
<1>8. CASE FailureNext
  <2>1. UNCHANGED payments /\ (UNCHANGED task \/ \E t \in Task : Moves(t))
    BY <1>3, <1>8 DEF FailureNext, TransactionFails, WarningsFail, KickFails, OtherHandlerFails, serviceVars,
        databaseVars
  <2> QED
    BY <2>1 DEF Moves
<1>9. CASE Crash
  BY <1>9 DEF Crash, databaseVars
<1> QED
  BY <1>4, <1>5, <1>6, <1>7, <1>8, <1>9 DEF Next, RunningNext, Moves

LEMMA ChoicesElsewhere ==
    ASSUME GrantInv, [Next]_vars, ~Deciding
    PROVE  ChoicesKept
<1>1. /\ task \in [Task -> TaskRecord]
      /\ \A o \in Task : Activating(o) => task[o].ref \in Ref
  BY DEF GrantInv, TypeOK, ServiceTypeOK, HandlerOK, LocalsOK, Activating, ServiceLabels,
      LockingLabels, Ref
<1>2. \A p \in Ref : payments[p] # None => payments'[p] # None
  BY TasksElsewhere
<1>3. CASE UNCHANGED task
  BY <1>1, <1>2, <1>3 DEF ChoicesKept, Activating, Undecided, At
<1>4. CASE task' = [t \in Task |-> IdleTask]
  BY <1>4 DEF ChoicesKept, Activating, IdleTask, Starting
<1>5. ASSUME NEW t \in Task, NEW next, task' = [task EXCEPT ![t] = next],
             next.pc \notin {"insert_payment", "activate", "confirm_activate"}
      PROVE  ChoicesKept
  BY <1>1, <1>2, <1>5, OneMoves
<1> QED
  BY <1>3, <1>4, <1>5, TasksElsewhere

\* The INSERT of the payment decides nothing that was not decided before.
LEMMA CreatePaymentChoices ==
    ASSUME GrantInv, NEW t \in Task, CreatePayment(t)
    PROVE  ChoicesKept
<1>1. task \in [Task -> TaskRecord] /\ UNCHANGED payments
  BY DEF GrantInv, TypeOK, ServiceTypeOK, CreatePayment, databaseVars
<1>2. CASE Goto(t, "activate") /\ payments[task[t].ref] = None
  <2>1. /\ task'[t] = [task[t] EXCEPT !.pc = "activate"] /\ task[t] \in TaskRecord
        /\ \A o \in Task \ {t} : task'[o] = task[o]
    BY <1>1, <1>2 DEF Goto
  <2>2. /\ task'[t].pc = "activate" /\ task'[t].ref = task[t].ref
        /\ task'[t].user = task[t].user /\ task'[t].sub = task[t].sub
        /\ task'[t].row = task[t].row
    BY <2>1 DEF TaskRecord
  <2>3. task[t].pc = "insert_payment"
    BY DEF CreatePayment, At
  <2> QED
    BY <1>1, <1>2, <2>1, <2>2, <2>3 DEF ChoicesKept, Activating, Undecided, At
<1>3. CASE task' = [task EXCEPT ![t] = Starting("duplicate", task[t].ref, None, None)]
  <2>1. task'[t].pc = "duplicate" /\ \A o \in Task \ {t} : task'[o] = task[o]
    BY <1>1, <1>3 DEF Starting
  <2> QED
    BY <1>1, <2>1 DEF ChoicesKept, Activating, Undecided, At
<1> QED
  BY <1>2, <1>3 DEF CreatePayment

\* Whoever chooses a row sees every other choice for the payer, or marks a race.
LEMMA ChoosingKeepsSerial ==
    ASSUME GrantInv, SerialRenewalsKeepOneLiveRow, ChosenAlone, NEW t \in Task,
           NEW r, NEW row, NEW label \in {"insert_payment", "confirm_activate"},
           ChooseRow(t, r, row, label), UNCHANGED <<subs, payments>>,
           task[t].user \notin raced => LiveOf(task[t].user) \subseteq {r}
    PROVE  SerialRenewalsKeepOneLiveRow' /\ ChosenAlone' /\ raced \subseteq raced'
<1>1. /\ task[t] \in TaskRecord
      /\ task'[t] = [task[t] EXCEPT !.pc = label, !.sub = r, !.row = row]
      /\ \A o \in Task \ {t} : task'[o] = task[o]
  BY DEF GrantInv, TypeOK, ServiceTypeOK, ChooseRow
<1>2. /\ task'[t].pc = label /\ task'[t].sub = r
      /\ task'[t].ref = task[t].ref /\ task'[t].user = task[t].user
  BY <1>1 DEF TaskRecord
<1>3. raced \subseteq raced'
  BY DEF ChooseRow, NoteRace
<1>4. SerialRenewalsKeepOneLiveRow'
  BY <1>3 DEF SerialRenewalsKeepOneLiveRow, UsersWithMultipleLive, LiveOf
<1>5. ASSUME NEW o \in Task, o # t, Activating(o), task[o].user = task[t].user,
             task[t].user \notin raced'
      PROVE  task[o].ref = task[t].ref
  <2>1. CASE task[o].ref # task[t].ref
    <3>1. raced' = raced \cup {task[t].user}
      BY <1>5, <2>1 DEF ChooseRow, NoteRace
    <3> QED
      BY <1>5, <3>1
  <2> QED
    BY <2>1
<1>6. ChosenAlone'
  <2> SUFFICES ASSUME NEW a \in Task, task'[a].user \notin raced'
               PROVE  /\ Undecided(a)' => LiveOf(task[a].user)' \subseteq {task'[a].sub}
                      /\ \A o \in Task :
                            Activating(a)' /\ Activating(o)' /\ task'[o].user = task'[a].user
                               => task'[o].ref = task'[a].ref
    BY DEF ChosenAlone
  <2>1. ASSUME Undecided(a)' PROVE LiveOf(task[a].user)' \subseteq {task'[a].sub}
    <3>1. LiveOf(task[a].user)' = LiveOf(task[a].user)
      BY <1>1, <1>2 DEF LiveOf
    <3>2. CASE a = t
      BY <1>2, <1>3, <3>1, <3>2
    <3>3. CASE a # t
      BY <1>1, <1>3, <2>1, <3>1, <3>3 DEF ChosenAlone, Undecided, At
    <3> QED
      BY <3>2, <3>3
  <2>2. ASSUME NEW o \in Task, Activating(a)', Activating(o)', task'[o].user = task'[a].user
        PROVE  task'[o].ref = task'[a].ref
    <3>1. CASE a = t
      BY <1>1, <1>2, <1>5, <2>2, <3>1 DEF Activating
    <3>2. CASE a # t /\ o = t
      BY <1>1, <1>2, <1>5, <2>2, <3>2 DEF Activating
    <3>3. CASE a # t /\ o # t
      BY <1>1, <1>3, <2>2, <3>3 DEF ChosenAlone, Activating
    <3> QED
      BY <3>1, <3>2, <3>3
  <2> QED
    BY <2>1, <2>2
<1> QED
  BY <1>3, <1>4, <1>6

LEMMA FindingKeepsSerial ==
    ASSUME GrantInv, SerialRenewalsKeepOneLiveRow, ChosenAlone, NEW t \in Task,
           FindOrCreateSubscription(t) \/ FindRenewable(t)
    PROVE  SerialRenewalsKeepOneLiveRow' /\ ChosenAlone' /\ raced \subseteq raced'
<1>1. UNCHANGED <<subs, payments>>
  BY DEF FindOrCreateSubscription, FindRenewable, databaseVars
<1>2. PICK u \in TelegramId : u = task[t].user
  <2>1. task[t].pc \in {"find_live", "find_renewable"} /\ LocalsOK(t)
    BY DEF GrantInv, HandlerOK, FindOrCreateSubscription, FindRenewable, At
  <2> QED
    BY <2>1 DEF LocalsOK, ServiceLabels, LockingLabels
<1>3. ASSUME NEW r \in SubId, IsLatestLive(r, u), u \notin raced PROVE LiveOf(u) \subseteq {r}
  BY <1>3 DEF IsLatestLive, SerialRenewalsKeepOneLiveRow, UsersWithMultipleLive
<1>4. ASSUME NEW r, NEW row, NEW label \in {"insert_payment", "confirm_activate"},
             ChooseRow(t, r, row, label), LiveOf(u) = {} \/ (r \in SubId /\ IsLatestLive(r, u))
      PROVE  SerialRenewalsKeepOneLiveRow' /\ ChosenAlone' /\ raced \subseteq raced'
  <2>1. task[t].user \notin raced => LiveOf(task[t].user) \subseteq {r}
    BY <1>2, <1>3, <1>4
  <2> QED
    BY <1>1, <1>4, <2>1, ChoosingKeepsSerial
<1>5. CASE FindOrCreateSubscription(t)
  <2>1. CASE \E r \in SubId : IsLatestLive(r, u) /\ ChooseRow(t, r, subs[r], "insert_payment")
    BY <1>4, <2>1
  <2>2. CASE LiveOf(u) = {} /\ \E r \in FreeIds : ChooseRow(t, r, PendingRow(u), "insert_payment")
    BY <1>4, <2>2
  <2> QED
    BY <1>2, <1>5, <2>1, <2>2 DEF FindOrCreateSubscription
<1>6. CASE FindRenewable(t)
  <2>1. CASE \E r \in SubId : IsLatestLive(r, u) /\ ChooseRow(t, r, subs[r], "confirm_activate")
    BY <1>4, <2>1
  <2>2. CASE LiveOf(u) = {} /\ ChooseRow(t, task[t].pending, task[t].row, "confirm_activate")
    BY <1>4, <2>2
  <2> QED
    BY <1>2, <1>6, <2>1, <2>2 DEF FindRenewable
<1> QED
  BY <1>5, <1>6

\* A commit settles its payment: nobody else of the payer is still to commit.
LEMMA CommitAlone ==
    ASSUME GrantInv, ChosenAlone, NEW t \in Task,
           ActivateSubscription(t) \/ ConfirmManualPayment(t)
    PROVE  /\ \A o \in Task \ {t} : task'[o] = task[o]
           /\ task'[t].pc \in {"create_link", "notify"}
           /\ \A q \in Ref : payments[q] # None => payments'[q] # None
           /\ \A o \in Task : /\ Undecided(o)'
                              /\ task[o].user = task[t].user /\ task[t].user \notin raced
                              => o = t
<1>1. /\ task[t].pc \in {"activate", "confirm_activate"} /\ WriteActivation(t)
      /\ Activating(t) /\ Undecided(t)
  BY DEF ActivateSubscription, ConfirmManualPayment, At, Activating, Undecided
<1>2. /\ payments \in [Ref -> SubId \cup {None}] /\ task \in [Task -> TaskRecord]
      /\ LocalsOK(t) /\ Confirmation(t) /\ Recording(t)
      /\ \A o \in Task : LocalsOK(o) /\ Confirmation(o) /\ Recording(o)
  BY DEF GrantInv, TypeOK, ServiceTypeOK, DatabaseTypeOK, HandlerOK
<1>3. PICK r \in SubId : r = task[t].sub
  BY <1>1, <1>2 DEF LocalsOK
<1>4. PICK u \in TelegramId : u = task[t].user
  BY <1>1, <1>2 DEF LocalsOK, ServiceLabels, LockingLabels
<1>5. PICK p \in Ref : p = task[t].ref
  BY <1>1, <1>2 DEF LocalsOK, ServiceLabels, LockingLabels, Ref
<1>6. /\ \A o \in Task \ {t} : task'[o] = task[o]
      /\ task'[t].pc \in {"create_link", "notify"}
  BY <1>2 DEF ActivateSubscription, ConfirmManualPayment, Goto, TaskRecord
<1>7. /\ \A q \in Ref : payments[q] # None => payments'[q] # None
      /\ payments'[p] # None
  <2>1. r # None
    BY DatabaseAssumption
  <2>2. CASE ActivateSubscription(t)
    BY <1>2, <1>3, <1>5, <2>1, <2>2 DEF ActivateSubscription
  <2>3. CASE ConfirmManualPayment(t)
    <3>1. payments[p] = task[t].pending
      BY <1>2, <1>5, <2>3 DEF Confirmation, ConfirmManualPayment, At, LockingLabels
    <3>2. payments' = [q \in Ref |-> IF payments[q] = task[t].pending THEN r ELSE payments[q]]
      BY <1>3, <2>3 DEF ConfirmManualPayment
    <3> QED
      BY <2>1, <3>1, <3>2
  <2> QED
    BY <2>2, <2>3
<1>8. ASSUME NEW o \in Task, o # t, Undecided(o)', task[o].user = u, u \notin raced
       PROVE  FALSE
  <2>1. task'[o] = task[o] /\ Activating(o)
    BY <1>6, <1>8 DEF Undecided, Activating, At
  <2>2. task[o].ref = p
    BY <1>1, <1>4, <1>5, <1>8, <2>1 DEF ChosenAlone
  <2>3. task[o].pc \in {"activate", "confirm_activate"}
    BY <1>7, <1>8, <2>1, <2>2 DEF Undecided, At
  <2>4. task[o].pc = "confirm_activate" \/ task[t].pc = "confirm_activate"
    BY <1>1, <1>2, <1>5, <1>8, <2>2, <2>3 DEF Recording, At
  <2>5. payments[p] # None
    BY <1>2, <1>5, <2>2, <2>4, DatabaseAssumption DEF Confirmation, LocalsOK, LockingLabels
  <2>6. task[o].pc = "confirm_activate" /\ task[t].pc = "confirm_activate"
    BY <1>1, <1>2, <1>5, <2>2, <2>3, <2>5 DEF Recording, At
  <2>7. task[o].pending = task[t].pending
    BY <1>2, <1>5, <2>2, <2>6 DEF Confirmation, LockingLabels
  <2> QED
    BY <1>2, <1>8, <2>6, <2>7 DEF Confirmation, LockingLabels
<1>9. ASSUME NEW o \in Task, Undecided(o)', task[o].user = task[t].user, task[t].user \notin raced
      PROVE  o = t
  BY <1>4, <1>8, <1>9
<1> QED
  BY <1>6, <1>7, <1>9

LEMMA CommitKeepsSerial ==
    ASSUME GrantInv, SerialRenewalsKeepOneLiveRow, ChosenAlone, NEW t \in Task,
           ActivateSubscription(t) \/ ConfirmManualPayment(t)
    PROVE  SerialRenewalsKeepOneLiveRow' /\ ChosenAlone' /\ raced \subseteq raced'
<1>1. /\ task[t].pc \in {"activate", "confirm_activate"} /\ WriteActivation(t) /\ UNCHANGED raced
      /\ Activating(t) /\ Undecided(t)
  BY DEF ActivateSubscription, ConfirmManualPayment, At, Activating, Undecided
<1>2. /\ payments \in [Ref -> SubId \cup {None}] /\ subs \in [SubId -> Row]
      /\ task \in [Task -> TaskRecord] /\ LocalsOK(t) /\ Confirmation(t) /\ Recording(t)
      /\ \A o \in Task : LocalsOK(o) /\ Confirmation(o) /\ Recording(o)
  BY DEF GrantInv, TypeOK, ServiceTypeOK, DatabaseTypeOK, HandlerOK
<1>3. PICK r \in SubId : r = task[t].sub /\ RowsKept /\ subs'[r].user = task[t].user
  BY <1>1, ActivatesOwnRow
<1>4. PICK u \in TelegramId : u = task[t].user
  BY <1>1, <1>2 DEF LocalsOK, ServiceLabels, LockingLabels
<1>5. PICK p \in Ref : p = task[t].ref
  BY <1>1, <1>2 DEF LocalsOK, ServiceLabels, LockingLabels, Ref
<1>6. \A o \in SubId \ {r} : subs'[o] = subs[o]
  BY <1>1, <1>2, <1>3 DEF WriteActivation
<1>7. ASSUME NEW v \in TelegramId, v # u PROVE LiveOf(v)' \subseteq LiveOf(v)
  BY <1>3, <1>4, <1>6, <1>7 DEF LiveOf
<1>8. u \notin raced => LiveOf(u)' \subseteq {r}
  <2>1. u \notin raced => LiveOf(u) \subseteq {r}
    BY <1>1, <1>3, <1>4 DEF ChosenAlone
  <2> QED
    BY <1>6, <2>1 DEF LiveOf
<1>9. SerialRenewalsKeepOneLiveRow'
  <2> SUFFICES ASSUME NEW v \in TelegramId, v \notin raced,
                      NEW r1 \in LiveOf(v)', NEW r2 \in LiveOf(v)'
               PROVE  r1 = r2
    BY <1>1 DEF SerialRenewalsKeepOneLiveRow, UsersWithMultipleLive
  <2>1. CASE v = u
    BY <1>8, <2>1
  <2>2. CASE v # u
    <3>1. r1 \in LiveOf(v) /\ r2 \in LiveOf(v)
      BY <1>7, <2>2
    <3> QED
      BY <3>1 DEF SerialRenewalsKeepOneLiveRow, UsersWithMultipleLive
  <2> QED
    BY <2>1, <2>2
<1>10. /\ \A o \in Task \ {t} : task'[o] = task[o]
       /\ task'[t].pc \in {"create_link", "notify"}
       /\ \A q \in Ref : payments[q] # None => payments'[q] # None
  BY CommitAlone
<1>11. ASSUME NEW o \in Task, o # t, Undecided(o)', task[o].user = u, u \notin raced
       PROVE  FALSE
  BY <1>4, <1>11, CommitAlone
<1>12. ChosenAlone'
  <2> SUFFICES ASSUME NEW a \in Task, task'[a].user \notin raced
               PROVE  /\ Undecided(a)' => LiveOf(task[a].user)' \subseteq {task'[a].sub}
                      /\ \A o \in Task :
                            Activating(a)' /\ Activating(o)' /\ task'[o].user = task'[a].user
                               => task'[o].ref = task'[a].ref
    BY <1>1 DEF ChosenAlone
  <2>1. ASSUME Undecided(a)' PROVE LiveOf(task[a].user)' \subseteq {task'[a].sub}
    <3>1. a # t /\ task'[a] = task[a] /\ Undecided(a)
      BY <1>10, <2>1, <1>2 DEF Undecided, At, LocalsOK, ServiceLabels, Ref
    <3>2. PICK v \in TelegramId : v = task[a].user
      BY <1>2, <3>1 DEF Undecided, At, LocalsOK, ServiceLabels, LockingLabels
    <3>3. v # u
      BY <1>11, <2>1, <3>1, <3>2
    <3>4. LiveOf(v)' \subseteq LiveOf(v) /\ LiveOf(v) \subseteq {task[a].sub}
      BY <1>7, <3>1, <3>2, <3>3 DEF ChosenAlone
    <3>5. LiveOf(task[a].user)' = LiveOf(v)'
      BY <3>1, <3>2 DEF LiveOf
    <3> QED
      BY <3>1, <3>4, <3>5
  <2>2. ASSUME NEW o \in Task, Activating(a)', Activating(o)', task'[o].user = task'[a].user
        PROVE  task'[o].ref = task'[a].ref
    BY <1>10, <2>2 DEF Activating, ChosenAlone
  <2> QED
    BY <2>1, <2>2
<1> QED
  BY <1>1, <1>9, <1>12

-----------------------------------------------------------------------------
(* Rows.                                                                   *)

\* What an activation or a job's UPDATE does to the status of a row.
LEMMA FlushStatus ==
    ASSUME NEW old \in Row, NEW read \in Row, NEW written \in Row
    PROVE  /\ Flush(old, read, written).status \in {old.status, written.status}
           /\ old # NoRow => Flush(old, read, written).user \in {old.user, written.user}
  BY DEF Flush, Row

\* Only the kick job's hops end the life of a row.
LEMMA LiveStaysLive ==
    ASSUME GrantInv, [Next]_vars, ~WriteHop
    PROVE  \A r \in SubId : subs[r].status \in LiveStatuses => subs'[r].status \in LiveStatuses
<1>1. /\ subs \in [SubId -> Row] /\ WarnShape /\ warn \in WarnRecord /\ now \in Nat
      /\ task \in [Task -> TaskRecord] /\ \A t \in Task : LocalsOK(t)
  BY DEF GrantInv, TypeOK, DatabaseTypeOK, JobShape, WarningsTypeOK, EnvironmentTypeOK,
      ServiceTypeOK, HandlerOK
<1>2. ASSUME NEW t \in Task, SavePlaceholder(t)
      PROVE  \A r \in SubId : subs[r].status \in LiveStatuses => subs'[r].status \in LiveStatuses
  BY <1>1, <1>2 DEF SavePlaceholder, FreeIds, NoRow, LiveStatuses
<1>3. ASSUME NEW t \in Task, task[t].pc \in {"activate", "confirm_activate"}, WriteActivation(t)
      PROVE  \A r \in SubId : subs[r].status \in LiveStatuses => subs'[r].status \in LiveStatuses
  <2> DEFINE own == task[t].sub
             read == task[t].row
             new == Flush(subs[own], read, Activated(read))
  <2>1. own \in SubId /\ read \in Row /\ subs[own] \in Row
    BY <1>1, <1>3 DEF LocalsOK, TaskRecord
  <2>2. new.status \in {subs[own].status, "active"}
    BY <2>1 DEF Flush, Activated, Row
  <2>3. subs' = [subs EXCEPT ![own] = new]
    BY <1>3 DEF WriteActivation
  <2> HIDE DEF own, new
  <2> QED
    BY <1>1, <2>1, <2>2, <2>3 DEF LiveStatuses
<1>4. CASE MarkExpiring
  <2> DEFINE new == Flush(subs[warn.sub], warn.row, WithStatus(warn.row, "expiring"))
  <2>1. warn.sub \in SubId /\ warn.row \in Row /\ subs[warn.sub] \in Row
    BY <1>1, <1>4 DEF MarkExpiring, WarnShape, WarnRecord
  <2>2. new.status \in {subs[warn.sub].status, "expiring"}
    BY <2>1 DEF Flush, WithStatus, Row
  <2>3. subs' = [subs EXCEPT ![warn.sub] = new]
    BY <1>4 DEF MarkExpiring
  <2> HIDE DEF new
  <2> QED
    BY <1>1, <2>1, <2>2, <2>3 DEF LiveStatuses
<1>5. CASE RecordReminder
  <2>1. warn.sub \in SubId /\ subs' = [subs EXCEPT ![warn.sub].warned = warn.days]
    BY <1>1, <1>5 DEF RecordReminder, WarnShape
  <2> QED
    BY <1>1, <2>1 DEF Row
<1>6. CASE UNCHANGED subs
  BY <1>6
<1> QED
  BY <1>2, <1>3, <1>4, <1>5, <1>6, RowWriters DEF RowWriter

\* Only the job itself and a crash change what it is doing.
LEMMA KickMovers ==
    ASSUME [Next]_vars
    PROVE  UNCHANGED kick \/ KickStep \/ kick' = KickReady({})
<1>1. CASE WorldNext \/ (\E s \in Session, type \in EventType : WebhookNext(s, type)) \/ RequestNext
  BY <1>1 DEF WorldNext, WebhookNext, RequestNext
<1>2. CASE (\E t \in Task : HandlerNext(t)) \/ WarningsNext
  BY <1>2 DEF HandlerNext, WarningsNext
<1>3. CASE KickNextStep
  BY <1>3 DEF KickNextStep
<1>4. CASE FailureNext
  BY <1>4 DEF FailureNext, KickFails
<1>5. CASE Crash \/ UNCHANGED vars
  BY <1>5 DEF Crash, vars
<1> QED
  BY <1>1, <1>2, <1>3, <1>4, <1>5 DEF Next, RunningNext

LEMMA HopStep ==
    ASSUME GrantInv, HopStaysLive, [Next]_vars
    PROVE  HopStaysLive'
<1>1. /\ kick \in KickRecord /\ KickShape
  BY DEF GrantInv, TypeOK, KickTypeOK, JobShape
<1>2. CASE WriteHop
  <2>1. kick'.pc \in {"read", "find_other"}
    BY <1>1, <1>2 DEF WriteHop, KickRecord
  <2> QED
    BY <2>1 DEF HopStaysLive
<1>3. CASE ReadHop
  <2>1. UNCHANGED subs
    BY <1>3 DEF ReadHop, databaseVars
  <2>2. CASE kick' = KickReady(kick.todo)
    BY <2>2 DEF KickReady, HopStaysLive
  <2>3. CASE CanTransition(subs[kick.sub].status, kick.hop)
             /\ kick' = [kick EXCEPT !.pc = "write", !.row = subs[kick.sub]]
    <3>1. kick'.sub = kick.sub /\ kick'.hop = kick.hop
      BY <1>1, <2>3 DEF KickRecord
    <3>2. kick.sub \in SubId /\ Opened(subs[kick.sub])
      BY <1>1, <1>3 DEF KickShape, ReadHop
    <3> QED
      BY <2>1, <2>3, <3>1, <3>2 DEF HopStaysLive, CanTransition, TRANSITIONS, Opened, LiveStatuses
  <2> QED
    BY <1>3, <2>2, <2>3 DEF ReadHop
<1>4. CASE kick' = KickReady({})
  BY <1>4 DEF KickReady, HopStaysLive
<1>5. CASE UNCHANGED kick /\ ~WriteHop
  <2>1. kick.pc = "write" => kick.sub \in SubId
    BY <1>1 DEF KickShape
  <2> QED
    BY <1>5, <2>1, LiveStaysLive DEF HopStaysLive
<1>6. CASE StartAutoKick \/ KickNext \/ FindOtherLive \/ CheckMember \/ BanMember \/ UnbanMember
  <2>1. CASE FindOtherLive
    <3>1. LookedUp.pc = "check_member"
      BY <1>1 DEF LookedUp, KickRecord
    <3> QED
      BY <2>1, <3>1 DEF FindOtherLive, KickReady, HopStaysLive
  <2>2. CASE StartAutoKick \/ KickNext \/ CheckMember \/ BanMember \/ UnbanMember
    <3>1. kick'.pc # "write"
      <4>1. CASE CheckMember
        <5>1. CASE kick' = KickReady(kick.todo)
          BY <5>1 DEF KickReady
        <5>2. CASE kick' = [kick EXCEPT !.pc = "ban"]
          BY <1>1, <5>2 DEF KickRecord
        <5>3. CASE kick' = [kick EXCEPT !.pc = "ban", !.blind = TRUE]
          BY <1>1, <5>3 DEF KickRecord
        <5> QED
          BY <4>1, <5>1, <5>2, <5>3 DEF CheckMember
      <4>2. CASE BanMember
        BY <1>1, <4>2 DEF BanMember, KickReady, KickRecord
      <4>3. CASE StartAutoKick \/ KickNext \/ UnbanMember
        BY <1>1, <4>3 DEF StartAutoKick, KickNext, UnbanMember, KickReady
      <4> QED
        BY <2>2, <4>1, <4>2, <4>3
    <3> QED
      BY <3>1 DEF HopStaysLive
  <2> QED
    BY <1>6, <2>1, <2>2
<1> QED
  BY <1>2, <1>3, <1>4, <1>5, <1>6, KickMovers DEF KickStep

\* Races are marked for good, by whoever chooses a row and by the reminder job.
LEMMA RacedKept ==
    ASSUME [Next]_vars, ~Deciding
    PROVE  raced' = raced \/ MarkExpiring
<1>1. CASE WorldNext \/ (\E s \in Session, type \in EventType : WebhookNext(s, type)) \/ RequestNext
  BY <1>1 DEF WorldNext, AdvanceClock, JoinChannel, RegisterUser, CustomerActs, WebhookNext,
      AcknowledgeEvent, BeginStripeActivation, RequestNext, ReceiveScreenshot, PressConfirm,
      AdminActivate, AdminInvite, serviceVars
<1>2. ASSUME NEW t \in Task, HandlerNext(t) PROVE raced' = raced
  BY <1>2 DEF HandlerNext, ActivationStep, AccessStep, ScreenshotStep, InviteStep, Deciding,
      GetOrCreateUser, LockPlaceholder, CreateInviteLink, SendConfirmation, RespondOK, SaveUser,
      SavePlaceholder, SavePayment, ForwardScreenshot, ThankSender, CreateFreshLink, SendFreshLink
<1>3. CASE WarningsNext \/ KickNextStep
  BY <1>3 DEF WarningsNext, WarningsStep, StartWarnings, WarnNext, ReadForExpiring, RefreshMarked,
      SendReminder, RecordReminder, KickNextStep, KickStep, StartAutoKick, KickNext, ReadHop,
      WriteHop, FindOtherLive, CheckMember, BanMember, UnbanMember, serviceVars
<1>4. CASE FailureNext \/ Crash \/ UNCHANGED vars
  BY <1>4 DEF FailureNext, Crash, TransactionFails, WarningsFail, KickFails, OtherHandlerFails,
      vars, serviceVars
<1> QED
  BY <1>1, <1>2, <1>3, <1>4 DEF Next, RunningNext

\* The rows written by whoever decides nothing.
LEMMA WritersElsewhere ==
    ASSUME [Next]_vars, ~Deciding
    PROVE  \/ UNCHANGED subs
           \/ \E t \in Task : SavePlaceholder(t)
           \/ MarkExpiring \/ RecordReminder \/ WriteHop
<1>1. ASSUME NEW t \in Task, HandlerNext(t), UNCHANGED subs \/ RowWriter,
             ~(\E o \in Task : SavePlaceholder(o))
      PROVE  UNCHANGED subs
  BY <1>1 DEF HandlerNext, ActivationStep, AccessStep, ScreenshotStep, InviteStep, Deciding,
      GetOrCreateUser, LockPlaceholder, CreateInviteLink, SendConfirmation, RespondOK, SaveUser,
      SavePayment, ForwardScreenshot, ThankSender, CreateFreshLink, SendFreshLink, databaseVars
<1>2. CASE WorldNext \/ (\E s \in Session, type \in EventType : WebhookNext(s, type)) \/ RequestNext
  BY <1>2 DEF WorldNext, AdvanceClock, JoinChannel, RegisterUser, CustomerActs, WebhookNext,
      AcknowledgeEvent, BeginStripeActivation, RequestNext, ReceiveScreenshot, PressConfirm,
      AdminActivate, AdminInvite, databaseVars
<1>3. CASE WarningsNext \/ KickNextStep
  BY <1>3 DEF WarningsNext, WarningsStep, StartWarnings, WarnNext, ReadForExpiring, RefreshMarked,
      SendReminder, KickNextStep, KickStep, StartAutoKick, KickNext, ReadHop, FindOtherLive,
      CheckMember, BanMember, UnbanMember, databaseVars
<1>4. CASE FailureNext \/ Crash \/ UNCHANGED vars
  BY <1>4 DEF FailureNext, Crash, TransactionFails, WarningsFail, KickFails, OtherHandlerFails,
      vars, databaseVars
<1> QED
  BY <1>1, <1>2, <1>3, <1>4, RowWriters DEF Next, RunningNext

\* One row is written, and not brought to life unless a race is marked.
LEMMA OneRowMoves ==
    ASSUME subs \in [SubId -> Row], NEW own \in SubId, NEW new,
           subs' = [subs EXCEPT ![own] = new],
           new.user = subs[own].user,
           \/ new.status \notin LiveStatuses
           \/ subs[own].status \in LiveStatuses
           \/ subs[own].user \in raced'
    PROVE  LiveKept
<1> SUFFICES ASSUME NEW u \in TelegramId, u \notin raced', NEW r \in LiveOf(u)'
             PROVE  r \in LiveOf(u)
  BY DEF LiveKept
<1>1. r \in SubId /\ subs'[r].user = u /\ subs'[r].status \in LiveStatuses
  BY DEF LiveOf
<1>2. CASE r = own
  <2>1. subs'[own] = new
    OBVIOUS
  <2> QED
    BY <1>1, <1>2, <2>1 DEF LiveOf
<1>3. CASE r # own
  <2>1. subs'[r] = subs[r]
    BY <1>1, <1>3
  <2> QED
    BY <1>1, <2>1 DEF LiveOf
<1> QED
  BY <1>2, <1>3

\* Whoever decides nothing makes no row live, unless it marks a race.
LEMMA LiveKeptElsewhere ==
    ASSUME GrantInv, HopStaysLive, [Next]_vars, ~Deciding
    PROVE  LiveKept /\ raced \subseteq raced'
<1>1. /\ subs \in [SubId -> Row] /\ WarnShape /\ KickShape /\ warn \in WarnRecord
      /\ kick \in KickRecord
  BY DEF GrantInv, TypeOK, DatabaseTypeOK, JobShape, WarningsTypeOK, KickTypeOK
<1>2. raced \subseteq raced'
  BY RacedKept DEF MarkExpiring
<1>3. ASSUME UNCHANGED subs PROVE LiveKept
  BY <1>3 DEF LiveKept, LiveOf
<1>4. ASSUME NEW t \in Task, SavePlaceholder(t) PROVE LiveKept
  BY <1>1, <1>4 DEF SavePlaceholder, PendingRow, LiveKept, LiveOf, LiveStatuses
<1>5. ASSUME MarkExpiring PROVE LiveKept
  <2> DEFINE new == Flush(subs[warn.sub], warn.row, WithStatus(warn.row, "expiring"))
  <2>1. /\ warn.sub \in SubId /\ warn.row \in Row /\ subs[warn.sub] \in Row
        /\ warn.row.user = subs[warn.sub].user /\ warn.row.status = "active"
    BY <1>1, <1>5 DEF MarkExpiring, WarnShape, WarnRecord
  <2>2. new.user = subs[warn.sub].user
    BY <2>1 DEF Flush, WithStatus, Row
  <2>3. subs' = [subs EXCEPT ![warn.sub] = new]
    BY <1>5 DEF MarkExpiring
  <2>4. subs[warn.sub].status \in LiveStatuses \/ subs[warn.sub].user \in raced'
    BY <1>5, <2>1 DEF MarkExpiring, LiveStatuses
  <2> HIDE DEF new
  <2> QED
    BY <1>1, <2>1, <2>2, <2>3, <2>4, OneRowMoves
<1>6. ASSUME RecordReminder PROVE LiveKept
  <2> DEFINE new == [subs[warn.sub] EXCEPT !.warned = warn.days]
  <2>1. /\ warn.sub \in SubId /\ subs[warn.sub] \in Row
        /\ subs' = [subs EXCEPT ![warn.sub] = new]
    BY <1>1, <1>6 DEF RecordReminder, WarnShape
  <2>2. new.user = subs[warn.sub].user /\ new.status = subs[warn.sub].status
    BY <2>1 DEF Row
  <2> HIDE DEF new
  <2> QED
    BY <1>1, <2>1, <2>2, OneRowMoves
<1>7. ASSUME WriteHop PROVE LiveKept
  <2> DEFINE new == Flush(subs[kick.sub], kick.row, WithStatus(kick.row, kick.hop))
  <2>1. /\ kick.sub \in SubId /\ kick.row \in Row /\ subs[kick.sub] \in Row
        /\ kick.hop \in {"expiring", "expired", "kicked"}
        /\ kick.hop = "expiring" => subs[kick.sub].status \in LiveStatuses
        /\ subs[kick.sub] # NoRow
    BY <1>1, <1>7 DEF WriteHop, KickShape, KickRecord, HopStaysLive, Opened,
        NoRow
  <2>2. /\ new.user = subs[kick.sub].user
        /\ new.status \in {subs[kick.sub].status, kick.hop}
    BY <2>1 DEF Flush, WithStatus, Row
  <2>3. subs' = [subs EXCEPT ![kick.sub] = new]
    BY <1>7 DEF WriteHop
  <2> HIDE DEF new
  <2> QED
    BY <1>1, <2>1, <2>2, <2>3, OneRowMoves DEF LiveStatuses
<1> QED
  BY <1>2, <1>3, <1>4, <1>5, <1>6, <1>7, WritersElsewhere

LEMMA SerialInvInit == Init => SerialInv
  BY DEF Init, DatabaseInit, ServiceInit, KickInit, KickReady, NoRow, IdleTask, Starting,
      SerialInv, SerialRenewalsKeepOneLiveRow, UsersWithMultipleLive, LiveOf, LiveStatuses,
      ChosenAlone, Undecided, Activating, At, HopStaysLive

LEMMA SerialInvStep == GrantInv /\ SerialInv /\ [Next]_vars => SerialInv'
<1> SUFFICES ASSUME GrantInv, SerialInv, [Next]_vars PROVE SerialInv'
  OBVIOUS
<1>1. SerialRenewalsKeepOneLiveRow /\ ChosenAlone /\ HopStaysLive
  BY DEF SerialInv
<1>2. HopStaysLive'
  BY <1>1, HopStep
<1>3. CASE ~Deciding
  BY <1>1, <1>2, <1>3, ChoicesElsewhere, LiveKeptElsewhere, SerialKept DEF SerialInv
<1>4. ASSUME NEW t \in Task, CreatePayment(t) PROVE SerialInv'
  <2>1. UNCHANGED <<subs, raced>>
    BY <1>4 DEF CreatePayment, databaseVars
  <2>2. LiveKept /\ raced \subseteq raced'
    BY <2>1 DEF LiveKept, LiveOf
  <2> QED
    BY <1>1, <1>2, <1>4, <2>2, CreatePaymentChoices, SerialKept DEF SerialInv
<1>5. ASSUME NEW t \in Task, FindOrCreateSubscription(t) \/ FindRenewable(t) PROVE SerialInv'
  BY <1>1, <1>2, <1>5, FindingKeepsSerial DEF SerialInv
<1>6. ASSUME NEW t \in Task, ActivateSubscription(t) \/ ConfirmManualPayment(t) PROVE SerialInv'
  BY <1>1, <1>2, <1>6, CommitKeepsSerial DEF SerialInv
<1> QED
  BY <1>3, <1>4, <1>5, <1>6 DEF Deciding

\* SerialInv is an invariant, for any number of payers, rows and handlers.
THEOREM SerialInvHolds == Spec => []SerialInv
  BY SerialInvInit, SerialInvStep, GrantInvHolds, PTL DEF Spec

\* Renewals, confirmations and both jobs leave a payer at most one live row
\* (_find_or_create_subscription), as long as no two of them raced on it.
THEOREM OneLiveRow == Spec => []SerialRenewalsKeepOneLiveRow
<1>1. SerialInv => SerialRenewalsKeepOneLiveRow
  BY DEF SerialInv
<1> QED
  BY <1>1, SerialInvHolds, PTL

=============================================================================
