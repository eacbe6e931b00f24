---------------------------- MODULE ReminderProofs ----------------------------
(***************************************************************************)
(* The reminder job against renewals and the kick job, at every await: a   *)
(* reminder about to go out says less than what the row has on record,     *)
(* none goes out twice but by a lost answer or a cut run, and none is sent *)
(* to a row with more time but after a new payment.                        *)
(***************************************************************************)
EXTENDS RenewalProofs

\* Counts are reset, never raised.
CountsReset == \A r \in SubId : subs'[r].warned \in {subs[r].warned, None}

LEMMA ActivationResets ==
    ASSUME GrantInv, NEW t \in Task, task[t].pc \in {"activate", "confirm_activate"},
           WriteActivation(t)
    PROVE  CountsReset
<1> DEFINE r == task[t].sub
           read == task[t].row
           new == Flush(subs[r], read, Activated(read))
<1>1. TypeOK /\ TaskTyped /\ LocalsOK(t)
  BY DEF GrantInv, HandlerOK, TypeOK, ServiceTypeOK, TaskTyped
<1>2. r \in SubId /\ read \in Row /\ subs[r] \in Row
  BY <1>1 DEF LocalsOK, TaskTyped, TaskRecord, TypeOK, DatabaseTypeOK
<1>3. Activated(read).warned = None /\ subs[r] # NoRow => DOMAIN subs[r] = {"user", "status", "expires", "warned"}
  BY <1>2 DEF Row, Activated
<1>4. new.warned \in {subs[r].warned, None}
  BY <1>2 DEF Flush, Activated, Row
<1>5. subs' = [subs EXCEPT ![r] = new] /\ subs \in [SubId -> Row]
  BY <1>1 DEF WriteActivation, TypeOK, DatabaseTypeOK
<1> HIDE DEF r, new
<1> QED
  BY <1>4, <1>5 DEF CountsReset

LEMMA StatusKeepsCount ==
    ASSUME NEW r \in SubId, NEW read \in Row, NEW s \in Status, subs \in [SubId -> Row],
           subs[r] # NoRow, subs' = [subs EXCEPT ![r] = Flush(@, read, WithStatus(read, s))]
    PROVE  CountsReset
<1>1. Flush(subs[r], read, WithStatus(read, s)).warned = subs[r].warned
  BY DEF Flush, WithStatus, Row
<1> QED
  BY <1>1 DEF CountsReset

\* No step but the reminder job's own raises a count.
LEMMA NoCountRaised ==
    ASSUME GrantInv, [Next]_vars
    PROVE  CountsReset \/ RecordReminder
<1>1. /\ subs \in [SubId -> Row] /\ WarnShape /\ KickShape
      /\ warn \in WarnRecord /\ kick \in KickRecord
  BY DEF GrantInv, TypeOK, DatabaseTypeOK, JobShape, WarningsTypeOK, KickTypeOK
<1>2. CASE UNCHANGED subs
  BY <1>2 DEF CountsReset
<1>3. ASSUME NEW t \in Task, SavePlaceholder(t) PROVE CountsReset
  BY <1>1, <1>3 DEF SavePlaceholder, PendingRow, CountsReset
<1>4. CASE MarkExpiring
  <2>1. /\ warn.sub \in SubId /\ subs[warn.sub] # NoRow /\ warn.row \in Row
        /\ subs' = [subs EXCEPT ![warn.sub] = Flush(@, warn.row, WithStatus(warn.row, "expiring"))]
    BY <1>1, <1>4 DEF MarkExpiring, WarnShape, WarnRecord, Opened, NoRow
  <2> QED
    BY <1>1, <2>1, StatusKeepsCount DEF Status
<1>5. CASE WriteHop
  <2>1. /\ kick.sub \in SubId /\ subs[kick.sub] # NoRow /\ kick.row \in Row
        /\ kick.hop \in Status
        /\ subs' = [subs EXCEPT ![kick.sub] = Flush(@, kick.row, WithStatus(kick.row, kick.hop))]
    BY <1>1, <1>5 DEF WriteHop, KickShape, KickRecord, Opened, NoRow, Status
  <2> QED
    BY <1>1, <2>1, StatusKeepsCount
<1> QED
  BY <1>2, <1>3, <1>4, <1>5, RowWriters, ActivationResets DEF RowWriter

\* A failed statement or a crash ends the run, and notes what it cuts off.
CutShort == warn' = WarnReady({}) /\ LeaveUnrecorded /\ UNCHANGED reminders

\* Nothing else but the job changes what it is doing.
LEMMA WarnMovers ==
    ASSUME [Next]_vars
    PROVE  UNCHANGED warningsVars \/ WarningsStep \/ CutShort
<1>1. CASE WorldNext \/ (\E s \in Session, type \in EventType : WebhookNext(s, type)) \/ RequestNext
  BY <1>1 DEF WorldNext, WebhookNext, RequestNext
<1>2. CASE (\E t \in Task : HandlerNext(t)) \/ KickNextStep
  BY <1>2 DEF HandlerNext, KickNextStep
<1>3. CASE WarningsNext
  BY <1>3 DEF WarningsNext
<1>4. CASE FailureNext
  BY <1>4 DEF FailureNext, WarningsFail, OtherHandlerFails, CutShort
<1>5. CASE Crash \/ UNCHANGED vars
  BY <1>5 DEF Crash, CutShort, vars
<1> QED
  BY <1>1, <1>2, <1>3, <1>4, <1>5 DEF Next, RunningNext

LEMMA ReminderInvInit == Init => ReminderInv
  BY DEF Init, WarningsInit, WarnReady, ReminderInv, ReminderSaysLess

\* The job waits or drops candidates while counts are reset.
LEMMA ReminderInvKept ==
    ASSUME ReminderInv, GrantInv, CountsReset,
           UNCHANGED warn \/ \E todo \in SUBSET warn.todo : warn' = WarnReady(todo)
    PROVE  ReminderInv'
<1>1. \A c \in warn.todo : c.sub \in SubId
  BY DEF GrantInv, TypeOK, WarningsTypeOK, WarnRecord, Candidate
<1>2. warn.pc = "send" => warn.sub \in SubId
  BY DEF GrantInv, JobShape, WarnShape
<1>3. CASE UNCHANGED warn
  BY <1>1, <1>2, <1>3 DEF ReminderInv, ReminderSaysLess, CountsReset
<1>4. ASSUME NEW todo \in SUBSET warn.todo, warn' = WarnReady(todo) PROVE ReminderInv'
  <2>1. warn'.pc = "ready" /\ warn'.todo = todo
    BY <1>4 DEF WarnReady
  <2> QED
    BY <1>1, <1>4, <2>1 DEF ReminderInv, ReminderSaysLess, CountsReset
<1> QED
  BY <1>3, <1>4

LEMMA ReminderInvStep == GrantInv /\ ReminderInv /\ [Next]_vars => ReminderInv'
<1> SUFFICES ASSUME GrantInv, ReminderInv, [Next]_vars PROVE ReminderInv'
  OBVIOUS
<1>1. /\ warn \in WarnRecord /\ subs \in [SubId -> Row] /\ WarnShape
      /\ warn.todo \in SUBSET Candidate
  BY DEF GrantInv, TypeOK, WarningsTypeOK, DatabaseTypeOK, JobShape, WarnRecord
<1>2. CASE StartWarnings
  <2>1. /\ warn' = WarnReady({[sub |-> r, row |-> subs[r],
                             seen |-> {p \in Ref : grants[p] > 0}] : r \in ExpiringWithin})
        /\ UNCHANGED subs
    BY <1>2 DEF StartWarnings, databaseVars
  <2>2. /\ warn'.pc = "ready"
        /\ warn'.todo = {[sub |-> r, row |-> subs[r],
                           seen |-> {p \in Ref : grants[p] > 0}] : r \in ExpiringWithin}
    BY <2>1 DEF WarnReady
  <2>3. \A c \in warn'.todo : c = [sub |-> c.sub, row |-> subs[c.sub],
                                   seen |-> {p \in Ref : grants[p] > 0}]
    BY <2>2
  <2>4. \A c \in warn'.todo : c.row = subs[c.sub]
    BY <2>3
  <2>5. \A c, other \in warn'.todo : other.sub = c.sub => other = c
    BY <2>3
  <2> QED
    BY <2>1, <2>2, <2>4, <2>5 DEF ReminderInv, ReminderSaysLess
<1>3. CASE WarnNext
  <2>1. PICK c \in warn.todo :
          \/ warn' = WarnReady(warn.todo \ {c})
          \/ \E days \in {DaysRemaining(now, c.row.expires)}, label \in {"read", "send"} :
                /\ warn' = [pc |-> label, todo |-> warn.todo \ {c}, sub |-> c.sub,
                            row |-> c.row, days |-> days, seen |-> c.seen]
                /\ label = "send" => ~AlreadyWarned(c.row, days)
    BY <1>3 DEF WarnNext
  <2>2. UNCHANGED subs /\ CountsReset
    BY <1>3 DEF WarnNext, databaseVars, CountsReset
  <2>3. CASE warn' = WarnReady(warn.todo \ {c})
    BY <2>2, <2>3, ReminderInvKept
  <2>4. ASSUME NEW days, days = DaysRemaining(now, c.row.expires), NEW label \in {"read", "send"},
               warn' = [pc |-> label, todo |-> warn.todo \ {c}, sub |-> c.sub,
                        row |-> c.row, days |-> days, seen |-> c.seen],
               label = "send" => ~AlreadyWarned(c.row, days)
        PROVE  ReminderInv'
    <3>1. /\ warn'.pc = label /\ warn'.todo = warn.todo \ {c} /\ warn'.sub = c.sub
          /\ warn'.days = days
      BY <2>4
    <3>2. c \in Candidate /\ c.row \in Row /\ Opened(c.row) /\ RowOK(c.row)
      BY <1>1 DEF WarnShape, Candidate
    <3>3. days \in Nat
      <4>1. c.row.expires \in Nat /\ now \in Nat
        BY <3>2 DEF RowOK, GrantInv, TypeOK, EnvironmentTypeOK
      <4> QED
        BY <2>4, <4>1, DaysRemainingType
    <3>4. label = "send" => c.row.warned = None \/ days < c.row.warned
      BY <2>4, <3>2, <3>3 DEF AlreadyWarned, Row
    <3>5. subs[c.sub].warned \in {c.row.warned, None}
      BY DEF ReminderInv
    <3>6. ReminderSaysLess'
      BY <2>2, <3>1, <3>4, <3>5 DEF ReminderSaysLess
    <3> QED
      BY <2>2, <3>1, <3>6 DEF ReminderInv
  <2> QED
    BY <2>1, <2>3, <2>4
<1>4. ASSUME NEW label \in {"mark", "send"}, warn.pc \in {"read", "refresh"}, UNCHANGED subs,
             warn' = [warn EXCEPT !.pc = label, !.row = subs[warn.sub]],
             label = "send" => ~AlreadyWarned(subs[warn.sub], warn.days)
      PROVE  ReminderInv'
  <2>1. /\ warn'.pc = label /\ warn'.todo = warn.todo /\ warn'.sub = warn.sub
        /\ warn'.days = warn.days
    BY <1>1, <1>4 DEF WarnRecord
  <2>2. warn.sub \in SubId /\ warn.days \in Nat /\ subs[warn.sub] \in Row
    BY <1>1, <1>4 DEF WarnShape
  <2>3. label = "send" => subs[warn.sub].warned = None \/ warn.days < subs[warn.sub].warned
    BY <1>4, <2>2 DEF AlreadyWarned, Row
  <2> QED
    BY <1>4, <2>1, <2>3 DEF ReminderInv, ReminderSaysLess
<1>5. CASE ReadForExpiring \/ RefreshMarked
  <2>1. UNCHANGED subs /\ CountsReset
    BY <1>5 DEF ReadForExpiring, RefreshMarked, databaseVars, CountsReset
  <2>2. CASE warn' = WarnReady(warn.todo)
    BY <2>1, <2>2, ReminderInvKept
  <2> QED
    BY <1>4, <1>5, <2>1, <2>2 DEF ReadForExpiring, RefreshMarked
<1>6. CASE MarkExpiring
  <2>1. CountsReset
    BY <1>6, NoCountRaised DEF MarkExpiring, RecordReminder
  <2>2. /\ warn'.pc = "refresh" /\ warn'.todo = warn.todo /\ warn'.sub = warn.sub /\ warn.pc = "mark"
    BY <1>1, <1>6 DEF MarkExpiring, WarnRecord
  <2> QED
    BY <1>1, <2>1, <2>2 DEF ReminderInv, ReminderSaysLess, CountsReset, Candidate
<1>7. CASE SendReminder
  <2>1. UNCHANGED subs /\ CountsReset /\ warn.pc = "send"
    BY <1>7 DEF SendReminder, databaseVars, CountsReset
  <2>2. CASE warn' = WarnReady(warn.todo)
    BY <2>1, <2>2, ReminderInvKept
  <2>3. CASE warn' = [warn EXCEPT !.pc = "record"]
    <3>1. warn'.pc = "record" /\ warn'.todo = warn.todo /\ warn'.sub = warn.sub
      BY <1>1, <2>3 DEF WarnRecord
    <3> QED
      BY <2>1, <3>1 DEF ReminderInv, ReminderSaysLess
  <2> QED
    BY <1>7, <2>2, <2>3 DEF SendReminder
<1>8. CASE RecordReminder
  <2>1. /\ warn'.pc = "ready" /\ warn'.todo = warn.todo /\ warn.pc = "record"
        /\ \A r \in SubId : r # warn.sub => subs'[r] = subs[r]
    BY <1>1, <1>8 DEF RecordReminder, WarnReady
  <2> QED
    BY <1>1, <2>1 DEF ReminderInv, ReminderSaysLess, Candidate
<1>9. CASE ~WarningsStep
  <2>1. CountsReset
    BY <1>9, NoCountRaised DEF WarningsStep
  <2>2. UNCHANGED warn \/ \E todo \in SUBSET warn.todo : warn' = WarnReady(todo)
    BY <1>9, WarnMovers DEF CutShort, warningsVars
  <2> QED
    BY <2>1, <2>2, ReminderInvKept
<1> QED
  BY <1>2, <1>3, <1>5, <1>6, <1>7, <1>8, <1>9 DEF WarningsStep

\* ReminderInv is an invariant, for any number of rows, renewals and faults.
THEOREM ReminderInvHolds == Spec => []ReminderInv
  BY ReminderInvInit, ReminderInvStep, GrantInvHolds, PTL DEF Spec

\* A reminder about to go out says less than the row has on record for it,
\* whatever was renewed or kicked since the job listed it (_warn_one).
THEOREM RemindersSayLess == Spec => []ReminderSaysLess
<1>1. ReminderInv => ReminderSaysLess
  BY DEF ReminderInv
<1> QED
  BY <1>1, ReminderInvHolds, PTL

-----------------------------------------------------------------------------
(* No reminder twice.                                                      *)

\* An opened row keeps its owner; without races it also keeps its expiry and
\* count, or gets a later expiry.
Aged(r) ==
    /\ Opened(subs'[r]) /\ subs'[r].user = subs[r].user
    /\ subs[r].user \notin raced' =>
          \/ subs'[r].expires = subs[r].expires /\ subs'[r].warned = subs[r].warned
          \/ subs[r].expires < subs'[r].expires

RowsAge == \A r \in SubId : Opened(subs[r]) => Aged(r)

LEMMA RowWriteAges ==
    ASSUME subs \in [SubId -> Row], NEW own \in SubId, NEW new,
           subs' = [subs EXCEPT ![own] = new],
           Opened(subs[own]) => Aged(own)
    PROVE  RowsAge
<1>1. \A r \in SubId \ {own} : subs'[r] = subs[r]
  OBVIOUS
<1> QED
  BY <1>1 DEF RowsAge, Aged

\* A renewal that has read what is stored moves the expiry on.
LEMMA RenewalAges ==
    ASSUME GrantInv, FreshReads, raced \subseteq raced', NEW t \in Task,
           task[t].pc \in {"activate", "confirm_activate"}, WriteActivation(t)
    PROVE  RowsAge
<1> DEFINE own == task[t].sub
           old == subs[own]
           read == task[t].row
           new == Flush(old, read, Activated(read))
<1>1. /\ TypeOK /\ RowsOK /\ LocalsOK(t) /\ ChosenRow(t) /\ Confirmation(t)
      /\ task[t] \in TaskRecord
  BY DEF GrantInv, HandlerOK, TypeOK, ServiceTypeOK
<1>2. /\ own \in SubId /\ read \in Row /\ old \in Row /\ subs \in [SubId -> Row]
      /\ now \in Nat /\ RowOK(old) /\ task[t].user \in TelegramId
  BY <1>1 DEF LocalsOK, TaskRecord, TypeOK, DatabaseTypeOK, EnvironmentTypeOK, RowsOK,
      ServiceLabels, LockingLabels
<1>3. subs' = [subs EXCEPT ![own] = new]
  BY DEF WriteActivation
<1>4. ASSUME Opened(old) PROVE Aged(own)
  <2>1. Opened(read) /\ RowOK(read) /\ old.user = task[t].user
    <3>1. old # NoRow /\ old.status # "pending"
      BY <1>4 DEF Opened, NoRow
    <3>2. task[t].pc = "confirm_activate" /\ own = task[t].pending => FALSE
      BY <1>1, <3>1 DEF Confirmation, LockingLabels, PendingRow
    <3> QED
      BY <1>1, <3>1, <3>2 DEF ChosenRow
  <2>2. Opened(new) /\ new.user = old.user
    BY <1>2, <1>4, <2>1, ActivatedRow
  <2>3. subs'[own] = new
    BY <1>2, <1>3
  <2>4. ASSUME old.user \notin raced' PROVE old.expires < new.expires
    <3>1. old.expires = read.expires
      BY <2>1, <2>4 DEF FreshReads, Undecided, At
    <3>2. old.expires \in Nat
      BY <1>2, <1>4 DEF RowOK
    <3>3. old # NoRow /\ DOMAIN old = {"user", "status", "expires", "warned"}
      BY <1>2, <1>4 DEF Opened, NoRow, Row
    <3>4. Activated(read).expires = RenewedExpiresAt(now, old.expires)
      BY <1>2, <3>1 DEF Activated, Row
    <3>5. old.expires < RenewedExpiresAt(now, old.expires)
      <4>1. SubscriptionDays * Day \in Nat \ {0}
        BY DaysAssumption
      <4> QED
        BY <1>2, <3>2, <4>1, NoneAssumption DEF RenewedExpiresAt
    <3>6. new.expires = Activated(read).expires
      <4>1. RenewedExpiresAt(now, old.expires) \in Nat
        BY <1>2, <3>2, RenewedExpiresAtType
      <4>2. Activated(read).expires # read.expires
        BY <3>1, <3>2, <3>4, <3>5, <4>1
      <4> HIDE DEF old, read
      <4> QED
        BY <3>3, <4>2 DEF Flush
    <3> QED
      BY <3>4, <3>5, <3>6
  <2> HIDE DEF new, old
  <2> QED
    BY <2>2, <2>3, <2>4 DEF Aged, old
<1> HIDE DEF new
<1> QED
  BY <1>2, <1>3, <1>4, RowWriteAges

\* A status leaves the other columns alone.
LEMMA StatusAges ==
    ASSUME GrantInv, NEW r \in SubId, NEW read \in Row, Opened(read),
           NEW s \in {"expiring", "expired", "kicked"},
           subs' = [subs EXCEPT ![r] = Flush(@, read, WithStatus(read, s))]
    PROVE  RowsAge
<1> DEFINE new == Flush(subs[r], read, WithStatus(read, s))
<1>1. subs \in [SubId -> Row] /\ RowOK(subs[r])
  BY DEF GrantInv, TypeOK, DatabaseTypeOK, RowsOK
<1>2. ASSUME Opened(subs[r]) PROVE Aged(r)
  <2>1. Opened(new) /\ new.user = subs[r].user /\ new.expires = subs[r].expires
    BY <1>1, <1>2, MovedRow
  <2>2. new.warned = subs[r].warned
    <3>1. subs[r] # NoRow
      BY <1>2 DEF Opened, NoRow
    <3> QED
      BY <1>1, <3>1 DEF Flush, WithStatus, Row
  <2>3. subs'[r] = new
    BY <1>1
  <2> HIDE DEF new
  <2> QED
    BY <2>1, <2>2, <2>3 DEF Aged
<1> HIDE DEF new
<1> QED
  BY <1>1, <1>2, RowWriteAges DEF new

\* But for the record of a reminder, rows just age.
LEMMA StepAges ==
    ASSUME GrantInv, SerialInv, FreshReads, [Next]_vars, ~RecordReminder
    PROVE  RowsAge
<1>1. /\ subs \in [SubId -> Row] /\ WarnShape /\ KickShape /\ warn \in WarnRecord
      /\ kick \in KickRecord
  BY DEF GrantInv, TypeOK, DatabaseTypeOK, JobShape, WarningsTypeOK, KickTypeOK
<1>2. CASE UNCHANGED subs
  BY <1>2 DEF RowsAge, Aged
<1>3. ASSUME NEW t \in Task, SavePlaceholder(t) PROVE RowsAge
  <2>1. PICK r \in FreeIds : subs' = [subs EXCEPT ![r] = PendingRow(task[t].user)]
    BY <1>3 DEF SavePlaceholder
  <2>2. r \in SubId /\ ~Opened(subs[r])
    BY <2>1 DEF FreeIds, NoRow, Opened
  <2> QED
    BY <1>1, <2>1, <2>2, RowWriteAges
<1>4. ASSUME NEW t \in Task, task[t].pc \in {"activate", "confirm_activate"}, WriteActivation(t)
      PROVE  RowsAge
  BY <1>4, RenewalAges, RacesStay
<1>5. CASE MarkExpiring
  <2>1. warn.sub \in SubId /\ warn.row \in Row /\ Opened(warn.row)
    BY <1>1, <1>5 DEF MarkExpiring, WarnShape, WarnRecord
  <2> QED
    BY <1>5, <2>1, StatusAges DEF MarkExpiring
<1>6. CASE WriteHop
  <2>1. /\ kick.sub \in SubId /\ kick.row \in Row /\ Opened(kick.row)
        /\ kick.hop \in {"expiring", "expired", "kicked"}
    BY <1>1, <1>6 DEF WriteHop, KickShape, KickRecord
  <2> QED
    BY <1>6, <2>1, StatusAges DEF WriteHop
<1> QED
  BY <1>2, <1>3, <1>4, <1>5, <1>6, RowWriters DEF RowWriter

-----------------------------------------------------------------------------

\* What is known of the tables and of the job before and after a step.
OnceTypes ==
    /\ warn \in WarnRecord /\ WarnShape
    /\ reminders \subseteq (SubId \X Nat \X Nat)
    /\ subs \in [SubId -> Row]
    /\ \A r \in SubId : RowOK(subs[r])

LEMMA OnceTyped == GrantInv => OnceTypes
BY DEF GrantInv, TypeOK, WarningsTypeOK, DatabaseTypeOK, JobShape, RowsOK, OnceTypes

\* As rows age, what was said of them stays on record.
LEMMA RecordsKept ==
    ASSUME OnceTypes, OnceTypes', RowsAge, RemindersOnRecord, raced \subseteq raced',
           NEW x \in OnFile,
           warn.pc # "record" \/ UNCHANGED warn \/ x # Reminder
    PROVE  /\ Opened(subs'[x[1]])
           /\ subs'[x[1]].user \notin raced' =>
                 /\ x[2] <= subs'[x[1]].expires
                 /\ x[2] = subs'[x[1]].expires =>
                       \/ AlreadyWarned(subs'[x[1]], x[3])
                       \/ warn'.pc = "record" /\ x = Reminder'
<1>1. PICK r \in SubId, e \in Nat, d \in Nat : x = <<r, e, d>>
  BY DEF OnceTypes, OnFile
<1>2. x[1] = r /\ x[2] = e /\ x[3] = d
  BY <1>1
<1>3. Opened(subs[r]) /\ Aged(r)
  BY <1>2 DEF RemindersOnRecord, RowsAge
<1>4. subs[r].expires \in Nat /\ subs'[r].expires \in Nat
  BY <1>3 DEF OnceTypes, RowOK, Aged
<1>5. ASSUME subs'[r].user \notin raced'
      PROVE  /\ e <= subs'[r].expires
             /\ e = subs'[r].expires =>
                   \/ AlreadyWarned(subs'[r], d)
                   \/ warn'.pc = "record" /\ x = Reminder'
  <2>1. subs[r].user \notin raced /\ subs[r].user \notin raced'
    BY <1>3, <1>5 DEF Aged
  <2>2. /\ e <= subs[r].expires
        /\ e = subs[r].expires =>
              AlreadyWarned(subs[r], d) \/ (warn.pc = "record" /\ x = Reminder)
    BY <1>2, <2>1 DEF RemindersOnRecord
  <2>3. CASE subs'[r].expires = subs[r].expires /\ subs'[r].warned = subs[r].warned
    BY <2>2, <2>3 DEF AlreadyWarned, Reminder
  <2>4. CASE subs[r].expires < subs'[r].expires
    BY <1>4, <2>2, <2>4
  <2> QED
    BY <1>3, <2>1, <2>3, <2>4 DEF Aged
<1> QED
  BY <1>2, <1>3, <1>5 DEF Aged

\* As rows age, the candidates still know what was said of them.
LEMMA CandidateKept ==
    ASSUME OnceTypes, OnceTypes', RowsAge, CandidatesKnow, raced \subseteq raced',
           NEW c \in warn.todo, c.row.user \notin raced'
    PROVE  /\ c.row.expires <= subs'[c.sub].expires
           /\ \A x \in OnFile :
                 x[1] = c.sub /\ x[2] = c.row.expires => AlreadyWarned(c.row, x[3])
<1>1. /\ c.sub \in SubId /\ Opened(c.row) /\ RowOK(c.row)
      /\ Opened(subs[c.sub]) /\ subs[c.sub].user = c.row.user
  BY DEF OnceTypes, WarnShape, WarnRecord, Candidate
<1>2. Aged(c.sub)
  BY <1>1 DEF RowsAge
<1>3. /\ subs[c.sub].expires \in Nat /\ subs'[c.sub].expires \in Nat /\ c.row.expires \in Nat
  BY <1>1, <1>2 DEF OnceTypes, RowOK, Aged
<1>4. c.row.expires <= subs[c.sub].expires
  BY DEF CandidatesKnow
<1>5. subs[c.sub].expires <= subs'[c.sub].expires
  BY <1>1, <1>2, <1>3 DEF Aged
<1> QED
  BY <1>3, <1>4, <1>5 DEF CandidatesKnow

\* The row under way only ages, too.
LEMMA UnderWayKept ==
    ASSUME OnceTypes, OnceTypes', RowsAge, NewReminder, raced \subseteq raced',
           warn.pc # "ready", warn.row.user \notin raced'
    PROVE  warn.row.expires <= subs'[warn.sub].expires
<1>1. /\ warn.sub \in SubId /\ Opened(subs[warn.sub]) /\ Opened(warn.row) /\ RowOK(warn.row)
      /\ warn.row.user = subs[warn.sub].user
  BY DEF OnceTypes, WarnShape
<1>2. Aged(warn.sub)
  BY <1>1 DEF RowsAge
<1>3. /\ subs[warn.sub].expires \in Nat /\ subs'[warn.sub].expires \in Nat
      /\ warn.row.expires \in Nat
  BY <1>1, <1>2 DEF OnceTypes, RowOK, Aged
<1>4. warn.row.expires <= subs[warn.sub].expires
  BY DEF NewReminder
<1> QED
  BY <1>1, <1>2, <1>3, <1>4 DEF Aged

LEMMA OnceFrame ==
    ASSUME OnceTypes, OnceTypes', RowsAge, OnceInv, raced \subseteq raced',
           OnFile' \subseteq OnFile, warn'.todo \subseteq warn.todo,
           warn.pc # "record" \/ UNCHANGED warn \/ Reminder \notin OnFile', NewReminder'
    PROVE  OnceInv'
<1>1. RemindersOnRecord'
  BY RecordsKept DEF OnceInv, RemindersOnRecord
<1>2. CandidatesKnow'
  BY CandidateKept DEF OnceInv, CandidatesKnow
<1> QED
  BY <1>1, <1>2 DEF OnceInv

\* A run that goes on to another candidate, or ends, sends nothing.
LEMMA ReadySendsNothing ==
    ASSUME NEW todo, warn' = WarnReady(todo)
    PROVE  NewReminder' /\ warn'.todo = todo
BY DEF WarnReady, NewReminder, NoDuplicateReminder

LEMMA StartOnce ==
    ASSUME OnceTypes, OnceTypes', OnceInv, raced \subseteq raced', StartWarnings
    PROVE  OnceInv'
<1> DEFINE granted == {p \in Ref : grants[p] > 0}
<1>1. /\ warn.pc = "ready" /\ UNCHANGED <<subs, raced, OnFile>>
      /\ warn' = WarnReady({[sub |-> r, row |-> subs[r], seen |-> granted] : r \in ExpiringWithin})
  BY DEF StartWarnings, WarnReady, databaseVars, serviceVars, OnFile
<1>2. NewReminder' /\ warn'.todo = {[sub |-> r, row |-> subs[r], seen |-> granted] : r \in ExpiringWithin}
  BY <1>1, ReadySendsNothing
<1>3. RemindersOnRecord'
  BY <1>1 DEF OnceInv, RemindersOnRecord, AlreadyWarned
<1>4. CandidatesKnow'
  <2> SUFFICES ASSUME NEW c \in warn'.todo, c.row.user \notin raced
               PROVE  /\ c.row.expires <= subs[c.sub].expires
                      /\ \A x \in OnFile :
                            x[1] = c.sub /\ x[2] = c.row.expires => AlreadyWarned(c.row, x[3])
    BY <1>1 DEF CandidatesKnow
  <2> HIDE DEF granted
  <2>1. c.row = subs[c.sub] /\ c.sub \in SubId /\ Opened(subs[c.sub])
    <3>1. PICK r \in ExpiringWithin : c = [sub |-> r, row |-> subs[r], seen |-> granted]
      BY <1>2
    <3> QED
      BY <3>1 DEF ExpiringWithin, LiveStatuses, Opened
  <2>2. c.row.expires \in Nat
    BY <2>1 DEF OnceTypes, RowOK
  <2> QED
    BY <1>1, <2>1, <2>2 DEF OnceInv, RemindersOnRecord
<1> QED
  BY <1>2, <1>3, <1>4 DEF OnceInv

LEMMA NextCandidateOnce ==
    ASSUME OnceTypes, OnceTypes', RowsAge, OnceInv, raced \subseteq raced', WarnNext
    PROVE  OnceInv'
<1>1. PICK c \in warn.todo :
        \/ warn' = WarnReady(warn.todo \ {c})
        \/ \E days \in {DaysRemaining(now, c.row.expires)}, label \in {"read", "send"} :
              /\ warn' = [pc |-> label, todo |-> warn.todo \ {c}, sub |-> c.sub,
                          row |-> c.row, days |-> days, seen |-> c.seen]
              /\ label = "send" => ~AlreadyWarned(c.row, days)
  BY DEF WarnNext
<1>2. warn.pc = "ready" /\ OnFile' = OnFile
  BY DEF WarnNext, OnFile
<1>3. CASE warn' = WarnReady(warn.todo \ {c})
  BY <1>2, <1>3, ReadySendsNothing, OnceFrame
<1>4. ASSUME NEW days, NEW label \in {"read", "send"},
             warn' = [pc |-> label, todo |-> warn.todo \ {c}, sub |-> c.sub,
                      row |-> c.row, days |-> days, seen |-> c.seen],
             label = "send" => ~AlreadyWarned(c.row, days)
      PROVE  OnceInv'
  <2>1. /\ warn'.pc = label /\ warn'.todo = warn.todo \ {c} /\ warn'.sub = c.sub
        /\ warn'.row = c.row /\ warn'.days = days
    BY <1>4
  <2>2. c.row.user \notin raced' =>
           /\ c.row.expires <= subs'[c.sub].expires
           /\ \A x \in OnFile :
                 x[1] = c.sub /\ x[2] = c.row.expires => AlreadyWarned(c.row, x[3])
    BY CandidateKept DEF OnceInv
  <2>3. <<c.sub, c.row.expires, days>> \in OnFile /\ c.row.user \notin raced'
           => AlreadyWarned(c.row, days)
    BY <2>2
  <2>4. NewReminder'
    BY <1>2, <1>4, <2>1, <2>2, <2>3 DEF NewReminder, NoDuplicateReminder, Reminder, OnFile
  <2> QED
    BY <1>2, <2>1, <2>4, OnceFrame
<1> QED
  BY <1>1, <1>3, <1>4

\* The row is read again, marked and read once more.
LEMMA MarkingOnce ==
    ASSUME OnceTypes, OnceTypes', RowsAge, OnceInv, raced \subseteq raced',
           ReadForExpiring \/ MarkExpiring \/ RefreshMarked
    PROVE  OnceInv'
<1>1. warn.pc \in {"read", "mark", "refresh"} /\ OnFile' = OnFile /\ warn \in WarnRecord
  BY DEF ReadForExpiring, MarkExpiring, RefreshMarked, OnceTypes, OnFile
<1>2. CASE warn' = WarnReady(warn.todo)
  BY <1>1, <1>2, ReadySendsNothing, OnceFrame
<1>3. CASE MarkExpiring
  <2>1. /\ warn'.pc = "refresh" /\ warn'.todo = warn.todo /\ warn'.sub = warn.sub
        /\ warn'.row = warn.row
    BY <1>1, <1>3 DEF MarkExpiring, WarnRecord
  <2>2. NewReminder'
    BY <1>1, <2>1, UnderWayKept DEF NewReminder, NoDuplicateReminder, OnceInv
  <2> QED
    BY <1>1, <2>1, <2>2, OnceFrame
<1>4. ASSUME NEW label \in {"mark", "send"}, UNCHANGED <<subs, raced>>,
             warn' = [warn EXCEPT !.pc = label, !.row = subs[warn.sub]],
             label = "send" => ~AlreadyWarned(subs[warn.sub], warn.days)
      PROVE  OnceInv'
  <2>1. /\ warn'.pc = label /\ warn'.todo = warn.todo /\ warn'.sub = warn.sub
        /\ warn'.row = subs[warn.sub] /\ warn'.days = warn.days
    BY <1>1, <1>4 DEF WarnRecord
  <2>2. /\ warn.sub \in SubId /\ subs[warn.sub].expires \in Nat
    BY <1>1 DEF OnceTypes, WarnShape, RowOK
  <2>3. /\ <<warn.sub, subs[warn.sub].expires, warn.days>> \in OnFile
        /\ subs[warn.sub].user \notin raced
        => AlreadyWarned(subs[warn.sub], warn.days)
    BY <1>1 DEF OnceInv, RemindersOnRecord
  <2>4. NewReminder'
    BY <1>1, <1>4, <2>1, <2>2, <2>3 DEF NewReminder, NoDuplicateReminder, Reminder, OnFile
  <2> QED
    BY <1>1, <2>1, <2>4, OnceFrame
<1>5. CASE ReadForExpiring
  BY <1>2, <1>4, <1>5 DEF ReadForExpiring, databaseVars, serviceVars
<1>6. CASE RefreshMarked
  BY <1>2, <1>4, <1>6 DEF RefreshMarked, databaseVars, serviceVars
<1> QED
  BY <1>3, <1>5, <1>6

LEMMA SendOnce ==
    ASSUME OnceTypes, OnceTypes', RowsAge, ReminderInv, OnceInv, raced \subseteq raced',
           SendReminder
    PROVE  OnceInv'
<1>1. warn.pc = "send" /\ UNCHANGED <<subs, raced>> /\ warn \in WarnRecord
  BY DEF SendReminder, databaseVars, serviceVars, OnceTypes
<1>2. CASE warn' = WarnReady(warn.todo) /\ OnFile' \subseteq OnFile
  BY <1>1, <1>2, ReadySendsNothing, OnceFrame
<1>3. CASE OnFile' \subseteq OnFile \cup {Reminder} /\ warn' = [warn EXCEPT !.pc = "record"]
  <2>1. /\ warn'.pc = "record" /\ warn'.todo = warn.todo /\ warn'.sub = warn.sub
        /\ warn'.row = warn.row /\ warn'.days = warn.days
    BY <1>1, <1>3 DEF WarnRecord
  <2>2. /\ warn.sub \in SubId /\ Opened(subs[warn.sub]) /\ warn.days \in Nat
        /\ warn.row.user = subs[warn.sub].user
    BY <1>1 DEF OnceTypes, WarnShape
  <2>3. warn.row.user \notin raced => warn.row.expires <= subs[warn.sub].expires
    BY <1>1 DEF OnceInv, NewReminder
  <2>4. /\ Reminder[1] = warn.sub /\ Reminder[2] = warn.row.expires /\ Reminder[3] = warn.days
        /\ Reminder' = Reminder
    BY <2>1 DEF Reminder
  <2>5. RemindersOnRecord'
    <3> SUFFICES ASSUME NEW x \in OnFile'
                 PROVE  /\ Opened(subs'[x[1]])
                        /\ subs'[x[1]].user \notin raced' =>
                              /\ x[2] <= subs'[x[1]].expires
                              /\ x[2] = subs'[x[1]].expires =>
                                    \/ AlreadyWarned(subs'[x[1]], x[3])
                                    \/ warn'.pc = "record" /\ x = Reminder'
      BY DEF RemindersOnRecord
    <3>1. CASE x \in OnFile
      BY <1>1, <3>1, RecordsKept DEF OnceInv
    <3>2. CASE x = Reminder
      BY <1>1, <2>1, <2>2, <2>3, <2>4, <3>2
    <3> QED
      BY <1>3, <3>1, <3>2
  <2>6. CandidatesKnow'
    <3> SUFFICES ASSUME NEW c \in warn.todo, c.row.user \notin raced'
                 PROVE  /\ c.row.expires <= subs'[c.sub].expires
                        /\ \A x \in OnFile' :
                              x[1] = c.sub /\ x[2] = c.row.expires => AlreadyWarned(c.row, x[3])
      BY <2>1 DEF CandidatesKnow
    <3>1. c.sub # warn.sub
      BY <1>1 DEF ReminderInv
    <3> QED
      BY <1>3, <2>4, <3>1, CandidateKept DEF OnceInv
  <2>7. NewReminder'
    BY <1>1, <2>1, <2>3 DEF NewReminder, NoDuplicateReminder, ReminderInv, ReminderSaysLess
  <2> QED
    BY <2>5, <2>6, <2>7 DEF OnceInv
<1> QED
  BY <1>2, <1>3 DEF SendReminder, OnFile

LEMMA RecordOnce ==
    ASSUME OnceTypes, OnceInv, RecordReminder
    PROVE  OnceInv'
<1>1. /\ warn.pc = "record" /\ UNCHANGED <<raced, OnFile>> /\ warn' = WarnReady(warn.todo)
      /\ subs' = [subs EXCEPT ![warn.sub].warned = warn.days]
  BY DEF RecordReminder, serviceVars, OnFile
<1>2. /\ warn.sub \in SubId /\ warn.days \in Nat /\ subs \in [SubId -> Row]
      /\ Opened(subs[warn.sub])
  BY <1>1 DEF OnceTypes, WarnShape
<1>3. \A r \in SubId : /\ subs'[r].expires = subs[r].expires /\ subs'[r].user = subs[r].user
                       /\ subs'[r].status = subs[r].status
                       /\ r # warn.sub => subs'[r] = subs[r]
  BY <1>1, <1>2 DEF Row
<1>4. subs'[warn.sub].warned = warn.days
  BY <1>1, <1>2 DEF Row, Opened, NoRow
<1>5. NewReminder' /\ warn'.todo = warn.todo /\ warn'.pc = "ready"
  BY <1>1, ReadySendsNothing DEF WarnReady
<1>6. CandidatesKnow'
  BY <1>1, <1>3, <1>5 DEF CandidatesKnow, OnceInv, OnceTypes, WarnRecord, Candidate
<1>7. RemindersOnRecord'
  <2> SUFFICES ASSUME NEW x \in OnFile
               PROVE  /\ Opened(subs'[x[1]])
                      /\ subs'[x[1]].user \notin raced =>
                            /\ x[2] <= subs'[x[1]].expires
                            /\ x[2] = subs'[x[1]].expires => AlreadyWarned(subs'[x[1]], x[3])
    BY <1>1 DEF RemindersOnRecord
  <2>1. PICK r \in SubId, e \in Nat, d \in Nat : x = <<r, e, d>>
    BY DEF OnceTypes, OnFile
  <2>2. x[1] = r /\ x[2] = e /\ x[3] = d
    BY <2>1
  <2>3. /\ Opened(subs[r])
        /\ subs[r].user \notin raced =>
              /\ e <= subs[r].expires
              /\ e = subs[r].expires =>
                    AlreadyWarned(subs[r], d) \/ (warn.sub = r /\ warn.days <= d)
    <3>1. x = Reminder => warn.sub = r /\ warn.days = d
      BY <2>1 DEF Reminder
    <3> QED
      BY <1>2, <2>2, <3>1 DEF OnceInv, RemindersOnRecord
  <2>4. CASE r # warn.sub
    BY <1>3, <2>2, <2>3, <2>4
  <2>5. CASE r = warn.sub
    <3>1. AlreadyWarned(subs[r], d) => warn.days <= d
      <4>1. subs[r].warned = None \/ warn.days < subs[r].warned
        BY <1>1, <2>5 DEF OnceInv, NewReminder
      <4>2. subs[r].warned \in Nat \cup {None}
        BY <1>2 DEF Row
      <4> QED
        BY <1>2, <4>1, <4>2 DEF AlreadyWarned
    <3>2. warn.days <= d => AlreadyWarned(subs'[r], d)
      BY <1>2, <1>4, <2>5, NoneAssumption DEF AlreadyWarned
    <3> QED
      BY <1>3, <2>2, <2>3, <3>1, <3>2 DEF Opened
  <2> QED
    BY <2>4, <2>5
<1> QED
  BY <1>5, <1>6, <1>7 DEF OnceInv

LEMMA OnceStep ==
    ASSUME GrantInv, SerialInv, FreshReads, ReminderInv, OnceInv, [Next]_vars
    PROVE  OnceInv'
<1>1. OnceTypes /\ OnceTypes' /\ raced \subseteq raced' /\ warn \in WarnRecord
  <2>1. GrantInv'
    BY GrantInvStep
  <2>2. OnceTypes'
    BY <2>1 DEF GrantInv, TypeOK, WarningsTypeOK, DatabaseTypeOK, JobShape, RowsOK, OnceTypes
  <2> QED
    BY <2>2, OnceTyped, RacesStay DEF OnceTypes
<1>2. CASE RecordReminder
  BY <1>1, <1>2, RecordOnce
<1>3. CASE StartWarnings
  BY <1>1, <1>3, StartOnce
<1>4. CASE ~RecordReminder /\ ~StartWarnings
  <2>1. RowsAge
    BY <1>4, StepAges
  <2>2. CASE WarnNext \/ ReadForExpiring \/ MarkExpiring \/ RefreshMarked
    BY <1>1, <2>1, <2>2, NextCandidateOnce, MarkingOnce
  <2>3. CASE SendReminder
    BY <1>1, <2>1, <2>3, SendOnce
  <2>4. CASE UNCHANGED warningsVars
    <3>1. UNCHANGED <<warn, OnFile>>
      BY <2>4 DEF warningsVars, OnFile
    <3>2. CountsReset
      BY <1>4, NoCountRaised
    <3>3. warn.pc = "record" => warn.sub \in SubId
      BY <1>1 DEF OnceTypes, WarnShape
    <3>4. NewReminder'
      BY <1>1, <2>1, <3>1, <3>2, <3>3, UnderWayKept DEF NewReminder, NoDuplicateReminder, Reminder,
         OnFile, OnceInv, CountsReset
    <3> QED
      BY <1>1, <2>1, <3>1, <3>4, OnceFrame
  <2>5. CASE CutShort
    <3>1. OnFile' \subseteq OnFile /\ (warn.pc = "record" => Reminder \notin OnFile')
      BY <2>5 DEF CutShort, LeaveUnrecorded, OnFile
    <3>2. NewReminder' /\ warn'.todo = {}
      BY <2>5, ReadySendsNothing DEF CutShort
    <3> QED
      BY <1>1, <2>1, <3>1, <3>2, OnceFrame
  <2> QED
    BY <1>4, <2>2, <2>3, <2>4, <2>5, WarnMovers DEF WarningsStep
<1> QED
  BY <1>2, <1>3, <1>4

\* OnceInv is an invariant, for any number of rows and renewals, whatever
\* Telegram refuses or reports as refused, and wherever a run is cut short.
THEOREM OnceInvHolds == Spec => []OnceInv
<1>1. Init => OnceInv
  BY DEF Init, WarningsInit, WarnReady, OnceInv, OnFile, RemindersOnRecord, CandidatesKnow,
      NewReminder, NoDuplicateReminder
<1>2. GrantInv /\ SerialInv /\ FreshReads /\ ReminderInv /\ OnceInv /\ [Next]_vars => OnceInv'
  BY OnceStep
<1> QED
  BY <1>1, <1>2, GrantInvHolds, SerialInvHolds, FreshReadsHolds, ReminderInvHolds, PTL DEF Spec

\* What was delivered does not come again in the same cycle (_warn_one), but
\* after an error reported for it or a run cut short before its record, or to
\* somebody of whom two activations raced.
THEOREM RemindedOnce == Spec => []NoDuplicateReminder
<1>1. OnceInv => NoDuplicateReminder
  BY DEF OnceInv, NewReminder
<1> QED
  BY <1>1, OnceInvHolds, PTL

-----------------------------------------------------------------------------
(* No reminder too early.                                                  *)

\* A row keeps its expiry until it is paid for again.
LEMMA ExpiryStaysUntilPaid ==
    ASSUME GrantInv, PayerInv, [Next]_vars, NEW r \in SubId,
           NEW seen, seen \subseteq {p \in Ref : grants[p] > 0}
    PROVE  \/ subs'[r].expires = subs[r].expires /\ Bought(r)' = Bought(r)
           \/ Bought(r)' \ seen # {}
<1>1. CASE ~\E t \in Task : CommitsActivation(t)
  BY <1>1, ExpiriesStay, BoughtElsewhere DEF ExpiriesKept
<1>2. ASSUME NEW t \in Task, CommitsActivation(t)
      PROVE  \/ subs'[r].expires = subs[r].expires /\ Bought(r)' = Bought(r)
             \/ Bought(r)' \ seen # {}
  <2>1. PICK p \in Ref, own \in SubId : Buys(p, own)
    BY <1>2, CommitBuys
  <2>2. CASE r = own
    <3>1. p \in Bought(r)'
      BY <2>1, <2>2, BuyingAdds
    <3>2. p \notin seen
      BY <2>1 DEF Buys
    <3> QED
      BY <3>1, <3>2
  <2>3. CASE r # own
    BY <2>1, <2>3, BuyingAdds DEF Buys
  <2> QED
    BY <2>2, <2>3
<1> QED
  BY <1>1, <1>2

\* So a row that is due stays due.
LEMMA StaysDue ==
    ASSUME GrantInv, PayerInv, [Next]_vars, NEW r \in SubId, NEW days \in Nat,
           NEW seen, seen \subseteq {p \in Ref : grants[p] > 0}, Due(r, days, seen),
           subs[r].expires \in Nat
    PROVE  Due(r, days, seen)'
<1>1. now \in Nat /\ now' \in Nat /\ now <= now'
  BY ClockMoves DEF GrantInv, TypeOK, EnvironmentTypeOK, vars, environmentVars
<1>2. days * Day \in Nat
  BY DaysAssumption
<1>3. CASE Bought(r)' \ seen # {}
  BY <1>3 DEF Due
<1>4. CASE subs'[r].expires = subs[r].expires /\ Bought(r)' = Bought(r)
  BY <1>1, <1>2, <1>4 DEF Due
<1> QED
  BY <1>3, <1>4, ExpiryStaysUntilPaid

\* The job keeps what it holds of its candidates, drops them, or takes the next.
LEMMA DueInvStep == GrantInv /\ PayerInv /\ DueInv /\ [Next]_vars => DueInv'
<1> SUFFICES ASSUME GrantInv, PayerInv, DueInv, [Next]_vars PROVE DueInv'
  OBVIOUS
<1> DEFINE Granted == {p \in Ref : grants[p] > 0}
           Listed(c) == /\ c.seen \subseteq Granted
                        /\ subs[c.sub].expires <= c.row.expires \/ Bought(c.sub) \ c.seen # {}
<1>1. /\ warn \in WarnRecord /\ WarnShape /\ Granted \subseteq Granted'
      /\ now \in Nat /\ \A r \in SubId : RowOK(subs[r])
  BY GrantedKept DEF GrantInv, TypeOK, WarningsTypeOK, EnvironmentTypeOK, JobShape, RowsOK
<1>2. ASSUME NEW c \in warn.todo PROVE Listed(c)'
  <2>1. c.sub \in SubId /\ c.row.expires \in Nat /\ Listed(c)
    BY <1>1 DEF WarnRecord, Candidate, WarnShape, Opened, RowOK, DueInv
  <2>2. \/ subs'[c.sub].expires = subs[c.sub].expires /\ Bought(c.sub)' = Bought(c.sub)
        \/ Bought(c.sub)' \ c.seen # {}
    BY <2>1, ExpiryStaysUntilPaid
  <2> QED
    BY <1>1, <2>1, <2>2
<1>3. ASSUME warn.pc # "ready", warn'.sub = warn.sub, warn'.days = warn.days,
             warn'.seen = warn.seen
      PROVE  warn'.seen \subseteq Granted' /\ Due(warn.sub, warn.days, warn.seen)'
  <2>1. PICK r \in SubId, days \in Nat, seen \in SUBSET Granted :
           /\ r = warn.sub /\ days = warn.days /\ seen = warn.seen
           /\ Due(r, days, seen) /\ subs[r].expires \in Nat
    BY <1>1, <1>3 DEF WarnShape, DueInv, RowOK, Opened
  <2>2. Due(r, days, seen)'
    BY <2>1, StaysDue
  <2> QED
    BY <1>1, <1>3, <2>1, <2>2 DEF Due, Bought
<1>4. ASSUME NEW todo \in SUBSET warn.todo, warn' = WarnReady(todo) PROVE DueInv'
  BY <1>2, <1>4 DEF WarnReady, DueInv
<1>5. ASSUME warn.pc # "ready", warn'.sub = warn.sub, warn'.days = warn.days,
             warn'.seen = warn.seen, warn'.todo = warn.todo
      PROVE  DueInv'
  BY <1>2, <1>3, <1>5 DEF DueInv
<1>6. CASE UNCHANGED warn
  <2>1. CASE warn.pc = "ready"
    BY <1>1, <1>2, <1>6, <2>1 DEF DueInv
  <2> QED
    BY <1>5, <1>6, <2>1
<1>7. CASE StartWarnings
  <2>1. /\ warn' = WarnReady({[sub |-> r, row |-> subs[r], seen |-> Granted] : r \in ExpiringWithin})
        /\ UNCHANGED <<subs, grants>>
    BY <1>7 DEF StartWarnings, databaseVars, serviceVars
  <2>2. /\ warn'.pc = "ready" /\ warn'.seen = {}
        /\ \A c \in warn'.todo : c.row = subs[c.sub] /\ c.seen = Granted /\ c.sub \in ExpiringWithin
    BY <2>1 DEF WarnReady
  <2>3. \A c \in warn'.todo : subs'[c.sub].expires <= c.row.expires
    BY <1>1, <2>1, <2>2 DEF ExpiringWithin, RowOK, Opened, LiveStatuses
  <2> QED
    BY <2>1, <2>2, <2>3 DEF DueInv
<1>8. CASE WarnNext
  <2>1. PICK c \in warn.todo :
          \/ warn' = WarnReady(warn.todo \ {c})
          \/ \E label \in {"read", "send"} :
                warn' = [pc |-> label, todo |-> warn.todo \ {c}, sub |-> c.sub, row |-> c.row,
                         days |-> DaysRemaining(now, c.row.expires), seen |-> c.seen]
    BY <1>8 DEF WarnNext
  <2>2. CASE warn' = WarnReady(warn.todo \ {c})
    BY <1>4, <2>2
  <2>3. ASSUME NEW label \in {"read", "send"},
               warn' = [pc |-> label, todo |-> warn.todo \ {c}, sub |-> c.sub, row |-> c.row,
                        days |-> DaysRemaining(now, c.row.expires), seen |-> c.seen]
        PROVE  DueInv'
    <3>1. /\ warn'.todo \subseteq warn.todo /\ warn'.seen = c.seen /\ warn'.sub = c.sub
          /\ warn'.days = DaysRemaining(now, c.row.expires)
      BY <2>3
    <3>2. c.row.expires \in Nat /\ c.sub \in SubId /\ UNCHANGED <<now, subs>>
      BY <1>1, <1>8 DEF WarnRecord, Candidate, WarnShape, Opened, RowOK, WarnNext,
         environmentVars, databaseVars
    <3>3. PICK days \in Nat : days = warn'.days /\ c.row.expires <= now + days * Day
      BY <1>1, <3>1, <3>2, DaysRemainingIsLeast, DaysRemainingType
    <3>4. days * Day \in Nat
      BY <3>3, DaysAssumption
    <3>5. Due(warn.sub, warn.days, warn.seen)'
      <4>1. subs[c.sub].expires \in Nat
        BY <1>1, <3>2 DEF WarnShape, RowOK, Opened
      <4>2. subs'[c.sub].expires <= now' + days * Day \/ Bought(c.sub)' \ c.seen # {}
        BY <1>1, <1>2, <3>2, <3>3, <3>4, <4>1
      <4> QED
        BY <3>1, <3>3, <4>2 DEF Due, Bought
    <3> QED
      BY <1>2, <3>1, <3>5 DEF DueInv
  <2> QED
    BY <2>1, <2>2, <2>3
<1>9. CASE ReadForExpiring \/ MarkExpiring \/ RefreshMarked \/ SendReminder
  <2>1. CASE warn' = WarnReady(warn.todo)
    BY <1>4, <2>1
  <2>2. ASSUME NEW label, NEW row,
               \/ warn' = [warn EXCEPT !.pc = label]
               \/ warn' = [warn EXCEPT !.pc = label, !.row = row]
        PROVE  warn'.sub = warn.sub /\ warn'.days = warn.days /\ warn'.seen = warn.seen
               /\ warn'.todo = warn.todo
    BY <1>1, <2>2 DEF WarnRecord
  <2>3. CASE ReadForExpiring
    BY <1>5, <2>1, <2>2, <2>3 DEF ReadForExpiring
  <2>4. CASE MarkExpiring
    BY <1>5, <2>2, <2>4 DEF MarkExpiring
  <2>5. CASE RefreshMarked
    BY <1>5, <2>1, <2>2, <2>5 DEF RefreshMarked
  <2>6. CASE SendReminder
    BY <1>5, <2>1, <2>2, <2>6 DEF SendReminder
  <2> QED
    BY <1>9, <2>3, <2>4, <2>5, <2>6
<1>10. CASE RecordReminder
  BY <1>4, <1>10 DEF RecordReminder
<1>11. CASE CutShort
  BY <1>4, <1>11 DEF CutShort
<1> QED
  BY <1>6, <1>7, <1>8, <1>9, <1>10, <1>11, WarnMovers DEF WarningsStep, warningsVars

\* DueInv is an invariant, however long the job's candidates wait.
THEOREM DueInvHolds == Spec => []DueInv
<1>1. Init => DueInv
  BY DEF Init, WarningsInit, WarnReady, DueInv
<1> QED
  BY <1>1, DueInvStep, GrantInvHolds, PayerInvHolds, PTL DEF Spec

\* The days a reminder announces are not fewer than are left, but for a payment
\* made after the job listed the row (days_remaining, _warn_one).
THEOREM RemindersAreDue == Spec => []OnlyRenewedRowsAreRemindedEarly
<1>1. GrantInv /\ DueInv => OnlyRenewedRowsAreRemindedEarly
  <2> SUFFICES ASSUME GrantInv, DueInv, warn.pc \in {"mark", "send"},
                      subs[warn.sub].expires > now + warn.days * Day
               PROVE  Bought(warn.sub) \ warn.seen # {}
    BY DEF OnlyRenewedRowsAreRemindedEarly
  <2>1. /\ Due(warn.sub, warn.days, warn.seen) /\ subs[warn.sub].expires \in Nat
        /\ warn.days \in Nat /\ now \in Nat
    BY DEF GrantInv, TypeOK, EnvironmentTypeOK, JobShape, WarnShape, RowsOK, RowOK, Opened, DueInv
  <2>2. now + warn.days * Day \in Nat
    BY <2>1, DaysAssumption
  <2> QED
    BY <2>1, <2>2 DEF Due
<1> QED
  BY <1>1, DueInvHolds, GrantInvHolds, PTL

=============================================================================
