------------------------- MODULE ExpirationWarnings -------------------------
(***************************************************************************)
(* The daily reminder job (app/jobs/expiration_warnings.py).  APScheduler  *)
(* never runs two instances of it.  The candidates are rows as the first   *)
(* query returned them; each may be stale when its turn comes.             *)
(***************************************************************************)
EXTENDS ChannelAccess

CONSTANT WarningsScheduled   \* bound: whether this instance runs the job

ASSUME WarningsAssumption == WarningsScheduled \in BOOLEAN

VARIABLES
    warn,        \* the run in progress
    reminders,   \* reminders delivered, as (subscription, its expiry, days left)
    unrecorded   \* history: those whose last delivery was reported as failed, or
                 \* whose run was cut short between the delivery and its record

warningsVars == <<warn, reminders, unrecorded>>

\* As listed; with the payments granted by then, which is history.
Candidate == [sub : SubId, row : Row, seen : SUBSET Ref]

WarnLabel == {"ready", "read", "mark", "refresh", "send", "record"}

WarnRecord == [pc   : WarnLabel,
               todo : SUBSET Candidate,
               sub  : SubId \cup {None},
               row  : Row,                  \* as last read
               days : Nat \cup {None},      \* days_left
               seen : SUBSET Ref]           \* history: the candidate's

WarnReady(todo) ==
    [pc |-> "ready", todo |-> todo, sub |-> None, row |-> NoRow, days |-> None, seen |-> {}]

WarningsTypeOK ==
    /\ warn \in WarnRecord
    /\ reminders \subseteq (SubId \X Nat \X Nat)
    /\ unrecorded \subseteq (SubId \X Nat \X Nat)

WarningsInit == warn = WarnReady({}) /\ reminders = {} /\ unrecorded = {}

\* The reminder under way; and what becomes of the history if its record is cut.
Reminder == <<warn.sub, warn.row.expires, warn.days>>

LeaveUnrecorded ==
    unrecorded' = unrecorded \cup (IF warn.pc = "record" THEN {Reminder} ELSE {})

\* list_expiring_within(WARNING_WINDOW_DAYS)
ExpiringWithin ==
    {r \in SubId : /\ subs[r].status \in LiveStatuses
                   /\ subs[r].expires # None
                   /\ subs[r].expires >= now
                   /\ subs[r].expires <= now + WarningWindowDays * Day}

StartWarnings ==
    /\ WarningsScheduled
    /\ warn = WarnReady({})
    /\ ExpiringWithin # {}
    /\ warn' = WarnReady({[sub |-> r, row |-> subs[r],
                           seen |-> {p \in Ref : grants[p] > 0}] : r \in ExpiringWithin})
    /\ UNCHANGED <<environmentVars, databaseVars, serviceVars, channelVars, reminders,
                   unrecorded>>

\* Mutant: off by one on the count already sent.
WarnedForLess(row, days) == row.warned # None /\ row.warned < days

\* A reminder for this count, or for a later day of the cycle, is on record.
AlreadyWarned(row, days) == row.warned # None /\ row.warned <= days

\* _warn_one up to its first write.
WarnNext ==
    /\ warn.pc = "ready"
    /\ \E c \in warn.todo :
          LET days == DaysRemaining(now, c.row.expires)
              rest == warn.todo \ {c}
              Continue(label) == [pc |-> label, todo |-> rest, sub |-> c.sub,
                                  row |-> c.row, days |-> days, seen |-> c.seen]
          IN  \/ /\ \/ days > WarningWindowDays
                    \/ c.row.status # "active" /\ AlreadyWarned(c.row, days)
                 /\ warn' = WarnReady(rest)
              \/ /\ days <= WarningWindowDays
                 /\ c.row.status = "active"
                 /\ warn' = Continue("read")
              \/ /\ days <= WarningWindowDays
                 /\ c.row.status # "active" /\ ~AlreadyWarned(c.row, days)
                 /\ warn' = Continue("send")
    /\ UNCHANGED <<environmentVars, databaseVars, serviceVars, channelVars, reminders,
                   unrecorded>>

\* update_status(EXPIRING): db.get and transition ...
ReadForExpiring ==
    /\ warn.pc = "read"
    /\ warn' = IF CanTransition(subs[warn.sub].status, "expiring")
               THEN [warn EXCEPT !.pc = "mark", !.row = subs[warn.sub]]
               ELSE WarnReady(warn.todo)
    /\ UNCHANGED <<environmentVars, databaseVars, serviceVars, channelVars, reminders,
                   unrecorded>>

\* ... then the UPDATE, which other commits may have preceded.
MarkExpiring ==
    /\ warn.pc = "mark"
    /\ subs' = [subs EXCEPT ![warn.sub] =
                  Flush(@, warn.row, WithStatus(warn.row, "expiring"))]
    /\ raced' = IF subs[warn.sub].status = warn.row.status THEN raced
                ELSE raced \cup {warn.row.user}
    /\ warn' = [warn EXCEPT !.pc = "refresh"]
    /\ UNCHANGED <<environmentVars, users, payments, task, grants, grantedAt, channelVars,
                   reminders, unrecorded>>

\* Mutant: the refreshed row is not checked again.
RefreshUnchecked ==
    /\ warn.pc = "refresh"
    /\ warn' = [warn EXCEPT !.pc = "send", !.row = subs[warn.sub]]
    /\ UNCHANGED <<environmentVars, databaseVars, serviceVars, channelVars, reminders,
                   unrecorded>>

RefreshMarked ==
    /\ warn.pc = "refresh"
    /\ warn' = IF AlreadyWarned(subs[warn.sub], warn.days)
               THEN WarnReady(warn.todo)
               ELSE [warn EXCEPT !.pc = "send", !.row = subs[warn.sub]]
    /\ UNCHANGED <<environmentVars, databaseVars, serviceVars, channelVars, reminders,
                   unrecorded>>

\* A failed DM leaves the reminder unrecorded, to be retried by a later run,
\* even if it was delivered and only the answer was lost.
SendReminder ==
    /\ warn.pc = "send"
    /\ \/ /\ reminders' = reminders \cup {Reminder}
          /\ unrecorded' = unrecorded \ {Reminder}
          /\ warn' = [warn EXCEPT !.pc = "record"]
          /\ UNCHANGED faults
       \/ /\ FaultOccurs("telegram")
          /\ warn' = WarnReady(warn.todo)
          /\ \/ UNCHANGED <<reminders, unrecorded>>
             \/ /\ reminders' = reminders \cup {Reminder}
                /\ unrecorded' = unrecorded \cup {Reminder}
    /\ UNCHANGED <<now, databaseVars, serviceVars, channelVars>>

\* set_last_warning_days_left
RecordReminder ==
    /\ warn.pc = "record"
    /\ subs' = [subs EXCEPT ![warn.sub].warned = warn.days]
    /\ warn' = WarnReady(warn.todo)
    /\ UNCHANGED <<environmentVars, users, payments, serviceVars, channelVars, reminders,
                   unrecorded>>

\* A failed statement ends the run: nothing in the job catches it.
WarningsFail ==
    /\ warn.pc # "ready"
    /\ FaultOccurs("database")
    /\ warn' = WarnReady({})
    /\ LeaveUnrecorded
    /\ UNCHANGED <<now, databaseVars, serviceVars, channelVars, reminders>>

WarningsStep ==
    \/ StartWarnings \/ WarnNext \/ ReadForExpiring \/ MarkExpiring
    \/ RefreshMarked \/ SendReminder \/ RecordReminder

=============================================================================
