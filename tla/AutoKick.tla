------------------------------ MODULE AutoKick ------------------------------
(***************************************************************************)
(* The daily job that closes access to subscriptions past their expiry     *)
(* (app/jobs/auto_kick.py).  Every hop of the state machine is a session   *)
(* of its own (a SELECT, then an UPDATE with its COMMIT), and so is every  *)
(* call to Telegram: renewals, and the other job, run in between.          *)
(***************************************************************************)
EXTENDS ChannelAccess

CONSTANTS
    KickScheduled,   \* bound: whether this instance runs the job
    DryRunKick,      \* settings.dry_run_kick
    Protected        \* channel administrators and the creator

ASSUME KickAssumption ==
    KickScheduled \in BOOLEAN /\ DryRunKick \in BOOLEAN /\ Protected \subseteq TelegramId

VARIABLE kick   \* the run in progress

KickLabel == {"ready", "read", "write", "find_other", "check_member", "ban", "unban"}

\* As listed; with the payments granted by then, which is history.
KickCandidate == [sub : SubId, status : LiveStatuses, seen : SUBSET Ref]

KickRecord == [pc   : KickLabel,
               todo : SUBSET KickCandidate,
               sub  : SubId \cup {None},
               row  : Row,                                           \* as last read
               hop  : {"expiring", "expired", "kicked", None},       \* the hop under way
               seen : SUBSET Ref,   \* history: payments granted when rows were last listed
               blind : BOOLEAN]     \* history: the look at the user's role failed

KickReady(todo) ==
    [pc |-> "ready", todo |-> todo, sub |-> None, row |-> NoRow, hop |-> None, seen |-> {},
     blind |-> FALSE]

KickTypeOK == kick \in KickRecord

KickInit == kick = KickReady({})

\* Mutant: only active rows are listed.
ExpiredActive == {r \in SubId : subs[r].status = "active" /\ subs[r].expires < now}

\* Mutant: a row is overdue at the very instant of its expiry.
ExpiredByNow == {r \in SubId : /\ subs[r].status \in LiveStatuses
                               /\ subs[r].expires # None
                               /\ subs[r].expires <= now}

\* list_expired()
Expired == {r \in SubId : /\ subs[r].status \in LiveStatuses
                          /\ subs[r].expires # None
                          /\ subs[r].expires < now}

StartAutoKick ==
    /\ KickScheduled
    /\ kick = KickReady({})
    /\ Expired # {}
    /\ kick' = KickReady({[sub |-> r, status |-> subs[r].status,
                           seen |-> {p \in Ref : grants[p] > 0}] : r \in Expired})
    /\ UNCHANGED <<environmentVars, databaseVars, serviceVars, channelVars>>

KickNext ==
    /\ kick.pc = "ready"
    /\ \E c \in kick.todo :
          kick' = [pc |-> "read", todo |-> kick.todo \ {c}, sub |-> c.sub, row |-> NoRow,
                   hop |-> IF c.status = "active" THEN "expiring" ELSE "expired",
                   seen |-> c.seen, blind |-> FALSE]
    /\ UNCHANGED <<environmentVars, databaseVars, serviceVars, channelVars>>

\* update_status: db.get and transition, whose InvalidTransitionError means
\* "lost a race" and drops the candidate ...
ReadHop ==
    /\ kick.pc = "read"
    /\ kick' = IF CanTransition(subs[kick.sub].status, kick.hop)
               THEN [kick EXCEPT !.pc = "write", !.row = subs[kick.sub]]
               ELSE KickReady(kick.todo)
    /\ UNCHANGED <<environmentVars, databaseVars, serviceVars, channelVars>>

\* ... then the UPDATE and COMMIT, and on to the next hop.
WriteHop ==
    /\ kick.pc = "write"
    /\ subs' = [subs EXCEPT ![kick.sub] =
                  Flush(@, kick.row, WithStatus(kick.row, kick.hop))]
    /\ kick' = CASE kick.hop = "expiring" -> [kick EXCEPT !.pc = "read", !.hop = "expired"]
                 [] kick.hop = "expired"  -> [kick EXCEPT !.pc = "read", !.hop = "kicked"]
                 [] OTHER                 -> [kick EXCEPT !.pc = "find_other"]
    /\ UNCHANGED <<environmentVars, users, payments, serviceVars, channelVars>>

\* No live row with time left: on to the ban, and (for PayersKeepTheirPlace)
\* what had been granted when the job looked.
LookedUp == [kick EXCEPT !.pc = "check_member", !.seen = {p \in Ref : grants[p] > 0}]

\* Mutant: whether the other row has time left is looked at the wrong way round.
FindOtherLapsed ==
    /\ kick.pc = "find_other"
    /\ \/ /\ \E r \in LiveOf(kick.row.user) :
                IsLatestLive(r, kick.row.user) /\ subs[r].expires < now
          /\ kick' = KickReady(kick.todo)
       \/ /\ \/ LiveOf(kick.row.user) = {}
             \/ \E r \in LiveOf(kick.row.user) :
                   IsLatestLive(r, kick.row.user) /\ subs[r].expires >= now
          /\ kick' = IF ChannelConfigured THEN LookedUp ELSE KickReady(kick.todo)
    /\ UNCHANGED <<environmentVars, databaseVars, serviceVars, channelVars>>

\* Someone who still pays under another row keeps their place.
FindOtherLive ==
    /\ kick.pc = "find_other"
    /\ \/ /\ \E r \in LiveOf(kick.row.user) :
                IsLatestLive(r, kick.row.user) /\ subs[r].expires > now
          /\ kick' = KickReady(kick.todo)
       \/ /\ \/ LiveOf(kick.row.user) = {}
             \/ \E r \in LiveOf(kick.row.user) :
                   IsLatestLive(r, kick.row.user) /\ subs[r].expires <= now
          /\ kick' = IF ChannelConfigured THEN LookedUp ELSE KickReady(kick.todo)
    /\ UNCHANGED <<environmentVars, databaseVars, serviceVars, channelVars>>

\* Mutant: nobody is protected.
CheckNobody ==
    /\ kick.pc = "check_member"
    /\ kick' = IF DryRunKick THEN KickReady(kick.todo) ELSE [kick EXCEPT !.pc = "ban"]
    /\ UNCHANGED <<environmentVars, databaseVars, serviceVars, channelVars>>

\* A lookup that fails protects no one.
CheckMember ==
    /\ kick.pc = "check_member"
    /\ \/ /\ kick.row.user \in Protected \/ DryRunKick
          /\ kick' = KickReady(kick.todo)
          /\ UNCHANGED faults
       \/ /\ kick.row.user \notin Protected /\ ~DryRunKick
          /\ kick' = [kick EXCEPT !.pc = "ban"]
          /\ UNCHANGED faults
       \/ /\ FaultOccurs("telegram")
          /\ kick' = IF DryRunKick THEN KickReady(kick.todo)
                     ELSE [kick EXCEPT !.pc = "ban", !.blind = TRUE]
    /\ UNCHANGED <<now, databaseVars, serviceVars, channelVars>>

Ban(u) == members' = members \ {u} /\ banned' = banned \cup {u}

\* Mutant: a ban is not followed by the unban.
BanForever ==
    /\ kick.pc = "ban"
    /\ Ban(kick.row.user)
    /\ kick' = KickReady(kick.todo)
    /\ UNCHANGED <<environmentVars, databaseVars, serviceVars, links, told, untold,
                   leftBanned>>

\* An error from either call skips what is left of the removal, also when the
\* call took effect and only its answer was lost.
BanMember ==
    /\ kick.pc = "ban"
    /\ \/ /\ Ban(kick.row.user)
          /\ kick' = [kick EXCEPT !.pc = "unban"]
          /\ UNCHANGED <<faults, leftBanned>>
       \/ /\ FaultOccurs("telegram")
          /\ kick' = KickReady(kick.todo)
          /\ \/ UNCHANGED <<members, banned, leftBanned>>
             \/ Ban(kick.row.user) /\ leftBanned' = leftBanned \cup {kick.row.user}
    /\ UNCHANGED <<now, databaseVars, serviceVars, links, told, untold>>

UnbanMember ==
    /\ kick.pc = "unban"
    /\ kick' = KickReady(kick.todo)
    /\ \/ /\ banned' = banned \ {kick.row.user}
          /\ leftBanned' = leftBanned \ {kick.row.user}
          /\ UNCHANGED faults \/ FaultOccurs("telegram")
       \/ /\ FaultOccurs("telegram")
          /\ leftBanned' = leftBanned \cup {kick.row.user}
          /\ UNCHANGED banned
    /\ UNCHANGED <<now, databaseVars, serviceVars, members, links, told, untold>>

\* A failed statement ends the run, and with it the rest of the batch.
KickFails ==
    /\ kick.pc \in {"read", "write", "find_other"}
    /\ FaultOccurs("database")
    /\ kick' = KickReady({})
    /\ UNCHANGED <<now, databaseVars, serviceVars, channelVars>>

KickStep ==
    \/ StartAutoKick \/ KickNext \/ ReadHop \/ WriteHop
    \/ FindOtherLive \/ CheckMember \/ BanMember \/ UnbanMember

=============================================================================
