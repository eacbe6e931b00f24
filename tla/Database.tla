------------------------------ MODULE Database ------------------------------
(***************************************************************************)
(* The committed contents of the Postgres tables (app/db/models.py) and    *)
(* the queries every component runs on them (app/db/repositories.py).      *)
(*                                                                         *)
(* The isolation level is READ COMMITTED: each statement sees what is      *)
(* committed when it runs, so a query is an operator of the current state, *)
(* and whatever a session keeps of its answer may be stale by the time it  *)
(* is used.  The ORM's UPDATE carries only the columns whose value differs *)
(* from the one that session read: that is Flush.                          *)
(***************************************************************************)
EXTENDS Environment

CONSTANTS
    TelegramId,   \* payers
    SubId,        \* subscriptions.id; bound: the rows of one behaviour
    Session,      \* Stripe checkout session ids
    Uuid,         \* the uuid4 refs of /activate calls
    Message       \* screenshot messages, as (chat, message_id)

\* payments are unique on (provider, provider_ref).  Each of the three
\* providers mints its own refs, so a member of Ref stands for the pair.
Ref == Session \cup Uuid \cup Message

ASSUME DatabaseAssumption ==
    /\ None \notin TelegramId /\ None \notin SubId /\ None \notin Ref
    /\ Session \cap Uuid = {} /\ Session \cap Message = {} /\ Uuid \cap Message = {}

VARIABLES
    users,      \* telegram ids with a users row
    subs,       \* the subscriptions table; NoRow where no row has that id yet
    payments    \* the subscription_id of each recorded payment, None where absent

databaseVars == <<users, subs, payments>>

Row == [user    : TelegramId \cup {None},
        status  : Status \cup {"absent"},
        expires : Nat \cup {None},
        warned  : Nat \cup {None}]      \* last_warning_days_left

NoRow == [user |-> None, status |-> "absent", expires |-> None, warned |-> None]

PendingRow(u) == [user |-> u, status |-> "pending", expires |-> None, warned |-> None]

DatabaseTypeOK ==
    /\ users \subseteq TelegramId
    /\ subs \in [SubId -> Row]
    /\ payments \in [Ref -> SubId \cup {None}]

DatabaseInit ==
    /\ users = {}
    /\ subs = [r \in SubId |-> NoRow]
    /\ payments = [p \in Ref |-> None]

\* Mutant: the query forgets its user_id filter.
LiveOfAnyone(u) == {r \in SubId : subs[r].status \in LiveStatuses}

LiveOf(u) == {r \in SubId : subs[r].user = u /\ subs[r].status \in LiveStatuses}

\* A row get_active_or_expiring_for_user(u) may return: one with the latest
\* expires_at (Postgres leaves the order of equal ones open).
IsLatestLive(r, u) ==
    /\ r \in LiveOf(u)
    /\ \A other \in LiveOf(u) : subs[other].expires <= subs[r].expires

\* list_users_with_multiple_live_subscriptions, logged at every start.
UsersWithMultipleLive == {u \in TelegramId : \E r1, r2 \in LiveOf(u) : r1 # r2}

\* update_status on a row a session has read.
WithStatus(row, status) == [row EXCEPT !.status = status]

\* A stored row after a session that read it as `read` flushes it as `written`.
Flush(stored, read, written) ==
    IF stored = NoRow THEN written
    ELSE [column \in DOMAIN stored |->
            IF written[column] = read[column] THEN stored[column] ELSE written[column]]

=============================================================================
