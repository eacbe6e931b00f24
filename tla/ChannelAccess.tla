--------------------------- MODULE ChannelAccess ---------------------------
(***************************************************************************)
(* What Telegram knows: who is in the channel, who is banned from it, who  *)
(* holds an unused single-use invite link, and which payers were told that *)
(* their payment landed.  Its own actions are confirm_and_grant_access     *)
(* (app/services/channel_access.py) and the DM of handlers.confirm_payment.*)
(***************************************************************************)
EXTENDS PaymentService

CONSTANT ChannelConfigured   \* CHANNEL_ID is set

ASSUME ChannelAssumption == ChannelConfigured \in BOOLEAN

VARIABLES
    members,   \* telegram ids in the channel
    banned,    \* telegram ids banned from it
    links,     \* how many unused single-use invite links each payer holds
    told,      \* refs whose payer received the confirmation
    untold,    \* history: refs whose confirmation was refused, or whose handler
               \* was cut short between the COMMIT and the confirmation
    leftBanned \* history: users whose last removal was cut short before the unban

channelVars == <<members, banned, links, told, untold, leftBanned>>

ChannelTypeOK ==
    /\ members \subseteq TelegramId
    /\ banned \subseteq TelegramId
    /\ links \in [TelegramId -> Nat]
    /\ told \subseteq Ref /\ untold \subseteq Ref
    /\ leftBanned \subseteq TelegramId

ChannelInit ==
    /\ members = {} /\ banned = {} /\ leftBanned = {}
    /\ links = [u \in TelegramId |-> 0]
    /\ told = {} /\ untold = {}

\* The awaits between the COMMIT of an activation and the DM about it.
AfterCommitLabels == {"create_link", "send_link", "confirm_access", "notify"}

Confirming(t) == task[t].pc \in AfterCommitLabels

\* Nothing repeats the confirmation that these handlers will not send.
LeaveUntold(handlers) ==
    untold' = untold \cup {task[t].ref : t \in {t \in handlers : Confirming(t)}}

HandLink(u) == links' = [links EXCEPT ![u] = @ + 1]

\* Without a link the confirmation goes out all the same.
CreateInviteLink(t) ==
    /\ At(t, "create_link")
    /\ \/ ChannelConfigured /\ Goto(t, "send_link") /\ UNCHANGED faults
       \/ ~ChannelConfigured /\ Goto(t, "confirm_access") /\ UNCHANGED faults
       \/ ChannelConfigured /\ Goto(t, "confirm_access") /\ FaultOccurs("telegram")
    /\ UNCHANGED <<now, databaseVars, grants, grantedAt, raced, channelVars>>

\* Mutant: the payer hears only of a link.
SendLinkOnly(t) ==
    /\ task[t].pc \in {"send_link", "confirm_access", "notify"}
    /\ \/ /\ At(t, "send_link")
          /\ told' = told \cup {task[t].ref}
          /\ HandLink(task[t].user)
          /\ UNCHANGED faults
       \/ /\ ~At(t, "send_link")
          /\ UNCHANGED <<faults, told, links>>
    /\ \/ task[t].ref \in Session /\ Goto(t, "respond")
       \/ task[t].ref \notin Session /\ End(t)
    /\ UNCHANGED <<now, databaseVars, grants, grantedAt, raced, members, banned, untold,
                   leftBanned>>

\* A refused message is logged and swallowed; one whose answer is lost on the
\* way back was delivered.  Only the webhook still has a response to send.
SendConfirmation(t) ==
    /\ task[t].pc \in {"send_link", "confirm_access", "notify"}
    /\ \/ /\ told' = told \cup {task[t].ref}
          /\ IF At(t, "send_link") THEN HandLink(task[t].user) ELSE UNCHANGED links
          /\ UNCHANGED faults \/ FaultOccurs("telegram")
          /\ UNCHANGED untold
       \/ /\ FaultOccurs("telegram")
          /\ LeaveUntold({t})
          /\ UNCHANGED <<told, links>>
    /\ \/ task[t].ref \in Session /\ Goto(t, "respond")
       \/ task[t].ref \notin Session /\ End(t)
    /\ UNCHANGED <<now, databaseVars, grants, grantedAt, raced, members, banned,
                   leftBanned>>

\* The payer follows a link; for a member it leads nowhere and is not used up.
JoinChannel(u) ==
    /\ links[u] > 0
    /\ u \notin members \cup banned
    /\ links' = [links EXCEPT ![u] = @ - 1]
    /\ members' = members \cup {u}
    /\ UNCHANGED <<environmentVars, databaseVars, serviceVars, banned, told, untold,
                   leftBanned>>

AccessStep(t) == CreateInviteLink(t) \/ SendConfirmation(t)

=============================================================================
