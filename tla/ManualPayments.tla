--------------------------- MODULE ManualPayments ---------------------------
(***************************************************************************)
(* What users and the admin ask of the bot itself (app/handlers.py): the   *)
(* screenshot a payer sends, the admin's confirm button under it, the      *)
(* admin's /activate and /invite, and the users row a question creates.    *)
(***************************************************************************)
EXTENDS ChannelAccess

CONSTANTS
    Sender,    \* who sends each screenshot
    MaxLinks   \* bound: /invite is not used for holders of that many links

ASSUME SenderAssumption == Sender \in [Message -> TelegramId]
ASSUME LinksAssumption == MaxLinks \in Nat

VARIABLES
    received,   \* screenshots whose update was handed to a handler
    buttons     \* placeholders whose confirm button the admin has

manualVars == <<received, buttons>>

ManualTypeOK ==
    /\ received \subseteq Message
    /\ buttons \subseteq SubId

ManualInit == received = {} /\ buttons = {}

\* aiogram hands an update to a handler once, and drops those that came in
\* while the process was down.
ReceiveScreenshot(t, m) ==
    /\ At(t, "idle")
    /\ m \notin received
    /\ received' = received \cup {m}
    /\ task' = [task EXCEPT ![t] = Starting("save_user", m, Sender[m], None)]
    /\ UNCHANGED <<environmentVars, databaseVars, grants, grantedAt, raced, channelVars,
                   buttons>>

\* get_or_create, create and create again: three sessions, three commits.
SaveUser(t) ==
    /\ At(t, "save_user")
    /\ \A other \in Task : ~InsertsUser(other, task[t].user)
    /\ users' = users \cup {task[t].user}
    /\ Goto(t, "save_placeholder")
    /\ UNCHANGED <<environmentVars, subs, payments, grants, grantedAt, raced, channelVars,
                   manualVars>>

SavePlaceholder(t) ==
    /\ At(t, "save_placeholder")
    /\ \E r \in FreeIds :
          /\ subs' = [subs EXCEPT ![r] = PendingRow(task[t].user)]
          /\ task' = [task EXCEPT ![t].pc = "save_payment", ![t].pending = r]
    /\ UNCHANGED <<environmentVars, users, payments, grants, grantedAt, raced, channelVars,
                   manualVars>>

SavePayment(t) ==
    /\ At(t, "save_payment")
    /\ payments' = [payments EXCEPT ![task[t].ref] = task[t].pending]
    /\ Goto(t, "forward")
    /\ UNCHANGED <<environmentVars, users, subs, grants, grantedAt, raced, channelVars,
                   manualVars>>

\* Mutant: a screenshot sent as a document goes out without the button.
ForwardWithoutButton(t) ==
    /\ At(t, "forward")
    /\ \/ UNCHANGED <<buttons, faults>>
       \/ buttons' = buttons \cup {task[t].pending} /\ UNCHANGED faults
       \/ FaultOccurs("telegram") /\ UNCHANGED buttons
    /\ Goto(t, "thank")
    /\ UNCHANGED <<now, databaseVars, grants, grantedAt, raced, channelVars, received>>

\* Whether or not the admin receives anything, and whatever Telegram reports
\* of it, the payer is thanked next.
ForwardScreenshot(t) ==
    /\ At(t, "forward")
    /\ \/ buttons' = buttons \cup {task[t].pending} /\ (UNCHANGED faults \/ FaultOccurs("telegram"))
       \/ FaultOccurs("telegram") /\ UNCHANGED buttons
    /\ Goto(t, "thank")
    /\ UNCHANGED <<now, databaseVars, grants, grantedAt, raced, channelVars, received>>

ThankSender(t) ==
    /\ At(t, "thank")
    /\ UNCHANGED faults \/ FaultOccurs("telegram")
    /\ End(t)
    /\ UNCHANGED <<now, databaseVars, grants, grantedAt, raced, channelVars, manualVars>>

\* The button goes away only once a confirmation got through, and a press may
\* be under way by then: any number of them may come.
PressConfirm(t, r) ==
    /\ At(t, "idle")
    /\ r \in buttons
    /\ task' = [task EXCEPT ![t] = Starting("lock", None, None, r)]
    /\ UNCHANGED <<environmentVars, databaseVars, grants, grantedAt, raced, channelVars,
                   manualVars>>

\* The ref is new at every call.
AdminActivate(t, p, u) ==
    /\ At(t, "idle")
    /\ payments[p] = None
    /\ \A other \in Task : task[other].ref # p
    /\ BeginActivation(t, p, u)
    /\ UNCHANGED <<environmentVars, databaseVars, grants, grantedAt, raced, channelVars,
                   manualVars>>

-----------------------------------------------------------------------------

\* Mutant: anyone the bot knows is invited.
AdminInviteAnyone(t, u) ==
    /\ At(t, "idle")
    /\ u \in users
    /\ ChannelConfigured
    /\ links[u] < MaxLinks
    /\ task' = [task EXCEPT ![t] = Starting("invite", None, u, None)]
    /\ UNCHANGED <<environmentVars, databaseVars, grants, grantedAt, raced, channelVars,
                   manualVars>>

\* /invite, up to the call that creates the link: refused without a live row
\* or without a channel.
AdminInvite(t, u) ==
    /\ At(t, "idle")
    /\ LiveOf(u) # {}
    /\ ChannelConfigured
    /\ links[u] < MaxLinks
    /\ task' = [task EXCEPT ![t] = Starting("invite", None, u, None)]
    /\ UNCHANGED <<environmentVars, databaseVars, grants, grantedAt, raced, channelVars,
                   manualVars>>

CreateFreshLink(t) ==
    /\ At(t, "invite")
    /\ \/ Goto(t, "send_invite") /\ UNCHANGED faults
       \/ End(t) /\ FaultOccurs("telegram")
    /\ UNCHANGED <<now, databaseVars, grants, grantedAt, raced, channelVars, manualVars>>

\* If the DM is refused the admin is asked to pass the link on, and may.
SendFreshLink(t) ==
    /\ At(t, "send_invite")
    /\ \/ HandLink(task[t].user) /\ (UNCHANGED faults \/ FaultOccurs("telegram"))
       \/ UNCHANGED links /\ FaultOccurs("telegram")
    /\ End(t)
    /\ UNCHANGED <<now, databaseVars, grants, grantedAt, raced, members, banned, told,
                   untold,
                   leftBanned, manualVars>>

\* A question (receive_question) makes a users row for someone unknown.
RegisterUser(u) ==
    /\ \A t \in Task : ~InsertsUser(t, u)
    /\ users' = users \cup {u}
    /\ UNCHANGED <<environmentVars, subs, payments, serviceVars, channelVars, manualVars>>

\* A statement or a call of a handler that keeps nothing here (a question, a
\* menu) fails, and aiogram logs it.
OtherHandlerFails ==
    /\ FaultOccurs("database") \/ FaultOccurs("telegram")
    /\ UNCHANGED <<now, databaseVars, serviceVars, channelVars, manualVars>>

ScreenshotStep(t) ==
    \/ SaveUser(t) \/ SavePlaceholder(t) \/ SavePayment(t)
    \/ ForwardScreenshot(t) \/ ThankSender(t)

InviteStep(t) == CreateFreshLink(t) \/ SendFreshLink(t)

=============================================================================
