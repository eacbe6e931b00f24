--------------------------- MODULE PaymentLedger ---------------------------
(***************************************************************************)
(* What the bot promises about payments, without handlers, transactions,   *)
(* rows or retries: a payment is granted at most once, for the one who     *)
(* made it, only after its money has arrived (a session) or its screenshot *)
(* is on file (a message), and Stripe may forget a paid session only when  *)
(* nothing is left to do for it.  Nothing is ever taken back.              *)
(***************************************************************************)
CONSTANTS None, TelegramId, Session, Uuid, Message, Payer, Sender

VARIABLES
    settled,    \* sessions whose money has arrived
    waiting,    \* screenshots on file and not granted
    granted,    \* payments that have bought their period
    account,    \* whose each recorded payment is, None for an unknown one
    answered    \* settled sessions Stripe no longer asks about

ledgerVars == <<settled, waiting, granted, account, answered>>

Init ==
    /\ settled = {} /\ waiting = {} /\ granted = {} /\ answered = {}
    /\ account = [p \in Session \cup Uuid \cup Message |-> None]

\* A payment is granted to u, and no other payment changes hands.
Credit(p, u) ==
    /\ p \notin granted
    /\ granted' = granted \cup {p}
    /\ account' = [account EXCEPT ![p] = u]
    /\ UNCHANGED <<settled, answered>>

Settle(s) ==
    /\ s \notin settled
    /\ settled' = settled \cup {s}
    /\ UNCHANGED <<waiting, granted, account, answered>>

File(m) ==
    /\ m \notin waiting \cup granted
    /\ waiting' = waiting \cup {m}
    /\ account' = [account EXCEPT ![m] = Sender[m]]
    /\ UNCHANGED <<settled, granted, answered>>

GrantSession(s) ==
    /\ s \in settled /\ Payer[s] # None
    /\ Credit(s, Payer[s])
    /\ UNCHANGED waiting

GrantScreenshot(m) ==
    /\ m \in waiting
    /\ waiting' = waiting \ {m}
    /\ Credit(m, Sender[m])

GrantByAdmin(p, u) == Credit(p, u) /\ UNCHANGED waiting

Answer(s) ==
    /\ s \in settled
    /\ s \in granted \/ Payer[s] = None
    /\ answered' = answered \cup {s}
    /\ UNCHANGED <<settled, waiting, granted, account>>

Next ==
    \/ \E s \in Session : Settle(s) \/ GrantSession(s) \/ Answer(s)
    \/ \E m \in Message : File(m) \/ GrantScreenshot(m)
    \/ \E p \in Uuid, u \in TelegramId : GrantByAdmin(p, u)

Spec == Init /\ [][Next]_ledgerVars

=============================================================================
