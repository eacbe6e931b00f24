---------------------------- MODULE AdminReport ----------------------------
(***************************************************************************)
(* The admin's /subscribers report (handlers.admin_subscribers) beside the *)
(* whole system.  It writes nothing.  Its query is several statements:     *)
(* first the live rows, then (selectinload) the payments of those rows,    *)
(* and commits fall in between.  The name and channel lookups that follow  *)
(* only add text to the lines, and are left out.                           *)
(***************************************************************************)
EXTENDS SubscriptionSystem

VARIABLE report   \* the report in progress; bound: one is sent

reportVars == <<vars, report>>

ReportRecord == [pc     : {"ready", "load", "send", "sent"},
                 rows   : SUBSET SubId,    \* one line each
                 dashes : SUBSET SubId]    \* lines with no payment to name a provider

ReportReady == [pc |-> "ready", rows |-> {}, dashes |-> {}]

\* The report is one of the records above.
ReportTypeOK == report \in ReportRecord

ReportInit == Init /\ report = ReportReady

\* list_active_or_expiring, its first statement.
ListActiveOrExpiring == {r \in SubId : subs[r].status \in LiveStatuses}

StartReport ==
    /\ report.pc = "ready"
    /\ report' = [pc |-> "load", rows |-> ListActiveOrExpiring, dashes |-> {}]

\* Mutant: the payments' side of the join decides who has no provider.
LoadUnmatched ==
    /\ report.pc = "load"
    /\ report' = [report EXCEPT !.pc = "send",
                                !.dashes = {payments[p] : p \in Ref} \ report.rows]

\* selectinload(Subscription.payments) reads the payments as they are by now.
LoadPayments ==
    /\ report.pc = "load"
    /\ report' = [report EXCEPT !.pc = "send",
                                !.dashes = {r \in report.rows :
                                              \A p \in Ref : payments[p] # r}]

SendReport == report.pc = "send" /\ report' = [ReportReady EXCEPT !.pc = "sent"]

\* A refused message or a failed statement ends the handler.
AbandonReport == report.pc \in {"load", "send"} /\ report' = ReportReady

ReportStep == StartReport \/ LoadPayments \/ SendReport \/ AbandonReport

ReportNext ==
    \/ RunningNext /\ UNCHANGED report
    \/ Crash /\ report' = IF report.pc = "sent" THEN report ELSE ReportReady
    \/ ReportStep /\ UNCHANGED vars

ReportSpec == ReportInit /\ [][ReportNext]_reportVars

-----------------------------------------------------------------------------

\* Every line can name a provider: between the two statements a confirmation
\* may re-point a payment, but never away from a row that was live.
EveryLineNamesProvider == report.dashes = {}

=============================================================================
