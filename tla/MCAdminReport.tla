---------------------------- MODULE MCAdminReport ----------------------------
(* Instances of AdminReport, that is of SubscriptionSystem with a report.   *)
EXTENDS MCSubscriptionSystem, AdminReport

=============================================================================
