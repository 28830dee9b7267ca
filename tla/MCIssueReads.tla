---------------------------- MODULE MCIssueReads ----------------------------
(***************************************************************************)
(* Two customers of two account owners, one of whom sells only. One        *)
(* customer has two issues, so that counts and ties occur; the other has   *)
(* one. Nothing, one thing or one thing of each kind changes in between.   *)
(***************************************************************************)
EXTENDS IssueReads

CONSTANTS Acme, Globex, Seller, Support

MCIssues == 1..3
MCCustomerOf == <<Acme, Acme, Globex>>
MCGradings == {<<"high", "low", "other">>, <<"medium", "other", "critical">>}

=============================================================================
