---------------------------- MODULE MCSyncAgent ----------------------------
(* Values of SyncAgent's constants for TLC. *)
EXTENDS SyncAgent, MCPlanner

MCRoleSets == {{"support_user"}, {"sales_user"}, {"admin", "sales_user"}}

MCLlmTools == {"search_customers", "get_open_issues", "update_issue_status",
               "recommend_next_action", "get_customer_profile", "list_all_open_issues"}

=============================================================================
