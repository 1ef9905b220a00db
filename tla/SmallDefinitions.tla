-------------------------- MODULE SmallDefinitions --------------------------
(* Job definitions for the small instances: one of each overlap policy, each *)
(* with one retry.                                                           *)

Definition(overlap, limit, delete) ==
    [overlap |-> overlap, per_job_concurrency |-> limit, retries |-> 1,
     retry_timeout |-> TRUE, delete_after_run |-> delete]

Replace      == Definition("replace", 1, FALSE)
Allow        == Definition("allow", 2, FALSE)
DeleteOnSkip == Definition("skip", 1, TRUE)

OnlyReplace     == {Replace}
ReplaceOrAllow  == {Replace, Allow}
AllPolicies     == {DeleteOnSkip, Replace, Allow}
=============================================================================
