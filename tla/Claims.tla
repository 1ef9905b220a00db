------------------------------- MODULE Claims -------------------------------
(***************************************************************************)
(* What the documentation and the comments of the repository say of runs,   *)
(* where the code does something else.  Each definition states the claim as *)
(* it is written; TLC shows a behaviour of Daemon that breaks it.           *)
(***************************************************************************)
EXTENDS Daemon

\* docs/ARCHITECTURE.md, invariant 17: superseding a replacement candidate and
\* installing its successor is one durable transition.  So a step that asks a
\* run to stop for a replacement, or skips a waiting one, inserts the successor.
Superseded(r) ==
    \/ runs[r].cancel = "none" /\ runs'[r].cancel = "replacement"
    \/ runs[r].state \in Pending /\ runs'[r].state = "skipped_overlap"

SupersessionInstallsSuccessor ==
    [][\A r \in DOMAIN runs : Superseded(r) =>
         \E s \in DOMAIN runs' \ DOMAIN runs :
             runs'[s].job = runs[r].job /\ runs'[s].state = "queued"]_allVars

\* docs/SPEC.md: cancellation and overlap replacement are never retried
\* automatically.  So no run with a cancellation request waits for a retry.
CancelledRunsAreNotRetried ==
    \A r \in DOMAIN runs : runs[r].cancel # "none" => runs[r].state # "retry_wait"

\* docs/ARCHITECTURE.md and docs/STORAGE.md: a termination that cannot be
\* confirmed fails the newest replacement candidate in the same transaction.
QuarantineFailsCandidate ==
    \A r, s \in DOMAIN runs :
        runs[r].quarantined /\ runs[s].job = runs[r].job /\ runs[s].candidate =>
            runs[s].state \notin Pending

\* docs/SPEC.md, --delete-after-run: the job is soft-removed atomically with
\* the transition of its one scheduled run to a terminal outcome.
RemovedWithTerminalRun ==
    \A r \in DOMAIN runs :
        /\ runs[r].trigger # "manual"
        /\ runs[r].def.delete_after_run
        /\ runs[r].state \in Terminal
        => jobs[runs[r].job].removed

\* docs/ARCHITECTURE.md, invariant 18: adapter error propagation cannot orphan
\* a running record.  So a run that executes while the daemon is up has a task,
\* unless it is quarantined.
NoOrphanedAttempt ==
    \A r \in DOMAIN runs :
        lifetime = "up" /\ runs[r].state \in Executing /\ ~runs[r].quarantined =>
            r \in DOMAIN tasks

HasTask(p) == p[1] \in DOMAIN tasks /\ Tree(p[1]) = p

\* docs/ARCHITECTURE.md and docs/SPEC.md: after the natural-completion window a
\* shutdown terminates the remaining process groups.  So once the window has
\* elapsed, a group with a task ends, or the daemon does (which it also may
\* because the termination could not be confirmed).
RemainingGroupsAreTerminated ==
    \A p \in (1..MaxRuns) \X (1..MaxAttempts) :
        (lifetime = "cancelling" /\ HasTask(p) /\ p \in processes \cup survivors)
            ~> (lifetime = "down" \/ p \notin processes \cup survivors)
=============================================================================
