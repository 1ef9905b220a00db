------------------------------ MODULE RunStore ------------------------------
(***************************************************************************)
(* The durable store of locron: jobs with their revisions, and runs with    *)
(* their attempts, retry intents, replacement flags and cancellation        *)
(* requests.  Every write of the store is one BEGIN IMMEDIATE transaction   *)
(* of SQLite, so every operation below is one atomic action; an operation   *)
(* that returns NotFound or Conflict rolls back and is no step at all.      *)
(*                                                                          *)
(* The module is open: any caller (command line, dashboard, MCP server,     *)
(* daemon) may call any operation with any argument at any time.  The       *)
(* module Daemon restricts the callers to what the daemon really does.      *)
(*                                                                          *)
(* Abstracted: time (a due time is reached at an arbitrary moment), names,  *)
(* events and texts, the enabled flag, and the schedule cursor, of which    *)
(* only its effect is kept: every occurrence is materialized once.  A batch *)
(* of occurrences materialized by one transaction is a sequence of          *)
(* Materialize steps here, between which other steps may happen.            *)
(*                                                                          *)
(* A definition whose comment begins with "Wrong:" is no part of the model: *)
(* it is the bug that a property is shown to catch, in the place of the     *)
(* definition after it.                                                     *)
(***************************************************************************)
EXTENDS Naturals, Sequences, FiniteSets

CONSTANTS
    Jobs,           \* identities of jobs
    Definitions,    \* job definitions: what a run keeps as its snapshot
    Triggers,       \* the triggers of scheduled runs that occur
    Outcomes,       \* the known outcomes of attempts that occur
    Outputs,        \* the ends of an output artifact that occur
    GlobalLimits,   \* the values settings.global_concurrency takes
    MaxRuns,        \* bound: queue sequences handed out
    MaxAttempts,    \* bound: attempts of a run
    MaxRevision     \* bound: revisions of a job

Overlaps == {"skip", "replace", "allow"}

ASSUME ConstantsAssumption ==
    /\ Definitions \subseteq [overlap : Overlaps,
                              per_job_concurrency : Nat,
                              retries : Nat,
                              retry_timeout : BOOLEAN,
                              delete_after_run : BOOLEAN]
    /\ Triggers \subseteq {"scheduled", "catch_up"}
    /\ Outcomes \subseteq {"succeeded", "failed", "timed_out", "cancelled"}
    /\ Outputs \subseteq {"finalized", "missing"}
    /\ GlobalLimits \subseteq 1..64
    /\ MaxRuns \in Nat
    /\ MaxAttempts \in Nat
    /\ MaxRevision \in Nat \ {0}

VARIABLES
    jobs,               \* tables jobs and job_revisions
    runs,               \* tables runs, attempts, output_artifacts, retry_intents
    nextSequence,       \* admission_state.next_queue_sequence
    globalConcurrency   \* settings.global_concurrency

vars == <<jobs, runs, nextSequence, globalConcurrency>>

-----------------------------------------------------------------------------
(* The rows.                                                               *)

Pending   == {"queued", "retry_wait"}
Executing == {"starting", "running"}
Active    == Pending \cup Executing
Skipped   == {"skipped_overlap", "skipped_concurrency"}
Known     == {"succeeded", "failed", "timed_out", "cancelled"}
KnownFailure == {"failed", "timed_out"}
Terminal  == Known \cup Skipped \cup {"interrupted_unknown"}

RunStates     == Active \cup Terminal
AttemptStates == Executing \cup Known \cup {"interrupted_unknown"}
OutputStates  == {"pending", "finalized", "missing"}

\* The attempt and its output artifact, which is created with it.
Attempt == [state : AttemptStates, output : OutputStates]

\* The queue sequence is the identity of a run: one is used for every run.
\* quarantined stands for the reason 'termination_unconfirmed'; cancel joins
\* the time and the reason of a cancellation request, which are always written
\* together; retry is the prior_attempt_number of the run's retry intent, 0
\* when it has none.
Run == [job         : Jobs,
        revision    : 1..MaxRevision,
        trigger     : {"manual", "scheduled", "catch_up"},
        def         : Definitions,
        state       : RunStates,
        quarantined : BOOLEAN,
        candidate   : BOOLEAN,
        cancel      : {"none", "user", "replacement"},
        retry       : 0..MaxAttempts,
        attempts    : Seq(Attempt)]

\* A job without revisions has not been created.  resolved is the flag
\* one_time_resolved of the cursor row of the current revision.
Job == [removed : BOOLEAN, resolved : BOOLEAN, revisions : Seq(Definitions)]

TypeOK ==
    /\ jobs \in [Jobs -> Job]
    /\ DOMAIN runs \subseteq 1..MaxRuns
    /\ \A r \in DOMAIN runs : runs[r] \in Run
    /\ nextSequence \in 1..(MaxRuns + 1)
    /\ globalConcurrency \in GlobalLimits

-----------------------------------------------------------------------------
(* Queries.                                                                *)

Revision(j) == Len(jobs[j].revisions)
Live(j) == Revision(j) > 0 /\ ~jobs[j].removed

RunsOf(j) == {r \in DOMAIN runs : runs[r].job = j}
RunsIn(j, states) == {r \in RunsOf(j) : runs[r].state \in states}
Quarantined(j) == \E r \in RunsOf(j) : runs[r].quarantined

\* Snapshots whose overlap policy is not 'allow' run one at a time.
PerJobLimit(d) ==
    IF d.overlap = "allow" /\ d.per_job_concurrency > 1
    THEN d.per_job_concurrency
    ELSE 1

ActiveAttempts ==
    {a \in (DOMAIN runs) \X (1..MaxAttempts) :
        /\ a[2] \in DOMAIN runs[a[1]].attempts
        /\ runs[a[1]].attempts[a[2]].state \in Executing}

\* Wrong: forgets the catch-up run of a one-time schedule.
SoftRemovedScheduled(S) ==
    [j \in Jobs |->
        IF \E r \in S : /\ runs[r].job = j
                        /\ runs[r].trigger = "scheduled"
                        /\ runs[r].def.delete_after_run
        THEN [jobs[j] EXCEPT !.removed = TRUE]
        ELSE jobs[j]]

\* soft_remove_after_one_time_completion, for the runs in S that have finished.
SoftRemoved(S) ==
    [j \in Jobs |->
        IF \E r \in S : /\ runs[r].job = j
                        /\ runs[r].trigger # "manual"
                        /\ runs[r].def.delete_after_run
        THEN [jobs[j] EXCEPT !.removed = TRUE]
        ELSE jobs[j]]

-----------------------------------------------------------------------------
(* Jobs and settings.                                                      *)

CreateJob(j, d) ==
    /\ Revision(j) = 0
    /\ jobs' = [jobs EXCEPT ![j].revisions = <<d>>]
    /\ UNCHANGED <<runs, nextSequence, globalConcurrency>>

\* expected is the revision the caller has read; another one is a Conflict.
UpdateJob(j, d, expected) ==
    /\ Live(j)
    /\ expected = Revision(j)
    /\ Revision(j) < MaxRevision
    /\ jobs' = [jobs EXCEPT ![j].revisions = Append(@, d),
                            ![j].resolved = FALSE]
    /\ UNCHANGED <<runs, nextSequence, globalConcurrency>>

RemoveJob(j) ==
    /\ Live(j)
    /\ jobs' = [jobs EXCEPT ![j].removed = TRUE]
    /\ UNCHANGED <<runs, nextSequence, globalConcurrency>>

SetGlobalConcurrency(n) ==
    /\ globalConcurrency' = n
    /\ UNCHANGED <<jobs, runs, nextSequence>>

-----------------------------------------------------------------------------
(* Runs enter the store.                                                   *)

\* Wrong: leaves the queued runs.
SupersededUnlessQueued(run) ==
    IF run.state = "retry_wait"
    THEN [run EXCEPT !.state = "skipped_overlap", !.candidate = FALSE, !.retry = 0]
    ELSE IF run.state \in Executing
    THEN [run EXCEPT !.cancel = IF @ = "none" THEN "replacement" ELSE @,
                     !.candidate = FALSE]
    ELSE run

\* supersede_for_replacement: what becomes of a run of the job when a newer
\* occurrence replaces it.
SupersededRun(run) ==
    IF run.state = "retry_wait" \/ (run.state = "queued" /\ run.trigger # "catch_up")
    THEN [run EXCEPT !.state = "skipped_overlap", !.candidate = FALSE, !.retry = 0]
    ELSE IF run.state \in Executing
    THEN [run EXCEPT !.cancel = IF @ = "none" THEN "replacement" ELSE @,
                     !.candidate = FALSE]
    ELSE run

Supersede(j) ==
    [r \in DOMAIN runs |-> IF runs[r].job = j THEN SupersededRun(runs[r]) ELSE runs[r]]

\* The state a new run of job j is inserted with.
OverlapDecision(j, d, trigger) ==
    LET active == Cardinality(RunsIn(j, Active))
    IN  IF Quarantined(j)
        THEN IF d.overlap = "replace" THEN "failed" ELSE "skipped_overlap"
        ELSE IF trigger # "catch_up" /\ active > 0 /\ d.overlap = "skip"
        THEN "skipped_overlap"
        ELSE IF /\ trigger # "catch_up"
                /\ active > 0
                /\ d.overlap = "allow"
                /\ active >= d.per_job_concurrency
        THEN "skipped_concurrency"
        ELSE "queued"

\* A new normal run of a 'replace' snapshot takes the place of active work.
Replaces(j, d, trigger) ==
    /\ ~Quarantined(j)
    /\ trigger # "catch_up"
    /\ RunsIn(j, Active) # {}
    /\ d.overlap = "replace"

NewRun(j, d, trigger) ==
    [job         |-> j,
     revision    |-> Revision(j),
     trigger     |-> trigger,
     def         |-> d,
     state       |-> OverlapDecision(j, d, trigger),
     quarantined |-> FALSE,
     candidate   |-> Replaces(j, d, trigger),
     cancel      |-> "none",
     retry       |-> 0,
     attempts    |-> << >>]

\* The unique index runs_replacement_candidate refuses a second row.
CandidateClash(table, run) ==
    /\ run.candidate
    /\ \E r \in DOMAIN table : table[r].job = run.job /\ table[r].candidate

Insert(table, run) ==
    [r \in DOMAIN table \cup {nextSequence} |->
        IF r = nextSequence THEN run ELSE table[r]]

\* Wrong: does not notice an edit since the read.
EnqueueManualUnchecked(j, seen) ==
    LET run == NewRun(j, jobs[j].revisions[seen], "manual")
        old == IF run.candidate THEN Supersede(j) ELSE runs
    IN  /\ nextSequence <= MaxRuns
        /\ Live(j)
        /\ ~CandidateClash(old, run)
        /\ runs' = Insert(old, run)
        /\ nextSequence' = nextSequence + 1
        /\ UNCHANGED <<jobs, globalConcurrency>>

\* enqueue_manual reads the job before its transaction; seen is the revision
\* it read then.  A clash with an index is an error and rolls back.
EnqueueManual(j, seen) ==
    LET d   == jobs[j].revisions[seen]
        run == NewRun(j, d, "manual")
        old == IF run.candidate THEN Supersede(j) ELSE runs
    IN  /\ nextSequence <= MaxRuns
        /\ Live(j)
        /\ seen = Revision(j)
        /\ ~CandidateClash(old, run)
        /\ runs' = Insert(old, run)
        /\ nextSequence' = nextSequence + 1
        /\ UNCHANGED <<jobs, globalConcurrency>>

\* The cursor update of materialize_with_summaries, for the revision seen that
\* the daemon reconciled: it fails unless that is current and the job lives.  A
\* definition that deletes its job has a one-time schedule, with one occurrence.
AdvanceCursor(j, seen) ==
    /\ Live(j)
    /\ seen = Revision(j)
    /\ jobs[j].revisions[seen].delete_after_run => ~jobs[j].resolved
    /\ jobs' = [jobs EXCEPT ![j].resolved = jobs[j].revisions[seen].delete_after_run]

\* One run of materialize_with_summaries.  INSERT OR IGNORE drops the run on a
\* clash and keeps the rest of the transaction, the supersession and the
\* consumed sequence included.
Materialize(j, seen, trigger) ==
    LET run == NewRun(j, jobs[j].revisions[seen], trigger)
        old == IF run.candidate THEN Supersede(j) ELSE runs
    IN  /\ nextSequence <= MaxRuns
        /\ AdvanceCursor(j, seen)
        /\ runs' = IF CandidateClash(old, run) THEN old ELSE Insert(old, run)
        /\ nextSequence' = nextSequence + 1
        /\ UNCHANGED globalConcurrency

\* The missed-run policy or the start deadline omits every due occurrence.
Omit(j, seen) ==
    /\ AdvanceCursor(j, seen)
    /\ UNCHANGED <<runs, nextSequence, globalConcurrency>>

-----------------------------------------------------------------------------
(* Cancellation by the user.                                               *)

\* Wrong: leaves the retry intent behind.
CancelPendingOnly(r) ==
    /\ runs[r].state \in Pending
    /\ runs' = [runs EXCEPT ![r].state = "cancelled",
                            ![r].cancel = "user",
                            ![r].candidate = FALSE]
    /\ jobs' = SoftRemoved({r})
    /\ UNCHANGED <<nextSequence, globalConcurrency>>

\* CancelledBeforeExecution.
CancelPending(r) ==
    /\ runs[r].state \in Pending
    /\ runs' = [runs EXCEPT ![r].state = "cancelled",
                            ![r].cancel = "user",
                            ![r].candidate = FALSE,
                            ![r].retry = 0]
    /\ jobs' = SoftRemoved({r})
    /\ UNCHANGED <<nextSequence, globalConcurrency>>

\* CancellationRequested: the daemon polls the request while the run executes.
RequestCancellation(r) ==
    /\ runs[r].state \in Executing
    /\ ~runs[r].quarantined
    /\ runs[r].cancel = "none"
    /\ runs' = [runs EXCEPT ![r].cancel = "user"]
    /\ UNCHANGED <<jobs, nextSequence, globalConcurrency>>

\* AcknowledgedUnconfirmed: the user takes the risk of a surviving process.
AcknowledgeUnconfirmed(r) ==
    /\ runs[r].state = "running"
    /\ runs[r].quarantined
    /\ runs' = [runs EXCEPT ![r].state = "interrupted_unknown",
                            ![r].quarantined = FALSE,
                            ![r].candidate = FALSE,
                            ![r].retry = 0]
    /\ jobs' = SoftRemoved({r})
    /\ UNCHANGED <<nextSequence, globalConcurrency>>

-----------------------------------------------------------------------------
(* Admission.                                                              *)

\* A replacement waits until everything before it has settled.
ReplacementMayStart(r) ==
    runs[r].candidate =>
        RunsIn(runs[r].job, Executing \cup {"retry_wait"}) \subseteq {r}

\* Wrong: looks only at what waits.
CatchUpIsFirstPending(r) ==
    runs[r].trigger = "catch_up" => \A e \in RunsIn(runs[r].job, Pending) : e >= r

\* A catch-up batch runs in the order of its queue sequences.
CatchUpMayStart(r) ==
    runs[r].trigger = "catch_up" => \A e \in RunsIn(runs[r].job, Active) : e >= r

\* Wrong: starts beside a process that may still live.
EligibleBesideQuarantine(r) ==
    /\ runs[r].state \in Pending
    /\ runs[r].cancel = "none"
    /\ ReplacementMayStart(r)
    /\ CatchUpMayStart(r)

Eligible(r) ==
    /\ runs[r].state \in Pending
    /\ runs[r].cancel = "none"
    /\ ~Quarantined(runs[r].job)
    /\ ReplacementMayStart(r)
    /\ CatchUpMayStart(r)

\* Wrong: does not count what the same transaction has selected.
WithinPerJobLimitsAlone(selected) ==
    \A r \in selected :
        Cardinality(RunsIn(runs[r].job, Executing)) < PerJobLimit(runs[r].def)

\* The order in which admit visits the runs of a job can select exactly the
\* sets whose members, taken by increasing limit, each find a free place.
WithinPerJobLimits(selected) ==
    \A r \in selected :
        LET peers == {s \in selected :
                        /\ runs[s].job = runs[r].job
                        /\ PerJobLimit(runs[s].def) <= PerJobLimit(runs[r].def)}
        IN  Cardinality(RunsIn(runs[r].job, Executing)) + Cardinality(peers)
                <= PerJobLimit(runs[r].def)

Admitted(run) ==
    [run EXCEPT !.state = "starting",
                !.attempts = Append(@, [state |-> "starting", output |-> "pending"])]

\* Wrong: checks the global limit once per transaction.
AdmitBatch(selected) ==
    /\ selected # {}
    /\ \A r \in selected : Eligible(r) /\ Len(runs[r].attempts) < MaxAttempts
    /\ Cardinality(ActiveAttempts) < globalConcurrency
    /\ WithinPerJobLimits(selected)
    /\ runs' = [r \in DOMAIN runs |-> IF r \in selected THEN Admitted(runs[r]) ELSE runs[r]]
    /\ UNCHANGED <<jobs, nextSequence, globalConcurrency>>

\* The transaction of admit with any hard guard.  Which of the selections that
\* the limits allow is made by the round robin over the jobs is left open, and so
\* is what was prepared before the transaction: a run that was not is skipped.
Admit(selected) ==
    /\ selected # {}
    /\ \A r \in selected : Eligible(r) /\ Len(runs[r].attempts) < MaxAttempts
    /\ Cardinality(ActiveAttempts) + Cardinality(selected) <= globalConcurrency
    /\ WithinPerJobLimits(selected)
    /\ runs' = [r \in DOMAIN runs |-> IF r \in selected THEN Admitted(runs[r]) ELSE runs[r]]
    /\ UNCHANGED <<jobs, nextSequence, globalConcurrency>>

-----------------------------------------------------------------------------
(* The life of attempt n of run r.                                         *)

\* Wrong: accepts the completion of an attempt that has ended.
AnyAttempt(r, n) == runs[r].attempts[n].state \in AttemptStates

ActiveAttempt(r, n) == runs[r].attempts[n].state \in Executing

\* mark_attempt_running finds no cancellation request.
MarkRunning(r, n) ==
    /\ runs[r].state = "starting"
    /\ runs[r].cancel = "none"
    /\ runs[r].attempts[n].state = "starting"
    /\ runs' = [runs EXCEPT ![r].state = "running",
                            ![r].attempts[n].state = "running"]
    /\ UNCHANGED <<jobs, nextSequence, globalConcurrency>>

\* mark_attempt_running finds one: the process is never spawned.
CancelBeforeSpawn(r, n) ==
    LET output == runs[r].attempts[n].output
    IN  /\ runs[r].state \in Executing
        /\ runs[r].cancel # "none"
        /\ ActiveAttempt(r, n)
        /\ runs' = [runs EXCEPT ![r] =
                      [@ EXCEPT !.state = "cancelled",
                                !.candidate = FALSE,
                                !.retry = 0,
                                !.attempts[n] =
                                    [state  |-> "cancelled",
                                     output |-> IF output = "pending" THEN "missing"
                                                ELSE output]]]
        /\ jobs' = SoftRemoved({r})
        /\ UNCHANGED <<nextSequence, globalConcurrency>>

\* complete_attempt with a retry plan.
CompleteWithRetry(r, n, outcome) ==
    /\ outcome \in KnownFailure
    /\ ActiveAttempt(r, n)
    /\ runs' = [runs EXCEPT ![r].state = "retry_wait",
                            ![r].retry = n,
                            ![r].attempts[n].state = outcome]
    /\ UNCHANGED <<jobs, nextSequence, globalConcurrency>>

\* complete_attempt without a retry plan.
CompleteAttempt(r, n, outcome) ==
    /\ ActiveAttempt(r, n)
    /\ runs' = [runs EXCEPT ![r].state = outcome,
                            ![r].retry = 0,
                            ![r].attempts[n].state = outcome]
    /\ jobs' = SoftRemoved({r})
    /\ UNCHANGED <<nextSequence, globalConcurrency>>

\* complete_attempt with termination_unconfirmed: the run blocks its job until
\* the user acknowledges it, and a waiting replacement fails.
FailedByQuarantine(run) ==
    IF run.state \in Pending
    THEN [run EXCEPT !.state = "failed", !.candidate = FALSE, !.retry = 0]
    ELSE [run EXCEPT !.retry = 0]

\* Wrong: stores the state of the completion as it is.
QuarantineAsReported(r, n) ==
    /\ ActiveAttempt(r, n)
    /\ runs[r].state \in Executing
    /\ runs' = [runs EXCEPT ![r].state = "running",
                            ![r].quarantined = TRUE,
                            ![r].retry = 0,
                            ![r].attempts[n].state = "termination_unconfirmed"]
    /\ UNCHANGED <<jobs, nextSequence, globalConcurrency>>

\* Wrong: ends the run, which then blocks nothing.
QuarantineAsFailure(r, n) ==
    /\ ActiveAttempt(r, n)
    /\ runs[r].state \in Executing
    /\ runs' = [runs EXCEPT ![r].state = "failed",
                            ![r].retry = 0,
                            ![r].attempts[n].state = "interrupted_unknown"]
    /\ UNCHANGED <<jobs, nextSequence, globalConcurrency>>

QuarantineAttempt(r, n) ==
    /\ ActiveAttempt(r, n)
    /\ runs[r].state \in Executing
    /\ runs' = [s \in DOMAIN runs |->
                  IF s = r
                  THEN [runs[r] EXCEPT !.state = "running",
                                       !.quarantined = TRUE,
                                       !.retry = 0,
                                       !.attempts[n].state = "interrupted_unknown"]
                  ELSE IF /\ runs[r].cancel = "replacement"
                          /\ runs[s].job = runs[r].job
                          /\ runs[s].candidate
                  THEN FailedByQuarantine(runs[s])
                  ELSE runs[s]]
    /\ UNCHANGED <<jobs, nextSequence, globalConcurrency>>

\* complete_pre_execution_failure: the target cannot be built.
FailBeforeExecution(r, n, output) ==
    /\ ActiveAttempt(r, n)
    /\ runs[r].attempts[n].output = "pending"
    /\ runs' = [runs EXCEPT
                  ![r].state = IF @ \in Executing THEN "failed" ELSE @,
                  ![r].retry = 0,
                  ![r].attempts[n] = [state |-> "failed", output |-> output]]
    /\ jobs' = SoftRemoved({r})
    /\ UNCHANGED <<nextSequence, globalConcurrency>>

\* complete_runner_failure: nothing changes unless all three rows can change.
CompleteRunnerFailure(r, n, started) ==
    LET outcome == IF started THEN "interrupted_unknown" ELSE "failed"
    IN  /\ runs[r].state \in Executing
        /\ ActiveAttempt(r, n)
        /\ runs[r].attempts[n].output = "pending"
        /\ runs' = [runs EXCEPT ![r] =
                      [@ EXCEPT !.state = outcome,
                                !.candidate = FALSE,
                                !.retry = 0,
                                !.attempts[n] = [state |-> outcome, output |-> "missing"]]]
        /\ jobs' = SoftRemoved({r})
        /\ UNCHANGED <<nextSequence, globalConcurrency>>

\* reconcile_output_finalized and reconcile_output_missing.
ReconcileOutput(r, n, output) ==
    /\ runs[r].attempts[n].output = "pending"
    /\ runs' = [runs EXCEPT ![r].attempts[n].output = output]
    /\ UNCHANGED <<jobs, nextSequence, globalConcurrency>>

-----------------------------------------------------------------------------
(* A new lifetime of the daemon settles what the previous one left behind. *)

Interrupt(attempt) ==
    IF attempt.state \in Executing
    THEN [attempt EXCEPT !.state = "interrupted_unknown"]
    ELSE attempt

\* Wrong: forgets the runs whose process was not spawned yet.
StaleRunningRuns == {r \in DOMAIN runs : runs[r].state = "running" /\ ~runs[r].quarantined}

StaleRuns == {r \in DOMAIN runs : runs[r].state \in Executing /\ ~runs[r].quarantined}

BeginLifetime ==
    /\ runs' = [r \in DOMAIN runs |->
                  [runs[r] EXCEPT
                    !.state = IF r \in StaleRuns THEN "interrupted_unknown" ELSE @,
                    !.retry = IF \E n \in DOMAIN runs[r].attempts : ActiveAttempt(r, n)
                              THEN 0 ELSE @,
                    !.attempts = [n \in DOMAIN @ |-> Interrupt(@[n])]]]
    /\ jobs' = SoftRemoved(StaleRuns)
    /\ UNCHANGED <<nextSequence, globalConcurrency>>

-----------------------------------------------------------------------------
(* The specification.                                                      *)

Init ==
    /\ jobs = [j \in Jobs |-> [removed |-> FALSE, resolved |-> FALSE, revisions |-> << >>]]
    /\ runs = << >>
    /\ nextSequence = 1
    /\ globalConcurrency \in GlobalLimits

JobStep ==
    \/ \E j \in Jobs, d \in Definitions : CreateJob(j, d)
    \/ \E j \in Jobs, d \in Definitions, seen \in 1..MaxRevision : UpdateJob(j, d, seen)
    \/ \E j \in Jobs : RemoveJob(j)
    \/ \E n \in GlobalLimits : SetGlobalConcurrency(n)

EnqueueStep ==
    \E j \in Jobs : \E seen \in DOMAIN jobs[j].revisions :
        \/ EnqueueManual(j, seen)
        \/ \E trigger \in Triggers : Materialize(j, seen, trigger)
        \/ Omit(j, seen)

CancelStep ==
    \E r \in DOMAIN runs :
        \/ CancelPending(r)
        \/ RequestCancellation(r)
        \/ AcknowledgeUnconfirmed(r)

AttemptStep ==
    \E r \in DOMAIN runs : \E n \in DOMAIN runs[r].attempts :
        \/ MarkRunning(r, n)
        \/ CancelBeforeSpawn(r, n)
        \/ \E outcome \in Outcomes : CompleteAttempt(r, n, outcome)
        \/ \E outcome \in Outcomes : CompleteWithRetry(r, n, outcome)
        \/ QuarantineAttempt(r, n)
        \/ \E output \in Outputs : FailBeforeExecution(r, n, output)
        \/ \E started \in BOOLEAN : CompleteRunnerFailure(r, n, started)
        \/ \E output \in Outputs : ReconcileOutput(r, n, output)

Next ==
    \/ JobStep
    \/ EnqueueStep
    \/ CancelStep
    \/ \E selected \in SUBSET (DOMAIN runs) : Admit(selected)
    \/ AttemptStep
    \/ BeginLifetime

Spec == Init /\ [][Next]_vars

-----------------------------------------------------------------------------
(* Properties of every state.                                              *)

\* complete_attempt and begin_lifetime write the row of a run without looking
\* at its state: they rely on the attempts to tell whether the run executes.
\* An attempt is starting or running exactly when it is the newest one of a run
\* in that state that is not quarantined; an older attempt is always a known
\* failure; a quarantined run has the attempt of which nothing is known.
AttemptsAgree(run) ==
    LET last == Len(run.attempts)
    IN  /\ \A n \in 1..(last - 1) : run.attempts[n].state \in KnownFailure
        /\ run.state \in Executing =>
              /\ last > 0
              /\ run.attempts[last].state =
                    IF run.quarantined THEN "interrupted_unknown" ELSE run.state
        /\ run.state \notin Executing /\ last > 0 =>
              run.attempts[last].state \notin Executing
        /\ run.quarantined => run.state = "running"

AttemptsAgreeWithRuns == \A r \in DOMAIN runs : AttemptsAgree(runs[r])

\* A run waits for a retry exactly with a retry intent for its newest attempt,
\* which is a known failure; the intent of a run that executes again names the
\* attempt before the running one, and no other run has an intent.
RetryIntentIsKnownFailure(run) ==
    LET last == Len(run.attempts)
    IN  /\ run.state = "retry_wait" => last > 0 /\ run.retry = last
        /\ run.retry # 0 =>
             /\ run.state \in Executing \cup {"retry_wait"}
             /\ run.state \in Executing => run.retry = last - 1
             /\ run.attempts[run.retry].state \in KnownFailure

RetryIntentsNameKnownFailure == \A r \in DOMAIN runs : RetryIntentIsKnownFailure(runs[r])

\* Overlap of what waits: of two queued normal runs of a job the later one was
\* created by a snapshot that allows overlap, whatever edits, cancellations
\* and retries happened in between.  ('skip' discards the later run, 'replace'
\* the earlier one.)
QueuedOverlapOnlyIfAllowed ==
    \A r, s \in DOMAIN runs :
        /\ r < s
        /\ runs[r].job = runs[s].job
        /\ runs[r].state = "queued" /\ runs[r].trigger # "catch_up"
        /\ runs[s].state = "queued" /\ runs[s].trigger # "catch_up"
        => runs[s].def.overlap = "allow"

\* Overlap of what executes: however runs of a job with different snapshots
\* were admitted, any set of executing ones fits the limit of one of them.
PerJobConcurrency ==
    \A j \in Jobs : \A S \in SUBSET RunsIn(j, Executing) :
        S # {} => \E r \in S : Cardinality(S) <= PerJobLimit(runs[r].def)

\* A catch-up run that has ever been started found all earlier runs of its job
\* finished, and none of them comes back.
CatchUpInOrder ==
    \A r \in DOMAIN runs :
        runs[r].trigger = "catch_up" /\ runs[r].attempts # << >> =>
            \A e \in RunsOf(runs[r].job) : e < r => runs[e].state \in Terminal

-----------------------------------------------------------------------------
(* Properties of every step.                                               *)

\* A finished run stays finished, with the same outcome and the same attempt
\* outcomes: no late completion, cancellation, replacement or restart rewrites
\* history.
KeepsTerminal ==
    \A r \in DOMAIN runs :
        runs[r].state \in Terminal =>
            /\ r \in DOMAIN runs'
            /\ runs'[r].state = runs[r].state
            /\ DOMAIN runs'[r].attempts = DOMAIN runs[r].attempts
            /\ \A n \in DOMAIN runs[r].attempts :
                  runs'[r].attempts[n].state = runs[r].attempts[n].state

TerminalIsFinal == [][KeepsTerminal]_vars

\* The number of attempts in flight grows only within the configured global
\* limit, although the limit may be lowered below it at any time.
GlobalConcurrencyHeld ==
    [][Cardinality(ActiveAttempts') > Cardinality(ActiveAttempts) =>
         Cardinality(ActiveAttempts') <= globalConcurrency]_vars

\* While a run is quarantined no run of its job starts, and only the user's
\* acknowledgement ends the quarantine: no restart, completion or replacement.
KeepsQuarantine ==
    \A r \in DOMAIN runs : runs[r].quarantined =>
        /\ runs'[r].quarantined \/ AcknowledgeUnconfirmed(r)
        /\ \A s \in RunsOf(runs[r].job) :
              runs[s].state \in Pending => runs'[s].state # "starting"

QuarantineHeld == [][KeepsQuarantine]_vars

\* A run is created only for a live job, from the definition that is current
\* when it is created, although the caller read the job earlier.
SnapshotIsCurrent ==
    [][\A r \in DOMAIN runs' \ DOMAIN runs :
         LET j == runs'[r].job
         IN  /\ Live(j)
             /\ runs'[r].revision = Revision(j)
             /\ runs'[r].def = jobs[j].revisions[Revision(j)]]_vars

\* delete-after-run: the step that ends an executing scheduled run of such a
\* definition, in whatever way, removes the job.
RemovedWithLastAttempt ==
    [][\A r \in DOMAIN runs :
         /\ runs[r].state \in Executing
         /\ runs'[r].state \in Terminal
         /\ runs[r].trigger # "manual"
         /\ runs[r].def.delete_after_run
         => jobs'[runs[r].job].removed]_vars

=============================================================================
