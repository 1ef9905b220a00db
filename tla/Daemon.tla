------------------------------- MODULE Daemon -------------------------------
(***************************************************************************)
(* The daemon against the store: one lifetime after another reconciles,     *)
(* admits attempts, and drives each of them in a task of its own through    *)
(* mark_running, the runner, finalize_output and complete.  The command     *)
(* line, the dashboard and the MCP server write the same store at any time. *)
(*                                                                          *)
(* A crash may happen between any two steps; the process trees of the       *)
(* runner survive it.  The store may fail any call transiently: a task      *)
(* retries, so a failed call is a stuttering step, except where the daemon  *)
(* gives up (PreparationAborts, GiveUp).                                    *)
(*                                                                          *)
(* A tree is the process group of an attempt.  When its leader exits by     *)
(* itself the runner does not look at the group any more, so descendants    *)
(* may live on in it: they are survivors.                                   *)
(*                                                                          *)
(* The daemon lock admits one lifetime at a time.  The runner is reduced to *)
(* what a task sees of it; its termination sequence is the module           *)
(* ProcessRunner.  "Wrong:" marks the bug variants, as in RunStore.         *)
(***************************************************************************)
EXTENDS RunStore

CONSTANTS
    HardGuard,      \* MAX_GLOBAL_CONCURRENCY, the permits of the semaphore
    KeepsPipes      \* whether a descendant, in the group or not, may keep a pipe open

ASSUME DaemonAssumption == HardGuard \in Nat /\ KeepsPipes \in BOOLEAN

VARIABLES
    lifetime,   \* "down", "up", "draining" or "cancelling"
    tasks,      \* the task of a run, for the runs that have one
    prepared,   \* the runs that admit has read before it owns the writer
    processes,  \* the trees that are alive, as <<run, attempt>>, except the survivors
    survivors   \* the groups that live on after their leader exited by itself

trees == <<processes, survivors>>
daemonVars == <<lifetime, tasks, prepared, processes, survivors>>
allVars == <<jobs, runs, nextSequence, globalConcurrency,
             lifetime, tasks, prepared, processes, survivors>>

\* "preparing": the attempt is among those that the adapter's admit resolves.
\* "draining" and "held": the runner reads the pipes to their end; in "held" a
\* descendant has one of them open.
Phases == {"preparing", "marking", "spawning", "executing", "cancelling", "timing_out",
           "draining", "held", "reporting", "completing", "failing"}

\* Where a drain may begin.
Drains == IF KeepsPipes THEN {"draining", "held"} ELSE {"draining"}

\* OutcomeKind of the runner, and the two kinds of RunnerFailureKind.
Results == {"none", "succeeded", "failed_retryable", "failed", "timed_out",
            "cancelled", "termination_unconfirmed", "not_started", "may_have_started"}

DaemonTypeOK ==
    /\ TypeOK
    /\ lifetime \in {"down", "up", "draining", "cancelling"}
    /\ DOMAIN tasks \subseteq DOMAIN runs
    /\ \A r \in DOMAIN tasks :
          tasks[r] \in [attempt : 1..MaxAttempts, phase : Phases, result : Results]
    /\ prepared \subseteq DOMAIN runs
    /\ processes \cup survivors \subseteq (DOMAIN runs) \X (1..MaxAttempts)
    /\ processes \cap survivors = {}

Tree(r) == <<r, tasks[r].attempt>>
InPhase(r, phase) == r \in DOMAIN tasks /\ tasks[r].phase = phase
Preparing == {r \in DOMAIN tasks : tasks[r].phase = "preparing"}

Without(S) == [r \in DOMAIN tasks \ S |-> tasks[r]]
Enter(r, phase, result) ==
    tasks' = [tasks EXCEPT ![r].phase = phase, ![r].result = result]

-----------------------------------------------------------------------------
(* Lifetimes.                                                              *)

StartLifetime ==
    /\ lifetime = "down"
    /\ BeginLifetime
    /\ lifetime' = "up"
    /\ UNCHANGED <<tasks, prepared, trees>>

\* Wrong: the signal drops the spawned tasks too.
ShutdownDropsTasks ==
    /\ lifetime = "up"
    /\ prepared = {}
    /\ lifetime' = "draining"
    /\ tasks' = << >>
    /\ UNCHANGED <<vars, prepared, trees>>

\* A termination signal drops the tick in progress, where it awaits, with the
\* attempts that have no task yet; the tasks already spawned are drained.
Shutdown ==
    /\ lifetime = "up"
    /\ prepared = {}
    /\ lifetime' = "draining"
    /\ tasks' = Without(Preparing)
    /\ UNCHANGED <<vars, prepared, trees>>

\* shutdown_drain elapses: every task sees the cancelled token.
DrainElapses ==
    /\ lifetime = "draining"
    /\ DOMAIN tasks # {}
    /\ lifetime' = "cancelling"
    /\ UNCHANGED <<vars, tasks, prepared, trees>>

EndLifetime ==
    /\ lifetime \in {"draining", "cancelling"}
    /\ DOMAIN tasks = {}
    /\ lifetime' = "down"
    /\ UNCHANGED <<vars, tasks, prepared, trees>>

Crash ==
    /\ lifetime # "down"
    /\ lifetime' = "down"
    /\ tasks' = << >>
    /\ prepared' = {}
    /\ UNCHANGED <<vars, trees>>

-----------------------------------------------------------------------------
(* A tick: reconcile, maintain, admit.  It is one sequential task, so it     *)
(* does nothing else while an admission is under way.                       *)

Ticking == lifetime = "up" /\ Preparing = {} /\ prepared = {}

Reconcile(j, seen) ==
    /\ Ticking
    /\ (\E trigger \in Triggers : Materialize(j, seen, trigger)) \/ Omit(j, seen)
    /\ UNCHANGED daemonVars

\* Wrong: touches the output of attempts in flight.
RecoverAnyOutput(r, n, output) ==
    /\ Ticking
    /\ ReconcileOutput(r, n, output)
    /\ UNCHANGED daemonVars

\* Maintenance recovers the output of attempts that no live task owns.
RecoverOutput(r, n, output) ==
    /\ Ticking
    /\ ~ActiveAttempt(r, n)
    /\ ReconcileOutput(r, n, output)
    /\ UNCHANGED daemonVars

\* admit reads what it may admit, and how many, before it owns the writer.
PrepareAdmission ==
    /\ Ticking
    /\ Cardinality(DOMAIN tasks) < HardGuard
    /\ Cardinality(ActiveAttempts) < globalConcurrency
    /\ prepared' = {r \in DOMAIN runs : Eligible(r)}
    /\ UNCHANGED <<vars, lifetime, tasks, trees>>

Spawnable(selected, numbers) ==
    [r \in DOMAIN tasks \cup selected |->
        IF r \in selected
        THEN [attempt |-> numbers[r], phase |-> "preparing", result |-> "none"]
        ELSE tasks[r]]

NextNumbers(selected) == [r \in selected |-> Len(runs[r].attempts) + 1]

\* Wrong: numbers the attempts from zero.
AdmitTickFromZero(selected) ==
    /\ selected \subseteq prepared
    /\ Cardinality(DOMAIN tasks) + Cardinality(selected) <= HardGuard
    /\ Admit(selected)
    /\ tasks' = Spawnable(selected, [r \in selected |-> Len(runs[r].attempts)])
    /\ prepared' = {}
    /\ UNCHANGED <<lifetime, trees>>

\* Wrong: takes the capacity and the rows as they were prepared.
AdmitTickAsPrepared(selected) ==
    /\ selected # {}
    /\ selected \subseteq prepared
    /\ \A r \in selected : Len(runs[r].attempts) < MaxAttempts
    /\ Cardinality(DOMAIN tasks) + Cardinality(selected) <= HardGuard
    /\ WithinPerJobLimits(selected)
    /\ runs' = [r \in DOMAIN runs |-> IF r \in selected THEN Admitted(runs[r]) ELSE runs[r]]
    /\ tasks' = Spawnable(selected, NextNumbers(selected))
    /\ prepared' = {}
    /\ UNCHANGED <<jobs, nextSequence, globalConcurrency, lifetime, trees>>

\* The transaction of admit reads everything again; what was not prepared is
\* skipped.
AdmitTick(selected) ==
    /\ selected \subseteq prepared
    /\ Cardinality(DOMAIN tasks) + Cardinality(selected) <= HardGuard
    /\ Admit(selected)
    /\ tasks' = Spawnable(selected, NextNumbers(selected))
    /\ prepared' = {}
    /\ UNCHANGED <<lifetime, trees>>

\* ... and may find nothing that it can still admit, or fail.
AdmitNothing ==
    /\ prepared # {}
    /\ prepared' = {}
    /\ UNCHANGED <<vars, lifetime, tasks, trees>>

\* The snapshot does not resolve to a target: fail_admitted_attempt.
PreparationFails(r, output) ==
    /\ InPhase(r, "preparing")
    /\ FailBeforeExecution(r, tasks[r].attempt, output)
    /\ tasks' = Without({r})
    /\ UNCHANGED <<lifetime, prepared, trees>>

\* ... and the store fails that call: the error leaves admit, and every attempt
\* of the batch is left without a task.
PreparationAborts ==
    /\ Preparing # {}
    /\ tasks' = Without(Preparing)
    /\ UNCHANGED <<vars, lifetime, prepared, trees>>

SpawnTasks ==
    /\ Preparing # {}
    /\ tasks' = [r \in DOMAIN tasks |->
                   IF r \in Preparing
                   THEN [tasks[r] EXCEPT !.phase = "marking"] ELSE tasks[r]]
    /\ UNCHANGED <<vars, lifetime, prepared, trees>>

-----------------------------------------------------------------------------
(* The task of run r.                                                      *)

\* mark_running: true lets the task go on, false ends it.
Mark(r) ==
    /\ InPhase(r, "marking")
    /\ \/ /\ MarkRunning(r, tasks[r].attempt)
          /\ Enter(r, "spawning", "none")
       \/ /\ CancelBeforeSpawn(r, tasks[r].attempt)
          /\ tasks' = Without({r})
    /\ UNCHANGED <<lifetime, prepared, trees>>

\* The runner creates the output file and spawns the process tree.
Spawn(r) ==
    /\ InPhase(r, "spawning")
    /\ \/ /\ Enter(r, "executing", "none")
          /\ processes' = processes \cup {Tree(r)}
       \/ /\ Enter(r, "reporting", "failed")
          /\ UNCHANGED processes
       \/ /\ Enter(r, "failing", "not_started")
          /\ UNCHANGED processes
    /\ UNCHANGED <<vars, lifetime, prepared, survivors>>

\* The leader exits by itself before a cancellation or the timeout is noticed.
\* The runner does not look at the rest of the group: it reads the pipes.
Exit(r, result) ==
    /\ InPhase(r, "executing")
    /\ \E drain \in Drains : Enter(r, drain, result)
    /\ processes' = processes \ {Tree(r)}
    /\ survivors' \in {survivors, survivors \cup {Tree(r)}}
    /\ UNCHANGED <<vars, lifetime, prepared>>

\* The last descendant that has a pipe open closes it, and may live on.
PipesClose(r) ==
    /\ InPhase(r, "held")
    /\ Enter(r, "draining", tasks[r].result)
    /\ UNCHANGED <<vars, lifetime, prepared, trees>>

\* The pipes are read to their end; the loop listens to nothing else.
Drain(r) ==
    /\ InPhase(r, "draining")
    /\ Enter(r, "reporting", tasks[r].result)
    /\ UNCHANGED <<vars, lifetime, prepared, trees>>

\* Wrong: only the shutdown cancels.
NoticeShutdownOnly(r) ==
    /\ InPhase(r, "executing")
    /\ lifetime = "cancelling"
    /\ Enter(r, "cancelling", "none")
    /\ UNCHANGED <<vars, lifetime, prepared, trees>>

\* Wrong: the shutdown does not cancel.
NoticeRequestOnly(r) ==
    /\ InPhase(r, "executing")
    /\ runs[r].cancel # "none"
    /\ Enter(r, "cancelling", "none")
    /\ UNCHANGED <<vars, lifetime, prepared, trees>>

\* The 200 ms poll finds a durable request, or the daemon is shutting down.
NoticeCancellation(r) ==
    /\ InPhase(r, "executing")
    /\ runs[r].cancel # "none" \/ lifetime = "cancelling"
    /\ Enter(r, "cancelling", "none")
    /\ UNCHANGED <<vars, lifetime, prepared, trees>>

NoticeTimeout(r) ==
    /\ InPhase(r, "executing")
    /\ Enter(r, "timing_out", "none")
    /\ UNCHANGED <<vars, lifetime, prepared, trees>>

Terminated(r) == IF tasks[r].phase = "cancelling" THEN "cancelled" ELSE "timed_out"

\* Wrong: takes the signal for its effect.
TerminateUnconfirmed(r) ==
    /\ InPhase(r, "cancelling") \/ InPhase(r, "timing_out")
    /\ processes' \in {processes, processes \ {Tree(r)}}
    /\ \E drain \in Drains : Enter(r, drain, Terminated(r))
    /\ UNCHANGED <<vars, lifetime, prepared, survivors>>

\* TERM, then KILL.  Either the whole group is gone, and the pipes are read to
\* their end, which a descendant that has left the group can prevent; or that
\* cannot be confirmed, and the readers are aborted.
Terminate(r) ==
    /\ InPhase(r, "cancelling") \/ InPhase(r, "timing_out")
    /\ \/ /\ processes' = processes \ {Tree(r)}
          /\ \E drain \in Drains : Enter(r, drain, Terminated(r))
       \/ /\ Enter(r, "reporting", "termination_unconfirmed")
          /\ UNCHANGED processes
    /\ UNCHANGED <<vars, lifetime, prepared, survivors>>

\* Output or child infrastructure fails: the runner tries to terminate the group
\* and only logs when it cannot confirm it.
RunnerFails(r) ==
    /\ \E phase \in {"executing", "cancelling", "timing_out", "draining", "held"} :
          InPhase(r, phase)
    /\ \/ UNCHANGED trees
       \/ /\ processes' = processes \ {Tree(r)}
          /\ survivors' = survivors \ {Tree(r)}
    /\ Enter(r, "failing", "may_have_started")
    /\ UNCHANGED <<vars, lifetime, prepared>>

\* complete, first transaction: finalize_output.
Finalize(r) ==
    /\ InPhase(r, "reporting")
    /\ ReconcileOutput(r, tasks[r].attempt, "finalized")
    /\ Enter(r, "completing", tasks[r].result)
    /\ UNCHANGED <<lifetime, prepared, trees>>

\* decide_retry, for the run's snapshot.
Retries(r) ==
    /\ tasks[r].attempt <= runs[r].def.retries
    /\ \/ tasks[r].result = "failed_retryable"
       \/ tasks[r].result = "timed_out" /\ runs[r].def.retry_timeout

CompletionState(result) ==
    IF result = "failed_retryable" THEN "failed" ELSE result

\* complete, second transaction: complete_attempt.
Complete(r) ==
    /\ InPhase(r, "completing")
    /\ LET n     == tasks[r].attempt
           state == CompletionState(tasks[r].result)
       IN  \/ /\ Retries(r)
              /\ CompleteWithRetry(r, n, state)
           \/ /\ ~Retries(r)
              /\ state # "termination_unconfirmed"
              /\ CompleteAttempt(r, n, state)
           \/ /\ state = "termination_unconfirmed"
              /\ QuarantineAttempt(r, n)
    /\ tasks' = Without({r})
    /\ UNCHANGED <<lifetime, prepared, trees>>

ReportRunnerFailure(r) ==
    /\ InPhase(r, "failing")
    /\ CompleteRunnerFailure(r, tasks[r].attempt, tasks[r].result = "may_have_started")
    /\ tasks' = Without({r})
    /\ UNCHANGED <<lifetime, prepared, trees>>

\* The shutdown reaches a task that has not spawned, or whose completion the
\* store has refused: it ends without a durable result.
GiveUp(r) ==
    /\ lifetime = "cancelling"
    /\ \E phase \in {"marking", "reporting", "completing", "failing"} : InPhase(r, phase)
    /\ tasks' = Without({r})
    /\ UNCHANGED <<vars, lifetime, prepared, trees>>

-----------------------------------------------------------------------------
(* The rest of the world.                                                  *)

\* A tree that no task waits for exits: after a crash or a quarantine.
OrphanExits(p) ==
    /\ p[1] \in DOMAIN tasks => Tree(p[1]) # p
    /\ processes' = processes \ {p}
    /\ UNCHANGED <<vars, lifetime, tasks, prepared, survivors>>

\* The last descendant of a leader that has exited goes away.
SurvivorsExit(p) ==
    /\ survivors' = survivors \ {p}
    /\ UNCHANGED <<vars, lifetime, tasks, prepared, processes>>

Client ==
    /\ \/ JobStep
       \/ CancelStep
       \/ \E j \in Jobs : \E seen \in DOMAIN jobs[j].revisions : EnqueueManual(j, seen)
    /\ UNCHANGED daemonVars

-----------------------------------------------------------------------------

DaemonInit ==
    /\ Init
    /\ lifetime = "down"
    /\ tasks = << >>
    /\ prepared = {}
    /\ processes = {}
    /\ survivors = {}

LifetimeStep == StartLifetime \/ Shutdown \/ DrainElapses \/ EndLifetime \/ Crash

TickStep ==
    \/ \E j \in Jobs : \E seen \in DOMAIN jobs[j].revisions : Reconcile(j, seen)
    \/ \E r \in DOMAIN runs : \E n \in DOMAIN runs[r].attempts : \E output \in Outputs :
          RecoverOutput(r, n, output)
    \/ PrepareAdmission
    \/ \E selected \in SUBSET prepared : AdmitTick(selected)
    \/ AdmitNothing
    \/ \E r \in DOMAIN tasks, output \in Outputs : PreparationFails(r, output)
    \/ PreparationAborts
    \/ SpawnTasks

TaskStep(r) ==
    \/ Mark(r)
    \/ Spawn(r)
    \/ NoticeCancellation(r)
    \/ Terminate(r)
    \/ Drain(r)
    \/ Finalize(r)
    \/ Complete(r)
    \/ ReportRunnerFailure(r)

TargetStep(r) ==
    \/ \E result \in {"succeeded", "failed_retryable"} : Exit(r, result)
    \/ PipesClose(r)
    \/ NoticeTimeout(r)
    \/ RunnerFails(r)
    \/ GiveUp(r)

DaemonNext ==
    \/ LifetimeStep
    \/ TickStep
    \/ \E r \in DOMAIN tasks : TaskStep(r) \/ TargetStep(r)
    \/ \E p \in processes : OrphanExits(p)
    \/ \E p \in survivors : SurvivorsExit(p)
    \/ Client

DaemonSpec == DaemonInit /\ [][DaemonNext]_allVars

\* The runtime keeps polling every task that can go on, and the main loop of
\* the daemon; nothing makes a target exit, a user act or the daemon crash.
TaskFairness == \A r \in 1..MaxRuns : WF_allVars(r \in DOMAIN tasks /\ TaskStep(r))
LoopFairness == WF_allVars(SpawnTasks) /\ WF_allVars(DrainElapses) /\ WF_allVars(EndLifetime)

FairDaemonSpec == DaemonSpec /\ TaskFairness /\ LoopFairness

-----------------------------------------------------------------------------
(* Properties.                                                             *)

\* A task never meets a Conflict: while it exists, the store shows its attempt
\* as the newest of a run that is not quarantined, in the state and with the
\* output artifact that the task's next transaction expects.
TasksOwnTheirAttempts ==
    \A r \in DOMAIN tasks :
        LET n     == tasks[r].attempt
            state == IF tasks[r].phase \in {"preparing", "marking"}
                     THEN "starting" ELSE "running"
        IN  /\ n = Len(runs[r].attempts)
            /\ ~runs[r].quarantined
            /\ runs[r].state = state
            /\ runs[r].attempts[n] =
                  [state  |-> state,
                   output |-> IF tasks[r].phase = "completing"
                              THEN "finalized" ELSE "pending"]

\* A dropped tick or an aborted preparation leaves attempts in the store that no
\* task drives.  As long as the tasks are not cancelled, such an attempt was
\* never spawned: no target executes that nobody waits for, and the next
\* lifetime may settle the attempt without any doubt about a process.
OrphansWereNeverSpawned ==
    lifetime \in {"up", "draining"} =>
        \A r \in DOMAIN runs \ DOMAIN tasks :
            runs[r].state \in Executing /\ ~runs[r].quarantined =>
                LET n == Len(runs[r].attempts)
                IN  /\ runs[r].attempts[n].state = "starting"
                    /\ <<r, n>> \notin processes \cup survivors

\* While a tree is alive the store shows its attempt as running, or admits that
\* nothing is known of it: never a known outcome.  Descendants that outlive a
\* leader which exited by itself may belong to an attempt that succeeded or
\* failed, but never to one that is reported as cancelled or timed out, since
\* these outcomes speak of the whole tree.  (Provided that the runner may signal
\* every member of the group: ReportedTreeIsDead names the other case.)
LiveTreeIsNotReportedDone ==
    /\ \A p \in processes :
          runs[p[1]].attempts[p[2]].state \in {"running", "interrupted_unknown"}
    /\ \A p \in survivors :
          runs[p[1]].attempts[p[2]].state \notin {"cancelled", "timed_out"}

\* Two live trees never belong to two attempts of one run, and to two runs of one
\* job only when one of the snapshots allows it, unless a tree has been given up:
\* a restart, a runner failure or the user's acknowledgement ended its run as
\* interrupted_unknown.  (The survivors of a leader that exited by itself may
\* overlap with anything: nothing in the store knows of them.)
TreesOverlapOnlyIfAllowed ==
    \A p, q \in processes :
        /\ p # q
        /\ runs[p[1]].job = runs[q[1]].job
        /\ runs[p[1]].state # "interrupted_unknown"
        /\ runs[q[1]].state # "interrupted_unknown"
        => /\ p[1] # q[1]
           /\ PerJobLimit(runs[p[1]].def) > 1 \/ PerJobLimit(runs[q[1]].def) > 1

\* A requested cancellation of a run with a spawned task takes effect: the run
\* ends, or waits for its retry, or is quarantined, unless the daemon stops, or
\* the drain of the run waits for ever for a descendant that has a pipe open.
CancellationTakesEffect ==
    \A r \in 1..MaxRuns :
        \/ <>[]InPhase(r, "held")
        \/ (r \in DOMAIN tasks /\ tasks[r].phase # "preparing" /\ runs[r].cancel # "none")
              ~> (\/ lifetime \in {"down", "cancelling"}
                  \/ r \in DOMAIN runs /\ (\/ runs[r].state \notin Executing
                                            \/ runs[r].quarantined))

\* A shutdown ends, whatever the tasks are doing when the drain timeout elapses:
\* the cancelled token reaches each of them in every phase but one.  Only a
\* descendant that has a pipe open for ever keeps the daemon from ending.
ShutdownEnds ==
    \/ \E r \in 1..MaxRuns : <>[]InPhase(r, "held")
    \/ lifetime \in {"draining", "cancelling"} ~> lifetime = "down"

=============================================================================
