---------------------------- MODULE ProcessRunner ----------------------------
(***************************************************************************)
(* Runner::run_process on Unix, for one attempt: the select loop that waits  *)
(* for the leader, the TERM and KILL stages of a cancellation or a timeout,  *)
(* the drain of the output pipes, and the cleanup after a failure of the     *)
(* output or of the child infrastructure.                                    *)
(*                                                                           *)
(* The target is a leader and at most one child that the leader forks.  The  *)
(* runner sees of them only what wait, kill and the pipes tell.  A deadline  *)
(* elapses at an arbitrary moment.                                           *)
(*                                                                           *)
(* As in RunStore, a definition whose comment begins with "Wrong:" is a bug  *)
(* that a property is shown to catch, and no part of the model.              *)
(***************************************************************************)
EXTENDS Naturals

CONSTANTS
    Privileged,     \* processes that may take credentials the runner cannot signal
    Escaping        \* processes that may leave the process group

Processes == {"leader", "child"}

ASSUME RunnerAssumption == Privileged \subseteq Processes /\ Escaping \subseteq Processes

VARIABLES
    status,         \* of each process, as the kernel has it
    inGroup,        \* the processes in the group of the attempt
    holders,        \* the processes that have the write end of a pipe
    foreign,        \* the processes that the runner may not signal
    requested,      \* context.cancellation
    phase,          \* where run_process is
    reaped,         \* result.is_some()
    termination,    \* why the runner terminates the tree
    stage,          \* termination_stage: 1 after TERM, 2 after KILL
    killDelivered,  \* kill_delivered
    outcome         \* what run_process returns

target == <<status, inGroup, holders, foreign>>
runner == <<phase, reaped, termination, stage, killDelivered, outcome>>
runnerVars == <<status, inGroup, holders, foreign, requested, phase, reaped, termination,
                stage, killDelivered, outcome>>

\* A killed process executes no more, but is still there until the kernel has
\* taken it down; a zombie has no open files, and is visible until it is reaped.
Statuses == {"unborn", "running", "killed", "zombie", "gone"}
Phases == {"select", "drain", "finalize", "cleanup_term", "cleanup_kill", "done"}
Outcomes == {"succeeded", "failed", "timed_out", "cancelled", "termination_unconfirmed",
             "infrastructure"}

RunnerTypeOK ==
    /\ status \in [Processes -> Statuses]
    /\ inGroup \subseteq Processes
    /\ holders \subseteq Processes
    /\ foreign \subseteq Processes
    /\ requested \in BOOLEAN
    /\ phase \in Phases
    /\ reaped \in BOOLEAN
    /\ termination \in {"none", "cancelled", "timed_out"}
    /\ stage \in 0..2
    /\ killDelivered \in BOOLEAN
    /\ outcome \in Outcomes \cup {"none"}

-----------------------------------------------------------------------------
(* The target.                                                             *)

Visible(p) == status[p] \in {"running", "killed", "zombie"}

Fork ==
    /\ status["leader"] = "running"
    /\ status["child"] = "unborn"
    /\ status' = [status EXCEPT !["child"] = "running"]
    /\ inGroup' = IF "leader" \in inGroup THEN Processes ELSE inGroup
    /\ holders' = IF "leader" \in holders THEN Processes ELSE holders
    /\ foreign' = IF "leader" \in foreign THEN Processes ELSE foreign
    /\ UNCHANGED <<requested, runner>>

\* By itself, by a TERM it obeys, or because it was killed.
Exit(p) ==
    /\ status[p] \in {"running", "killed"}
    /\ status' = [status EXCEPT ![p] = "zombie"]
    /\ holders' = holders \ {p}
    /\ UNCHANGED <<inGroup, foreign, requested, runner>>

ClosePipes(p) ==
    /\ status[p] = "running"
    /\ p \in holders
    /\ holders' = holders \ {p}
    /\ UNCHANGED <<status, inGroup, foreign, requested, runner>>

LeaveGroup(p) ==
    /\ p \in Escaping \cap inGroup
    /\ status[p] = "running"
    /\ inGroup' = inGroup \ {p}
    /\ UNCHANGED <<status, holders, foreign, requested, runner>>

\* It executes a set-user-ID program.
TakeCredentials(p) ==
    /\ p \in Privileged \ foreign
    /\ status[p] = "running"
    /\ foreign' = foreign \cup {p}
    /\ UNCHANGED <<status, inGroup, holders, requested, runner>>

\* The leader or init reaps the child.
ChildReaped ==
    /\ status["child"] = "zombie"
    /\ status' = [status EXCEPT !["child"] = "gone"]
    /\ inGroup' = inGroup \ {"child"}
    /\ UNCHANGED <<holders, foreign, requested, runner>>

RequestCancellation ==
    /\ ~requested
    /\ requested' = TRUE
    /\ UNCHANGED <<target, runner>>

-----------------------------------------------------------------------------
(* What the system calls do.                                               *)

\* observe_group_absence: a group that cannot be signalled is not absent.
GroupAbsent == \A p \in inGroup : ~Visible(p)

\* signal_group with SIGKILL kills the members it may signal.
Kill ==
    status' = [p \in Processes |->
                 IF p \in inGroup \ foreign /\ status[p] = "running"
                 THEN "killed" ELSE status[p]]

\* signal_delivered_or_absent: killpg succeeds if it may signal one member.
KillSucceeds == GroupAbsent \/ \E p \in inGroup \ foreign : Visible(p)

ReapLeader ==
    /\ ~reaped
    /\ status["leader"] = "zombie"
    /\ status' = [status EXCEPT !["leader"] = "gone"]
    /\ inGroup' = inGroup \ {"leader"}
    /\ reaped' = TRUE

-----------------------------------------------------------------------------
(* The select loop.  It is biased: no later branch is taken while the leader *)
(* can be reaped, and the timeout is not noticed while a cancellation is.    *)

Selecting == phase = "select" /\ (status["leader"] = "zombie" => reaped)

\* Wrong: takes the exit of the leader for the end of the tree.
WaitForLeader ==
    /\ phase = "select"
    /\ ReapLeader
    /\ phase' = "drain"
    /\ UNCHANGED <<holders, foreign, requested, termination, stage, killDelivered, outcome>>

\* After a signal the loop goes on unless the whole group is gone.
Wait ==
    /\ phase = "select"
    /\ ReapLeader
    /\ phase' = IF termination = "none" \/ GroupAbsent' THEN "drain" ELSE "select"
    /\ UNCHANGED <<holders, foreign, requested, termination, stage, killDelivered, outcome>>

StartTermination(why) ==
    /\ Selecting
    /\ termination = "none"
    /\ termination' = why
    /\ stage' = 1
    /\ UNCHANGED <<target, requested, phase, reaped, killDelivered, outcome>>

NoticeCancellation == requested /\ StartTermination("cancelled")
NoticeTimeout == ~requested /\ StartTermination("timed_out")

\* The first deadline: KILL, unless only the wait for the leader is missing.
Escalate ==
    /\ stage' = 2
    /\ IF GroupAbsent
       THEN UNCHANGED <<status, killDelivered>>
       ELSE Kill /\ killDelivered' = KillSucceeds
    /\ UNCHANGED <<phase, outcome>>

\* Wrong: counts deadlines instead of ending.
ConcludeByCounting ==
    /\ stage' = stage + 1
    /\ UNCHANGED <<status, phase, killDelivered, outcome>>

\* Wrong: waits for a zombie that nobody reaps.
ConcludeWhenAbsent ==
    UNCHANGED <<status, stage, phase, killDelivered, outcome>>

\* Wrong: takes a zombie that nobody has reaped for a live process.
ConcludeWithoutKill ==
    /\ phase' = "finalize"
    /\ outcome' = "termination_unconfirmed"
    /\ UNCHANGED <<status, stage, killDelivered>>

\* The second deadline: what a delivered KILL left is taken for a zombie.
Conclude ==
    /\ IF reaped /\ killDelivered
       THEN phase' = "drain" /\ UNCHANGED outcome
       ELSE phase' = "finalize" /\ outcome' = "termination_unconfirmed"
    /\ UNCHANGED <<status, stage, killDelivered>>

\* termination_deadline elapses.
Deadline ==
    /\ Selecting
    /\ stage > 0
    /\ \/ /\ GroupAbsent /\ reaped
          /\ phase' = "drain"
          /\ UNCHANGED <<status, stage, killDelivered, outcome>>
       \/ /\ ~(GroupAbsent /\ reaped)
          /\ IF stage = 1 THEN Escalate ELSE Conclude
    /\ UNCHANGED <<inGroup, holders, foreign, requested, reaped, termination>>

\* Wrong: leaves descendants writing.
DrainWithLeader ==
    /\ phase = "drain"
    /\ phase' = "finalize"
    /\ UNCHANGED <<target, requested, reaped, termination, stage, killDelivered, outcome>>

\* The pipes are read to their end, whatever else happens.
Drain ==
    /\ phase = "drain"
    /\ holders = {}
    /\ phase' = "finalize"
    /\ UNCHANGED <<target, requested, reaped, termination, stage, killDelivered, outcome>>

Finalize ==
    /\ phase = "finalize"
    /\ phase' = "done"
    /\ \/ /\ outcome = "none"
          /\ IF termination = "none"
             THEN outcome' \in {"succeeded", "failed"}
             ELSE outcome' = termination
       \/ /\ outcome # "none"
          /\ UNCHANGED outcome
    /\ UNCHANGED <<target, requested, reaped, termination, stage, killDelivered>>

-----------------------------------------------------------------------------
(* terminate_after_output_failure.                                         *)

\* wait, write, flush or finalize fails: TERM, unless nothing is left.
InfrastructureFails ==
    /\ phase \in {"select", "drain", "finalize"}
    /\ phase' = IF reaped /\ GroupAbsent THEN "done" ELSE "cleanup_term"
    /\ outcome' = "infrastructure"
    /\ UNCHANGED <<target, requested, reaped, termination, stage, killDelivered>>

\* wait_for_group_exit.
CleanupWait ==
    /\ phase \in {"cleanup_term", "cleanup_kill"}
    /\ \/ /\ ReapLeader
          /\ UNCHANGED phase
       \/ /\ reaped /\ GroupAbsent
          /\ phase' = "done"
          /\ UNCHANGED <<status, inGroup, reaped>>
    /\ UNCHANGED <<holders, foreign, requested, termination, stage, killDelivered, outcome>>

\* The grace period elapses: KILL after TERM, and only an error in the log
\* after KILL.
CleanupDeadline ==
    /\ \/ /\ phase = "cleanup_term"
          /\ Kill
          /\ phase' = "cleanup_kill"
       \/ /\ phase = "cleanup_kill"
          /\ phase' = "done"
          /\ UNCHANGED status
    /\ UNCHANGED <<inGroup, holders, foreign, requested, reaped, termination, stage,
                   killDelivered, outcome>>

-----------------------------------------------------------------------------

RunnerInit ==
    /\ status = [p \in Processes |-> IF p = "leader" THEN "running" ELSE "unborn"]
    /\ inGroup = {"leader"}
    /\ holders = {"leader"}
    /\ foreign = {}
    /\ requested = FALSE
    /\ phase = "select"
    /\ reaped = FALSE
    /\ termination = "none"
    /\ stage = 0
    /\ killDelivered = FALSE
    /\ outcome = "none"

TargetStep ==
    \/ Fork
    \/ \E p \in Processes : Exit(p) \/ ClosePipes(p) \/ LeaveGroup(p) \/ TakeCredentials(p)
    \/ ChildReaped

LoopStep == Wait \/ NoticeCancellation \/ Deadline \/ Drain \/ Finalize

CleanupStep == CleanupWait \/ CleanupDeadline

RunnerNext ==
    \/ TargetStep
    \/ RequestCancellation
    \/ LoopStep
    \/ NoticeTimeout
    \/ InfrastructureFails
    \/ CleanupStep

RunnerSpec == RunnerInit /\ [][RunnerNext]_runnerVars

\* The runtime polls the loop and its timers, and the kernel takes down what
\* was killed; nothing makes a target exit by itself.
FairRunnerSpec ==
    /\ RunnerSpec
    /\ WF_runnerVars(LoopStep)
    /\ WF_runnerVars(CleanupStep)
    /\ \A p \in Processes : WF_runnerVars(status[p] = "killed" /\ Exit(p))

-----------------------------------------------------------------------------
(* Properties.                                                             *)

\* "Completion is not reported until tree termination is confirmed": a result
\* after a cancellation or a timeout is returned only when no process of the
\* group can execute any more, however TERM, KILL, exits and deadlines race.
\* There is one exception, against those words of docs/SPEC.md: killpg succeeds
\* when it reaches one member, so a KILL that reached another member passes for
\* the end of one that has taken other credentials.
ReportedTreeIsDead ==
    phase = "done" /\ outcome \in {"cancelled", "timed_out"} =>
        /\ reaped
        /\ \A p \in inGroup : status[p] = "running" => p \in foreign /\ killDelivered

\* The output of a returned result is complete: nobody can write to the pipes
\* any more, except after an outcome that admits that the tree may live.
OutputIsComplete ==
    phase = "done" /\ outcome \in {"succeeded", "failed", "cancelled", "timed_out"} =>
        holders = {}

\* A dead tree is not quarantined, although a zombie that its parent does not
\* reap stays visible in the group and the leader may be reaped late: when the
\* runner gives up, a process of the tree has not come to its end, or is one that
\* the runner may not signal, not even as a zombie.
DeadTreeIsNotQuarantined ==
    [][outcome = "none" /\ outcome' = "termination_unconfirmed" =>
         \E p \in Processes :
             \/ status[p] \in {"running", "killed"}
             \/ p \in foreign \cap inGroup /\ Visible(p)]_runnerVars

\* A termination that has started ends, with an outcome.  The one thing that it
\* can wait for without a bound is the drain of a pipe that a process holds which
\* no signal of the runner reaches: it has left the group, or taken other
\* credentials.  (The output and flush branches, which the biased select tries
\* before the deadline, are left out: the model assumes that they do not win every
\* time, since past the output limit a write only counts and the channel is read
\* faster than the pipes fill it.)
TerminationEnds ==
    \/ <>[](phase = "drain" /\ holders \ (inGroup \ foreign) # {})
    \/ (termination # "none") ~> (phase = "done")

\* docs/SPEC.md: long-running work is cancellable as a process tree.
CancellationEndsAttempt == requested ~> (phase = "done")
==============================================================================
