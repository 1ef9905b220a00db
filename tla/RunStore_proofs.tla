--------------------------- MODULE RunStore_proofs ---------------------------
(***************************************************************************)
(* Proofs about RunStore, for every set of jobs and definitions and every   *)
(* bound.  The first part is about single rows of the table runs: what an   *)
(* operation makes of one row.  The second lifts that to the steps of the   *)
(* store and the inductive invariant, the third draws the conclusions.      *)
(***************************************************************************)
EXTENDS RunStore, SequenceTheorems, FiniteSetTheorems, WellFoundedInduction, TLAPS

\* The inductive part of the properties of one row.  A queued run has not been
\* attempted: AttemptsAgree needs it when admit appends an attempt.
RunOK(run) ==
    /\ run \in Run
    /\ Len(run.attempts) <= MaxAttempts
    /\ run.state = "queued" => Len(run.attempts) = 0
    /\ AttemptsAgree(run)
    /\ RetryIntentIsKnownFailure(run)

\* What every operation but admit makes of a row.
Settles(run, new) ==
    /\ RunOK(new)
    /\ new.job = run.job /\ new.trigger = run.trigger /\ new.def = run.def
    /\ Len(new.attempts) = Len(run.attempts)
    /\ new.state = "queued" => run.state = "queued"
    /\ new.state \in Executing => run.state \in Executing
    /\ run.state \in Terminal =>
          /\ new.state = run.state
          /\ \A n \in 1..Len(run.attempts) : new.attempts[n].state = run.attempts[n].state

-----------------------------------------------------------------------------
(* Rows.                                                                   *)

\* The bound on attempts is a number, so a retry intent may be absent (0).
LEMMA BoundIsNat == MaxAttempts \in Nat /\ 0 \in 0..MaxAttempts
BY ConstantsAssumption

\* The attempts of a row are a sequence, numbered from 1 as in the table.
LEMMA AttemptsAreSeq ==
    ASSUME NEW run, RunOK(run)
    PROVE  /\ run.attempts \in Seq(Attempt)
           /\ Len(run.attempts) \in Nat
           /\ DOMAIN run.attempts = 1..Len(run.attempts)
           /\ \A n \in 1..Len(run.attempts) : run.attempts[n] \in Attempt
<1>1. run.attempts \in Seq(Attempt)
  BY Zenon DEF RunOK, Run
<1> QED
  BY <1>1, LenProperties, ElementOfSeq, Zenon

\* An active attempt is the newest one of an executing run.
LEMMA ActiveIsNewest ==
    ASSUME NEW run, RunOK(run), NEW n \in 1..Len(run.attempts),
           run.attempts[n].state \in Executing
    PROVE  n = Len(run.attempts) /\ run.state = run.attempts[n].state /\ ~run.quarantined
<1>1. Len(run.attempts) \in Nat
  BY AttemptsAreSeq, Zenon
<1> QED
  BY <1>1 DEF RunOK, AttemptsAgree, Executing, KnownFailure, Run, RunStates, Terminal, Known,
              Skipped, Active, Pending

\* A row that an operation leaves alone settles.
LEMMA RowUnchanged ==
    ASSUME NEW run, RunOK(run)
    PROVE  Settles(run, run)
BY Zenon DEF Settles

\* An operation that leaves the attempts alone.
LEMMA RowSettles ==
    ASSUME NEW run, RunOK(run), NEW new \in Run,
           new.attempts = run.attempts,
           new.job = run.job, new.trigger = run.trigger, new.def = run.def,
           \/ /\ new.state = run.state /\ new.quarantined = run.quarantined
              /\ new.retry = run.retry \/ (new.retry = 0 /\ run.state # "retry_wait")
           \/ /\ new.state \in Terminal /\ ~new.quarantined /\ new.retry = 0
              /\ run.state \in Pending \/ run.quarantined
    PROVE  Settles(run, new)
<1>1. Len(run.attempts) \in Nat
  BY AttemptsAreSeq, Zenon
<1>2. AttemptsAgree(new)
  BY <1>1, Zenon DEF RunOK, AttemptsAgree, Executing, Terminal, Pending, Known, Skipped
<1>3. RetryIntentIsKnownFailure(new)
  BY <1>1, Zenon DEF RunOK, RetryIntentIsKnownFailure, Executing, Terminal, Known, Skipped
<1>4. RunOK(new)
  BY <1>2, <1>3, Zenon DEF RunOK, Terminal, Known, Skipped
<1> QED
  BY <1>1, <1>4, Zenon DEF Settles, RunOK, AttemptsAgree, Executing, Terminal, Known, Skipped, Pending

\* An operation that ends attempt n, which is starting or running, as e.
LEMMA AttemptEnds ==
    ASSUME NEW run, RunOK(run), NEW new \in Run, NEW n \in 1..Len(run.attempts), NEW e,
           run.attempts[n].state \in Executing,
           e.state \notin Executing,
           Len(new.attempts) = Len(run.attempts),
           \A i \in 1..Len(run.attempts) :
               new.attempts[i] = IF i = n THEN e ELSE run.attempts[i],
           new.job = run.job, new.trigger = run.trigger, new.def = run.def,
           \/ /\ new.state \in Terminal /\ ~new.quarantined /\ new.retry = 0
           \/ /\ new.state = "retry_wait" /\ ~new.quarantined /\ new.retry = n
              /\ e.state \in KnownFailure
           \/ /\ new.state = "running" /\ new.quarantined /\ new.retry = 0
              /\ e.state = "interrupted_unknown"
    PROVE  Settles(run, new)
<1>1. /\ Len(run.attempts) \in Nat
      /\ n = Len(run.attempts)
      /\ run.state \in Executing
  BY AttemptsAreSeq, ActiveIsNewest, Zenon
<1>2. AttemptsAgree(new)
  BY <1>1, SMTT(40) DEF RunOK, AttemptsAgree, Executing, Terminal, Known, Skipped
<1>3. RetryIntentIsKnownFailure(new)
  BY <1>1 DEF RunOK, RetryIntentIsKnownFailure, Executing, Terminal, Known, Skipped
<1>4. RunOK(new)
  BY <1>1, <1>2, <1>3, Zenon DEF RunOK, Terminal, Known, Skipped
<1> QED
  BY <1>1, <1>4, Zenon DEF Settles, Executing, Terminal, Known, Skipped

\* An operation that changes the output artifact of an attempt.
LEMMA OutputChanges ==
    ASSUME NEW run, RunOK(run), NEW new \in Run,
           Len(new.attempts) = Len(run.attempts),
           \A i \in 1..Len(run.attempts) : new.attempts[i].state = run.attempts[i].state,
           new.job = run.job, new.trigger = run.trigger, new.def = run.def,
           new.state = run.state, new.quarantined = run.quarantined, new.retry = run.retry
    PROVE  Settles(run, new)
<1>1. Len(run.attempts) \in Nat
  BY AttemptsAreSeq, Zenon
<1>2. AttemptsAgree(new)
  BY <1>1, SMTT(40) DEF RunOK, AttemptsAgree
<1>3. RetryIntentIsKnownFailure(new)
  <2>1. CASE run.retry = 0
    BY <2>1, Zenon DEF RunOK, RetryIntentIsKnownFailure
  <2>2. CASE run.retry # 0
    <3>1. run.retry \in 1..Len(run.attempts)
      BY <1>1, <2>2, BoundIsNat DEF RunOK, RetryIntentIsKnownFailure, Run, Executing
    <3> QED
      BY <3>1, <1>1, Zenon DEF RunOK, RetryIntentIsKnownFailure
  <2> QED
    BY <2>1, <2>2, Zenon
<1> QED
  BY <1>1, <1>2, <1>3, Zenon DEF Settles, RunOK

\* supersede_for_replacement, for one row.
LEMMA SupersededSettles ==
    ASSUME NEW run, RunOK(run)
    PROVE  Settles(run, SupersededRun(run))
<1> DEFINE new == SupersededRun(run)
<1>1. CASE run.state = "retry_wait" \/ (run.state = "queued" /\ run.trigger # "catch_up")
  <2>1. new = [run EXCEPT !.state = "skipped_overlap", !.candidate = FALSE, !.retry = 0]
    BY <1>1, Zenon DEF SupersededRun
  <2>2. new \in Run
    BY <2>1, BoundIsNat, Zenon DEF RunOK, Run, RunStates, Terminal, Skipped
  <2>3. ~run.quarantined
    BY <1>1, Zenon DEF RunOK, AttemptsAgree
  <2> QED
    BY <1>1, <2>1, <2>2, <2>3, RowSettles, ZenonT(40) DEF RunOK, Run, Terminal, Skipped, Pending
<1>2. CASE /\ ~(run.state = "retry_wait" \/ (run.state = "queued" /\ run.trigger # "catch_up"))
           /\ run.state \in Executing
  <2>1. new = [run EXCEPT !.cancel = IF @ = "none" THEN "replacement" ELSE @,
                          !.candidate = FALSE]
    BY <1>2, Zenon DEF SupersededRun
  <2>2. new \in Run
    BY <2>1, Zenon DEF RunOK, Run
  <2> QED
    BY <2>1, <2>2, RowSettles, ZenonT(40) DEF RunOK, Run
<1>3. CASE /\ ~(run.state = "retry_wait" \/ (run.state = "queued" /\ run.trigger # "catch_up"))
           /\ run.state \notin Executing
  BY <1>3, RowUnchanged, Zenon DEF SupersededRun
<1> QED
  BY <1>1, <1>2, <1>3, Zenon

\* complete_attempt with termination_unconfirmed, for the waiting candidate.
LEMMA QuarantineSettles ==
    ASSUME NEW run, RunOK(run)
    PROVE  Settles(run, FailedByQuarantine(run))
<1> DEFINE new == FailedByQuarantine(run)
<1>1. CASE run.state \in Pending
  <2>1. new = [run EXCEPT !.state = "failed", !.candidate = FALSE, !.retry = 0]
    BY <1>1, Zenon DEF FailedByQuarantine
  <2>2. new \in Run
    BY <2>1, BoundIsNat, ZenonT(60) DEF RunOK, Run, RunStates, Terminal, Known
  <2>3. ~run.quarantined
    BY <1>1, Zenon DEF RunOK, AttemptsAgree, Pending
  <2> QED
    BY <1>1, <2>1, <2>2, <2>3, RowSettles, ZenonT(40) DEF RunOK, Run, Terminal, Known
<1>2. CASE run.state \notin Pending
  <2>1. new = [run EXCEPT !.retry = 0]
    BY <1>2, Zenon DEF FailedByQuarantine
  <2>2. new \in Run
    BY <2>1, BoundIsNat, Zenon DEF RunOK, Run
  <2> QED
    BY <1>2, <2>1, <2>2, RowSettles, Zenon DEF RunOK, Run, Pending
<1> QED
  BY <1>1, <1>2, Zenon

\* The row of an attempt that ends: state, output and row are new, the rest of
\* the row and of its attempts stay.
LEMMA AttemptReplaced ==
    ASSUME NEW run, RunOK(run), NEW n \in DOMAIN run.attempts, NEW e \in Attempt
    PROVE  LET new == [run.attempts EXCEPT ![n] = e]
           IN  /\ n \in 1..Len(run.attempts)
               /\ new \in Seq(Attempt)
               /\ Len(new) = Len(run.attempts)
               /\ \A i \in 1..Len(run.attempts) :
                      new[i] = IF i = n THEN e ELSE run.attempts[i]
BY AttemptsAreSeq, ExceptSeq

\* An attempt in flight ends, and its run with it: finished, waiting for a retry or
\* quarantined.
LEMMA AttemptEndsAs ==
    ASSUME NEW run, RunOK(run), NEW n \in DOMAIN run.attempts, NEW e \in Attempt,
           NEW new \in Run,
           run.attempts[n].state \in Executing,
           e.state \notin Executing,
           new.attempts = [run.attempts EXCEPT ![n] = e],
           new.job = run.job, new.trigger = run.trigger, new.def = run.def,
           \/ /\ new.state \in Terminal /\ ~new.quarantined /\ new.retry = 0
           \/ /\ new.state = "retry_wait" /\ ~new.quarantined /\ new.retry = n
              /\ e.state \in KnownFailure
           \/ /\ new.state = "running" /\ new.quarantined /\ new.retry = 0
              /\ e.state = "interrupted_unknown"
    PROVE  Settles(run, new)
<1>1. /\ n \in 1..Len(run.attempts)
      /\ Len(new.attempts) = Len(run.attempts)
      /\ \A i \in 1..Len(run.attempts) :
            new.attempts[i] = IF i = n THEN e ELSE run.attempts[i]
  BY AttemptReplaced
<1> QED
  BY <1>1, AttemptEnds, Zenon

-----------------------------------------------------------------------------
(* Steps.                                                                  *)

\* The inductive invariant: the rows, and sequences that have not been used.
StoreInv ==
    /\ jobs \in [Jobs -> Job]
    /\ \A j \in Jobs : Len(jobs[j].revisions) <= MaxRevision
    /\ nextSequence \in 1..(MaxRuns + 1)
    /\ DOMAIN runs \subseteq 1..(nextSequence - 1)
    /\ \A r \in DOMAIN runs : RunOK(runs[r])
    /\ globalConcurrency \in GlobalLimits

\* A step that creates no run and admits none.
QuietStep ==
    /\ DOMAIN runs' = DOMAIN runs
    /\ \A r \in DOMAIN runs : Settles(runs[r], runs'[r])
    /\ UNCHANGED nextSequence
    /\ globalConcurrency' \in GlobalLimits

JobsOK ==
    /\ jobs \in [Jobs -> Job]
    /\ \A j \in Jobs : Len(jobs[j].revisions) <= MaxRevision

\* Removing jobs keeps them well formed.
LEMMA SoftRemovedOK ==
    ASSUME JobsOK, NEW S, jobs' = SoftRemoved(S)
    PROVE  JobsOK'
BY ZenonT(40) DEF JobsOK, SoftRemoved, Job

\* One row changes, as the lemmas above allow.
LEMMA OneRow ==
    ASSUME StoreInv, NEW r \in DOMAIN runs, NEW new,
           runs' = [runs EXCEPT ![r] = new], Settles(runs[r], new),
           UNCHANGED <<nextSequence, globalConcurrency>>
    PROVE  QuietStep
BY RowUnchanged, Zenon DEF StoreInv, QuietStep

\* cancel_with_acknowledgement, in each of its three outcomes, only settles rows.
LEMMA CancelIsQuiet ==
    ASSUME StoreInv, CancelStep
    PROVE  QuietStep /\ JobsOK'
<1>0. JobsOK
  BY Zenon DEF StoreInv, JobsOK
<1>1. ASSUME NEW r \in DOMAIN runs, CancelPending(r)
      PROVE  QuietStep /\ JobsOK'
  <2> DEFINE new == [runs[r] EXCEPT !.state = "cancelled", !.cancel = "user",
                                    !.candidate = FALSE, !.retry = 0]
  <2>1. RunOK(runs[r])
    BY Zenon DEF StoreInv
  <2>2. runs' = [runs EXCEPT ![r] = new] /\ UNCHANGED <<nextSequence, globalConcurrency>>
    BY <1>1, Zenon DEF CancelPending
  <2>3. new \in Run
    BY <2>1, BoundIsNat, Zenon DEF RunOK, Run, RunStates, Terminal, Known
  <2>4. ~runs[r].quarantined
    BY <1>1, <2>1, Zenon DEF RunOK, AttemptsAgree, Pending, CancelPending
  <2>5. Settles(runs[r], new)
    BY <1>1, <2>1, <2>3, <2>4, RowSettles, ZenonT(60) DEF RunOK, Run, Terminal, Known, CancelPending
  <2> QED
    BY <1>0, <1>1, <2>2, <2>5, OneRow, SoftRemovedOK, ZenonT(60) DEF CancelPending
<1>2. ASSUME NEW r \in DOMAIN runs, RequestCancellation(r)
      PROVE  QuietStep /\ JobsOK'
  <2> DEFINE new == [runs[r] EXCEPT !.cancel = "user"]
  <2>1. RunOK(runs[r])
    BY Zenon DEF StoreInv
  <2>2. runs' = [runs EXCEPT ![r] = new] /\ UNCHANGED <<nextSequence, globalConcurrency>>
    BY <1>2, Zenon DEF RequestCancellation
  <2>3. new \in Run
    BY <2>1, Zenon DEF RunOK, Run
  <2>5. Settles(runs[r], new)
    BY <2>1, <2>3, RowSettles, Zenon DEF RunOK, Run
  <2> QED
    BY <1>0, <1>2, <2>2, <2>5, OneRow, ZenonT(60) DEF RequestCancellation, JobsOK
<1>3. ASSUME NEW r \in DOMAIN runs, AcknowledgeUnconfirmed(r)
      PROVE  QuietStep /\ JobsOK'
  <2> DEFINE new == [runs[r] EXCEPT !.state = "interrupted_unknown", !.quarantined = FALSE,
                                    !.candidate = FALSE, !.retry = 0]
  <2>1. RunOK(runs[r])
    BY Zenon DEF StoreInv
  <2>2. runs' = [runs EXCEPT ![r] = new] /\ UNCHANGED <<nextSequence, globalConcurrency>>
    BY <1>3, Zenon DEF AcknowledgeUnconfirmed
  <2>3. new \in Run
    BY <2>1, BoundIsNat, Zenon DEF RunOK, Run, RunStates, Terminal
  <2>5. Settles(runs[r], new)
    BY <1>3, <2>1, <2>3, RowSettles, ZenonT(40) DEF RunOK, Run, Terminal, AcknowledgeUnconfirmed
  <2> QED
    BY <1>0, <1>3, <2>2, <2>5, OneRow, SoftRemovedOK, ZenonT(60) DEF AcknowledgeUnconfirmed
<1> QED
  BY <1>1, <1>2, <1>3, Zenon DEF CancelStep

\* mark_attempt_running that finds a cancellation request only settles rows.
LEMMA CancelBeforeSpawnIsQuiet ==
    ASSUME StoreInv, NEW r \in DOMAIN runs, NEW n \in DOMAIN runs[r].attempts,
           CancelBeforeSpawn(r, n)
    PROVE  QuietStep /\ JobsOK'
<1> DEFINE e   == [state  |-> "cancelled",
                    output |-> IF runs[r].attempts[n].output = "pending"
                               THEN "missing" ELSE runs[r].attempts[n].output]
           new == [runs[r] EXCEPT !.state = "cancelled", !.candidate = FALSE, !.retry = 0,
                                   !.attempts = [@ EXCEPT ![n] = e]]
<1>1. /\ RunOK(runs[r])
      /\ n \in 1..Len(runs[r].attempts) /\ Len(runs[r].attempts) \in Nat
      /\ runs[r].attempts[n] \in Attempt
  BY AttemptsAreSeq, Zenon DEF StoreInv
<1>2. runs[r].attempts[n].state \in Executing
  BY Zenon DEF CancelBeforeSpawn, ActiveAttempt
<1>3. runs[r].state \in Executing /\ ~runs[r].quarantined
  BY <1>1, <1>2, ActiveIsNewest, Zenon
<1>4. runs' = [runs EXCEPT ![r] = new] /\ UNCHANGED <<nextSequence, globalConcurrency>>
  BY Zenon DEF CancelBeforeSpawn
<1>5. e \in Attempt /\ e.state \notin Executing
  BY <1>1, ConstantsAssumption, ZenonT(60)
     DEF CancelBeforeSpawn, Attempt, AttemptStates, OutputStates, Executing, Known, KnownFailure
<1>6. [runs[r].attempts EXCEPT ![n] = e] \in Seq(Attempt)
  BY <1>1, <1>5, AttemptReplaced
<1>7. new \in Run
  BY <1>1, <1>3, <1>6, BoundIsNat, ConstantsAssumption, ZenonT(60)
     DEF CancelBeforeSpawn, RunOK, Run, RunStates, Active, Pending, Executing, Terminal, Known
<1>8. Settles(runs[r], new)
  <2>1. /\ new.attempts = [runs[r].attempts EXCEPT ![n] = e]
        /\ new.job = runs[r].job /\ new.trigger = runs[r].trigger /\ new.def = runs[r].def
        /\ ~new.quarantined
    BY <1>1, <1>3, Zenon DEF RunOK, Run
  <2>2. new.state \in Terminal /\ new.retry = 0
    BY <1>1, <1>5, ConstantsAssumption, Zenon DEF CancelBeforeSpawn, RunOK, Run, Terminal, Known
  <2> HIDE DEF e, new
  <2> QED
    BY <1>1, <1>2, <1>5, <1>7, <2>1, <2>2, AttemptEndsAs, Zenon
<1> HIDE DEF new
<1> QED
  BY <1>4, <1>8, OneRow, SoftRemovedOK, Zenon DEF StoreInv, JobsOK, CancelBeforeSpawn

\* complete_attempt without a retry plan only settles rows.
LEMMA CompleteAttemptIsQuiet ==
    ASSUME StoreInv, NEW r \in DOMAIN runs, NEW n \in DOMAIN runs[r].attempts,
           NEW outcome \in Outcomes,
           CompleteAttempt(r, n, outcome)
    PROVE  QuietStep /\ JobsOK'
<1> DEFINE e   == [runs[r].attempts[n] EXCEPT !.state = outcome]
           new == [runs[r] EXCEPT !.state = outcome, !.retry = 0,
                                   !.attempts = [@ EXCEPT ![n] = e]]
<1>1. /\ RunOK(runs[r])
      /\ n \in 1..Len(runs[r].attempts) /\ Len(runs[r].attempts) \in Nat
      /\ runs[r].attempts[n] \in Attempt
  BY AttemptsAreSeq, Zenon DEF StoreInv
<1>2. runs[r].attempts[n].state \in Executing
  BY Zenon DEF CompleteAttempt, ActiveAttempt
<1>3. runs[r].state \in Executing /\ ~runs[r].quarantined
  BY <1>1, <1>2, ActiveIsNewest, Zenon
<1>4. runs' = [runs EXCEPT ![r] = new] /\ UNCHANGED <<nextSequence, globalConcurrency>>
  BY <1>3, ZenonT(60) DEF CompleteAttempt, RunOK, Run
<1>5. e \in Attempt /\ e.state \notin Executing
  BY <1>1, ConstantsAssumption, Zenon
     DEF CompleteAttempt, Attempt, AttemptStates, OutputStates, Executing, Known, KnownFailure
<1>6. [runs[r].attempts EXCEPT ![n] = e] \in Seq(Attempt)
  BY <1>1, <1>5, AttemptReplaced, Zenon
<1>7. new \in Run
  BY <1>1, <1>3, <1>6, BoundIsNat, ConstantsAssumption, ZenonT(60)
     DEF CompleteAttempt, RunOK, Run, RunStates, Active, Pending, Executing, Terminal, Known
<1>8. Settles(runs[r], new)
  <2>1. /\ new.attempts = [runs[r].attempts EXCEPT ![n] = e]
        /\ new.job = runs[r].job /\ new.trigger = runs[r].trigger /\ new.def = runs[r].def
        /\ ~new.quarantined
    BY <1>1, <1>3, Zenon DEF RunOK, Run
  <2>2. new.state \in Terminal /\ new.retry = 0
    BY <1>1, <1>5, ConstantsAssumption, Zenon DEF CompleteAttempt, RunOK, Run, Terminal, Known
  <2> HIDE DEF e, new
  <2> QED
    BY <1>1, <1>2, <1>5, <1>7, <2>1, <2>2, AttemptEndsAs, ZenonT(60)
<1> HIDE DEF new
<1> QED
  BY <1>4, <1>8, OneRow, SoftRemovedOK, Zenon DEF StoreInv, JobsOK, CompleteAttempt

\* complete_attempt with a retry plan only settles rows: retry_wait is not queued.
LEMMA CompleteWithRetryIsQuiet ==
    ASSUME StoreInv, NEW r \in DOMAIN runs, NEW n \in DOMAIN runs[r].attempts,
           NEW outcome \in Outcomes,
           CompleteWithRetry(r, n, outcome)
    PROVE  QuietStep /\ JobsOK'
<1> DEFINE e   == [runs[r].attempts[n] EXCEPT !.state = outcome]
           new == [runs[r] EXCEPT !.state = "retry_wait", !.retry = n,
                                   !.attempts = [@ EXCEPT ![n] = e]]
<1>1. /\ RunOK(runs[r])
      /\ n \in 1..Len(runs[r].attempts) /\ Len(runs[r].attempts) \in Nat
      /\ runs[r].attempts[n] \in Attempt
  BY AttemptsAreSeq, Zenon DEF StoreInv
<1>2. runs[r].attempts[n].state \in Executing
  BY Zenon DEF CompleteWithRetry, ActiveAttempt
<1>3. runs[r].state \in Executing /\ ~runs[r].quarantined
  BY <1>1, <1>2, ActiveIsNewest, Zenon
<1>4. runs' = [runs EXCEPT ![r] = new] /\ UNCHANGED <<nextSequence, globalConcurrency>>
  BY <1>3, Zenon DEF CompleteWithRetry, RunOK, Run
<1>5. e \in Attempt /\ e.state \notin Executing /\ e.state \in KnownFailure
  BY <1>1, ConstantsAssumption, Zenon
     DEF CompleteWithRetry, Attempt, AttemptStates, OutputStates, Executing, Known, KnownFailure
<1>6. [runs[r].attempts EXCEPT ![n] = e] \in Seq(Attempt)
  BY <1>1, <1>5, AttemptReplaced, Zenon
<1>7. new \in Run
  <2>1. n \in 0..MaxAttempts
    BY <1>1, BoundIsNat DEF RunOK
  <2> HIDE DEF e
  <2> QED
    BY <1>1, <1>6, <2>1, Zenon DEF RunOK, Run, RunStates, Active, Pending
<1>8. Settles(runs[r], new)
  <2>1. /\ new.attempts = [runs[r].attempts EXCEPT ![n] = e]
        /\ new.job = runs[r].job /\ new.trigger = runs[r].trigger /\ new.def = runs[r].def
        /\ ~new.quarantined
    BY <1>1, <1>3, Zenon DEF RunOK, Run
  <2>2. new.state = "retry_wait" /\ new.retry = n /\ e.state \in KnownFailure
    BY <1>1, <1>5, ConstantsAssumption, Zenon DEF CompleteWithRetry, RunOK, Run, Terminal, Known
  <2> HIDE DEF e, new
  <2> QED
    BY <1>1, <1>2, <1>5, <1>7, <2>1, <2>2, AttemptEndsAs, ZenonT(60)
<1> HIDE DEF new
<1> QED
  BY <1>4, <1>8, OneRow, Zenon DEF StoreInv, JobsOK, CompleteWithRetry

\* complete_pre_execution_failure only settles rows.
LEMMA FailBeforeExecutionIsQuiet ==
    ASSUME StoreInv, NEW r \in DOMAIN runs, NEW n \in DOMAIN runs[r].attempts,
           NEW output \in Outputs,
           FailBeforeExecution(r, n, output)
    PROVE  QuietStep /\ JobsOK'
<1> DEFINE e   == [state |-> "failed", output |-> output]
           new == [runs[r] EXCEPT !.state = "failed", !.retry = 0,
                                   !.attempts = [@ EXCEPT ![n] = e]]
<1>1. /\ RunOK(runs[r])
      /\ n \in 1..Len(runs[r].attempts) /\ Len(runs[r].attempts) \in Nat
      /\ runs[r].attempts[n] \in Attempt
  BY AttemptsAreSeq, Zenon DEF StoreInv
<1>2. runs[r].attempts[n].state \in Executing
  BY Zenon DEF FailBeforeExecution, ActiveAttempt
<1>3. runs[r].state \in Executing /\ ~runs[r].quarantined
  BY <1>1, <1>2, ActiveIsNewest, Zenon
<1>4. runs' = [runs EXCEPT ![r] = new] /\ UNCHANGED <<nextSequence, globalConcurrency>>
  BY <1>3, ZenonT(40) DEF FailBeforeExecution, RunOK, Run
<1>5. e \in Attempt /\ e.state \notin Executing
  BY <1>1, ConstantsAssumption, Zenon
     DEF FailBeforeExecution, Attempt, AttemptStates, OutputStates, Executing, Known, KnownFailure
<1>6. [runs[r].attempts EXCEPT ![n] = e] \in Seq(Attempt)
  BY <1>1, <1>5, AttemptReplaced, Zenon
<1>7. new \in Run
  BY <1>1, <1>3, <1>6, BoundIsNat, ConstantsAssumption, ZenonT(60)
     DEF FailBeforeExecution, RunOK, Run, RunStates, Active, Pending, Executing, Terminal, Known
<1>8. Settles(runs[r], new)
  <2>1. /\ new.attempts = [runs[r].attempts EXCEPT ![n] = e]
        /\ new.job = runs[r].job /\ new.trigger = runs[r].trigger /\ new.def = runs[r].def
        /\ ~new.quarantined
    BY <1>1, <1>3, Zenon DEF RunOK, Run
  <2>2. new.state \in Terminal /\ new.retry = 0
    BY <1>1, <1>5, ConstantsAssumption, Zenon DEF FailBeforeExecution, RunOK, Run, Terminal, Known
  <2> HIDE DEF e, new
  <2> QED
    BY <1>1, <1>2, <1>5, <1>7, <2>1, <2>2, AttemptEndsAs, ZenonT(60)
<1> HIDE DEF new
<1> QED
  BY <1>4, <1>8, OneRow, SoftRemovedOK, ZenonT(60) DEF StoreInv, JobsOK, FailBeforeExecution

\* complete_runner_failure only settles rows.
LEMMA CompleteRunnerFailureIsQuiet ==
    ASSUME StoreInv, NEW r \in DOMAIN runs, NEW n \in DOMAIN runs[r].attempts,
           NEW started \in BOOLEAN,
           CompleteRunnerFailure(r, n, started)
    PROVE  QuietStep /\ JobsOK'
<1> DEFINE e   == [state  |-> IF started THEN "interrupted_unknown" ELSE "failed",
                    output |-> "missing"]
           new == [runs[r] EXCEPT !.state = IF started THEN "interrupted_unknown" ELSE "failed",
                                   !.candidate = FALSE, !.retry = 0,
                                   !.attempts = [@ EXCEPT ![n] = e]]
<1>1. /\ RunOK(runs[r])
      /\ n \in 1..Len(runs[r].attempts) /\ Len(runs[r].attempts) \in Nat
      /\ runs[r].attempts[n] \in Attempt
  BY AttemptsAreSeq, Zenon DEF StoreInv
<1>2. runs[r].attempts[n].state \in Executing
  BY Zenon DEF CompleteRunnerFailure, ActiveAttempt
<1>3. runs[r].state \in Executing /\ ~runs[r].quarantined
  BY <1>1, <1>2, ActiveIsNewest, Zenon
<1>4. runs' = [runs EXCEPT ![r] = new] /\ UNCHANGED <<nextSequence, globalConcurrency>>
  BY ZenonT(60) DEF CompleteRunnerFailure
<1>5. e \in Attempt /\ e.state \notin Executing
  BY <1>1, ConstantsAssumption, Zenon
     DEF CompleteRunnerFailure, Attempt, AttemptStates, OutputStates, Executing, Known, KnownFailure
<1>6. [runs[r].attempts EXCEPT ![n] = e] \in Seq(Attempt)
  BY <1>1, <1>5, AttemptReplaced, Zenon
<1>7. new \in Run
  BY <1>1, <1>3, <1>6, BoundIsNat, ConstantsAssumption, ZenonT(60)
     DEF CompleteRunnerFailure, RunOK, Run, RunStates, Active, Pending, Executing, Terminal, Known
<1>8. Settles(runs[r], new)
  <2>1. /\ new.attempts = [runs[r].attempts EXCEPT ![n] = e]
        /\ new.job = runs[r].job /\ new.trigger = runs[r].trigger /\ new.def = runs[r].def
        /\ ~new.quarantined
    BY <1>1, <1>3, Zenon DEF RunOK, Run
  <2>2. new.state \in Terminal /\ new.retry = 0
    BY <1>1, <1>5, ConstantsAssumption, Zenon DEF CompleteRunnerFailure, RunOK, Run, Terminal, Known
  <2> HIDE DEF e, new
  <2> QED
    BY <1>1, <1>2, <1>5, <1>7, <2>1, <2>2, AttemptEndsAs, ZenonT(60)
<1> HIDE DEF new
<1> QED
  BY <1>4, <1>8, OneRow, SoftRemovedOK, Zenon DEF StoreInv, JobsOK, CompleteRunnerFailure

\* The reconciliation of an output artifact only settles rows.
LEMMA ReconcileOutputIsQuiet ==
    ASSUME StoreInv, NEW r \in DOMAIN runs, NEW n \in DOMAIN runs[r].attempts,
           NEW output \in Outputs, ReconcileOutput(r, n, output)
    PROVE  QuietStep /\ JobsOK'
<1> DEFINE e   == [runs[r].attempts[n] EXCEPT !.output = output]
           new == [runs[r] EXCEPT !.attempts = [@ EXCEPT ![n] = e]]
<1>1. /\ RunOK(runs[r])
      /\ n \in 1..Len(runs[r].attempts)
      /\ runs[r].attempts[n] \in Attempt
  BY AttemptsAreSeq, Zenon DEF StoreInv
<1>2. runs' = [runs EXCEPT ![r] = new] /\ UNCHANGED <<nextSequence, globalConcurrency>>
  BY Zenon DEF ReconcileOutput
<1>3. e \in Attempt /\ e.state = runs[r].attempts[n].state
  BY <1>1, ConstantsAssumption, Zenon DEF Attempt, OutputStates
<1>4. /\ [runs[r].attempts EXCEPT ![n] = e] \in Seq(Attempt)
      /\ Len([runs[r].attempts EXCEPT ![n] = e]) = Len(runs[r].attempts)
      /\ \A i \in 1..Len(runs[r].attempts) :
            [runs[r].attempts EXCEPT ![n] = e][i] = IF i = n THEN e ELSE runs[r].attempts[i]
  BY <1>1, <1>3, AttemptReplaced, Zenon
<1>5. new \in Run
  BY <1>1, <1>4, Zenon DEF RunOK, Run
<1>6. Settles(runs[r], new)
  <2>1. /\ new.attempts = [runs[r].attempts EXCEPT ![n] = e]
        /\ new.job = runs[r].job /\ new.trigger = runs[r].trigger /\ new.def = runs[r].def
        /\ new.state = runs[r].state /\ new.quarantined = runs[r].quarantined
        /\ new.retry = runs[r].retry
    BY <1>1, Zenon DEF RunOK, Run
  <2>2. /\ Len(new.attempts) = Len(runs[r].attempts)
        /\ \A i \in 1..Len(runs[r].attempts) :
              new.attempts[i].state = runs[r].attempts[i].state
    <3> HIDE DEF e
    <3> QED
      BY <1>3, <1>4, <2>1, Zenon
  <2> HIDE DEF new
  <2> QED
    BY <1>1, <1>5, <2>1, <2>2, OutputChanges, ZenonT(60)
<1> HIDE DEF new
<1> QED
  BY <1>2, <1>6, OneRow, Zenon DEF StoreInv, JobsOK, ReconcileOutput

\* mark_attempt_running moves a row from starting to running, and settles the others.
LEMMA MarkRunningIsQuiet ==
    ASSUME StoreInv, NEW r \in DOMAIN runs, NEW n \in DOMAIN runs[r].attempts,
           MarkRunning(r, n)
    PROVE  QuietStep /\ JobsOK'
<1> DEFINE run == runs[r]
           e   == [run.attempts[n] EXCEPT !.state = "running"]
           new == [run EXCEPT !.state = "running", !.attempts = [@ EXCEPT ![n] = e]]
<1>1. /\ RunOK(run)
      /\ n \in 1..Len(run.attempts) /\ Len(run.attempts) \in Nat
      /\ run.attempts[n] \in Attempt
  BY AttemptsAreSeq, Zenon DEF StoreInv
<1>2. run.state = "starting" /\ run.attempts[n].state = "starting"
  BY Zenon DEF MarkRunning
<1>3. n = Len(run.attempts) /\ ~run.quarantined
  BY <1>1, <1>2, ActiveIsNewest, Zenon DEF Executing
<1>4. runs' = [runs EXCEPT ![r] = new] /\ UNCHANGED <<nextSequence, globalConcurrency>>
  BY ZenonT(60) DEF MarkRunning
<1>5. e \in Attempt /\ e.state = "running"
  BY <1>1, Zenon DEF Attempt, AttemptStates, Executing
<1>6. /\ [run.attempts EXCEPT ![n] = e] \in Seq(Attempt)
      /\ Len([run.attempts EXCEPT ![n] = e]) = Len(run.attempts)
      /\ \A i \in 1..Len(run.attempts) :
            [run.attempts EXCEPT ![n] = e][i] = IF i = n THEN e ELSE run.attempts[i]
  BY <1>1, <1>5, AttemptReplaced
<1>7. new \in Run
  BY <1>1, <1>6, Zenon DEF RunOK, Run, RunStates, Active, Executing
<1>8. Settles(run, new)
  <2>1. /\ new.attempts = [run.attempts EXCEPT ![n] = e]
        /\ new.job = run.job /\ new.trigger = run.trigger /\ new.def = run.def
        /\ new.state = "running" /\ ~new.quarantined /\ new.retry = run.retry
    BY <1>1, <1>3, Zenon DEF RunOK, Run
  <2>2. /\ Len(new.attempts) = Len(run.attempts)
        /\ \A i \in 1..Len(run.attempts) :
              new.attempts[i] = IF i = n THEN e ELSE run.attempts[i]
    BY <1>6, <2>1, Zenon
  <2> HIDE DEF e, new, run
  <2>3. AttemptsAgree(new)
    BY <1>1, <1>3, <1>5, <2>1, <2>2, SMTT(40) DEF RunOK, AttemptsAgree, Executing
  <2>4. run.retry # 0 => /\ run.retry = n - 1
                         /\ run.retry \in 1..Len(run.attempts)
                         /\ run.attempts[run.retry].state \in KnownFailure
    BY <1>1, <1>2, <1>3, BoundIsNat, SMTT(40) DEF RunOK, Run, RetryIntentIsKnownFailure, Executing
  <2>5. RetryIntentIsKnownFailure(new)
    BY <1>1, <1>3, <2>1, <2>2, <2>4, SMTT(40) DEF RetryIntentIsKnownFailure, Executing
  <2> QED
    BY <1>1, <1>2, <1>7, <2>1, <2>2, <2>3, <2>5, ZenonT(60)
       DEF Settles, RunOK, Executing, Terminal, Known, Skipped
<1> HIDE DEF new
<1> QED
  BY <1>4, <1>8, OneRow, Zenon DEF StoreInv, JobsOK, MarkRunning

\* complete_attempt with termination_unconfirmed only settles rows, the failed
\* replacement candidates included.
LEMMA QuarantineAttemptIsQuiet ==
    ASSUME StoreInv, NEW r \in DOMAIN runs, NEW n \in DOMAIN runs[r].attempts,
           QuarantineAttempt(r, n)
    PROVE  QuietStep /\ JobsOK'
<1> DEFINE e   == [runs[r].attempts[n] EXCEPT !.state = "interrupted_unknown"]
           new == [runs[r] EXCEPT !.state = "running", !.quarantined = TRUE, !.retry = 0,
                                  !.attempts = [@ EXCEPT ![n] = e]]
<1>1. /\ RunOK(runs[r])
      /\ n \in 1..Len(runs[r].attempts)
      /\ runs[r].attempts[n] \in Attempt
      /\ runs[r].attempts[n].state \in Executing
  BY AttemptsAreSeq, Zenon DEF StoreInv, QuarantineAttempt, ActiveAttempt
<1>2. e \in Attempt /\ e.state = "interrupted_unknown" /\ e.state \notin Executing
  BY <1>1, Zenon DEF Attempt, AttemptStates, Executing
<1>3. [runs[r].attempts EXCEPT ![n] = e] \in Seq(Attempt)
  BY <1>1, <1>2, AttemptReplaced, Zenon
<1>4. new \in Run
  BY <1>1, <1>3, BoundIsNat, Zenon DEF RunOK, Run, RunStates, Active, Executing
<1>5. Settles(runs[r], new)
  <2>1. /\ new.attempts = [runs[r].attempts EXCEPT ![n] = e]
        /\ new.job = runs[r].job /\ new.trigger = runs[r].trigger /\ new.def = runs[r].def
        /\ new.state = "running" /\ new.quarantined /\ new.retry = 0
    BY <1>1, Zenon DEF RunOK, Run
  <2> HIDE DEF e, new
  <2> QED
    BY <1>1, <1>2, <1>4, <2>1, AttemptEndsAs, ZenonT(60)
<1>6. DOMAIN runs' = DOMAIN runs /\ UNCHANGED <<jobs, nextSequence, globalConcurrency>>
  BY Zenon DEF QuarantineAttempt
<1>7. runs'[r] = new
  BY Zenon DEF QuarantineAttempt
<1>8. ASSUME NEW s \in DOMAIN runs, s # r
      PROVE  Settles(runs[s], runs'[s])
  <2>1. runs'[s] = FailedByQuarantine(runs[s]) \/ runs'[s] = runs[s]
    BY <1>8, Zenon DEF QuarantineAttempt
  <2> QED
    BY <2>1, QuarantineSettles, RowUnchanged, Zenon DEF StoreInv
<1> HIDE DEF new
<1> QED
  BY <1>5, <1>6, <1>7, <1>8, ZenonT(60) DEF StoreInv, JobsOK, QuietStep

\* The steps of an attempt that the store takes.
LEMMA AttemptIsQuiet ==
    ASSUME StoreInv, AttemptStep
    PROVE  QuietStep /\ JobsOK'
BY MarkRunningIsQuiet, CancelBeforeSpawnIsQuiet, CompleteAttemptIsQuiet,
   CompleteWithRetryIsQuiet, QuarantineAttemptIsQuiet, FailBeforeExecutionIsQuiet,
   CompleteRunnerFailureIsQuiet, ReconcileOutputIsQuiet, ZenonT(60)
   DEF AttemptStep

\* begin_lifetime only settles rows.
LEMMA BeginLifetimeIsQuiet ==
    ASSUME StoreInv, BeginLifetime
    PROVE  QuietStep /\ JobsOK'
<1>1. DOMAIN runs' = DOMAIN runs /\ UNCHANGED <<nextSequence, globalConcurrency>>
  BY Zenon DEF BeginLifetime
<1>2. ASSUME NEW r \in DOMAIN runs
      PROVE  Settles(runs[r], runs'[r])
  <2> DEFINE run  == runs[r]
             last == Len(run.attempts)
             ended == [n \in DOMAIN run.attempts |-> Interrupt(run.attempts[n])]
             new  == runs'[r]
  <2>1. /\ RunOK(run)
        /\ last \in Nat /\ DOMAIN run.attempts = 1..last
        /\ run.attempts \in Seq(Attempt)
        /\ \A n \in 1..last : run.attempts[n] \in Attempt
    BY AttemptsAreSeq, Zenon DEF StoreInv
  <2>2. new = [run EXCEPT !.state = IF r \in StaleRuns THEN "interrupted_unknown" ELSE @,
                          !.retry = IF \E n \in DOMAIN run.attempts : ActiveAttempt(r, n)
                                    THEN 0 ELSE @,
                          !.attempts = ended]
    BY <2>1, Zenon DEF BeginLifetime, RunOK, Run
  <2>3. CASE \E n \in 1..last : run.attempts[n].state \in Executing
    <3>1. PICK n \in 1..last : run.attempts[n].state \in Executing
      BY <2>3, Zenon
    <3> DEFINE e == [run.attempts[n] EXCEPT !.state = "interrupted_unknown"]
    <3>2. n = last /\ run.state \in Executing /\ ~run.quarantined /\ r \in StaleRuns
      BY <2>1, <3>1, ActiveIsNewest, Zenon DEF StaleRuns
    <3>3. e \in Attempt /\ e.state \notin Executing
      BY <2>1, Zenon DEF Attempt, AttemptStates, Executing
    <3>4. ended = [run.attempts EXCEPT ![n] = e]
      <4>1. \A i \in 1..last : i # n => run.attempts[i].state \notin Executing
        BY <2>1, <3>2, ActiveIsNewest, Zenon
      <4>2. \A i \in 1..last : ended[i] = IF i = n THEN e ELSE run.attempts[i]
        BY <2>1, <3>1, <4>1, Zenon DEF Interrupt
      <4> QED
        BY <2>1, <4>2, Zenon
    <3>5. [run.attempts EXCEPT ![n] = e] \in Seq(Attempt)
      BY <2>1, <3>3, AttemptReplaced, Zenon
    <3>6. \E i \in DOMAIN run.attempts : ActiveAttempt(r, i)
      BY <2>1, <3>1, Zenon DEF ActiveAttempt
    <3>7. new = [run EXCEPT !.state = "interrupted_unknown", !.retry = 0,
                            !.attempts = [run.attempts EXCEPT ![n] = e]]
      BY <2>2, <3>2, <3>4, <3>6, Zenon
    <3>8. new \in Run
      BY <2>1, <3>5, <3>7, BoundIsNat, ZenonT(60) DEF RunOK, Run, RunStates, Terminal
    <3>9. /\ new.attempts = [run.attempts EXCEPT ![n] = e]
          /\ new.job = run.job /\ new.trigger = run.trigger /\ new.def = run.def
          /\ new.state \in Terminal /\ ~new.quarantined /\ new.retry = 0
      BY <2>1, <3>2, <3>7, Zenon DEF RunOK, Run, Terminal
    <3> HIDE DEF e
    <3> QED
      BY <2>1, <3>1, <3>3, <3>8, <3>9, AttemptEndsAs, ZenonT(60)
  <2>4. CASE \A n \in 1..last : run.attempts[n].state \notin Executing
    <3>1. \A n \in 1..last : ended[n] = run.attempts[n]
      BY <2>1, <2>4, Zenon DEF Interrupt
    <3>2. ended = run.attempts
      <4>1. run.attempts \in [1..last -> Attempt]
        BY <2>1, LenProperties, Zenon
      <4> QED
        BY <2>1, <3>1, <4>1, Zenon
    <3>3. r \notin StaleRuns
      BY <2>1, <2>4 DEF StaleRuns, RunOK, AttemptsAgree, Executing
    <3>4. ~\E n \in DOMAIN run.attempts : ActiveAttempt(r, n)
      BY <2>1, <2>4, Zenon DEF ActiveAttempt
    <3>5. new = [run EXCEPT !.state = @, !.retry = @, !.attempts = @]
      BY <2>2, <3>2, <3>3, <3>4, Zenon
    <3>6. /\ new \in Run /\ new.attempts = run.attempts
          /\ new.job = run.job /\ new.trigger = run.trigger /\ new.def = run.def
          /\ new.state = run.state /\ new.quarantined = run.quarantined
          /\ new.retry = run.retry
      BY <2>1, <3>5, ZenonT(60) DEF RunOK, Run
    <3> QED
      BY <2>1, <3>6, RowSettles, Zenon
  <2> QED
    BY <2>3, <2>4, Zenon
<1>3. JobsOK'
  BY SoftRemovedOK, Zenon DEF BeginLifetime, StoreInv, JobsOK
<1> QED
  BY <1>1, <1>2, <1>3, Zenon DEF QuietStep, StoreInv

\* What admit makes of the row of a run that it selects.
LEMMA AdmittedRowOK ==
    ASSUME NEW run, RunOK(run), run.state \in Pending, Len(run.attempts) < MaxAttempts
    PROVE  LET new == [run EXCEPT !.state = "starting",
                                  !.attempts = Append(@, [state |-> "starting",
                                                          output |-> "pending"])]
           IN  /\ RunOK(new)
               /\ new.state = "starting"
               /\ new.job = run.job /\ new.trigger = run.trigger /\ new.def = run.def
<1> DEFINE e    == [state |-> "starting", output |-> "pending"]
           last == Len(run.attempts)
           longer == Append(run.attempts, e)
           new  == [run EXCEPT !.state = "starting", !.attempts = longer]
<1>1. last \in Nat /\ run.attempts \in Seq(Attempt)
  BY AttemptsAreSeq, Zenon
<1>2. e \in Attempt /\ e.state = "starting"
  BY Zenon DEF Attempt, AttemptStates, OutputStates, Executing
<1>3. /\ longer \in Seq(Attempt)
      /\ Len(longer) = last + 1
      /\ \A i \in 1..last : longer[i] = run.attempts[i]
      /\ longer[last + 1] = e
  BY <1>1, <1>2, AppendProperties
<1>4. new \in Run
  BY <1>3, Zenon DEF RunOK, Run, RunStates, Active, Executing
<1>5. /\ new.attempts = longer /\ new.state = "starting"
      /\ new.job = run.job /\ new.trigger = run.trigger /\ new.def = run.def
      /\ new.retry = run.retry /\ new.quarantined = run.quarantined
  BY Zenon DEF RunOK, Run
<1>6. ~run.quarantined
  BY Zenon DEF RunOK, AttemptsAgree, Pending
<1>7. run.retry # 0 => run.state = "retry_wait" /\ run.retry = last
  BY Zenon DEF RunOK, RetryIntentIsKnownFailure, Pending, Executing
<1>8. last > 0 => run.attempts[last].state \in KnownFailure
  <2>1. last > 0 => run.state = "retry_wait" /\ run.retry = last
    BY <1>1 DEF RunOK, RetryIntentIsKnownFailure, Pending
  <2> QED
    BY <1>1, <2>1, SMTT(40) DEF RunOK, RetryIntentIsKnownFailure
<1> HIDE DEF e, longer, new
<1>9. AttemptsAgree(new)
  <2>1. \A n \in 1..(last - 1) : run.attempts[n].state \in KnownFailure
    BY Zenon DEF RunOK, AttemptsAgree
  <2>2. ASSUME NEW n \in 1..last
        PROVE  longer[n].state \in KnownFailure
    <3>1. longer[n] = run.attempts[n]
      BY <1>3, Zenon
    <3>2. n = last \/ n \in 1..(last - 1)
      BY <1>1
    <3>3. CASE n = last
      <4>1. last > 0
        BY <1>1
      <4> QED
        BY <1>8, <3>1, <3>3, <4>1, ZenonT(60)
    <3>4. CASE n \in 1..(last - 1)
      BY <2>1, <3>1, <3>4, ZenonT(60)
    <3> QED
      BY <3>2, <3>3, <3>4, Zenon
  <2> QED
    BY <1>1, <1>2, <1>3, <1>5, <1>6, <2>2, SMTT(40) DEF AttemptsAgree, Executing
<1>10. RetryIntentIsKnownFailure(new)
  BY <1>1, <1>3, <1>5, <1>7, <1>8, SMTT(40) DEF RetryIntentIsKnownFailure, Executing
<1>11. RunOK(new)
  BY <1>1, <1>3, <1>4, <1>5, <1>9, <1>10, BoundIsNat, SMTT(40) DEF RunOK
<1> QED
  BY <1>5, <1>11, Zenon DEF new, longer, e

\* A run of a job enters a table of settled rows.  A queued normal run finds
\* another one only if its snapshot allows overlap.
Enqueues(old, run) ==
    /\ DOMAIN old = DOMAIN runs
    /\ \A r \in DOMAIN runs : Settles(runs[r], old[r])
    /\ \A r \in DOMAIN runs : runs[r].quarantined => old[r].quarantined
    /\ runs' = old \/ runs' = Insert(old, run)
    /\ RunOK(run)
    /\ run.attempts = << >>
    /\ run.state \notin Executing
    /\ run.state = "queued" /\ run.trigger # "catch_up" =>
          \A r \in DOMAIN runs :
             /\ old[r].job = run.job
             /\ old[r].state = "queued" /\ old[r].trigger # "catch_up"
             => run.def.overlap = "allow"
    /\ nextSequence <= MaxRuns
    /\ nextSequence' = nextSequence + 1
    /\ UNCHANGED globalConcurrency

\* Queue sequences below next_queue_sequence bound the table, and every set of runs.
LEMMA RunsAreFinite ==
    ASSUME StoreInv, NEW j, NEW states
    PROVE  IsFiniteSet(RunsIn(j, states)) /\ Cardinality(RunsIn(j, states)) \in Nat
<1>1. nextSequence \in Nat /\ nextSequence >= 1 /\ 1 \in Int /\ nextSequence - 1 \in Int
  BY ConstantsAssumption DEF StoreInv
<1>2. IsFiniteSet(1..(nextSequence - 1))
  BY <1>1, FS_Interval, Zenon
<1>3. RunsIn(j, states) \subseteq 1..(nextSequence - 1)
  BY Zenon DEF StoreInv, RunsIn, RunsOf
<1> QED
  BY <1>2, <1>3, FS_Subset, FS_CardinalityType, ZenonT(60)

\* The overlap decision of an insert is queued or a terminal state.
LEMMA DecisionIsInitial ==
    ASSUME NEW j, NEW d, NEW trigger
    PROVE  OverlapDecision(j, d, trigger)
              \in {"queued", "failed", "skipped_overlap", "skipped_concurrency"}
BY ZenonT(60) DEF OverlapDecision

\* The row that enqueue_manual or materialize_with_summaries inserts is well formed.
LEMMA NewRunOK ==
    ASSUME StoreInv, NEW j \in Jobs, NEW seen \in DOMAIN jobs[j].revisions,
           seen = Revision(j), NEW trigger \in {"manual", "scheduled", "catch_up"}
    PROVE  RunOK(NewRun(j, jobs[j].revisions[seen], trigger))
<1> DEFINE d   == jobs[j].revisions[seen]
           run == NewRun(j, d, trigger)
<1>1. jobs[j].revisions \in Seq(Definitions)
  BY Zenon DEF StoreInv, Job
<1>2. /\ d \in Definitions
      /\ Revision(j) \in 1..MaxRevision
  BY <1>1, LenProperties, ElementOfSeq, ConstantsAssumption, SMTT(40) DEF StoreInv, Revision
<1>3. Replaces(j, d, trigger) \in BOOLEAN
  BY Zenon DEF Replaces
<1>4. << >> \in Seq(Attempt) /\ Len(<< >>) = 0
  BY EmptySeq, Zenon
<1>5. /\ run.state \in {"queued", "failed", "skipped_overlap", "skipped_concurrency"}
      /\ run.attempts = << >> /\ ~run.quarantined /\ run.retry = 0
  BY DecisionIsInitial, Zenon DEF NewRun
<1>6. run \in Run
  <2>1. OverlapDecision(j, d, trigger) \in RunStates
    BY DecisionIsInitial, Zenon DEF RunStates, Active, Pending, Terminal, Known, Skipped
  <2> HIDE DEF d
  <2> QED
    BY <1>2, <1>3, <1>4, <2>1, BoundIsNat, ZenonT(60) DEF Run, NewRun
<1> HIDE DEF run
<1> QED
  BY <1>4, <1>5, <1>6, BoundIsNat, SMTT(40) DEF RunOK, AttemptsAgree, RetryIntentIsKnownFailure, Executing, run

\* supersede_for_replacement only settles rows.
LEMMA SupersedeSettles ==
    ASSUME StoreInv, NEW j
    PROVE  /\ DOMAIN Supersede(j) = DOMAIN runs
           /\ \A r \in DOMAIN runs : Settles(runs[r], Supersede(j)[r])
           /\ \A r \in DOMAIN runs : runs[r].quarantined => Supersede(j)[r].quarantined
           /\ \A r \in DOMAIN runs : runs[r].job = j /\ runs[r].trigger # "catch_up" =>
                 Supersede(j)[r].state # "queued"
<1>1. DOMAIN Supersede(j) = DOMAIN runs
  BY Zenon DEF Supersede
<1>2. ASSUME NEW r \in DOMAIN runs
      PROVE  /\ Settles(runs[r], Supersede(j)[r])
             /\ runs[r].quarantined => Supersede(j)[r].quarantined
             /\ runs[r].job = j /\ runs[r].trigger # "catch_up" =>
                   Supersede(j)[r].state # "queued"
  <2>1. RunOK(runs[r]) /\ runs[r] \in Run
    BY Zenon DEF StoreInv, RunOK
  <2>2. Supersede(j)[r] = IF runs[r].job = j THEN SupersededRun(runs[r]) ELSE runs[r]
    BY Zenon DEF Supersede
  <2>3. runs[r].quarantined => SupersededRun(runs[r]).quarantined
    BY <2>1, Zenon DEF SupersededRun, Run
  <2>4. runs[r].trigger # "catch_up" => SupersededRun(runs[r]).state # "queued"
    BY <2>1, Zenon DEF SupersededRun, Run
  <2> QED
    BY <2>1, <2>2, <2>3, <2>4, SupersededSettles, RowUnchanged, ZenonT(60)
<1> QED
  BY <1>1, <1>2, Zenon

\* What enqueue_manual and materialize_with_summaries share.
LEMMA NewRunEnqueues ==
    ASSUME StoreInv, NEW j \in Jobs, NEW seen \in DOMAIN jobs[j].revisions,
           seen = Revision(j), NEW trigger \in {"manual", "scheduled", "catch_up"},
           NEW run, run = NewRun(j, jobs[j].revisions[seen], trigger),
           NEW old, old = IF run.candidate THEN Supersede(j) ELSE runs,
           runs' = old \/ runs' = Insert(old, run),
           nextSequence <= MaxRuns, nextSequence' = nextSequence + 1,
           UNCHANGED globalConcurrency
    PROVE  Enqueues(old, run)
<1> DEFINE d == jobs[j].revisions[seen]
<1>1. /\ RunOK(run)
      /\ run.attempts = << >> /\ run.job = j /\ run.def = d /\ run.trigger = trigger
      /\ run.state = OverlapDecision(j, d, trigger)
      /\ run.candidate = Replaces(j, d, trigger)
  BY NewRunOK, ZenonT(40) DEF NewRun
<1>2. run.state \notin Executing
  BY <1>1, DecisionIsInitial, SMTT(40) DEF Executing
<1>3. /\ DOMAIN old = DOMAIN runs
      /\ \A r \in DOMAIN runs : Settles(runs[r], old[r])
      /\ \A r \in DOMAIN runs : runs[r].quarantined => old[r].quarantined
  BY SupersedeSettles, RowUnchanged, Zenon DEF StoreInv
<1>4. ASSUME run.state = "queued", run.trigger # "catch_up", NEW r \in DOMAIN runs,
             old[r].job = run.job, old[r].state = "queued", old[r].trigger # "catch_up"
      PROVE  run.def.overlap = "allow"
  <2>1. runs[r].job = j /\ runs[r].state = "queued" /\ runs[r].trigger # "catch_up"
    BY <1>1, <1>3, <1>4, ZenonT(60) DEF Settles
  <2>2. r \in RunsIn(j, Active)
    BY <2>1, ZenonT(60) DEF RunsIn, RunsOf, Active, Pending
  <2>3. Cardinality(RunsIn(j, Active)) > 0
    BY <2>2, RunsAreFinite, FS_EmptySet, SMTT(40)
  <2>4. ~Quarantined(j) /\ d.overlap # "skip"
    BY <1>1, <1>4, <2>3, ZenonT(60) DEF OverlapDecision
  <2>5. d.overlap # "replace"
    <3>1. SUFFICES ASSUME d.overlap = "replace" PROVE FALSE
      OBVIOUS
    <3>2. Replaces(j, d, trigger)
      BY <1>1, <1>4, <2>2, <2>4, <3>1, ZenonT(60) DEF Replaces
    <3>3. old = Supersede(j)
      BY <1>1, <3>2, Zenon
    <3> QED
      BY <1>4, <2>1, <3>3, SupersedeSettles, ZenonT(60)
  <2>6. d \in Definitions
    BY <1>1, Zenon DEF RunOK, Run
  <2> QED
    BY <1>1, <2>4, <2>5, <2>6, ConstantsAssumption, ZenonT(60) DEF Overlaps
<1> QED
  BY <1>1, <1>2, <1>3, <1>4, ZenonT(40) DEF Enqueues

\* Operations on jobs and settings leave the runs alone.
LEMMA JobStepKeepsRuns ==
    ASSUME StoreInv, JobStep
    PROVE  UNCHANGED <<runs, nextSequence>> /\ JobsOK' /\ globalConcurrency' \in GlobalLimits
<1>0. \A j \in Jobs : /\ jobs[j] \in Job /\ jobs[j].revisions \in Seq(Definitions)
                     /\ Len(jobs[j].revisions) \in Nat
  BY LenProperties, Zenon DEF StoreInv, Job
<1>1. ASSUME NEW j \in Jobs, NEW d \in Definitions, CreateJob(j, d)
      PROVE  JobsOK'
  <2> DEFINE first == <<d>>
  <2>1. first \in Seq(Definitions) /\ Len(first) <= MaxRevision
    BY ConstantsAssumption
  <2>2. jobs' = [jobs EXCEPT ![j] = [@ EXCEPT !.revisions = first]]
    BY <1>1, Zenon DEF CreateJob
  <2> HIDE DEF first
  <2> QED
    BY <1>0, <2>1, <2>2, ZenonT(60) DEF JobsOK, StoreInv, Job
<1>2. ASSUME NEW j \in Jobs, NEW d \in Definitions, NEW seen, UpdateJob(j, d, seen)
      PROVE  JobsOK'
  <2> DEFINE longer == Append(jobs[j].revisions, d)
  <2>1. longer \in Seq(Definitions) /\ Len(longer) = Len(jobs[j].revisions) + 1
    BY <1>0, AppendProperties, SMTT(40)
  <2>2. Len(longer) <= MaxRevision
    BY <1>0, <1>2, <2>1, ConstantsAssumption, SMTT(40) DEF UpdateJob, Revision
  <2>3. jobs' = [jobs EXCEPT ![j] = [@ EXCEPT !.revisions = longer, !.resolved = FALSE]]
    BY <1>2, Zenon DEF UpdateJob, StoreInv, Job
  <2> HIDE DEF longer
  <2> QED
    BY <1>0, <2>1, <2>2, <2>3, ZenonT(60) DEF JobsOK, StoreInv, Job
<1>3. ASSUME NEW j \in Jobs, RemoveJob(j)
      PROVE  JobsOK'
  BY <1>3, Zenon DEF RemoveJob, JobsOK, StoreInv, Job
<1>4. ASSUME NEW n \in GlobalLimits, SetGlobalConcurrency(n)
      PROVE  JobsOK'
  BY <1>4, Zenon DEF SetGlobalConcurrency, JobsOK, StoreInv
<1>5. UNCHANGED <<runs, nextSequence>> /\ globalConcurrency' \in GlobalLimits
  BY Zenon DEF JobStep, CreateJob, UpdateJob, RemoveJob, SetGlobalConcurrency, StoreInv
<1> QED
  BY <1>1, <1>2, <1>3, <1>4, <1>5, ZenonT(60) DEF JobStep

\* enqueue_manual and materialize_with_summaries insert one run over settled rows,
\* or only settle rows when the insert is ignored.
LEMMA EnqueueShape ==
    ASSUME StoreInv, EnqueueStep
    PROVE  /\ JobsOK'
           /\ \/ UNCHANGED <<runs, nextSequence, globalConcurrency>>
              \/ \E old, run : Enqueues(old, run)
<1>0. PICK j \in Jobs : \E seen \in DOMAIN jobs[j].revisions :
          \/ EnqueueManual(j, seen)
          \/ \E trigger \in Triggers : Materialize(j, seen, trigger)
          \/ Omit(j, seen)
  BY Zenon DEF EnqueueStep
<1>1. PICK seen \in DOMAIN jobs[j].revisions :
          \/ EnqueueManual(j, seen)
          \/ \E trigger \in Triggers : Materialize(j, seen, trigger)
          \/ Omit(j, seen)
  BY <1>0, Zenon
<1>2. JobsOK
  BY Zenon DEF StoreInv, JobsOK
<1>3. AdvanceCursor(j, seen) => JobsOK'
  <2>1. ASSUME AdvanceCursor(j, seen) PROVE JobsOK'
    <3>1. jobs[j].revisions[seen].delete_after_run \in BOOLEAN
      <4>1. jobs[j].revisions[seen] \in Definitions
        BY ElementOfSeq, LenProperties, ZenonT(60) DEF StoreInv, Job
      <4> QED
        BY <4>1, ConstantsAssumption, ZenonT(60)
    <3> QED
      BY <1>2, <2>1, <3>1, ZenonT(60) DEF AdvanceCursor, JobsOK, Job
  <2> QED
    BY <2>1, Zenon
<1>4. CASE EnqueueManual(j, seen)
  <2> DEFINE run == NewRun(j, jobs[j].revisions[seen], "manual")
             old == IF run.candidate THEN Supersede(j) ELSE runs
  <2>1. /\ seen = Revision(j) /\ runs' = Insert(old, run)
        /\ nextSequence <= MaxRuns /\ nextSequence' = nextSequence + 1
        /\ UNCHANGED <<jobs, globalConcurrency>>
    BY <1>4, Zenon DEF EnqueueManual
  <2>2. Enqueues(old, run)
    <3> HIDE DEF old, run
    <3> QED
      BY <2>1, NewRunEnqueues, Zenon DEF old, run
  <2> QED
    BY <1>2, <2>1, <2>2, ZenonT(60) DEF JobsOK
<1>5. CASE \E trigger \in Triggers : Materialize(j, seen, trigger)
  <2>1. PICK trigger \in Triggers : Materialize(j, seen, trigger)
    BY <1>5, Zenon
  <2> DEFINE run == NewRun(j, jobs[j].revisions[seen], trigger)
             old == IF run.candidate THEN Supersede(j) ELSE runs
  <2>2. /\ seen = Revision(j)
        /\ runs' = old \/ runs' = Insert(old, run)
        /\ nextSequence <= MaxRuns /\ nextSequence' = nextSequence + 1
        /\ UNCHANGED globalConcurrency
        /\ trigger \in {"manual", "scheduled", "catch_up"}
    BY <2>1, ConstantsAssumption, ZenonT(60) DEF Materialize, AdvanceCursor
  <2>3. Enqueues(old, run)
    <3> HIDE DEF old, run
    <3> QED
      BY <2>2, NewRunEnqueues, ZenonT(60) DEF old, run
  <2> QED
    BY <1>3, <2>1, <2>3, ZenonT(60) DEF Materialize
<1>6. CASE Omit(j, seen)
  BY <1>3, <1>6, Zenon DEF Omit
<1> QED
  BY <1>1, <1>4, <1>5, <1>6, ZenonT(60)

\* Every step settles rows, enqueues a run or admits runs.
LEMMA StepShape ==
    ASSUME StoreInv, [Next]_vars
    PROVE  /\ JobsOK'
           /\ \/ QuietStep
              \/ \E old, run : Enqueues(old, run)
              \/ \E selected \in SUBSET (DOMAIN runs) : Admit(selected)
<1>1. ASSUME UNCHANGED <<runs, nextSequence>>, globalConcurrency' \in GlobalLimits
      PROVE  QuietStep
  BY <1>1, RowUnchanged, ZenonT(60) DEF StoreInv, QuietStep
<1>2. CASE UNCHANGED vars
  BY <1>1, <1>2, Zenon DEF vars, StoreInv, JobsOK
<1>3. CASE JobStep
  BY <1>1, <1>3, JobStepKeepsRuns, ZenonT(60)
<1>4. CASE EnqueueStep
  BY <1>1, <1>4, EnqueueShape, ZenonT(60) DEF StoreInv
<1>5. CASE CancelStep
  BY <1>5, CancelIsQuiet, Zenon
<1>6. CASE \E selected \in SUBSET (DOMAIN runs) : Admit(selected)
  BY <1>6, ZenonT(40) DEF Admit, StoreInv, JobsOK
<1>7. CASE AttemptStep
  BY <1>7, AttemptIsQuiet, Zenon
<1>8. CASE BeginLifetime
  BY <1>8, BeginLifetimeIsQuiet, Zenon
<1> QED
  BY <1>2, <1>3, <1>4, <1>5, <1>6, <1>7, <1>8, ZenonT(60) DEF Next

\* The rows after admit.
LEMMA AdmitShape ==
    ASSUME StoreInv, NEW selected \in SUBSET (DOMAIN runs), Admit(selected)
    PROVE  /\ DOMAIN runs' = DOMAIN runs
           /\ \A r \in selected : /\ RunOK(runs'[r]) /\ runs'[r].state = "starting"
                                  /\ runs'[r].job = runs[r].job
                                  /\ runs'[r].trigger = runs[r].trigger
                                  /\ runs'[r].def = runs[r].def
           /\ \A r \in DOMAIN runs \ selected : runs'[r] = runs[r]
           /\ UNCHANGED <<jobs, nextSequence, globalConcurrency>>
<1>1. /\ DOMAIN runs' = DOMAIN runs
      /\ \A r \in DOMAIN runs \ selected : runs'[r] = runs[r]
      /\ UNCHANGED <<jobs, nextSequence, globalConcurrency>>
  BY Zenon DEF Admit
<1>2. ASSUME NEW r \in selected
      PROVE  /\ RunOK(runs'[r]) /\ runs'[r].state = "starting"
             /\ runs'[r].job = runs[r].job
             /\ runs'[r].trigger = runs[r].trigger
             /\ runs'[r].def = runs[r].def
  <2>1. /\ RunOK(runs[r])
        /\ runs[r].state \in Pending /\ Len(runs[r].attempts) < MaxAttempts
    BY <1>2, ZenonT(40) DEF StoreInv, Admit, Eligible
  <2>2. runs'[r] = [runs[r] EXCEPT !.state = "starting",
                                   !.attempts = Append(@, [state |-> "starting",
                                                           output |-> "pending"])]
    BY <1>2 DEF Admit, Admitted
  <2> QED
    BY <2>1, <2>2, AdmittedRowOK, ZenonT(40)
<1> QED
  BY <1>1, <1>2, ZenonT(60)

\* The empty store satisfies the invariant.
LEMMA StoreInvInit == Init => StoreInv
<1> SUFFICES ASSUME Init PROVE StoreInv
  OBVIOUS
<1>1. << >> \in Seq(Definitions) /\ Len(<< >>) = 0
  BY EmptySeq, Zenon
<1>2. jobs \in [Jobs -> Job] /\ \A j \in Jobs : Len(jobs[j].revisions) <= MaxRevision
  BY <1>1, ConstantsAssumption, SMTT(40) DEF Init, Job
<1>3. DOMAIN runs = {}
  BY DEF Init
<1> QED
  BY <1>2, <1>3, ConstantsAssumption DEF Init, StoreInv

\* Every operation of the store preserves the invariant.
LEMMA StoreInvStep == StoreInv /\ [Next]_vars => StoreInv'
<1> SUFFICES ASSUME StoreInv, [Next]_vars PROVE StoreInv'
  OBVIOUS
<1>1. JobsOK'
  BY StepShape, Zenon
<1>2. CASE QuietStep
  BY <1>1, <1>2, ZenonT(60) DEF QuietStep, Settles, StoreInv, JobsOK
<1>3. CASE \E old, run : Enqueues(old, run)
  <2>1. PICK old, run : Enqueues(old, run)
    BY <1>3, ZenonT(60)
  <2>2. nextSequence \in Nat /\ nextSequence >= 1 /\ nextSequence' \in 1..(MaxRuns + 1)
    BY <2>1, ConstantsAssumption, SMTT(40) DEF StoreInv, Enqueues
  <2>3. DOMAIN runs' \subseteq 1..(nextSequence' - 1)
    BY <2>1, <2>2, SMTT(40) DEF StoreInv, Enqueues, Insert
  <2>4. \A r \in DOMAIN runs' : RunOK(runs'[r])
    BY <2>1 DEF Enqueues, Insert, Settles
  <2> QED
    BY <1>1, <2>1, <2>2, <2>3, <2>4, ZenonT(60) DEF Enqueues, StoreInv, JobsOK
<1>4. ASSUME NEW selected \in SUBSET (DOMAIN runs), Admit(selected)
      PROVE  StoreInv'
  BY <1>4, AdmitShape, ZenonT(60) DEF StoreInv
<1> QED
  BY <1>2, <1>3, <1>4, StepShape, ZenonT(60)

-----------------------------------------------------------------------------
(* What holds of every behaviour of the store.                             *)

\* The inductive invariant holds in every state that the operations of the
\* store reach, in whatever order callers invoke them.
THEOREM StoreInvariant == Spec => []StoreInv
BY StoreInvInit, StoreInvStep, PTL DEF Spec

\* Type correctness: every operation writes rows of the documented shape.
THEOREM TypeCorrectness == Spec => []TypeOK
<1>1. StoreInv => TypeOK
  <2> SUFFICES ASSUME StoreInv PROVE TypeOK
    OBVIOUS
  <2>1. DOMAIN runs \subseteq 1..MaxRuns
    BY ConstantsAssumption DEF StoreInv
  <2> QED
    BY <2>1, Zenon DEF StoreInv, TypeOK, RunOK
<1> QED
  BY <1>1, StoreInvariant, PTL

\* The attempts tell whether their run executes: complete_attempt and
\* begin_lifetime may rely on them without looking at the state of the run.
THEOREM AttemptsAgreement == Spec => []AttemptsAgreeWithRuns
<1>1. StoreInv => AttemptsAgreeWithRuns
  BY ZenonT(60) DEF StoreInv, RunOK, AttemptsAgreeWithRuns
<1> QED
  BY <1>1, StoreInvariant, PTL

\* A retry intent always names a known failure, and a run that waits for a
\* retry always has one.
THEOREM RetryIntents == Spec => []RetryIntentsNameKnownFailure
<1>1. StoreInv => RetryIntentsNameKnownFailure
  BY Zenon DEF StoreInv, RunOK, RetryIntentsNameKnownFailure
<1> QED
  BY <1>1, StoreInvariant, PTL

\* History is never rewritten: the outcome of a finished run and the outcomes
\* of its attempts survive every later operation of the store.
THEOREM TerminalFinality == Spec => TerminalIsFinal
<1>1. StoreInv /\ [Next]_vars => KeepsTerminal
  <2> SUFFICES ASSUME StoreInv, [Next]_vars, NEW r \in DOMAIN runs, runs[r].state \in Terminal
               PROVE  /\ r \in DOMAIN runs'
                      /\ runs'[r].state = runs[r].state
                      /\ DOMAIN runs'[r].attempts = DOMAIN runs[r].attempts
                      /\ \A n \in DOMAIN runs[r].attempts :
                            runs'[r].attempts[n].state = runs[r].attempts[n].state
    BY Zenon DEF KeepsTerminal
  <2>1. RunOK(runs[r])
    BY Zenon DEF StoreInv
  <2>2. CASE r \in DOMAIN runs' /\ Settles(runs[r], runs'[r])
    <3>1. DOMAIN runs[r].attempts = 1..Len(runs[r].attempts)
      BY <2>1, AttemptsAreSeq, Zenon
    <3>2. DOMAIN runs'[r].attempts = 1..Len(runs'[r].attempts)
      BY <2>2, AttemptsAreSeq, ZenonT(60) DEF Settles
    <3> QED
      BY <2>2, <3>1, <3>2, ZenonT(60) DEF Settles
  <2>3. CASE QuietStep
    BY <2>2, <2>3, ZenonT(60) DEF QuietStep
  <2>4. CASE \E old, run : Enqueues(old, run)
    <3>1. PICK old, run : Enqueues(old, run)
      BY <2>4, Zenon
    <3>2. r # nextSequence
      BY ConstantsAssumption DEF StoreInv
    <3>3. r \in DOMAIN runs' /\ runs'[r] = old[r]
      BY <3>1, <3>2, ZenonT(60) DEF Enqueues, Insert
    <3> QED
      BY <2>2, <3>1, <3>3, ZenonT(60) DEF Enqueues
  <2>5. ASSUME NEW selected \in SUBSET (DOMAIN runs), Admit(selected)
        PROVE  r \in DOMAIN runs' /\ Settles(runs[r], runs'[r])
    <3>1. r \notin selected
      BY <2>5, Zenon DEF Admit, Eligible, Pending, Terminal, Known, Skipped
    <3> QED
      BY <2>1, <2>5, <3>1, AdmitShape, RowUnchanged, ZenonT(60)
  <2> QED
    BY <2>2, <2>3, <2>4, <2>5, StepShape, ZenonT(60)
<1> QED
  BY <1>1, StoreInvariant, PTL DEF Spec, TerminalIsFinal

\* Of two queued normal runs of a job the later one allows overlap.
THEOREM QueuedOverlap == Spec => []QueuedOverlapOnlyIfAllowed
<1>1. Init => QueuedOverlapOnlyIfAllowed
  BY DEF Init, QueuedOverlapOnlyIfAllowed
<1>2. StoreInv /\ QueuedOverlapOnlyIfAllowed /\ [Next]_vars => QueuedOverlapOnlyIfAllowed'
  <2> SUFFICES ASSUME StoreInv, QueuedOverlapOnlyIfAllowed, [Next]_vars,
                      NEW r \in DOMAIN runs', NEW s \in DOMAIN runs', r < s,
                      runs'[r].job = runs'[s].job,
                      runs'[r].state = "queued", runs'[r].trigger # "catch_up",
                      runs'[s].state = "queued", runs'[s].trigger # "catch_up"
               PROVE  runs'[s].def.overlap = "allow"
    BY Zenon DEF QueuedOverlapOnlyIfAllowed
  <2>1. CASE QuietStep
    BY <2>1 DEF QuietStep, Settles, QueuedOverlapOnlyIfAllowed
  <2>2. CASE \E old, run : Enqueues(old, run)
    <3>1. PICK old, run : Enqueues(old, run)
      BY <2>2, ZenonT(60)
    <3>2. nextSequence \in Nat /\ DOMAIN runs \subseteq 1..(nextSequence - 1)
      BY ConstantsAssumption DEF StoreInv
    <3>3. \A t \in DOMAIN runs' : t \in DOMAIN runs \/ t = nextSequence
      BY <3>1, Zenon DEF Enqueues, Insert
    <3>4. r \in DOMAIN runs /\ runs'[r] = old[r]
      BY <3>1, <3>2, <3>3, SMTT(40) DEF Enqueues, Insert
    <3>5. CASE s \in DOMAIN runs
      <4>1. runs'[s] = old[s]
        BY <3>1, <3>2, <3>5, SMTT(40) DEF Enqueues, Insert
      <4> QED
        BY <3>1, <3>4, <3>5, <4>1, SMTT(40) DEF Enqueues, Settles, QueuedOverlapOnlyIfAllowed
    <3>6. CASE s \notin DOMAIN runs
      <4>1. runs'[s] = run
        BY <3>1, <3>3, <3>6, ZenonT(60) DEF Enqueues, Insert
      <4> QED
        BY <3>1, <3>4, <4>1, ZenonT(60) DEF Enqueues
    <3> QED
      BY <3>5, <3>6, Zenon
  <2>3. ASSUME NEW selected \in SUBSET (DOMAIN runs), Admit(selected)
        PROVE  runs'[s].def.overlap = "allow"
    BY <2>3, AdmitShape, SMTT(40) DEF QueuedOverlapOnlyIfAllowed
  <2> QED
    BY <2>1, <2>2, <2>3, StepShape, ZenonT(60)
<1> QED
  BY <1>1, <1>2, StoreInvariant, PTL DEF Spec

\* A catch-up run starts after all earlier runs of its job have finished.
THEOREM CatchUpOrder == Spec => []CatchUpInOrder
<1>1. Init => CatchUpInOrder
  BY DEF Init, CatchUpInOrder
<1>2. StoreInv /\ CatchUpInOrder /\ [Next]_vars => CatchUpInOrder'
  <2> SUFFICES ASSUME StoreInv, CatchUpInOrder, [Next]_vars,
                      NEW r \in DOMAIN runs', runs'[r].trigger = "catch_up",
                      runs'[r].attempts # << >>,
                      NEW e \in DOMAIN runs', runs'[e].job = runs'[r].job, e < r
               PROVE  runs'[e].state \in Terminal
    BY Zenon DEF CatchUpInOrder, RunsOf
  <2>0. ASSUME NEW run, NEW new, RunOK(run), Settles(run, new), new.attempts # << >>
        PROVE  run.attempts # << >>
    BY <2>0, AttemptsAreSeq, EmptySeq, ZenonT(60) DEF Settles
  <2>1. CASE QuietStep
    BY <2>0, <2>1, ZenonT(60) DEF QuietStep, Settles, CatchUpInOrder, RunsOf, StoreInv
  <2>2. CASE \E old, run : Enqueues(old, run)
    <3>1. PICK old, run : Enqueues(old, run)
      BY <2>2, Zenon
    <3>2. nextSequence \in Nat /\ DOMAIN runs \subseteq 1..(nextSequence - 1)
      BY ConstantsAssumption, SMTT(40) DEF StoreInv
    <3>3. r # nextSequence
      BY <3>1, <3>2, SMTT(40) DEF Enqueues, Insert
    <3>4. r \in DOMAIN runs /\ e \in DOMAIN runs /\ runs'[r] = old[r] /\ runs'[e] = old[e]
      BY <3>1, <3>2, <3>3, SMTT(40) DEF Enqueues, Insert
    <3> QED
      BY <2>0, <3>1, <3>4, SMTT(40) DEF Enqueues, Settles, CatchUpInOrder, RunsOf, StoreInv
  <2>3. ASSUME NEW selected \in SUBSET (DOMAIN runs), Admit(selected)
        PROVE  runs'[e].state \in Terminal
    <3>1. /\ r \in DOMAIN runs /\ e \in DOMAIN runs
          /\ runs[r].trigger = "catch_up" /\ runs[e].job = runs[r].job
          /\ r \in Nat /\ e \in Nat
      BY <2>3, AdmitShape, ConstantsAssumption, SMTT(40) DEF StoreInv
    <3>2. runs[e].state \in Terminal
      <4>1. CASE r \in selected
        <5>1. e \notin RunsIn(runs[r].job, Active)
          <6>1. CatchUpMayStart(r)
            BY <2>3, <4>1, ZenonT(60) DEF Admit, Eligible
          <6>2. \A t \in RunsIn(runs[r].job, Active) : t >= r
            BY <3>1, <6>1, ZenonT(60) DEF CatchUpMayStart
          <6>3. ~(e >= r)
            BY <3>1, SMTT(40)
          <6> QED
            BY <6>2, <6>3, ZenonT(60)
        <5> QED
          BY <3>1, <5>1, ZenonT(60) DEF RunsIn, RunsOf, StoreInv, RunOK, Run, RunStates
      <4>2. CASE r \notin selected
        BY <2>3, <3>1, <4>2, AdmitShape, SMTT(40) DEF CatchUpInOrder, RunsOf
      <4> QED
        BY <4>1, <4>2, ZenonT(60)
    <3>3. e \notin selected
      BY <2>3, <3>2, ZenonT(60) DEF Admit, Eligible, Pending, Terminal, Known, Skipped
    <3> QED
      BY <2>3, <3>1, <3>2, <3>3, AdmitShape, ZenonT(60)
  <2> QED
    BY <2>1, <2>2, <2>3, StepShape, ZenonT(60)
<1> QED
  BY <1>1, <1>2, StoreInvariant, PTL DEF Spec

\* No operation but the user's acknowledgement ends a quarantine.
LEMMA QuarantineKept ==
    ASSUME StoreInv, [Next]_vars, NEW r \in DOMAIN runs, runs[r].quarantined
    PROVE  runs'[r].quarantined \/ AcknowledgeUnconfirmed(r)
<1>1. /\ RunOK(runs[r]) /\ runs[r] \in Run
      /\ \A n \in DOMAIN runs[r].attempts : ~ActiveAttempt(r, n)
      /\ runs[r].state = "running"
  <2>1. RunOK(runs[r])
    BY Zenon DEF StoreInv
  <2>2. \A n \in DOMAIN runs[r].attempts : ~ActiveAttempt(r, n)
    BY <2>1, AttemptsAreSeq, ActiveIsNewest, ZenonT(60) DEF ActiveAttempt
  <2> QED
    BY <2>1, <2>2, ZenonT(60) DEF RunOK, AttemptsAgree
<1>2. CASE UNCHANGED vars
  BY <1>2, Zenon DEF vars
<1>3. CASE JobStep
  BY <1>3, JobStepKeepsRuns, Zenon
<1>4. CASE EnqueueStep
  <2>1. CASE \E old, run : Enqueues(old, run)
    <3>1. PICK old, run : Enqueues(old, run)
      BY <2>1, Zenon
    <3>2. r # nextSequence
      BY ConstantsAssumption DEF StoreInv
    <3>3. runs'[r] = old[r]
      BY <3>1, <3>2, ZenonT(60) DEF Enqueues, Insert
    <3> QED
      BY <3>1, <3>3, Zenon DEF Enqueues
  <2> QED
    BY <1>4, <2>1, EnqueueShape, ZenonT(60)
<1>5. CASE CancelStep
  <2>1. PICK s \in DOMAIN runs :
            CancelPending(s) \/ RequestCancellation(s) \/ AcknowledgeUnconfirmed(s)
    BY <1>5, Zenon DEF CancelStep
  <2>2. CASE s = r
    BY <1>1, <2>1, <2>2, ZenonT(60) DEF CancelPending, RequestCancellation, Pending
  <2>3. CASE s # r
    BY <2>1, <2>3, Zenon DEF CancelPending, RequestCancellation, AcknowledgeUnconfirmed
  <2> QED
    BY <2>2, <2>3, ZenonT(60)
<1>6. ASSUME NEW selected \in SUBSET (DOMAIN runs), Admit(selected)
      PROVE  runs'[r].quarantined
  <2>1. r \notin selected
    BY <1>1, <1>6, ZenonT(60) DEF Admit, Eligible, Pending
  <2> QED
    BY <1>6, <2>1, AdmitShape, ZenonT(60)
<1>7. CASE AttemptStep
  <2>1. PICK s \in DOMAIN runs : \E n \in DOMAIN runs[s].attempts :
            \/ MarkRunning(s, n)
            \/ CancelBeforeSpawn(s, n)
            \/ \E outcome \in Outcomes : CompleteAttempt(s, n, outcome)
            \/ \E outcome \in Outcomes : CompleteWithRetry(s, n, outcome)
            \/ QuarantineAttempt(s, n)
            \/ \E output \in Outputs : FailBeforeExecution(s, n, output)
            \/ \E started \in BOOLEAN : CompleteRunnerFailure(s, n, started)
            \/ \E output \in Outputs : ReconcileOutput(s, n, output)
    BY <1>7, Zenon DEF AttemptStep
  <2>2. PICK n \in DOMAIN runs[s].attempts :
            \/ MarkRunning(s, n)
            \/ CancelBeforeSpawn(s, n)
            \/ \E outcome \in Outcomes : CompleteAttempt(s, n, outcome)
            \/ \E outcome \in Outcomes : CompleteWithRetry(s, n, outcome)
            \/ QuarantineAttempt(s, n)
            \/ \E output \in Outputs : FailBeforeExecution(s, n, output)
            \/ \E started \in BOOLEAN : CompleteRunnerFailure(s, n, started)
            \/ \E output \in Outputs : ReconcileOutput(s, n, output)
    BY <2>1, Zenon
  <2>3. CASE s = r
    <3>1. \E output \in Outputs : ReconcileOutput(r, n, output)
      BY <1>1, <2>2, <2>3, ZenonT(60)
         DEF MarkRunning, CancelBeforeSpawn, CompleteAttempt, CompleteWithRetry,
             QuarantineAttempt, FailBeforeExecution, CompleteRunnerFailure
    <3> QED
      BY <1>1, <3>1, ZenonT(60) DEF ReconcileOutput, Run
  <2>4. CASE s # r
    <3>1. CASE QuarantineAttempt(s, n)
      <4>1. runs'[r] = FailedByQuarantine(runs[r]) \/ runs'[r] = runs[r]
        BY <2>4, <3>1, ZenonT(60) DEF QuarantineAttempt
      <4> QED
        BY <1>1, <4>1, ZenonT(60) DEF FailedByQuarantine, Run, Pending
    <3>2. CASE ~QuarantineAttempt(s, n)
      <4>1. runs'[r] = runs[r]
        BY <2>2, <2>4, <3>2, ZenonT(40)
           DEF MarkRunning, CancelBeforeSpawn, CompleteAttempt, CompleteWithRetry,
               FailBeforeExecution, CompleteRunnerFailure, ReconcileOutput
      <4> QED
        BY <4>1, Zenon
    <3> QED
      BY <3>1, <3>2, ZenonT(60)
  <2> QED
    BY <2>3, <2>4, ZenonT(60)
<1>8. CASE BeginLifetime
  BY <1>1, <1>8, ZenonT(60) DEF BeginLifetime, Run
<1> QED
  BY <1>2, <1>3, <1>4, <1>5, <1>6, <1>7, <1>8, ZenonT(60) DEF Next

\* A quarantined run blocks its job until the user acknowledges it.
THEOREM QuarantineBlocks == Spec => QuarantineHeld
<1>1. StoreInv /\ [Next]_vars => KeepsQuarantine
  <2> SUFFICES ASSUME StoreInv, [Next]_vars, NEW r \in DOMAIN runs, runs[r].quarantined,
                      NEW s \in RunsOf(runs[r].job), runs[s].state \in Pending
               PROVE  runs'[s].state # "starting"
    BY QuarantineKept, Zenon DEF KeepsQuarantine
  <2>1. s \in DOMAIN runs /\ Quarantined(runs[s].job) /\ runs[s].state \notin Executing
    BY Zenon DEF RunsOf, Quarantined, Pending, Executing
  <2>2. CASE QuietStep
    BY <2>1, <2>2, Zenon DEF QuietStep, Settles, Executing
  <2>3. CASE \E old, run : Enqueues(old, run)
    <3>1. PICK old, run : Enqueues(old, run)
      BY <2>3, Zenon
    <3>2. s # nextSequence
      BY <2>1, ConstantsAssumption, SMTT(40) DEF StoreInv
    <3>3. runs'[s] = old[s]
      BY <2>1, <3>1, <3>2, ZenonT(60) DEF Enqueues, Insert
    <3> QED
      BY <2>1, <3>1, <3>3, ZenonT(60) DEF Enqueues, Settles, Executing
  <2>4. ASSUME NEW selected \in SUBSET (DOMAIN runs), Admit(selected)
        PROVE  runs'[s].state # "starting"
    <3>1. s \notin selected
      BY <2>1, <2>4, ZenonT(60) DEF Admit, Eligible
    <3> QED
      BY <2>1, <2>4, <3>1, AdmitShape, ZenonT(60) DEF Executing
  <2> QED
    BY <2>2, <2>3, <2>4, StepShape, ZenonT(60)
<1> QED
  BY <1>1, StoreInvariant, PTL DEF Spec, QuarantineHeld

\* A function on a finite set has a largest value.
LEMMA LargestExists ==
    ASSUME NEW S, IsFiniteSet(S), S # {}, NEW f \in [S -> Nat]
    PROVE  \E r \in S : \A s \in S : f[s] <= f[r]
<1> DEFINE Above(r) == {s \in S : f[s] > f[r]}
           T == {Cardinality(Above(r)) : r \in S}
<1>1. \A r \in S : IsFiniteSet(Above(r)) /\ Cardinality(Above(r)) \in Nat
  BY FS_Subset, FS_CardinalityType, Zenon
<1>2. PICK x \in T : \A y \in T : ~(<<y, x>> \in OpToRel(<, Nat))
  <2>1. T \subseteq Nat /\ T # {}
    BY <1>1, Zenon
  <2> HIDE DEF T
  <2> QED
    BY <2>1, NatLessThanWellFounded, WFMin, ZenonT(60)
<1>3. PICK r \in S : x = Cardinality(Above(r))
  OBVIOUS
<1>4. ASSUME NEW s \in S, f[s] > f[r]
      PROVE  FALSE
  <2>1. Above(s) \subseteq Above(r) /\ s \in Above(r) /\ s \notin Above(s)
    BY <1>4, SMTT(40)
  <2>2. Cardinality(Above(s)) < Cardinality(Above(r))
    <3> HIDE DEF Above
    <3> QED
      BY <1>1, <2>1, FS_Subset, SMTT(40)
  <2>3. ~(<<Cardinality(Above(s)), x>> \in OpToRel(<, Nat))
    BY <1>2, Zenon
  <2> QED
    BY <1>1, <1>3, <2>2, <2>3, ZenonT(60) DEF OpToRel
<1> QED
  BY <1>4

\* The per-job limit of admit is a number.
LEMMA LimitIsNat ==
    ASSUME NEW d \in Definitions
    PROVE  PerJobLimit(d) \in Nat
BY ConstantsAssumption, Zenon DEF PerJobLimit

\* The selection of admit keeps every set of executing runs of a job within the
\* limit of its most permissive new member.
LEMMA AdmitWithinLimits ==
    ASSUME StoreInv, PerJobConcurrency, NEW selected \in SUBSET (DOMAIN runs),
           Admit(selected), NEW j \in Jobs, NEW S \in SUBSET RunsIn(j, Executing)', S # {}
    PROVE  \E r \in S : Cardinality(S) <= PerJobLimit(runs'[r].def)
<1> DEFINE New == S \cap selected
           Old == RunsIn(j, Executing)
<1>1. /\ S \subseteq DOMAIN runs
      /\ \A r \in S : runs[r].job = j /\ runs'[r].def = runs[r].def
      /\ \A r \in S \ New : r \in Old
  BY AdmitShape, ZenonT(60) DEF RunsIn, RunsOf
<1>2. \A r \in DOMAIN runs : runs[r].def \in Definitions /\ PerJobLimit(runs[r].def) \in Nat
  BY LimitIsNat, ZenonT(60) DEF StoreInv, RunOK, Run
<1>3. CASE New = {}
  <2>1. S \in SUBSET Old
    BY <1>1, <1>3, ZenonT(60)
  <2> QED
    BY <1>1, <2>1, ZenonT(60) DEF PerJobConcurrency
<1>4. CASE New # {}
  <2>1. /\ IsFiniteSet(DOMAIN runs)
        /\ \A T : T \subseteq DOMAIN runs => IsFiniteSet(T) /\ Cardinality(T) \in Nat
    <3>1. nextSequence \in Nat /\ nextSequence >= 1 /\ nextSequence - 1 \in Int
      BY ConstantsAssumption, SMTT(40) DEF StoreInv
    <3>2. IsFiniteSet(1..(nextSequence - 1))
      BY <3>1, FS_Interval, SMTT(40)
    <3>3. IsFiniteSet(DOMAIN runs)
      BY <3>2, FS_Subset, ZenonT(60) DEF StoreInv
    <3> QED
      BY <3>3, FS_Subset, FS_CardinalityType, ZenonT(60)
  <2> DEFINE limit == [r \in New |-> PerJobLimit(runs[r].def)]
  <2>2. limit \in [New -> Nat] /\ IsFiniteSet(New)
    BY <1>1, <1>2, <2>1, ZenonT(60)
  <2>3. PICK r \in New : \A s \in New : limit[s] <= limit[r]
    <3> HIDE DEF limit, New
    <3> QED
      BY <1>4, <2>2, LargestExists, ZenonT(60)
  <2> DEFINE peers == {s \in selected :
                         /\ runs[s].job = runs[r].job
                         /\ PerJobLimit(runs[s].def) <= PerJobLimit(runs[r].def)}
  <2>4. New \subseteq peers /\ peers \subseteq DOMAIN runs
    BY <1>1, <2>3, ZenonT(60)
  <2>5. Cardinality(Old) + Cardinality(peers) <= PerJobLimit(runs[r].def)
    <3>1. runs[r].job = j
      BY <1>1, Zenon
    <3>2. WithinPerJobLimits(selected)
      BY Zenon DEF Admit
    <3> QED
      BY <3>1, <3>2, ZenonT(60) DEF WithinPerJobLimits
  <2>6. Old \subseteq DOMAIN runs
    BY Zenon DEF RunsIn, RunsOf
  <2> HIDE DEF peers, Old, limit, New
  <2>7. Cardinality(S) <= Cardinality(Old \cup peers)
    <3>1. S \subseteq Old \cup peers
      BY <1>1, <2>4, ZenonT(60)
    <3>2. IsFiniteSet(Old \cup peers)
      BY <2>1, <2>4, <2>6, ZenonT(60)
    <3> QED
      BY <3>1, <3>2, FS_Subset, ZenonT(60)
  <2>8. Cardinality(Old \cup peers) <= Cardinality(Old) + Cardinality(peers)
    <3>1. /\ Cardinality(Old) \in Nat /\ Cardinality(peers) \in Nat
          /\ Cardinality(Old \cap peers) \in Nat
          /\ IsFiniteSet(Old) /\ IsFiniteSet(peers)
      BY <2>1, <2>4, <2>6, ZenonT(60)
    <3>2. Cardinality(Old \cup peers)
            = Cardinality(Old) + Cardinality(peers) - Cardinality(Old \cap peers)
      BY <3>1, FS_Union, ZenonT(60)
    <3> QED
      BY <3>1, <3>2, SMTT(40)
  <2>9. /\ Cardinality(S) \in Nat /\ Cardinality(Old \cup peers) \in Nat
        /\ Cardinality(Old) \in Nat /\ Cardinality(peers) \in Nat
    BY <1>1, <2>1, <2>4, <2>6, ZenonT(60)
  <2>10. r \in S /\ r \in DOMAIN runs
    BY <1>1, ZenonT(60) DEF New
  <2> QED
    BY <1>1, <1>2, <2>5, <2>7, <2>8, <2>9, <2>10, SMTT(40)
<1> QED
  BY <1>3, <1>4, ZenonT(60)

\* Executing runs of a job never exceed the limits of their snapshots.
THEOREM PerJobLimitsHold == Spec => []PerJobConcurrency
<1>1. Init => PerJobConcurrency
  BY DEF Init, PerJobConcurrency, RunsIn, RunsOf
<1>2. StoreInv /\ PerJobConcurrency /\ [Next]_vars => PerJobConcurrency'
  <2> SUFFICES ASSUME StoreInv, PerJobConcurrency, [Next]_vars,
                      NEW j \in Jobs, NEW S \in SUBSET RunsIn(j, Executing)', S # {}
               PROVE  \E r \in S : Cardinality(S) <= PerJobLimit(runs'[r].def)
    BY Zenon DEF PerJobConcurrency
  <2>1. ASSUME \A r \in RunsIn(j, Executing)' :
                  /\ r \in RunsIn(j, Executing)
                  /\ runs'[r].def = runs[r].def
        PROVE  \E r \in S : Cardinality(S) <= PerJobLimit(runs'[r].def)
    <3>1. S \in SUBSET RunsIn(j, Executing)
      BY <2>1, Zenon
    <3>2. PICK r \in S : Cardinality(S) <= PerJobLimit(runs[r].def)
      BY <3>1, Zenon DEF PerJobConcurrency
    <3> QED
      BY <2>1, <3>2, ZenonT(60)
  <2>2. CASE QuietStep
    BY <2>1, <2>2, ZenonT(60) DEF QuietStep, Settles, RunsIn, RunsOf
  <2>3. CASE \E old, run : Enqueues(old, run)
    <3>1. PICK old, run : Enqueues(old, run)
      BY <2>3, ZenonT(60)
    <3>2. \A r \in RunsIn(j, Executing)' : r \in DOMAIN runs /\ runs'[r] = old[r]
      BY <3>1 DEF Enqueues, Insert, RunsIn, RunsOf
    <3> QED
      BY <2>1, <3>1, <3>2, SMTT(40) DEF Enqueues, Settles, RunsIn, RunsOf
  <2>4. ASSUME NEW selected \in SUBSET (DOMAIN runs), Admit(selected)
        PROVE  \E r \in S : Cardinality(S) <= PerJobLimit(runs'[r].def)
    BY <2>4, AdmitWithinLimits, ZenonT(60)
  <2> QED
    BY <2>2, <2>3, <2>4, StepShape, ZenonT(60)
<1> QED
  BY <1>1, <1>2, StoreInvariant, PTL DEF Spec

==============================================================================
