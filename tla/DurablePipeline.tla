-------------------------- MODULE DurablePipeline ---------------------------
(***************************************************************************)
(* Durable pipelines: runs whose steps are scheduled commands, each step's *)
(* result stored with the job of the next (durableAccess of kernel/        *)
(* internal/context.ts over database/internal/runs.ts and schedule.ts).    *)
(*                                                                         *)
(* A step's job behaves as JobPromise says, which Schedule keeps: it may   *)
(* be handed to several workers at once, long after it was first taken,    *)
(* and again after it was done.  Reads of the run and of its results are   *)
(* statements of their own, outside any transaction; KEEP, FAIL and the    *)
(* operator's retry are one transaction each.                              *)
(***************************************************************************)
EXTENDS Naturals, FiniteSets

CONSTANTS
  Run,            \* runs asked for, one per (pipeline, scope, key)
  Last,           \* how many steps the pipeline has
  Retries,        \* a step's `retries`: 3 when left out
  Job, NoJob,     \* step jobs that may be stored, and none of them
  NoRun,          \* the run of a job not stored yet
  Worker,         \* turns of due() that can be running a job at once
  MostAttempts,   \* the schedule's attempts per job: 8 when left out
  MaxMishaps      \* bound: failed transactions, workers that die holding a
                  \* job, leases that lapse, and an operator's retries

ASSUME NamesAssumption == NoJob \notin Job /\ NoRun \notin Run
ASSUME CountAssumption ==
  /\ Last \in Nat \ {0} /\ Retries \in Nat \ {0} /\ MostAttempts \in Nat \ {0}
  /\ MaxMishaps \in Nat

VARIABLES
  stored, claims, ended,  \* the schedule's jobs: see JobPromise
  runOf,    \* the run each job carries
  run,      \* kit_pipeline_runs, with what was told of each run
  kept,     \* kit_pipeline_steps: the steps of each run with a result
  worker,   \* what each worker holds in memory
  mishaps   \* crashes, lapses, failed transactions and retries

jobVars == <<stored, claims, ended>>
vars == <<stored, claims, ended, runOf, run, kept, worker, mishaps>>

Jobs == INSTANCE JobPromise

Step == 1..Last

(* told: `<pipeline>.failed` events; revived: operator's retries; lost: the  *)
(* transaction that should have failed it did not commit                    *)
RunRow == [status: {"none", "running", "failed", "done"}, attempts: Nat, told: Nat, revived: Nat, lost: BOOLEAN]

(* at: "idle"; "get" and "results" are ADVANCE's two reads; "step" runs;    *)
(* "keep" and "fail" are the transactions that follow; "threw" when the     *)
(* command threw; "abandon" when the schedule gives the job up              *)
WorkerState == [at: {"idle", "get", "results", "step", "keep", "fail", "threw", "abandon"},
                job: Job \cup {NoJob}, seen: Nat, step: Step \cup {0}, isLast: BOOLEAN]

Idle == [at |-> "idle", job |-> NoJob, seen |-> 0, step |-> 0, isLast |-> FALSE]

Init ==
  /\ Jobs!Init
  /\ runOf = [j \in Job |-> NoRun]
  /\ run = [r \in Run |-> [status |-> "none", attempts |-> 0, told |-> 0, revived |-> 0, lost |-> FALSE]]
  /\ kept = [r \in Run |-> {}]
  /\ worker = [w \in Worker |-> Idle]
  /\ mishaps = 0

Mishap == mishaps < MaxMishaps /\ mishaps' = mishaps + 1
Mine(w) == runOf[worker[w].job]
Goes(w, at) == worker' = [worker EXCEPT ![w].at = at]
Ends(w) == worker' = [worker EXCEPT ![w] = Idle]

(* A job not asked for yet, whichever its id *)
Fresh == {j \in Job : stored[j] = "unsaved"}
NewJob == CHOOSE j \in Fresh : TRUE

(* One more job of the run, in the transaction under way *)
Enqueue(r) == Fresh # {} /\ Jobs!Ask(NewJob) /\ runOf' = [runOf EXCEPT ![NewJob] = r]

-----------------------------------------------------------------------------
(* The statements on kit_pipeline_runs and kit_pipeline_steps *)

IsRunning(r) == run[r].status = "running"
Left(r) == Step \ kept[r]

Begun(r) == [run EXCEPT ![r].status = "running"]
Revived(r) == [run EXCEPT ![r].status = "running", ![r].attempts = 0, ![r].revived = @ + 1]
Attempted(r) == [run EXCEPT ![r].attempts = @ + 1]
Finished(r) == [run EXCEPT ![r].status = "done"]

(* keep() answers whether the step had no result yet *)
IsFirst(r, step) == step \in Left(r)

-----------------------------------------------------------------------------
(* What the plugins' own transactions ask for *)

(* run(): begin inserts the run once per key; a second one only answers its id *)
Start(r) ==
  /\ run[r].status = "none"
  /\ run' = Begun(r)
  /\ Enqueue(r)
  /\ UNCHANGED <<kept, worker, mishaps>>

(* retry(): revive resets the run's attempts and enqueues a job *)
Retry(r) ==
  /\ Mishap /\ run[r].status = "failed"
  /\ run' = Revived(r)
  /\ Enqueue(r)
  /\ UNCHANGED <<kept, worker>>

-----------------------------------------------------------------------------
(* One worker and one job *)

Leased(j) == ended[j] \cap {"answered", "abandoned"} # {} \/ \E w \in Worker : worker[w].job = j

(* due() claims a job: one handed out too often is given up without a run.  *)
(* A job in another worker's hands, or whose deletion is under way, is      *)
(* claimed only once its lease lapsed, a timer or a statement late.         *)
Claim(w, j) ==
  /\ worker[w].at = "idle"
  /\ Jobs!HandOut({j})
  /\ IF Leased(j) THEN Mishap ELSE UNCHANGED mishaps
  /\ worker' = [worker EXCEPT ![w] = [Idle EXCEPT !.job = j, !.seen = claims[j],
                  !.at = IF claims[j] >= MostAttempts THEN "abandon" ELSE "get"]]
  /\ UNCHANGED <<runOf, run, kept>>

(* The command answered: the schedule may forget its job *)
Answers(w) == Jobs!Answer(worker[w].job) /\ Ends(w)

(* ADVANCE reads the run: one that is not running is left alone *)
Get(w) ==
  /\ worker[w].at = "get"
  /\ IF IsRunning(Mine(w)) THEN Goes(w, "results") /\ UNCHANGED jobVars ELSE Answers(w)
  /\ UNCHANGED <<runOf, run, kept, mishaps>>

(* The last step with no result instead of the first *)
ResultsBackwards(w) ==
  /\ worker[w].at = "results"
  /\ IF Left(Mine(w)) = {} THEN Answers(w) ELSE
       /\ worker' = [worker EXCEPT ![w].at = "step",
            ![w].step = CHOOSE s \in Left(Mine(w)) : \A u \in Left(Mine(w)) : s >= u]
       /\ UNCHANGED jobVars
  /\ UNCHANGED <<runOf, run, kept, mishaps>>

(* ... and its results: the first step with none is run *)
Results(w) ==
  /\ worker[w].at = "results"
  /\ IF Left(Mine(w)) = {} THEN Answers(w) ELSE
       /\ worker' = [worker EXCEPT ![w].at = "step",
            ![w].step = CHOOSE s \in Left(Mine(w)) : \A u \in Left(Mine(w)) : s <= u]
       /\ UNCHANGED jobVars
  /\ UNCHANGED <<runOf, run, kept, mishaps>>

(* The step answered; with stop(result) the run ends at it *)
StepAnswers(w, stopped) ==
  /\ worker[w].at = "step"
  /\ worker' = [worker EXCEPT ![w].at = "keep", ![w].isLast = stopped \/ worker[w].step = Last]
  /\ UNCHANGED <<jobVars, runOf, run, kept, mishaps>>

(* What due() does with a command that threw: see AfterThrow of Schedule *)
AfterThrow(w) == IF worker[w].seen + 1 >= MostAttempts THEN "abandon" ELSE "threw"

(* The step threw: attempted counts it on the run, and the run fails once   *)
(* its count reaches the step's retries; until then the command throws too, *)
(* and a 4xx refusal is given up at once                                    *)
StepThrows(w, refused) ==
  LET r == Mine(w)
      isOver == run[r].attempts + 1 >= Retries
  IN
  /\ worker[w].at = "step"
  /\ run' = Attempted(r)
  /\ IF isOver THEN Goes(w, "fail") /\ UNCHANGED jobVars
     ELSE IF refused THEN Goes(w, "abandon") /\ Jobs!Refuse(worker[w].job)
     ELSE Goes(w, AfterThrow(w)) /\ UNCHANGED jobVars
  /\ UNCHANGED <<runOf, kept, mishaps>>

(* KEEP with the answer of runs.keep ignored *)
KeepAgain(w) ==
  LET r == Mine(w)
      step == worker[w].step
  IN
  /\ worker[w].at = "keep"
  /\ kept' = [kept EXCEPT ![r] = @ \cup {step}]
  /\ IF worker[w].isLast THEN UNCHANGED <<stored, runOf>> ELSE
       /\ Fresh # {}
       /\ stored' = [stored EXCEPT ![NewJob] = "kept"]
       /\ runOf' = [runOf EXCEPT ![NewJob] = r]
  /\ run' = IF worker[w].isLast THEN Finished(r) ELSE run
  /\ ended' = [ended EXCEPT ![worker[w].job] = @ \cup {"answered"}]
  /\ Ends(w)
  /\ UNCHANGED <<claims, mishaps>>

(* KEEP: the first to store a step's result ends the run or enqueues the    *)
(* next step's job, in the same transaction                                 *)
Keep(w) ==
  LET r == Mine(w)
      step == worker[w].step
  IN
  /\ worker[w].at = "keep"
  /\ kept' = [kept EXCEPT ![r] = @ \cup {step}]
  /\ IF ~IsFirst(r, step) \/ worker[w].isLast THEN UNCHANGED <<stored, runOf>> ELSE
       /\ Fresh # {}
       /\ stored' = [stored EXCEPT ![NewJob] = "kept"]
       /\ runOf' = [runOf EXCEPT ![NewJob] = r]
  /\ run' = IF IsFirst(r, step) /\ worker[w].isLast THEN Finished(r) ELSE run
  /\ ended' = [ended EXCEPT ![worker[w].job] = @ \cup {"answered"}]
  /\ Ends(w)
  /\ UNCHANGED <<claims, mishaps>>

(* FAIL without its look at what runs.fail changed *)
FailsUnguarded(r) == run' = [run EXCEPT ![r].status = "failed", ![r].told = @ + 1]

(* FAIL's two effects: only a running run fails, and it is told once *)
Fails(r) ==
  run' = IF IsRunning(r) THEN [run EXCEPT ![r].status = "failed", ![r].told = @ + 1] ELSE run

(* The step is past its retries *)
Fail(w) ==
  /\ worker[w].at = "fail"
  /\ Fails(Mine(w))
  /\ Answers(w)
  /\ UNCHANGED <<runOf, kept, mishaps>>

(* Its job goes back to wait for another try *)
GoesBack(w) ==
  /\ worker[w].at = "threw"
  /\ Ends(w)
  /\ UNCHANGED <<jobVars, runOf, run, kept, mishaps>>

(* The job given up and its run left as it was *)
AbandonQuietly(w) ==
  /\ worker[w].at = "abandon"
  /\ Jobs!Abandon(worker[w].job)
  /\ Ends(w)
  /\ UNCHANGED <<runOf, run, kept, mishaps>>

(* abandonRun: the run fails before its job is given up *)
AbandonRun(w) ==
  /\ worker[w].at = "abandon"
  /\ Fails(Mine(w))
  /\ Jobs!Abandon(worker[w].job)
  /\ Ends(w)
  /\ UNCHANGED <<runOf, kept, mishaps>>

(* The schedule deletes a job that answered or was abandoned *)
Drop(j) == Jobs!Drop(j) /\ UNCHANGED <<runOf, run, kept, worker, mishaps>>

-----------------------------------------------------------------------------
(* What goes wrong *)

(* KEEP or FAIL does not commit: the command throws *)
TxFails(w) ==
  /\ Mishap /\ worker[w].at \in {"keep", "fail"}
  /\ Goes(w, AfterThrow(w))
  /\ UNCHANGED <<jobVars, runOf, run, kept>>

(* abandonRun's transaction does not commit: logged, and the job given up,  *)
(* so nothing is left to end the run                                        *)
AbandonFails(w) ==
  /\ Mishap /\ worker[w].at = "abandon"
  /\ run' = [run EXCEPT ![Mine(w)].lost = TRUE]
  /\ Jobs!Abandon(worker[w].job)
  /\ Ends(w)
  /\ UNCHANGED <<runOf, kept>>

Crash(w) ==
  /\ Mishap /\ worker[w].at # "idle"
  /\ Ends(w)
  /\ UNCHANGED <<jobVars, runOf, run, kept>>

-----------------------------------------------------------------------------
Works(w) ==
  \/ Get(w) \/ Results(w) \/ Keep(w) \/ Fail(w) \/ GoesBack(w) \/ AbandonRun(w)
  \/ \E stopped \in BOOLEAN : StepAnswers(w, stopped)
  \/ \E refused \in BOOLEAN : StepThrows(w, refused)

Next ==
  \/ \E r \in Run : Start(r) \/ Retry(r)
  \/ \E w \in Worker, j \in Job : Claim(w, j)
  \/ \E w \in Worker : Works(w) \/ TxFails(w) \/ AbandonFails(w) \/ Crash(w)
  \/ \E j \in Job : Drop(j)

Spec == Init /\ [][Next]_vars

(* A stored job is handed out again and again until it is dropped, which    *)
(* Schedule's EventuallySettled shows; a worker under way goes on.          *)
Fairness ==
  /\ \A w \in Worker : WF_vars(Works(w))
  /\ \A j \in Job : SF_vars(\E w \in Worker : Claim(w, j)) /\ WF_vars(Drop(j))

FairSpec == Spec /\ Fairness

-----------------------------------------------------------------------------
(* Properties *)

(* Every variable has its type. *)
TypeOK ==
  /\ stored \in [Job -> {"unsaved", "kept", "gone"}]
  /\ claims \in [Job -> Nat]
  /\ ended \in [Job -> SUBSET Jobs!Endings]
  /\ runOf \in [Job -> Run \cup {NoRun}]
  /\ run \in [Run -> RunRow]
  /\ kept \in [Run -> SUBSET Step]
  /\ worker \in [Worker -> WorkerState]
  /\ mishaps \in 0..MaxMishaps

(* Results are stored in the order of the steps, without a gap, however     *)
(* many workers run the same run at once (advance, KEEP).                   *)
ResultsInOrder ==
  /\ TypeOK
  /\ \A r \in Run, s \in Step : s \in kept[r] => 1..s \subseteq kept[r]

JobsOf(r) == {j \in Job : runOf[j] = r}

(* Each stored result enqueues one job and each start and retry one, never  *)
(* more: a repeated attempt at a step already stored enqueues nothing, so   *)
(* duplicates cannot multiply (KEEP: "another attempt stored it first").    *)
OneJobPerResult ==
  \A r \in Run : run[r].status # "none" =>
    Cardinality(JobsOf(r)) <= 1 + run[r].revived + Cardinality(kept[r])

(* A failure is told exactly once, and an operator's retry answers one that *)
(* was told (FAIL: "told once").                                            *)
ToldOncePerFailure ==
  \A r \in Run :
    /\ run[r].status = "running" => run[r].told = run[r].revived
    /\ run[r].status = "failed" => run[r].told = run[r].revived + 1

(* A run that was started ends, done or failed for an operator to see,      *)
(* through a crash at any statement and a transaction that fails, unless    *)
(* that one was the last that could end it (advance, abandonRun).           *)
EventuallyEnds ==
  \A r \in Run : run[r].status = "running" ~> run[r].status # "running" \/ run[r].lost
=============================================================================
