----------------------- MODULE DurablePipelineProofs ------------------------
(* What DurablePipeline says of any number of runs, steps, jobs and        *)
(* workers, proved.                                                        *)
EXTENDS DurablePipeline, FiniteSetTheorems, WellFoundedInduction, TLAPS

(* A job is stored with the run it carries, and that run was begun *)
JobFits(j) ==
  /\ stored[j] = "unsaved" => runOf[j] = NoRun
  /\ stored[j] # "unsaved" => runOf[j] \in Run /\ run[runOf[j]].status # "none"

(* Whoever works has a job, and a step whose predecessors have results *)
WorkerFits(w) ==
  /\ worker[w].at # "idle" => worker[w].job \in Job /\ stored[worker[w].job] # "unsaved"
  /\ worker[w].at \in {"step", "keep"} =>
       worker[w].step \in Step /\ \A s \in Step : s < worker[w].step => s \in kept[Mine(w)]

(* Nothing was done for a run never started, and its jobs are counted *)
RunFits(r) ==
  /\ run[r].status = "none" => JobsOf(r) = {} /\ run[r].told = run[r].revived
  /\ IsFiniteSet(JobsOf(r))

IInv ==
  /\ ResultsInOrder /\ OneJobPerResult /\ ToldOncePerFailure
  /\ \A j \in Job : JobFits(j)
  /\ \A w \in Worker : WorkerFits(w)
  /\ \A r \in Run : RunFits(r)

(* What was stored stays, with its run; a result stays *)
Grows ==
  /\ \A j \in Job : stored[j] # "unsaved" => stored'[j] # "unsaved" /\ runOf'[j] = runOf[j]
  /\ \A r \in Run : kept[r] \subseteq kept'[r]

(* No job is enqueued, no result stored, no run begun *)
NothingNew ==
  /\ UNCHANGED <<runOf, kept>>
  /\ \A j \in Job : stored'[j] = "unsaved" <=> stored[j] = "unsaved"

(* A run's row stands, but for its attempts; or the run fails and is told *)
RowStands(r) ==
  /\ run'[r].revived = run[r].revived
  /\ \/ run'[r].status = run[r].status /\ run'[r].told = run[r].told
     \/ run[r].status = "running" /\ run'[r].status = "failed" /\ run'[r].told = run[r].told + 1

(* A transaction stores one more job of a run *)
Stores(r) ==
  /\ Fresh # {} /\ stored' = [stored EXCEPT ![NewJob] = "kept"]
  /\ runOf' = [runOf EXCEPT ![NewJob] = r]

-----------------------------------------------------------------------------
(* Helpers *)

(* The counts are naturals, and a pipeline has a step (define of context.ts). *)
LEMMA Bounds ==
  /\ Last \in Nat /\ Retries \in Nat /\ MostAttempts \in Nat /\ MaxMishaps \in Nat
  /\ NoRun \notin Run /\ NoJob \notin Job /\ Step \subseteq Nat /\ IsFiniteSet(Step)
  /\ Step = 1..Last
  BY NamesAssumption, CountAssumption, FS_Interval DEF Step

(* Steps with no result have a first one (advance, the first with none).    *)
LEMMA First == ASSUME NEW S \in SUBSET Nat, S # {} PROVE \E s \in S : \A u \in S : s <= u
<1>1. PICK s \in S : \A u \in S : <<u, s>> \notin OpToRel(<, Nat)
  BY NatLessThanWellFounded, WFMin
<1>2. \A u \in S : ~(u < s)
  BY <1>1 DEF OpToRel
<1> QED
  BY <1>2

(* A worker with nothing in hand is one (kernel.ts due).                    *)
LEMMA IdleType == Idle \in WorkerState
  BY DEF Idle, WorkerState

(* A worker that moves on keeps its type.                                   *)
LEMMA GoesType ==
  ASSUME TypeOK, NEW w \in Worker,
         NEW at \in {"idle", "get", "results", "step", "keep", "fail", "threw", "abandon"}, Goes(w, at)
  PROVE  /\ worker' \in [Worker -> WorkerState]
         /\ worker'[w].at = at /\ worker'[w].job = worker[w].job /\ worker'[w].step = worker[w].step
         /\ \A u \in Worker : u # w => worker'[u] = worker[u]
<1>1. worker[w] \in WorkerState
  BY DEF TypeOK
<1>2. [worker[w] EXCEPT !.at = at] \in WorkerState
  BY <1>1 DEF WorkerState
<1> QED
  BY <1>1, <1>2 DEF Goes, TypeOK, WorkerState

(* A worker that is done keeps its type.                                    *)
LEMMA EndsType ==
  ASSUME TypeOK, NEW w \in Worker, Ends(w)
  PROVE  /\ worker' \in [Worker -> WorkerState] /\ worker'[w] = Idle
         /\ \A u \in Worker : u # w => worker'[u] = worker[u]
  BY IdleType DEF Ends, TypeOK

(* A mishap counted stays within its bound.                                 *)
LEMMA MishapType == ASSUME TypeOK, Mishap PROVE mishaps' \in 0..MaxMishaps
  BY Bounds DEF Mishap, TypeOK

(* Whoever works works for a run that was begun (durableAccess).            *)
LEMMA HasRun ==
  ASSUME IInv, NEW w \in Worker, worker[w].at # "idle"
  PROVE  worker[w].job \in Job /\ Mine(w) \in Run /\ run[Mine(w)].status # "none"
  BY DEF IInv, WorkerFits, JobFits, Mine

(* A job's ending is one more of its endings (JobPromise).                  *)
LEMMA EndedType ==
  ASSUME TypeOK, NEW j \in Job, NEW how \in {"answered", "refused", "abandoned"}, Jobs!Ends(j, how)
  PROVE  ended' \in [Job -> SUBSET Jobs!Endings] /\ UNCHANGED <<stored, claims>>
  BY DEF Jobs!Ends, Jobs!Endings, TypeOK

-----------------------------------------------------------------------------
(* The parts of the invariant, and what leaves them as they are *)

(* The rows of jobs and runs fit still when nothing new is stored and each  *)
(* run stands, or fails and is told (runs.ts).                              *)
LEMMA RowsStand ==
  ASSUME IInv, TypeOK', NothingNew, \A r \in Run : RowStands(r)
  PROVE  /\ ResultsInOrder' /\ OneJobPerResult' /\ ToldOncePerFailure'
         /\ \A j \in Job : JobFits(j)'
         /\ \A r \in Run : RunFits(r)'
<1>1. \A r \in Run : /\ run'[r].revived = run[r].revived /\ (run'[r].status = "none" <=> run[r].status = "none")
                     /\ run[r].told \in Nat /\ run[r].revived \in Nat
                     /\ run[r].status = "none" => run'[r].told = run[r].told
  BY DEF RowStands, IInv, ResultsInOrder, TypeOK, RunRow
<1>2. \A r \in Run : JobsOf(r)' = JobsOf(r)
  BY DEF NothingNew, JobsOf
<1>3. ResultsInOrder'
  BY DEF IInv, ResultsInOrder, NothingNew
<1>4. OneJobPerResult'
  BY <1>1, <1>2 DEF IInv, OneJobPerResult, NothingNew
<1>5. ToldOncePerFailure'
  BY <1>1 DEF IInv, ToldOncePerFailure, RowStands
<1>6. \A j \in Job : JobFits(j)'
  BY <1>1 DEF IInv, JobFits, NothingNew
<1>7. \A r \in Run : RunFits(r)'
  BY <1>1, <1>2 DEF IInv, RunFits
<1> QED
  BY <1>3, <1>4, <1>5, <1>6, <1>7

(* A worker nobody touched fits while what is stored stays.                 *)
LEMMA OtherWorkers ==
  ASSUME IInv, Grows, NEW u \in Worker, worker'[u] = worker[u]
  PROVE  WorkerFits(u)'
<1>1. worker[u].at # "idle" => worker[u].job \in Job /\ stored[worker[u].job] # "unsaved" /\ Mine(u) \in Run
  BY DEF IInv, WorkerFits, JobFits, Mine
<1>2. worker[u].at # "idle" => stored'[worker[u].job] # "unsaved" /\ Mine(u)' = Mine(u)
  BY <1>1 DEF Grows, Mine
<1>3. worker[u].at \in {"step", "keep"} =>
        worker[u].step \in Step /\ \A s \in Step : s < worker[u].step => s \in kept[Mine(u)]
  BY DEF IInv, WorkerFits
<1> QED
  BY <1>1, <1>2, <1>3 DEF WorkerFits, Grows

(* One more job of a run: the only one added, and it was none's (schedule   *)
(* save with the run's id).                                                 *)
LEMMA Enqueues ==
  ASSUME IInv, NEW r \in Run, Stores(r)
  PROVE  /\ stored' \in [Job -> {"unsaved", "kept", "gone"}] /\ runOf' \in [Job -> Run \cup {NoRun}]
         /\ IsFiniteSet(JobsOf(r)') /\ Cardinality(JobsOf(r)') = Cardinality(JobsOf(r)) + 1
         /\ \A q \in Run : q # r => JobsOf(q)' = JobsOf(q)
         /\ \A j \in Job : stored[j] # "unsaved" => stored'[j] # "unsaved" /\ runOf'[j] = runOf[j]
         /\ \A j \in Job : \/ stored'[j] = stored[j] /\ runOf'[j] = runOf[j]
                           \/ stored'[j] = "kept" /\ runOf'[j] = r
<1>1. NewJob \in Job /\ stored[NewJob] = "unsaved"
  BY DEF Stores, NewJob, Fresh
<1>2. stored \in [Job -> {"unsaved", "kept", "gone"}] /\ runOf \in [Job -> Run \cup {NoRun}]
  BY DEF IInv, ResultsInOrder, TypeOK
<1>3. /\ stored'[NewJob] = "kept" /\ runOf'[NewJob] = r
      /\ \A j \in Job : j # NewJob => stored'[j] = stored[j] /\ runOf'[j] = runOf[j]
  BY <1>1, <1>2 DEF Stores
<1>4. runOf[NewJob] = NoRun
  BY <1>1 DEF IInv, JobFits
<1>5. JobsOf(r)' = JobsOf(r) \cup {NewJob} /\ NewJob \notin JobsOf(r)
  BY <1>1, <1>3, <1>4, Bounds DEF JobsOf
<1>6. \A q \in Run : q # r => JobsOf(q)' = JobsOf(q)
  BY <1>1, <1>3, <1>4, Bounds DEF JobsOf
<1>7. IsFiniteSet(JobsOf(r))
  BY DEF IInv, RunFits
<1>8. IsFiniteSet(JobsOf(r)') /\ Cardinality(JobsOf(r)') = Cardinality(JobsOf(r)) + 1
  BY <1>5, <1>7, FS_AddElement
<1>9. stored' \in [Job -> {"unsaved", "kept", "gone"}] /\ runOf' \in [Job -> Run \cup {NoRun}]
  BY <1>2 DEF Stores
<1> QED
  BY <1>1, <1>3, <1>6, <1>8, <1>9

(* A worker that ends, or moves on with its job to anything but a step. *)
MovesOn(w) ==
  \/ worker'[w] = Idle
  \/ worker[w].at # "idle" /\ worker'[w].job = worker[w].job /\ worker'[w].at \notin {"step", "keep"}

(* A step of one worker that stores nothing new keeps the invariant when    *)
(* the worker still fits.                                                   *)
LEMMA WorkerStep ==
  ASSUME IInv, TypeOK', NothingNew, \A r \in Run : RowStands(r),
         NEW w \in Worker, \A u \in Worker : u # w => worker'[u] = worker[u],
         MovesOn(w) \/ WorkerFits(w)'
  PROVE  IInv'
<1>1. Grows
  BY DEF NothingNew, Grows
<1>2. ASSUME MovesOn(w) PROVE WorkerFits(w)'
  BY <1>2 DEF MovesOn, IInv, WorkerFits, NothingNew, Idle
<1>3. \A u \in Worker : WorkerFits(u)'
  BY <1>1, <1>2, OtherWorkers
<1> QED
  BY <1>3, RowsStand DEF IInv

(* Nothing about the runs moved *)
LEMMA RunsStand == ASSUME UNCHANGED run PROVE \A r \in Run : RowStands(r)
  BY DEF RowStands

(* A run that fails does so while it is running, and is told once (FAIL).   *)
LEMMA FailsOnce ==
  ASSUME TypeOK, NEW r \in Run, Fails(r)
  PROVE  run' \in [Run -> RunRow] /\ \A q \in Run : RowStands(q)
<1>1. run \in [Run -> RunRow] /\ run[r] \in RunRow
  BY DEF TypeOK
<1>2. CASE IsRunning(r)
  <2>1. run' = [run EXCEPT ![r] = [run[r] EXCEPT !.status = "failed", !.told = run[r].told + 1]]
    BY <1>1, <1>2 DEF Fails, RunRow
  <2>2. [run[r] EXCEPT !.status = "failed", !.told = run[r].told + 1] \in RunRow
    <3>1. run[r].told + 1 \in Nat
      BY <1>1 DEF RunRow
    <3> QED
      BY <1>1, <3>1 DEF RunRow
  <2> QED
    BY <1>1, <1>2, <2>1, <2>2 DEF RowStands, IsRunning, RunRow
<1>3. CASE ~IsRunning(r)
  BY <1>1, <1>3 DEF Fails, RowStands
<1> QED
  BY <1>2, <1>3

-----------------------------------------------------------------------------
(* Steps that store nothing new *)

(* A job handed out is in a worker's hands (kernel.ts due).                 *)
LEMMA ClaimStep == ASSUME IInv, NEW w \in Worker, NEW j \in Job, Claim(w, j) PROVE IInv'
<1>1. TypeOK /\ claims[j] \in Nat /\ stored[j] = "kept"
  BY DEF IInv, ResultsInOrder, TypeOK, Claim, Jobs!HandOut
<1> DEFINE next == [Idle EXCEPT !.job = j, !.seen = claims[j],
                      !.at = IF claims[j] >= MostAttempts THEN "abandon" ELSE "get"]
<1>2. next \in WorkerState /\ next.job = j /\ next.at \in {"abandon", "get"}
  BY <1>1 DEF Idle, WorkerState
<1>3. worker' = [worker EXCEPT ![w] = next]
  BY DEF Claim
<1> HIDE DEF next
<1>4. /\ worker' \in [Worker -> WorkerState] /\ worker'[w] = next
      /\ \A u \in Worker : u # w => worker'[u] = worker[u]
  BY <1>1, <1>2, <1>3 DEF TypeOK
<1>5. mishaps' \in 0..MaxMishaps
  BY <1>1, MishapType DEF Claim, TypeOK
<1>6. claims' \in [Job -> Nat] /\ UNCHANGED <<stored, ended, runOf, run, kept>>
  BY <1>1 DEF Claim, Jobs!HandOut, TypeOK
<1>7. TypeOK'
  BY <1>1, <1>4, <1>5, <1>6 DEF TypeOK
<1>8. NothingNew
  BY <1>6 DEF NothingNew
<1>9. WorkerFits(w)'
  BY <1>1, <1>2, <1>4, <1>6 DEF WorkerFits
<1> QED
  BY <1>4, <1>6, <1>7, <1>8, <1>9, WorkerStep, RunsStand

(* The command answers: its worker ends, and so does its job (due).         *)
LEMMA AnswersType ==
  ASSUME IInv, NEW w \in Worker, worker[w].at # "idle", Answers(w)
  PROVE  /\ worker' \in [Worker -> WorkerState] /\ ended' \in [Job -> SUBSET Jobs!Endings]
         /\ UNCHANGED <<stored, claims>> /\ MovesOn(w)
         /\ \A u \in Worker : u # w => worker'[u] = worker[u]
<1>1. worker[w].job \in Job /\ TypeOK
  BY HasRun DEF IInv, ResultsInOrder
<1>2. Jobs!Ends(worker[w].job, "answered") /\ Ends(w)
  BY DEF Answers, Jobs!Answer
<1> QED
  BY <1>1, <1>2, EndedType, EndsType DEF MovesOn

(* Reading the run leaves a run that is not running alone (advance).        *)
LEMMA GetStep == ASSUME IInv, NEW w \in Worker, Get(w) PROVE IInv'
<1>1. TypeOK /\ worker[w].at # "idle" /\ UNCHANGED <<runOf, run, kept, mishaps>>
  BY DEF IInv, ResultsInOrder, Get
<1>2. CASE Goes(w, "results") /\ UNCHANGED jobVars
  <2>1. /\ worker' \in [Worker -> WorkerState] /\ worker'[w].at = "results" /\ worker'[w].job = worker[w].job
        /\ \A u \in Worker : u # w => worker'[u] = worker[u]
    BY <1>1, <1>2, GoesType
  <2>2. TypeOK' /\ NothingNew
    BY <1>1, <1>2, <2>1 DEF TypeOK, jobVars, NothingNew
  <2> QED
    BY <1>1, <2>1, <2>2, WorkerStep, RunsStand DEF MovesOn
<1>3. CASE Answers(w)
  <2>1. TypeOK' /\ NothingNew
    BY <1>1, <1>3, AnswersType DEF TypeOK, NothingNew
  <2> QED
    BY <1>1, <1>3, <2>1, AnswersType, WorkerStep, RunsStand
<1> QED
  BY <1>2, <1>3 DEF Get

(* The step run is the first with no result, so all before it have one      *)
(* (advance).                                                               *)
LEMMA ResultsStep == ASSUME IInv, NEW w \in Worker, Results(w) PROVE IInv'
<1>1. TypeOK /\ worker[w].at = "results" /\ UNCHANGED <<runOf, run, kept, mishaps>>
  BY DEF IInv, ResultsInOrder, Results
<1>2. CASE Left(Mine(w)) = {}
  <2>1. Answers(w)
    BY <1>2 DEF Results
  <2>2. TypeOK' /\ NothingNew
    BY <1>1, <2>1, AnswersType DEF TypeOK, NothingNew
  <2> QED
    BY <1>1, <2>1, <2>2, AnswersType, WorkerStep, RunsStand
<1>3. CASE Left(Mine(w)) # {}
  <2> DEFINE first == CHOOSE s \in Left(Mine(w)) : \A u \in Left(Mine(w)) : s <= u
  <2>1. Left(Mine(w)) \in SUBSET Nat
    BY Bounds DEF Left
  <2>2. first \in Left(Mine(w)) /\ \A u \in Left(Mine(w)) : first <= u
    BY <1>3, <2>1, First
  <2>3. worker' = [worker EXCEPT ![w].at = "step", ![w].step = first] /\ UNCHANGED jobVars
    BY <1>3 DEF Results
  <2> HIDE DEF first
  <2>4. first \in Step /\ \A s \in Step : s < first => s \in kept[Mine(w)]
    BY <2>1, <2>2, Bounds DEF Left
  <2>5. worker[w] \in WorkerState
    BY <1>1 DEF TypeOK
  <2>6. [worker[w] EXCEPT !.at = "step", !.step = first] \in WorkerState
    BY <2>4, <2>5 DEF WorkerState
  <2>7. /\ worker' \in [Worker -> WorkerState] /\ worker'[w].at = "step" /\ worker'[w].step = first
        /\ worker'[w].job = worker[w].job /\ \A u \in Worker : u # w => worker'[u] = worker[u]
    BY <1>1, <2>3, <2>5, <2>6 DEF TypeOK, WorkerState
  <2>8. TypeOK' /\ NothingNew
    BY <1>1, <2>3, <2>7 DEF TypeOK, jobVars, NothingNew
  <2>9. Mine(w)' = Mine(w) /\ worker[w].job \in Job /\ stored[worker[w].job] # "unsaved"
    BY <1>1, <2>7 DEF Mine, IInv, WorkerFits
  <2>10. WorkerFits(w)'
    BY <1>1, <2>3, <2>4, <2>7, <2>9 DEF WorkerFits, jobVars
  <2> QED
    BY <1>1, <2>7, <2>8, <2>10, WorkerStep, RunsStand
<1> QED
  BY <1>2, <1>3

(* A step that answered is the one about to be stored (advance).            *)
LEMMA StepAnswersStep ==
  ASSUME IInv, NEW w \in Worker, NEW stopped \in BOOLEAN, StepAnswers(w, stopped) PROVE IInv'
<1>1. TypeOK /\ worker[w].at = "step" /\ UNCHANGED <<stored, claims, ended, runOf, run, kept, mishaps>>
  BY DEF IInv, ResultsInOrder, StepAnswers, jobVars
<1>2. worker[w] \in WorkerState
  BY <1>1 DEF TypeOK
<1>3. [worker[w] EXCEPT !.at = "keep", !.isLast = stopped \/ worker[w].step = Last] \in WorkerState
  BY <1>2 DEF WorkerState
<1>4. /\ worker' \in [Worker -> WorkerState] /\ worker'[w].at = "keep" /\ worker'[w].step = worker[w].step
      /\ worker'[w].job = worker[w].job /\ \A u \in Worker : u # w => worker'[u] = worker[u]
  BY <1>1, <1>2, <1>3 DEF StepAnswers, TypeOK, WorkerState
<1>5. TypeOK' /\ NothingNew
  BY <1>1, <1>4 DEF TypeOK, NothingNew
<1>6. WorkerFits(w)'
  BY <1>1, <1>4 DEF IInv, WorkerFits, Mine
<1> QED
  BY <1>1, <1>4, <1>5, <1>6, WorkerStep, RunsStand

(* An attempt counted, or a last chance lost, is all that changes of a run. *)
LEMMA AttemptCounted ==
  ASSUME TypeOK, NEW r \in Run, run' = Attempted(r) \/ run' = [run EXCEPT ![r].lost = TRUE]
  PROVE  run' \in [Run -> RunRow] /\ \A q \in Run : RowStands(q)
<1>1. run \in [Run -> RunRow] /\ run[r] \in RunRow /\ run[r].attempts + 1 \in Nat
  BY DEF TypeOK, RunRow
<1>2. /\ [run[r] EXCEPT !.attempts = run[r].attempts + 1] \in RunRow
      /\ [run[r] EXCEPT !.lost = TRUE] \in RunRow
  BY <1>1 DEF RunRow
<1>3. PICK next \in RunRow : /\ run' = [run EXCEPT ![r] = next]
                             /\ next.status = run[r].status /\ next.told = run[r].told
                             /\ next.revived = run[r].revived
  <2>1. CASE run' = Attempted(r)
    <3>1. run' = [run EXCEPT ![r] = [run[r] EXCEPT !.attempts = run[r].attempts + 1]]
      BY <2>1 DEF Attempted
    <3> QED
      BY <1>1, <1>2, <3>1 DEF RunRow
  <2>2. CASE run' = [run EXCEPT ![r].lost = TRUE]
    <3>1. run' = [run EXCEPT ![r] = [run[r] EXCEPT !.lost = TRUE]]
      BY <2>2
    <3> QED
      BY <1>1, <1>2, <3>1 DEF RunRow
  <2> QED
    BY <2>1, <2>2
<1>4. run'[r] = next /\ \A q \in Run : q # r => run'[q] = run[q]
  BY <1>1, <1>3
<1> QED
  BY <1>1, <1>3, <1>4 DEF RowStands

(* A step that threw counts on its run, and goes on to fail it, to be given *)
(* up, or back to wait (advance, due).                                      *)
LEMMA StepThrowsStep ==
  ASSUME IInv, NEW w \in Worker, NEW refused \in BOOLEAN, StepThrows(w, refused) PROVE IInv'
<1>1. TypeOK /\ worker[w].at # "idle" /\ run' = Attempted(Mine(w)) /\ UNCHANGED <<runOf, kept, mishaps>>
  BY DEF IInv, ResultsInOrder, StepThrows
<1>2. worker[w].job \in Job /\ Mine(w) \in Run
  BY <1>1, HasRun
<1>3. run' \in [Run -> RunRow] /\ \A q \in Run : RowStands(q)
  BY <1>1, <1>2, AttemptCounted
<1>4. \/ \E at \in {"fail", "abandon", "threw"} : Goes(w, at) /\ UNCHANGED <<stored, claims, ended>>
      \/ Goes(w, "abandon") /\ Jobs!Ends(worker[w].job, "refused")
  BY DEF StepThrows, AfterThrow, jobVars, Jobs!Refuse
<1>5. PICK at \in {"fail", "abandon", "threw"} : Goes(w, at)
  BY <1>4
<1>6. ended' \in [Job -> SUBSET Jobs!Endings] /\ UNCHANGED <<stored, claims>>
  <2>1. ended \in [Job -> SUBSET Jobs!Endings]
    BY <1>1 DEF TypeOK
  <2> QED
    BY <1>1, <1>2, <1>4, <2>1, EndedType
<1>7. /\ worker' \in [Worker -> WorkerState] /\ worker'[w].at = at /\ worker'[w].job = worker[w].job
      /\ \A u \in Worker : u # w => worker'[u] = worker[u]
  BY <1>1, <1>5, GoesType
<1>8. TypeOK' /\ NothingNew
  BY <1>1, <1>3, <1>6, <1>7 DEF TypeOK, NothingNew
<1> QED
  BY <1>1, <1>3, <1>7, <1>8, WorkerStep DEF MovesOn

(* A step past its retries fails its run (FAIL).                            *)
LEMMA FailStep == ASSUME IInv, NEW w \in Worker, Fail(w) PROVE IInv'
<1>1. TypeOK /\ worker[w].at # "idle" /\ Answers(w) /\ Fails(Mine(w)) /\ UNCHANGED <<runOf, kept, mishaps>>
  BY DEF IInv, ResultsInOrder, Fail
<1>2. run' \in [Run -> RunRow] /\ \A q \in Run : RowStands(q)
  BY <1>1, HasRun, FailsOnce
<1>3. TypeOK' /\ NothingNew
  BY <1>1, <1>2, AnswersType DEF TypeOK, NothingNew
<1> QED
  BY <1>1, <1>2, <1>3, AnswersType, WorkerStep

(* A job given up fails its run, or, where that transaction does not        *)
(* commit, leaves it as it was (abandonRun).                                *)
LEMMA AbandonStep == ASSUME IInv, NEW w \in Worker, AbandonRun(w) \/ AbandonFails(w) PROVE IInv'
<1>1. /\ TypeOK /\ worker[w].at # "idle" /\ Jobs!Ends(worker[w].job, "abandoned") /\ Ends(w)
      /\ UNCHANGED <<runOf, kept>>
  BY DEF IInv, ResultsInOrder, AbandonRun, AbandonFails, Jobs!Abandon
<1>2. worker[w].job \in Job /\ Mine(w) \in Run
  BY <1>1, HasRun
<1>3. run' \in [Run -> RunRow] /\ \A q \in Run : RowStands(q)
  BY <1>1, <1>2, FailsOnce, AttemptCounted DEF AbandonRun, AbandonFails
<1>4. mishaps' \in 0..MaxMishaps
  BY <1>1, MishapType DEF AbandonRun, AbandonFails, TypeOK
<1>5. /\ worker' \in [Worker -> WorkerState] /\ worker'[w] = Idle
      /\ \A u \in Worker : u # w => worker'[u] = worker[u]
  BY <1>1, EndsType
<1>6. ended' \in [Job -> SUBSET Jobs!Endings] /\ UNCHANGED <<stored, claims>>
  BY <1>1, <1>2, EndedType
<1>7. TypeOK' /\ NothingNew
  BY <1>1, <1>3, <1>4, <1>5, <1>6 DEF TypeOK, NothingNew
<1> QED
  BY <1>3, <1>5, <1>7, WorkerStep DEF MovesOn

(* A worker that ends or dies leaves its job to another (due).              *)
LEMMA LeavesStep == ASSUME IInv, NEW w \in Worker, GoesBack(w) \/ Crash(w) PROVE IInv'
<1>1. TypeOK /\ Ends(w) /\ UNCHANGED <<stored, claims, ended, runOf, run, kept>>
  BY DEF IInv, ResultsInOrder, GoesBack, Crash, jobVars
<1>2. mishaps' \in 0..MaxMishaps
  BY <1>1, MishapType DEF GoesBack, Crash, TypeOK
<1>3. /\ worker' \in [Worker -> WorkerState] /\ worker'[w] = Idle
      /\ \A u \in Worker : u # w => worker'[u] = worker[u]
  BY <1>1, EndsType
<1>4. TypeOK' /\ NothingNew
  BY <1>1, <1>2, <1>3 DEF TypeOK, NothingNew
<1> QED
  BY <1>1, <1>3, <1>4, WorkerStep, RunsStand DEF MovesOn

(* A transaction that does not commit stores nothing (store.ts).            *)
LEMMA TxFailsStep == ASSUME IInv, NEW w \in Worker, TxFails(w) PROVE IInv'
<1>1. TypeOK /\ worker[w].at # "idle" /\ UNCHANGED <<stored, claims, ended, runOf, run, kept>>
  BY DEF IInv, ResultsInOrder, TxFails, jobVars
<1>2. mishaps' \in 0..MaxMishaps
  BY <1>1, MishapType DEF TxFails
<1>3. PICK at \in {"abandon", "threw"} : Goes(w, at)
  BY DEF TxFails, AfterThrow
<1>4. /\ worker' \in [Worker -> WorkerState] /\ worker'[w].at = at /\ worker'[w].job = worker[w].job
      /\ \A u \in Worker : u # w => worker'[u] = worker[u]
  BY <1>1, <1>3, GoesType
<1>5. TypeOK' /\ NothingNew
  BY <1>1, <1>2, <1>4 DEF TypeOK, NothingNew
<1> QED
  BY <1>1, <1>4, <1>5, WorkerStep, RunsStand DEF MovesOn

(* A job deleted was stored, and carries its run still (due).               *)
LEMMA DropStep == ASSUME IInv, NEW j \in Job, Drop(j) PROVE IInv'
<1>1. /\ TypeOK /\ stored[j] = "kept" /\ stored' = [stored EXCEPT ![j] = "gone"]
      /\ UNCHANGED <<claims, ended, runOf, run, kept, worker, mishaps>>
  BY DEF IInv, ResultsInOrder, Drop, Jobs!Drop
<1>2. TypeOK' /\ NothingNew
  BY <1>1 DEF TypeOK, NothingNew
<1>3. Grows
  BY <1>2 DEF NothingNew, Grows
<1> QED
  BY <1>1, <1>2, <1>3, RowsStand, RunsStand, OtherWorkers DEF IInv

-----------------------------------------------------------------------------
(* Steps that store something *)

(* A run's row becomes another, of a run begun *)
RowBecomes(r, next) == next \in RunRow /\ run' = [run EXCEPT ![r] = next] /\ next.status # "none"

(* ... which leaves the other runs alone (runs.ts, WHERE "id" = ?).         *)
LEMMA RowChanges ==
  ASSUME TypeOK, NEW r \in Run, NEW next, RowBecomes(r, next)
  PROVE  /\ run' \in [Run -> RunRow] /\ run'[r] = next /\ \A q \in Run : q # r => run'[q] = run[q]
         /\ \A q \in Run : run[q].status # "none" => run'[q].status # "none"
  BY DEF RowBecomes, TypeOK

(* A job enqueued with a run begun or revived keeps the invariant: one more *)
(* job, and one more begin or revival to answer for it (run(), retry()).    *)
LEMMA BeginsStep ==
  ASSUME IInv, NEW r \in Run, Stores(r), NEW next, RowBecomes(r, next), UNCHANGED <<claims, ended, kept, worker>>,
         mishaps' \in 0..MaxMishaps,
         next.status = "running" /\ next.told = next.revived,
         Cardinality(JobsOf(r)) + 1 <= 1 + next.revived + Cardinality(kept[r])
  PROVE  IInv'
<1>1. TypeOK
  BY DEF IInv, ResultsInOrder
<1>2. TypeOK'
  BY <1>1, Enqueues, RowChanges DEF TypeOK
<1>3. ResultsInOrder'
  BY <1>2 DEF IInv, ResultsInOrder
<1>4. OneJobPerResult'
  <2>1. ASSUME NEW q \in Run, run'[q].status # "none"
        PROVE  Cardinality(JobsOf(q)') <= 1 + run'[q].revived + Cardinality(kept'[q])
    <3>1. CASE q = r
      BY <1>1, <3>1, Enqueues, RowChanges
    <3>2. CASE q # r
      BY <1>1, <2>1, <3>2, Enqueues, RowChanges DEF IInv, OneJobPerResult
    <3> QED
      BY <3>1, <3>2
  <2> QED
    BY <2>1 DEF OneJobPerResult
<1>5. ToldOncePerFailure'
  BY <1>1, RowChanges DEF IInv, ToldOncePerFailure
<1>6. \A j \in Job : JobFits(j)'
  <2>1. run'[r].status # "none" /\ \A q \in Run : run[q].status # "none" => run'[q].status # "none"
    BY <1>1, RowChanges DEF RowBecomes
  <2>2. \A j \in Job : \/ stored'[j] = stored[j] /\ runOf'[j] = runOf[j]
                       \/ stored'[j] = "kept" /\ runOf'[j] = r
    BY Enqueues
  <2> QED
    BY <2>1, <2>2 DEF IInv, JobFits
<1>7. \A q \in Run : RunFits(q)'
  <2>1. IsFiniteSet(JobsOf(r)') /\ \A q \in Run : q # r => JobsOf(q)' = JobsOf(q)
    BY Enqueues
  <2>2. run'[r].status # "none" /\ \A q \in Run : q # r => run'[q] = run[q]
    BY <1>1, RowChanges DEF RowBecomes
  <2> QED
    BY <2>1, <2>2 DEF IInv, RunFits
<1>8. \A w \in Worker : WorkerFits(w)'
  BY Enqueues, OtherWorkers DEF Grows
<1> QED
  BY <1>3, <1>4, <1>5, <1>6, <1>7, <1>8 DEF IInv

(* A run begun once has its first job (run() and begin of runs.ts).         *)
LEMMA StartStep == ASSUME IInv, NEW r \in Run, Start(r) PROVE IInv'
<1>1. TypeOK /\ run[r] \in RunRow /\ run[r].status = "none"
  BY DEF IInv, ResultsInOrder, TypeOK, Start
<1> DEFINE next == [run[r] EXCEPT !.status = "running"]
<1>2. next \in RunRow /\ next.status = "running" /\ next.told = run[r].told /\ next.revived = run[r].revived
  BY <1>1 DEF RunRow
<1>3. run' = [run EXCEPT ![r] = next]
  BY DEF Start, Begun
<1> HIDE DEF next
<1>4. RowBecomes(r, next)
  BY <1>2, <1>3 DEF RowBecomes
<1>5. Stores(r) /\ UNCHANGED <<claims, ended, kept, worker, mishaps>>
  BY DEF Start, Enqueue, Jobs!Ask, Stores
<1>6. JobsOf(r) = {} /\ run[r].told = run[r].revived
  BY <1>1 DEF IInv, RunFits
<1>7. Cardinality(kept[r]) \in Nat /\ next.revived \in Nat
  <2>1. kept[r] \subseteq Step
    BY <1>1 DEF TypeOK
  <2>2. IsFiniteSet(kept[r])
    BY <2>1, Bounds, FS_Subset
  <2> QED
    BY <1>2, <2>2, FS_CardinalityType DEF RunRow
<1>8. Cardinality(JobsOf(r)) + 1 <= 1 + next.revived + Cardinality(kept[r])
  BY <1>6, <1>7, FS_EmptySet
<1> QED
  BY <1>1, <1>2, <1>4, <1>5, <1>6, <1>8, BeginsStep DEF TypeOK

(* An operator's retry answers a failure that was told (retry()).           *)
LEMMA RetryStep == ASSUME IInv, NEW r \in Run, Retry(r) PROVE IInv'
<1>1. TypeOK /\ run[r] \in RunRow /\ run[r].status = "failed" /\ run[r].revived \in Nat
  BY DEF IInv, ResultsInOrder, TypeOK, Retry, RunRow
<1> DEFINE next == [run[r] EXCEPT !.status = "running", !.attempts = 0, !.revived = run[r].revived + 1]
<1>2. next \in RunRow /\ next.status = "running" /\ next.told = run[r].told /\ next.revived = run[r].revived + 1
  <2>1. run[r].revived + 1 \in Nat /\ 0 \in Nat
    BY <1>1
  <2> QED
    BY <1>1, <2>1 DEF RunRow
<1>3. run' = [run EXCEPT ![r] = next]
  BY DEF Retry, Revived
<1> HIDE DEF next
<1>4. RowBecomes(r, next)
  BY <1>2, <1>3 DEF RowBecomes
<1>5. Stores(r) /\ UNCHANGED <<claims, ended, kept, worker>>
  BY DEF Retry, Enqueue, Jobs!Ask, Stores
<1>6. mishaps' \in 0..MaxMishaps
  BY <1>1, MishapType DEF Retry
<1>7. /\ run[r].told = run[r].revived + 1
      /\ Cardinality(JobsOf(r)) <= 1 + run[r].revived + Cardinality(kept[r])
      /\ IsFiniteSet(JobsOf(r)) /\ kept[r] \subseteq Step
  BY <1>1 DEF IInv, ToldOncePerFailure, OneJobPerResult, RunFits, TypeOK
<1>8. Cardinality(kept[r]) \in Nat /\ Cardinality(JobsOf(r)) \in Nat
  BY <1>7, Bounds, FS_Subset, FS_CardinalityType
<1>9. Cardinality(JobsOf(r)) + 1 <= 1 + next.revived + Cardinality(kept[r])
  BY <1>1, <1>2, <1>7, <1>8
<1> QED
  BY <1>2, <1>4, <1>5, <1>6, <1>7, <1>9, BeginsStep

(* A step's result stored after all before it leaves the results without a  *)
(* gap, and the run's last one only ends it (KEEP).                         *)
LEMMA KeepStep == ASSUME IInv, NEW w \in Worker, Keep(w) PROVE IInv'
<1>1. TypeOK /\ worker[w].at = "keep" /\ worker[w].step \in Step /\ worker[w].job \in Job /\ Mine(w) \in Run
  BY HasRun DEF IInv, ResultsInOrder, Keep, WorkerFits
<1>2. PICK r \in Run, step \in Step : r = Mine(w) /\ step = worker[w].step
  BY <1>1
<1>3. /\ kept' = [kept EXCEPT ![r] = kept[r] \cup {step}]
      /\ ended' = [ended EXCEPT ![worker[w].job] = ended[worker[w].job] \cup {"answered"}]
      /\ run' = run \/ run' = Finished(r)
      /\ UNCHANGED <<stored, runOf>> \/ (Stores(r) /\ step \notin kept[r])
      /\ Ends(w) /\ UNCHANGED <<claims, mishaps>>
  BY <1>1, <1>2 DEF Keep, IsFirst, Left, Stores
<1>4. run[r] \in RunRow /\ run[r].status # "none"
  BY <1>1, <1>2, HasRun DEF TypeOK
<1>5. kept \in [Run -> SUBSET Step] /\ kept' \in [Run -> SUBSET Step] /\ kept'[r] = kept[r] \cup {step}
      /\ \A q \in Run : q # r => kept'[q] = kept[q]
  BY <1>1, <1>3 DEF TypeOK
<1>6. /\ run' \in [Run -> RunRow]
      /\ \A q \in Run : /\ run'[q].revived = run[q].revived /\ run'[q].told = run[q].told
                        /\ run'[q].status = run[q].status \/ (q = r /\ run'[q].status = "done")
  <2>1. CASE run' = run
    BY <1>1, <2>1 DEF TypeOK
  <2>2. CASE run' = Finished(r)
    <3> DEFINE next == [run[r] EXCEPT !.status = "done"]
    <3>1. /\ next \in RunRow /\ next.status = "done" /\ next.revived = run[r].revived
          /\ next.told = run[r].told
      BY <1>4 DEF RunRow
    <3>2. run' = [run EXCEPT ![r] = next]
      BY <2>2 DEF Finished
    <3> HIDE DEF next
    <3> QED
      BY <1>1, <3>1, <3>2 DEF TypeOK
  <2> QED
    BY <1>3, <2>1, <2>2
<1>7. /\ stored' \in [Job -> {"unsaved", "kept", "gone"}] /\ runOf' \in [Job -> Run \cup {NoRun}]
      /\ \A j \in Job : stored[j] # "unsaved" => stored'[j] # "unsaved" /\ runOf'[j] = runOf[j]
      /\ \A j \in Job : \/ stored'[j] = stored[j] /\ runOf'[j] = runOf[j]
                        \/ stored'[j] = "kept" /\ runOf'[j] = r
  BY <1>1, <1>3, Enqueues DEF TypeOK
<1>8. worker' \in [Worker -> WorkerState] /\ worker'[w] = Idle /\ \A u \in Worker : u # w => worker'[u] = worker[u]
  BY <1>1, <1>3, EndsType
<1>9. ended' \in [Job -> SUBSET Jobs!Endings]
  BY <1>1, <1>3 DEF TypeOK, Jobs!Endings
<1>10. TypeOK'
  BY <1>1, <1>3, <1>5, <1>6, <1>7, <1>8, <1>9 DEF TypeOK
<1>11. ResultsInOrder'
  <2>1. ASSUME NEW q \in Run, NEW s \in Step, s \in kept'[q] PROVE 1..s \subseteq kept'[q]
    <3>1. CASE s \in kept[q]
      BY <1>5, <2>1, <3>1 DEF IInv, ResultsInOrder
    <3>2. CASE s \notin kept[q]
      <4>1. q = r /\ s = step
        BY <1>5, <2>1, <3>2
      <4>2. \A u \in Step : u < step => u \in kept[r]
        BY <1>1, <1>2 DEF IInv, WorkerFits
      <4> QED
        BY <1>1, <1>5, <4>1, <4>2, Bounds
    <3> QED
      BY <3>1, <3>2
  <2> QED
    BY <1>10, <2>1 DEF ResultsInOrder
<1>12. /\ \A q \in Run : IsFiniteSet(JobsOf(q)') /\ (q # r => JobsOf(q)' = JobsOf(q))
       /\ \/ JobsOf(r)' = JobsOf(r)
          \/ step \notin kept[r] /\ Cardinality(JobsOf(r)') = Cardinality(JobsOf(r)) + 1
  <2>1. CASE UNCHANGED <<stored, runOf>>
    <3>1. \A q \in Run : JobsOf(q)' = JobsOf(q)
      BY <2>1 DEF JobsOf
    <3> QED
      BY <3>1 DEF IInv, RunFits
  <2>2. CASE Stores(r) /\ step \notin kept[r]
    <3>1. /\ IsFiniteSet(JobsOf(r)') /\ Cardinality(JobsOf(r)') = Cardinality(JobsOf(r)) + 1
          /\ \A q \in Run : q # r => JobsOf(q)' = JobsOf(q)
      BY <2>2, Enqueues
    <3> QED
      BY <2>2, <3>1 DEF IInv, RunFits
  <2> QED
    BY <1>3, <2>1, <2>2
<1>13. OneJobPerResult'
  <2>1. /\ IsFiniteSet(kept[r]) /\ IsFiniteSet(JobsOf(r)) /\ run[r].revived \in Nat
        /\ Cardinality(JobsOf(r)) <= 1 + run[r].revived + Cardinality(kept[r])
    <3>1. kept[r] \subseteq Step
      BY <1>5
    <3>2. IsFiniteSet(kept[r])
      BY <3>1, Bounds, FS_Subset
    <3> QED
      BY <1>4, <3>2 DEF IInv, OneJobPerResult, RunFits, RunRow
  <2>2. Cardinality(kept[r]) \in Nat /\ Cardinality(JobsOf(r)) \in Nat
    BY <2>1, FS_CardinalityType
  <2>3. Cardinality(kept'[r]) = Cardinality(kept[r]) + (IF step \in kept[r] THEN 0 ELSE 1)
    <3>1. Cardinality(kept[r] \cup {step}) = IF step \in kept[r] THEN Cardinality(kept[r]) ELSE Cardinality(kept[r]) + 1
      BY <2>1, FS_AddElement
    <3> QED
      BY <1>5, <2>2, <3>1
  <2>4. Cardinality(JobsOf(r)') <= 1 + run'[r].revived + Cardinality(kept'[r])
    BY <1>6, <1>12, <2>1, <2>2, <2>3
  <2>5. ASSUME NEW q \in Run, q # r, run'[q].status # "none"
        PROVE  Cardinality(JobsOf(q)') <= 1 + run'[q].revived + Cardinality(kept'[q])
    BY <1>5, <1>6, <1>12, <2>5 DEF IInv, OneJobPerResult
  <2> QED
    BY <2>4, <2>5 DEF OneJobPerResult
<1>14. ToldOncePerFailure'
  BY <1>6 DEF IInv, ToldOncePerFailure
<1>15. \A j \in Job : JobFits(j)'
  BY <1>4, <1>6, <1>7 DEF IInv, JobFits
<1>16. \A q \in Run : RunFits(q)'
  BY <1>4, <1>6, <1>12 DEF IInv, RunFits
<1>17. \A u \in Worker : WorkerFits(u)'
  <2>1. Grows
    BY <1>5, <1>7 DEF Grows
  <2>2. WorkerFits(w)'
    BY <1>8 DEF WorkerFits, Idle
  <2> QED
    BY <1>8, <2>1, <2>2, OtherWorkers
<1> QED
  BY <1>11, <1>13, <1>14, <1>15, <1>16, <1>17 DEF IInv

-----------------------------------------------------------------------------
(* The invariant and what it says *)

(* Nothing asked for, nothing done.                                         *)
LEMMA InitIInv == Init => IInv
<1> SUFFICES ASSUME Init PROVE IInv
  OBVIOUS
<1>1. TypeOK
  BY Bounds, IdleType DEF Init, TypeOK, Jobs!Init, Jobs!Endings, RunRow
<1>2. \A r \in Run : JobsOf(r) = {} /\ kept[r] = {} /\ run[r].status = "none" /\ run[r].told = run[r].revived
  BY Bounds DEF Init, JobsOf
<1>3. ResultsInOrder /\ OneJobPerResult /\ ToldOncePerFailure
  BY <1>1, <1>2 DEF ResultsInOrder, OneJobPerResult, ToldOncePerFailure
<1>4. \A j \in Job : JobFits(j)
  BY DEF Init, Jobs!Init, JobFits
<1>5. \A w \in Worker : WorkerFits(w)
  BY DEF Init, WorkerFits, Idle
<1>6. \A r \in Run : RunFits(r)
  BY <1>2, FS_EmptySet DEF RunFits
<1> QED
  BY <1>3, <1>4, <1>5, <1>6 DEF IInv

(* Every step keeps the invariant.                                          *)
LEMMA NextIInv == IInv /\ [Next]_vars => IInv'
<1> SUFFICES ASSUME IInv, [Next]_vars PROVE IInv'
  OBVIOUS
<1>1. CASE UNCHANGED vars
  <2>1. TypeOK' /\ NothingNew /\ Grows /\ UNCHANGED <<run, worker>>
    BY <1>1 DEF vars, IInv, ResultsInOrder, TypeOK, NothingNew, Grows
  <2> QED
    BY <2>1, RowsStand, RunsStand, OtherWorkers DEF IInv
<1>2. ASSUME NEW w \in Worker, Works(w) PROVE IInv'
  BY <1>2, GetStep, ResultsStep, KeepStep, FailStep, LeavesStep, AbandonStep, StepAnswersStep, StepThrowsStep DEF Works
<1>3. CASE Next
  BY <1>2, <1>3, StartStep, RetryStep, ClaimStep, TxFailsStep, AbandonStep, LeavesStep, DropStep DEF Next
<1> QED
  BY <1>1, <1>3

(* The invariant holds at every moment.                                     *)
THEOREM Invariance == Spec => []IInv
  BY InitIInv, NextIInv, PTL DEF Spec

(* Every variable has its type, and results are stored in the order of the  *)
(* steps without a gap, however many workers run a run (advance, KEEP).     *)
THEOREM ResultsOrdered == Spec => []ResultsInOrder
<1>1. IInv => ResultsInOrder
  BY DEF IInv
<1> QED
  BY <1>1, Invariance, PTL

(* Duplicates of a step do not multiply: a begin, a retry and a result      *)
(* stored enqueue one job each (KEEP).                                      *)
THEOREM DuplicatesDie == Spec => []OneJobPerResult
<1>1. IInv => OneJobPerResult
  BY DEF IInv
<1> QED
  BY <1>1, Invariance, PTL

(* Each failure is told once, however many workers come to fail the run     *)
(* (FAIL, abandonRun).                                                      *)
THEOREM ToldOnce == Spec => []ToldOncePerFailure
<1>1. IInv => ToldOncePerFailure
  BY DEF IInv
<1> QED
  BY <1>1, Invariance, PTL
=============================================================================
