------------------------------ MODULE Schedule ------------------------------
(***************************************************************************)
(* Where later work waits and how it is run: the kit_schedule table of     *)
(* database/internal/schedule.ts, and the turns of the kernel's due() loop *)
(* that claim its rows, run their commands and record the outcome, in any  *)
(* number of processes sharing the table.                                  *)
(*                                                                         *)
(* Each statement on the table is one atomic action; everything between    *)
(* two awaits of due() is folded into the action that ends in the await.   *)
(* A turn is one call of due().  setInterval starts one every beat whether *)
(* or not an earlier one has ended, so one process may have several turns  *)
(* under way.                                                              *)
(*                                                                         *)
(* Time is kept as differences, the only form the code compares: `wait` is *)
(* how long until runAt, `age` is now - takenAt, both held at the value    *)
(* past which nothing distinguishes them.                                  *)
(***************************************************************************)
EXTENDS Naturals, FiniteSets

CONSTANTS
  Job,            \* rows the callers of commands.later may write
  NoJob,          \* no job is being run
  Lease,          \* claim ids: randomUUID() answers one nobody carries
  NoLease,        \* NULL in "takenBy"
  Proc,           \* processes over one database
  Turn,           \* calls of due() that can be under way at once
  ProcOf,         \* the process each turn runs in
  Limit,          \* jobs one claim takes: 20 in due()
  MostAttempts,   \* options.mostAttempts: 8 when left out
  LeaseMs,        \* how long a claim holds without a renewal
  Third,          \* how often a running command's claim is renewed
  RunMs,          \* options.jobRunMs: past it a claim is no longer renewed
  MaxWait,        \* bound: the longest delay and the longest backoff
  Backoff,        \* how long a job waits after a failure, by attempts before it
  Punctual,       \* timers fire on time and statements take no time
  MaxClaims,      \* bound: how often one job is claimed
  MaxMishaps      \* bound: crashes, stops and failing statements

ASSUME NoJobAssumption == NoJob \notin Job
ASSUME NoLeaseAssumption == NoLease \notin Lease
ASSUME ProcOfAssumption == ProcOf \in [Turn -> Proc]
ASSUME TimeAssumption ==
  /\ LeaseMs \in Nat /\ Third \in Nat \ {0} /\ 3 * Third <= LeaseMs /\ RunMs \in Nat
  /\ MaxWait \in Nat /\ Backoff \in [0..(MostAttempts - 1) -> 0..MaxWait]
ASSUME CountAssumption ==
  /\ MostAttempts \in Nat \ {0} /\ Limit \in Nat \ {0}
  /\ MaxClaims \in Nat /\ MaxMishaps \in Nat
ASSUME PunctualAssumption == Punctual \in BOOLEAN

VARIABLES
  row,      \* the kit_schedule table, one record per job
  turn,     \* what each call of due() holds in memory
  kernel,   \* each process: "running", "stopped" (its turns go on), "down"
  tally,    \* history: what has happened to each job
  mishaps   \* crashes, stops and failed statements so far

vars == <<row, turn, kernel, tally, mishaps>>

Row == [stored: {"unsaved", "kept", "gone"}, wait: 0..MaxWait,
        age: 0..LeaseMs, takenBy: Lease \cup {NoLease}, attempts: Nat]

(* at: "loop"  between jobs; with an empty batch, no call is under way     *)
(*     "running" its command;  "settled" the command answered, markDone    *)
(*     is next;  "retry" markFailed is next;  "abandon" abandonRun is      *)
(*     next;  "giveUp" giveUp is next                                      *)
TurnState ==
  [at: {"loop", "running", "settled", "retry", "abandon", "giveUp"},
   batch: SUBSET Job, job: Job \cup {NoJob}, lease: Lease \cup {NoLease},
   seen: [Job -> Nat], ran: 0..RunMs, beat: 0..Third, renewing: BOOLEAN]

(* claims: how often it was claimed; evicted: a claim was taken from a live *)
(* process that had not overrun; ended: how its command ended              *)
Tally == [claims: Nat, evicted: BOOLEAN, ended: SUBSET {"answered", "refused", "abandoned"}]

NewRow == [stored |-> "unsaved", wait |-> 0, age |-> 0, takenBy |-> NoLease, attempts |-> 0]

Idle == [at |-> "loop", batch |-> {}, job |-> NoJob, lease |-> NoLease,
         seen |-> [j \in Job |-> 0], ran |-> 0, beat |-> 0, renewing |-> FALSE]

Init ==
  /\ row = [j \in Job |-> NewRow]
  /\ turn = [t \in Turn |-> Idle]
  /\ kernel = [p \in Proc |-> "running"]
  /\ tally = [j \in Job |-> [claims |-> 0, evicted |-> FALSE, ended |-> {}]]
  /\ mishaps = 0

Alive(t) == kernel[ProcOf[t]] # "down"
Running(t) == kernel[ProcOf[t]] = "running"

(* The jobs a turn still answers for, and those whose row carries its lease *)
InHand(t) == turn[t].batch \cup ({turn[t].job} \ {NoJob})
Holds(t, j) == j \in InHand(t) /\ row[j].takenBy = turn[t].lease /\ row[j].takenBy # NoLease

-----------------------------------------------------------------------------
(* The table's statements *)

(* INSERT, in the transaction of the work that asked for the command *)
Save(j, delay) ==
  /\ row[j].stored = "unsaved"
  /\ row' = [row EXCEPT ![j] = [@ EXCEPT !.stored = "kept", !.wait = delay]]
  /\ UNCHANGED <<turn, kernel, tally, mishaps>>

(* Variant: a lapsed lease is never taken over *)
ClaimableUntaken(j) == row[j].stored = "kept" /\ row[j].wait = 0 /\ row[j].takenBy = NoLease

(* Variant: a lease is over at its first missed renewal *)
ClaimableHasty(j) ==
  /\ row[j].stored = "kept" /\ row[j].wait = 0
  /\ row[j].takenBy = NoLease \/ row[j].age >= Third

(* A row due now that nobody took, or whose lease is over *)
Claimable(j) ==
  /\ row[j].stored = "kept" /\ row[j].wait = 0
  /\ row[j].takenBy = NoLease \/ row[j].age >= LeaseMs

(* WHERE "id" = ? AND "takenBy" IS NOT DISTINCT FROM the claim's lease *)
Matches(t) == row[turn[t].job].stored = "kept" /\ row[turn[t].job].takenBy = turn[t].lease

(* Variant: the statement names the id alone *)
DeleteUnguarded(t) ==
  row' = [row EXCEPT ![turn[t].job] = [@ EXCEPT !.stored = "gone", !.takenBy = NoLease, !.age = 0]]

Delete(t) ==
  row' = IF Matches(t)
           THEN [row EXCEPT ![turn[t].job] = [@ EXCEPT !.stored = "gone", !.takenBy = NoLease, !.age = 0]]
           ELSE row

(* Variant: a claim id is used again, as one per process would be *)
FreshReused == Lease

(* The claim ids no row and no turn carries *)
Fresh == Lease \ ({row[j].takenBy : j \in Job} \cup {turn[t].lease : t \in Turn})

(* Taken from a process that still runs and has not overrun this job's time *)
Evicts(j) == \E t \in Turn :
  Holds(t, j) /\ Running(t) /\ ~(turn[t].job = j /\ turn[t].ran >= RunMs)

-----------------------------------------------------------------------------
(* One turn of due() *)

(* The claim: at most Limit claimable rows, every one when there are fewer, *)
(* one new lease for them all; a row whose lease ran out counts a lost run *)
Claim(t) ==
  /\ Running(t) /\ turn[t].at = "loop" /\ turn[t].batch = {}
  /\ \E S \in SUBSET {j \in Job : Claimable(j)}, l \in Fresh :
       /\ S # {}
       /\ Cardinality(S) = Limit \/ (Cardinality(S) < Limit /\ \A j \in Job : Claimable(j) => j \in S)
       /\ \A j \in S : tally[j].claims < MaxClaims
       /\ row' = [j \in Job |-> IF j \notin S THEN row[j] ELSE
                    [row[j] EXCEPT !.takenBy = l, !.age = 0,
                       !.attempts = IF row[j].takenBy = NoLease THEN @ ELSE @ + 1]]
       /\ turn' = [turn EXCEPT ![t] = [Idle EXCEPT !.batch = S, !.lease = l,
                    !.seen = [j \in Job |-> IF j \in S THEN row'[j].attempts ELSE 0]]]
       /\ tally' = [j \in Job |-> IF j \notin S THEN tally[j] ELSE
                    [tally[j] EXCEPT !.claims = @ + 1, !.evicted = @ \/ Evicts(j)]]
  /\ UNCHANGED <<kernel, mishaps>>

(* The loop goes on to the next job of the batch *)
Takes(t, j, at) ==
  /\ Alive(t) /\ turn[t].at = "loop" /\ j \in turn[t].batch
  /\ turn' = [turn EXCEPT ![t] = [@ EXCEPT !.at = at, !.job = j, !.batch = turn[t].batch \ {j},
                !.renewing = (at = "running"), !.ran = 0, !.beat = 0]]

(* Variant: the count is not looked at *)
TakeUnspent(t, j) ==
  /\ Takes(t, j, "abandon")
  /\ UNCHANGED <<row, kernel, tally, mishaps>>

(* Taken too often already: given up without being run *)
TakeSpent(t, j) ==
  /\ turn[t].seen[j] >= MostAttempts
  /\ Takes(t, j, "abandon")
  /\ UNCHANGED <<row, kernel, tally, mishaps>>

(* holdWhileRunning starts renewing, run() starts the command *)
TakeRun(t, j) ==
  /\ turn[t].seen[j] < MostAttempts /\ Running(t)
  /\ Takes(t, j, "running")
  /\ UNCHANGED <<row, kernel, tally, mishaps>>

(* Variant: gives up one attempt early *)
AfterThrowEarly(t, j) == IF turn[t].seen[j] + 2 >= MostAttempts THEN "abandon" ELSE "retry"

(* Past a failure: tried again later, or given up *)
AfterThrow(t, j) == IF turn[t].seen[j] + 1 >= MostAttempts THEN "abandon" ELSE "retry"

(* The kernel stopped while the batch was in hand: run() throws NOT_STARTED, *)
(* which the loop treats as any failure of the command *)
TakeStopped(t, j) ==
  /\ turn[t].seen[j] < MostAttempts /\ ~Running(t)
  /\ Takes(t, j, AfterThrow(t, j))
  /\ UNCHANGED <<row, kernel, tally, mishaps>>

(* The command settles; the renewing timer is cleared at once *)
Settles(t, at) ==
  /\ Alive(t) /\ turn[t].at = "running"
  /\ turn' = [turn EXCEPT ![t] = [@ EXCEPT !.at = at, !.renewing = FALSE, !.ran = 0, !.beat = 0]]
  /\ UNCHANGED <<row, kernel, mishaps>>

Ended(t, how) == tally' = [tally EXCEPT ![turn[t].job].ended = @ \cup {how}]

CommandAnswers(t) == Settles(t, "settled") /\ Ended(t, "answered")

(* A 4xx refusal other than 408 and 429: the work itself is wrong *)
CommandRefuses(t) == Settles(t, "abandon") /\ Ended(t, "refused")

CommandThrows(t) == Settles(t, AfterThrow(t, turn[t].job)) /\ UNCHANGED tally

(* The job is settled: on to the next, or the turn ends and forgets its claim *)
Forgets(t) ==
  turn' = [turn EXCEPT ![t] = IF @.batch = {} THEN Idle
             ELSE [@ EXCEPT !.at = "loop", !.job = NoJob, !.seen[turn[t].job] = 0]]

MarkDone(t) ==
  /\ Alive(t) /\ turn[t].at = "settled"
  /\ Delete(t) /\ Forgets(t)
  /\ UNCHANGED <<kernel, tally, mishaps>>

(* Variant: puts the job back whoever holds it, counting from what it saw *)
MarkFailedUnguarded(t) ==
  /\ Alive(t) /\ turn[t].at = "retry"
  /\ row' = [row EXCEPT ![turn[t].job] = [@ EXCEPT !.takenBy = NoLease, !.age = 0,
                !.wait = Backoff[turn[t].seen[turn[t].job]], !.attempts = turn[t].seen[turn[t].job] + 1]]
  /\ Forgets(t)
  /\ UNCHANGED <<kernel, tally, mishaps>>

MarkFailed(t) ==
  /\ Alive(t) /\ turn[t].at = "retry"
  /\ row' = IF Matches(t)
              THEN [row EXCEPT ![turn[t].job] = [@ EXCEPT !.takenBy = NoLease, !.age = 0,
                     !.wait = Backoff[turn[t].seen[turn[t].job]], !.attempts = row[turn[t].job].attempts + 1]]
              ELSE row
  /\ Forgets(t)
  /\ UNCHANGED <<kernel, tally, mishaps>>

(* A durable run is failed before its job is deleted; what fails is logged *)
AbandonRun(t) ==
  /\ Alive(t) /\ turn[t].at = "abandon"
  /\ turn' = [turn EXCEPT ![t].at = "giveUp"]
  /\ Ended(t, "abandoned")
  /\ UNCHANGED <<row, kernel, mishaps>>

GiveUp(t) ==
  /\ Alive(t) /\ turn[t].at = "giveUp"
  /\ Delete(t) /\ Forgets(t)
  /\ UNCHANGED <<kernel, tally, mishaps>>

-----------------------------------------------------------------------------
(* The renewing timer of holdWhileRunning *)

Beats(t) == Alive(t) /\ turn[t].at = "running" /\ turn[t].renewing

(* It fires: past its time or once the kernel stopped it ends itself; else  *)
(* it renews, and ends itself when another claim holds the row *)
Renew(t) ==
  /\ Beats(t) /\ turn[t].beat = Third
  /\ IF Running(t) /\ turn[t].ran < RunMs /\ Matches(t)
       THEN /\ row' = [row EXCEPT ![turn[t].job].age = 0]
            /\ turn' = [turn EXCEPT ![t].beat = 0]
       ELSE /\ turn' = [turn EXCEPT ![t] = [@ EXCEPT !.renewing = FALSE, !.beat = 0]]
            /\ UNCHANGED row
  /\ UNCHANGED <<kernel, tally, mishaps>>

-----------------------------------------------------------------------------
(* What goes wrong around it *)

Mishap == mishaps < MaxMishaps /\ mishaps' = mishaps + 1

(* The renewal's statement fails: the timer ends itself *)
RenewFails(t) ==
  /\ Mishap /\ Beats(t)
  /\ turn' = [turn EXCEPT ![t] = [@ EXCEPT !.renewing = FALSE, !.beat = 0]]
  /\ UNCHANGED <<row, kernel, tally>>

(* markDone throws inside the try: the command ran, and counts as failed *)
MarkDoneFails(t) ==
  /\ Mishap /\ Alive(t) /\ turn[t].at = "settled"
  /\ turn' = [turn EXCEPT ![t].at = AfterThrow(t, turn[t].job)]
  /\ UNCHANGED <<row, kernel, tally>>

(* markFailed or giveUp throws: due() rejects and its batch is dropped *)
RecordFails(t) ==
  /\ Mishap /\ Alive(t) /\ turn[t].at \in {"retry", "giveUp"}
  /\ turn' = [turn EXCEPT ![t] = Idle]
  /\ UNCHANGED <<row, kernel, tally>>

(* stop(): no new turn begins, the turns under way go on *)
Stop(p) ==
  /\ Mishap /\ kernel[p] = "running"
  /\ kernel' = [kernel EXCEPT ![p] = "stopped"]
  /\ UNCHANGED <<row, turn, tally>>

Crash(p) ==
  /\ Mishap /\ kernel[p] # "down"
  /\ kernel' = [kernel EXCEPT ![p] = "down"]
  /\ turn' = [t \in Turn |-> IF ProcOf[t] = p THEN Idle ELSE turn[t]]
  /\ UNCHANGED <<row, tally>>

(* A process is started anew, or its stopped kernel is started again *)
Restart(p) ==
  /\ kernel[p] # "running"
  /\ kernel' = [kernel EXCEPT ![p] = "running"]
  /\ UNCHANGED <<row, turn, tally, mishaps>>

(* When Punctual, time passes only while every live turn waits: for a beat, *)
(* for its command, or for its next renewal, which comes on time *)
MayWait(t) ==
  \/ turn[t].at = "loop" /\ turn[t].batch = {}
  \/ turn[t].at = "running" /\ (turn[t].renewing => turn[t].beat < Third)

Min2(a, b) == IF a <= b THEN a ELSE b

Tick ==
  /\ Punctual => \A t \in Turn : Alive(t) => MayWait(t)
  /\ row' = [j \in Job |-> [row[j] EXCEPT
               !.wait = IF @ > 0 THEN @ - 1 ELSE 0,
               !.age = IF row[j].takenBy = NoLease THEN 0 ELSE Min2(@ + 1, LeaseMs)]]
  /\ turn' = [t \in Turn |-> IF turn[t].at # "running" THEN turn[t] ELSE
               [turn[t] EXCEPT !.ran = Min2(@ + 1, RunMs),
                  !.beat = IF turn[t].renewing THEN Min2(@ + 1, Third) ELSE 0]]
  /\ <<row, turn>>' # <<row, turn>>
  /\ UNCHANGED <<kernel, tally, mishaps>>

-----------------------------------------------------------------------------
TurnStep(t) ==
  \/ \E j \in Job : TakeSpent(t, j) \/ TakeRun(t, j) \/ TakeStopped(t, j)
  \/ CommandAnswers(t) \/ CommandRefuses(t) \/ CommandThrows(t)
  \/ MarkDone(t) \/ MarkFailed(t) \/ AbandonRun(t) \/ GiveUp(t)

Next ==
  \/ \E j \in Job, delay \in 0..MaxWait : Save(j, delay)
  \/ \E t \in Turn : Claim(t) \/ TurnStep(t) \/ Renew(t)
  \/ \E t \in Turn : RenewFails(t) \/ MarkDoneFails(t) \/ RecordFails(t)
  \/ \E p \in Proc : Stop(p) \/ Crash(p) \/ Restart(p)
  \/ Tick

Spec == Init /\ [][Next]_vars

(* The beat starts turns for as long as a process runs, a turn under way    *)
(* goes on, a timer fires, a process that went down is started again, and   *)
(* time passes.  Commands settle: see the README on one that never does.    *)
Fairness ==
  /\ \A t \in Turn : WF_vars(Claim(t)) /\ WF_vars(TurnStep(t)) /\ WF_vars(Renew(t))
  /\ \A p \in Proc : WF_vars(Restart(p))
  /\ WF_vars(Tick)

FairSpec == Spec /\ Fairness

-----------------------------------------------------------------------------
(* Properties *)

(* Every variable has its type. *)
TypeOK ==
  /\ row \in [Job -> Row]
  /\ turn \in [Turn -> TurnState]
  /\ kernel \in [Proc -> {"running", "stopped", "down"}]
  /\ tally \in [Job -> Tally]
  /\ mishaps \in 0..MaxMishaps

(* A stored job's attempts are exactly the claims made on it that are over: *)
(* each lost run, each failure and each stop is counted once, however many  *)
(* turns still act on an older claim of it (schedule.ts claim, markFailed). *)
EveryClaimCountedOnce ==
  \A j \in Job : row[j].stored = "kept" =>
    tally[j].claims = row[j].attempts + (IF row[j].takenBy = NoLease THEN 0 ELSE 1)

(* The claim id a row carries is in the hands of one turn at most, so only  *)
(* one may finish it, put it back or renew it (schedule.ts claim).          *)
OneHolder ==
  /\ TypeOK
  /\ \A t, u \in Turn, j \in Job : Holds(t, j) /\ Holds(u, j) => t = u

(* A job leaves the table only once its command answered or was refused for *)
(* good, or it was claimed MostAttempts times: no crash, stop or failing    *)
(* statement loses it (kernel.ts due).                                      *)
NothingDroppedEarly ==
  \A j \in Job : row[j].stored = "gone" =>
    tally[j].ended \cap {"answered", "refused"} # {} \/ tally[j].claims >= MostAttempts

(* Its lease was over as it was taken anew, or its holder is done with it *)
LetGo(j) ==
  \/ row[j].age >= LeaseMs /\ row'[j].takenBy \in Lease
  \/ \E t \in Turn : Holds(t, j) /\ turn[t].job = j /\ turn'[t].job # j

(* A taken row changes hands only when its lease is over, or by the step of *)
(* the one turn that holds it: a run that outlived its lease changes        *)
(* nothing (schedule.ts, "IS NOT DISTINCT FROM").                           *)
LeftOnlyByHolderOrLapse ==
  [][\A j \in Job : row[j].takenBy # NoLease /\ row'[j].takenBy # row[j].takenBy => LetGo(j)]_vars

(* With timers on time, a turn past its first renewal still holds its job   *)
(* while its command runs: nobody else is handed it (holdWhileRunning).     *)
RenewedClaimHolds ==
  Punctual => \A t \in Turn :
    Beats(t) /\ Running(t) /\ turn[t].ran > Third =>
      Holds(t, turn[t].job) /\ row[turn[t].job].age = turn[t].beat

(* Together the turns keep what the schedule promises: every step of them   *)
(* is a step of JobPromise, or none (store.ts Schedule).                    *)
Promise == INSTANCE JobPromise WITH
  stored <- [j \in Job |-> row[j].stored],
  claims <- [j \in Job |-> tally[j].claims],
  ended <- [j \in Job |-> tally[j].ended]
KeepsPromise == Promise!Spec

(* Once stored, a job is eventually settled and forgotten (due, beatMs).    *)
EventuallySettled ==
  \A j \in Job : row[j].stored = "kept" ~> row[j].stored = "gone"

(* schedule.ts:107 "a lease nobody renewed means the process died": a lost   *)
(* run is counted only for a process that died, stopped or overran.         *)
LapsedMeansDied == \A j \in Job : ~tally[j].evicted
=============================================================================
