--------------------------- MODULE ScheduleProofs ---------------------------
(* What Schedule says of any number of jobs, turns and processes, proved. *)
EXTENDS Schedule, TLAPS

(* A row nobody wrote yet was never taken *)
Untouched ==
  \A j \in Job : row[j].stored = "unsaved" =>
    tally[j].claims = 0 /\ row[j].attempts = 0 /\ row[j].takenBy = NoLease

(* A claim id was made by one claim *)
LeasesApart ==
  \A t, u \in Turn : turn[t].lease = turn[u].lease /\ turn[t].lease # NoLease => t = u

(* A turn answers for jobs its own claim took, and each was claimed more    *)
(* often than the turn believes it was tried                                *)
HandedOutTo(t) ==
  /\ turn[t].at # "loop" => turn[t].job \in Job
  /\ \A j \in InHand(t) : turn[t].lease # NoLease /\ turn[t].seen[j] < tally[j].claims

(* Refused for good, or claimed as often as a job may be *)
Hopeless(j) == "refused" \in tally[j].ended \/ tally[j].claims >= MostAttempts

(* Where a turn is says how its command ended *)
EndingOf(t) ==
  /\ turn[t].at = "settled" => "answered" \in tally[turn[t].job].ended
  /\ turn[t].at = "retry" => turn[t].seen[turn[t].job] + 1 < MostAttempts
  /\ turn[t].at \in {"abandon", "giveUp"} => Hopeless(turn[t].job)
  /\ turn[t].at = "giveUp" => "abandoned" \in tally[turn[t].job].ended

(* A row left the table for a reason *)
DroppedForReason ==
  \A j \in Job : row[j].stored = "gone" =>
    \/ "answered" \in tally[j].ended
    \/ "abandoned" \in tally[j].ended /\ Hopeless(j)

RowsFit == Untouched /\ EveryClaimCountedOnce /\ DroppedForReason
TurnsFit == LeasesApart /\ \A t \in Turn : HandedOutTo(t) /\ EndingOf(t)

IInv == TypeOK /\ RowsFit /\ TurnsFit

(* What happened to a job is never forgotten *)
Grows == \A j \in Job : tally'[j].claims >= tally[j].claims /\ tally[j].ended \subseteq tally'[j].ended

-----------------------------------------------------------------------------
(* The constants are naturals, and zero is in every bounded range (the      *)
(* defaults of schedule.ts and kernel.ts).                                  *)
LEMMA Bounds ==
  /\ Third \in Nat /\ RunMs \in Nat /\ LeaseMs \in Nat /\ MaxWait \in Nat
  /\ MostAttempts \in Nat /\ MaxMishaps \in Nat /\ MostAttempts > 0
  /\ 0 \in 0..Third /\ 0 \in 0..RunMs /\ 0 \in 0..LeaseMs /\ 0 \in 0..MaxWait
  BY TimeAssumption, CountAssumption

(* A job tried again waits no longer than MaxWait: the backoff table has an *)
(* entry for every attempt short of the last (kernel.ts due, the delay).    *)
LEMMA BackoffFits == \A n \in Nat : n + 1 < MostAttempts => Backoff[n] \in 0..MaxWait
<1> SUFFICES ASSUME NEW n \in Nat, n + 1 < MostAttempts PROVE Backoff[n] \in 0..MaxWait
  OBVIOUS
<1>1. n \in 0..(MostAttempts - 1)
  BY Bounds
<1> QED
  BY <1>1, TimeAssumption

-----------------------------------------------------------------------------
(* How a turn's record changes *)

(* Taking the next job of a batch keeps the turn well typed (due). *)
LEMMA TakesType ==
  ASSUME TypeOK, NEW t \in Turn, NEW j \in Job, NEW at \in {"running", "abandon", "retry"}, Takes(t, j, at)
  PROVE  turn' \in [Turn -> TurnState]
<1> DEFINE next == [turn[t] EXCEPT !.at = at, !.job = j, !.batch = turn[t].batch \ {j},
                      !.renewing = (at = "running"), !.ran = 0, !.beat = 0]
<1>1. turn[t] \in TurnState
  BY DEF TypeOK
<1>2. next \in TurnState
  BY <1>1, Bounds DEF TurnState
<1>3. turn' = [turn EXCEPT ![t] = next]
  BY DEF Takes
<1> HIDE DEF next
<1> QED
  BY <1>2, <1>3 DEF TypeOK

(* A command that settles keeps the turn well typed (due). *)
LEMMA SettlesType ==
  ASSUME TypeOK, NEW t \in Turn, NEW at \in {"settled", "abandon", "retry"}, Settles(t, at)
  PROVE  turn' \in [Turn -> TurnState]
<1> DEFINE next == [turn[t] EXCEPT !.at = at, !.renewing = FALSE, !.ran = 0, !.beat = 0]
<1>1. next \in TurnState
  BY ZenonT(60), Bounds DEF TypeOK, TurnState
<1>2. turn' = [turn EXCEPT ![t] = next]
  BY DEF Settles
<1> QED
  BY <1>1, <1>2 DEF TypeOK

(* A turn with nothing in hand is a turn. *)
LEMMA IdleType == Idle \in TurnState
  BY Bounds DEF Idle, TurnState

(* Forgetting a job keeps the turn well typed (due). *)
LEMMA ForgetsType ==
  ASSUME TypeOK, NEW t \in Turn, turn[t].job \in Job, Forgets(t)
  PROVE  turn' \in [Turn -> TurnState]
<1>1. turn[t] \in TurnState
  BY DEF TypeOK
<1> DEFINE next == [turn[t] EXCEPT !.at = "loop", !.job = NoJob, !.seen[turn[t].job] = 0]
<1>2. next \in TurnState
  BY <1>1 DEF TurnState
<1>3. turn' = [turn EXCEPT ![t] = IF turn[t].batch = {} THEN Idle ELSE next]
  BY DEF Forgets
<1> QED
  BY <1>2, <1>3, IdleType DEF TypeOK

(* A turn that did not change is right about its jobs still *)
LEMMA OtherTurns ==
  ASSUME IInv, TypeOK', Grows, NEW u \in Turn, turn'[u] = turn[u]
  PROVE  HandedOutTo(u)' /\ EndingOf(u)'
<1>1. HandedOutTo(u) /\ EndingOf(u) /\ turn[u] \in TurnState
  BY DEF IInv, TurnsFit, TypeOK
<1>2. \A j \in Job : tally[j].claims \in Nat /\ tally'[j].claims \in Nat
  BY DEF IInv, TypeOK, Tally
<1>3. InHand(u)' = InHand(u) /\ InHand(u) \subseteq Job
  BY <1>1 DEF InHand, TurnState
<1>4. HandedOutTo(u)'
  BY <1>1, <1>2, <1>3 DEF Grows, HandedOutTo, TurnState
<1>5. EndingOf(u)'
  BY <1>1, <1>2, Bounds DEF Grows, EndingOf, HandedOutTo, Hopeless, TurnState
<1> QED
  BY <1>4, <1>5

(* One turn's step leaves the others' claims and endings as they are known *)
LEMMA OneTurn ==
  ASSUME IInv, TypeOK', Grows, NEW t \in Turn,
         \A u \in Turn : u # t => turn'[u] = turn[u],
         turn'[t].lease \in {turn[t].lease, NoLease},
         HandedOutTo(t)', EndingOf(t)'
  PROVE  TurnsFit'
<1>1. LeasesApart'
  BY DEF IInv, TurnsFit, LeasesApart
<1>2. ASSUME NEW u \in Turn, u # t PROVE HandedOutTo(u)' /\ EndingOf(u)'
  BY <1>2, OtherTurns
<1> QED
  BY <1>1, <1>2 DEF TurnsFit

(* What is known of the rows stays known while no row and no tally changes. *)
LEMMA SameRows ==
  ASSUME IInv, row' = row, \A j \in Job : tally'[j].claims = tally[j].claims, Grows
  PROVE  RowsFit'
  BY Bounds DEF IInv, RowsFit, Untouched, EveryClaimCountedOnce, DroppedForReason, Hopeless, Grows

-----------------------------------------------------------------------------
(* The initial state and each action *)

(* The empty table and idle turns satisfy the inductive invariant. *)
THEOREM InitIInv == Init => IInv
<1> SUFFICES ASSUME Init PROVE IInv
  OBVIOUS
<1> USE NoLeaseAssumption, Bounds DEF Init
<1>1. TypeOK
  BY IdleType DEF TypeOK, Row, Tally, NewRow
<1>2. RowsFit
  BY DEF RowsFit, Untouched, EveryClaimCountedOnce, DroppedForReason, NewRow
<1>3. TurnsFit
  BY DEF TurnsFit, LeasesApart, HandedOutTo, EndingOf, InHand, Idle
<1> QED
  BY <1>1, <1>2, <1>3 DEF IInv

(* A new row was never claimed; nothing else changes *)
LEMMA SaveStep == ASSUME IInv, NEW j \in Job, NEW delay \in 0..MaxWait, Save(j, delay) PROVE IInv'
<1>1. TypeOK'
  BY ZenonT(60) DEF IInv, TypeOK, Save, Row
<1>2. RowsFit'
  BY DEF IInv, TypeOK, Row, Tally, Save, RowsFit, Untouched, EveryClaimCountedOnce, DroppedForReason, Hopeless
<1>3. TurnsFit'
  BY DEF IInv, Save, TurnsFit, LeasesApart, HandedOutTo, EndingOf, InHand, Hopeless
<1> QED
  BY <1>1, <1>2, <1>3 DEF IInv

(* A claim counts itself on every row it takes, and a lost run on those     *)
(* taken already; its id is carried by no other turn                        *)
LEMMA ClaimStep == ASSUME IInv, NEW t \in Turn, Claim(t) PROVE IInv'
<1> DEFINE tried(j) == IF row[j].takenBy = NoLease THEN row[j].attempts ELSE row[j].attempts + 1
<1>1. PICK S \in SUBSET {j \in Job : Claimable(j)}, l \in Fresh :
        /\ row' = [j \in Job |-> IF j \notin S THEN row[j] ELSE
                    [row[j] EXCEPT !.takenBy = l, !.age = 0, !.attempts = tried(j)]]
        /\ turn' = [turn EXCEPT ![t] = [Idle EXCEPT !.batch = S, !.lease = l,
                    !.seen = [j \in Job |-> IF j \in S THEN row'[j].attempts ELSE 0]]]
        /\ tally' = [j \in Job |-> IF j \notin S THEN tally[j] ELSE
                    [tally[j] EXCEPT !.claims = tally[j].claims + 1,
                       !.evicted = tally[j].evicted \/ Evicts(j)]]
  BY DEF Claim
<1>2. S \subseteq Job /\ l \in Lease /\ l # NoLease
  BY NoLeaseAssumption DEF Fresh
<1>3. ASSUME NEW j \in Job
      PROVE  /\ row'[j] \in Row /\ row'[j].stored = row[j].stored
             /\ j \notin S => row'[j] = row[j]
             /\ j \in S => /\ row[j].stored = "kept"
                          /\ row'[j].takenBy = l /\ row'[j].attempts = tried(j)
  <2>1. row[j] \in Row /\ tried(j) \in Nat
    BY DEF IInv, TypeOK, Row
  <2>2. row'[j] = IF j \notin S THEN row[j] ELSE
                    [row[j] EXCEPT !.takenBy = l, !.age = 0, !.attempts = tried(j)]
    BY <1>1
  <2> HIDE DEF tried
  <2>3. j \in S => row[j].stored = "kept"
    BY DEF Claimable
  <2> QED
    BY <1>2, <2>1, <2>2, <2>3, Bounds DEF Row
<1>4. ASSUME NEW j \in Job
      PROVE  /\ tally'[j] \in Tally /\ tally'[j].ended = tally[j].ended
             /\ tally'[j].claims = IF j \in S THEN tally[j].claims + 1 ELSE tally[j].claims
  <2> DEFINE evicted == tally[j].evicted \/ Evicts(j)
  <2>1. tally[j] \in Tally /\ evicted \in BOOLEAN
    BY DEF IInv, TypeOK, Tally
  <2>2. tally'[j] = IF j \notin S THEN tally[j] ELSE
                    [tally[j] EXCEPT !.claims = tally[j].claims + 1, !.evicted = evicted]
    BY <1>1
  <2> HIDE DEF evicted
  <2>3. tally[j].claims \in Nat /\ tally[j].claims + 1 \in Nat
    BY <2>1 DEF Tally
  <2>4. ASSUME j \in S PROVE tally'[j] \in Tally
    BY <2>1, <2>2, <2>3, <2>4 DEF Tally
  <2>5. ASSUME j \in S PROVE tally'[j].ended = tally[j].ended /\ tally'[j].claims = tally[j].claims + 1
    BY <2>1, <2>2, <2>5 DEF Tally
  <2> QED
    BY <2>1, <2>2, <2>4, <2>5
<1>5. /\ turn'[t] \in TurnState /\ turn'[t].at = "loop" /\ turn'[t].job = NoJob
      /\ turn'[t].batch = S /\ turn'[t].lease = l
      /\ \A j \in S : turn'[t].seen[j] = row'[j].attempts
  <2> DEFINE seen == [j \in Job |-> IF j \in S THEN row'[j].attempts ELSE 0]
  <2>1. seen \in [Job -> Nat] /\ \A j \in S : seen[j] = row'[j].attempts
    BY <1>2, <1>3 DEF Row
  <2>2. turn'[t] = [Idle EXCEPT !.batch = S, !.lease = l, !.seen = seen]
    BY <1>1 DEF IInv, TypeOK
  <2> HIDE DEF seen
  <2> QED
    BY ZenonT(60), <1>2, <2>1, <2>2, IdleType DEF Idle, TurnState
<1>6. TypeOK'
  <2>1. row' \in [Job -> Row] /\ tally' \in [Job -> Tally]
    BY <1>1, <1>3, <1>4
  <2>2. turn' \in [Turn -> TurnState]
    BY <1>1, <1>5 DEF IInv, TypeOK
  <2> QED
    BY <2>1, <2>2 DEF IInv, TypeOK, Claim
<1>7. \A j \in Job : tally[j].claims \in Nat /\ row[j].attempts \in Nat
  BY DEF IInv, TypeOK, Row, Tally
<1>8. Grows
  BY <1>4, <1>7 DEF Grows
<1>9. ASSUME NEW j \in S PROVE tally'[j].claims = row'[j].attempts + 1
  BY <1>2, <1>3, <1>4, <1>7, <1>9 DEF IInv, RowsFit, EveryClaimCountedOnce
<1>10. RowsFit'
  <2>1. EveryClaimCountedOnce'
    BY <1>2, <1>3, <1>4, <1>9 DEF IInv, RowsFit, EveryClaimCountedOnce
  <2>2. Untouched'
    BY <1>3, <1>4 DEF IInv, RowsFit, Untouched
  <2>3. DroppedForReason'
    BY <1>3, <1>4 DEF IInv, RowsFit, DroppedForReason, Hopeless
  <2> QED
    BY <2>1, <2>2, <2>3 DEF RowsFit
<1>11. HandedOutTo(t)' /\ EndingOf(t)'
  <2>1. InHand(t)' = S
    BY <1>5 DEF InHand
  <2>2. ASSUME NEW j \in S PROVE turn'[t].seen[j] < tally'[j].claims
    BY <1>2, <1>3, <1>5, <1>9 DEF Row
  <2> QED
    BY <1>2, <1>5, <2>1, <2>2 DEF HandedOutTo, EndingOf
<1>12. \A u \in Turn : u # t => turn'[u] = turn[u] /\ turn[u].lease # l
  BY <1>1 DEF IInv, TypeOK, Fresh
<1>13. LeasesApart'
  BY <1>5, <1>12 DEF IInv, TurnsFit, LeasesApart
<1>14. \A u \in Turn : HandedOutTo(u)' /\ EndingOf(u)'
  BY <1>6, <1>8, <1>11, <1>12, OtherTurns
<1> QED
  BY <1>6, <1>10, <1>13, <1>14 DEF IInv, TurnsFit

(* The job a turn took is one its claim took, and it is spent if it was     *)
(* tried as often as a job may be                                           *)
LEMMA TakeSpentStep == ASSUME IInv, NEW t \in Turn, NEW j \in Job, TakeSpent(t, j) PROVE IInv'
<1>1. TypeOK'
  BY TakesType DEF IInv, TypeOK, TakeSpent
<1>2. RowsFit'
  BY SameRows DEF TakeSpent, Grows, IInv, TypeOK, Tally
<1>3. Grows
  BY DEF TakeSpent, Grows, IInv, TypeOK, Tally
<1>4. HandedOutTo(t) /\ turn[t] \in TurnState /\ tally[j].claims \in Nat /\ tally' = tally
  BY DEF IInv, TypeOK, TurnsFit, Tally, TakeSpent
<1>5. turn'[t] = [turn[t] EXCEPT !.at = "abandon", !.job = j, !.batch = turn[t].batch \ {j},
                     !.renewing = FALSE, !.ran = 0, !.beat = 0]
  BY DEF TakeSpent, Takes, IInv, TypeOK
<1>6. HandedOutTo(t)'
  BY <1>4, <1>5 DEF TakeSpent, Takes, HandedOutTo, InHand, TurnState
<1>7. EndingOf(t)'
  BY <1>4, <1>5, Bounds DEF TakeSpent, Takes, HandedOutTo, InHand, EndingOf, Hopeless, TurnState
<1> QED
  BY <1>1, <1>2, <1>3, <1>4, <1>5, <1>6, <1>7, OneTurn DEF IInv, TakeSpent, Takes, TypeOK, TurnState

(* A turn that starts a command keeps the invariant: it holds what it held. *)
LEMMA TakeRunStep == ASSUME IInv, NEW t \in Turn, NEW j \in Job, TakeRun(t, j) PROVE IInv'
<1>1. TypeOK'
  BY TakesType DEF IInv, TypeOK, TakeRun
<1>2. RowsFit' /\ Grows
  BY SameRows DEF TakeRun, Grows, IInv, TypeOK, Tally
<1>3. HandedOutTo(t) /\ turn[t] \in TurnState /\ tally' = tally
  BY DEF IInv, TypeOK, TurnsFit, TakeRun
<1>4. turn'[t] = [turn[t] EXCEPT !.at = "running", !.job = j, !.batch = turn[t].batch \ {j},
                     !.renewing = TRUE, !.ran = 0, !.beat = 0]
  BY DEF TakeRun, Takes, IInv, TypeOK
<1>5. HandedOutTo(t)' /\ EndingOf(t)'
  BY <1>3, <1>4 DEF TakeRun, Takes, HandedOutTo, EndingOf, InHand, TurnState
<1> QED
  BY <1>1, <1>2, <1>3, <1>4, <1>5, OneTurn DEF IInv, TakeRun, Takes, TypeOK, TurnState

(* run() throws at once: tried again, or spent *)
LEMMA TakeStoppedStep == ASSUME IInv, NEW t \in Turn, NEW j \in Job, TakeStopped(t, j) PROVE IInv'
<1> DEFINE at == AfterThrow(t, j)
<1>0. at \in {"running", "abandon", "retry"} /\ at # "running"
  BY DEF AfterThrow
<1>1. TypeOK'
  BY <1>0, TakesType DEF IInv, TypeOK, TakeStopped
<1>2. RowsFit' /\ Grows
  BY SameRows DEF TakeStopped, Grows, IInv, TypeOK, Tally
<1>3. HandedOutTo(t) /\ turn[t] \in TurnState /\ tally[j].claims \in Nat /\ tally' = tally
  BY DEF IInv, TypeOK, TurnsFit, Tally, TakeStopped
<1>4. turn'[t] = [turn[t] EXCEPT !.at = at, !.job = j, !.batch = turn[t].batch \ {j},
                     !.renewing = FALSE, !.ran = 0, !.beat = 0]
  BY <1>0 DEF TakeStopped, Takes, IInv, TypeOK
<1>5. HandedOutTo(t)'
  BY <1>0, <1>3, <1>4 DEF TakeStopped, Takes, HandedOutTo, InHand, TurnState
<1>6. EndingOf(t)'
  BY <1>3, <1>4, Bounds DEF TakeStopped, Takes, AfterThrow, HandedOutTo, InHand, EndingOf, Hopeless, TurnState
<1> QED
  BY <1>1, <1>2, <1>3, <1>4, <1>5, <1>6, OneTurn DEF IInv, TakeStopped, Takes, TypeOK, TurnState

(* A command's end is noted, and known to the turn that ran it *)
LEMMA CommandAnswersStep == ASSUME IInv, NEW t \in Turn, CommandAnswers(t) PROVE IInv'
<1>1. HandedOutTo(t) /\ turn[t] \in TurnState /\ turn[t].job \in Job
  BY DEF IInv, TypeOK, TurnsFit, HandedOutTo, CommandAnswers, Settles
<1>2. tally' \in [Job -> Tally] /\ Grows /\ "answered" \in tally'[turn[t].job].ended
      /\ \A j \in Job : tally'[j].claims = tally[j].claims
  BY <1>1 DEF CommandAnswers, Ended, Grows, IInv, TypeOK, Tally
<1>3. TypeOK'
  BY <1>2, SettlesType DEF IInv, TypeOK, CommandAnswers, Settles
<1>4. RowsFit'
  BY <1>2, SameRows DEF CommandAnswers, Settles
<1>5. turn'[t] = [turn[t] EXCEPT !.at = "settled", !.renewing = FALSE, !.ran = 0, !.beat = 0]
  BY DEF CommandAnswers, Settles, IInv, TypeOK
<1>6. HandedOutTo(t)' /\ EndingOf(t)'
  BY <1>1, <1>2, <1>5 DEF HandedOutTo, EndingOf, InHand, TurnState
<1> QED
  BY <1>1, <1>2, <1>3, <1>4, <1>5, <1>6, OneTurn DEF IInv, CommandAnswers, Settles, TypeOK, TurnState

(* A refusal is noted, and makes the job one that may be given up (due). *)
LEMMA CommandRefusesStep == ASSUME IInv, NEW t \in Turn, CommandRefuses(t) PROVE IInv'
<1>1. HandedOutTo(t) /\ turn[t] \in TurnState /\ turn[t].job \in Job
  BY DEF IInv, TypeOK, TurnsFit, HandedOutTo, CommandRefuses, Settles
<1>2. tally' \in [Job -> Tally] /\ Grows /\ "refused" \in tally'[turn[t].job].ended
      /\ \A j \in Job : tally'[j].claims = tally[j].claims
  BY <1>1 DEF CommandRefuses, Ended, Grows, IInv, TypeOK, Tally
<1>3. TypeOK'
  BY <1>2, SettlesType DEF IInv, TypeOK, CommandRefuses, Settles
<1>4. RowsFit'
  BY <1>2, SameRows DEF CommandRefuses, Settles
<1>5. turn'[t] = [turn[t] EXCEPT !.at = "abandon", !.renewing = FALSE, !.ran = 0, !.beat = 0]
  BY DEF CommandRefuses, Settles, IInv, TypeOK
<1>6. HandedOutTo(t)' /\ EndingOf(t)'
  BY <1>1, <1>2, <1>5 DEF HandedOutTo, EndingOf, Hopeless, InHand, TurnState
<1> QED
  BY <1>1, <1>2, <1>3, <1>4, <1>5, <1>6, OneTurn DEF IInv, CommandRefuses, Settles, TypeOK, TurnState

(* A job whose command threw is tried again, or abandoned at its last attempt *)
(* (due).                                                                   *)
LEMMA CommandThrowsStep == ASSUME IInv, NEW t \in Turn, CommandThrows(t) PROVE IInv'
<1> DEFINE at == AfterThrow(t, turn[t].job)
<1>0. at \in {"settled", "abandon", "retry"}
  BY DEF AfterThrow
<1>1. HandedOutTo(t) /\ turn[t] \in TurnState /\ turn[t].job \in Job
  BY DEF IInv, TypeOK, TurnsFit, HandedOutTo, CommandThrows, Settles
<1>2. tally' \in [Job -> Tally] /\ Grows /\ \A j \in Job : tally'[j].claims = tally[j].claims
  BY <1>1 DEF CommandThrows, Grows, IInv, TypeOK, Tally
<1>3. TypeOK'
  BY <1>0, <1>2, SettlesType DEF IInv, TypeOK, CommandThrows, Settles
<1>4. RowsFit'
  BY <1>2, SameRows DEF CommandThrows, Settles
<1>5. turn'[t] = [turn[t] EXCEPT !.at = at, !.renewing = FALSE, !.ran = 0, !.beat = 0]
  BY DEF CommandThrows, Settles, IInv, TypeOK
<1>6. tally[turn[t].job].claims \in Nat /\ tally'[turn[t].job].claims = tally[turn[t].job].claims
  BY <1>1, <1>2 DEF IInv, TypeOK, Tally
<1>7. HandedOutTo(t)'
  BY <1>1, <1>2, <1>5 DEF HandedOutTo, InHand, TurnState
<1>8. EndingOf(t)'
  BY <1>1, <1>5, <1>6, Bounds, NoJobAssumption
     DEF CommandThrows, Settles, AfterThrow, HandedOutTo, EndingOf, Hopeless, InHand, TurnState
<1> QED
  BY <1>1, <1>2, <1>3, <1>4, <1>5, <1>7, <1>8, OneTurn DEF IInv, CommandThrows, Settles, TypeOK, TurnState

(* A turn that is done with a job answers for the rest of its batch *)
LEMMA ForgetsFits ==
  ASSUME IInv, NEW t \in Turn, turn[t].job \in Job, Forgets(t), tally' = tally
  PROVE  /\ HandedOutTo(t)' /\ EndingOf(t)'
         /\ turn'[t].lease \in {turn[t].lease, NoLease}
         /\ \A u \in Turn : u # t => turn'[u] = turn[u]
<1>1. HandedOutTo(t) /\ turn[t] \in TurnState /\ \A j \in Job : tally[j].claims \in Nat
  BY DEF IInv, TypeOK, TurnsFit, Tally
<1>2. turn'[t] = IF turn[t].batch = {} THEN Idle
                 ELSE [turn[t] EXCEPT !.at = "loop", !.job = NoJob, !.seen[turn[t].job] = 0]
  BY DEF Forgets, IInv, TypeOK
<1>3. \A u \in Turn : u # t => turn'[u] = turn[u]
  BY DEF Forgets, IInv, TypeOK
<1>4. CASE turn[t].batch = {}
  BY <1>1, <1>2, <1>3, <1>4 DEF HandedOutTo, EndingOf, InHand, Idle
<1>5. CASE turn[t].batch # {}
  <2>1. turn'[t].at = "loop" /\ turn'[t].lease = turn[t].lease /\ InHand(t)' = turn[t].batch
    BY <1>1, <1>2, <1>5 DEF InHand, TurnState
  <2>2. \A j \in turn[t].batch : turn'[t].seen[j] \in {turn[t].seen[j], 0} /\ turn[t].seen[j] \in Nat
    BY <1>1, <1>2, <1>5 DEF TurnState
  <2>3. turn[t].batch \subseteq InHand(t) /\ turn[t].batch \subseteq Job
    BY <1>1 DEF InHand, TurnState
  <2>4. HandedOutTo(t)'
    BY <1>1, <2>1, <2>2, <2>3 DEF HandedOutTo
  <2> QED
    BY <1>3, <2>1, <2>4 DEF EndingOf
<1> QED
  BY <1>4, <1>5

(* A deleted row was let go for a reason *)
LEMMA DeleteFits ==
  ASSUME IInv, NEW t \in Turn, turn[t].job \in Job, Delete(t), tally' = tally,
         \/ "answered" \in tally[turn[t].job].ended
         \/ "abandoned" \in tally[turn[t].job].ended /\ Hopeless(turn[t].job)
  PROVE  row' \in [Job -> Row] /\ RowsFit'
<1>1. CASE ~Matches(t)
  BY <1>1, SameRows DEF Delete, IInv, TypeOK, Grows, Tally
<1>2. CASE Matches(t)
  <2>1. row' \in [Job -> Row]
    BY ZenonT(60), <1>2, Bounds DEF Delete, IInv, TypeOK, Row
  <2>2. row'[turn[t].job].stored = "gone" /\ \A j \in Job : j # turn[t].job => row'[j] = row[j]
    BY <1>2 DEF Delete, IInv, TypeOK, Row
  <2>3. RowsFit'
    BY <2>2 DEF IInv, RowsFit, Untouched, EveryClaimCountedOnce, DroppedForReason, Hopeless
  <2> QED
    BY <2>1, <2>3
<1> QED
  BY <1>1, <1>2

(* A job deleted after its command answered was let go for a reason (markDone). *)
LEMMA MarkDoneStep == ASSUME IInv, NEW t \in Turn, MarkDone(t) PROVE IInv'
<1>1. turn[t].job \in Job /\ "answered" \in tally[turn[t].job].ended /\ tally' = tally
  BY DEF IInv, TurnsFit, HandedOutTo, EndingOf, MarkDone
<1>2. row' \in [Job -> Row] /\ RowsFit'
  BY <1>1, DeleteFits DEF MarkDone
<1>3. TypeOK'
  BY <1>1, <1>2, ForgetsType DEF IInv, TypeOK, MarkDone
<1>4. Grows
  BY <1>1 DEF Grows, IInv, TypeOK, Tally
<1> QED
  BY <1>1, <1>2, <1>3, <1>4, ForgetsFits, OneTurn DEF IInv, MarkDone

(* A job deleted after it was abandoned was let go for a reason (giveUp). *)
LEMMA GiveUpStep == ASSUME IInv, NEW t \in Turn, GiveUp(t) PROVE IInv'
<1>1. turn[t].job \in Job /\ "abandoned" \in tally[turn[t].job].ended /\ Hopeless(turn[t].job) /\ tally' = tally
  BY DEF IInv, TurnsFit, HandedOutTo, EndingOf, GiveUp
<1>2. row' \in [Job -> Row] /\ RowsFit'
  BY <1>1, DeleteFits DEF GiveUp
<1>3. TypeOK'
  BY <1>1, <1>2, ForgetsType DEF IInv, TypeOK, GiveUp
<1>4. Grows
  BY <1>1 DEF Grows, IInv, TypeOK, Tally
<1> QED
  BY <1>1, <1>2, <1>3, <1>4, ForgetsFits, OneTurn DEF IInv, GiveUp

(* Putting a job back frees its row and adds one to its attempts            *)
(* (schedule.ts markFailed).                                                *)
LEMMA GivenBack ==
  ASSUME NEW r \in Row, NEW w \in 0..MaxWait
  PROVE  LET s == [r EXCEPT !.takenBy = NoLease, !.age = 0, !.wait = w, !.attempts = r.attempts + 1]
         IN  s \in Row /\ s.stored = r.stored /\ s.takenBy = NoLease /\ s.attempts = r.attempts + 1
<1> DEFINE s == [r EXCEPT !.takenBy = NoLease, !.age = 0, !.wait = w, !.attempts = r.attempts + 1]
<1>1. r.attempts + 1 \in Nat
  BY DEF Row
<1>2. s \in Row
  BY <1>1, Bounds DEF Row
<1>3. s.stored = r.stored /\ s.takenBy = NoLease /\ s.attempts = r.attempts + 1
  BY DEF Row
<1> QED
  BY <1>2, <1>3

(* A claim that failed is counted as it is given back; one that was lost    *)
(* meanwhile was counted by the claim that replaced it                      *)
LEMMA MarkFailedStep == ASSUME IInv, NEW t \in Turn, MarkFailed(t) PROVE IInv'
<1> DEFINE j == turn[t].job
<1>1. j \in Job /\ tally' = tally /\ turn[t] \in TurnState /\ turn[t].lease # NoLease
  <2>1. HandedOutTo(t) /\ turn[t].at = "retry" /\ tally' = tally /\ turn[t] \in TurnState
    BY DEF IInv, TypeOK, TurnsFit, MarkFailed
  <2>2. j \in InHand(t) /\ j \in Job
    BY <2>1, NoJobAssumption DEF HandedOutTo, InHand
  <2> QED
    BY <2>1, <2>2 DEF HandedOutTo
<1>2. Backoff[turn[t].seen[j]] \in 0..MaxWait
  BY <1>1, BackoffFits DEF IInv, TurnsFit, EndingOf, MarkFailed, TurnState
<1>3. row' \in [Job -> Row] /\ RowsFit'
  <2>1. CASE ~Matches(t)
    BY <1>1, <2>1, SameRows DEF MarkFailed, IInv, TypeOK, Grows, Tally
  <2>2. CASE Matches(t)
    <3>1. row' = [row EXCEPT ![j] = [row[j] EXCEPT !.takenBy = NoLease, !.age = 0,
                    !.wait = Backoff[turn[t].seen[j]], !.attempts = row[j].attempts + 1]]
      BY <2>2 DEF MarkFailed
    <3>2. row[j] \in Row /\ row[j].stored = "kept" /\ row[j].takenBy # NoLease
      BY <1>1, <2>2 DEF IInv, TypeOK, Matches
    <3> DEFINE next == [row[j] EXCEPT !.takenBy = NoLease, !.age = 0,
                          !.wait = Backoff[turn[t].seen[j]], !.attempts = row[j].attempts + 1]
    <3>3. next \in Row /\ next.stored = "kept" /\ next.takenBy = NoLease /\ next.attempts = row[j].attempts + 1
      BY <1>2, <3>2, GivenBack
    <3> HIDE DEF next
    <3>4. row' \in [Job -> Row] /\ row'[j] = next
      BY <1>1, <3>1, <3>3 DEF IInv, TypeOK, next
    <3>5. \A i \in Job : i # j => row'[i] = row[i]
      BY <3>1 DEF IInv, TypeOK
    <3>6. tally[j].claims = row[j].attempts + 1
      BY <1>1, <3>2 DEF IInv, RowsFit, EveryClaimCountedOnce
    <3>7. \A i \in Job : i # j => row'[i] = row[i] /\ tally'[i] = tally[i]
      BY <1>1, <3>5
    <3>8. EveryClaimCountedOnce'
      BY <1>1, <3>3, <3>4, <3>6, <3>7 DEF IInv, TypeOK, Tally, RowsFit, EveryClaimCountedOnce
    <3>9. Untouched' /\ DroppedForReason'
      BY <1>1, <3>3, <3>4, <3>7 DEF IInv, RowsFit, Untouched, DroppedForReason, Hopeless
    <3> QED
      BY <3>4, <3>8, <3>9 DEF RowsFit
  <2> QED
    BY <2>1, <2>2
<1>4. TypeOK'
  BY <1>1, <1>3, ForgetsType DEF IInv, TypeOK, MarkFailed
<1>5. Grows
  BY <1>1 DEF Grows, IInv, TypeOK, Tally
<1> QED
  BY <1>1, <1>3, <1>4, <1>5, ForgetsFits, OneTurn DEF IInv, MarkFailed

(* Failing the durable run of a job that is past hope keeps the invariant   *)
(* (abandonRun).                                                            *)
LEMMA AbandonRunStep == ASSUME IInv, NEW t \in Turn, AbandonRun(t) PROVE IInv'
<1>1. HandedOutTo(t) /\ turn[t] \in TurnState /\ turn[t].job \in Job /\ Hopeless(turn[t].job)
  BY DEF IInv, TypeOK, TurnsFit, HandedOutTo, EndingOf, AbandonRun
<1>2. tally' \in [Job -> Tally] /\ Grows /\ "abandoned" \in tally'[turn[t].job].ended
      /\ \A j \in Job : tally'[j].claims = tally[j].claims
  BY <1>1 DEF AbandonRun, Ended, Grows, IInv, TypeOK, Tally
<1>3. turn'[t] = [turn[t] EXCEPT !.at = "giveUp"] /\ turn' \in [Turn -> TurnState]
  <2>1. turn' = [turn EXCEPT ![t] = [turn[t] EXCEPT !.at = "giveUp"]]
    BY DEF AbandonRun
  <2>2. [turn[t] EXCEPT !.at = "giveUp"] \in TurnState
    BY <1>1 DEF TurnState
  <2> QED
    BY <2>1, <2>2 DEF IInv, TypeOK
<1>4. TypeOK' /\ RowsFit'
  BY <1>2, <1>3, SameRows DEF IInv, TypeOK, AbandonRun
<1>5. HandedOutTo(t)' /\ EndingOf(t)'
  BY <1>1, <1>2, <1>3 DEF Grows, HandedOutTo, EndingOf, Hopeless, InHand, TurnState
<1> QED
  BY <1>1, <1>2, <1>3, <1>4, <1>5, OneTurn DEF IInv, AbandonRun, TypeOK, TurnState

-----------------------------------------------------------------------------
(* The timer of a running command: it changes a row's age alone *)

(* A step that changes only how old a claim is keeps what the rows count. *)
LEMMA SameClaims ==
  ASSUME IInv, tally' = tally, row' \in [Job -> Row],
         \A j \in Job : /\ row'[j].stored = row[j].stored /\ row'[j].takenBy = row[j].takenBy
                        /\ row'[j].attempts = row[j].attempts
  PROVE  RowsFit' /\ Grows
  BY DEF IInv, TypeOK, Tally, RowsFit, Untouched, EveryClaimCountedOnce, DroppedForReason, Hopeless, Grows

(* A turn whose clocks alone change *)
SameWork(t) ==
  /\ turn'[t].at = turn[t].at /\ turn'[t].job = turn[t].job /\ turn'[t].batch = turn[t].batch
  /\ turn'[t].lease = turn[t].lease /\ turn'[t].seen = turn[t].seen

(* A step that changes only a turn's clock keeps what its claim is known for. *)
LEMMA SameTurns ==
  ASSUME IInv, tally' = tally, \A t \in Turn : SameWork(t)
  PROVE  TurnsFit'
  BY DEF IInv, TurnsFit, LeasesApart, HandedOutTo, EndingOf, Hopeless, InHand, SameWork

(* The renewing timer of a running command changes a row's age alone        *)
(* (holdWhileRunning).                                                      *)
LEMMA RenewStep == ASSUME IInv, NEW t \in Turn, Renew(t) PROVE IInv'
<1>1. turn[t] \in TurnState /\ turn[t].job \in Job
  BY DEF IInv, TypeOK, TurnsFit, HandedOutTo, Renew, Beats
<1>2. turn' \in [Turn -> TurnState] /\ \A u \in Turn : SameWork(u)
  <2>1. PICK next \in {[turn[t] EXCEPT !.beat = 0], [turn[t] EXCEPT !.renewing = FALSE, !.beat = 0]} :
          turn' = [turn EXCEPT ![t] = next]
    BY DEF Renew
  <2>2. next \in TurnState
    BY <1>1, <2>1, Bounds DEF TurnState
  <2>3. next.at = turn[t].at /\ next.job = turn[t].job /\ next.batch = turn[t].batch
        /\ next.lease = turn[t].lease /\ next.seen = turn[t].seen
    BY <1>1, <2>1 DEF TurnState
  <2> QED
    BY <2>1, <2>2, <2>3 DEF IInv, TypeOK, SameWork
<1>3. row' \in [Job -> Row]
      /\ \A j \in Job : /\ row'[j].stored = row[j].stored /\ row'[j].takenBy = row[j].takenBy
                        /\ row'[j].attempts = row[j].attempts
  <2>1. row' \in {row, [row EXCEPT ![turn[t].job].age = 0]}
    BY DEF Renew
  <2> QED
    BY <1>1, <2>1, Bounds DEF IInv, TypeOK, Row
<1> QED
  BY <1>2, <1>3, SameClaims, SameTurns DEF IInv, TypeOK, Renew

(* A renewal that fails ends its own timer, and changes no row              *)
(* (holdWhileRunning).                                                      *)
LEMMA RenewFailsStep == ASSUME IInv, NEW t \in Turn, RenewFails(t) PROVE IInv'
<1>1. turn[t] \in TurnState
  BY DEF IInv, TypeOK
<1>2. turn' = [turn EXCEPT ![t] = [turn[t] EXCEPT !.renewing = FALSE, !.beat = 0]]
  BY DEF RenewFails
<1>3. turn' \in [Turn -> TurnState]
  BY <1>1, <1>2, Bounds DEF IInv, TypeOK, TurnState
<1>4. \A u \in Turn : SameWork(u)
  BY <1>1, <1>2 DEF IInv, TypeOK, TurnState, SameWork
<1>5. mishaps' \in 0..MaxMishaps
  BY Bounds DEF RenewFails, Mishap, IInv, TypeOK
<1> QED
  BY <1>3, <1>4, <1>5, SameClaims, SameTurns DEF IInv, TypeOK, RenewFails

-----------------------------------------------------------------------------
(* What goes wrong *)

(* A markDone that throws makes an answered job one to be tried again or    *)
(* abandoned, as its count says (due).                                      *)
LEMMA MarkDoneFailsStep == ASSUME IInv, NEW t \in Turn, MarkDoneFails(t) PROVE IInv'
<1> DEFINE at == AfterThrow(t, turn[t].job)
<1>0. at \in {"abandon", "retry"}
  BY DEF AfterThrow
<1>1. HandedOutTo(t) /\ turn[t] \in TurnState /\ turn[t].job \in Job /\ tally' = tally
      /\ tally[turn[t].job].claims \in Nat
  BY DEF IInv, TypeOK, TurnsFit, HandedOutTo, Tally, MarkDoneFails
<1>2. turn'[t] = [turn[t] EXCEPT !.at = at] /\ turn' \in [Turn -> TurnState]
  <2>1. turn' = [turn EXCEPT ![t] = [turn[t] EXCEPT !.at = at]]
    BY DEF MarkDoneFails
  <2>2. [turn[t] EXCEPT !.at = at] \in TurnState
    BY <1>0, <1>1 DEF TurnState
  <2> QED
    BY <2>1, <2>2 DEF IInv, TypeOK
<1>3. RowsFit' /\ Grows
  BY SameRows DEF MarkDoneFails, Grows, IInv, TypeOK, Tally
<1>4. mishaps' \in 0..MaxMishaps
  BY Bounds DEF MarkDoneFails, Mishap, IInv, TypeOK
<1>5. HandedOutTo(t)'
  BY <1>0, <1>1, <1>2 DEF HandedOutTo, InHand, TurnState
<1>6. EndingOf(t)'
  BY <1>1, <1>2, Bounds, NoJobAssumption DEF MarkDoneFails, AfterThrow, HandedOutTo, EndingOf, Hopeless, InHand, TurnState
<1> QED
  BY <1>1, <1>2, <1>3, <1>4, <1>5, <1>6, OneTurn DEF IInv, MarkDoneFails, TypeOK, TurnState

(* A record that throws drops the turn's batch; the rows keep their lease (due). *)
LEMMA RecordFailsStep == ASSUME IInv, NEW t \in Turn, RecordFails(t) PROVE IInv'
<1>1. turn'[t] = Idle /\ turn' \in [Turn -> TurnState] /\ tally' = tally
  BY IdleType DEF RecordFails, IInv, TypeOK
<1>2. RowsFit' /\ Grows
  BY SameRows DEF RecordFails, Grows, IInv, TypeOK, Tally
<1>3. mishaps' \in 0..MaxMishaps
  BY Bounds DEF RecordFails, Mishap, IInv, TypeOK
<1>4. HandedOutTo(t)' /\ EndingOf(t)'
  BY <1>1 DEF HandedOutTo, EndingOf, InHand, Idle
<1> QED
  BY <1>1, <1>2, <1>3, <1>4, OneTurn DEF IInv, RecordFails, TypeOK, Idle

(* Stopping a kernel, or starting it, changes no row and no turn (stop, start). *)
LEMMA KernelStep == ASSUME IInv, NEW p \in Proc, Stop(p) \/ Restart(p) PROVE IInv'
<1>1. row' = row /\ turn' = turn /\ tally' = tally
  BY DEF Stop, Restart
<1>2. TypeOK'
  BY <1>1, Bounds DEF IInv, TypeOK, Stop, Restart, Mishap
<1>3. RowsFit'
  BY <1>1, <1>2, SameClaims DEF TypeOK
<1>4. TurnsFit'
  BY <1>1, SameTurns DEF SameWork
<1> QED
  BY <1>2, <1>3, <1>4 DEF IInv

(* A process that dies forgets its turns; their rows stay taken until the   *)
(* lease is over.                                                           *)
LEMMA CrashStep == ASSUME IInv, NEW p \in Proc, Crash(p) PROVE IInv'
<1>1. row' = row /\ tally' = tally /\ \A t \in Turn : turn'[t] \in {turn[t], Idle}
  BY DEF Crash
<1>2. TypeOK'
  <2>1. turn' \in [Turn -> TurnState]
    BY IdleType DEF Crash, IInv, TypeOK
  <2> QED
    BY <2>1, Bounds DEF IInv, TypeOK, Crash, Mishap
<1>3. RowsFit'
  BY <1>1, <1>2, SameClaims DEF TypeOK
<1>4. LeasesApart'
  BY <1>1 DEF IInv, TurnsFit, LeasesApart, Idle
<1>5. ASSUME NEW t \in Turn PROVE HandedOutTo(t)' /\ EndingOf(t)'
  <2>1. CASE turn'[t] = turn[t]
    BY <1>1, <2>1 DEF IInv, TurnsFit, HandedOutTo, EndingOf, Hopeless, InHand
  <2>2. CASE turn'[t] = Idle
    BY <2>2 DEF HandedOutTo, EndingOf, InHand, Idle
  <2> QED
    BY <1>1, <2>1, <2>2
<1> QED
  BY <1>2, <1>3, <1>4, <1>5 DEF IInv, TurnsFit

(* Time moves clocks alone *)
LEMMA TickStep == ASSUME IInv, Tick PROVE IInv'
<1>1. ASSUME NEW j \in Job
      PROVE  /\ row'[j] \in Row /\ row'[j].stored = row[j].stored
             /\ row'[j].takenBy = row[j].takenBy /\ row'[j].attempts = row[j].attempts
  <2>1. row[j] \in Row
    BY DEF IInv, TypeOK
  <2>2. (IF row[j].wait > 0 THEN row[j].wait - 1 ELSE 0) \in 0..MaxWait
    BY <2>1, Bounds DEF Row
  <2>3. (IF row[j].takenBy = NoLease THEN 0 ELSE Min2(row[j].age + 1, LeaseMs)) \in 0..LeaseMs
    BY <2>1, Bounds DEF Row, Min2
  <2>4. row'[j] = [row[j] EXCEPT
          !.wait = IF row[j].wait > 0 THEN row[j].wait - 1 ELSE 0,
          !.age = IF row[j].takenBy = NoLease THEN 0 ELSE Min2(row[j].age + 1, LeaseMs)]
    BY DEF Tick
  <2> QED
    BY <2>1, <2>2, <2>3, <2>4 DEF Row
<1>2. ASSUME NEW t \in Turn PROVE turn'[t] \in TurnState /\ SameWork(t)
  <2>1. turn[t] \in TurnState
    BY DEF IInv, TypeOK
  <2>2. Min2(turn[t].ran + 1, RunMs) \in 0..RunMs
        /\ (IF turn[t].renewing THEN Min2(turn[t].beat + 1, Third) ELSE 0) \in 0..Third
    BY <2>1, Bounds DEF TurnState, Min2
  <2>3. turn'[t] = IF turn[t].at # "running" THEN turn[t] ELSE
          [turn[t] EXCEPT !.ran = Min2(turn[t].ran + 1, RunMs),
             !.beat = IF turn[t].renewing THEN Min2(turn[t].beat + 1, Third) ELSE 0]
    BY DEF Tick
  <2>4. CASE turn[t].at = "running"
    <3> DEFINE ran == Min2(turn[t].ran + 1, RunMs)
               beat == IF turn[t].renewing THEN Min2(turn[t].beat + 1, Third) ELSE 0
    <3>1. turn'[t] = [turn[t] EXCEPT !.ran = ran, !.beat = beat]
      BY <2>3, <2>4
    <3>2. ran \in 0..RunMs /\ beat \in 0..Third
      BY <2>2
    <3> HIDE DEF ran, beat
    <3> QED
      BY <2>1, <3>1, <3>2 DEF TurnState, SameWork
  <2>5. CASE turn[t].at # "running"
    BY <2>1, <2>3, <2>5 DEF SameWork
  <2> QED
    BY <2>4, <2>5
<1>3. row' \in [Job -> Row] /\ turn' \in [Turn -> TurnState]
  BY <1>1, <1>2 DEF Tick
<1>4. TypeOK'
  BY <1>3 DEF IInv, TypeOK, Tick
<1> QED
  BY <1>1, <1>2, <1>3, <1>4, SameClaims, SameTurns DEF IInv, Tick

-----------------------------------------------------------------------------
(* The theorems *)

(* Every step of the schedule keeps the inductive invariant. *)
THEOREM NextIInv == IInv /\ [Next]_vars => IInv'
<1> SUFFICES ASSUME IInv, [Next]_vars PROVE IInv'
  OBVIOUS
<1>1. CASE Next
  <2>1. ASSUME NEW j \in Job, NEW delay \in 0..MaxWait, Save(j, delay) PROVE IInv'
    BY <2>1, SaveStep
  <2>2. ASSUME NEW t \in Turn, Claim(t) \/ TurnStep(t) \/ Renew(t) PROVE IInv'
    BY <2>2, ClaimStep, TakeSpentStep, TakeRunStep, TakeStoppedStep, CommandAnswersStep,
       CommandRefusesStep, CommandThrowsStep, MarkDoneStep, MarkFailedStep, AbandonRunStep,
       GiveUpStep, RenewStep DEF TurnStep
  <2>3. ASSUME NEW t \in Turn, RenewFails(t) \/ MarkDoneFails(t) \/ RecordFails(t) PROVE IInv'
    BY <2>3, RenewFailsStep, MarkDoneFailsStep, RecordFailsStep
  <2>4. ASSUME NEW p \in Proc, Stop(p) \/ Crash(p) \/ Restart(p) PROVE IInv'
    BY <2>4, KernelStep, CrashStep
  <2> QED
    BY <1>1, <2>1, <2>2, <2>3, <2>4, TickStep DEF Next
<1>2. CASE UNCHANGED vars
  <2>1. row' = row /\ turn' = turn /\ kernel' = kernel /\ tally' = tally /\ mishaps' = mishaps
    BY <1>2 DEF vars
  <2>2. TypeOK'
    BY <2>1 DEF IInv, TypeOK
  <2> QED
    BY <2>1, <2>2, SameClaims, SameTurns DEF TypeOK, SameWork, IInv
<1> QED
  BY <1>1, <1>2

(* The inductive invariant holds in every reachable state, for any jobs,    *)
(* processes, turns and bounds.                                             *)
THEOREM Invariance == Spec => []IInv
  BY InitIInv, NextIInv, PTL DEF Spec

(* Every variable has its type, in every instance of the schedule. *)
THEOREM TypeCorrect == Spec => []TypeOK
<1>1. IInv => TypeOK
  BY DEF IInv
<1> QED
  BY <1>1, Invariance, PTL

(* However many turns act on one job, each claim of it that is over was     *)
(* counted exactly once (schedule.ts claim, markFailed).                    *)
THEOREM ClaimsCounted == Spec => []EveryClaimCountedOnce
<1>1. IInv => EveryClaimCountedOnce
  BY DEF IInv, RowsFit
<1> QED
  BY <1>1, Invariance, PTL

(* At most one turn may finish, put back or renew a taken job.              *)
THEOREM HolderUnique == Spec => []OneHolder
<1>1. IInv => OneHolder
  BY DEF IInv, TurnsFit, LeasesApart, OneHolder, Holds
<1> QED
  BY <1>1, Invariance, PTL

(* No crash, stop or failing statement makes a job leave the table before   *)
(* its command ended for good or it was claimed MostAttempts times.         *)
THEOREM NoneDroppedEarly == Spec => []NothingDroppedEarly
<1>1. IInv => NothingDroppedEarly
  BY DEF IInv, RowsFit, DroppedForReason, Hopeless, NothingDroppedEarly
<1> QED
  BY <1>1, Invariance, PTL

-----------------------------------------------------------------------------
(* A taken row changes hands *)

(* A step after which a row is held by another claim, or by none, is one its *)
(* lease allowed or its holder took (schedule.ts claim, markFailed, forget). *)
LEMMA StepLetsGo ==
  ASSUME IInv, Next, NEW j \in Job, row[j].takenBy # NoLease, row'[j].takenBy # row[j].takenBy
  PROVE  LetGo(j)
<1>1. row[j] \in Row /\ row \in [Job -> Row]
  BY DEF IInv, TypeOK
<1>2. ASSUME NEW t \in Turn, Claim(t) PROVE LetGo(j)
  <2>1. row'[j].takenBy \in Lease /\ Claimable(j)
    <3>1. PICK S \in SUBSET {i \in Job : Claimable(i)}, l \in Fresh :
            row' = [i \in Job |-> IF i \notin S THEN row[i] ELSE
                     [row[i] EXCEPT !.takenBy = l, !.age = 0,
                       !.attempts = IF row[i].takenBy = NoLease THEN row[i].attempts ELSE row[i].attempts + 1]]
      BY <1>2 DEF Claim
    <3>2. j \in S
      BY <3>1
    <3> QED
      BY <1>1, <3>1, <3>2 DEF Row, Fresh
  <2> QED
    BY <2>1 DEF Claimable, LetGo
<1>3. ASSUME NEW t \in Turn, turn[t].at # "loop", turn[t].job \in Job, Forgets(t),
             \A i \in Job : i # turn[t].job => row'[i] = row[i], Matches(t)
      PROVE  LetGo(j)
  <2>1. turn[t].job = j /\ Holds(t, j)
    BY <1>3, NoJobAssumption DEF Holds, InHand, Matches
  <2>2. turn'[t].job # j
    <3>1. turn[t] \in TurnState /\ turn \in [Turn -> TurnState]
      BY DEF IInv, TypeOK
    <3>2. turn'[t].job = NoJob
      BY <1>3, <3>1 DEF Forgets, Idle, TurnState
    <3> QED
      BY <3>2, NoJobAssumption
  <2> QED
    BY <2>1, <2>2 DEF LetGo
<1>4. ASSUME NEW t \in Turn, MarkDone(t) \/ GiveUp(t) \/ MarkFailed(t) PROVE LetGo(j)
  <2>1. turn[t].at # "loop" /\ turn[t].job \in Job /\ Forgets(t)
    BY <1>4 DEF MarkDone, GiveUp, MarkFailed, IInv, TurnsFit, HandedOutTo
  <2>2. Matches(t)
    BY <1>4 DEF MarkDone, GiveUp, MarkFailed, Delete
  <2>3. \A i \in Job : i # turn[t].job => row'[i] = row[i]
    BY <1>1, <1>4, <2>2 DEF MarkDone, GiveUp, MarkFailed, Delete
  <2> QED
    BY <1>3, <2>1, <2>2, <2>3
<1>5. ASSUME NEW t \in Turn, Renew(t) PROVE FALSE
  <2>1. row' \in {row, [row EXCEPT ![turn[t].job].age = 0]}
    BY <1>5 DEF Renew
  <2> QED
    BY <1>1, <2>1 DEF Row
<1>6. ASSUME NEW i \in Job, NEW delay \in 0..MaxWait, Save(i, delay) PROVE FALSE
  BY <1>1, <1>6 DEF Save, Row
<1>7. ASSUME Tick PROVE FALSE
  BY <1>1, <1>7 DEF Tick, Row
<1>8. row' # row
  OBVIOUS
<1> QED
  BY <1>2, <1>4, <1>5, <1>6, <1>7, <1>8 DEF Next, TurnStep, TakeSpent, TakeRun, TakeStopped, CommandAnswers,
     CommandRefuses, CommandThrows, Settles, AbandonRun, RenewFails, MarkDoneFails, RecordFails, Stop, Crash, Restart

(* In every instance, a taken row changes hands only when its lease is over *)
(* or by the step of the one turn that holds it.                            *)
THEOREM LeftByHolder == Spec => LeftOnlyByHolderOrLapse
<1>1. IInv /\ [Next]_vars =>
        [\A j \in Job : row[j].takenBy # NoLease /\ row'[j].takenBy # row[j].takenBy => LetGo(j)]_vars
  BY StepLetsGo
<1> QED
  BY <1>1, Invariance, PTL DEF Spec, LeftOnlyByHolderOrLapse

-----------------------------------------------------------------------------
(* The schedule keeps its promise *)

(* A step that leaves the rows' storage, the claims and the endings alone is *)
(* no step of the promise.                                                  *)
LEMMA PromiseStutters ==
  ASSUME \A j \in Job : row'[j].stored = row[j].stored /\ tally'[j].claims = tally[j].claims
                        /\ tally'[j].ended = tally[j].ended
  PROVE  UNCHANGED Promise!vars
  BY DEF Promise!vars

(* Writing a row is asking for a job (schedule.ts save). *)
LEMMA AskStep == ASSUME IInv, NEW j \in Job, NEW delay \in 0..MaxWait, Save(j, delay) PROVE Promise!Ask(j)
  BY DEF IInv, TypeOK, Row, Save, Promise!Ask

(* A claim hands out its whole batch of stored jobs at once (schedule.ts claim). *)
LEMMA HandOutStep == ASSUME IInv, NEW t \in Turn, Claim(t) PROVE \E S \in SUBSET Job : Promise!HandOut(S)
<1>1. PICK S \in SUBSET {j \in Job : Claimable(j)}, l \in Fresh :
        /\ row' = [j \in Job |-> IF j \notin S THEN row[j] ELSE
                    [row[j] EXCEPT !.takenBy = l, !.age = 0,
                       !.attempts = IF row[j].takenBy = NoLease THEN row[j].attempts ELSE row[j].attempts + 1]]
        /\ tally' = [j \in Job |-> IF j \notin S THEN tally[j] ELSE
                    [tally[j] EXCEPT !.claims = tally[j].claims + 1,
                       !.evicted = tally[j].evicted \/ Evicts(j)]]
  BY DEF Claim
<1>2. \A j \in S : row[j].stored = "kept"
  BY DEF Claimable
<1>3. ASSUME NEW j \in Job PROVE row'[j].stored = row[j].stored
  BY <1>1 DEF IInv, TypeOK, Row
<1>4. ASSUME NEW j \in Job
      PROVE  /\ tally'[j].ended = tally[j].ended
             /\ tally'[j].claims = IF j \in S THEN tally[j].claims + 1 ELSE tally[j].claims
  BY <1>1 DEF IInv, TypeOK, Tally
<1>5. Promise!HandOut(S)
  BY <1>2, <1>3, <1>4 DEF Promise!HandOut
<1> QED
  BY <1>1, <1>5

(* A turn's end of a command is an end of a job that was handed out *)
LEMMA EndStep ==
  ASSUME IInv, NEW t \in Turn, turn[t].at # "loop", NEW how \in {"answered", "refused", "abandoned"},
         Ended(t, how), row' = row
  PROVE  /\ turn[t].job \in Job /\ tally[turn[t].job].claims > 0
         /\ Promise!Ends(turn[t].job, how)
<1>1. HandedOutTo(t) /\ turn[t] \in TurnState /\ turn[t].job \in Job
  BY DEF IInv, TypeOK, TurnsFit, HandedOutTo
<1>2. tally[turn[t].job].claims > 0
  <2>1. turn[t].seen[turn[t].job] < tally[turn[t].job].claims
    BY <1>1, NoJobAssumption DEF HandedOutTo, InHand
  <2> QED
    BY <1>1, <2>1 DEF IInv, TypeOK, TurnState, Tally
<1>3. tally' = [tally EXCEPT ![turn[t].job].ended = tally[turn[t].job].ended \cup {how}]
  BY DEF Ended
<1>4. \A j \in Job : /\ tally'[j].claims = tally[j].claims
                    /\ tally'[j].ended = IF j = turn[t].job THEN tally[j].ended \cup {how} ELSE tally[j].ended
  BY <1>1, <1>3 DEF IInv, TypeOK, Tally
<1>5. Promise!Ends(turn[t].job, how)
  BY <1>1, <1>4 DEF Promise!Ends
<1> QED
  BY <1>1, <1>2, <1>5

(* A deleted row was its holder's, and its job had answered or been abandoned *)
(* (markDone, giveUp).                                                      *)
LEMMA DropStep ==
  ASSUME IInv, NEW t \in Turn, turn[t].job \in Job, Delete(t), tally' = tally,
         tally[turn[t].job].ended \cap {"answered", "abandoned"} # {}
  PROVE  Promise!Drop(turn[t].job) \/ UNCHANGED Promise!vars
<1>1. CASE ~Matches(t)
  BY <1>1, PromiseStutters DEF Delete
<1>2. CASE Matches(t)
  <2>1. row' = [row EXCEPT ![turn[t].job] = [row[turn[t].job] EXCEPT !.stored = "gone", !.takenBy = NoLease, !.age = 0]]
    BY <1>2 DEF Delete
  <2>2. \A j \in Job : row'[j].stored = IF j = turn[t].job THEN "gone" ELSE row[j].stored
    BY <2>1 DEF IInv, TypeOK, Row
  <2>3. Promise!Drop(turn[t].job)
    BY <1>2, <2>2 DEF Promise!Drop, Matches
  <2> QED
    BY <2>3
<1> QED
  BY <1>1, <1>2

(* Every other step of a turn is none of the promise's *)
LEMMA QuietTurn ==
  ASSUME IInv, NEW t \in Turn,
         \/ MarkFailed(t) \/ CommandThrows(t) \/ Renew(t) \/ RenewFails(t) \/ MarkDoneFails(t) \/ RecordFails(t)
         \/ \E j \in Job : TakeSpent(t, j) \/ TakeRun(t, j) \/ TakeStopped(t, j)
  PROVE  UNCHANGED Promise!vars
<1>1. row \in [Job -> Row] /\ tally \in [Job -> Tally]
  BY DEF IInv, TypeOK
<1>2. CASE MarkFailed(t)
  <2>1. \/ row' = row
        \/ row' = [row EXCEPT ![turn[t].job] = [row[turn[t].job] EXCEPT !.takenBy = NoLease, !.age = 0,
                     !.wait = Backoff[turn[t].seen[turn[t].job]], !.attempts = row[turn[t].job].attempts + 1]]
    BY <1>2 DEF MarkFailed
  <2>2. tally' = tally
    BY <1>2 DEF MarkFailed
  <2>3. ASSUME NEW j \in Job PROVE row'[j].stored = row[j].stored
    <3>1. \/ row'[j] = row[j]
          \/ row'[j] = [row[j] EXCEPT !.takenBy = NoLease, !.age = 0,
                         !.wait = Backoff[turn[t].seen[j]], !.attempts = row[j].attempts + 1]
      BY <1>1, <2>1
    <3>2. row[j] \in Row
      BY <1>1
    <3>3. CASE row'[j] = [row[j] EXCEPT !.takenBy = NoLease, !.age = 0,
                         !.wait = Backoff[turn[t].seen[j]], !.attempts = row[j].attempts + 1]
      BY <3>2, <3>3 DEF Row
    <3> QED
      BY <3>1, <3>3
  <2> QED
    BY <2>2, <2>3, PromiseStutters
<1>3. CASE CommandThrows(t)
  BY <1>1, <1>3, PromiseStutters DEF CommandThrows, Settles, Tally
<1>4. CASE Renew(t)
  BY <1>1, <1>4, PromiseStutters DEF Renew, Row
<1>5. CASE \/ RenewFails(t) \/ MarkDoneFails(t) \/ RecordFails(t)
           \/ \E j \in Job : TakeSpent(t, j) \/ TakeRun(t, j) \/ TakeStopped(t, j)
  BY <1>5, PromiseStutters DEF RenewFails, MarkDoneFails, RecordFails, TakeSpent, TakeRun, TakeStopped
<1> QED
  BY <1>2, <1>3, <1>4, <1>5

(* Every step of the schedule is a step of JobPromise, or leaves it alone. *)
LEMMA PromiseStep == ASSUME IInv, Next PROVE Promise!Next \/ UNCHANGED Promise!vars
<1>1. ASSUME NEW j \in Job, NEW delay \in 0..MaxWait, Save(j, delay) PROVE Promise!Next
  BY <1>1, AskStep DEF Promise!Next
<1>2. ASSUME NEW t \in Turn, Claim(t) PROVE Promise!Next
  BY <1>2, HandOutStep DEF Promise!Next
<1>3. ASSUME NEW t \in Turn, CommandAnswers(t) PROVE Promise!Next
  BY <1>3, EndStep DEF CommandAnswers, Settles, Promise!Answer, Promise!Next
<1>4. ASSUME NEW t \in Turn, CommandRefuses(t) PROVE Promise!Next
  BY <1>4, EndStep DEF CommandRefuses, Settles, Promise!Refuse, Promise!Next
<1>5. ASSUME NEW t \in Turn, AbandonRun(t) PROVE Promise!Next
  <2>1. Hopeless(turn[t].job)
    BY <1>5 DEF AbandonRun, IInv, TurnsFit, EndingOf
  <2>2. turn[t].job \in Job /\ Promise!Ends(turn[t].job, "abandoned")
    BY <1>5, EndStep DEF AbandonRun
  <2> QED
    BY <2>1, <2>2 DEF Hopeless, Promise!Abandon, Promise!Next
<1>6. ASSUME NEW t \in Turn, MarkDone(t) \/ GiveUp(t) PROVE Promise!Next \/ UNCHANGED Promise!vars
  <2>1. /\ turn[t].job \in Job /\ Delete(t) /\ tally' = tally
        /\ tally[turn[t].job].ended \cap {"answered", "abandoned"} # {}
    BY <1>6 DEF MarkDone, GiveUp, IInv, TurnsFit, HandedOutTo, EndingOf
  <2> QED
    BY <2>1, DropStep DEF Promise!Drop, Promise!Next
<1>7. ASSUME NEW p \in Proc, Stop(p) \/ Crash(p) \/ Restart(p) PROVE UNCHANGED Promise!vars
  BY <1>7, PromiseStutters DEF Stop, Crash, Restart
<1>8. ASSUME Tick PROVE UNCHANGED Promise!vars
  BY <1>8, PromiseStutters DEF Tick, IInv, TypeOK, Row
<1> QED
  BY <1>1, <1>2, <1>3, <1>4, <1>5, <1>6, <1>7, <1>8, QuietTurn DEF Next, TurnStep

(* Any number of processes sharing the table keep what JobPromise says: a   *)
(* job is handed out while it is stored, and leaves only once it answered   *)
(* or was abandoned for a reason.                                           *)
THEOREM Implements == Spec => KeepsPromise
<1>1. Init => Promise!Init
  BY DEF Init, NewRow, Promise!Init
<1>2. IInv /\ [Next]_vars => [Promise!Next]_(Promise!vars)
  <2> SUFFICES ASSUME IInv, [Next]_vars PROVE Promise!Next \/ UNCHANGED Promise!vars
    OBVIOUS
  <2>1. CASE UNCHANGED vars
    BY <2>1, PromiseStutters DEF vars
  <2> QED
    BY <2>1, PromiseStep
<1> QED
  BY <1>1, <1>2, Invariance, PTL DEF Spec, KeepsPromise, Promise!Spec

-----------------------------------------------------------------------------
(* Renewals on time: a turn of a process that is down works on nothing; one *)
(* whose claim is being renewed has yet to reach its first renewal, or has  *)
(* its job, renewed as long ago as its timer says                           *)
OnTime(t) ==
  /\ ~Alive(t) => turn[t].at = "loop"
  /\ turn[t].at = "running" /\ turn[t].renewing =>
       \/ turn[t].ran <= turn[t].beat
       \/ Holds(t, turn[t].job) /\ row[turn[t].job].age = turn[t].beat

RenewalsOnTime == IInv /\ \A t \in Turn : OnTime(t)

(* Another turn's step leaves the row of a job that is held                 *)
HeldStays(t) ==
  Holds(t, turn[t].job) /\ row[turn[t].job].age < LeaseMs =>
    row'[turn[t].job].takenBy = row[turn[t].job].takenBy /\ row'[turn[t].job].age = row[turn[t].job].age

(* A turn that does nothing is as much on time as before, if the row it holds stays as it is. *)
LEMMA OthersOnTime ==
  ASSUME RenewalsOnTime, NEW t \in Turn, turn'[t] = turn[t], Alive(t) => Alive(t)', HeldStays(t)
  PROVE  OnTime(t)'
<1>1. turn[t] \in TurnState /\ OnTime(t)
  BY DEF RenewalsOnTime, IInv, TypeOK
<1>2. turn[t].beat < LeaseMs
  BY <1>1, TimeAssumption DEF TurnState
<1>3. InHand(t)' = InHand(t)
  BY DEF InHand
<1>4. QED
  BY <1>1, <1>2, <1>3 DEF OnTime, HeldStays, Holds

(* The statements of a turn match only what that turn holds *)
LEMMA OthersMatchApart ==
  ASSUME RenewalsOnTime, NEW t \in Turn, NEW u \in Turn, u # t, Holds(t, turn[t].job),
         turn[u].job = turn[t].job
  PROVE  ~Matches(u)
<1>1. row[turn[t].job].takenBy = turn[t].lease /\ turn[t].lease # NoLease
  BY DEF Holds
<1>2. QED
  BY <1>1 DEF RenewalsOnTime, IInv, TurnsFit, LeasesApart, Matches

(* No statement of another turn reaches a row that is held: its claim takes no live lease. *)
LEMMA HeldStaysIn ==
  ASSUME RenewalsOnTime, NEW t \in Turn, NEW u \in Turn, u # t,
         \/ Claim(u) \/ Renew(u) \/ MarkFailed(u) \/ MarkDone(u) \/ GiveUp(u) \/ row' = row
  PROVE  HeldStays(t)
<1>1. SUFFICES ASSUME Holds(t, turn[t].job), row[turn[t].job].age < LeaseMs
               PROVE  row'[turn[t].job] = row[turn[t].job]
  BY DEF HeldStays
<1>2. PICK j : j = turn[t].job
  OBVIOUS
<1>3. j \in Job /\ row \in [Job -> Row] /\ row[j].takenBy # NoLease /\ row[j].age \in Nat /\ LeaseMs \in Nat
  BY <1>1, <1>2, Bounds DEF RenewalsOnTime, IInv, TypeOK, TurnsFit, HandedOutTo, TurnState, Row, Holds, InHand
<1>4. turn[u].job = j => ~Matches(u)
  BY <1>1, <1>2, OthersMatchApart
<1>5. CASE Claim(u)
  <2>1. ~Claimable(j)
    BY <1>1, <1>2, <1>3 DEF Claimable
  <2>2. QED
    BY <1>2, <1>3, <1>5, <2>1 DEF Claim
<1>6. CASE Renew(u)
  BY <1>2, <1>3, <1>4, <1>6 DEF Renew
<1>7. CASE MarkFailed(u)
  BY <1>2, <1>3, <1>4, <1>7 DEF MarkFailed
<1>8. CASE MarkDone(u) \/ GiveUp(u)
  BY <1>2, <1>3, <1>4, <1>8 DEF MarkDone, GiveUp, Delete
<1>9. QED
  BY <1>1, <1>2, <1>5, <1>6, <1>7, <1>8

(* A turn that runs no command is on time *)
LEMMA QuietOnTime ==
  ASSUME NEW t \in Turn, turn'[t].at # "running" \/ ~turn'[t].renewing \/ (turn'[t].ran = 0 /\ turn'[t].beat = 0),
         Alive(t)' \/ turn'[t].at = "loop"
  PROVE  OnTime(t)'
BY DEF OnTime

(* Taken or settled, its times begin anew; done with, it forgets them *)
LEMMA OwnStepOnTime ==
  ASSUME RenewalsOnTime, NEW t \in Turn,
         \/ Claim(t) \/ TurnStep(t) \/ RenewFails(t) \/ MarkDoneFails(t) \/ RecordFails(t)
  PROVE  OnTime(t)'
<1>1. turn[t] \in TurnState /\ turn \in [Turn -> TurnState] /\ kernel' = kernel /\ Alive(t)
  BY DEF RenewalsOnTime, IInv, TypeOK, Claim, TurnStep, RenewFails, MarkDoneFails, RecordFails, Running, Alive,
         TakeSpent, TakeRun, TakeStopped, Takes, CommandAnswers, CommandRefuses, CommandThrows, Settles, MarkDone,
         MarkFailed, AbandonRun, GiveUp, Beats
<1>2. Alive(t)'
  BY <1>1 DEF Alive
<1>3. CASE Claim(t)
  <2>1. PICK S \in SUBSET {j \in Job : Claimable(j)}, l \in Fresh :
          turn' = [turn EXCEPT ![t] = [Idle EXCEPT !.batch = S, !.lease = l,
                     !.seen = [j \in Job |-> IF j \in S THEN row'[j].attempts ELSE 0]]]
    BY <1>3 DEF Claim
  <2>2. turn'[t].at = "loop"
    BY <1>1, <2>1 DEF Idle
  <2>3. QED
    BY <2>2, QuietOnTime
<1>4. CASE \E j \in Job : TakeSpent(t, j) \/ TakeRun(t, j) \/ TakeStopped(t, j)
  <2>1. PICK j \in Job : \E at \in {"abandon", "running", AfterThrow(t, j)} : Takes(t, j, at)
    BY <1>4 DEF TakeSpent, TakeRun, TakeStopped
  <2>2. PICK at : Takes(t, j, at)
    BY <2>1
  <2>3. turn'[t] = [turn[t] EXCEPT !.at = at, !.job = j, !.batch = turn[t].batch \ {j},
                      !.renewing = (at = "running"), !.ran = 0, !.beat = 0]
    BY <1>1, <2>2 DEF Takes
  <2>4. turn'[t].ran = 0 /\ turn'[t].beat = 0
    BY <1>1, <2>3 DEF TurnState
  <2>5. QED
    BY <1>2, <2>4, QuietOnTime
<1>5. CASE CommandAnswers(t) \/ CommandRefuses(t) \/ CommandThrows(t) \/ RenewFails(t)
  <2>1. ~turn'[t].renewing
    BY ZenonT(60), <1>1, <1>5 DEF CommandAnswers, CommandRefuses, CommandThrows, Settles, RenewFails, TurnState
  <2>2. QED
    BY <1>2, <2>1, QuietOnTime
<1>6. CASE MarkDone(t) \/ MarkFailed(t) \/ GiveUp(t)
  <2>1. turn'[t].at = "loop"
    <3>1. turn' = [turn EXCEPT ![t] = IF @.batch = {} THEN Idle
                     ELSE [@ EXCEPT !.at = "loop", !.job = NoJob, !.seen[turn[t].job] = 0]]
      BY <1>6 DEF MarkDone, MarkFailed, GiveUp, Forgets
    <3>2. CASE turn[t].batch = {}
      BY <1>1, <3>1, <3>2 DEF Idle
    <3>3. CASE turn[t].batch # {}
      <4>1. turn'[t] = [turn[t] EXCEPT !.at = "loop", !.job = NoJob, !.seen[turn[t].job] = 0]
        BY <1>1, <3>1, <3>3
      <4>2. QED
        BY <1>1, <4>1 DEF TurnState
    <3>4. QED
      BY <3>2, <3>3
  <2>2. QED
    BY <2>1, QuietOnTime
<1>7. CASE AbandonRun(t) \/ MarkDoneFails(t) \/ RecordFails(t)
  <2>1. turn'[t].at # "running"
    BY <1>1, <1>7 DEF AbandonRun, MarkDoneFails, RecordFails, AfterThrow, Idle, TurnState
  <2>2. QED
    BY <1>2, <2>1, QuietOnTime
<1>8. QED
  BY <1>3, <1>4, <1>5, <1>6, <1>7 DEF TurnStep

(* The timer fires: the row is renewed and its age and the timer are zero,  *)
(* or the timer ends itself                                                 *)
LEMMA RenewOnTime ==
  ASSUME RenewalsOnTime, NEW t \in Turn, Renew(t)
  PROVE  OnTime(t)'
<1>1. /\ turn[t] \in TurnState /\ turn \in [Turn -> TurnState] /\ kernel' = kernel /\ Alive(t)
      /\ turn[t].job \in Job /\ row \in [Job -> Row] /\ turn[t].lease # NoLease /\ turn[t].at = "running"
  <2>1. turn[t].at = "running" /\ Alive(t) /\ kernel' = kernel
    BY DEF Renew, Beats
  <2>2. turn[t] \in TurnState /\ turn \in [Turn -> TurnState] /\ row \in [Job -> Row] /\ HandedOutTo(t)
    BY DEF RenewalsOnTime, IInv, TypeOK, TurnsFit
  <2>3. turn[t].job \in Job
    BY <2>1, <2>2 DEF HandedOutTo
  <2>4. turn[t].lease # NoLease
    BY <2>2, <2>3, NoJobAssumption DEF HandedOutTo, InHand
  <2>5. QED
    BY <2>1, <2>2, <2>3, <2>4
<1>2. Alive(t)'
  BY <1>1 DEF Alive
<1>3. CASE Running(t) /\ turn[t].ran < RunMs /\ Matches(t)
  <2>1. /\ row' = [row EXCEPT ![turn[t].job].age = 0]
        /\ turn' = [turn EXCEPT ![t].beat = 0]
    BY <1>3 DEF Renew
  <2>2. /\ turn'[t].job = turn[t].job /\ turn'[t].lease = turn[t].lease /\ turn'[t].beat = 0
        /\ row'[turn[t].job].age = 0 /\ row'[turn[t].job].takenBy = turn[t].lease
    BY <1>1, <1>3, <2>1 DEF Matches, TurnState, Row
  <2>3. Holds(t, turn[t].job)'
    BY <1>1, <2>2, NoJobAssumption DEF Holds, InHand
  <2>4. QED
    BY <1>2, <2>2, <2>3 DEF OnTime
<1>4. CASE ~(Running(t) /\ turn[t].ran < RunMs /\ Matches(t))
  <2>1. turn'[t] = [turn[t] EXCEPT !.renewing = FALSE, !.beat = 0]
    BY <1>1, <1>4 DEF Renew
  <2>2. ~turn'[t].renewing
    BY <1>1, <2>1 DEF TurnState
  <2>3. QED
    BY <1>2, <2>2, QuietOnTime
<1>5. QED
  BY <1>3, <1>4

(* Time passes no turn whose renewal is due *)
LEMMA TickOnTime ==
  ASSUME Punctual, RenewalsOnTime, NEW t \in Turn, Tick
  PROVE  OnTime(t)'
<1>1. /\ turn[t] \in TurnState /\ turn \in [Turn -> TurnState] /\ kernel' = kernel /\ OnTime(t)
      /\ row \in [Job -> Row]
  BY DEF RenewalsOnTime, IInv, TypeOK, Tick
<1>2. Alive(t)' <=> Alive(t)
  BY <1>1 DEF Alive
<1>3. CASE turn[t].at # "running"
  <2>1. turn'[t] = turn[t]
    BY <1>3 DEF Tick
  <2>2. QED
    BY <1>1, <1>2, <1>3, <2>1 DEF OnTime
<1>4. CASE turn[t].at = "running" /\ ~turn[t].renewing
  <2>1. turn'[t].renewing = turn[t].renewing /\ turn'[t].at = "running"
    BY <1>1, <1>4 DEF Tick, TurnState
  <2>2. QED
    BY <1>1, <1>2, <1>4, <2>1 DEF OnTime
<1>5. CASE turn[t].at = "running" /\ turn[t].renewing
  <2>1. Alive(t) /\ turn[t].beat < Third
    BY <1>1, <1>5 DEF OnTime, Tick, MayWait
  <2>2. turn[t].beat \in Nat /\ turn[t].ran \in Nat /\ Third \in Nat /\ RunMs \in Nat /\ Third < LeaseMs /\ LeaseMs \in Nat
    BY <1>1, TimeAssumption DEF TurnState
  <2>3. turn'[t] = [turn[t] EXCEPT !.ran = Min2(turn[t].ran + 1, RunMs), !.beat = Min2(turn[t].beat + 1, Third)]
    BY <1>5 DEF Tick
  <2>4. /\ turn'[t].ran = Min2(turn[t].ran + 1, RunMs) /\ turn'[t].beat = turn[t].beat + 1
        /\ turn'[t].job = turn[t].job /\ turn'[t].lease = turn[t].lease /\ turn'[t].batch = turn[t].batch
    BY <1>1, <2>1, <2>2, <2>3 DEF TurnState, Min2
  <2>5. CASE turn[t].ran <= turn[t].beat
    <3>1. turn'[t].ran <= turn'[t].beat
      BY <2>2, <2>4, <2>5 DEF Min2
    <3>2. QED
      BY <1>2, <2>1, <3>1 DEF OnTime
  <2>6. CASE Holds(t, turn[t].job) /\ row[turn[t].job].age = turn[t].beat
    <3>1. PICK j : j = turn[t].job
      OBVIOUS
    <3>2. j \in Job /\ row[j].takenBy # NoLease
      BY <1>5, <2>6, <3>1 DEF Holds, RenewalsOnTime, IInv, TurnsFit, HandedOutTo
    <3>3. row'[j] = [row[j] EXCEPT !.wait = IF @ > 0 THEN @ - 1 ELSE 0, !.age = Min2(row[j].age + 1, LeaseMs)]
      BY <3>2 DEF Tick
    <3>4. row'[j].takenBy = row[j].takenBy /\ row'[j].age = turn[t].beat + 1
      BY <1>1, <2>1, <2>2, <2>6, <3>1, <3>2, <3>3 DEF Row, Min2
    <3>5. Holds(t, turn[t].job)'
      BY <2>4, <2>6, <3>1, <3>4 DEF Holds, InHand
    <3>6. QED
      BY <1>2, <2>1, <2>4, <3>1, <3>4, <3>5 DEF OnTime
  <2>7. QED
    BY <1>1, <1>5, <2>5, <2>6 DEF OnTime
<1>6. QED
  BY <1>3, <1>4, <1>5

(* Every step keeps the renewals on time, when time waits for what is due. *)
LEMMA NextOnTime ==
  ASSUME Punctual, RenewalsOnTime, [Next]_vars
  PROVE  RenewalsOnTime'
<1>1. IInv'
  BY NextIInv DEF RenewalsOnTime
<1>2. ASSUME NEW t \in Turn PROVE OnTime(t)'
  <2>1. CASE UNCHANGED vars
    <3>1. HeldStays(t) /\ turn'[t] = turn[t] /\ (Alive(t) => Alive(t)')
      BY <2>1 DEF vars, HeldStays, Alive
    <3>2. QED
      BY <3>1, OthersOnTime
  <2>2. ASSUME NEW j \in Job, NEW delay \in 0..MaxWait, Save(j, delay) PROVE OnTime(t)'
    <3>1. HeldStays(t) /\ turn'[t] = turn[t] /\ (Alive(t) => Alive(t)')
      <4>1. \A i \in Job : row'[i].takenBy = row[i].takenBy /\ row'[i].age = row[i].age
        BY <2>2 DEF Save, RenewalsOnTime, IInv, TypeOK, Row
      <4>2. Holds(t, turn[t].job) => turn[t].job \in Job
        BY DEF Holds, InHand, RenewalsOnTime, IInv, TypeOK, TurnState
      <4>3. QED
        BY <2>2, <4>1, <4>2 DEF Save, HeldStays, Alive
    <3>2. QED
      BY <3>1, OthersOnTime
  <2>3. ASSUME NEW u \in Turn,
               \/ Claim(u) \/ TurnStep(u) \/ Renew(u) \/ RenewFails(u) \/ MarkDoneFails(u) \/ RecordFails(u)
        PROVE  OnTime(t)'
    <3>1. CASE u = t
      BY <2>3, <3>1, OwnStepOnTime, RenewOnTime
    <3>2. CASE u # t
      <4>1. turn'[t] = turn[t] /\ kernel' = kernel
        BY <2>3, <3>2 DEF RenewalsOnTime, IInv, TypeOK, Claim, TurnStep, Renew, RenewFails, MarkDoneFails, RecordFails,
           TakeSpent, TakeRun, TakeStopped, Takes, CommandAnswers, CommandRefuses, CommandThrows, Settles, MarkDone,
           MarkFailed, AbandonRun, GiveUp, Forgets
      <4>2. \/ Claim(u) \/ Renew(u) \/ MarkFailed(u) \/ MarkDone(u) \/ GiveUp(u) \/ row' = row
        BY <2>3 DEF TurnStep, RenewFails, MarkDoneFails, RecordFails, TakeSpent, TakeRun, TakeStopped,
           CommandAnswers, CommandRefuses, CommandThrows, Settles, AbandonRun
      <4>3. HeldStays(t)
        BY <3>2, <4>2, HeldStaysIn
      <4>4. QED
        BY <4>1, <4>3, OthersOnTime DEF Alive
    <3>3. QED
      BY <3>1, <3>2
  <2>4. ASSUME NEW p \in Proc, Stop(p) \/ Restart(p) PROVE OnTime(t)'
    <3>1. HeldStays(t) /\ turn'[t] = turn[t]
      BY <2>4 DEF Stop, Restart, HeldStays
    <3>2. Alive(t) => Alive(t)'
      BY <2>4, ProcOfAssumption DEF Stop, Restart, Alive, RenewalsOnTime, IInv, TypeOK
    <3>3. QED
      BY <3>1, <3>2, OthersOnTime
  <2>5. ASSUME NEW p \in Proc, Crash(p) PROVE OnTime(t)'
    <3>1. CASE ProcOf[t] = p
      <4>1. turn'[t].at = "loop"
        BY <2>5, <3>1 DEF Crash, Idle
      <4>2. QED
        BY <4>1, QuietOnTime
    <3>2. CASE ProcOf[t] # p
      <4>1. HeldStays(t) /\ turn'[t] = turn[t] /\ (Alive(t) => Alive(t)')
        BY <2>5, <3>2, ProcOfAssumption DEF Crash, HeldStays, Alive, RenewalsOnTime, IInv, TypeOK
      <4>2. QED
        BY <4>1, OthersOnTime
    <3>3. QED
      BY <3>1, <3>2
  <2>6. QED
    BY <2>1, <2>2, <2>3, <2>4, <2>5, TickOnTime DEF Next
<1>3. QED
  BY <1>1, <1>2 DEF RenewalsOnTime

(* With timers on time, once its first renewal is past a command's job is   *)
(* in its turn's hands for as long as it runs and is renewed: no other turn *)
(* is handed it, however many there are and whatever crashes or fails       *)
(* (kernel.ts holdWhileRunning, schedule.ts claim).                         *)
THEOREM RenewedHolds == Spec => []RenewedClaimHolds
<1>1. CASE Punctual
  <2>1. Init => RenewalsOnTime
    BY InitIInv DEF RenewalsOnTime, OnTime, Init, Idle
  <2>2. RenewalsOnTime /\ [Next]_vars => RenewalsOnTime'
    BY <1>1, NextOnTime
  <2>3. RenewalsOnTime => RenewedClaimHolds
    <3>1. ASSUME RenewalsOnTime, NEW t \in Turn, Beats(t), turn[t].ran > Third
          PROVE  Holds(t, turn[t].job) /\ row[turn[t].job].age = turn[t].beat
      <4>1. turn[t].beat <= Third /\ turn[t].beat \in Nat /\ turn[t].ran \in Nat /\ Third \in Nat
        BY <3>1, Bounds DEF RenewalsOnTime, IInv, TypeOK, TurnState
      <4>2. QED
        BY <3>1, <4>1 DEF RenewalsOnTime, OnTime, Beats
    <3>2. QED
      BY <3>1 DEF RenewedClaimHolds
  <2>4. QED
    BY <2>1, <2>2, <2>3, PTL DEF Spec
<1>2. CASE ~Punctual
  <2>1. RenewedClaimHolds
    BY <1>2 DEF RenewedClaimHolds
  <2>2. QED
    BY <2>1, PTL
<1>3. QED
  BY <1>1, <1>2
=============================================================================
