------------------------------- MODULE Outbox -------------------------------
(***************************************************************************)
(* Events kept until heard: the kit_outbox table of database/internal/     *)
(* outbox.ts, the delivery a committed transaction starts (ctx.tx of       *)
(* kernel/internal/context.ts) and the sweep that hands out again what was *)
(* refused or left behind (redeliver of kernel/internal/kernel.ts), in any *)
(* number of processes sharing the table.                                  *)
(*                                                                         *)
(* A row is held by a process, not by a delivery: "takenBy" is an id the   *)
(* process made at its start.  A restarted process has a new id; a row its *)
(* former self holds is in no delivery of the new one, so one name per     *)
(* process stands for both.                                                *)
(*                                                                         *)
(* Time is kept as what is left: `wait` until retryAt, `lease` until       *)
(* takenAt + leaseMs.                                                      *)
(***************************************************************************)
EXTENDS Naturals, FiniteSets

CONSTANTS
  Event,          \* events plugins may emit
  NoEvent,        \* no event is being delivered
  Listener,       \* plugins listening to them: a plugin hears an event once
  Proc,           \* processes over one database
  Nobody,         \* NULL in "takenBy"
  Turn,           \* deliveries under way at once: of a commit or of a sweep
  ProcOf,         \* the process each turn runs in
  Limit,          \* rows one sweep takes: 20 in redeliver()
  MostAttempts,   \* options.mostAttempts: 8 when left out
  LeaseMs,        \* how long a row is held without a renewal
  Third,          \* how often a row is renewed while it is delivered
  RetryMs,        \* retryDelayMs, by failed deliveries so far
  MaxDeliveries,  \* bound: how often one event is handed out
  MaxMishaps      \* bound: crashes, failing statements and revivals

ASSUME NamesAssumption == NoEvent \notin Event /\ Nobody \notin Proc
ASSUME ProcOfAssumption == ProcOf \in [Turn -> Proc]
ASSUME CountAssumption ==
  /\ MostAttempts \in Nat \ {0} /\ Limit \in Nat \ {0}
  /\ MaxDeliveries \in Nat /\ MaxMishaps \in Nat
ASSUME TimeAssumption ==
  /\ LeaseMs \in Nat /\ Third \in Nat \ {0} /\ 3 * Third <= LeaseMs
  /\ RetryMs \in [1..MostAttempts -> 0..LeaseMs]

VARIABLES
  row,      \* the kit_outbox table, one record per event
  turn,     \* what each delivery holds in memory
  keeping,  \* markHeard statements on their way to the table
  up,       \* the processes that run
  told,     \* history: how often each listener heard each event
  given,    \* history: how each event was handed out
  mishaps   \* crashes, failed statements and revivals so far

vars == <<row, turn, keeping, up, told, given, mishaps>>

Row == [stored: {"unsaved", "kept", "gone"}, heard: SUBSET Listener, attempts: Nat,
        wait: 0..LeaseMs, lease: 0..(2 * LeaseMs), takenBy: Proc \cup {Nobody}, dead: BOOLEAN]

(* at: "loop" between rows, idle with an empty batch; "delivering" its     *)
(* listeners run; then what is left is to record the outcome.  `commit`    *)
(* tells the delivery of a committed transaction from a sweep's.           *)
TurnState ==
  [at: {"loop", "delivering"}, batch: SUBSET Event, event: Event \cup {NoEvent},
   seen: [Event -> [heard: SUBSET Listener, attempts: Nat]],
   heard: SUBSET Listener, failed: SUBSET Listener, commit: BOOLEAN, beat: 0..Third]

(* times: handed out; over: from a claim that had not ended; failed:       *)
(* deliveries some listener threw in                                       *)
Given == [times: Nat, over: BOOLEAN, failed: Nat]

NewRow == [stored |-> "unsaved", heard |-> {}, attempts |-> 0, wait |-> 0, lease |-> 0,
           takenBy |-> Nobody, dead |-> FALSE]

Unseen == [e \in Event |-> [heard |-> {}, attempts |-> 0]]

Idle == [at |-> "loop", batch |-> {}, event |-> NoEvent, seen |-> Unseen,
         heard |-> {}, failed |-> {}, commit |-> FALSE, beat |-> 0]

Init ==
  /\ row = [e \in Event |-> NewRow]
  /\ turn = [t \in Turn |-> Idle]
  /\ keeping = {}
  /\ up = Proc
  /\ told = [e \in Event |-> [l \in Listener |-> 0]]
  /\ given = [e \in Event |-> [times |-> 0, over |-> FALSE, failed |-> 0]]
  /\ mishaps = 0

Me(t) == ProcOf[t]
Alive(t) == Me(t) \in up
IsIdle(t) == turn[t].at = "loop" /\ turn[t].batch = {}
Mishap == mishaps < MaxMishaps /\ mishaps' = mishaps + 1

(* The listeners a delivery still has to call, and those yet to settle *)
Before(t) == turn[t].seen[turn[t].event].heard
Pending(t) == Listener \ (Before(t) \cup turn[t].heard \cup turn[t].failed)

-----------------------------------------------------------------------------
(* A commit *)

(* save(): the row is held by its process, its lease running since the      *)
(* write, which came `spent` before the commit that makes it visible        *)
Saved(t, spent) ==
  [NewRow EXCEPT !.stored = "kept", !.takenBy = Me(t), !.lease = LeaseMs - spent, !.wait = LeaseMs - spent]

(* The commit at once starts the delivery *)
Emit(t, e, spent) ==
  /\ Alive(t) /\ IsIdle(t) /\ row[e].stored = "unsaved"
  /\ row' = [row EXCEPT ![e] = Saved(t, spent)]
  /\ turn' = [turn EXCEPT ![t] = [Idle EXCEPT !.at = "delivering", !.event = e, !.commit = TRUE]]
  /\ given' = [given EXCEPT ![e].times = 1]
  /\ UNCHANGED <<keeping, up, told, mishaps>>

-----------------------------------------------------------------------------
(* A sweep *)

(* Variant: a row left held by a process that died is never due *)
ClaimableUnheld(e, ahead) ==
  row[e].stored = "kept" /\ ~row[e].dead /\ row[e].wait <= ahead /\ row[e].takenBy = Nobody

(* A row nobody gave up, due by `ahead` from now and not held then *)
Claimable(e, ahead) ==
  /\ row[e].stored = "kept" /\ ~row[e].dead
  /\ row[e].wait <= ahead
  /\ row[e].takenBy = Nobody \/ row[e].lease <= ahead

(* The claim of a sweep that calls itself `ahead` of now: 0 on a beat      *)
Claim(t, ahead) ==
  /\ IsIdle(t)
  /\ \E S \in SUBSET {e \in Event : Claimable(e, ahead)} :
       /\ S # {}
       /\ Cardinality(S) = Limit \/ (Cardinality(S) < Limit /\ \A e \in Event : Claimable(e, ahead) => e \in S)
       /\ \A e \in S : given[e].times < MaxDeliveries
       /\ row' = [e \in Event |-> IF e \notin S THEN row[e] ELSE
                    [row[e] EXCEPT !.takenBy = Me(t), !.lease = LeaseMs + ahead]]
       /\ turn' = [turn EXCEPT ![t] = [Idle EXCEPT !.batch = S,
                    !.seen = [e \in Event |-> IF e \notin S THEN Unseen[e] ELSE
                               [heard |-> row[e].heard, attempts |-> row[e].attempts]]]]
       /\ given' = [e \in Event |-> IF e \notin S THEN given[e] ELSE
                     [given[e] EXCEPT !.times = @ + 1, !.over = @ \/ row[e].takenBy # Nobody]]
  /\ UNCHANGED <<keeping, told>>

Sweep(t) == Alive(t) /\ Claim(t, 0) /\ UNCHANGED <<up, mishaps>>

(* start(): what a process before left is due now, as if a lease had passed *)
StartSweep(t) ==
  /\ Me(t) \notin up
  /\ up' = up \cup {Me(t)}
  /\ IF \E e \in Event : Claimable(e, LeaseMs) /\ given[e].times < MaxDeliveries THEN Claim(t, LeaseMs)
     ELSE UNCHANGED <<row, turn, keeping, told, given>>
  /\ UNCHANGED mishaps

(* The next row of the batch *)
Take(t, e) ==
  /\ Alive(t) /\ turn[t].at = "loop" /\ e \in turn[t].batch
  /\ turn' = [turn EXCEPT ![t].at = "delivering", ![t].event = e, ![t].batch = @ \ {e},
                ![t].heard = {}, ![t].failed = {}, ![t].beat = 0]
  /\ UNCHANGED <<row, keeping, up, told, given, mishaps>>

-----------------------------------------------------------------------------
(* A delivery *)

(* One listener answered: keepHeard sends that to the table *)
Hears(t, l) ==
  /\ Alive(t) /\ turn[t].at = "delivering" /\ l \in Pending(t)
  /\ turn' = [turn EXCEPT ![t].heard = @ \cup {l}]
  /\ keeping' = keeping \cup {<<Me(t), turn[t].event, l>>}
  /\ told' = [told EXCEPT ![turn[t].event][l] = @ + 1]
  /\ UNCHANGED <<row, up, given, mishaps>>

Throws(t, l) ==
  /\ Alive(t) /\ turn[t].at = "delivering" /\ l \in Pending(t)
  /\ turn' = [turn EXCEPT ![t].failed = @ \cup {l}]
  /\ UNCHANGED <<row, keeping, up, told, given, mishaps>>

(* UPDATE ... WHERE "id" = ? AND "takenBy" = the process: it may land late *)
MarkHeard(m) ==
  /\ m \in keeping
  /\ keeping' = keeping \ {m}
  /\ row' = IF row[m[2]].takenBy = m[1] THEN [row EXCEPT ![m[2]].heard = @ \cup {m[3]}] ELSE row
  /\ UNCHANGED <<turn, up, told, given, mishaps>>

(* Every listener settled *)
Settled(t) == Alive(t) /\ turn[t].at = "delivering" /\ Pending(t) = {}

(* The turn goes on to the rest of its batch *)
Forgets(t) == turn' = [turn EXCEPT ![t] =
  IF @.batch = {} THEN Idle
  ELSE [@ EXCEPT !.at = "loop", !.event = NoEvent, !.heard = {}, !.failed = {}, !.beat = 0,
                 !.seen[turn[t].event] = Unseen[turn[t].event]]]

(* Variant: sent once every listener settled, one that threw included *)
MarkSentAnyway(t) ==
  /\ Settled(t)
  /\ row' = [row EXCEPT ![turn[t].event] = [NewRow EXCEPT !.stored = "gone"]]
  /\ Forgets(t)
  /\ UNCHANGED <<keeping, up, told, given, mishaps>>

MarkSent(t) ==
  /\ Settled(t) /\ turn[t].failed = {}
  /\ row' = [row EXCEPT ![turn[t].event] = [NewRow EXCEPT !.stored = "gone"]]
  /\ Forgets(t)
  /\ UNCHANGED <<keeping, up, told, given, mishaps>>

(* A commit's delivery counts as the first, whatever happened since *)
Attempts(t) == IF turn[t].commit THEN 1 ELSE turn[t].seen[turn[t].event].attempts + 1

(* WHERE "id" = ? AND ("takenBy" IS NULL OR "takenBy" = the process) *)
Writable(t) == row[turn[t].event].stored = "kept" /\ row[turn[t].event].takenBy \in {Nobody, Me(t)}

(* Variant: keeps who heard this delivery, not who heard before it *)
RecordsLast(t, changed) ==
  row' = IF Writable(t)
           THEN [row EXCEPT ![turn[t].event] =
                  [changed EXCEPT !.heard = turn[t].heard, !.attempts = Attempts(t),
                                  !.takenBy = Nobody, !.lease = 0]]
           ELSE row

(* What both markRetry and markDead write, whole *)
Records(t, changed) ==
  row' = IF Writable(t)
           THEN [row EXCEPT ![turn[t].event] =
                  [changed EXCEPT !.heard = Before(t) \cup turn[t].heard,
                                  !.attempts = Attempts(t), !.takenBy = Nobody, !.lease = 0]]
           ELSE row

Failed(t) == given' = [given EXCEPT ![turn[t].event].failed = @ + 1]

MarkRetry(t) ==
  /\ Settled(t) /\ turn[t].failed # {}
  /\ turn[t].commit \/ Attempts(t) < MostAttempts
  /\ Records(t, [row[turn[t].event] EXCEPT !.wait = RetryMs[Attempts(t)]])
  /\ Failed(t) /\ Forgets(t)
  /\ UNCHANGED <<keeping, up, told, mishaps>>

(* Variant: given up one delivery early *)
MarkDeadEarly(t) ==
  /\ Settled(t) /\ turn[t].failed # {}
  /\ ~turn[t].commit /\ Attempts(t) + 1 >= MostAttempts
  /\ Records(t, [row[turn[t].event] EXCEPT !.dead = TRUE])
  /\ Failed(t) /\ Forgets(t)
  /\ UNCHANGED <<keeping, up, told, mishaps>>

MarkDead(t) ==
  /\ Settled(t) /\ turn[t].failed # {}
  /\ ~turn[t].commit /\ Attempts(t) >= MostAttempts
  /\ Records(t, [row[turn[t].event] EXCEPT !.dead = TRUE])
  /\ Failed(t) /\ Forgets(t)
  /\ UNCHANGED <<keeping, up, told, mishaps>>

(* holdWhileDelivering's timer: it renews while the process holds the row, *)
(* and goes on when it no longer does                                      *)
Renew(t) ==
  /\ Alive(t) /\ turn[t].at = "delivering" /\ turn[t].beat = Third
  /\ row' = IF row[turn[t].event].takenBy = Me(t) THEN [row EXCEPT ![turn[t].event].lease = LeaseMs] ELSE row
  /\ turn' = [turn EXCEPT ![t].beat = 0]
  /\ UNCHANGED <<keeping, up, told, given, mishaps>>

-----------------------------------------------------------------------------
(* What happens around it *)

(* revive(): a dead letter is due at once, its count begun again *)
Revived(e) == [row[e] EXCEPT !.dead = FALSE, !.attempts = 0, !.wait = 0]

(* An operator puts it back: ctx.work.retryFailed *)
Revive(e) ==
  /\ Mishap /\ row[e].stored = "kept" /\ row[e].dead
  /\ row' = [row EXCEPT ![e] = Revived(e)]
  /\ UNCHANGED <<turn, keeping, up, told, given>>

(* The recording statement fails: logged, and the row stays as it is *)
RecordFails(t) ==
  /\ Mishap /\ Settled(t)
  /\ Forgets(t)
  /\ UNCHANGED <<row, keeping, up, told, given>>

Crash(p) ==
  /\ Mishap /\ p \in up
  /\ up' = up \ {p}
  /\ turn' = [t \in Turn |-> IF Me(t) = p THEN Idle ELSE turn[t]]
  /\ keeping' = {m \in keeping : m[1] # p}
  /\ UNCHANGED <<row, told, given>>

MayWait(t) ==
  \/ IsIdle(t)
  \/ turn[t].at = "delivering" /\ Pending(t) # {} /\ turn[t].beat < Third

InTime == keeping = {} /\ \A t \in Turn : Alive(t) => MayWait(t)

(* Timers fire late, or a statement takes its time: a lease's worth passes *)
Stall ==
  /\ Mishap /\ ~InTime
  /\ row' = [e \in Event |-> [row[e] EXCEPT !.wait = 0, !.lease = 0]]
  /\ UNCHANGED <<turn, keeping, up, told, given>>

Less(n) == IF n > 0 THEN n - 1 ELSE 0

Tick ==
  /\ InTime
  /\ row' = [e \in Event |-> [row[e] EXCEPT !.wait = Less(@), !.lease = Less(@)]]
  /\ turn' = [t \in Turn |-> IF turn[t].at # "delivering" THEN turn[t] ELSE
               [turn[t] EXCEPT !.beat = IF @ < Third THEN @ + 1 ELSE @]]
  /\ <<row, turn>>' # <<row, turn>>
  /\ UNCHANGED <<keeping, up, told, given, mishaps>>

-----------------------------------------------------------------------------
Record(t) == MarkSent(t) \/ MarkRetry(t) \/ MarkDead(t)

TurnStep(t) ==
  \/ \E e \in Event : Take(t, e)
  \/ \E l \in Listener : Hears(t, l) \/ Throws(t, l)
  \/ Record(t)

Next ==
  \/ \E t \in Turn, e \in Event, spent \in {0, LeaseMs} : Emit(t, e, spent)
  \/ \E t \in Turn : Sweep(t) \/ StartSweep(t) \/ TurnStep(t) \/ Renew(t) \/ RecordFails(t)
  \/ \E m \in keeping : MarkHeard(m)
  \/ \E e \in Event : Revive(e)
  \/ \E p \in Proc : Crash(p)
  \/ Tick \/ Stall

Spec == Init /\ [][Next]_vars

(* Sweeps beat, deliveries go on, a process that went down starts again,   *)
(* time passes.  Listeners settle: see the README on one that never does.  *)
Fairness ==
  /\ \A t \in Turn : WF_vars(Sweep(t)) /\ WF_vars(TurnStep(t)) /\ WF_vars(Renew(t)) /\ WF_vars(StartSweep(t))
  /\ WF_vars(Tick)
  /\ WF_vars(\E m \in keeping : MarkHeard(m))

FairSpec == Spec /\ Fairness

-----------------------------------------------------------------------------
(* Properties *)

(* Every variable has its type. *)
TypeOK ==
  /\ row \in [Event -> Row]
  /\ turn \in [Turn -> TurnState]
  /\ keeping \subseteq (Proc \X Event \X Listener)
  /\ up \subseteq Proc
  /\ told \in [Event -> [Listener -> Nat]]
  /\ given \in [Event -> Given]
  /\ mishaps \in 0..MaxMishaps

(* A committed event leaves the table only once every listener heard it,    *)
(* whatever processes, stale deliveries and failing statements do           *)
(* (outbox.ts markSent: "a row wrongly taken as sent is an event lost").    *)
NothingLost ==
  /\ TypeOK
  /\ \A e \in Event : row[e].stored = "gone" => \A l \in Listener : told[e][l] > 0

(* A listener hears an event again only if the event was handed out while   *)
(* another claim on it had not ended: a refusal, a retry and an operator's  *)
(* revival alone call nobody twice (store.ts Outbox, redeliver).            *)
HeardAgainOnlyAfterTakeover ==
  \A e \in Event, l \in Listener : told[e][l] > 1 => given[e].over

(* A dead letter was refused in at least MostAttempts deliveries (redeliver) *)
DeadAfterMostAttempts ==
  \A e \in Event : row[e].dead => given[e].failed >= MostAttempts

(* A committed event is eventually heard by all, or waits as a dead letter  *)
(* (start's sweep, redeliver, outboxBeatMs).                                *)
EventuallyHeardOrDead ==
  \A e \in Event : row[e].stored = "kept" ~> (row[e].stored = "gone" \/ row[e].dead)

(* outbox.ts:75 "so two deliveries never overwrite each other": a listener  *)
(* a row keeps as having heard it stays kept while the row does.            *)
HeardNeverForgotten ==
  [][\A e \in Event : row'[e].stored = "kept" => row[e].heard \subseteq row'[e].heard]_vars
=============================================================================
