# stack-api-kit in TLA+

stack-api-kit is a kernel for HTTP APIs built from plugins. A plugin declares routes, commands, events, hooks,
pipelines, registries and channels; the kernel validates and orders the declarations, gives each handler a `ctx`, and
takes care of what outlives one request: transactions, events that must be heard, work for later, runs of several steps,
entries pushed to sockets. The database is SQLite (one connection, one process writes at a time) or Postgres (any number
of processes share it).

This directory holds TLA+ modules of both parts (what a boot refuses and puts in order, a request at the door and its
slots, sockets across processes, and everything that outlives a request), TLC configurations that check them on small
instances, and TLAPS proofs. Paths below are relative to `src/src/plugins/`; `#docs` is `src/#docs`.

- [Inventory](#inventory)
- [Modules](#modules)
- [Runs](#runs)
- [Proofs](#proofs)
- [Where code and words part](#where-code-and-words-part)
- [Not modelled](#not-modelled)
- [Plan](#plan)

## Inventory

| part | state | operations | what is hard | what makes it correct |
|---|---|---|---|---|
| later work: `database/internal/schedule.ts`, `due()` of `kernel/internal/kernel.ts` | `kit_schedule` rows (runAt, takenAt, takenBy, attempts); per turn the claimed batch, the job at hand, a renewing timer | save, claim (20 at a time, under a lease), run, renew, markDone, markFailed with a backoff, abandonRun, giveUp; stop, start | turns overlap in one process and across processes; leases lapse; statements fail between the command and its record; crash, stop | one holder per claim; each claim counted once; nothing dropped early; everything settled |
| outbox: `database/internal/outbox.ts`, delivery in `tx` of `kernel/internal/context.ts`, `redeliver()` | `kit_outbox` rows (heard, attempts, retryAt, dead, takenAt, takenBy); deliveries in memory; `markHeard` statements under way | save with the transaction, deliver to each listener, keepHeard, markSent, markRetry, markDead, sweep, renew, retryFailed | delivery at commit races sweeps of other processes; records land late | no event lost; nobody called twice without a takeover; dead letters only after `mostAttempts` |
| durable pipelines: `durableAccess` of `context.ts`, `database/internal/runs.ts` | `kit_pipeline_runs` (status, attempts), `kit_pipeline_steps` (results) | run, retry, ADVANCE (two reads, the step), KEEP, attempted, FAIL, ABANDON | reads outside any transaction; two workers on one run; the job deleted though ABANDON failed | results in order; one job per result; a failure told once; a run ends |
| transactions: `tx` of `context.ts`, `database/internal/store.ts`, `queue.ts`, `sql.ts` | marks with what waits for the commit (`pending`, `jobs`, `pushes`); the store's queue, its savepoints, the async context | tx, emit, push, commands.later, inside each other and through commands | kernel and store tell an inner call by different things; failing COMMIT; overlap | rows, events and jobs together or not at all; told only what was committed |
| tenant registries: `database/internal/registries.ts`, `scopedRegistry` of `context.ts`, `pushChange` of `kernel.ts`, `http/internal/sockets.ts` | entries and a version per scope; change events; frames; clients | set, remove, snapshot, push, follow | concurrent transactions; the event is delivered late, out of order and again, and reads an entry that has moved on | versions without gap; a key only to who may see it; who followed everything shows what a snapshot shows |
| in-memory registries: `kernel/internal/registries.ts` | entries per key, each with who added it; the stops handed out | add, replace, stop, check at start | a stop called after another add, or after a second start | an entry leaves by its own stop, or a later add, or with its kernel |
| pipelines of one call: `kernel/internal/pipelines.ts`; plugin order: `order.ts` | none | resolve before/after into an order; report problems | cycles, unknown anchors, names that sort against dependencies | a plugin after what it names; a step beside its anchor; the same place in whichever order plugins are given |
| validation: `kernel/internal/validate.ts`, `names.ts`, `resolve.ts`, `mount/internal/migrationChecks.ts` | none | accept or refuse what plugins declare | declarations that refer to each other | what boots reaches only what exists and depends on it |
| lifecycle: `start`/`stop` of `kernel.ts`, `mount/internal/start.ts`, `serve/internal/closing.ts`, `watch.ts` | running, timers, plugins set up | start, setups one by one, stop, teardown, start again, close once, watch | stop against its timeout; start failing half way; a handler that hangs | what a plugin names is up whenever it is; work drained before teardown; a stop ends |
| migrations: `database/internal/migrate.ts` | `_migrations`, one lock | read the ledger, apply what is missing in one transaction | processes that start together, with different code; a crash half way | all missing steps in order or none; no step before the one whose table it reads |
| requests and sessions: `http/internal/serve.ts`, `session.ts`, `kernel/internal/request.ts` | requests in flight | admit, identify, limit, read the body, run, answer | a cookie that cannot vouch for its request; a body that grows; a stop meanwhile | a request its cookie cannot vouch for is refused; what runs is counted, and waited for by a stop |
| rate limiter: `guard/internal/limit.ts` | windows per key | spend, refund, sweep | an answer that comes in another window than its request | at most the limit let through, and one more for each late refund |
| streams: `kernel/internal/streams.ts`, `http/internal/events.ts` | slots per caller, open streams | open, send, expire, leave, tell, release | slow readers; several endings at once; stop | one slot per open stream, given back by whichever ending comes |
| sockets and relay: `http/internal/sockets.ts`, `relay.ts`, `serve/internal/listen.ts`, `connection.ts`, `socket.ts` | sockets, their identities and channels, places per caller; each process's mirror of the others' presence | upgrade, open, listen, push, identify again, heartbeat, close | refreshes that answer out of order; identity changes under a push; processes come and go | places counted; a push heard once, as meant; a revoked socket closed; presence converges |
| pub/sub: `database/internal/pgPubSub.ts`, `pgConnections.ts` | hearers, the listening connection, `kit_pushes` | publish, listen, reconnect, sweep | messages during a reconnect | what presence and pushes need of it: see sockets |
| hooks: `kernel/internal/hooks.ts` | participants | call with a timeout | late answers | a participant that never answers stops nothing |
| outbound calls: `outbound/internal/httpClient.ts`, `kernel/internal/redirects.ts`, `privateAddress.ts` | one call | dial, read, refuse, follow redirects | timeout against answer, size limits | bounded time and bytes |
| documents, boot configuration, cookies written, locale, uploads, SQL text | none | pure | - | - |

How they interact. A handler opens `ctx.tx`; inside it, it writes rows, emits events, asks for jobs, starts durable runs
and sets registry entries. The commit keeps all of them (`Transaction`). After it the process delivers the events
(`Outbox`); the kernel's own listener of a registry's event pushes frames (`TenantRegistry`). The beat of `due()` claims
jobs (`Schedule`); the job of a durable run executes one step and, in one transaction, keeps its result with the job of
the next (`DurablePipeline`). Every process over one database does all of this at once. Around it: a process boots
(`Startup`), which refuses declarations that do not stand, migrates, places and sets up plugins; handlers are entered from
requests (`Serving`), which a stop drains before plugins are torn down; and what is pushed reaches the sockets of every
process (`Sockets`).

The hazards, each at its line, are listed in `PROJECT.json` with the properties that would catch them; those with no
property say why.

## Modules

| module | models | state | actions |
|---|---|---|---|
| `Schedule` | `schedule.ts`, `due()`, `holdWhileRunning`, `abandonRun`, the part of `start`/`stop` they see | `row` the table; `turn` the locals of each call of `due()`; `kernel` each process; `tally` history; `mishaps` | one per statement: `Save`, `Claim`, `MarkDone`, `MarkFailed`, `GiveUp`, `AbandonRun`, `Renew`; `Take...` the next job of a batch; `Command...` how a command ends; `...Fails` a statement that throws; `Stop`, `Crash`, `Restart`, `Tick` |
| `JobPromise` | what `store.ts` promises of a job, nothing of leases and turns | `stored`, `claims`, `ended` | `Ask`, `HandOut`, `Answer`, `Refuse`, `Abandon`, `Drop` |
| `DurablePipeline` | `durableAccess` and `runs.ts`, over `INSTANCE JobPromise` | jobs as `JobPromise` has them, `runOf`, `run`, `kept`, `worker`, `mishaps` | `Start`, `Retry`, `Claim`, `Get`, `Results`, `StepAnswers`, `StepThrows`, `Keep`, `Fail`, `AbandonRun`, `GoesBack`, `Drop`; `TxFails`, `AbandonFails`, `Crash` |
| `Outbox` | `outbox.ts`, the delivery of `tx`, `deliverTo` of `events.ts`, `delivery.ts`, `redeliver()` | `row`, `turn` (a delivery), `keeping` (markHeard under way), `up`, `told`/`given` history | `Emit`, `Sweep`, `StartSweep`, `Take`, `Hears`, `Throws`, `MarkHeard`, `MarkSent`, `MarkRetry`, `MarkDead`, `Renew`, `Revive`, `RecordFails`, `Crash`, `Tick` |
| `Transaction` | `tx`, `emit`, `push`, `later` of `context.ts` over the SQLite store | `db`, `points` (BEGIN and savepoints), `line` (the queue), `tx` (each call), `waiting` (the marks), `told` | `Ask`, `Begin`, `Open`, `Writes`, `Announces`, `Answers`, `Throws`, `SaveJobs`, `SaveEvents`, `Close`, `Undo`, `Merge`, `Tell`; `BeginFails`, `StatementFails`, `Crash` |
| `TxPromise` | what `contract.ts` promises of `ctx.tx`, nothing of marks, savepoints and the queue | `within`, `did`, `undone`, `kept`, `stored`, `told` | `Joins`, `Does`, `Undoes`, `Keep`, `Tell` |
| `TenantRegistry` | `registries.ts`, `scopedRegistry`, `pushChange`, `push` of `sockets.ts`, and a client (external) | `entries`, `version`, `lock`, `writer`, `changes`, `pending`, `pushing`, `frames`, `client` | `Set`, `RemoveReads`/`Remove`, `Commit`, `Rollback`, `PushChange`, `PushAgain`, `Send`; `Listen`, `LoadVersion`, `LoadEntries`, `Follow` |
| `FrontDoor` | what `serve.ts` and `session.ts` decide of a request before its handler: forged or not, and which refusal of its body | - | operators |
| `RateLimit` | `limit.ts` | a Map of windows, as a value | operators `Spend`, `Refund`, `Allowed`, `Swept` |
| `Serving` | `handle` and `respond` of `request.ts`, `streams.ts`, `events.ts`, `closeOnce`, `stop` of `kernel.ts`; EXTENDS the two above | `req`, `stream`, `perCaller`, `counts`, `clock`, `phase` | `Arrive`, the steps of `Reads`, `Handles` and `Flows`, `Leave`, `Expire`, `Stop`, `Drained`, `Teardown`, `Exit`, `Tick` |
| `Contract` | `validate.ts`, `order.ts`, `pipelines.ts` `resolve`, `migrationChecks.ts` | - | operators over a record of what an application declares |
| `Registries` | `kernel/internal/registries.ts` | the entries of one registry, as a value | operators `Takes`, `With`, `Stopped` |
| `Startup` | `mount/internal/start.ts`, `migrate.ts`, `start` and `stop` of `kernel.ts`; EXTENDS the two above | `code` of each process, `life`, `log` (the ledger), `tx` (a migrating transaction), `lists`, `stops` | `Boot`, `Lock`, `GivesUp`, `Migrate`, `MigrationFails`, `Commit`, `StartKernel`, `SetUp`, `SetupThrows`, `Set`, `CallStop`, `Stop`, `TearDown`, `Crash` |
| `Hub` | who hears a message, what crosses between processes: `hears`, `push` of `sockets.ts`, `relay.ts` | - | operators |
| `Sockets` | `listen.ts`, `connection.ts`, `socket.ts`, `sockets.ts`, `relay.ts`, `pgPubSub.ts`, the sockets' part of `closeOnce`; EXTENDS `Hub` | `proc`, `listening`, `truth`, `sock`, `perCaller`, `mirror`, `wire`, `pushes`, `heard`, `left` | `Upgrade`, `Open`, `Frame`, `Recheck`, `Identify`, `Refreshed`, `Heartbeat`, `Ending`, `Terminate`, `Vanish`, `Closed`, `Push`, `HearPush`, `HearPresence`, `Lose`, `Drop`, `Reconnect`, `Stop`, `Exit`, `Crash`, `Change` |
| `ScheduleProofs`, `DurablePipelineProofs`, `OutboxProofs`, `TransactionProofs`, `TenantRegistryProofs`, `ServingProofs`, `StartupProofs`, `SocketsProofs` | the theorems about the module each is named after | | |
| `MC...` | the values of one module's constants | | |

**Composition.** `DurablePipeline` is not checked over the tables of `Schedule`: it uses `JobPromise`, which lets a job
be handed out again at any time, to several workers at once, until it is dropped, and which drops a job only for a
reason. That `Schedule` implements `JobPromise` is checked (`KeepsPromise`, the refinement mapping at the end of
`Schedule`) and proved (`Implements`). `TxPromise` is what a caller of `ctx.tx` relies on: a call inside another joins
it, so that its work is kept at one moment with that of the calls around and inside it, or undone with them.
`Transaction` implements it (`JoinsAsPromised`, checked and proved), with one exception that `Transaction_command` is
about: a call on a ctx it was not handed tells too early, so `told` is mapped to what the others told. `Serving`,
`Startup` and `Sockets` each compose their state machine with modules of operators it EXTENDS: the limiter's counts live
in `Serving`, the registries' entries and the whole of validation in `Startup`, who hears what in `Sockets`.

**Grain.** Each SQL statement is atomic, and so is each transaction whose statements nothing else can come between.
What JavaScript does between two awaits is folded into the action that ends in the await. Definitions ending in a word
such as `...Unguarded`, `...Early`, `...Anyway` stand next to the definition they vary; they say what a plausible mistake
there would be, are no part of any `Next`, and are what `PROJECT.json` lists as mutants.

**Abstraction.** Payloads, names, schemas and permissions are left out where nothing depends on them; `requires` in
`TenantRegistry` is the set of clients who hold it; what an entry says is the version that wrote it. Time is kept as the
differences the code compares. `Outbox` has one name per process: a restarted process has a new id, and a row its former
self holds is in no delivery of the new one. `Transaction` has the one connection of the SQLite store: on Postgres a
transaction has a client of its own and inner calls are savepoints on it, told apart the same way. In `Contract` a name
is the number of its plugin, which orders plugins, with a sequence that tells its parts; a migration is what it creates
and reads. In `FrontDoor` a request is the few things that decide about it: how many cookies of the session's name it
carries, whose page sent it, what its body claims to be and how large it proves. Whom `identify` names is an
application's, by the session's cookie or by any header, so `Serving` lets it name anyone. In `Sockets` a refresh's
answer is stored and acted on in one step: the code awaits in between (`connection.ts:172`), where another refresh may
answer, so a frame may be handled as whom that one named. A heartbeat beats in every process at once.

## Runs

Each run takes at most about three minutes with two workers.

| run | instance | shows |
|---|---|---|
| `Schedule_batch` | two processes, one turn each, two jobs claimed as one batch, late timers | a claim has one holder, is counted once, rows change hands only when a lease is over or by their holder, and every step is one `JobPromise` has; `OneHolder` holds `Schedule`'s types |
| `Schedule_live` | one job, two processes, two mishaps (crash, stop or failing statement), timers on time | a renewed command keeps its job, nothing is dropped early, and the job is settled |
| `Outbox` | one event, two listeners, two processes, at most five deliveries, one mishap: a crash, a failing record, a revival or timers a lease late | no event is lost, none is heard again without a takeover, dead letters are earned, and it ends heard or dead |
| `Outbox_forgotten` | one event, two listeners | *violation*: a late record overwrites what was kept as heard |
| `DurablePipeline` | one run of two steps, two workers that may hold one job, two mishaps: a crash, a lapse, a failing transaction, an operator's retry | results in order, jobs do not multiply, a failure is told once, the run ends unless its abandon failed |
| `Transaction_nested` | three calls, queued, nested or through commands, one crash or failing statement | rows, events and jobs together; told what was committed; an inner call joins the one around it, as `TxPromise` says; the queue goes on |
| `Transaction_command` | two calls | *violation*: a command's own transaction tells its events before the outer commit |
| `TenantRegistry_follow` | two keys, two transactions at once, three changes, one pushed twice, a member who sees some entries | versions without gap, frames only to viewers, a follower shows what a snapshot would for entries whose permissions never moved, no frame missing |
| `TenantRegistry_moves` | one key, one writer, three changes | *violation*: an entry taken from a member stays with it |
| `Serving` | two requests of one address, with or without a session, to a public stream and to a guarded, limited form that answers or streams; one slot, one request a window; a stop at any moment | a slot is held just while its stream goes on, slots are counted, and one comes back once its caller left, or where the source waits and its frames are taken; budgets hold; teardown after the last handler; a stop ends |
| `Startup` | two processes over one database, three plugins; the second runs one of nine versions: the same, a step more, an edited step, or a declaration wrong in one way | a plugin is up only with what it names; schema, order and places stand; migrations are whole; entries leave by their own stop; no boot waits for ever |
| `Sockets` | seven deployments: one socket over two processes with a push, a change of its credential or a fault; two sockets of one caller; one socket asked about twice at once | places counted; a push heard once, as meant; only the rightful stay; presence comes right |

**Why the bounds are enough.** Two processes with one turn each are two turns acting on one claim, which is what leases,
takeovers and late records are about; a third actor repeats what the second does, and the proofs hold for
any number. `MostAttempts` is 2, so that the first failure waits and the second gives up; claims go past it
(`MaxClaims` 3 or more, 9 in the live run, so that the bound never stops the job from settling). Lease, third and overrun
are 3, 1 and 2 or 3 ticks: long enough for a renewal, a lapse and an overrun in either order. `Schedule_batch` allows no
mishap: those are in `Schedule_live` on one job, and the proofs cover both together. `Outbox` has one event: rows of
different events share nothing but a sweep's order; five deliveries are two failures, a death, a revival and one more.
`DurablePipeline`'s `Last` is 2, one step with a follower and one without; four jobs are one more than its retry and its
two steps need. `Transaction` with three calls has an inner call in an inner call, two siblings, and a call queued behind
another. `TenantRegistry` needs three changes for a removal that is superseded; its cap of 1 with two keys is both reached
and, by two transactions at once, passed.

`Serving` has one slot and one request a window, so that the second request is always the one over the limit, with a
tick to move a window on; the three shapes are a forged form, an honest one of a caller named by no cookie, and one with
two cookies of the name whose body outgrows what it claimed. One request's source is one that waits (`Waits`), the
other's is not. The two routes are a public stream and the one that exercises every branch of `respond` (either way,
limited, not counting success). `Startup`'s nine versions have one thing wrong each, because `Contract` refuses for one
reason as for two; the process that runs the whole application boots once, adds two entries and starts its kernel twice,
the other boots twice, so that an upgrade follows, precedes and interleaves with an old boot. `Sockets` splits what
would be one large instance: a socket among two processes for what crosses, two of one caller in one process for the
count (`Most` 1), one with two refreshes under way for answers out of order. One process may stop or crash, the other
remains to see it. `Silent` is one heartbeat, so a mirror is dropped as soon as the code may drop it. Both identities of
`MCSockets` share an id, and who hears `team` is meant the first variant: a place given back to another id shows at a
sign-out only, and one variant stands for all. `PlacesCounted` and `HandsOnceAsMeant` hold for any ids and variants.

`CHECK_DEADLOCK FALSE` stands in every configuration, because a system whose bounded work is done does stop.

**Fairness and why the code gives it.** `Schedule` and `Outbox`: `setInterval` starts turns for as long as a process runs;
an await settles; a timer fires; a process that went down is started again (a supervisor's part, `Restart`); time
passes. `DurablePipeline` uses strong fairness of a job being claimed, because a job is handed out again and again until
dropped: that is what `EventuallySettled` of `Schedule` shows. `Transaction`: a callback answers or throws, and the code
around it goes on. None of it holds for a command, listener, step or callback whose promise never settles: `due()` has
renewed such a command until `jobRunMs` and then lets the row be claimed again, and a callback that never settles holds
the SQLite queue for good. `TenantRegistry` states that no frame is missing as an invariant (`NextIsComing`) in place of a
liveness property: with delivery and reading fair, catching up follows.

`Serving`: the timers of a stream's lifetime and of a stop fire, a stop's steps follow each other, a race one of whose
sides has settled is won by one of them, and the body of a caller that left is closed. Strongly fair is only that a
stream in `Waits` is told its ending: such a source has no event there when it is asked for one, so an ending that has
settled wins the next race. For a source whose events are already there (any synchronous iterable) nothing of the kind
is assumed, as it is listed first in the race and wins each. Nothing is assumed of a handler, which may hang (`StopEnds`
holds all the same), nor of a caller, which may leave a frame untaken: `SlotComesBack` has that one condition,
`[]<>~Untaken(r)`. `Startup`: a process waiting for the lock gets it once nobody else holds it any more (weak fairness
is enough, as the others boot a bounded number of times), and goes on with its migrations to their end; a setup may
hang. `Sockets`: timers fire, notices that are not lost arrive, `identify` answers or fails, a closed socket gets its
`onClose`, a dropped listening connection is made again; nothing is assumed of peers. A heartbeat is slower than a
notice: presence told before one is heard, or lost, by the next.

## Proofs

The `...Proofs` modules hold theorems for every value of the constants that satisfies the named assumptions of the
module proved about; the bounds (`MaxClaims`, `MaxMishaps`, `MaxVersion`...) are constants like the others, so nothing
rests on their value. The assumptions say what the code guarantees of its parameters: absent values differ from present
ones, every turn, delivery or socket has a process or a credential, counts and times are naturals and limits at least 1
(`define` and the options refuse others), three thirds of a lease fit into it, a registry has keys, a server routes.
`Startup` adds three: `DeclaresAssumption` (a version is a finite list of plugins, with lists of migrations),
`ListsAssumption` (pipelines and what is added to them are lists of steps) and `HashAssumption` (two migrations of one
plugin, name and hash do the same).

| module | theorem | says |
|---|---|---|
| `ScheduleProofs` | `Invariance`, `TypeCorrect` | `Spec => []IInv`, `Spec => []TypeOK` |
| | `ClaimsCounted`, `HolderUnique` | `Spec => []EveryClaimCountedOnce`, `Spec => []OneHolder` |
| | `NoneDroppedEarly` | `Spec => []NothingDroppedEarly` |
| | `RenewedHolds` | `Spec => []RenewedClaimHolds` |
| | `LeftByHolder` | `Spec => LeftOnlyByHolderOrLapse` |
| | `Implements` | `Spec => KeepsPromise`: `Schedule` implements `JobPromise` |
| `DurablePipelineProofs` | `ResultsOrdered`, `DuplicatesDie`, `ToldOnce` | `Spec => []ResultsInOrder`, `[]OneJobPerResult`, `[]ToldOncePerFailure` |
| `OutboxProofs` | `LosesNothing` | `Spec => []NothingLost` |
| | `HeardOnceUnlessTakenOver` | `Spec => []HeardAgainOnlyAfterTakeover` |
| | `GivenUpAfterMostAttempts` | `Spec => []DeadAfterMostAttempts` |
| `TransactionProofs` | `CommitsWhole`, `TellsWhatIsKept`, `LeavesNoneUntold` | unless `Overlapping`: `Spec => []AllOrNothing`, `[]HandedTellsTruth`, `[]QuietMeansTold` |
| | `JoinsAround` | unless `Overlapping`: `Spec => JoinsAsPromised`: `Transaction` implements `TxPromise` |
| `TenantRegistryProofs` | `Numbers`, `KeepsFromOthers` | `Spec => []VersionsWithoutGap`, `Spec => []OnlyToViewers` |
| | `NeverStranded`, `ShowsAsSnapshot` | `Spec => []NextIsComing`, `Spec => []ShowsUnmoved` |
| `ServingProofs` | `NoneKept` | `Spec => []SlotWhileStreaming` |
| | `SlotsAddUp`, `WithinBudget` | `Spec => []SlotsCounted`, `Spec => []BudgetHolds` |
| | `ClosesInOrder` | `Spec => []TornDownInOrder` |
| `StartupProofs` | `NamedIsUp` | `Spec => []WhatItNamesIsUp` |
| | `TakenWhole`, `OnlyItsOwnStop` | `Spec => MigratesWhole`, `Spec => LeavesByItsOwnStop` |
| | `Applies` | `Spec => []SchemaApplied`, the first half of `SchemaStands` |
| | `StepsInOrder`, `SchemaHolds` | where each booting version has its steps in order: `Spec => []SchemaStands` |
| | `PlacesAlike` | `Spec => []PlacedAlike` |
| `SocketsProofs` | `PlacesCounted`, `HandsOnceAsMeant` | `Spec => []SocketsCounted`, `Spec => []HeardOnceAsMeant` |

In each module the theorems follow from one inductive invariant `IInv` with one lemma per action (`ClaimStep`, `LockIInv`,
...) and lemmas for what several actions share; `NextIInv` puts them together. What the invariants had to add, and why:

**Schedule.** That a job is dropped for a reason depends on where the turn is that drops it, and that a turn's record counts
the right claim depends on claim ids being apart. `IInv == TypeOK /\ RowsFit /\ TurnsFit`: a row not written was never taken
(`Untouched`), one that left had answered or was abandoned while hopeless (`DroppedForReason`); two turns never carry one
claim id (`LeasesApart`), a turn answers for jobs its own claim took, each claimed more often than the turn believes
(`HandedOutTo`), and where it is says how its command ended (`EndingOf`). `Claim` is the heart of it: its id is fresh to all
turns and rows, the jobs taken are counted once more, and those whose lease lapsed carry a lost run on. `LeftByHolder` and
`Implements` are step arguments under `IInv`: each action lets a row go only as `LetGo` says, and maps to one action of
`JobPromise` or to a stutter. `RenewedHolds` needs `OnTime` on top: a running command has yet to reach its first renewal, or
its row was renewed exactly as long ago as its timer says, which three thirds in a lease keep below the lease.

**DurablePipeline.** A job is stored with a run that was begun (`JobFits`); a worker at a step has a job and results of
every step before it (`WorkerFits`), which is what makes its result the next one whoever else works; jobs of a run are
finitely many, so that `OneJobPerResult` can count them (`RunFits`). `KEEP` adds a job only with a result that was not
there, so a duplicate of a step adds neither.

**Outbox.** `WasTold` links every list of who heard (the row's, a turn's, a `markHeard` under way) to who was in fact
called: no list ever names somebody who was not. `NothingLost` is then that a row leaves with a full list. For an event
never handed out while an older delivery still had it (`given.over`), `HeldOnce`: one turn at most holds it, the row
says so, and that turn knows everyone who heard it; between turns the row does. That is lost exactly by a takeover, as
the property says.

**Transaction.** `Live`, while the process is up: the calls under way are a chain, each inside the one before, of which
only the last goes on (`Chained`); what a call did is in the database or waits at a mark to be, or is gone altogether
(`Accounts`); of each savepoint every call is wholly after it (`Fresh`) or wholly before it (`Same`), and a rollback
takes just those above (`PointFits`). `Joined` says which of each pair it is: who is inside whom is told by the sets of
calls that hold the call around each of theirs (`Upward`; `Outside`), what stands, with nobody around it that threw, is
whole and all else is gone (`StandsWhole`), and a rollback takes what is inside its call and nothing else
(`TakesInside`). That is what `JoinsAround` needs: what the database shows is the work of the calls kept
(`StoredIsKept`), and a step of `Transaction` is one step of `TxPromise` (`OpenJoins`, `WorkDoes`, `ThrowUndoes`,
`CloseKeeps`, `TellTells`) or a stutter. The heart is `CloseKeeps`: releasing a savepoint keeps nothing, and a COMMIT
keeps at once the outermost call and every call inside it that still stands. A crash leaves the rows of committed
transactions, for which `AllOrNothing` is what remains. The theorems assume `~Overlapping`, that a callback waits for
the calls it makes: with `Overlapping = TRUE` TLC shows each of them broken (see [below](#where-code-and-words-part)),
so the hypothesis is part of what `ctx.tx` needs. `Commands` may be either.

**TenantRegistry.** The changes of a scope are a log: numbered without a gap (`Numbered`), with entries that are what
the last change of their key left (`Follows`) and audiences that an earlier change gave (`Traced`). `Tells` holds of the
committed log and of the log each transaction would commit, since only the holder of the version row has changes of its
own (`WriterFits`). A frame is true to its change or skips it for a later one (`FramesFit`), and each change a client
has yet to follow is pending, being pushed, or a frame to it (`ClientFits`).

**Serving.** `BudgetHolds` counts requests, the code counts hits in a Map that forgets: `KeyFits` bounds those that got
through in a window by the hits kept plus the refunds that came from an earlier window (`Late`), and `WindowFits` says
no request is counted in a window later than its key's. `SlotsCounted` and `SlotWhileStreaming` need that a slot is open
exactly where a request streams, or is handled and only streams, and that a generator goes on nowhere else
(`StreamFits`); `TornDownInOrder` that nothing is in flight once closing and every open stream was told (`StopFits`).

**Startup.** Most of it is about `order()`. Its loops over plugins are recursive functions in `Contract`, which the
proofs take apart by counting: a function defined by counting up exists and is unique (`GoesOn`, `GatheredSteps`); so
does the walk, by the number of plugins it has not walked into (`Walk...`). Without a loop, no plugin is among those
below it (`NotBelowItself`, from a first one in a well-founded relation), so the walk never stops at an open one and
puts each plugin after what it depends on (`OrderFollows`). `IInv` then says that what is up is a prefix of that order
and that the kernel found nothing wrong (`UpFits`), that at most one process migrates, that it read the ledger as it
still is, and that it has run what this lacked of the steps behind it (`TxFits`). `SchemaHolds` has a hypothesis,
`ReadsAfter({}, Steps[c])` for each version that boots: nothing in the kit orders a plugin's own migrations, and the
database is migrated before loops are refused. `StepsInOrder` gives it for versions without a loop whose plugins each
write their own migrations in order; the versions of `MCStartup` satisfy it. `PlacesAlike` is about the fold `resolve()`
is: each pass over the steps that wait is a function counted up (`RoundOf`), of which every place in the count keeps
what is placed well placed (`WellPut`: each step on its side of its anchor with none of the pipeline's own between, and
so for the tails that later steps go behind) and each step either placed, waiting or still to come (`RoundFits`,
`RoundsFit`); insertion moves nobody to the other side of another (`StaysClear`). That the same comes out whichever way
the plugins were given is `OrderAlike` and `ResolvedAlike`, for any two lists of the same plugins: order and places are
worked out from their set alone, since names and steps are sorted first.

**Sockets.** `PlacesFit` counts sockets by where they are, and `Fits` says that one without a place has nothing to give
back. For `HeardOnceAsMeant`, `WireFits`: a push is on its way to a process at most once, and no socket there was handed
it yet. `HeardFits` keeps what was handed as the identity it was handed as, so later refreshes do not disturb it.

Only model-checked, and not proved:

- Liveness (`EventuallySettled`, `EventuallyHeardOrDead`, `EventuallyEnds`, `EveryCallEnds`, `StopEnds`, `SlotComesBack`,
  `BootEnds`, `OnlyRightfulStay`, `PresenceComesRight`), which needs fairness and ENABLED.
- That `DurablePipeline` handles its jobs as `JobPromise` has it: its actions are built from those of `INSTANCE JobPromise`, but
  `Keep` stores the next job and answers for its own in one transaction, two steps of `JobPromise` at once.
- The three properties that are violated.

## Where code and words part

Each of these has a run whose counterexample shows it (`PROJECT.json`, findings):

1. `Outbox_forgotten`: `markRetry` and `markDead` write the whole `heard` list as this delivery knows it (`outbox.ts:191`),
   over what was kept by another in between (`outbox.ts:75`).
2. `Transaction_command`: a command run inside `ctx.tx` opens its own transaction on a ctx that does not know the outer one,
   and tells its events when the savepoint is released (`context.ts:330`, `contract.ts:379`).
3. `TenantRegistry_moves`: an entry is taken from a member and written again before the first change was pushed; the
   member is told `skip` twice (`kernel.ts:778`, `tenant-registries.md:32`).

Read off the code while modelling, with no run of their own:

- Jobs wait in a claimed batch with nobody renewing them (`kernel.ts:453`): a lease that lapsed does not mean its process
  died, as `schedule.ts:107` has it. Stating `LapsedMeansDied` as an invariant of `Schedule` with two jobs shows it.
- `stop()` in the middle of a batch: each job left in it is refused `NOT_STARTED` by `run` (`kernel.ts:872`) and counted as a
  failure of the job.
- The sweep of `start` acts as if a lease had passed (`kernel.ts:1043`) and takes rows that live processes are delivering.
- `finish` of `runs.ts:126` has no look at the status: a late KEEP of the last step turns a failed run into a done one.
- `abandonRun`'s transaction failing is logged and the job deleted all the same (`kernel.ts:433`): the run stays running
  with no job, where `durable-pipelines.md:29` has it failed. `EventuallyEnds` excepts just these runs (`lost`).
- Attempts are counted on the run, and nothing resets them when a step's result is kept (`context.ts:1024`), where
  `contract.ts:124` speaks of attempts at a step.
- With `Overlapping = TRUE` (a callback that goes on before an inner call ended, as with `Promise.all`) TLC shows
  `AllOrNothing`, `HandedTellsTruth`, `QuietMeansTold` and `JoinsAsPromised` broken on SQLite: savepoints are a stack,
  and a rollback of the outer call lets the inner go on outside any transaction.
- On Postgres the cap of a tenant registry is counted outside the transaction (`context.ts:901`): two sets at once, or two
  in one transaction, go past it.
- `due()` rejects when `markFailed` or `giveUp` does, and the beat drops its promise; `RecordFails` of `Schedule` leaves the
  process running. Where an unhandled rejection ends the process it is a `Crash`.
- The watch's list of failures is capped (`watch.ts:31`), so the count that marks the new ones stops growing and it falls
  silent.
- A setup that throws leaves the plugins before it set up, and a start after a stop declares listeners again
  (`kernel.ts:1026`).
- An application that `validate` refuses has migrated its database by then (`mount/internal/start.ts:88`): in `Startup`,
  `StartKernel` comes after `Commit`.
- A handler that answers either way opens its stream only when it has answered (`request.ts:221`). If a stop told the open
  streams why they end before that, nobody tells this one: `TornDownInOrder` says what it says of the others only.
- A stream lives `streamSeconds` and then ends with EXPIRED (`contract.ts:204`, `answers.md:28`), unless it stands at a frame its
  caller does not take (`streams.ts:239`: a suspended generator sees no ending, and nothing times a write out) or its source
  has the next event there at every race (`streams.ts:201`). It then goes on past its lifetime and holds its slot. Stating
  `ExpiredEnds` as a property of the `Serving` run shows it; `SlotComesBack` says when a slot does come back.
- `ctx.presence.connected` is "per process, like the rate limiter" in `contract.ts:390`; it counts the sockets of every
  process that shares the pub/sub (`context.ts:629`, `relay.ts`, `operations.md:40`). `PresenceComesRight` is about the latter.
- A listening connection is made again when it errors or ends (`pgPubSub.ts:99`). One that dies without either is never
  noticed, and its process hears no more of the others. `Drop` of `Sockets` is a connection that ended.
- A socket's frames are handled as who it is now (`connection.ts:171`), but between two rechecks it is pushed to as whom it
  was: `OnlyRightfulStay` says "eventually", and `HeardOnceAsMeant` speaks of the identity it heard as.

## Not modelled

`PROJECT.json` lists every part with its status. Left out:

- Pure functions of one call over strings, with no state: documents, boot configuration, reading of input and uploads, CORS
  headers, cookies written, locale, the text analysis of SQL, the letters of names.
- Hooks, `run` of a pipeline that is not durable, and `ctx.fetch`: one call each, nothing kept between calls.
- Inside the modelled parts: the replay of an outbox that cannot lease (both stores of the kit can); `counts()` and the
  in-memory list of failed jobs; entries of a tenant registry declared by plugins, and the schema an entry may stop fitting
  (it is then skipped like a superseded one); `write()` outside a transaction; Postgres pools and their limits, and the
  long messages of `kit_pushes`; `watch.ts`, which only logs; in `Contract`, `grantedBy`, which `start()` never passes; in
  `Serving`, how `identify` finds a caller, the header the session cookie's key is handed on in, and keys of a limit other than the
  address and the caller; in `Sockets`, the
  parsing, rate and size of frames.

## Plan

Done, in this order because the rest depends on it: `Schedule`, `JobPromise`; `Outbox`; `DurablePipeline`;
`Transaction`; `TenantRegistry`; `FrontDoor`, `RateLimit` and `Serving`; `Contract`, `Registries` and `Startup`; `Hub`
and `Sockets`; and the theorems about each, which state every invariant and action property of the runs that pass, and
the two refinements.

Next theorems: that a `DurablePipeline` whose `Keep` is taken apart implements `JobPromise`; that `Outbox` implements
what an outbox promises of an event, which is an abstract specification still to be stated. What could still be
modelled: a hook against its timeout, and `ctx.fetch` with its redirects and limits.
