------------------------------ MODULE Startup -------------------------------
(***************************************************************************)
(* Processes that boot over one database, each with its own version of the *)
(* code: what is refused, the migrations under one lock, the kernel that   *)
(* places what plugins add and sets them up one by one, the registries     *)
(* while it runs, teardown, and a start after a stop                       *)
(* (mount/internal/start.ts, database/internal/migrate.ts,                 *)
(* kernel/internal/kernel.ts, registries.ts).                              *)
(***************************************************************************)
EXTENDS Contract, Registries

CONSTANTS
  Proc,
  Code, Declares,   \* versions of the application, and what each declares
  Deployed,    \* what may be deployed: for each process the code it runs
  Entry,       \* the entries plugins add while they run
  MaxBoots, MaxStarts, MaxAdds    \* bounds, of each process

ASSUME StartupAssumption ==
  /\ Deployed \subseteq [Proc -> Code]
  /\ MaxBoots \in [Proc -> Nat] /\ MaxStarts \in Nat \ {0} /\ MaxAdds \in [Proc -> Nat]

\* each version is a list of plugins, numbered, with lists of migrations
ASSUME DeclaresAssumption ==
  \A c \in Code : /\ Names(Declares[c]) \subseteq Nat /\ IsFiniteSet(Names(Declares[c]))
                  /\ \A d \in Defs(Declares[c]) : d.migrations \in Seq(Range(d.migrations))

\* and lists of steps, those added to a pipeline numbered
ASSUME ListsAssumption ==
  \A c \in Code :
    /\ Declares[c] \in [given : Seq(Defs(Declares[c])), database : BOOLEAN, production : BOOLEAN, schedule : BOOLEAN]
    /\ \A d \in Defs(Declares[c]) :
         /\ \A k \in DOMAIN d.pipelines : d.pipelines[k].steps \in Seq(Range(d.pipelines[k].steps))
         /\ \A k \in Pipelines(Declares[c]) :
              k \in DOMAIN d.adds => /\ d.adds[k] \in Seq(Range(d.adds[k]))
                                     /\ \A i \in DOMAIN d.adds[k] : d.adds[k][i].id \in Nat

VARIABLES
  code,   \* what each process runs
  life,   \* of each process: where it is, and `up`, the plugins set up and not torn down
  log,    \* _migrations and what ran with it, in the order it was committed
  tx,     \* each process's migrating transaction: the ledger read, steps left, steps run
  lists,  \* the entries each process holds
  stops   \* what its adds answered and nobody called yet

vars == <<code, life, log, tx, lists, stops>>

At == {"off", "refused", "waiting", "migrating", "migrated", "setting up", "running",
       "tearing down", "stopped", "failed"}

NoTx == [seen |-> {}, left |-> <<>>, ran |-> <<>>]
NoLife == [at |-> "off", boots |-> 0, starts |-> 0, adds |-> 0, up |-> {}]

Registered(c) == UNION {DOMAIN d.registries : d \in Defs(Declares[c])}
Registry(c, r) == Def(Declares[c], r.of).registries[r]

\* what start() and kernel.start() work out once
MayBoot == [c \in Code |-> Boots(Declares[c])]
Steps == [c \in Code |-> Migrations(Declares[c])]
Order == [c \in Code |-> InOrder(Declares[c])]

TypeOK ==
  /\ code \in Deployed
  /\ \A p \in Proc :
       /\ life[p].at \in At /\ life[p].up \subseteq Range(Order[code[p]])
       /\ life[p].boots <= MaxBoots[p] /\ life[p].starts <= MaxStarts /\ life[p].adds <= MaxAdds[p]
       /\ tx[p] # NoTx => life[p].at = "migrating"
       /\ DOMAIN lists[p] \subseteq Registered(code[p])
       /\ \A c \in stops[p] : c.n \in 1..life[p].adds

Init ==
  /\ code \in Deployed
  /\ life = [p \in Proc |-> NoLife]
  /\ log = <<>>
  /\ tx = [p \in Proc |-> NoTx]
  /\ lists = [p \in Proc |-> <<>>]
  /\ stops = [p \in Proc |-> {}]

Goes(p, at) == life' = [life EXCEPT ![p].at = at]

-----------------------------------------------------------------------------
(* start(), up to the kernel: refusals, then every step in one transaction. *)

Boot(p) ==
  /\ life[p].at \in {"off", "refused"} /\ life[p].boots < MaxBoots[p]
  /\ life' = [life EXCEPT ![p].at = IF MayBoot[code[p]] THEN "waiting" ELSE "refused", ![p].boots = @ + 1]
  /\ UNCHANGED <<code, log, tx, lists, stops>>

\* a variant: held by the session, so until the process ends
LockedBySession == \E q \in Proc : life[q].at \notin {"off", "refused", "waiting"}

\* BEGIN IMMEDIATE, or the advisory lock of the transaction
Locked == \E q \in Proc : life[q].at = "migrating"

\* a variant: the ledger as it was before the lock
SeenEarly == {}

Seen == Range(log)

Lock(p) ==
  /\ life[p].at = "waiting" /\ ~Locked
  /\ tx' = [tx EXCEPT ![p] = [seen |-> Seen, left |-> Steps[code[p]], ran |-> <<>>]]
  /\ Goes(p, "migrating")
  /\ UNCHANGED <<code, log, lists, stops>>

\* SQLite, once busyMs have passed
GivesUp(p) ==
  /\ life[p].at = "waiting" /\ Locked
  /\ Goes(p, "refused")
  /\ UNCHANGED <<code, log, tx, lists, stops>>

Same(a, b) == a.plugin = b.plugin /\ a.name = b.name

\* a hash stands for what a step does
ASSUME HashAssumption ==
  \A b, c \in Code : \A s \in Range(Steps[b]), t \in Range(Steps[c]) :
    Same(s, t) /\ s.hash = t.hash => s = t

Known(p, step) == \E s \in tx[p].seen : Same(s, step)

\* a migration is history
Edited(p, step) == \E s \in tx[p].seen : Same(s, step) /\ s.hash # step.hash

KeptOfFailed(p) == <<>>

\* past what has run already, or run and written down
Migrate(p) ==
  /\ life[p].at = "migrating" /\ tx[p].left # <<>>
  /\ LET step == Head(tx[p].left)
     IN /\ ~Edited(p, step)
        /\ tx' = [tx EXCEPT ![p].left = Tail(@), ![p].ran = IF Known(p, step) THEN @ ELSE Append(@, step)]
  /\ UNCHANGED <<code, life, log, lists, stops>>

Ends(p, kept, at) ==
  /\ log' = log \o kept
  /\ tx' = [tx EXCEPT ![p] = NoTx]
  /\ Goes(p, at)
  /\ UNCHANGED <<code, lists, stops>>

\* changed since it ran, or its SQL throws
MigrationFails(p) ==
  /\ life[p].at = "migrating" /\ tx[p].left # <<>>
  /\ Edited(p, Head(tx[p].left)) \/ ~Known(p, Head(tx[p].left))
  /\ Ends(p, KeptOfFailed(p), "refused")

Commit(p) ==
  /\ life[p].at = "migrating" /\ tx[p].left = <<>>
  /\ Ends(p, tx[p].ran, "migrated")

-----------------------------------------------------------------------------
(* kernel.start() and stop(). *)

\* `adds` for registry r, in dependency order
Additions(a, r) ==
  Gather(InOrder(a),
         [n \in Names(a) |->
            LET adds == Def(a, n).adds
            IN IF r \in DOMAIN adds THEN [i \in DOMAIN adds[r] |-> [by |-> n, entry |-> adds[r][i]]] ELSE <<>>])

\* each added entry is checked as any other
Placed(c, r) ==
  FoldLeft(LAMBDA done, a :
             IF Takes(Registry(c, r), r.of, done.held, a.by, a.entry)
             THEN [done EXCEPT !.held = With(@, a.by, a.entry, 0)]
             ELSE [done EXCEPT !.refused = TRUE],
           [held |-> NoEntries, refused |-> FALSE], Additions(Declares[c], r))

\* one entry refused stops the start, as anything else declared wrongly
MayStart ==
  [c \in Code |-> /\ Stands(Declares[c]) /\ PipelinesStand(Declares[c]) /\ KeptStands(Declares[c])
                 /\ \A r \in Registered(c) : ~Placed(c, r).refused]

PlacedFor == [c \in Code |-> IF MayStart[c] THEN [r \in Registered(c) |-> Placed(c, r).held] ELSE <<>>]

\* setups go on until every plugin is up
SettingUp(p, up) == IF up = Range(Order[code[p]]) THEN "running" ELSE "setting up"

\* the entries of an earlier start are let go, then added again
StartKernel(p) ==
  /\ life[p].at \in {"migrated", "stopped"} /\ life[p].starts < MaxStarts
  /\ life' = [life EXCEPT ![p].starts = @ + 1,
                         ![p].at = IF MayStart[code[p]] THEN SettingUp(p, life[p].up) ELSE "failed"]
  /\ lists' = [lists EXCEPT ![p] = IF MayStart[code[p]] THEN PlacedFor[code[p]] ELSE @]
  /\ UNCHANGED <<code, log, tx, stops>>

\* the first that is not up
Awaited(p) ==
  LET order == Order[code[p]]
  IN order[CHOOSE i \in DOMAIN order :
             order[i] \notin life[p].up /\ \A j \in 1..(i - 1) : order[j] \in life[p].up]

\* one setup, awaited before the next; after the last, it runs
SetUp(p) ==
  /\ life[p].at = "setting up"
  /\ LET up == life[p].up \cup {Awaited(p)}
     IN life' = [life EXCEPT ![p].up = up, ![p].at = SettingUp(p, up)]
  /\ UNCHANGED <<code, log, tx, lists, stops>>

\* start() rejects: those set up stay so, and nobody tears them down
SetupThrows(p) ==
  /\ life[p].at = "setting up"
  /\ Goes(p, "failed")
  /\ UNCHANGED <<code, log, tx, lists, stops>>

\* teardowns go on until none is up
TearingDown(up) == IF up = {} THEN "stopped" ELSE "tearing down"

Stop(p) ==
  /\ life[p].at = "running"
  /\ Goes(p, TearingDown(life[p].up))
  /\ UNCHANGED <<code, log, tx, lists, stops>>

\* the last that is up
NextDown(p) ==
  LET order == Order[code[p]]
  IN order[CHOOSE i \in DOMAIN order :
             order[i] \in life[p].up /\ \A j \in DOMAIN order : j > i => order[j] \notin life[p].up]

\* what a teardown throws is logged, and the next one runs
TearDown(p) ==
  /\ life[p].at = "tearing down"
  /\ LET up == life[p].up \ {NextDown(p)}
     IN life' = [life EXCEPT ![p].up = up, ![p].at = TearingDown(up)]
  /\ UNCHANGED <<code, log, tx, lists, stops>>

\* the process dies: what it held in memory goes, its transaction is undone
Crash(p) ==
  /\ life[p].at \notin {"off", "refused"}
  /\ life' = [life EXCEPT ![p] = [NoLife EXCEPT !.boots = life[p].boots]]
  /\ tx' = [tx EXCEPT ![p] = NoTx]
  /\ lists' = [lists EXCEPT ![p] = <<>>]
  /\ stops' = [stops EXCEPT ![p] = {}]
  /\ UNCHANGED <<code, log>>

-----------------------------------------------------------------------------
(* ctx.registry(r).set(entry), by a plugin that is up or being set up. *)

Acting(p) == life[p].up \cup (IF life[p].at = "setting up" THEN {Awaited(p)} ELSE {})

\* its own, or of one it depends on; not kept per scope, not served as declared
Settable(p, n) ==
  {r \in Registered(code[p]) : /\ r.of \in Def(Declares[code[p]], n).needs \cup {n}
                         /\ ~Registry(code[p], r).tenant /\ ~Registry(code[p], r).expose}

Set(p) ==
  /\ life[p].at \in {"setting up", "running", "tearing down"} /\ life[p].adds < MaxAdds[p]
  /\ \E n \in Acting(p), e \in Entry : \E r \in Settable(p, n) :
       /\ Takes(Registry(code[p], r), r.of, lists[p][r], n, e)
       /\ lists' = [lists EXCEPT ![p][r] = With(@, n, e, life[p].adds + 1)]
       /\ stops' = [stops EXCEPT ![p] = @ \cup {[registry |-> r, key |-> e.key, n |-> life[p].adds + 1]}]
  /\ life' = [life EXCEPT ![p].adds = @ + 1]
  /\ UNCHANGED <<code, log, tx>>

\* the stop an add answered, called whenever its plugin likes
CallStop(p) ==
  \E c \in stops[p] :
    /\ lists' = [lists EXCEPT ![p][c.registry] = Stopped(@, c.key, c.n)]
    /\ stops' = [stops EXCEPT ![p] = @ \ {c}]
    /\ UNCHANGED <<code, life, log, tx>>

-----------------------------------------------------------------------------

Next ==
  \E p \in Proc :
    \/ Boot(p) \/ Lock(p) \/ GivesUp(p) \/ Migrate(p) \/ MigrationFails(p) \/ Commit(p)
    \/ StartKernel(p) \/ SetUp(p) \/ SetupThrows(p) \/ Stop(p) \/ TearDown(p)
    \/ Set(p) \/ CallStop(p) \/ Crash(p)

Spec == Init /\ [][Next]_vars

\* a process that is alive goes on booting; nothing is assumed of a setup
FairSpec ==
  Spec /\ \A p \in Proc : /\ WF_vars(Lock(p))
                           /\ WF_vars(Migrate(p) \/ MigrationFails(p) \/ Commit(p))
                           /\ WF_vars(StartKernel(p))

-----------------------------------------------------------------------------
(* What holds. *)

\* the plugins n names: those it depends on, owners of what it adds to and asks for
Reaches(c, n) ==
  LET d == Def(Declares[c], n) IN (d.needs \cup {x.of : x \in Asks(d) \cup DOMAIN d.adds}) \ {n}

(* Whatever a plugin names is set up before it and torn down after it: a      *)
(* setup, a handler or a teardown never reaches a plugin that is not up       *)
(* (validate.ts checkReferences and checkCycles, order.ts, kernel.start's     *)
(* setups and stop's teardowns). Events and hooks need no dependency.         *)
WhatItNamesIsUp == TypeOK /\ \A p \in Proc : \A n \in life[p].up : Reaches(code[p], n) \subseteq life[p].up

(* Once it has migrated a process finds every step of its own code applied as *)
(* it is written there, and from its setups on every table its plugins        *)
(* declare created (migrationChecks.ts, applyMigrations).                     *)
SchemaApplied ==
  \A p \in Proc :
    /\ life[p].at \in {"migrated", "setting up", "running"} => Range(Steps[code[p]]) \subseteq Range(log)
    /\ life[p].at \in {"setting up", "running"} =>
         \A d \in Defs(Declares[code[p]]) : d.tables \subseteq UNION {log[i].creates : i \in DOMAIN log}

(* And no step ever ran before the one that creates a table it reads, in any  *)
(* process (migrationChecks.ts, inOrder, applyMigrations).                    *)
SchemaStands ==
  /\ SchemaApplied
  /\ \A i \in DOMAIN log : log[i].reads \subseteq UNION {log[j].creates : j \in 1..i}

\* the steps of a version that are not in a ledger, in their order
Missing(c, ran) ==
  Gather(Steps[c], [step \in Range(Steps[c]) |-> IF step \in ran THEN <<>> ELSE <<step>>])

(* The database takes all the steps one boot found missing, in their order,   *)
(* or none: two boots at once, a failure and a crash leave no half of them    *)
(* and run none twice (migrateOver, one transaction under one lock).          *)
MigratesWhole == [][log' # log => \E p \in Proc : log' = log \o Missing(code[p], Range(log))]_vars

(* The stop of an add takes out that add and no other: an entry leaves only   *)
(* by its own stop, by a later add under its key, or with its kernel          *)
(* (registries.ts add, the stop it answers).                                  *)
LeavesByItsOwnStop ==
  [][\A p \in Proc : life'[p].starts = life[p].starts =>
       \A r \in DOMAIN lists[p] : \A k \in DOMAIN lists[p][r] :
         k \notin DOMAIN lists'[p][r] => \E c \in stops[p] \ stops'[p] : c.n = lists[p][r][k].n]_vars

(* Steps other plugins add to a pipeline stay beside their anchor: on its     *)
(* side of it, with no step of the pipeline's own between; and the place of   *)
(* every step, like the order of the plugins, is the same whichever way       *)
(* createKernel was given them (pipelines.ts resolve, order.ts).              *)
StaysBeside(a, k, step) ==
  LET steps == Resolved(a, k).placed
      low == PlaceOf(steps, IF step.side = "before" THEN step.id ELSE step.anchor)
      high == PlaceOf(steps, IF step.side = "before" THEN step.anchor ELSE step.id)
  IN low < high /\ \A i \in (low + 1)..(high - 1) : steps[i] \notin Range(Declared(a, k))

PlacedAlike ==
  \A p \in Proc : life[p].at = "setting up" /\ life[p].up = {} =>
    LET a == Declares[code[p]]
        turned == [a EXCEPT !.given = Reverse(@)]
    IN /\ InOrder(turned) = Order[code[p]]
       /\ \A k \in Pipelines(a) : /\ Resolved(turned, k) = Resolved(a, k)
                                 /\ \A step \in StepsAdded(a, k) : StaysBeside(a, k, step)

(* A process waiting to migrate gets to, or gives up: nobody waits for ever   *)
(* behind another's lock (migrateOver; a failure and a crash end the          *)
(* transaction that holds it).                                                *)
BootEnds ==
  \A p \in Proc : life[p].at \in {"waiting", "migrating", "migrated"}
                     ~> life[p].at \notin {"waiting", "migrating", "migrated"}
=============================================================================
