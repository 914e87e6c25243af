------------------------------ MODULE Contract ------------------------------
(***************************************************************************)
(* What plugins declare, and what the kit refuses, orders and places from  *)
(* it before anything runs (kernel/internal/validate.ts, names.ts,         *)
(* order.ts, pipelines.ts, mount/internal/start.ts, migrationChecks.ts).   *)
(*                                                                         *)
(* An application is [given, database, production, schedule]: the plugins  *)
(* in the order createKernel is given them, and the options of start().    *)
(* Plugins and steps are numbered as their names sort. A declared name     *)
(* "owner.a.b" is [of |-> owner, is |-> <<"a", "b">>].                     *)
(***************************************************************************)
EXTENDS Naturals, FiniteSets, SequencesExt

Ascending(S) ==
  CHOOSE s \in [1..Cardinality(S) -> S] : Range(s) = S /\ \A i, j \in DOMAIN s : i < j => s[i] < s[j]

Defs(app) == Range(app.given)
Names(app) == {d.name : d \in Defs(app)}
Def(app, n) == CHOOSE d \in Defs(app) : d.name = n

-----------------------------------------------------------------------------
(* One plugin's own declarations: checkOwn, and what it calls. *)

\* the kit takes these as if the owner declared them (serveRegistries, scheduleDurableSteps)
Changed(r) == [r EXCEPT !.is = Append(@, "changed")]
Step(k) == [k EXCEPT !.is = Append(@, "step")]
Failed(k) == [k EXCEPT !.is = Append(@, "failed")]

Tenant(d) == {r \in DOMAIN d.registries : d.registries[r].tenant}
Durable(d) == {k \in DOMAIN d.pipelines : d.pipelines[k].durable}

\* namespacedName: under its owner's name, with at least one part of its own
Inside(d, x) == x.of = d.name /\ x.is # <<>>

NamedInside(d) ==
  \A x \in d.permissions \cup d.emits \cup d.hooks \cup DOMAIN d.commands
           \cup DOMAIN d.registries \cup DOMAIN d.pipelines \cup DOMAIN d.channels :
    Inside(d, x)

\* registries and pipelines share one namespace: `adds` names either
DeclaresOnce(d) ==
  /\ DOMAIN d.registries \cap DOMAIN d.pipelines = {}
  /\ d.emits \cap ({Changed(r) : r \in Tenant(d)} \cup {Failed(k) : k \in Durable(d)}) = {}
  /\ DOMAIN d.commands \cap {Step(k) : k \in Durable(d)} = {}
  /\ \A i, j \in DOMAIN d.routes : i # j => d.routes[i].shape # d.routes[j].shape

\* what reaches or keeps a scope is declared by a plugin that has one; a scope
\* narrows tables of its own, and some of them when there are any
ScopesItsOwn(d) ==
  /\ Tenant(d) # {} \/ (\E c \in DOMAIN d.channels : d.channels[c] \in {"scope", "identity"}) => d.scope.claims
  /\ d.scope.claims => d.scope.tables \subseteq d.tables /\ (d.tables # {} => d.scope.tables # {})

AnswersOneWay(route) ==
  /\ Cardinality(route.answers) = 1 \/ route.answers = {"output", "streams"}
  /\ route.filters

LimitCounts(route) == route.limited => route.requests >= 1 /\ route.seconds >= 1

\* a signature is checked against the bytes, which only keepsRaw keeps
ReadsNoSecret(route) ==
  "secret" \notin route.reads /\ ("signature" \in route.reads => route.keepsRaw)

\* written out: public, or what it requires, an empty list included
RouteStands(route) ==
  /\ route.written
  /\ AnswersOneWay(route) /\ LimitCounts(route) /\ ReadsNoSecret(route)
  /\ route.public \/ route.guarded
  /\ ~(route.public /\ route.requires # {})
  /\ route.anyOrigin => route.public /\ route.method = "GET"

\* whyUnreachable: a host of allowedHosts is an origin of an encrypted scheme the
\* kit knows; a scheme is "plain", "known" or "other", "none" when none is named
Reachable(d) == \A h \in d.hosts : h.scheme = "known" /\ h.origin

\* a plugin without a schema reads no config; one with a schema parses what it
\* is given, or nothing
Configured(d) == d.schema => d.configFits

OwnStands(d) ==
  /\ NamedInside(d) /\ DeclaresOnce(d) /\ ScopesItsOwn(d)
  /\ \A i \in DOMAIN d.routes : RouteStands(d.routes[i])
  /\ Reachable(d) /\ d.described                     \* its version and its sentence
  /\ Configured(d)

-----------------------------------------------------------------------------
(* Plugins beside each other: names claimed, references, cycles, grants. *)

Shapes(d) == {d.routes[i].shape : i \in DOMAIN d.routes}

NoneTakenTwice(app) ==
  /\ \A i, j \in DOMAIN app.given : i # j => app.given[i].name # app.given[j].name
  /\ \A d, e \in Defs(app) : d # e => Shapes(d) \cap Shapes(e) = {} /\ d.tables \cap e.tables = {}

Permissions(app) == UNION {d.permissions : d \in Defs(app)}
Events(app) ==
  UNION {d.emits \cup {Changed(r) : r \in Tenant(d)} \cup {Failed(k) : k \in Durable(d)} : d \in Defs(app)}
Extendable(app) == UNION {DOMAIN d.registries \cup DOMAIN d.pipelines : d \in Defs(app)}

\* permissions its routes, commands, exposed registries and entries ask for
Asks(d) ==
  UNION {d.routes[i].requires : i \in DOMAIN d.routes}
    \cup UNION {d.commands[c] : c \in DOMAIN d.commands}
    \cup UNION {d.registries[r].exposed : r \in DOMAIN d.registries}
    \cup UNION {UNION {d.adds[x][i].requires : i \in DOMAIN d.adds[x]} : x \in DOMAIN d.adds}

\* a variant: it exists, whoever declares it
ReachesWhatExists(app, d) ==
  /\ d.needs \subseteq Names(app)
  /\ Asks(d) \subseteq Permissions(app) /\ DOMAIN d.adds \subseteq Extendable(app)

\* what is reached belongs to a plugin it depends on; what is heard only exists
ReachesDeclared(app, d) ==
  /\ d.needs \subseteq Names(app)
  /\ Asks(d) \subseteq Permissions(app) /\ DOMAIN d.adds \subseteq Extendable(app)
  /\ \A x \in Asks(d) \cup DOMAIN d.adds : x.of \in d.needs \cup {d.name}

HearsDeclared(app, d) ==
  /\ d.listens \subseteq Events(app) /\ \A x \in d.listens : x.of # d.name
  /\ d.participates \subseteq UNION {e.hooks : e \in Defs(app)}

Needs(app, n) == Def(app, n).needs \cap Names(app)

\* a loop is a set of plugins each of which depends on another of them, or itself
NoCycle(app) ==
  \A S \in SUBSET Names(app) : S # {} => \E n \in S : Needs(app, n) \cap S = {}

\* one plugin identifies and one grants; what routes require, it may grant
GrantsStand(app) ==
  /\ Cardinality({d \in Defs(app) : d.identifies}) <= 1
  /\ Cardinality({d \in Defs(app) : d.grants}) <= 1
  /\ \A g \in {d \in Defs(app) : d.grants} :
       LET supported == IF g.listed THEN g.supported ELSE Permissions(app)
       IN /\ g.listed => supported # {}
          /\ supported # {} =>
               \A d \in Defs(app) : \A i \in DOMAIN d.routes : d.routes[i].requires \subseteq supported

Stands(app) ==
  /\ NoneTakenTwice(app)
  /\ \A d \in Defs(app) : OwnStands(d) /\ ReachesDeclared(app, d) /\ HearsDeclared(app, d)
  /\ NoCycle(app)
  /\ GrantsStand(app)

-----------------------------------------------------------------------------
(* order(): depth first over sorted names, a plugin after its dependencies. *)

Unrepeated(s) ==
  LET done[i \in 0..Len(s)] ==
        IF i = 0 THEN <<>>
        ELSE IF s[i] \in Range(done[i - 1]) THEN done[i - 1] ELSE Append(done[i - 1], s[i])
  IN done

Once(s) == Unrepeated(s)[Len(s)]

\* F of one element of s after the other
Gathered(s, F) ==
  LET done[i \in 0..Len(s)] == IF i = 0 THEN <<>> ELSE done[i - 1] \o F[s[i]]
  IN done

Gather(s, F) == Gathered(s, F)[Len(s)]

\* a variant: sorted, whatever depends on what
InOrderByName(app) == Ascending(Names(app))

\* what each plugin puts in place; `open`: those walked into and not out of
Walk(app) ==
  LET walk[open \in SUBSET Names(app)] ==
        [n \in Names(app) |->
           IF n \in open THEN <<>>
           ELSE Append(Gather(Ascending(Needs(app, n)), walk[open \cup {n}]), n)]
  IN walk

InOrder(app) == Once(Gather(Ascending(Names(app)), Walk(app)[{}]))

-----------------------------------------------------------------------------
(* resolve(): where the steps other plugins add run in a pipeline. *)

\* what plugin d adds to pipeline k
StepsOf(d, k) ==
  IF k \notin DOMAIN d.adds THEN <<>>
  ELSE [i \in DOMAIN d.adds[k] |-> [plugin |-> d.name, id |-> d.adds[k][i].id,
                                    side |-> d.adds[k][i].side, anchor |-> d.adds[k][i].anchor]]

\* a variant: as the plugins were given
AddedAsGiven(app, k) == FoldLeft(LAMBDA steps, d : steps \o StepsOf(d, k), <<>>, app.given)

\* steps by their ids
ById(steps) ==
  LET ids == Ascending({steps[i].id : i \in DOMAIN steps})
  IN [i \in DOMAIN ids |-> CHOOSE step \in Range(steps) : step.id = ids[i]]

\* sorted by plugin and id
Added(app, k) == Gather(Ascending(Names(app)), [n \in Names(app) |-> ById(StepsOf(Def(app, n), k))])

Declared(app, k) == Def(app, k.of).pipelines[k].steps

IdsOnce(app, k) ==
  /\ IsInjective(Declared(app, k))
  /\ \A d \in Defs(app) : \A i \in DOMAIN StepsOf(d, k) :
       /\ StepsOf(d, k)[i].id \notin Range(Declared(app, k))
       /\ \A e \in Defs(app) : \A j \in DOMAIN StepsOf(e, k) :
            StepsOf(d, k)[i].id = StepsOf(e, k)[j].id => d = e /\ i = j

StepsAdded(app, k) == UNION {Range(StepsOf(d, k)) : d \in Defs(app)}
Ids(app, k) == Range(Declared(app, k)) \cup {step.id : step \in StepsAdded(app, k)}

AnchorsExist(app, k) ==
  \A a \in StepsAdded(app, k) : a.side \in {"before", "after"} /\ a.anchor \in Ids(app, k)

\* a step put after an anchor goes after the last one put there
Beside(to, a) == IF a.side = "after" THEN to.tails[a.anchor] ELSE a.anchor

\* the first place of id
PlaceOf(ids, id) == CHOOSE i \in DOMAIN ids : ids[i] = id /\ \A j \in 1..(i - 1) : ids[j] # id

\* one step, put in its place or left for the next round
Put(to, a) ==
  LET at == PlaceOf(to.placed, Beside(to, a))
  IN IF Beside(to, a) \notin Range(to.placed) THEN [to EXCEPT !.left = Append(@, a)]
     ELSE [to EXCEPT !.placed = InsertAt(@, IF a.side = "before" THEN at ELSE at + 1, a.id),
                     !.tails[a.anchor] = IF a.side = "after" THEN a.id ELSE @]

\* one round over what waits
Round(to) ==
  LET done[i \in 0..Len(to.left)] == IF i = 0 THEN [to EXCEPT !.left = <<>>] ELSE Put(done[i - 1], to.left[i])
  IN done

\* rounds go on until nothing waits; what still waits is in an anchor cycle
Rounds(app, k) ==
  LET round[n \in 0..Len(Added(app, k))] ==
        IF n = 0 THEN [placed |-> Declared(app, k), tails |-> [id \in Ids(app, k) |-> id], left |-> Added(app, k)]
        ELSE Round(round[n - 1])[Len(round[n - 1].left)]
  IN round

Resolved(app, k) == Rounds(app, k)[Len(Added(app, k))]

Pipelines(app) == UNION {DOMAIN d.pipelines : d \in Defs(app)}

PipelinesStand(app) ==
  \A k \in Pipelines(app) :
    /\ IdsOnce(app, k) /\ AnchorsExist(app, k)
    /\ Resolved(app, k).left = <<>>

\* entries per scope and durable steps are kept by the database, without which
\* start() hands the kernel no schedule either; a durable step's answer is
\* stored and read back, so it declares its result
KeptStands(app) ==
  \A d \in Defs(app) :
    /\ Tenant(d) # {} => app.database
    /\ \A k \in Durable(d) :
         /\ app.schedule /\ app.database /\ d.pipelines[k].kept
         /\ \A e \in Defs(app) : k \in DOMAIN e.adds => \A i \in DOMAIN e.adds[k] : e.adds[k][i].kept

-----------------------------------------------------------------------------
(* start(): what is refused before the database is touched. *)

\* a migration is [name, hash, creates, reads]; each plugin's run in dependency order
Migrations(app) == Gather(InOrder(app), [n \in Names(app) |-> Def(app, n).migrations])

Creates(d) == UNION {d.migrations[i].creates : i \in DOMAIN d.migrations}
Reads(d) == UNION {d.migrations[i].reads : i \in DOMAIN d.migrations}

\* a variant: a table is taken to be there
MigratedAnyway(app) == TRUE

\* tables declared and in no migration; tables of a plugin not depended on, read
Migrated(app) ==
  /\ UNION {d.tables : d \in Defs(app)} \subseteq UNION {Creates(d) : d \in Defs(app)}
  /\ \A d, e \in Defs(app) : d # e /\ Reads(d) \cap Creates(e) # {} => e.name \in d.needs

Boots(app) ==
  /\ app.database \/ \A d \in Defs(app) : d.tables = {}
  /\ ~app.production \/ \A d \in Defs(app) : ~d.fake
  /\ Migrated(app)
=============================================================================
