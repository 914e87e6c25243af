----------------------------- MODULE Transaction ----------------------------
(***************************************************************************)
(* ctx.tx: work in one transaction of the SQLite store, and what waits for *)
(* its commit (tx, events.emit, push and commands.later of kernel/         *)
(* internal/context.ts over database/internal/store.ts and queue.ts).      *)
(*                                                                         *)
(* One connection is shared by every call.  The store tells a call inside  *)
(* another by the async context it runs in, and makes it a savepoint; the  *)
(* kernel tells it by the ctx it was called on.  A callback that runs a    *)
(* command of another plugin reaches ctx.tx on a ctx that knows no         *)
(* transaction, so the two may differ.                                     *)
(***************************************************************************)
EXTENDS Naturals, Sequences

CONSTANTS
  Tx, NoTx,       \* calls of ctx.tx, and none of them
  Commands,       \* a callback may run a command, which calls ctx.tx itself
  Overlapping,    \* a callback may go on before an inner call it made ended
  MaxMishaps      \* bound: crashes and statements that fail

ASSUME NamesAssumption == NoTx \notin Tx
ASSUME UseAssumption == Commands \in BOOLEAN /\ Overlapping \in BOOLEAN
ASSUME CountAssumption == MaxMishaps \in Nat

VARIABLES
  db,       \* what the connection reads: rows, outbox rows and jobs
  points,   \* BEGIN and the savepoints on it, each with what it held
  line,     \* the store's queue of outermost calls
  tx,       \* each call
  waiting,  \* what each call's mark holds: wiring.pending, jobs and pushes
  told,     \* events handed to listeners and messages sent to sockets
  up,       \* the process runs
  mishaps   \* crashes and failed statements so far

vars == <<db, points, line, tx, waiting, told, up, mishaps>>

(* What one call's callback may do: write a row, emit an event, ask for a   *)
(* job, push a message.  All but the message are kept in the database.      *)
Kind == {"row", "event", "job", "push"}
Announced == {"event", "job", "push"}
Effect == Tx \X Kind

(* at: "queued" for the connection; "work" its callback runs; "jobs" and    *)
(* "events" are the writes of what it asked for; "close" is COMMIT or       *)
(* RELEASE; "undo" a rollback; "tell" what follows a commit                 *)
(* did: history, what its callback has done                                 *)
Call == [at: {"idle", "queued", "work", "jobs", "events", "close", "undo", "tell", "ended"},
         parent: Tx \cup {NoTx}, handed: BOOLEAN, plain: BOOLEAN, threw: BOOLEAN, did: SUBSET Kind]

NewCall == [at |-> "idle", parent |-> NoTx, handed |-> FALSE, plain |-> TRUE, threw |-> FALSE, did |-> {}]

Init ==
  /\ db = {} /\ points = <<>> /\ line = <<>>
  /\ tx = [t \in Tx |-> NewCall]
  /\ waiting = [t \in Tx |-> {}]
  /\ told = {}
  /\ up = TRUE
  /\ mishaps = 0

(* What a reader on another connection finds, and a crash leaves *)
Committed == IF points = <<>> THEN db ELSE points[1].held

IsRoot(t) == tx[t].parent = NoTx
Under == {"work", "jobs", "events", "close", "undo"}
Children(t) == {u \in Tx : tx[u].parent = t}
Settled(S) == \A u \in S : tx[u].at = "ended"
Awaited(t) == Overlapping \/ Settled(Children(t))
Goes(t, at) == tx' = [tx EXCEPT ![t].at = at]

(* The savepoint of a call, 0 once a RELEASE of one under it dropped it *)
PointOf(t) == IF \E i \in DOMAIN points : points[i].name = t
                THEN CHOOSE i \in DOMAIN points : points[i].name = t ELSE 0
Before(i) == SubSeq(points, 1, i - 1)

-----------------------------------------------------------------------------
(* Opening *)

Ask(t) ==
  /\ up /\ tx[t].at = "idle"
  /\ Goes(t, "queued") /\ line' = Append(line, t)
  /\ UNCHANGED <<db, points, waiting, told, up, mishaps>>

(* The queue goes on only past work that succeeded *)
BeginAfterSuccess(t) ==
  /\ up /\ line # <<>> /\ t = Head(line)
  /\ \A u \in Tx : IsRoot(u) => tx[u].at \notin Under /\ ~tx[u].threw
  /\ line' = Tail(line) /\ Goes(t, "work")
  /\ points' = <<[name |-> t, held |-> db]>>
  /\ UNCHANGED <<db, waiting, told, up, mishaps>>

(* writes.run: once the one before settled, however it did: BEGIN IMMEDIATE *)
Begin(t) ==
  /\ up /\ line # <<>> /\ t = Head(line)
  /\ \A u \in Tx : IsRoot(u) => tx[u].at \notin Under
  /\ line' = Tail(line) /\ Goes(t, "work")
  /\ points' = <<[name |-> t, held |-> db]>>
  /\ UNCHANGED <<db, waiting, told, up, mishaps>>

(* A call from inside p's callback: SAVEPOINT, on the ctx p was handed or,  *)
(* through a command, on one that knows no transaction                      *)
Open(t, p, handed) ==
  /\ up /\ tx[t].at = "idle" /\ tx[p].at = "work"
  /\ handed \/ Commands
  /\ Awaited(p)
  /\ tx' = [tx EXCEPT ![t] = [NewCall EXCEPT !.at = "work", !.parent = p, !.handed = handed,
                                !.plain = handed /\ tx[p].plain]]
  /\ points' = Append(points, [name |-> t, held |-> db])
  /\ UNCHANGED <<db, line, waiting, told, up, mishaps>>

-----------------------------------------------------------------------------
(* The callback *)

(* A statement of its own, on the shared connection *)
Writes(t) ==
  /\ up /\ tx[t].at = "work" /\ Awaited(t) /\ "row" \notin tx[t].did
  /\ tx' = [tx EXCEPT ![t].did = @ \cup {"row"}]
  /\ db' = db \cup {<<t, "row">>}
  /\ UNCHANGED <<points, line, waiting, told, up, mishaps>>

(* events.emit, commands.later and push, none of which waits: all three are *)
(* kept at the call's mark                                                  *)
Announces(t) ==
  /\ up /\ tx[t].at = "work" /\ Awaited(t) /\ "event" \notin tx[t].did
  /\ tx' = [tx EXCEPT ![t].did = @ \cup Announced]
  /\ waiting' = [waiting EXCEPT ![t] = @ \cup ({t} \X Announced)]
  /\ UNCHANGED <<db, points, line, told, up, mishaps>>

(* Every call for itself *)
IsOutermostAlways(t) == TRUE

(* !(nested && outer !== undefined): by the ctx, not by the store *)
IsOutermost(t) == IsRoot(t) \/ ~tx[t].handed

Answers(t) ==
  /\ up /\ tx[t].at = "work" /\ Settled(Children(t))
  /\ Goes(t, IF IsOutermost(t) THEN "jobs" ELSE "close")
  /\ UNCHANGED <<db, points, line, waiting, told, up, mishaps>>

Throws(t) ==
  /\ up /\ tx[t].at = "work" /\ Awaited(t)
  /\ Goes(t, "undo")
  /\ UNCHANGED <<db, points, line, waiting, told, up, mishaps>>

Waiting(t, kind) == {e \in waiting[t] : e[2] = kind}

(* schedule.save, of each job *)
SaveJobs(t) ==
  /\ up /\ tx[t].at = "jobs"
  /\ db' = db \cup Waiting(t, "job") /\ Goes(t, "events")
  /\ UNCHANGED <<points, line, waiting, told, up, mishaps>>

(* outbox.save *)
SaveEvents(t) ==
  /\ up /\ tx[t].at = "events"
  /\ db' = db \cup Waiting(t, "event") /\ Goes(t, "close")
  /\ UNCHANGED <<points, line, waiting, told, up, mishaps>>

-----------------------------------------------------------------------------
(* Its end *)

(* COMMIT, or RELEASE, which drops every savepoint made since; a savepoint  *)
(* dropped already is an error, and the call is rolled back                 *)
Close(t) ==
  /\ up /\ tx[t].at = "close"
  /\ IF PointOf(t) # 0 THEN points' = Before(PointOf(t)) /\ Goes(t, "tell")
     ELSE Goes(t, "undo") /\ UNCHANGED points
  /\ UNCHANGED <<db, line, waiting, told, up, mishaps>>

(* A savepoint released without ROLLBACK TO *)
UndoReleasing(t) ==
  /\ up /\ tx[t].at = "undo"
  /\ IF PointOf(t) # 0
       THEN db' = (IF IsRoot(t) THEN points[PointOf(t)].held ELSE db) /\ points' = Before(PointOf(t))
       ELSE UNCHANGED <<db, points>>
  /\ tx' = [tx EXCEPT ![t].at = "ended", ![t].threw = TRUE]
  /\ waiting' = [waiting EXCEPT ![t] = {}]
  /\ UNCHANGED <<line, told, up, mishaps>>

(* ROLLBACK, or ROLLBACK TO and RELEASE, whose own failure is swallowed;    *)
(* what waited at the mark is forgotten                                     *)
Undo(t) ==
  /\ up /\ tx[t].at = "undo"
  /\ IF PointOf(t) # 0
       THEN db' = points[PointOf(t)].held /\ points' = Before(PointOf(t))
       ELSE UNCHANGED <<db, points>>
  /\ tx' = [tx EXCEPT ![t].at = "ended", ![t].threw = TRUE]
  /\ waiting' = [waiting EXCEPT ![t] = {}]
  /\ UNCHANGED <<line, told, up, mishaps>>

(* An inner call's jobs forgotten *)
MergeWithoutJobs(t) ==
  /\ up /\ tx[t].at = "tell" /\ ~IsOutermost(t)
  /\ waiting' = [waiting EXCEPT ![tx[t].parent] = @ \cup (waiting[t] \ Waiting(t, "job")), ![t] = {}]
  /\ Goes(t, "ended")
  /\ UNCHANGED <<db, points, line, told, up, mishaps>>

(* An inner call hands what waits to the one around it *)
Merge(t) ==
  /\ up /\ tx[t].at = "tell" /\ ~IsOutermost(t)
  /\ waiting' = [waiting EXCEPT ![tx[t].parent] = @ \cup waiting[t], ![t] = {}]
  /\ Goes(t, "ended")
  /\ UNCHANGED <<db, points, line, told, up, mishaps>>

(* Only the call's own events are told, not those of the calls inside it *)
TellOwn(t) ==
  /\ up /\ tx[t].at = "tell" /\ IsOutermost(t)
  /\ told' = told \cup (Waiting(t, "push") \cup {e \in Waiting(t, "event") : e[1] = t})
  /\ waiting' = [waiting EXCEPT ![t] = {}]
  /\ Goes(t, "ended")
  /\ UNCHANGED <<db, points, line, up, mishaps>>

(* The outermost sends its messages and starts to deliver its events *)
Tell(t) ==
  /\ up /\ tx[t].at = "tell" /\ IsOutermost(t)
  /\ told' = told \cup Waiting(t, "push") \cup Waiting(t, "event")
  /\ waiting' = [waiting EXCEPT ![t] = {}]
  /\ Goes(t, "ended")
  /\ UNCHANGED <<db, points, line, up, mishaps>>

-----------------------------------------------------------------------------
(* What goes wrong *)

Mishap == mishaps < MaxMishaps /\ mishaps' = mishaps + 1

(* Another process holds the file's lock past busy_timeout: BEGIN throws *)
BeginFails(t) ==
  /\ up /\ Mishap /\ line # <<>> /\ t = Head(line)
  /\ \A u \in Tx : IsRoot(u) => tx[u].at \notin Under
  /\ line' = Tail(line)
  /\ tx' = [tx EXCEPT ![t].at = "ended", ![t].threw = TRUE]
  /\ UNCHANGED <<db, points, waiting, told, up>>

(* A write, or the COMMIT, throws *)
StatementFails(t) ==
  /\ up /\ Mishap /\ tx[t].at \in {"jobs", "events", "close"}
  /\ Goes(t, "undo")
  /\ UNCHANGED <<db, points, line, waiting, told, up>>

Crash ==
  /\ up /\ Mishap
  /\ up' = FALSE
  /\ db' = Committed /\ points' = <<>> /\ line' = <<>>
  /\ waiting' = [t \in Tx |-> {}]
  /\ UNCHANGED <<tx, told>>

-----------------------------------------------------------------------------
CallStep(t) ==
  \/ Begin(t) \/ Answers(t) \/ Throws(t) \/ SaveJobs(t) \/ SaveEvents(t)
  \/ Close(t) \/ Undo(t) \/ Merge(t) \/ Tell(t)

Next ==
  \/ \E t \in Tx : Ask(t) \/ CallStep(t) \/ BeginFails(t) \/ StatementFails(t)
  \/ \E t, p \in Tx, handed \in BOOLEAN : Open(t, p, handed)
  \/ \E t \in Tx : Writes(t) \/ Announces(t)
  \/ Crash

Spec == Init /\ [][Next]_vars

(* A callback answers or throws, and the code around it goes on *)
FairSpec == Spec /\ \A t \in Tx : WF_vars(CallStep(t))

-----------------------------------------------------------------------------
(* Properties *)

(* Every variable has its type. *)
TypeOK ==
  /\ db \subseteq Effect /\ told \subseteq Effect
  /\ \A i \in DOMAIN points : points[i].name \in Tx /\ points[i].held \subseteq Effect
  /\ \A i \in DOMAIN line : line[i] \in Tx
  /\ tx \in [Tx -> Call]
  /\ waiting \in [Tx -> SUBSET Effect]
  /\ up \in BOOLEAN /\ mishaps \in 0..MaxMishaps

KeptOf(t) == {kind \in Kind : <<t, kind>> \in Committed}

(* A call's rows, events and jobs are committed together or not at all,     *)
(* through calls inside it, commands, failing statements and a crash; one   *)
(* that threw leaves nothing, though the call around it commits and those   *)
(* inside it answered (context.ts: "a job exists exactly when the work that *)
(* asked for it"; contract.ts tx: "rolled back if it throws").              *)
AllOrNothing ==
  /\ TypeOK
  /\ \A t \in Tx : KeptOf(t) \in {{}, tx[t].did \ {"push"}}
  /\ \A t \in Tx : tx[t].threw => KeptOf(t) = {} /\ \A u \in Children(t) : KeptOf(u) = {}

IsTrue(e) == tx[e[1]].did \ {"push"} = KeptOf(e[1])

(* What a call on the ctx it was handed told is committed, to the last row  *)
(* (context.ts: "committed: a client hearing it now reads ...").            *)
HandedTellsTruth == \A e \in told : tx[e[1]].plain => IsTrue(e)

(* With nothing under way, every committed event was told: no event of an   *)
(* inner call is lost on its way out (pending of context.ts).               *)
QuietMeansTold ==
  up /\ (\A t \in Tx : tx[t].at \in {"idle", "ended"}) =>
    \A e \in Committed : e[2] = "event" => e \in told

(* A call waiting for the connection gets it and ends, whatever those       *)
(* before it did (queue.ts, "last.then(work, work)").                       *)
EveryCallEnds == \A t \in Tx : tx[t].at = "queued" ~> tx[t].at = "ended" \/ ~up

(* The calls that were closed, and those around them too *)
ClosedTo(C) ==
  \A u \in C : /\ tx[u].at \in {"tell", "ended"} /\ ~tx[u].threw
               /\ tx[u].parent \in C \cup {NoTx}

KeptCalls == UNION {C \in SUBSET Tx : ClosedTo(C)}

(* A call inside another joins it: what TxPromise allows is all that ever   *)
(* happens to what a call did, save that a call on a ctx it was not handed  *)
(* tells too early (contract.ts, "joins this one rather than opening a      *)
(* second").                                                                *)
Promise == INSTANCE TxPromise WITH
  within <- [t \in Tx |-> tx[t].parent], did <- [t \in Tx |-> tx[t].did],
  undone <- {t \in Tx : tx[t].threw}, kept <- KeptCalls, stored <- Committed,
  told <- {e \in told : tx[e[1]].plain}

JoinsAsPromised == Promise!Spec

(* contract.ts:379 "inside a transaction it waits for the commit, because   *)
(* an event about rolled-back work is a lie": told by any call, on any ctx. *)
NeverALie == \A e \in told : IsTrue(e)
=============================================================================
