--------------------------- MODULE TenantRegistry ---------------------------
(***************************************************************************)
(* One scope of an exposed tenant registry: its entries and their version  *)
(* in the database (database/internal/registries.ts), the transactions     *)
(* that change them (scopedRegistry of kernel/internal/context.ts), the    *)
(* frames each change is pushed as (pushChange of kernel/internal/         *)
(* kernel.ts, push of http/internal/sockets.ts) and the clients that take  *)
(* a snapshot and follow the frames.                                       *)
(*                                                                         *)
(* `requires` is kept as its audience, the clients holding it; what an     *)
(* entry says, as the version that wrote it.  Transactions run side by     *)
(* side, as on a Postgres pool.                                            *)
(***************************************************************************)
EXTENDS Naturals, FiniteSets

CONSTANTS
  Key,            \* keys of entries
  Client,         \* sockets in the scope that may hear the channel
  Audience,       \* the audiences an entry's `requires` may leave it
  Writer, NoWriter, \* transactions under way at once, and none
  Cap,            \* registry.cap: the most entries a scope holds
  MaxVersion,     \* bound: how many changes are made
  MaxRepeats      \* bound: changes pushed again, their event delivered twice

ASSUME NamesAssumption == Key # {} /\ NoWriter \notin Writer
ASSUME AudienceAssumption == Audience \subseteq SUBSET Client
ASSUME CountAssumption == Cap \in Nat \ {0} /\ MaxVersion \in Nat /\ MaxRepeats \in Nat

VARIABLES
  entries,  \* kit_registry_entries, as committed
  version,  \* kit_registry_versions, as committed
  lock,     \* the transaction holding the version row, from its bump on
  writer,   \* each transaction
  changes,  \* the change events committed
  pending,  \* those pushChange has yet to run for
  pushing,  \* those it runs for, with the entry it found under the key
  repeats,  \* changes pushed again so far
  frames,   \* frames on their way to a socket, or waiting there
  client    \* each client

vars == <<entries, version, lock, writer, changes, pending, pushing, repeats, frames, client>>

Version == 0..MaxVersion

(* version 0: no such row; nobody is the audience of what is not there *)
Entry == [version: Version, audience: Audience \cup {{}}]
NoEntry == [version |-> 0, audience |-> {}]

(* `before`: who could see the entry until then, nobody when it was new *)
Change == [op: {"set"}, key: Key, version: Version \ {0}, audience: Audience, before: Audience \cup {{}}]
  \cup [op: {"remove"}, key: Key, version: Version \ {0}, audience: {{}}, before: Audience]

(* A set frame carries an entry, told by the version that wrote it *)
Frame == [to: Client, version: Version \ {0}, op: {"set"}, key: Key, entry: Version \ {0}]
  \cup [to: Client, version: Version \ {0}, op: {"remove", "skip"}, key: Key, entry: {0}]

(* at: "removing" has read what it removes; "open" holds the version row.   *)
(* view and next: the entries and the version its own statements see        *)
WriterState == [at: {"idle", "removing", "open"}, key: Key, before: Audience \cup {{}},
                view: [Key -> Entry], next: Version, done: SUBSET Change]

Push == [change: Change, found: Version]

ClientState == [at: {"off", "listening", "loading", "following"}, version: Version, shows: [Key -> Version]]

AnyKey == CHOOSE k \in Key : TRUE
Idle == [at |-> "idle", key |-> AnyKey, before |-> {}, view |-> [k \in Key |-> NoEntry], next |-> 0, done |-> {}]

Init ==
  /\ entries = [k \in Key |-> NoEntry]
  /\ version = 0 /\ lock = NoWriter
  /\ writer = [w \in Writer |-> Idle]
  /\ changes = {} /\ pending = {} /\ pushing = {} /\ repeats = 0 /\ frames = {}
  /\ client = [c \in Client |-> [at |-> "off", version |-> 0, shows |-> [k \in Key |-> 0]]]

Held(rows) == {k \in Key : rows[k].version > 0}
MayLock(w) == lock \in {w, NoWriter}

(* What a transaction's own statements see: the version row's lock keeps    *)
(* every other change of the scope out                                      *)
View(w) == IF lock = w THEN writer[w].view ELSE entries
Following(w) == (IF lock = w THEN writer[w].next ELSE version) + 1

-----------------------------------------------------------------------------
(* Changes, each inside a transaction *)

Changed(w, change, entry) ==
  /\ lock' = w
  /\ writer' = [writer EXCEPT ![w] = [@ EXCEPT !.at = "open", !.before = {},
                  !.view = [View(w) EXCEPT ![change.key] = entry],
                  !.next = change.version, !.done = writer[w].done \cup {change}]]
  /\ UNCHANGED <<entries, version, changes, pending, pushing, repeats, frames, client>>

(* set(): the cap is looked at outside the transaction, on what is          *)
(* committed; save() bumps the version, which locks its row, and then reads *)
Set(w, k, audience) ==
  /\ writer[w].at \in {"idle", "open"} /\ MayLock(w) /\ Following(w) <= MaxVersion
  /\ k \in Held(entries) \/ Cardinality(Held(entries)) < Cap
  /\ Changed(w, [op |-> "set", key |-> k, version |-> Following(w), audience |-> audience,
                 before |-> View(w)[k].audience],
             [version |-> Following(w), audience |-> audience])

(* remove() reads the entry first: none, and it answers false *)
RemoveReads(w, k) ==
  /\ writer[w].at \in {"idle", "open"} /\ k \in Held(View(w))
  /\ writer' = [writer EXCEPT ![w].at = "removing", ![w].key = k, ![w].before = View(w)[k].audience]
  /\ UNCHANGED <<entries, version, lock, changes, pending, pushing, repeats, frames, client>>

(* What remove() announces: who could see the entry as it was read *)
Removal(w) ==
  [op |-> "remove", key |-> writer[w].key, version |-> Following(w), audience |-> {}, before |-> writer[w].before]

(* ... and bumps the version, waiting for whoever holds it, and deletes *)
Remove(w) ==
  /\ writer[w].at = "removing" /\ MayLock(w) /\ Following(w) <= MaxVersion
  /\ Changed(w, Removal(w), NoEntry)

(* Entries, version and events are committed together *)
Commit(w) ==
  /\ writer[w].at = "open"
  /\ entries' = writer[w].view /\ version' = writer[w].next
  /\ changes' = changes \cup writer[w].done /\ pending' = pending \cup writer[w].done
  /\ lock' = NoWriter /\ writer' = [writer EXCEPT ![w] = Idle]
  /\ UNCHANGED <<pushing, repeats, frames, client>>

(* The version counts on, as a sequence would, whatever becomes of the work *)
RollbackCountsOn(w) ==
  /\ writer[w].at # "idle"
  /\ version' = IF lock = w THEN writer[w].next ELSE version
  /\ lock' = IF lock = w THEN NoWriter ELSE lock
  /\ writer' = [writer EXCEPT ![w] = Idle]
  /\ UNCHANGED <<entries, changes, pending, pushing, repeats, frames, client>>

Rollback(w) ==
  /\ writer[w].at # "idle"
  /\ lock' = IF lock = w THEN NoWriter ELSE lock
  /\ writer' = [writer EXCEPT ![w] = Idle]
  /\ UNCHANGED <<entries, version, changes, pending, pushing, repeats, frames, client>>

-----------------------------------------------------------------------------
(* One change pushed: what each socket hears of it, the first that fits *)

Sends(c, push, op) ==
  [to |-> c, version |-> push.change.version, op |-> op, key |-> push.change.key,
   entry |-> IF op = "set" THEN push.found ELSE 0]

IsSuperseded(push) == push.change.op = "set" /\ push.found # push.change.version

(* The entry found is sent, whichever change wrote it *)
HearsUnchecked(c, push) ==
  Sends(c, push, IF c \in push.change.audience /\ push.found > 0 THEN "set"
                 ELSE IF c \in push.change.before THEN "remove" ELSE "skip")

(* Only entries are told, and what is no longer there is skipped *)
HearsNoRemoval(c, push) ==
  Sends(c, push, IF ~IsSuperseded(push) /\ c \in push.change.audience THEN "set" ELSE "skip")

(* A set changed again before the entry was read is skipped, for the later  *)
(* change to tell                                                           *)
Hears(c, push) ==
  Sends(c, push, IF IsSuperseded(push) THEN "skip"
                 ELSE IF c \in push.change.audience THEN "set"
                 ELSE IF c \in push.change.before THEN "remove" ELSE "skip")

Listening(c) == client[c].at # "off"

(* The event is delivered to the kernel's own listener, in any order; the   *)
(* entry is read for a set (for a removal, what is found is not looked at)  *)
Finds(change) == pushing' = pushing \cup {[change |-> change, found |-> entries[change.key].version]}

PushChange(change) ==
  /\ change \in pending /\ Finds(change)
  /\ pending' = pending \ {change}
  /\ UNCHANGED <<entries, version, lock, writer, changes, repeats, frames, client>>

(* ... and at least once *)
PushAgain(change) ==
  /\ change \in changes \ pending /\ repeats < MaxRepeats /\ Finds(change)
  /\ repeats' = repeats + 1
  /\ UNCHANGED <<entries, version, lock, writer, changes, pending, frames, client>>

(* A client that took a snapshot keeps nothing of a version it has *)
Kept(fs, clients) == {f \in fs : clients[f.to].at \in {"loading", "following"} => f.version > clients[f.to].version}

(* Only those it concerns hear of a change *)
SendNoSkips(push) ==
  /\ frames' = Kept(frames \cup {Hears(c, push) : c \in {d \in Client : Listening(d) /\ Hears(d, push).op # "skip"}}, client)
  /\ pushing' = pushing \ {push}
  /\ UNCHANGED <<entries, version, lock, writer, changes, pending, repeats, client>>

(* Whatever changed while it was read, a frame goes to every socket that    *)
(* listens by now                                                           *)
Send(push) ==
  /\ frames' = Kept(frames \cup {Hears(c, push) : c \in {d \in Client : Listening(d)}}, client)
  /\ pushing' = pushing \ {push}
  /\ UNCHANGED <<entries, version, lock, writer, changes, pending, repeats, client>>

-----------------------------------------------------------------------------
(* A client: it listens, takes a snapshot, and applies the frame after the  *)
(* version it holds                                                         *)

Listen(c) ==
  /\ client[c].at = "off"
  /\ client' = [client EXCEPT ![c].at = "listening"]
  /\ UNCHANGED <<entries, version, lock, writer, changes, pending, pushing, repeats, frames>>

(* snapshot() reads the version first *)
LoadVersion(c) ==
  /\ client[c].at = "listening"
  /\ client' = [client EXCEPT ![c].at = "loading", ![c].version = version]
  /\ frames' = Kept(frames, client')
  /\ UNCHANGED <<entries, version, lock, writer, changes, pending, pushing, repeats>>

Visible(c) == [k \in Key |-> IF c \in entries[k].audience THEN entries[k].version ELSE 0]

(* ... and then the entries, as new or newer *)
LoadEntries(c) ==
  /\ client[c].at = "loading"
  /\ client' = [client EXCEPT ![c].at = "following", ![c].shows = Visible(c)]
  /\ UNCHANGED <<entries, version, lock, writer, changes, pending, pushing, repeats, frames>>

Applied(shows, f) == IF f.op = "skip" THEN shows ELSE [shows EXCEPT ![f.key] = f.entry]

Follow(c, f) ==
  /\ client[c].at = "following" /\ f \in frames /\ f.to = c
  /\ f.version = client[c].version + 1
  /\ client' = [client EXCEPT ![c].version = f.version, ![c].shows = Applied(@, f)]
  /\ frames' = Kept(frames, client')
  /\ UNCHANGED <<entries, version, lock, writer, changes, pending, pushing, repeats>>

-----------------------------------------------------------------------------
Next ==
  \/ \E w \in Writer, k \in Key, audience \in Audience : Set(w, k, audience)
  \/ \E w \in Writer, k \in Key : RemoveReads(w, k)
  \/ \E w \in Writer : Remove(w) \/ Commit(w) \/ Rollback(w)
  \/ \E change \in changes : PushChange(change) \/ PushAgain(change)
  \/ \E push \in pushing : Send(push)
  \/ \E c \in Client : Listen(c) \/ LoadVersion(c) \/ LoadEntries(c)
  \/ \E c \in Client : \E f \in frames : Follow(c, f)

Spec == Init /\ [][Next]_vars

-----------------------------------------------------------------------------
(* Properties *)

(* Every variable has its type. *)
TypeOK ==
  /\ entries \in [Key -> Entry] /\ version \in Version
  /\ lock \in Writer \cup {NoWriter}
  /\ writer \in [Writer -> WriterState]
  /\ changes \subseteq Change /\ pending \subseteq changes
  /\ pushing \subseteq Push /\ repeats \in 0..MaxRepeats
  /\ frames \subseteq Frame
  /\ client \in [Client -> ClientState]

(* Each committed change has a version of its own, and there is no gap a    *)
(* client would wait at, however transactions overlap and roll back         *)
(* (registries.ts bump).                                                    *)
VersionsWithoutGap ==
  /\ TypeOK
  /\ {change.version : change \in changes} = 1..version
  /\ Cardinality(changes) = version

(* A key reaches a socket only if it may see an entry of that key then, or  *)
(* could before; an entry, only if it may see that very entry (pushChange:  *)
(* "a key never reaches a socket that may not see it").                     *)
OnlyToViewers ==
  \A f \in frames :
    /\ f.op # "skip" =>
         \E change \in changes : change.key = f.key /\ change.version <= f.version /\ f.to \in change.audience
    /\ f.op = "set" =>
         \E change \in changes : change.key = f.key /\ change.version = f.entry /\ f.to \in change.audience

IsMoved(k) == \E a, b \in changes : a.key = k /\ b.key = k /\ a.op = "set" /\ b.op = "set" /\ a.audience # b.audience

Current(c) == client[c].at = "following" /\ client[c].version = version

(* A client at the latest version shows, of every key whose permissions     *)
(* never moved, exactly what a snapshot would give it: through frames out   *)
(* of order and repeated, and a snapshot read in two (registries.ts list).  *)
ShowsUnmoved ==
  \A c \in Client, k \in Key : Current(c) /\ ~IsMoved(k) => client[c].shows[k] = Visible(c)[k]

(* The change a client waits for is on its way to it: being delivered, being *)
(* read, or in a frame.  One frame too few and it waits there for ever       *)
(* (pushChange, the skips; sockets.ts push).                                 *)
NextIsComing ==
  \A c \in Client : client[c].at \in {"loading", "following"} /\ client[c].version < version =>
    \/ \E change \in pending : change.version = client[c].version + 1
    \/ \E push \in pushing : push.change.version = client[c].version + 1
    \/ \E f \in frames : f.to = c /\ f.version = client[c].version + 1

(* tenant-registries.md:32 "carries each change to sockets in the scope":   *)
(* a client that followed them all shows what a snapshot would give it.     *)
ShowsWhatItMay == \A c \in Client : Current(c) => client[c].shows = Visible(c)
=============================================================================
