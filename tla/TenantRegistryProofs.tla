------------------------ MODULE TenantRegistryProofs ------------------------
(* What TenantRegistry says of any number of keys, clients, transactions   *)
(* and changes, proved.                                                    *)
EXTENDS TenantRegistry, FiniteSetTheorems, TLAPS

(* The changes a transaction builds on, its own included, and how many *)
Log(w) == changes \cup writer[w].done
Count(w) == IF lock = w THEN writer[w].next ELSE version

(* Changes are counted from 1, each with a version of its own *)
Numbered(log, n) ==
  /\ IsFiniteSet(log) /\ Cardinality(log) = n
  /\ {change.version : change \in log} = 1..n
  /\ \A a, b \in log : a.version = b.version => a = b

IsLast(change, log) == \A d \in log : d.key = change.key => d.version <= change.version

(* An entry is what a change set, and what the last change of its key left *)
Follows(rows, log) ==
  \A k \in Key :
    /\ rows[k].version = 0 => rows[k].audience = {}
    /\ rows[k].version > 0 =>
         \E d \in log : /\ d.op = "set" /\ d.key = k
                        /\ d.version = rows[k].version /\ d.audience = rows[k].audience
    /\ \A d \in log : d.key = k /\ IsLast(d, log) =>
         /\ rows[k].version = IF d.op = "set" THEN d.version ELSE 0
         /\ rows[k].audience = d.audience

(* An audience that could see the entry before was given it by a change *)
GaveBefore(log, key, before) == \E d \in log : d.op = "set" /\ d.key = key /\ d.audience = before

Traced(log) ==
  \A change \in log : change.op = "remove" \/ change.before # {} =>
    \E d \in log : /\ d.op = "set" /\ d.key = change.key
                   /\ d.audience = change.before /\ d.version < change.version

Tells(log, n, rows) == Numbered(log, n) /\ Follows(rows, log) /\ Traced(log)

(* Only the holder of the version row has changes of its own *)
WriterFits(w) ==
  /\ writer[w].at = "open" => lock = w
  /\ lock # w => writer[w].done = {}
  /\ lock = w => /\ writer[w].next >= version /\ \A d \in writer[w].done : d.version > version
                 /\ \A k \in Key : (\E d \in writer[w].done : d.key = k) \/ writer[w].view[k] = entries[k]
  /\ writer[w].at = "removing" =>
       writer[w].before \in Audience /\ GaveBefore(Log(w), writer[w].key, writer[w].before)

LogsFit ==
  /\ Tells(changes, version, entries)
  /\ \A w \in Writer : WriterFits(w) /\ Tells(Log(w), Count(w), View(w))

(* A later change of the same key was committed *)
Outdone(change) == \E d \in changes : d.key = change.key /\ d.version > change.version

PushesFit == \A push \in pushing : push.change \in changes /\ (IsSuperseded(push) => Outdone(push.change))

(* A frame is true to its change, or skips it for a later one *)
IsTrue(f, change) ==
  /\ change.key = f.key /\ change.version = f.version
  /\ f.op = "set" => change.op = "set" /\ f.entry = change.version /\ f.to \in change.audience
  /\ f.op = "remove" => f.to \in change.before \ change.audience
  /\ f.op = "skip" => f.to \notin change.before \cup change.audience \/ Outdone(change)

FramesFit == \A f \in frames : \E change \in changes : IsTrue(f, change)

(* A change a client has yet to follow is on its way to it *)
IsComing(c, change) ==
  \/ change \in pending
  \/ \E push \in pushing : push.change = change
  \/ \E f \in frames : f.to = c /\ f.version = change.version

Took(c) == client[c].at \in {"loading", "following"}
Followed(c, k) == \A change \in changes : change.key = k => change.version <= client[c].version

ClientFits(c) ==
  /\ Took(c) => client[c].version <= version
  /\ Took(c) => \A change \in changes : change.version > client[c].version => IsComing(c, change)
  /\ \A k \in Key : client[c].shows[k] > 0 =>
       \E change \in changes : change.op = "set" /\ change.key = k /\ c \in change.audience
  /\ client[c].at = "following" =>
       \A k \in Key : ~IsMoved(k) /\ Followed(c, k) => client[c].shows[k] = Visible(c)[k]

IInv == TypeOK /\ LogsFit /\ PushesFit /\ FramesFit /\ \A c \in Client : ClientFits(c)

-----------------------------------------------------------------------------
(* Types *)

(* The bounds are naturals, and there is a key to be idle with (the cap of  *)
(* scopedRegistry).                                                         *)
LEMMA Bounds == MaxVersion \in Nat /\ MaxRepeats \in Nat /\ AnyKey \in Key /\ 0 \in Version
  BY NamesAssumption, CountAssumption DEF AnyKey, Version

(* A transaction with nothing under way is one (registries.ts). *)
LEMMA IdleType == Idle \in WriterState /\ NoEntry \in Entry
  BY Bounds DEF Idle, NoEntry, WriterState, Entry

(* A change made keeps the transactions well typed (registries.ts save). *)
LEMMA ChangedType ==
  ASSUME TypeOK, NEW w \in Writer, NEW change \in Change, NEW entry \in Entry, Changed(w, change, entry)
  PROVE  TypeOK'
<1>1. writer[w] \in WriterState /\ View(w) \in [Key -> Entry]
  BY DEF TypeOK, View, WriterState
<1>2. change.key \in Key /\ change.version \in Version
  BY DEF Change
<1> DEFINE view == [View(w) EXCEPT ![change.key] = entry]
<1>3. view \in [Key -> Entry]
  BY <1>1
<1> HIDE DEF view
<1> DEFINE next == [writer[w] EXCEPT !.at = "open", !.before = {}, !.view = view,
                      !.next = change.version, !.done = writer[w].done \cup {change}]
<1>4. next \in WriterState
  BY <1>1, <1>2, <1>3 DEF WriterState
<1>5. writer' = [writer EXCEPT ![w] = next]
  BY DEF Changed, view
<1> HIDE DEF next
<1> QED
  BY <1>4, <1>5 DEF Changed, TypeOK

(* The change a set makes is one (registries.ts set). *)
LEMMA SetMakes ==
  ASSUME TypeOK, NEW w \in Writer, NEW k \in Key, NEW audience \in Audience, Set(w, k, audience)
  PROVE  /\ [op |-> "set", key |-> k, version |-> Following(w), audience |-> audience,
             before |-> View(w)[k].audience] \in Change
         /\ [version |-> Following(w), audience |-> audience] \in Entry
         /\ Following(w) = Count(w) + 1 /\ Count(w) \in Nat
<1>1. writer[w] \in WriterState /\ View(w) \in [Key -> Entry] /\ version \in Version
  BY DEF TypeOK, View, WriterState
<1>2. Following(w) = Count(w) + 1 /\ Count(w) \in Nat
  BY <1>1, Bounds DEF Following, Count, WriterState, Version
<1>3. Following(w) \in Version \ {0}
  BY <1>2, Bounds DEF Set, Version
<1>4. View(w)[k].audience \in Audience \cup {{}}
  BY <1>1 DEF Entry
<1> QED
  BY <1>2, <1>3, <1>4 DEF Change, Entry

(* The change a removal makes is one (registries.ts remove). *)
LEMMA RemoveMakes ==
  ASSUME TypeOK, NEW w \in Writer, WriterFits(w), Remove(w)
  PROVE  /\ Removal(w) \in Change /\ NoEntry \in Entry
         /\ Following(w) = Count(w) + 1 /\ Count(w) \in Nat
<1>1. writer[w] \in WriterState /\ version \in Version
  BY DEF TypeOK
<1>2. Following(w) = Count(w) + 1 /\ Count(w) \in Nat
  BY <1>1, Bounds DEF Following, Count, WriterState, Version
<1>3. Following(w) \in Version \ {0}
  BY <1>2, Bounds DEF Remove, Version
<1>4. writer[w].key \in Key /\ writer[w].before \in Audience
  BY <1>1 DEF WriterState, WriterFits, Remove
<1> QED
  BY <1>2, <1>3, <1>4, IdleType DEF Removal, Change

(* A frame is one, whatever a push tells (sockets.ts push). *)
LEMMA HearsType ==
  ASSUME TypeOK, NEW c \in Client, NEW push \in pushing
  PROVE  Hears(c, push) \in Frame /\ Hears(c, push).to = c
<1>1. push.change \in Change /\ push.found \in Version
  BY DEF TypeOK, Push
<1>2. push.change.version \in Version \ {0} /\ push.change.key \in Key
  BY <1>1 DEF Change
<1>3. ASSUME ~IsSuperseded(push), c \in push.change.audience PROVE push.found = push.change.version
  BY <1>1, <1>3 DEF IsSuperseded, Change
<1> QED
  BY <1>1, <1>2, <1>3 DEF Hears, Sends, Frame

-----------------------------------------------------------------------------
(* Logs *)

(* A change after the last keeps the count without a gap (registries.ts     *)
(* bump).                                                                   *)
LEMMA NumberedMore ==
  ASSUME NEW log, NEW n \in Nat, Numbered(log, n), NEW change, change.version = n + 1
  PROVE  Numbered(log \cup {change}, n + 1)
<1>1. \A d \in log : d.version \in 1..n
  BY DEF Numbered
<1>2. change \notin log
  BY <1>1
<1>3. IsFiniteSet(log \cup {change}) /\ Cardinality(log \cup {change}) = n + 1
  BY <1>2, FS_AddElement DEF Numbered
<1>4. {d.version : d \in log \cup {change}} = 1..(n + 1)
  <2>1. {d.version : d \in log \cup {change}} = (1..n) \cup {n + 1}
    BY DEF Numbered
  <2> QED
    BY <2>1
<1>5. \A a, b \in log \cup {change} : a.version = b.version => a = b
  BY <1>1 DEF Numbered
<1> QED
  BY <1>3, <1>4, <1>5 DEF Numbered

(* What a change writes is what it says (registries.ts save, remove). *)
Writes(change, entry) ==
  /\ entry.version = IF change.op = "set" THEN change.version ELSE 0
  /\ entry.audience = change.audience

(* The change of a key after the last leaves in the entry what it wrote     *)
(* (registries.ts save and remove).                                         *)
LEMMA FollowsMore ==
  ASSUME NEW log \in SUBSET Change, NEW n \in Nat, NEW rows \in [Key -> Entry], Numbered(log, n), Follows(rows, log),
         NEW change \in Change, change.version = n + 1, NEW entry \in Entry, Writes(change, entry)
  PROVE  Follows([rows EXCEPT ![change.key] = entry], log \cup {change})
<1> DEFINE more == [rows EXCEPT ![change.key] = entry]
<1>1. change.key \in Key /\ more[change.key] = entry /\ \A k \in Key : k # change.key => more[k] = rows[k]
  BY DEF Change
<1>2. \A d \in log : d.version \in 1..n /\ d.version < change.version
  BY DEF Numbered
<1> HIDE DEF more
<1> SUFFICES ASSUME NEW k \in Key
             PROVE  /\ more[k].version = 0 => more[k].audience = {}
                    /\ more[k].version > 0 =>
                         \E d \in log \cup {change} : /\ d.op = "set" /\ d.key = k
                                                     /\ d.version = more[k].version /\ d.audience = more[k].audience
                    /\ \A d \in log \cup {change} : d.key = k /\ IsLast(d, log \cup {change}) =>
                         /\ more[k].version = IF d.op = "set" THEN d.version ELSE 0
                         /\ more[k].audience = d.audience
  BY DEF Follows, more
<1>3. CASE k # change.key
  <2>1. more[k] = rows[k]
    BY <1>1, <1>3
  <2>2. \A d \in log \cup {change} : d.key = k /\ IsLast(d, log \cup {change}) => d \in log /\ IsLast(d, log)
    BY <1>3 DEF IsLast
  <2>3. /\ rows[k].version = 0 => rows[k].audience = {}
        /\ rows[k].version > 0 =>
             \E d \in log : /\ d.op = "set" /\ d.key = k
                            /\ d.version = rows[k].version /\ d.audience = rows[k].audience
        /\ \A d \in log : d.key = k /\ IsLast(d, log) =>
             /\ rows[k].version = IF d.op = "set" THEN d.version ELSE 0
             /\ rows[k].audience = d.audience
    BY DEF Follows
  <2> QED
    BY <2>1, <2>2, <2>3
<1>4. CASE k = change.key
  <2>1. more[k].version = 0 => more[k].audience = {}
    BY <1>1, <1>4 DEF Writes, Change
  <2>2. more[k].version > 0 => change.op = "set" /\ change.version = more[k].version /\ change.audience = more[k].audience
    BY <1>1, <1>4 DEF Writes
  <2>3. \A d \in log \cup {change} : d.key = k /\ IsLast(d, log \cup {change}) => d = change
    BY <1>2, <1>4 DEF IsLast
  <2> QED
    BY <1>1, <1>4, <2>1, <2>2, <2>3 DEF Writes
<1> QED
  BY <1>3, <1>4

(* A change whose earlier audience another one gave keeps every change      *)
(* traced (context.ts scopedRegistry, before).                              *)
LEMMA TracedMore ==
  ASSUME NEW log \in SUBSET Change, NEW n \in Nat, Numbered(log, n), Traced(log), NEW change \in Change,
         change.version = n + 1,
         change.op = "remove" \/ change.before # {} => GaveBefore(log, change.key, change.before)
  PROVE  Traced(log \cup {change})
<1>1. \A d \in log : d.version \in 1..n /\ d.version < change.version
  BY DEF Numbered
<1>2. \A d \in log : d.op = "remove" \/ d.before # {} =>
        \E e \in log : e.op = "set" /\ e.key = d.key /\ e.audience = d.before /\ e.version < d.version
  BY DEF Traced
<1>3. change.op = "remove" \/ change.before # {} =>
        \E e \in log : e.op = "set" /\ e.key = change.key /\ e.audience = change.before /\ e.version < change.version
  BY <1>1 DEF GaveBefore
<1> QED
  BY <1>2, <1>3 DEF Traced

(* A change made adds to what its transaction tells (registries.ts). *)
LEMMA TellsMore ==
  ASSUME NEW log \in SUBSET Change, NEW n \in Nat, NEW rows \in [Key -> Entry], Tells(log, n, rows),
         NEW change \in Change, change.version = n + 1, NEW entry \in Entry, Writes(change, entry),
         change.op = "remove" \/ change.before # {} => GaveBefore(log, change.key, change.before)
  PROVE  Tells(log \cup {change}, n + 1, [rows EXCEPT ![change.key] = entry])
  BY NumberedMore, FollowsMore, TracedMore DEF Tells

-----------------------------------------------------------------------------
(* Changes: what each step of a transaction leaves of the invariant *)

(* Nothing but the transactions and the lock moved *)
Unpushed == UNCHANGED <<entries, version, changes, pending, pushing, repeats, frames, client>>

(* What was pushed, sent and shown stands while transactions are under way  *)
(* (kernel.ts pushChange hears of what is committed).                       *)
LEMMA StillPushed ==
  ASSUME IInv, Unpushed
  PROVE  PushesFit' /\ FramesFit' /\ \A c \in Client : ClientFits(c)'
<1>1. PushesFit'
  BY DEF IInv, Unpushed, PushesFit, IsSuperseded, Outdone
<1>2. FramesFit'
  BY DEF IInv, Unpushed, FramesFit, IsTrue, Outdone
<1>3. ASSUME NEW c \in Client PROVE ClientFits(c)'
  BY DEF IInv, Unpushed, ClientFits, Took, IsComing, IsMoved, Followed, Visible
<1> QED
  BY <1>1, <1>2, <1>3

(* A transaction nobody touched keeps what it tells while what is committed *)
(* stands (registries.ts: one holder of the version row).                   *)
LEMMA OtherWriters ==
  ASSUME IInv, Unpushed, NEW u \in Writer, writer'[u] = writer[u], (lock' = u) <=> (lock = u)
  PROVE  WriterFits(u)' /\ Tells(Log(u)', Count(u)', View(u)')
<1>1. WriterFits(u) /\ Tells(Log(u), Count(u), View(u))
  BY DEF IInv, LogsFit
<1>2. Log(u)' = Log(u) /\ Count(u)' = Count(u) /\ View(u)' = View(u)
  BY DEF Unpushed, Log, Count, View
<1>3. WriterFits(u)'
  BY <1>1, <1>2 DEF WriterFits, Unpushed
<1> QED
  BY <1>1, <1>2, <1>3

(* One more change by the holder of the version row (registries.ts save and *)
(* remove after bump).                                                      *)
LEMMA ChangedStep ==
  ASSUME IInv, NEW w \in Writer, NEW change \in Change, NEW entry \in Entry, Changed(w, change, entry), MayLock(w),
         Count(w) \in Nat, change.version = Count(w) + 1, Writes(change, entry),
         change.op = "remove" \/ change.before # {} => GaveBefore(Log(w), change.key, change.before)
  PROVE  IInv'
<1>1. TypeOK'
  BY ChangedType DEF IInv
<1>2. Unpushed
  BY DEF Changed, Unpushed
<1>3. WriterFits(w) /\ Tells(Log(w), Count(w), View(w)) /\ Tells(changes, version, entries)
  BY DEF IInv, LogsFit
<1>4. Log(w) \in SUBSET Change /\ View(w) \in [Key -> Entry] /\ change.key \in Key /\ writer[w] \in WriterState
  BY DEF IInv, TypeOK, Log, View, WriterState, Change
<1>5. /\ writer'[w].at = "open" /\ writer'[w].view = [View(w) EXCEPT ![change.key] = entry]
      /\ writer'[w].next = change.version /\ writer'[w].done = writer[w].done \cup {change}
      /\ \A u \in Writer : u # w => writer'[u] = writer[u]
      /\ lock' = w
  BY <1>4 DEF Changed, IInv, TypeOK, WriterState
<1>6. Log(w)' = Log(w) \cup {change} /\ Count(w)' = Count(w) + 1 /\ View(w)' = [View(w) EXCEPT ![change.key] = entry]
  BY <1>2, <1>5 DEF Unpushed, Log, Count, View
<1>7. Tells(Log(w)', Count(w)', View(w)')
  <2>1. Tells(Log(w), Count(w), View(w))
    BY <1>3
  <2>2. Tells(Log(w) \cup {change}, Count(w) + 1, [View(w) EXCEPT ![change.key] = entry])
    BY <1>4, <2>1, TellsMore
  <2> QED
    BY <1>6, <2>2
<1>8. WriterFits(w)'
  <2>1. Count(w) >= version
    BY <1>3 DEF Count, WriterFits, IInv, TypeOK, Version
  <2>2. \A k \in Key : k = change.key \/ (\E d \in writer[w].done : d.key = k) \/ View(w)[k] = entries[k]
    BY <1>3 DEF View, WriterFits
  <2>3. \A k \in Key : (\E d \in writer'[w].done : d.key = k) \/ writer'[w].view[k] = entries[k]
    BY <1>4, <1>5, <2>2
  <2>4. \A d \in writer'[w].done : d.version > version
    BY <1>3, <1>5, <2>1 DEF WriterFits, IInv, TypeOK, Version
  <2> QED
    BY <1>2, <1>5, <2>1, <2>3, <2>4 DEF WriterFits, Unpushed, IInv, TypeOK, Version
<1>9. ASSUME NEW u \in Writer, u # w PROVE WriterFits(u)' /\ Tells(Log(u)', Count(u)', View(u)')
  BY <1>2, <1>5, <1>9, OtherWriters, NamesAssumption DEF MayLock
<1>10. LogsFit'
  BY <1>2, <1>3, <1>7, <1>8, <1>9 DEF LogsFit, Unpushed
<1> QED
  BY <1>1, <1>2, <1>10, StillPushed DEF IInv

(* A set keeps the invariant: who could see the entry was told by a change  *)
(* of it (scopedRegistry, set).                                             *)
LEMMA SetStep ==
  ASSUME IInv, NEW w \in Writer, NEW k \in Key, NEW audience \in Audience, Set(w, k, audience)
  PROVE  IInv'
<1> DEFINE change == [op |-> "set", key |-> k, version |-> Following(w), audience |-> audience,
                      before |-> View(w)[k].audience]
           entry == [version |-> Following(w), audience |-> audience]
<1>1. change \in Change /\ entry \in Entry /\ change.version = Count(w) + 1 /\ Count(w) \in Nat
  BY SetMakes DEF IInv
<1>2. Writes(change, entry)
  BY DEF Writes
<1>3. change.before # {} => GaveBefore(Log(w), change.key, change.before)
  <2>1. Follows(View(w), Log(w)) /\ View(w)[k].version \in Nat
    BY Bounds DEF IInv, LogsFit, Tells, TypeOK, View, WriterState, Entry, Version
  <2> QED
    BY <2>1 DEF Follows, GaveBefore
<1>4. Changed(w, change, entry) /\ MayLock(w) /\ change.op = "set"
  BY DEF Set
<1> HIDE DEF change, entry
<1> QED
  BY <1>1, <1>2, <1>3, <1>4, ChangedStep

(* A removal keeps the invariant, however old what it read is               *)
(* (scopedRegistry, remove).                                                *)
LEMMA RemoveStep == ASSUME IInv, NEW w \in Writer, Remove(w) PROVE IInv'
<1>1. WriterFits(w)
  BY DEF IInv, LogsFit
<1>2. /\ Removal(w) \in Change /\ NoEntry \in Entry /\ Removal(w).version = Count(w) + 1
      /\ Count(w) \in Nat
  BY <1>1, RemoveMakes DEF IInv, Removal
<1>3. Writes(Removal(w), NoEntry)
  BY DEF Writes, Removal, NoEntry
<1>4. GaveBefore(Log(w), Removal(w).key, Removal(w).before)
  BY <1>1 DEF WriterFits, Remove, Removal
<1>5. Changed(w, Removal(w), NoEntry) /\ MayLock(w)
  BY DEF Remove
<1> QED
  BY <1>2, <1>3, <1>4, <1>5, ChangedStep

(* Reading what is to be removed keeps the invariant: a change gave the     *)
(* audience it reads (scopedRegistry, remove).                              *)
LEMMA RemoveReadsStep == ASSUME IInv, NEW w \in Writer, NEW k \in Key, RemoveReads(w, k) PROVE IInv'
<1>1. writer[w] \in WriterState /\ View(w) \in [Key -> Entry] /\ Log(w) \subseteq Change
  BY DEF IInv, TypeOK, View, WriterState, Log
<1>2. Unpushed /\ lock' = lock
  BY DEF RemoveReads, Unpushed
<1>3. /\ writer'[w].at = "removing" /\ writer'[w].key = k /\ writer'[w].before = View(w)[k].audience
      /\ writer'[w].view = writer[w].view /\ writer'[w].next = writer[w].next /\ writer'[w].done = writer[w].done
      /\ \A u \in Writer : u # w => writer'[u] = writer[u]
  BY DEF RemoveReads, IInv, TypeOK, WriterState
<1>4. WriterFits(w) /\ Tells(Log(w), Count(w), View(w)) /\ Tells(changes, version, entries)
  BY DEF IInv, LogsFit
<1>5. Log(w)' = Log(w) /\ Count(w)' = Count(w) /\ View(w)' = View(w)
  BY <1>2, <1>3 DEF Unpushed, Log, Count, View
<1>6. View(w)[k].audience \in Audience /\ GaveBefore(Log(w), k, View(w)[k].audience)
  <2>1. PICK d \in Log(w) : d.op = "set" /\ d.key = k /\ d.audience = View(w)[k].audience
    BY <1>4 DEF RemoveReads, Held, Tells, Follows
  <2> QED
    BY <1>1, <2>1 DEF Change, GaveBefore
<1>7. TypeOK'
  <2> DEFINE next == [writer[w] EXCEPT !.at = "removing", !.key = k, !.before = View(w)[k].audience]
  <2>1. next \in WriterState
    BY <1>1, <1>6 DEF WriterState
  <2>2. writer' = [writer EXCEPT ![w] = next]
    BY DEF RemoveReads, IInv, TypeOK
  <2> HIDE DEF next
  <2> QED
    BY ZenonT(60), <2>1, <2>2 DEF RemoveReads, IInv, TypeOK
<1>8. WriterFits(w)'
  BY <1>2, <1>3, <1>4, <1>5, <1>6 DEF WriterFits, Unpushed
<1>9. ASSUME NEW u \in Writer, u # w PROVE WriterFits(u)' /\ Tells(Log(u)', Count(u)', View(u)')
  BY <1>2, <1>3, <1>9, OtherWriters
<1>10. LogsFit'
  BY <1>2, <1>4, <1>5, <1>8, <1>9 DEF LogsFit, Unpushed
<1> QED
  BY <1>2, <1>7, <1>10, StillPushed DEF IInv

(* Work undone takes its own changes with it and leaves what is committed   *)
(* (database/internal/store.ts, ROLLBACK).                                  *)
LEMMA RollbackStep == ASSUME IInv, NEW w \in Writer, Rollback(w) PROVE IInv'
<1>1. Unpushed
  BY DEF Rollback, Unpushed
<1>2. writer'[w] = Idle /\ lock' # w /\ \A u \in Writer : u # w => writer'[u] = writer[u] /\ (lock' = u <=> lock = u)
  BY NamesAssumption DEF Rollback, IInv, TypeOK
<1>3. TypeOK'
  BY IdleType DEF Rollback, IInv, TypeOK
<1>4. WriterFits(w)'
  BY <1>2 DEF WriterFits, Idle
<1>5. Log(w)' = changes /\ Count(w)' = version /\ View(w)' = entries
  BY <1>1, <1>2 DEF Unpushed, Log, Count, View, Idle
<1>6. Tells(changes, version, entries)
  BY DEF IInv, LogsFit
<1>7. LogsFit'
  BY <1>1, <1>2, <1>4, <1>5, <1>6, OtherWriters DEF LogsFit, Unpushed
<1> QED
  BY <1>1, <1>3, <1>7, StillPushed DEF IInv

(* Changes committed leave what was pushed and sent true, and are           *)
(* themselves yet to be pushed (registries.ts, kernel.ts pushChange).       *)
LEMMA CommitStep == ASSUME IInv, NEW w \in Writer, Commit(w) PROVE IInv'
<1>1. /\ lock = w /\ WriterFits(w) /\ Tells(Log(w), Count(w), View(w))
      /\ entries' = View(w) /\ version' = Count(w) /\ changes' = Log(w)
      /\ pending' = pending \cup writer[w].done /\ lock' = NoWriter
      /\ UNCHANGED <<pushing, frames, client>>
  BY DEF Commit, IInv, LogsFit, WriterFits, View, Count, Log
<1>2. writer[w] \in WriterState /\ version \in Nat /\ version' \in Nat /\ version' >= version
  BY <1>1, Bounds DEF WriterFits, Count, IInv, TypeOK, WriterState, Version
<1>3. TypeOK'
  BY <1>2, IdleType DEF Commit, IInv, TypeOK, WriterState
<1>4. writer'[w] = Idle /\ \A u \in Writer : u # w => writer'[u] = writer[u] /\ writer[u].done = {} /\ lock # u
  BY <1>1 DEF Commit, IInv, TypeOK, LogsFit, WriterFits
<1>5. ASSUME NEW u \in Writer PROVE WriterFits(u)' /\ Tells(Log(u)', Count(u)', View(u)')
  <2>1. lock' # u /\ writer'[u].done = {}
    BY <1>1, <1>4, NamesAssumption DEF Idle
  <2>2. Log(u)' = changes' /\ Count(u)' = version' /\ View(u)' = entries'
    BY <2>1 DEF Log, Count, View
  <2>3. writer'[u].at # "open"
    BY <1>4 DEF IInv, LogsFit, WriterFits, Idle
  <2>4. writer'[u].at = "removing" => u # w
    BY <1>4 DEF Idle
  <2>5. u # w => Log(u) \subseteq changes'
    BY <1>1, <1>4 DEF Log
  <2>6. WriterFits(u)'
    BY <1>4, <2>1, <2>2, <2>3, <2>4, <2>5 DEF IInv, LogsFit, WriterFits, GaveBefore
  <2> QED
    BY <1>1, <2>2, <2>6
<1>6. LogsFit'
  BY <1>1, <1>5 DEF LogsFit
<1>7. changes \subseteq changes' /\ \A change \in changes : Outdone(change) => Outdone(change)'
  BY <1>1 DEF Log, Outdone
<1>8. PushesFit'
  BY <1>1, <1>7 DEF IInv, PushesFit, IsSuperseded
<1>9. FramesFit'
  BY <1>1, <1>7 DEF IInv, FramesFit, IsTrue
<1>10. ASSUME NEW c \in Client PROVE ClientFits(c)'
  <2>1. ClientFits(c) /\ client' = client /\ client[c].version \in Nat
    BY <1>1, Bounds DEF IInv, TypeOK, ClientState, Version
  <2>2. Took(c)' => client'[c].version <= version'
    BY <1>2, <2>1 DEF ClientFits, Took
  <2>3. Took(c)' => \A change \in changes' : change.version > client'[c].version => IsComing(c, change)'
    BY <1>1, <2>1 DEF ClientFits, Took, Log, IsComing
  <2>4. \A k \in Key : client'[c].shows[k] > 0 =>
          \E change \in changes' : change.op = "set" /\ change.key = k /\ c \in change.audience
    BY <1>7, <2>1 DEF ClientFits
  <2>5. ASSUME client'[c].at = "following", NEW k \in Key, ~IsMoved(k)', Followed(c, k)'
        PROVE  client'[c].shows[k] = Visible(c)'[k]
    <3>1. ~IsMoved(k) /\ Followed(c, k)
      BY <1>7, <2>1, <2>5 DEF IsMoved, Followed
    <3>2. client[c].version <= version /\ client[c].shows[k] = Visible(c)[k]
      BY <2>1, <2>5, <3>1 DEF ClientFits, Took
    <3>3. ~ \E d \in writer[w].done : d.key = k
      <4>1. \A d \in writer[w].done : d.version > version /\ d.version \in Nat
        BY <1>1, <1>2, Bounds DEF WriterFits, WriterState, Change, Version
      <4> QED
        BY <1>1, <1>2, <2>1, <2>5, <3>2, <4>1 DEF Followed, Log
    <3>4. entries'[k] = entries[k]
      BY <1>1, <3>3 DEF WriterFits, View
    <3> QED
      BY <2>1, <3>2, <3>4 DEF Visible
  <2> QED
    BY <2>2, <2>3, <2>4, <2>5 DEF ClientFits
<1> QED
  BY <1>3, <1>6, <1>8, <1>9, <1>10 DEF IInv

-----------------------------------------------------------------------------
(* Pushes and frames *)

(* What is committed and the transactions stand while a change is pushed    *)
(* (kernel.ts pushChange).                                                  *)
Uncommitted == UNCHANGED <<entries, version, lock, writer, changes>>

(* What the changes tell stands while they are pushed and followed.         *)
LEMMA StillLogged == ASSUME IInv, Uncommitted PROVE LogsFit'
<1>1. ASSUME NEW w \in Writer PROVE WriterFits(w)' /\ Tells(Log(w)', Count(w)', View(w)')
  <2>1. Log(w)' = Log(w) /\ Count(w)' = Count(w) /\ View(w)' = View(w)
    BY DEF Uncommitted, Log, Count, View
  <2> QED
    BY <2>1 DEF IInv, LogsFit, WriterFits, Uncommitted
<1> QED
  BY <1>1 DEF IInv, LogsFit, Uncommitted

(* The entry found for a set that is not the one it wrote was written, or   *)
(* removed, by a later change (pushChange reads the entry when it runs).    *)
LEMMA FoundLater ==
  ASSUME IInv, NEW change \in changes, NEW push, push.change = change, push.found = entries[change.key].version,
         IsSuperseded(push)
  PROVE  Outdone(change)
<1>1. change \in Change /\ change.key \in Key /\ change.version \in Nat
  BY Bounds DEF IInv, TypeOK, Change, Version
<1>2. ~IsLast(change, changes)
  BY <1>1 DEF IInv, LogsFit, Tells, Follows, IsSuperseded
<1> QED
  BY <1>1, <1>2, Bounds DEF IsLast, Outdone, IInv, TypeOK, Change, Version

(* A change being pushed keeps the invariant (pushChange, redelivered or    *)
(* not).                                                                    *)
LEMMA FindsStep ==
  ASSUME IInv, NEW change \in changes, Finds(change), Uncommitted, UNCHANGED <<frames, client>>,
         pending' \in {pending, pending \ {change}}, repeats' \in 0..MaxRepeats
  PROVE  IInv'
<1> DEFINE push == [change |-> change, found |-> entries[change.key].version]
<1>1. pushing' = pushing \cup {push} /\ push.change = change /\ push.found = entries[change.key].version
  BY DEF Finds
<1>2. push \in Push
  BY DEF IInv, TypeOK, Push, Change, Entry
<1> HIDE DEF push
<1>3. TypeOK'
  BY <1>1, <1>2 DEF IInv, TypeOK, Uncommitted
<1>4. PushesFit'
  <2>1. \A p \in pushing : p.change \in changes /\ (IsSuperseded(p) => Outdone(p.change))
    BY DEF IInv, PushesFit
  <2>2. push.change \in changes /\ (IsSuperseded(push) => Outdone(push.change))
    BY <1>1, FoundLater
  <2> QED
    BY <1>1, <2>1, <2>2 DEF PushesFit, Uncommitted, IsSuperseded, Outdone
<1>5. FramesFit'
  BY DEF IInv, FramesFit, IsTrue, Outdone, Uncommitted
<1>6. ASSUME NEW c \in Client PROVE ClientFits(c)'
  <2>1. \A d \in changes : IsComing(c, d) => IsComing(c, d)'
    BY <1>1 DEF IsComing
  <2> QED
    BY <2>1 DEF IInv, ClientFits, Took, IsMoved, Followed, Visible, Uncommitted
<1> QED
  BY <1>3, <1>4, <1>5, <1>6, StillLogged DEF IInv

(* The first delivery of a change, and the ones after it (events.ts).       *)
LEMMA PushStep == ASSUME IInv, NEW change \in changes, PushChange(change) \/ PushAgain(change) PROVE IInv'
<1>1. repeats \in 0..MaxRepeats
  BY DEF IInv, TypeOK
<1>2. CASE PushChange(change)
  BY <1>1, <1>2, FindsStep DEF PushChange, Uncommitted
<1>3. CASE PushAgain(change)
  <2>1. repeats' \in 0..MaxRepeats
    BY <1>1, <1>3, Bounds DEF PushAgain
  <2> QED
    BY <1>3, <2>1, FindsStep DEF PushAgain, Uncommitted
<1> QED
  BY <1>2, <1>3

(* What a socket hears is true to the change (kernel.ts pushChange).        *)
LEMMA HearsTrue == ASSUME IInv, NEW c \in Client, NEW push \in pushing PROVE IsTrue(Hears(c, push), push.change)
<1>1. push.change \in Change /\ push.found \in Version /\ (IsSuperseded(push) => Outdone(push.change))
  BY DEF IInv, TypeOK, Push, PushesFit
<1>2. push.change.op \in {"set", "remove"} /\ (push.change.op = "remove" => push.change.audience = {})
  BY <1>1 DEF Change
<1>3. CASE IsSuperseded(push)
  BY <1>1, <1>3 DEF Hears, Sends, IsTrue
<1>4. CASE ~IsSuperseded(push)
  <2>1. CASE c \in push.change.audience
    BY <1>2, <1>4, <2>1 DEF Hears, Sends, IsTrue, IsSuperseded
  <2>2. CASE c \notin push.change.audience
    BY <1>4, <2>2 DEF Hears, Sends, IsTrue
  <2> QED
    BY <2>1, <2>2
<1> QED
  BY <1>3, <1>4

(* Every listening socket gets its frame, true to the change, and a client  *)
(* that took a snapshot keeps those ahead of it (sockets.ts push).          *)
LEMMA SendStep == ASSUME IInv, NEW push \in pushing, Send(push) PROVE IInv'
<1>1. Uncommitted /\ UNCHANGED <<client, pending>> /\ pushing' = pushing \ {push} /\ push.change \in changes
  BY DEF Send, Uncommitted, IInv, PushesFit
<1>2. \A f \in frames' : f \in frames \/ \E c \in Client : f = Hears(c, push)
  BY DEF Send, Kept
<1>3. TypeOK'
  <2>1. frames' \subseteq Frame
    BY <1>2, HearsType DEF IInv, TypeOK
  <2> QED
    BY <2>1 DEF Send, IInv, TypeOK
<1>4. PushesFit'
  BY <1>1 DEF IInv, PushesFit, Uncommitted, IsSuperseded, Outdone
<1>5. FramesFit'
  <2>1. \A f \in frames' : \E change \in changes : IsTrue(f, change)
    BY <1>1, <1>2, HearsTrue DEF IInv, FramesFit
  <2> QED
    BY <1>1, <2>1 DEF FramesFit, IsTrue, Outdone, Uncommitted
<1>6. ASSUME NEW c \in Client PROVE ClientFits(c)'
  <2>1. ASSUME Took(c), NEW change \in changes, change.version > client[c].version PROVE IsComing(c, change)'
    <3>1. IsComing(c, change)
      BY <2>1 DEF IInv, ClientFits
    <3>2. ASSUME NEW f \in frames \cup {Hears(d, push) : d \in {e \in Client : Listening(e)}},
                 f.to = c, f.version = change.version
          PROVE  f \in frames'
      BY <2>1, <3>2 DEF Send, Kept
    <3>3. CASE push.change = change
      <4>1. Listening(c) /\ Hears(c, push).to = c /\ Hears(c, push).version = change.version
        BY <2>1, <3>3 DEF Took, Listening, Hears, Sends
      <4> QED
        BY <3>2, <4>1 DEF IsComing
    <3>4. CASE push.change # change
      BY <1>1, <3>1, <3>2, <3>4 DEF IsComing
    <3> QED
      BY <3>3, <3>4
  <2> QED
    BY <1>1, <2>1 DEF IInv, ClientFits, Took, IsMoved, Followed, Visible, Uncommitted
<1> QED
  BY <1>1, <1>3, <1>4, <1>5, <1>6, StillLogged DEF IInv

-----------------------------------------------------------------------------
(* Clients *)

(* Frames dropped and clients moved on leave changes, pushes and the frames *)
(* that stay as true as they were (sockets.ts, the queue of a socket).      *)
LEMMA StillTrue ==
  ASSUME IInv, Uncommitted, UNCHANGED <<pending, pushing>>, frames' \subseteq frames
  PROVE  LogsFit' /\ PushesFit' /\ FramesFit'
<1>1. PushesFit'
  BY DEF IInv, PushesFit, IsSuperseded, Outdone, Uncommitted
<1>2. FramesFit'
  BY DEF IInv, FramesFit, IsTrue, Outdone, Uncommitted
<1> QED
  BY <1>1, <1>2, StillLogged

(* A client nobody touched keeps what it waits for: no frame of its own     *)
(* ahead of it is dropped (sockets.ts).                                     *)
LEMMA OtherClients ==
  ASSUME IInv, Uncommitted, UNCHANGED <<pending, pushing>>, NEW d \in Client, client'[d] = client[d],
         frames' = frames \/ frames' = Kept(frames, client')
  PROVE  ClientFits(d)'
<1>1. ASSUME Took(d), NEW change \in changes, change.version > client[d].version PROVE IsComing(d, change)'
  <2>1. IsComing(d, change)
    BY <1>1 DEF IInv, ClientFits
  <2>2. ASSUME NEW f \in frames, f.to = d, f.version = change.version PROVE f \in frames'
    BY <1>1, <2>2 DEF Kept
  <2> QED
    BY <2>1, <2>2 DEF IsComing
<1> QED
  BY <1>1 DEF IInv, ClientFits, Took, IsMoved, Followed, Visible, Uncommitted

(* A socket that starts to listen waits for nothing yet (sockets.ts).       *)
LEMMA ListenStep == ASSUME IInv, NEW c \in Client, Listen(c) PROVE IInv'
<1>1. Uncommitted /\ UNCHANGED <<pending, pushing, frames>>
  BY DEF Listen, Uncommitted
<1>2. TypeOK'
  BY DEF Listen, IInv, TypeOK, ClientState
<1>3. /\ client'[c].at = "listening" /\ client'[c].shows = client[c].shows
      /\ \A d \in Client : d # c => client'[d] = client[d]
  BY DEF Listen, IInv, TypeOK, ClientState
<1>4. ClientFits(c)'
  BY <1>1, <1>3 DEF IInv, ClientFits, Took, Uncommitted
<1> QED
  BY <1>1, <1>2, <1>3, <1>4, StillTrue, OtherClients DEF IInv

(* At the version read first no committed change is ahead of the client     *)
(* (snapshot(), registries.ts list).                                        *)
LEMMA LoadVersionStep == ASSUME IInv, NEW c \in Client, LoadVersion(c) PROVE IInv'
<1>1. Uncommitted /\ UNCHANGED <<pending, pushing>> /\ frames' = Kept(frames, client') /\ frames' \subseteq frames
  BY DEF LoadVersion, Uncommitted, Kept
<1>2. TypeOK'
  BY <1>1 DEF LoadVersion, IInv, TypeOK, ClientState
<1>3. /\ client'[c].at = "loading" /\ client'[c].version = version /\ client'[c].shows = client[c].shows
      /\ \A d \in Client : d # c => client'[d] = client[d]
  BY DEF LoadVersion, IInv, TypeOK, ClientState
<1>4. version \in Nat /\ \A change \in changes : change.version \in 1..version
  BY Bounds DEF IInv, TypeOK, Version, LogsFit, Tells, Numbered
<1>5. ClientFits(c)'
  BY <1>1, <1>3, <1>4 DEF IInv, ClientFits, Took, Uncommitted
<1> QED
  BY <1>1, <1>2, <1>3, <1>5, StillTrue, OtherClients DEF IInv

(* A snapshot shows what a client may see, and what it shows a change told  *)
(* (registries.ts list).                                                    *)
LEMMA LoadEntriesStep == ASSUME IInv, NEW c \in Client, LoadEntries(c) PROVE IInv'
<1>1. Uncommitted /\ UNCHANGED <<pending, pushing, frames>>
  BY DEF LoadEntries, Uncommitted
<1>2. entries \in [Key -> Entry] /\ Visible(c) \in [Key -> Version]
  BY Bounds DEF IInv, TypeOK, Visible, Entry
<1>3. TypeOK'
  <2>1. [client[c] EXCEPT !.at = "following", !.shows = Visible(c)] \in ClientState
    BY <1>2 DEF IInv, TypeOK, ClientState
  <2> QED
    BY <2>1 DEF LoadEntries, IInv, TypeOK
<1>4. /\ client'[c].at = "following" /\ client'[c].version = client[c].version /\ client'[c].shows = Visible(c)
      /\ client[c].at = "loading" /\ \A d \in Client : d # c => client'[d] = client[d]
  BY DEF LoadEntries, IInv, TypeOK, ClientState
<1>5. \A k \in Key : Visible(c)[k] > 0 =>
        \E change \in changes : change.op = "set" /\ change.key = k /\ c \in change.audience
  BY <1>2 DEF Visible, IInv, LogsFit, Tells, Follows
<1>6. ClientFits(c)'
  <2>1. Took(c) /\ ClientFits(c) /\ Visible(c)' = Visible(c)
    BY <1>1, <1>4 DEF IInv, Took, Visible, Uncommitted
  <2>2. \A change \in changes : IsComing(c, change) => IsComing(c, change)'
    BY <1>1 DEF IsComing
  <2> QED
    BY <1>1, <1>4, <1>5, <2>1, <2>2 DEF ClientFits, Uncommitted
<1> QED
  BY <1>1, <1>3, <1>4, <1>6, StillTrue, OtherClients DEF IInv

(* The frame of the last change of a key that never moved leaves the client *)
(* with what it may see of it (pushChange, a skip where nothing changes).   *)
LEMMA LastFrame ==
  ASSUME IInv, NEW c \in Client, NEW f \in frames, f.to = c, ~IsMoved(f.key),
         NEW change \in changes, IsTrue(f, change), IsLast(change, changes)
  PROVE  Applied(client[c].shows, f)[f.key] = Visible(c)[f.key]
<1>1. change \in Change /\ f \in Frame /\ f.key \in Key /\ client[c].shows \in [Key -> Version] /\ ClientFits(c)
  BY DEF IInv, TypeOK, ClientState, Frame
<1>2. /\ entries[f.key].version = IF change.op = "set" THEN change.version ELSE 0
      /\ entries[f.key].audience = change.audience /\ change.version \in Nat
  BY <1>1, Bounds DEF IInv, LogsFit, Tells, Follows, IsTrue, Change, Version
<1>3. ~Outdone(change)
  BY <1>1, Bounds DEF IsLast, Outdone, IInv, TypeOK, Change, Version
<1>4. change.op \in {"set", "remove"} /\ (change.op = "remove" => change.audience = {})
  BY <1>1 DEF Change
<1>5. Visible(c)[f.key] = IF c \in change.audience THEN change.version ELSE 0
  BY <1>1, <1>2, <1>4 DEF Visible
<1>6. CASE f.op = "set"
  BY <1>1, <1>5, <1>6 DEF Applied, IsTrue
<1>7. CASE f.op = "remove"
  <2>1. f.entry = 0
    BY <1>1, <1>7 DEF Frame
  <2> QED
    BY <1>1, <1>5, <1>7, <2>1 DEF Applied, IsTrue
<1>8. CASE f.op = "skip"
  <2>1. c \notin change.before /\ c \notin change.audience
    BY <1>3, <1>8 DEF IsTrue
  <2>2. client[c].shows[f.key] = 0
    <3> SUFFICES ASSUME client[c].shows[f.key] > 0 PROVE FALSE
      BY <1>1, Bounds DEF Version
    <3>1. PICK d \in changes : d.op = "set" /\ d.key = f.key /\ c \in d.audience
      BY <1>1 DEF ClientFits
    <3>2. CASE change.op = "set"
      BY <2>1, <3>1, <3>2 DEF IsMoved, IsTrue
    <3>3. CASE change.op = "remove"
      <4>1. PICK e \in changes : e.op = "set" /\ e.key = f.key /\ e.audience = change.before
        BY <3>3 DEF IInv, LogsFit, Tells, Traced, IsTrue
      <4> QED
        BY <2>1, <3>1, <4>1 DEF IsMoved
    <3> QED
      BY <1>4, <3>2, <3>3
  <2> QED
    BY <1>5, <1>8, <2>1, <2>2 DEF Applied
<1>9. f.op \in {"set", "remove", "skip"}
  BY <1>1 DEF Frame
<1> QED
  BY <1>6, <1>7, <1>8, <1>9

(* A frame applied brings the client to its version, and waits for the      *)
(* changes after it still (a client of the registry channel).               *)
LEMMA FollowStep == ASSUME IInv, NEW c \in Client, NEW f \in frames, Follow(c, f) PROVE IInv'
<1>1. Uncommitted /\ UNCHANGED <<pending, pushing>> /\ frames' = Kept(frames, client') /\ frames' \subseteq frames
  BY DEF Follow, Uncommitted, Kept
<1>2. f \in Frame /\ client[c] \in ClientState /\ f.key \in Key /\ f.to = c /\ client[c].at = "following"
  BY DEF Follow, IInv, TypeOK, Frame
<1>3. Applied(client[c].shows, f) \in [Key -> Version]
  BY <1>2, Bounds DEF Applied, ClientState, Frame
<1>4. TypeOK'
  <2>1. [client[c] EXCEPT !.version = f.version, !.shows = Applied(client[c].shows, f)] \in ClientState
    BY <1>2, <1>3 DEF ClientState, Frame
  <2> QED
    BY <1>1, <2>1 DEF Follow, IInv, TypeOK
<1>5. /\ client'[c].at = "following" /\ client'[c].version = f.version
      /\ client'[c].shows = Applied(client[c].shows, f) /\ f.version = client[c].version + 1
      /\ \A d \in Client : d # c => client'[d] = client[d]
  BY <1>2 DEF Follow, IInv, TypeOK, ClientState
<1>6. PICK change \in changes : IsTrue(f, change)
  BY DEF IInv, FramesFit
<1>7. client[c].version \in Nat /\ version \in Nat /\ \A d \in changes : d.version \in 1..version
  BY <1>2, Bounds DEF IInv, TypeOK, ClientState, Version, LogsFit, Tells, Numbered
<1>8. ClientFits(c)'
  <2>1. client'[c].version <= version'
    BY <1>1, <1>5, <1>6, <1>7 DEF Uncommitted, IsTrue
  <2>2. ASSUME NEW d \in changes, d.version > client'[c].version PROVE IsComing(c, d)'
    <3>1. IsComing(c, d)
      BY <1>2, <1>5, <1>7, <2>2 DEF IInv, ClientFits, Took
    <3>2. ASSUME NEW g \in frames, g.to = c, g.version = d.version PROVE g \in frames'
      BY <1>1, <2>2, <3>2 DEF Kept
    <3> QED
      BY <1>1, <3>1, <3>2 DEF IsComing
  <2>3. \A k \in Key : client'[c].shows[k] > 0 =>
          \E d \in changes : d.op = "set" /\ d.key = k /\ c \in d.audience
    <3>1. \A k \in Key : client[c].shows[k] > 0 => \E d \in changes : d.op = "set" /\ d.key = k /\ c \in d.audience
      BY DEF IInv, ClientFits
    <3>2. f.op = "set" => change.op = "set" /\ change.key = f.key /\ c \in change.audience
      BY <1>2, <1>6 DEF IsTrue
    <3>3. f.op # "set" => ~(f.entry > 0) \/ f.op = "skip"
      BY <1>2 DEF Frame
    <3> QED
      BY <1>2, <1>5, <3>1, <3>2, <3>3 DEF Applied, ClientState
  <2>4. ASSUME NEW k \in Key, ~IsMoved(k), \A d \in changes : d.key = k => d.version <= f.version
        PROVE  Applied(client[c].shows, f)[k] = Visible(c)[k]
    <3>1. CASE f.key = k
      <4>1. IsLast(change, changes)
        BY <1>6, <2>4, <3>1 DEF IsLast, IsTrue
      <4> QED
        BY <1>2, <1>6, <2>4, <3>1, <4>1, LastFrame
    <3>2. CASE f.key # k
      <4>1. \A d \in changes : d.version = f.version => d = change
        BY <1>6 DEF IsTrue, IInv, LogsFit, Tells, Numbered
      <4>2. Followed(c, k)
        BY <1>5, <1>6, <1>7, <2>4, <3>2, <4>1 DEF Followed, IsTrue
      <4>3. client[c].shows[k] = Visible(c)[k]
        BY <1>2, <2>4, <4>2 DEF IInv, ClientFits
      <4> QED
        BY <1>2, <3>2, <4>3 DEF Applied, ClientState
    <3> QED
      BY <3>1, <3>2
  <2>5. \A k \in Key : ~IsMoved(k)' /\ Followed(c, k)' => client'[c].shows[k] = Visible(c)'[k]
    BY <1>1, <1>5, <2>4 DEF IsMoved, Followed, Visible, Uncommitted
  <2> QED
    BY <1>1, <2>1, <2>2, <2>3, <2>5 DEF ClientFits, Uncommitted
<1> QED
  BY <1>1, <1>4, <1>5, <1>8, StillTrue, OtherClients DEF IInv

-----------------------------------------------------------------------------
(* The invariant and what it says *)

(* An empty scope fits.                                                     *)
LEMMA InitIInv == Init => IInv
<1> SUFFICES ASSUME Init PROVE IInv
  OBVIOUS
<1>1. TypeOK
  BY Bounds, IdleType DEF Init, TypeOK, ClientState, Version
<1>2. Numbered({}, 0)
  BY FS_EmptySet DEF Numbered
<1>3. Tells(changes, version, entries)
  BY <1>2 DEF Init, Tells, Follows, Traced, NoEntry
<1>4. ASSUME NEW w \in Writer PROVE WriterFits(w) /\ Tells(Log(w), Count(w), View(w))
  <2>1. lock # w /\ writer[w].done = {} /\ writer[w].at = "idle"
    BY NamesAssumption DEF Init, Idle
  <2>2. Log(w) = changes /\ Count(w) = version /\ View(w) = entries
    BY <2>1 DEF Log, Count, View
  <2> QED
    BY <1>3, <2>1, <2>2 DEF WriterFits
<1>5. PushesFit /\ FramesFit /\ \A c \in Client : ClientFits(c)
  BY DEF Init, PushesFit, FramesFit, ClientFits, Took
<1> QED
  BY <1>1, <1>3, <1>4, <1>5 DEF IInv, LogsFit

(* Every step keeps the invariant.                                          *)
LEMMA NextIInv == IInv /\ [Next]_vars => IInv'
<1> SUFFICES ASSUME IInv, [Next]_vars PROVE IInv'
  OBVIOUS
<1>1. CASE UNCHANGED vars
  <2>1. Unpushed /\ UNCHANGED <<lock, writer>> /\ TypeOK'
    BY <1>1 DEF vars, Unpushed, IInv, TypeOK
  <2>2. LogsFit'
    BY <2>1, OtherWriters DEF IInv, LogsFit, Unpushed
  <2> QED
    BY <2>1, <2>2, StillPushed DEF IInv
<1>2. CASE Next
  BY <1>2, SetStep, RemoveReadsStep, RemoveStep, CommitStep, RollbackStep, PushStep, SendStep, ListenStep,
     LoadVersionStep, LoadEntriesStep, FollowStep DEF Next
<1> QED
  BY <1>1, <1>2

(* The invariant holds at every moment.                                     *)
THEOREM Invariance == Spec => []IInv
  BY InitIInv, NextIInv, PTL DEF Spec

(* Every variable has its type (context.ts, registries.ts, kernel.ts,       *)
(* sockets.ts).                                                             *)
THEOREM TypeCorrect == Spec => []TypeOK
<1>1. IInv => TypeOK
  BY DEF IInv
<1> QED
  BY <1>1, Invariance, PTL

(* Changes are numbered from 1 without a gap or a double, however many      *)
(* transactions overlap and roll back (registries.ts bump).                 *)
THEOREM Numbers == Spec => []VersionsWithoutGap
<1>1. IInv => VersionsWithoutGap
  BY DEF IInv, LogsFit, Tells, Numbered, VersionsWithoutGap
<1> QED
  BY <1>1, Invariance, PTL

(* No key and no entry reaches a socket that may not see it (pushChange).   *)
THEOREM KeepsFromOthers == Spec => []OnlyToViewers
<1>1. IInv => OnlyToViewers
  <2> SUFFICES ASSUME IInv, NEW f \in frames
               PROVE  /\ f.op # "skip" =>
                           \E d \in changes : d.key = f.key /\ d.version <= f.version /\ f.to \in d.audience
                      /\ f.op = "set" =>
                           \E d \in changes : d.key = f.key /\ d.version = f.entry /\ f.to \in d.audience
    BY DEF OnlyToViewers
  <2>1. PICK change \in changes : IsTrue(f, change)
    BY DEF IInv, FramesFit
  <2>2. f.op \in {"set", "remove", "skip"} /\ \A d \in changes : d.version \in Nat
    BY Bounds DEF IInv, TypeOK, Frame, Change, Version
  <2>3. f.op = "remove" => \E d \in changes : d.key = f.key /\ d.version <= f.version /\ f.to \in d.audience
    BY <2>1, <2>2 DEF IsTrue, IInv, LogsFit, Tells, Traced
  <2> QED
    BY <2>1, <2>2, <2>3 DEF IsTrue
<1> QED
  BY <1>1, Invariance, PTL

(* The change a client waits for is on its way to it (pushChange, push).    *)
THEOREM NeverStranded == Spec => []NextIsComing
<1>1. IInv => NextIsComing
  <2> SUFFICES ASSUME IInv, NEW c \in Client, Took(c), client[c].version < version
               PROVE  \/ \E change \in pending : change.version = client[c].version + 1
                      \/ \E push \in pushing : push.change.version = client[c].version + 1
                      \/ \E f \in frames : f.to = c /\ f.version = client[c].version + 1
    BY DEF NextIsComing, Took
  <2>1. client[c].version \in Nat /\ version \in Nat
    BY Bounds DEF IInv, TypeOK, ClientState, Version
  <2>2. {change.version : change \in changes} = 1..version
    BY DEF IInv, LogsFit, Tells, Numbered
  <2>3. PICK change \in changes : change.version = client[c].version + 1
    <3>1. client[c].version + 1 \in 1..version
      BY <2>1
    <3>2. client[c].version + 1 \in {change.version : change \in changes}
      BY <2>2, <3>1
    <3> QED
      BY <3>2
  <2> QED
    BY <2>1, <2>3 DEF IInv, ClientFits, IsComing
<1> QED
  BY <1>1, Invariance, PTL

(* A client that followed every change shows, of keys whose permissions     *)
(* never moved, what a snapshot would give it (registries.ts list,          *)
(* pushChange).                                                             *)
THEOREM ShowsAsSnapshot == Spec => []ShowsUnmoved
<1>1. IInv => ShowsUnmoved
  <2> SUFFICES ASSUME IInv, NEW c \in Client, NEW k \in Key, Current(c), ~IsMoved(k)
               PROVE  client[c].shows[k] = Visible(c)[k]
    BY DEF ShowsUnmoved
  <2>1. Followed(c, k)
    BY Bounds DEF Current, Followed, IInv, LogsFit, Tells, Numbered, TypeOK, Version
  <2> QED
    BY <2>1 DEF Current, IInv, ClientFits
<1> QED
  BY <1>1, Invariance, PTL
=============================================================================
