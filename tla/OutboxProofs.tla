---------------------------- MODULE OutboxProofs ----------------------------
(* What Outbox says of any number of events, listeners, processes and      *)
(* deliveries, proved.                                                     *)
EXTENDS Outbox, TLAPS

Delivers(t, e) == turn[t].at = "delivering" /\ turn[t].event = e
Holds(t, e) == e \in turn[t].batch \/ Delivers(t, e)

(* Who a turn knows to have heard an event, by the row it read and since *)
Known(t, e) == turn[t].seen[e].heard \cup (IF Delivers(t, e) THEN turn[t].heard ELSE {})

WasTold(e, heard) == \A l \in heard : told[e][l] > 0

(* A row says of its event what happened to it *)
RowFits(e) ==
  /\ row[e].stored = "unsaved" => \A l \in Listener : told[e][l] = 0
  /\ row[e].stored = "gone" => WasTold(e, Listener)
  /\ WasTold(e, row[e].heard)
  /\ row[e].attempts <= given[e].failed
  /\ row[e].dead => given[e].failed >= MostAttempts

(* A turn knows of an event what was true when it read it, and since *)
TurnKnows(t, e) ==
  /\ Holds(t, e) => row[e].stored # "unsaved"
  /\ WasTold(e, Known(t, e)) /\ turn[t].seen[e].attempts <= given[e].failed

Took(t) == turn[t].at = "delivering" => turn[t].event \in Event \ turn[t].batch

MarksFit == \A m \in keeping : told[m[2]][m[3]] > 0

(* An event always handed out after the claim before had ended is held by   *)
(* one turn at most, which knows everyone that heard it; held by none and   *)
(* free, its row knows                                                      *)
HeldOnce(e) ==
  /\ \A t \in Turn : Holds(t, e) => row[e].stored = "kept" /\ row[e].takenBy = Me(t)
  /\ \A t, u \in Turn : Holds(t, e) /\ Holds(u, e) => t = u
  /\ \A l \in Listener : told[e][l] > 0 =>
       /\ told[e][l] = 1
       /\ \A t \in Turn : Holds(t, e) => l \in Known(t, e)
       /\ row[e].stored = "kept" /\ row[e].takenBy = Nobody => l \in row[e].heard

EventFits(e) ==
  /\ RowFits(e)
  /\ \A t \in Turn : TurnKnows(t, e)
  /\ ~given[e].over => HeldOnce(e)

IInv ==
  /\ TypeOK /\ MarksFit
  /\ \A t \in Turn : Took(t)
  /\ \A e \in Event : EventFits(e)

(* What was told is never untold, and a failed delivery stays counted *)
Grows(e) == given'[e].failed >= given[e].failed /\ \A l \in Listener : told[e][l] > 0 => told'[e][l] > 0

(* A turn does not take the event up, learns nothing of it, and forgets     *)
(* nothing of it while it holds it                                          *)
HoldsNoMore(t, e) ==
  /\ Holds(t, e)' => Holds(t, e) /\ Known(t, e) \subseteq Known(t, e)'
  /\ Known(t, e)' \subseteq Known(t, e)
  /\ turn'[t].seen[e].attempts \in {0, turn[t].seen[e].attempts}

HoldsLess(t) == Took(t)' /\ \A e \in Event : HoldsNoMore(t, e)

(* A row says the same of who heard it and who holds it *)
SaysTheSame(e) ==
  /\ row'[e].stored = row[e].stored /\ row'[e].heard = row[e].heard /\ row'[e].takenBy = row[e].takenBy
  /\ row'[e].attempts \in {0, row[e].attempts}
  /\ row'[e].dead => row[e].dead

Untouched(e) ==
  /\ SaysTheSame(e) /\ told'[e] = told[e] /\ given'[e] = given[e]
  /\ \A t \in Turn : HoldsNoMore(t, e)

-----------------------------------------------------------------------------
(* Types *)

(* The constants are naturals, and zero is in every bounded range           *)
(* (outbox.ts, kernel.ts redeliver).                                        *)
LEMMA Bounds ==
  /\ MostAttempts \in Nat /\ MostAttempts > 0 /\ LeaseMs \in Nat /\ Third \in Nat /\ Third > 0 /\ MaxMishaps \in Nat
  /\ 0 \in 0..LeaseMs /\ LeaseMs \in 0..LeaseMs /\ 0 \in 0..(2 * LeaseMs) /\ LeaseMs \in 0..(2 * LeaseMs)
  /\ LeaseMs + LeaseMs \in 0..(2 * LeaseMs) /\ 0 \in 0..Third /\ NoEvent \notin Event
  /\ \A t \in Turn : Me(t) \in Proc /\ Me(t) # Nobody
  BY NamesAssumption, ProcOfAssumption, CountAssumption, TimeAssumption DEF Me

(* A turn with nothing in hand is one; it knows nothing.                    *)
LEMMA IdleType ==
  /\ Idle \in TurnState /\ Unseen \in [Event -> [heard: SUBSET Listener, attempts: Nat]]
  /\ \A e \in Event : Unseen[e].heard = {} /\ Unseen[e].attempts = 0
  /\ NewRow \in Row
  BY Bounds DEF Idle, Unseen, TurnState, NewRow, Row

(* A turn that forgets its event keeps its type, holds only what is left of *)
(* its batch, and knows no less of it (redeliver, the next row).            *)
LEMMA ForgetsEvent ==
  ASSUME TypeOK, NEW t \in Turn, turn[t].at = "delivering", turn[t].event \in Event \ turn[t].batch, Forgets(t)
  PROVE  /\ turn' \in [Turn -> TurnState] /\ \A u \in Turn : u # t => turn'[u] = turn[u]
         /\ turn'[t].at = "loop" /\ turn'[t].batch \subseteq turn[t].batch
         /\ \A e \in Event : \/ turn'[t].seen[e] = turn[t].seen[e]
                             \/ turn'[t].seen[e] = Unseen[e] /\ e \notin turn'[t].batch
<1>1. turn[t] \in TurnState /\ turn[t].batch \subseteq Event
  BY DEF TypeOK, TurnState
<1> DEFINE next == [turn[t] EXCEPT !.at = "loop", !.event = NoEvent, !.heard = {}, !.failed = {}, !.beat = 0,
                      !.seen[turn[t].event] = Unseen[turn[t].event]]
<1>2. /\ next \in TurnState /\ next.at = "loop" /\ next.batch = turn[t].batch
      /\ next.seen = [turn[t].seen EXCEPT ![turn[t].event] = Unseen[turn[t].event]]
  BY ZenonT(60), <1>1, IdleType, Bounds DEF TurnState
<1>3. turn' = [turn EXCEPT ![t] = IF turn[t].batch = {} THEN Idle ELSE next]
  BY DEF Forgets
<1> HIDE DEF next
<1>4. \A e \in Event : \/ next.seen[e] = turn[t].seen[e]
                       \/ next.seen[e] = Unseen[e] /\ e \notin next.batch
  BY <1>1, <1>2 DEF TurnState
<1>5. CASE turn[t].batch = {}
  <2>1. turn'[t] = Idle /\ Idle.seen = Unseen /\ Idle.batch = {} /\ Idle.at = "loop"
    BY <1>3, <1>5 DEF TypeOK, Idle
  <2> QED
    BY <1>3, <1>5, <2>1, IdleType DEF TypeOK
<1>6. CASE turn[t].batch # {}
  <2>1. turn'[t] = next
    BY <1>3, <1>6 DEF TypeOK
  <2> QED
    BY <1>2, <1>3, <1>4, <1>6, <2>1 DEF TypeOK
<1> QED
  BY <1>5, <1>6

-----------------------------------------------------------------------------
(* What leaves a row, a turn or a holding as it was *)

(* A row's facts stand when the row says no more than it did (outbox.ts).   *)
LEMMA RowStands == ASSUME IInv, NEW e \in Event, Untouched(e) PROVE RowFits(e)'
<1>1. RowFits(e) /\ row[e] \in Row /\ given[e] \in Given
  BY DEF IInv, TypeOK, EventFits
<1>2. given'[e] = given[e] /\ given[e].failed \in Nat /\ row[e].attempts \in Nat
  BY <1>1 DEF Untouched, Given, Row
<1>3. row'[e].attempts <= given'[e].failed
  BY <1>1, <1>2 DEF RowFits, Untouched, SaysTheSame
<1>4. row'[e].dead => given'[e].failed >= MostAttempts
  BY <1>1, <1>2 DEF RowFits, Untouched, SaysTheSame
<1>5. told'[e] = told[e] /\ row'[e].stored = row[e].stored /\ row'[e].heard = row[e].heard
  BY DEF Untouched, SaysTheSame
<1> QED
  BY <1>1, <1>3, <1>4, <1>5 DEF RowFits, WasTold

(* What a turn knows of an event it takes no more of stands.                *)
LEMMA KnowsStill ==
  ASSUME IInv, TypeOK', NEW e \in Event, Grows(e), row[e].stored # "unsaved" => row'[e].stored # "unsaved",
         NEW t \in Turn, HoldsNoMore(t, e)
  PROVE  TurnKnows(t, e)'
<1>1. TurnKnows(t, e) /\ turn[t] \in TurnState
  BY DEF IInv, EventFits, TypeOK
<1>2. given[e].failed \in Nat /\ given'[e].failed \in Nat /\ given'[e].failed >= given[e].failed
  BY DEF IInv, TypeOK, Grows, Given
<1>3. turn[t].seen[e].attempts \in Nat /\ turn[t].seen[e].attempts <= given[e].failed
  BY <1>1 DEF TurnKnows, TurnState
<1>4. Known(t, e) \subseteq Listener
  BY <1>1 DEF Known, TurnState
<1>5. WasTold(e, Known(t, e)) /\ (Holds(t, e) => row[e].stored # "unsaved")
  BY <1>1 DEF TurnKnows
<1>6. WasTold(e, Known(t, e))'
  BY <1>4, <1>5 DEF WasTold, Grows, HoldsNoMore
<1> QED
  BY <1>2, <1>3, <1>5, <1>6 DEF HoldsNoMore, TurnKnows

(* An event no step touched fits still.                                     *)
LEMMA EventStands == ASSUME IInv, TypeOK', NEW e \in Event, Untouched(e) PROVE EventFits(e)'
<1>1. Grows(e) /\ row'[e].stored = row[e].stored
  BY DEF Untouched, SaysTheSame, Grows, IInv, TypeOK, Given
<1>2. \A t \in Turn : TurnKnows(t, e)'
  BY <1>1, KnowsStill DEF Untouched
<1>3. ASSUME ~given'[e].over PROVE HeldOnce(e)'
  <2>1. HeldOnce(e) /\ \A t \in Turn : Holds(t, e)' => Holds(t, e) /\ Known(t, e) \subseteq Known(t, e)'
    BY <1>3 DEF IInv, EventFits, Untouched, HoldsNoMore
  <2> QED
    BY <2>1 DEF HeldOnce, Untouched, SaysTheSame
<1> QED
  BY <1>2, <1>3, RowStands DEF EventFits

(* A turn nobody touched, one idle again, and one that forgot its event     *)
(* hold no more than they did.                                              *)
LEMMA OtherTurns ==
  ASSUME IInv, NEW u \in Turn, turn'[u] = turn[u]
  PROVE  HoldsLess(u)
<1>1. Took(u)
  BY DEF IInv
<1> QED
  BY <1>1 DEF Took, HoldsLess, HoldsNoMore, Holds, Delivers, Known

(* ... one idle again (the process went down).                              *)
LEMMA IdleHoldsLess == ASSUME IInv, NEW t \in Turn, turn'[t] = Idle PROVE HoldsLess(t)
<1>1. Idle.at = "loop" /\ Idle.batch = {} /\ Idle.seen = Unseen
  BY DEF Idle
<1> QED
  BY <1>1, IdleType DEF HoldsLess, HoldsNoMore, Took, Holds, Delivers, Known

(* ... one that forgot its event (redeliver, the next row).                 *)
LEMMA ForgettingHoldsLess ==
  ASSUME IInv, NEW t \in Turn, NEW event, Delivers(t, event), Forgets(t)
  PROVE  /\ event \in Event /\ ~Holds(t, event)' /\ turn' \in [Turn -> TurnState]
         /\ \A u \in Turn : HoldsLess(u)
<1>1. TypeOK /\ turn[t].at = "delivering" /\ turn[t].event = event /\ event \in Event \ turn[t].batch
  BY DEF IInv, Took, Delivers
<1>2. /\ turn' \in [Turn -> TurnState] /\ \A u \in Turn : u # t => turn'[u] = turn[u]
      /\ turn'[t].at = "loop" /\ turn'[t].batch \subseteq turn[t].batch
      /\ \A e \in Event : \/ turn'[t].seen[e] = turn[t].seen[e]
                          \/ turn'[t].seen[e] = Unseen[e] /\ e \notin turn'[t].batch
  BY <1>1, ForgetsEvent
<1>3. HoldsLess(t)
  <2>1. ASSUME NEW e \in Event
        PROVE  /\ Holds(t, e)' => Holds(t, e) /\ Known(t, e) \subseteq Known(t, e)'
               /\ Known(t, e)' \subseteq Known(t, e)
               /\ turn'[t].seen[e].attempts \in {0, turn[t].seen[e].attempts}
    <3>1. CASE turn'[t].seen[e] = turn[t].seen[e]
      BY <1>1, <1>2, <3>1 DEF Holds, Delivers, Known
    <3>2. CASE turn'[t].seen[e] = Unseen[e] /\ e \notin turn'[t].batch
      BY <1>2, <3>2, IdleType DEF Holds, Delivers, Known
    <3> QED
      BY <1>2, <3>1, <3>2
  <2> QED
    BY <1>2, <2>1 DEF HoldsLess, HoldsNoMore, Took
<1>4. ~Holds(t, event)'
  BY <1>1, <1>2 DEF Holds, Delivers
<1> QED
  BY <1>1, <1>2, <1>3, <1>4, OtherTurns

(* A step that tells nobody anything, takes up nothing and leaves what rows *)
(* say of who heard and holds them keeps the invariant.                     *)
LEMMA QuietStep ==
  ASSUME IInv, TypeOK', UNCHANGED <<told, given>>, keeping' \subseteq keeping, \A e \in Event : SaysTheSame(e),
         \A t \in Turn : HoldsLess(t)
  PROVE  IInv'
<1>1. MarksFit'
  BY DEF IInv, MarksFit
<1>2. \A e \in Event : EventFits(e)'
  BY EventStands DEF Untouched, HoldsLess
<1> QED
  BY <1>1, <1>2 DEF IInv, HoldsLess

-----------------------------------------------------------------------------
(* Steps nobody hears of *)

(* A turn that differs in what no other part reads holds as much.           *)
LEMMA SameTurn ==
  ASSUME IInv, NEW t \in Turn, turn'[t].at = turn[t].at, turn'[t].batch = turn[t].batch, turn'[t].event = turn[t].event,
         turn'[t].seen = turn[t].seen, turn'[t].heard = turn[t].heard
  PROVE  HoldsLess(t)
<1>1. Took(t)
  BY DEF IInv
<1> QED
  BY <1>1 DEF Took, HoldsLess, HoldsNoMore, Holds, Delivers, Known

(* A row that becomes another saying the same leaves all rows saying the    *)
(* same (outbox.ts, WHERE "id" = ?).                                        *)
LEMMA OneRow ==
  ASSUME TypeOK, NEW e \in Event, NEW next \in Row, row' = [row EXCEPT ![e] = next],
         next.stored = row[e].stored, next.heard = row[e].heard, next.takenBy = row[e].takenBy,
         next.attempts \in {0, row[e].attempts}, next.dead => row[e].dead
  PROVE  row' \in [Event -> Row] /\ \A d \in Event : SaysTheSame(d)
<1>1. row' \in [Event -> Row] /\ row'[e] = next /\ \A d \in Event : d # e => row'[d] = row[d]
  BY DEF TypeOK
<1> QED
  BY <1>1 DEF SaysTheSame

(* A mishap counted stays within its bound.                                 *)
LEMMA MishapType == ASSUME TypeOK, Mishap PROVE mishaps' \in 0..MaxMishaps
  BY Bounds DEF Mishap, TypeOK

(* The next row of a batch is one the turn held (redeliver).                *)
LEMMA TakeStep == ASSUME IInv, NEW t \in Turn, NEW e \in Event, Take(t, e) PROVE IInv'
<1>1. TypeOK /\ turn[t] \in TurnState /\ turn[t].at = "loop" /\ e \in turn[t].batch
  BY DEF IInv, TypeOK, Take
<1> DEFINE next == [turn[t] EXCEPT !.at = "delivering", !.event = e, !.batch = turn[t].batch \ {e},
                      !.heard = {}, !.failed = {}, !.beat = 0]
<1>2. /\ next \in TurnState /\ next.at = "delivering" /\ next.event = e /\ next.batch = turn[t].batch \ {e}
      /\ next.heard = {} /\ next.seen = turn[t].seen
  BY <1>1, Bounds DEF TurnState
<1>3. turn' = [turn EXCEPT ![t] = next]
  BY DEF Take
<1> HIDE DEF next
<1>4. turn' \in [Turn -> TurnState] /\ turn'[t] = next /\ \A u \in Turn : u # t => turn'[u] = turn[u]
  BY <1>1, <1>2, <1>3 DEF TypeOK
<1>5. UNCHANGED <<row, keeping, up, told, given, mishaps>>
  BY DEF Take
<1>6. TypeOK'
  BY <1>1, <1>4, <1>5 DEF TypeOK
<1>7. HoldsLess(t)
  BY <1>1, <1>2, <1>4 DEF HoldsLess, HoldsNoMore, Took, Holds, Delivers, Known
<1> QED
  BY <1>4, <1>5, <1>6, <1>7, OtherTurns, QuietStep DEF SaysTheSame

(* A listener that throws hears nothing (events.ts).                        *)
LEMMA ThrowsStep == ASSUME IInv, NEW t \in Turn, NEW l \in Listener, Throws(t, l) PROVE IInv'
<1>1. TypeOK /\ turn[t] \in TurnState
  BY DEF IInv, TypeOK
<1> DEFINE next == [turn[t] EXCEPT !.failed = turn[t].failed \cup {l}]
<1>2. /\ next \in TurnState /\ next.at = turn[t].at /\ next.batch = turn[t].batch /\ next.event = turn[t].event
      /\ next.seen = turn[t].seen /\ next.heard = turn[t].heard
  BY <1>1 DEF TurnState
<1>3. turn' = [turn EXCEPT ![t] = next] /\ UNCHANGED <<row, keeping, up, told, given, mishaps>>
  BY DEF Throws
<1> HIDE DEF next
<1>4. turn' \in [Turn -> TurnState] /\ turn'[t] = next /\ \A u \in Turn : u # t => turn'[u] = turn[u]
  BY <1>1, <1>2, <1>3 DEF TypeOK
<1>5. TypeOK'
  BY <1>1, <1>3, <1>4 DEF TypeOK
<1>6. HoldsLess(t)
  BY <1>2, <1>4, SameTurn
<1> QED
  BY <1>3, <1>4, <1>5, <1>6, OtherTurns, QuietStep DEF SaysTheSame

(* A lease renewed is of a row the process holds (holdWhileDelivering).     *)
LEMMA RenewStep == ASSUME IInv, NEW t \in Turn, Renew(t) PROVE IInv'
<1>1. TypeOK /\ turn[t] \in TurnState
  BY DEF IInv, TypeOK
<1> DEFINE next == [turn[t] EXCEPT !.beat = 0]
<1>2. /\ next \in TurnState /\ next.at = turn[t].at /\ next.batch = turn[t].batch /\ next.event = turn[t].event
      /\ next.seen = turn[t].seen /\ next.heard = turn[t].heard
  BY <1>1, Bounds DEF TurnState
<1>3. turn' = [turn EXCEPT ![t] = next] /\ UNCHANGED <<keeping, up, told, given, mishaps>>
  BY DEF Renew
<1> HIDE DEF next
<1>4. turn' \in [Turn -> TurnState] /\ turn'[t] = next /\ \A u \in Turn : u # t => turn'[u] = turn[u]
  BY <1>1, <1>2, <1>3 DEF TypeOK
<1>5. row' \in [Event -> Row] /\ \A e \in Event : SaysTheSame(e)
  <2>1. PICK e \in Event : e = turn[t].event
    BY DEF Renew, IInv, Took
  <2> DEFINE held == [row[e] EXCEPT !.lease = LeaseMs]
  <2>2. row[e] \in Row
    BY <1>1 DEF TypeOK
  <2>3. /\ held \in Row /\ held.stored = row[e].stored /\ held.heard = row[e].heard /\ held.takenBy = row[e].takenBy
        /\ held.attempts = row[e].attempts /\ held.dead = row[e].dead
    BY <2>2, Bounds DEF Row
  <2>4. row' = row \/ row' = [row EXCEPT ![e] = held]
    BY <2>1 DEF Renew
  <2> HIDE DEF held
  <2> QED
    BY <1>1, <2>3, <2>4, OneRow DEF TypeOK, SaysTheSame
<1>6. TypeOK'
  BY <1>1, <1>3, <1>4, <1>5 DEF TypeOK
<1>7. HoldsLess(t)
  BY <1>2, <1>4, SameTurn
<1> QED
  BY <1>3, <1>4, <1>5, <1>6, <1>7, OtherTurns, QuietStep

(* A dead letter put back is held as it was, and heard as it was (revive).  *)
LEMMA ReviveStep == ASSUME IInv, NEW e \in Event, Revive(e) PROVE IInv'
<1>1. TypeOK /\ UNCHANGED <<turn, keeping, up, told, given>> /\ mishaps' \in 0..MaxMishaps
  BY MishapType DEF IInv, Revive
<1>2. /\ Revived(e) \in Row /\ Revived(e).stored = row[e].stored /\ Revived(e).heard = row[e].heard
      /\ Revived(e).takenBy = row[e].takenBy /\ Revived(e).attempts = 0 /\ ~Revived(e).dead
  <2>1. row[e] \in Row
    BY <1>1 DEF TypeOK
  <2> QED
    BY <2>1, Bounds DEF Revived, Row
<1>3. row' \in [Event -> Row] /\ \A d \in Event : SaysTheSame(d)
  BY <1>1, <1>2, OneRow DEF Revive
<1>4. TypeOK'
  BY <1>1, <1>3 DEF TypeOK
<1> QED
  BY <1>1, <1>3, <1>4, OtherTurns, QuietStep

(* An outcome that could not be recorded leaves its row held (redeliver).   *)
LEMMA RecordFailsStep == ASSUME IInv, NEW t \in Turn, RecordFails(t) PROVE IInv'
<1>1. /\ TypeOK /\ Delivers(t, turn[t].event) /\ Forgets(t) /\ UNCHANGED <<row, keeping, up, told, given>>
      /\ mishaps' \in 0..MaxMishaps
  BY MishapType DEF IInv, RecordFails, Settled, Delivers
<1>2. turn' \in [Turn -> TurnState] /\ \A u \in Turn : HoldsLess(u)
  BY <1>1, ForgettingHoldsLess
<1>3. TypeOK'
  BY <1>1, <1>2 DEF TypeOK
<1> QED
  BY <1>1, <1>2, <1>3, QuietStep DEF SaysTheSame

(* A process that goes down forgets its turns, and its marks are lost.      *)
LEMMA CrashStep == ASSUME IInv, NEW p \in Proc, Crash(p) PROVE IInv'
<1>1. /\ TypeOK /\ keeping' \subseteq keeping /\ up' \subseteq up
      /\ UNCHANGED <<row, told, given>> /\ mishaps' \in 0..MaxMishaps
  BY MishapType DEF IInv, Crash
<1>2. turn' \in [Turn -> TurnState] /\ \A t \in Turn : turn'[t] = Idle \/ turn'[t] = turn[t]
  BY <1>1, IdleType DEF Crash, TypeOK
<1>3. TypeOK'
  BY <1>1, <1>2 DEF TypeOK
<1>4. \A t \in Turn : HoldsLess(t)
  BY <1>2, OtherTurns, IdleHoldsLess
<1> QED
  BY <1>1, <1>3, <1>4, QuietStep DEF SaysTheSame

(* Time that passes, or is found to have passed, moves waits and leases     *)
(* only.                                                                    *)
LEMMA TimeStep == ASSUME IInv, Tick \/ Stall PROVE IInv'
<1>1. TypeOK /\ UNCHANGED <<keeping, up, told, given>>
  BY DEF IInv, Tick, Stall
<1>2. mishaps' \in 0..MaxMishaps
  BY <1>1, MishapType DEF Tick, Stall, TypeOK
<1>3. row' \in [Event -> Row] /\ \A e \in Event : SaysTheSame(e)
  <2>1. ASSUME NEW e \in Event PROVE row'[e] \in Row /\ SaysTheSame(e)
    <3>1. row[e] \in Row /\ row[e].wait \in 0..LeaseMs /\ row[e].lease \in 0..(2 * LeaseMs)
      BY <1>1 DEF TypeOK, Row
    <3>2. Less(row[e].wait) \in 0..LeaseMs /\ Less(row[e].lease) \in 0..(2 * LeaseMs)
      BY <3>1, Bounds DEF Less
    <3>3. \E wait \in 0..LeaseMs, lease \in 0..(2 * LeaseMs) :
            row'[e] = [row[e] EXCEPT !.wait = wait, !.lease = lease]
      BY <3>2, Bounds DEF Tick, Stall
    <3> QED
      BY <3>1, <3>3 DEF Row, SaysTheSame
  <2>2. DOMAIN row' = Event /\ row' = [e \in Event |-> row'[e]]
    BY DEF Tick, Stall
  <2> QED
    BY <2>1, <2>2
<1>4. turn' \in [Turn -> TurnState] /\ \A t \in Turn : HoldsLess(t)
  <2>1. CASE turn' = turn
    BY <1>1, <2>1, OtherTurns DEF TypeOK
  <2>2. CASE Tick
    <3>1. ASSUME NEW t \in Turn PROVE turn'[t] \in TurnState /\ HoldsLess(t)
      <4>1. turn[t] \in TurnState
        BY <1>1 DEF TypeOK
      <4> DEFINE next == IF turn[t].beat < Third THEN turn[t].beat + 1 ELSE turn[t].beat
      <4>5. next \in 0..Third
        BY <4>1, Bounds DEF TurnState
      <4>6. turn'[t] = turn[t] \/ turn'[t] = [turn[t] EXCEPT !.beat = next]
        BY <2>2 DEF Tick
      <4> HIDE DEF next
      <4>2. turn'[t] = turn[t] \/ \E beat \in 0..Third : turn'[t] = [turn[t] EXCEPT !.beat = beat]
        BY <4>5, <4>6
      <4>3. turn'[t] \in TurnState /\ turn'[t].at = turn[t].at /\ turn'[t].batch = turn[t].batch
            /\ turn'[t].event = turn[t].event /\ turn'[t].seen = turn[t].seen /\ turn'[t].heard = turn[t].heard
        BY <4>1, <4>2 DEF TurnState
      <4> QED
        BY <4>3, SameTurn
    <3>2. turn' = [t \in Turn |-> turn'[t]]
      BY <2>2 DEF Tick
    <3> QED
      BY <3>1, <3>2
  <2> QED
    BY <2>1, <2>2 DEF Stall
<1>5. TypeOK'
  BY <1>1, <1>2, <1>3, <1>4 DEF TypeOK
<1> QED
  BY <1>1, <1>3, <1>4, <1>5, QuietStep

-----------------------------------------------------------------------------
(* Steps that hand out, tell and record *)

(* A committed event is held by the turn that emits it, and nobody heard it *)
(* yet (ctx.tx, outbox.ts save).                                            *)
LEMMA EmitStep ==
  ASSUME IInv, NEW t \in Turn, NEW e \in Event, NEW spent \in {0, LeaseMs}, Emit(t, e, spent)
  PROVE  IInv'
<1>1. /\ TypeOK /\ row[e].stored = "unsaved" /\ turn[t].at = "loop" /\ turn[t].batch = {}
      /\ EventFits(e) /\ given[e] \in Given /\ UNCHANGED <<keeping, up, told, mishaps>>
  BY DEF IInv, Emit, IsIdle, TypeOK
<1>2. Saved(t, spent) \in Row /\ Saved(t, spent).stored = "kept" /\ Saved(t, spent).heard = {}
      /\ Saved(t, spent).takenBy = Me(t) /\ Saved(t, spent).attempts = 0 /\ Saved(t, spent).dead = FALSE
  <2>1. LeaseMs - spent \in 0..LeaseMs /\ LeaseMs - spent \in 0..(2 * LeaseMs)
    BY Bounds
  <2> QED
    BY <2>1, Bounds DEF Saved, NewRow, Row
<1> DEFINE next == [Idle EXCEPT !.at = "delivering", !.event = e, !.commit = TRUE]
<1>3. /\ next \in TurnState /\ next.at = "delivering" /\ next.event = e /\ next.batch = {}
      /\ next.seen = Unseen /\ next.heard = {}
  BY IdleType DEF Idle, TurnState
<1>4. /\ turn' = [turn EXCEPT ![t] = next] /\ row' = [row EXCEPT ![e] = Saved(t, spent)]
      /\ given' = [given EXCEPT ![e] = [given[e] EXCEPT !.times = 1]]
  BY DEF Emit
<1> HIDE DEF next
<1>5. /\ turn' \in [Turn -> TurnState] /\ turn'[t] = next /\ \A u \in Turn : u # t => turn'[u] = turn[u]
      /\ row' \in [Event -> Row] /\ row'[e] = Saved(t, spent) /\ \A d \in Event : d # e => row'[d] = row[d]
  BY <1>1, <1>2, <1>3, <1>4 DEF TypeOK
<1>6. /\ given' \in [Event -> Given] /\ given'[e].failed = given[e].failed /\ given'[e].over = given[e].over
      /\ \A d \in Event : d # e => given'[d] = given[d]
  BY <1>1, <1>4 DEF TypeOK, Given
<1>7. TypeOK'
  BY <1>1, <1>5, <1>6 DEF TypeOK
<1>8. MarksFit' /\ \A u \in Turn : Took(u)'
  BY <1>1, <1>3, <1>5 DEF IInv, MarksFit, Took
<1>9. ASSUME NEW d \in Event, d # e PROVE EventFits(d)'
  <2>1. HoldsNoMore(t, d)
    BY <1>1, <1>3, <1>5, <1>9, IdleType DEF HoldsNoMore, Holds, Delivers, Known
  <2>2. \A u \in Turn : HoldsNoMore(u, d)
    BY <1>5, <2>1, OtherTurns DEF HoldsLess
  <2>3. Untouched(d)
    BY <1>1, <1>5, <1>6, <1>9, <2>2 DEF Untouched, SaysTheSame
  <2> QED
    BY <1>7, <2>3, EventStands
<1>10. RowFits(e)'
  BY <1>1, <1>2, <1>5, <1>6 DEF EventFits, RowFits, WasTold, Given
<1>11. \A u \in Turn : TurnKnows(u, e)'
  <2>1. TurnKnows(t, e)'
    BY <1>1, <1>2, <1>3, <1>5, <1>6, IdleType DEF TurnKnows, Known, WasTold, Given
  <2>2. Grows(e) /\ row'[e].stored # "unsaved"
    BY <1>1, <1>2, <1>5, <1>6 DEF Grows, Given
  <2> QED
    BY <1>5, <1>7, <2>1, <2>2, OtherTurns, KnowsStill DEF HoldsLess
<1>12. ASSUME ~given'[e].over PROVE HeldOnce(e)'
  <2>1. \A u \in Turn : ~Holds(u, e)
    BY <1>1, <1>6, <1>12 DEF EventFits, HeldOnce
  <2>2. \A u \in Turn : Holds(u, e)' => u = t
    BY <1>5, <2>1 DEF Holds, Delivers
  <2>3. \A l \in Listener : told'[e][l] = 0
    BY <1>1 DEF EventFits, RowFits
  <2> QED
    BY <1>2, <1>5, <2>2, <2>3 DEF HeldOnce
<1> QED
  BY <1>7, <1>8, <1>9, <1>10, <1>11, <1>12 DEF IInv, EventFits

(* A claim of a row nobody held is the only one; a claim of one held is     *)
(* counted as a takeover (outbox.ts claim).                                 *)
LEMMA ClaimStep ==
  ASSUME IInv, NEW t \in Turn, NEW ahead \in {0, LeaseMs}, Claim(t, ahead), up' \subseteq Proc, UNCHANGED mishaps
  PROVE  IInv'
<1>1. PICK S \in SUBSET {e \in Event : Claimable(e, ahead)} :
        /\ row' = [e \in Event |-> IF e \notin S THEN row[e] ELSE
                     [row[e] EXCEPT !.takenBy = Me(t), !.lease = LeaseMs + ahead]]
        /\ turn' = [turn EXCEPT ![t] = [Idle EXCEPT !.batch = S,
                     !.seen = [e \in Event |-> IF e \notin S THEN Unseen[e] ELSE
                                [heard |-> row[e].heard, attempts |-> row[e].attempts]]]]
        /\ given' = [e \in Event |-> IF e \notin S THEN given[e] ELSE
                      [given[e] EXCEPT !.times = given[e].times + 1,
                                       !.over = given[e].over \/ row[e].takenBy # Nobody]]
  BY DEF Claim
<1>2. TypeOK /\ turn[t].at = "loop" /\ turn[t].batch = {} /\ S \subseteq Event /\ UNCHANGED <<keeping, told>>
  BY DEF IInv, Claim, IsIdle
<1>3. \A e \in S : row[e].stored = "kept" /\ row[e] \in Row /\ given[e] \in Given
  BY <1>2 DEF Claimable, TypeOK
<1> DEFINE read == [e \in Event |-> IF e \notin S THEN Unseen[e] ELSE
                     [heard |-> row[e].heard, attempts |-> row[e].attempts]]
           next == [Idle EXCEPT !.batch = S, !.seen = read]
<1>4. /\ read \in [Event -> [heard: SUBSET Listener, attempts: Nat]]
      /\ \A e \in Event : read[e].heard = (IF e \in S THEN row[e].heard ELSE {})
                          /\ read[e].attempts = (IF e \in S THEN row[e].attempts ELSE 0)
  BY <1>3, IdleType DEF Row
<1> HIDE DEF read
<1>5. next \in TurnState /\ next.at = "loop" /\ next.batch = S /\ next.seen = read
  BY <1>2, <1>4, IdleType DEF Idle, TurnState
<1>6. turn' = [turn EXCEPT ![t] = next]
  BY <1>1 DEF read
<1> HIDE DEF next
<1>7. turn' \in [Turn -> TurnState] /\ turn'[t] = next /\ \A u \in Turn : u # t => turn'[u] = turn[u]
  BY <1>2, <1>5, <1>6 DEF TypeOK
<1>8. ASSUME NEW e \in S
      PROVE  /\ row'[e] \in Row /\ row'[e].stored = "kept" /\ row'[e].heard = row[e].heard /\ row'[e].takenBy = Me(t)
             /\ row'[e].attempts = row[e].attempts /\ row'[e].dead = row[e].dead
  <2>1. LeaseMs + ahead \in 0..(2 * LeaseMs) /\ Me(t) \in Proc \cup {Nobody}
    BY Bounds
  <2>2. row'[e] = [row[e] EXCEPT !.takenBy = Me(t), !.lease = LeaseMs + ahead]
    BY <1>1, <1>2
  <2> QED
    BY <1>3, <2>1, <2>2 DEF Row
<1>9. ASSUME NEW e \in S
      PROVE  /\ given'[e] \in Given /\ given'[e].failed = given[e].failed
             /\ given'[e].over = (given[e].over \/ row[e].takenBy # Nobody)
  <2>1. given'[e] = [given[e] EXCEPT !.times = given[e].times + 1, !.over = given[e].over \/ row[e].takenBy # Nobody]
    BY <1>1, <1>2
  <2>2. given[e].times + 1 \in Nat
    BY <1>3 DEF Given
  <2> QED
    BY <1>3, <2>1, <2>2 DEF Given
<1>10. \A e \in Event \ S : row'[e] = row[e] /\ given'[e] = given[e]
  BY <1>1
<1>11. row' \in [Event -> Row] /\ given' \in [Event -> Given]
  <2>1. \A e \in Event : row'[e] \in Row /\ given'[e] \in Given
    BY <1>2, <1>8, <1>9, <1>10 DEF TypeOK
  <2>2. row' = [e \in Event |-> row'[e]] /\ given' = [e \in Event |-> given'[e]]
    BY <1>1
  <2> QED
    BY <2>1, <2>2
<1>12. TypeOK'
  BY <1>2, <1>7, <1>11 DEF TypeOK
<1>13. MarksFit' /\ \A u \in Turn : Took(u)'
  BY <1>2, <1>5, <1>7 DEF IInv, MarksFit, Took
<1>14. ASSUME NEW e \in Event \ S PROVE EventFits(e)'
  <2>1. HoldsNoMore(t, e)
    BY <1>2, <1>4, <1>5, <1>7 DEF HoldsNoMore, Holds, Delivers, Known
  <2>2. \A u \in Turn : HoldsNoMore(u, e)
    BY <1>7, <2>1, OtherTurns DEF HoldsLess
  <2>3. Untouched(e)
    BY <1>2, <1>10, <2>2 DEF Untouched, SaysTheSame
  <2> QED
    BY <1>12, <2>3, EventStands
<1>15. ASSUME NEW e \in S PROVE EventFits(e)'
  <2>1. EventFits(e) /\ e \in Event
    BY <1>2 DEF IInv
  <2>2. Known(t, e)' = row[e].heard /\ turn'[t].seen[e].attempts = row[e].attempts
    BY <1>2, <1>4, <1>5, <1>7 DEF Known, Delivers
  <2>3. RowFits(e)'
    BY <1>2, <1>3, <1>8, <1>9, <2>1 DEF EventFits, RowFits, WasTold
  <2>4. Grows(e) /\ row'[e].stored # "unsaved"
    BY <1>2, <1>3, <1>8, <1>9 DEF Grows, Given
  <2>5. TurnKnows(t, e)'
    BY <1>2, <1>9, <2>1, <2>2, <2>4 DEF TurnKnows, EventFits, RowFits, WasTold
  <2>6. \A u \in Turn : TurnKnows(u, e)'
    BY <1>7, <1>12, <2>1, <2>4, <2>5, OtherTurns, KnowsStill DEF HoldsLess
  <2>7. ASSUME ~given'[e].over PROVE HeldOnce(e)'
    <3>1. HeldOnce(e) /\ row[e].takenBy = Nobody /\ row[e].stored = "kept"
      BY <1>3, <1>9, <2>1, <2>7 DEF EventFits
    <3>2. \A u \in Turn : Holds(u, e)' => u = t
      BY <1>7, <3>1, Bounds DEF HeldOnce, Holds, Delivers
    <3> QED
      BY <1>2, <1>8, <2>2, <3>1, <3>2, Bounds DEF HeldOnce
  <2> QED
    BY <2>3, <2>6, <2>7 DEF EventFits
<1> QED
  BY <1>12, <1>13, <1>14, <1>15 DEF IInv

(* What is due on a beat, and what a process before left (redeliver,        *)
(* start).                                                                  *)
LEMMA SweepStep == ASSUME IInv, NEW t \in Turn, Sweep(t) PROVE IInv'
<1>1. up' \subseteq Proc /\ Claim(t, 0) /\ UNCHANGED mishaps
  BY DEF Sweep, IInv, TypeOK
<1> QED
  BY <1>1, ClaimStep

(* A process that starts sweeps once, or finds nothing due (start).         *)
LEMMA StartSweepStep == ASSUME IInv, NEW t \in Turn, StartSweep(t) PROVE IInv'
<1>1. TypeOK /\ up' \subseteq Proc /\ UNCHANGED mishaps
  BY Bounds DEF StartSweep, IInv, TypeOK
<1>2. CASE Claim(t, LeaseMs)
  BY <1>1, <1>2, ClaimStep
<1>3. CASE UNCHANGED <<row, turn, keeping, told, given>>
  <2>1. TypeOK'
    BY <1>1, <1>3 DEF TypeOK
  <2> QED
    BY <1>3, <2>1, OtherTurns, QuietStep DEF SaysTheSame
<1> QED
  BY <1>2, <1>3 DEF StartSweep

(* A listener that answers was not known to have heard: if the event was    *)
(* never taken over, it had not (events.ts, keepHeard).                     *)
LEMMA HearsStep == ASSUME IInv, NEW t \in Turn, NEW l \in Listener, Hears(t, l) PROVE IInv'
<1>1. PICK e \in Event \ turn[t].batch : e = turn[t].event
  BY DEF IInv, Took, Hears
<1>2. /\ TypeOK /\ turn[t] \in TurnState /\ Delivers(t, e) /\ Holds(t, e) /\ EventFits(e) /\ e \in Event
      /\ told[e] \in [Listener -> Nat] /\ UNCHANGED <<row, up, given, mishaps>>
  BY <1>1 DEF IInv, TypeOK, Hears, Delivers, Holds
<1>3. Known(t, e) = turn[t].seen[e].heard \cup turn[t].heard /\ l \notin Known(t, e)
  BY <1>1, <1>2 DEF Hears, Pending, Before, Known
<1> DEFINE next == [turn[t] EXCEPT !.heard = turn[t].heard \cup {l}]
<1>4. /\ next \in TurnState /\ next.at = turn[t].at /\ next.batch = turn[t].batch /\ next.event = turn[t].event
      /\ next.seen = turn[t].seen /\ next.heard = turn[t].heard \cup {l}
  BY <1>2 DEF TurnState
<1>5. turn' = [turn EXCEPT ![t] = next]
  BY DEF Hears
<1> HIDE DEF next
<1>6. turn' \in [Turn -> TurnState] /\ turn'[t] = next /\ \A u \in Turn : u # t => turn'[u] = turn[u]
  BY <1>2, <1>4, <1>5 DEF TypeOK
<1> DEFINE more == [told[e] EXCEPT ![l] = told[e][l] + 1]
<1>7. more \in [Listener -> Nat] /\ more[l] = told[e][l] + 1 /\ \A k \in Listener : k # l => more[k] = told[e][k]
  BY <1>2
<1>8. told' = [told EXCEPT ![e] = more] /\ keeping' = keeping \cup {<<Me(t), e, l>>}
  BY <1>1 DEF Hears
<1> HIDE DEF more
<1>9. told' \in [Event -> [Listener -> Nat]] /\ told'[e] = more /\ \A d \in Event : d # e => told'[d] = told[d]
  BY <1>2, <1>7, <1>8 DEF TypeOK
<1>10. TypeOK'
  BY <1>2, <1>6, <1>8, <1>9, Bounds DEF TypeOK
<1>11. \A d \in Event : Grows(d)
  <2>1. \A k \in Listener : told[e][k] > 0 => more[k] > 0
    BY <1>2, <1>7
  <2> QED
    BY <1>2, <1>9, <2>1 DEF Grows, TypeOK, Given
<1>12. MarksFit'
  <2>1. ASSUME NEW m \in keeping PROVE told'[m[2]][m[3]] > 0
    <3>1. told[m[2]][m[3]] > 0 /\ m[2] \in Event /\ m[3] \in Listener
      BY <1>2 DEF IInv, MarksFit, TypeOK
    <3> QED
      BY <1>11, <3>1 DEF Grows
  <2>2. told'[e][l] > 0
    BY <1>2, <1>7, <1>9
  <2> QED
    BY <1>8, <2>1, <2>2 DEF MarksFit
<1>13. \A u \in Turn : Took(u)'
  BY <1>4, <1>6 DEF IInv, Took
<1>14. ASSUME NEW d \in Event, d # e PROVE EventFits(d)'
  <2>1. HoldsNoMore(t, d)
    BY <1>1, <1>4, <1>6, <1>14 DEF HoldsNoMore, Holds, Delivers, Known
  <2>2. \A u \in Turn : HoldsNoMore(u, d)
    BY <1>6, <2>1, OtherTurns DEF HoldsLess
  <2>3. Untouched(d)
    BY <1>2, <1>9, <1>14, <2>2 DEF Untouched, SaysTheSame
  <2> QED
    BY <1>10, <2>3, EventStands
<1>15. Known(t, e)' = Known(t, e) \cup {l} /\ (Holds(t, e)' <=> Holds(t, e))
  BY <1>1, <1>2, <1>3, <1>4, <1>6 DEF Delivers, Known, Holds
<1>16. TurnKnows(t, e)'
  <2>1. TurnKnows(t, e) /\ told'[e][l] > 0 /\ Known(t, e) \subseteq Listener
    BY <1>2, <1>3, <1>7, <1>9 DEF EventFits, TurnState
  <2>2. WasTold(e, Known(t, e))'
    BY <1>11, <1>15, <2>1 DEF WasTold, Grows, TurnKnows
  <2> QED
    BY <1>2, <1>4, <1>6, <1>15, <2>1, <2>2 DEF TurnKnows
<1>17. \A u \in Turn : TurnKnows(u, e)'
  BY <1>2, <1>6, <1>10, <1>11, <1>16, OtherTurns, KnowsStill DEF HoldsLess
<1>18. RowFits(e)'
  <2>1. row[e].stored # "unsaved" /\ RowFits(e) /\ row[e].heard \subseteq Listener
    BY <1>2 DEF EventFits, TurnKnows, TypeOK, Row
  <2> QED
    BY <1>2, <1>11, <2>1 DEF RowFits, WasTold, Grows
<1>19. ASSUME ~given'[e].over PROVE HeldOnce(e)'
  <2>1. HeldOnce(e)
    BY <1>2, <1>19 DEF EventFits
  <2>2. told[e][l] = 0 /\ told'[e][l] = 1
    BY <1>2, <1>3, <1>7, <1>9, <2>1 DEF HeldOnce
  <2>3. \A u \in Turn : Holds(u, e)' => u = t
    BY <1>2, <1>6, <2>1 DEF HeldOnce, Holds, Delivers
  <2>4. row'[e].stored = "kept" /\ row'[e].takenBy = Me(t) /\ Me(t) # Nobody
    BY <1>2, <2>1, Bounds DEF HeldOnce
  <2>5. \A k \in Listener : told'[e][k] > 0 => told'[e][k] = 1 /\ k \in Known(t, e)'
    BY <1>2, <1>7, <1>9, <1>15, <2>1, <2>2 DEF HeldOnce
  <2> QED
    BY <2>3, <2>4, <2>5 DEF HeldOnce
<1> QED
  BY <1>10, <1>12, <1>13, <1>14, <1>17, <1>18, <1>19 DEF IInv, EventFits

(* A mark that lands is of a listener that heard (outbox.ts markHeard).     *)
LEMMA MarkHeardStep == ASSUME IInv, NEW m \in keeping, MarkHeard(m) PROVE IInv'
<1>1. PICK e \in Event, l \in Listener : e = m[2] /\ l = m[3]
  BY DEF IInv, TypeOK
<1>2. /\ TypeOK /\ row[e] \in Row /\ told[e][l] > 0 /\ EventFits(e)
      /\ keeping' \subseteq keeping /\ UNCHANGED <<turn, up, told, given, mishaps>>
  BY <1>1 DEF IInv, TypeOK, MarksFit, MarkHeard
<1> DEFINE marked == [row[e] EXCEPT !.heard = row[e].heard \cup {l}]
<1>3. /\ marked \in Row /\ marked.stored = row[e].stored /\ marked.heard = row[e].heard \cup {l}
      /\ marked.takenBy = row[e].takenBy /\ marked.attempts = row[e].attempts /\ marked.dead = row[e].dead
  BY <1>2 DEF Row
<1>4. row' = row \/ row' = [row EXCEPT ![e] = marked]
  BY <1>1 DEF MarkHeard
<1> HIDE DEF marked
<1>5. /\ row' \in [Event -> Row] /\ row'[e] \in {row[e], marked}
      /\ \A d \in Event : d # e => row'[d] = row[d]
  BY <1>2, <1>3, <1>4 DEF TypeOK
<1>6. TypeOK' /\ MarksFit' /\ (\A u \in Turn : Took(u)') /\ \A u \in Turn : HoldsLess(u)
  BY <1>2, <1>5, OtherTurns DEF IInv, TypeOK, MarksFit, Took
<1>7. \A d \in Event : d # e => EventFits(d)'
  BY <1>2, <1>5, <1>6, EventStands DEF Untouched, SaysTheSame, HoldsLess
<1>8. RowFits(e)'
  BY <1>2, <1>3, <1>5 DEF EventFits, RowFits, WasTold
<1>9. \A u \in Turn : TurnKnows(u, e)'
  <2>1. Grows(e) /\ row'[e].stored = row[e].stored
    BY <1>2, <1>3, <1>5 DEF Grows, TypeOK, Given
  <2> QED
    BY <1>6, <2>1, KnowsStill DEF HoldsLess
<1>10. ASSUME ~given'[e].over PROVE HeldOnce(e)'
  <2>1. HeldOnce(e) /\ \A u \in Turn : (Holds(u, e)' <=> Holds(u, e)) /\ Known(u, e)' = Known(u, e)
    BY <1>2, <1>10 DEF EventFits, Holds, Delivers, Known
  <2> QED
    BY <1>2, <1>3, <1>5, <2>1 DEF HeldOnce
<1> QED
  BY <1>6, <1>7, <1>8, <1>9, <1>10 DEF IInv, EventFits

(* Every listener settled and none threw: all of them heard (markSent).     *)
LEMMA MarkSentStep == ASSUME IInv, NEW t \in Turn, MarkSent(t) PROVE IInv'
<1>1. PICK e \in Event \ turn[t].batch : e = turn[t].event
  BY DEF IInv, Took, MarkSent, Settled
<1>2. /\ TypeOK /\ turn[t] \in TurnState /\ Delivers(t, e) /\ Holds(t, e) /\ EventFits(e) /\ Forgets(t)
      /\ UNCHANGED <<keeping, up, told, given, mishaps>>
  BY <1>1 DEF IInv, TypeOK, MarkSent, Settled, Delivers, Holds
<1>3. turn' \in [Turn -> TurnState] /\ ~Holds(t, e)' /\ \A u \in Turn : HoldsLess(u)
  BY <1>2, ForgettingHoldsLess
<1> DEFINE gone == [NewRow EXCEPT !.stored = "gone"]
<1>4. gone \in Row /\ gone.stored = "gone" /\ gone.heard = {} /\ gone.attempts = 0 /\ ~gone.dead
  BY Bounds DEF NewRow, Row
<1>5. row' = [row EXCEPT ![e] = gone]
  BY <1>1 DEF MarkSent
<1> HIDE DEF gone
<1>6. row' \in [Event -> Row] /\ row'[e] = gone /\ \A d \in Event : d # e => row'[d] = row[d]
  BY <1>2, <1>4, <1>5 DEF TypeOK
<1>7. TypeOK' /\ MarksFit' /\ (\A u \in Turn : Took(u)')
  BY <1>2, <1>3, <1>6 DEF IInv, TypeOK, MarksFit, HoldsLess
<1>8. \A d \in Event : d # e => EventFits(d)'
  BY <1>2, <1>3, <1>6, <1>7, EventStands DEF Untouched, SaysTheSame, HoldsLess
<1>9. WasTold(e, Listener)
  <2>1. Listener \subseteq Known(t, e)
    BY <1>1, <1>2 DEF MarkSent, Settled, Pending, Before, Known
  <2> QED
    BY <1>2, <2>1 DEF EventFits, TurnKnows, WasTold
<1>10. RowFits(e)'
  BY <1>2, <1>4, <1>6, <1>9 DEF RowFits, WasTold, TypeOK, Given
<1>11. \A u \in Turn : TurnKnows(u, e)'
  <2>1. Grows(e) /\ row'[e].stored # "unsaved"
    BY <1>2, <1>4, <1>6 DEF Grows, TypeOK, Given
  <2> QED
    BY <1>3, <1>7, <2>1, KnowsStill DEF HoldsLess
<1>12. ASSUME ~given'[e].over PROVE HeldOnce(e)'
  <2>1. HeldOnce(e)
    BY <1>2, <1>12 DEF EventFits
  <2>2. \A u \in Turn : ~Holds(u, e)'
    BY <1>2, <1>3, <2>1 DEF HoldsLess, HoldsNoMore, HeldOnce
  <2> QED
    BY <1>2, <1>4, <1>6, <2>1, <2>2 DEF HeldOnce
<1> QED
  BY <1>7, <1>8, <1>10, <1>11, <1>12 DEF IInv, EventFits

(* A refused delivery is written only over a row nobody else took; an event *)
(* never taken over is held by this turn alone, which then leaves in the    *)
(* row everyone that heard (outbox.ts markRetry, markDead).                 *)
LEMMA RecordsStep ==
  ASSUME IInv, NEW t \in Turn, NEW e, Delivers(t, e), NEW changed \in Row, changed.stored = row[e].stored,
         changed.dead => row[e].dead \/ Attempts(t) >= MostAttempts,
         Records(t, changed), Failed(t), Forgets(t), UNCHANGED <<keeping, up, told, mishaps>>
  PROVE  IInv'
<1>1. e \in Event /\ turn' \in [Turn -> TurnState] /\ ~Holds(t, e)' /\ \A u \in Turn : HoldsLess(u)
  BY ForgettingHoldsLess
<1>2. /\ TypeOK /\ turn[t] \in TurnState /\ turn[t].event = e /\ Holds(t, e) /\ EventFits(e)
      /\ row[e] \in Row /\ given[e] \in Given /\ given[e].failed \in Nat
  BY <1>1 DEF IInv, TypeOK, Delivers, Holds, Given
<1>3. Known(t, e) = Before(t) \cup turn[t].heard /\ Known(t, e) \subseteq Listener
  BY <1>1, <1>2 DEF Known, Before, TurnState
<1>4. Attempts(t) \in Nat /\ Attempts(t) <= given[e].failed + 1
  <2>1. turn[t].seen[e].attempts \in Nat /\ turn[t].seen[e].attempts <= given[e].failed
    BY <1>1, <1>2 DEF TurnState, EventFits, TurnKnows
  <2> QED
    BY <1>2, <2>1 DEF Attempts
<1> DEFINE next == [changed EXCEPT !.heard = Known(t, e), !.attempts = Attempts(t), !.takenBy = Nobody, !.lease = 0]
<1>5. /\ next \in Row /\ next.stored = row[e].stored /\ next.heard = Known(t, e)
      /\ next.attempts = Attempts(t) /\ next.takenBy = Nobody /\ next.dead = changed.dead
  BY <1>3, <1>4, Bounds DEF Row
<1>6. row' = IF Writable(t) THEN [row EXCEPT ![e] = next] ELSE row
  BY <1>2, <1>3 DEF Records
<1> HIDE DEF next
<1>7. /\ row' \in [Event -> Row] /\ row'[e] = (IF Writable(t) THEN next ELSE row[e])
      /\ \A d \in Event : d # e => row'[d] = row[d]
  BY <1>1, <1>2, <1>5, <1>6 DEF TypeOK
<1>8. /\ given' \in [Event -> Given] /\ given'[e].failed = given[e].failed + 1 /\ given'[e].over = given[e].over
      /\ \A d \in Event : d # e => given'[d] = given[d]
  <2> DEFINE more == [given[e] EXCEPT !.failed = given[e].failed + 1]
  <2>1. more \in Given /\ more.failed = given[e].failed + 1 /\ more.over = given[e].over
    BY <1>2 DEF Given
  <2>2. given' = [given EXCEPT ![e] = more]
    BY <1>2 DEF Failed
  <2> HIDE DEF more
  <2> QED
    BY <1>1, <1>2, <2>1, <2>2 DEF TypeOK
<1>9. TypeOK' /\ MarksFit' /\ (\A u \in Turn : Took(u)')
  BY <1>1, <1>2, <1>7, <1>8 DEF IInv, TypeOK, MarksFit, HoldsLess
<1>10. \A d \in Event : d # e => EventFits(d)'
  BY <1>1, <1>7, <1>8, <1>9, EventStands DEF Untouched, SaysTheSame, HoldsLess
<1>11. WasTold(e, Known(t, e)) /\ row[e].stored # "unsaved" /\ RowFits(e)
  BY <1>1, <1>2 DEF EventFits, TurnKnows
<1>12. RowFits(e)'
  <2>1. row'[e].stored = row[e].stored /\ WasTold(e, row'[e].heard)
    BY <1>5, <1>7, <1>11 DEF RowFits
  <2>2. row'[e].attempts <= given'[e].failed
    BY <1>2, <1>4, <1>5, <1>7, <1>8, <1>11 DEF RowFits, Row
  <2>3. row'[e].dead => given'[e].failed >= MostAttempts
    BY <1>2, <1>4, <1>5, <1>7, <1>8, <1>11, Bounds DEF RowFits
  <2> QED
    BY <1>11, <2>1, <2>2, <2>3 DEF RowFits, WasTold
<1>13. \A u \in Turn : TurnKnows(u, e)'
  <2>1. Grows(e) /\ row'[e].stored # "unsaved"
    BY <1>2, <1>5, <1>7, <1>8, <1>11 DEF Grows
  <2> QED
    BY <1>1, <1>9, <2>1, KnowsStill DEF HoldsLess
<1>14. ASSUME ~given'[e].over PROVE HeldOnce(e)'
  <2>1. HeldOnce(e)
    BY <1>2, <1>8, <1>14 DEF EventFits
  <2>2. \A u \in Turn : ~Holds(u, e)'
    BY <1>1, <1>2, <2>1 DEF HoldsLess, HoldsNoMore, HeldOnce
  <2>3. Writable(t)
    BY <1>1, <1>2, <2>1 DEF HeldOnce, Writable
  <2>4. \A l \in Listener : told[e][l] > 0 => told[e][l] = 1 /\ l \in row'[e].heard
    BY <1>2, <1>5, <1>7, <2>1, <2>3 DEF HeldOnce
  <2> QED
    BY <2>2, <2>4 DEF HeldOnce
<1> QED
  BY <1>1, <1>9, <1>10, <1>12, <1>13, <1>14 DEF IInv, EventFits

(* A refusal short of the last is due again later (markRetry).              *)
LEMMA MarkRetryStep == ASSUME IInv, NEW t \in Turn, MarkRetry(t) PROVE IInv'
<1>1. PICK e \in Event : Delivers(t, e)
  BY DEF IInv, Took, MarkRetry, Settled, Delivers
<1>2. TypeOK /\ turn[t].event = e /\ row[e] \in Row /\ turn[t].seen[e].attempts \in Nat
  BY <1>1 DEF IInv, TypeOK, Delivers, TurnState
<1>3. Attempts(t) \in 1..MostAttempts
  BY <1>2, Bounds DEF MarkRetry, Attempts
<1>4. RetryMs[Attempts(t)] \in 0..LeaseMs
  BY <1>3, TimeAssumption
<1> DEFINE changed == [row[e] EXCEPT !.wait = RetryMs[Attempts(t)]]
<1>5. changed \in Row /\ changed.stored = row[e].stored /\ changed.dead = row[e].dead
  BY <1>2, <1>4 DEF Row
<1>6. Records(t, changed) /\ Failed(t) /\ Forgets(t) /\ UNCHANGED <<keeping, up, told, mishaps>>
  BY <1>2 DEF MarkRetry
<1> HIDE DEF changed
<1> QED
  BY <1>1, <1>5, <1>6, RecordsStep

(* The last refusal gives the event up (markDead).                          *)
LEMMA MarkDeadStep == ASSUME IInv, NEW t \in Turn, MarkDead(t) PROVE IInv'
<1>1. PICK e \in Event : Delivers(t, e)
  BY DEF IInv, Took, MarkDead, Settled, Delivers
<1>2. TypeOK /\ turn[t].event = e /\ row[e] \in Row
  BY <1>1 DEF IInv, TypeOK, Delivers
<1> DEFINE changed == [row[e] EXCEPT !.dead = TRUE]
<1>3. changed \in Row /\ changed.stored = row[e].stored
  BY <1>2 DEF Row
<1>4. Records(t, changed) /\ Failed(t) /\ Forgets(t) /\ UNCHANGED <<keeping, up, told, mishaps>>
  BY <1>2 DEF MarkDead
<1>5. Attempts(t) >= MostAttempts
  BY DEF MarkDead
<1> HIDE DEF changed
<1> QED
  BY <1>1, <1>3, <1>4, <1>5, RecordsStep

-----------------------------------------------------------------------------
(* What holds *)

(* Nothing is emitted, held or told at the start.                           *)
LEMMA InitIInv == ASSUME Init PROVE IInv
<1>1. TypeOK
  <2>1. given \in [Event -> Given] /\ told \in [Event -> [Listener -> Nat]]
    BY DEF Init, Given
  <2>2. row \in [Event -> Row] /\ turn \in [Turn -> TurnState]
    BY IdleType DEF Init
  <2> QED
    BY <2>1, <2>2, Bounds DEF Init, TypeOK
<1>2. MarksFit /\ \A t \in Turn : Took(t)
  BY DEF Init, MarksFit, Took, Idle
<1>3. ASSUME NEW e \in Event PROVE EventFits(e)
  <2>1. \A t \in Turn : ~Holds(t, e) /\ Known(t, e) = {} /\ turn[t].seen[e].attempts = 0
    <3>1. \A t \in Turn : turn[t].at = "loop" /\ turn[t].batch = {} /\ turn[t].seen = Unseen
      BY DEF Init, Idle
    <3> QED
      BY <3>1, IdleType DEF Holds, Delivers, Known
  <2>2. /\ row[e].stored = "unsaved" /\ row[e].heard = {} /\ row[e].attempts = 0 /\ ~row[e].dead
        /\ given[e].failed = 0 /\ \A l \in Listener : told[e][l] = 0
    BY DEF Init, NewRow
  <2> QED
    BY <2>1, <2>2 DEF EventFits, RowFits, TurnKnows, WasTold, HeldOnce
<1> QED
  BY <1>1, <1>2, <1>3 DEF IInv

(* Every step keeps the invariant.                                          *)
LEMMA NextIInv == ASSUME IInv, [Next]_vars PROVE IInv'
<1>1. CASE UNCHANGED vars
  <2>1. TypeOK'
    BY <1>1 DEF IInv, TypeOK, vars
  <2> QED
    BY <1>1, <2>1, OtherTurns, QuietStep DEF vars, SaysTheSame
<1>2. ASSUME NEW t \in Turn, NEW e \in Event, NEW spent \in {0, LeaseMs}, Emit(t, e, spent) PROVE IInv'
  BY <1>2, EmitStep
<1>3. ASSUME NEW t \in Turn, Sweep(t) \/ StartSweep(t) \/ Renew(t) \/ RecordFails(t) PROVE IInv'
  BY <1>3, SweepStep, StartSweepStep, RenewStep, RecordFailsStep
<1>4. ASSUME NEW t \in Turn, TurnStep(t) PROVE IInv'
  BY <1>4, TakeStep, HearsStep, ThrowsStep, MarkSentStep, MarkRetryStep, MarkDeadStep DEF TurnStep, Record
<1>5. ASSUME NEW m \in keeping, MarkHeard(m) PROVE IInv'
  BY <1>5, MarkHeardStep
<1>6. ASSUME NEW e \in Event, Revive(e) PROVE IInv'
  BY <1>6, ReviveStep
<1>7. ASSUME NEW p \in Proc, Crash(p) PROVE IInv'
  BY <1>7, CrashStep
<1>8. CASE Tick \/ Stall
  BY <1>8, TimeStep
<1> QED
  BY <1>1, <1>2, <1>3, <1>4, <1>5, <1>6, <1>7, <1>8 DEF Next

(* The inductive invariant holds of every behaviour.                        *)
THEOREM Invariance == Spec => []IInv
<1>1. Init => IInv
  BY InitIInv
<1>2. IInv /\ [Next]_vars => IInv'
  BY NextIInv
<1> QED
  BY <1>1, <1>2, PTL DEF Spec

(* Every variable has its type.                                             *)
THEOREM TypeCorrect == Spec => []TypeOK
<1>1. IInv => TypeOK
  BY DEF IInv
<1> QED
  BY <1>1, Invariance, PTL

(* A committed event leaves the table only once every listener heard it,    *)
(* whatever processes, stale deliveries and failing statements do           *)
(* (outbox.ts markSent).                                                    *)
THEOREM LosesNothing == Spec => []NothingLost
<1>1. IInv => NothingLost
  BY DEF IInv, NothingLost, EventFits, RowFits, WasTold
<1> QED
  BY <1>1, Invariance, PTL

(* Refusals, retries and revivals alone call nobody twice: a listener hears *)
(* an event again only if it was handed out while another claim on it had   *)
(* not ended (outbox.ts claim, redeliver).                                  *)
THEOREM HeardOnceUnlessTakenOver == Spec => []HeardAgainOnlyAfterTakeover
<1>1. IInv => HeardAgainOnlyAfterTakeover
  BY DEF IInv, TypeOK, HeardAgainOnlyAfterTakeover, EventFits, HeldOnce
<1> QED
  BY <1>1, Invariance, PTL

(* A dead letter was refused in at least MostAttempts deliveries            *)
(* (kernel.ts redeliver).                                                   *)
THEOREM GivenUpAfterMostAttempts == Spec => []DeadAfterMostAttempts
<1>1. IInv => DeadAfterMostAttempts
  BY DEF IInv, DeadAfterMostAttempts, EventFits, RowFits
<1> QED
  BY <1>1, Invariance, PTL
=============================================================================
