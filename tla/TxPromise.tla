----------------------------- MODULE TxPromise ------------------------------
(***************************************************************************)
(* What ctx.tx promises whoever calls it, however calls are nested and     *)
(* whatever fails: a call inside another joins it.  The work of a call is  *)
(* kept at one moment with that of the call around it and of every call    *)
(* inside it, save what was undone, which is never kept; and what it tells *)
(* the world is told once it is kept.                                      *)
(***************************************************************************)
EXTENDS Naturals

CONSTANTS Tx, NoTx

VARIABLES
  within,   \* the call around each call, NoTx around an outermost one
  did,      \* what each call's work did
  undone,   \* the calls that threw
  kept,     \* those whose work is committed
  stored,   \* what a reader elsewhere finds: rows, events to deliver, jobs
  told      \* events and messages told

vars == <<within, did, undone, kept, stored, told>>

Kind == {"row", "event", "job", "push"}

Init ==
  /\ within = [t \in Tx |-> NoTx]
  /\ did = [t \in Tx |-> {}]
  /\ undone = {} /\ kept = {} /\ stored = {} /\ told = {}

Open(t) == t \notin kept \cup undone

(* A call that has done nothing yet turns out to run inside another *)
Joins(t, p) ==
  /\ Open(t) /\ Open(p) /\ t # p
  /\ within[t] = NoTx /\ did[t] = {} /\ \A u \in Tx : within[u] # t
  /\ within' = [within EXCEPT ![t] = p]
  /\ UNCHANGED <<did, undone, kept, stored, told>>

Does(t, kinds) ==
  /\ Open(t)
  /\ did' = [did EXCEPT ![t] = @ \cup kinds]
  /\ UNCHANGED <<within, undone, kept, stored, told>>

Undoes(t) ==
  /\ Open(t)
  /\ undone' = undone \cup {t}
  /\ UNCHANGED <<within, did, kept, stored, told>>

(* Messages are sent, not stored *)
Work(t) == {t} \X (did[t] \ {"push"})

(* No call without the one around it, nor without those inside it *)
Keep(S) ==
  /\ \A t \in S : Open(t) /\ within[t] \in S \cup {NoTx}
  /\ \A u \in Tx : within[u] \in S => u \in S \cup undone
  /\ kept' = kept \cup S
  /\ stored' = stored \cup UNION {Work(t) : t \in S}
  /\ UNCHANGED <<within, did, undone, told>>

Announced == UNION {{t} \X (did[t] \cap {"event", "push"}) : t \in kept}

Tell(E) ==
  /\ told' = told \cup E
  /\ UNCHANGED <<within, did, undone, kept, stored>>

Next ==
  \/ \E t \in Tx : Undoes(t) \/ (\E p \in Tx : Joins(t, p)) \/ \E kinds \in SUBSET Kind : Does(t, kinds)
  \/ \E S \in SUBSET Tx : Keep(S)
  \/ \E E \in SUBSET Announced : Tell(E)

Spec == Init /\ [][Next]_vars
=============================================================================
