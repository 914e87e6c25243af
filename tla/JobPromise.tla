----------------------------- MODULE JobPromise -----------------------------
(***************************************************************************)
(* What the schedule promises whoever calls commands.later, whatever       *)
(* processes do: a stored job is handed out, perhaps to several runs at    *)
(* once, and leaves the table only when one of its runs answered, or when  *)
(* it was abandoned.  It is abandoned, which fails a durable run waiting   *)
(* for it, only once it was refused for good or handed out MostAttempts    *)
(* times.                                                                  *)
(***************************************************************************)
EXTENDS Naturals

CONSTANTS Job, MostAttempts

VARIABLES
  stored,   \* each job: "unsaved", "kept" or "gone"
  claims,   \* how often each job was handed to a run
  ended     \* how each job's runs ended, those that did

vars == <<stored, claims, ended>>

Endings == {"answered", "refused", "abandoned"}

Init ==
  /\ stored = [j \in Job |-> "unsaved"]
  /\ claims = [j \in Job |-> 0]
  /\ ended = [j \in Job |-> {}]

Ask(j) ==
  /\ stored[j] = "unsaved"
  /\ stored' = [stored EXCEPT ![j] = "kept"]
  /\ UNCHANGED <<claims, ended>>

(* One claim hands out a batch *)
HandOut(S) ==
  /\ \A j \in S : stored[j] = "kept"
  /\ claims' = [j \in Job |-> IF j \in S THEN claims[j] + 1 ELSE claims[j]]
  /\ UNCHANGED <<stored, ended>>

Ends(j, how) ==
  /\ ended' = [ended EXCEPT ![j] = @ \cup {how}]
  /\ UNCHANGED <<stored, claims>>

(* A run may end after its job has left the table *)
Answer(j) == claims[j] > 0 /\ Ends(j, "answered")
Refuse(j) == claims[j] > 0 /\ Ends(j, "refused")
Abandon(j) == ("refused" \in ended[j] \/ claims[j] >= MostAttempts) /\ Ends(j, "abandoned")

Drop(j) ==
  /\ stored[j] = "kept"
  /\ ended[j] \cap {"answered", "abandoned"} # {}
  /\ stored' = [stored EXCEPT ![j] = "gone"]
  /\ UNCHANGED <<claims, ended>>

Next ==
  \/ \E j \in Job : Ask(j) \/ Answer(j) \/ Refuse(j) \/ Abandon(j) \/ Drop(j)
  \/ \E S \in SUBSET Job : HandOut(S)

Spec == Init /\ [][Next]_vars
=============================================================================
