----------------------------- MODULE Registries -----------------------------
(***************************************************************************)
(* The entries one process holds in a registry: who may add, under which   *)
(* key, and what the stop of an add takes out (kernel/internal/            *)
(* registries.ts). An entry is held as [by, n]: the plugin that added it   *)
(* and the add, which its stop is for.                                     *)
(***************************************************************************)
EXTENDS Naturals, FiniteSets

NoEntries == <<>>

\* the owner's rules, the schema, the key and the reserved keys
Checked(registry, owner, by, entry) ==
  /\ registry.ownerOnly => by = owner
  /\ entry.fits
  /\ by # owner => entry.key \notin registry.reserved

Takes(registry, owner, held, by, entry) ==
  /\ Checked(registry, owner, by, entry)
  /\ IF entry.key \in DOMAIN held THEN registry.replaces ELSE Cardinality(DOMAIN held) < registry.cap

With(held, by, entry, n) ==
  [k \in DOMAIN held \cup {entry.key} |-> IF k = entry.key THEN [by |-> by, n |-> n] ELSE held[k]]

Without(held, key) == [k \in DOMAIN held \ {key} |-> held[k]]

\* a variant: whatever is held under the key is taken out
StoppedAnyhow(held, key, n) == Without(held, key)

\* a later add under the same key owns it now
Stopped(held, key, n) ==
  IF key \in DOMAIN held /\ held[key].n = n THEN Without(held, key) ELSE held
=============================================================================
