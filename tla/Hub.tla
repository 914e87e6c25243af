-------------------------------- MODULE Hub --------------------------------
(***************************************************************************)
(* What http/internal/sockets.ts and relay.ts decide of one push and one   *)
(* caller: which channels a caller may hear, whom a message reaches, which *)
(* of its texts a listener is handed, and what of it crosses to another    *)
(* process. An identity is [id, scope, holds]; a message carries its       *)
(* reach and whatever that reach picks its listeners by.                   *)
(***************************************************************************)
EXTENDS Integers, Sequences

CONSTANTS
  Nobody,     \* no identity
  NoScope,    \* no claim to a scope, or no field
  Channels    \* [name -> [reach, requires]]: what the plugins declare

Reach == {"connection", "viewer", "scope", "identity", "everyone"}

ScopeOf(who) == IF who = Nobody THEN NoScope ELSE who.scope
IdOf(who) == IF who = Nobody THEN Nobody ELSE who.id
Holds(who) == IF who = Nobody THEN {} ELSE who.holds

MayHear(channel, who) ==
  /\ channel \in DOMAIN Channels
  /\ LET declared == Channels[channel] IN
     /\ declared.reach # "everyone" => who # Nobody
     /\ declared.reach \in {"scope", "identity"} => ScopeOf(who) # NoScope
     /\ declared.requires \subseteq Holds(who)

\* "connection" names a socket, which no caller of push passes: nobody
Reaches(m, who, listening) ==
  /\ m.channel \in listening
  /\ m.reach # "connection"
  /\ m.reach \in {"scope", "identity"} => ScopeOf(who) = m.scope
  /\ m.reach = "identity" => IdOf(who) = m.to
  /\ m.reach = "viewer" => IdOf(who) = m.from

\* textFor: the first variant whose permissions the listener holds, else the message
TextFor(m, who) ==
  LET held == {i \in DOMAIN m.variants : m.variants[i].requires \subseteq Holds(who)}
  IN IF held = {} THEN m.body
     ELSE m.variants[CHOOSE i \in held : \A j \in held : i <= j].body

Heard(m, who, listening) == Reaches(m, who, listening) /\ MayHear(m.channel, who)

\* context.ts push: the message a plugin's push becomes, for one acting in `scope`
Message(channel, from, scope, to, body, variants) ==
  LET reach == Channels[channel].reach IN
  [channel |-> channel, reach |-> reach, body |-> body, variants |-> variants,
   scope |-> IF reach \in {"scope", "identity"} THEN scope ELSE NoScope,
   to |-> IF reach = "identity" THEN to ELSE Nobody,
   from |-> IdOf(from)]

\* push refuses one acting in no scope, and one naming nobody to reach
MayPush(channel, scope, to) ==
  /\ Channels[channel].reach \in {"scope", "identity"} => scope # NoScope
  /\ (Channels[channel].reach = "identity") = (to # Nobody)

\* envelopeOf: nothing crosses without the field its reach picks by
Crosses(m) ==
  /\ m.reach # "connection"
  /\ m.reach \in {"scope", "identity"} => m.scope # NoScope
  /\ m.reach = "identity" => m.to # Nobody
  /\ m.reach = "viewer" => m.from # Nobody

\* a variant: the texts for those who hold more are left behind
CrossedPlain(m) == [m EXCEPT !.variants = <<>>]

\* the frame as the receiver reads it: each reach keeps its own field and no other
Crossed(m) ==
  [m EXCEPT !.from = IF m.reach = "viewer" THEN @ ELSE Nobody]
============================================================================
