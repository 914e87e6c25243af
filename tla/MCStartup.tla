----------------------------- MODULE MCStartup ------------------------------
(* Startup on small instances: two processes, three plugins at most. *)
EXTENDS Startup

CONSTANTS p1, p2

Nobody == [n \in {} |-> {}]

Named(n) ==
  [name |-> n, needs |-> {}, permissions |-> {}, emits |-> {}, hooks |-> {}, listens |-> {},
   participates |-> {}, channels |-> Nobody, commands |-> Nobody, registries |-> Nobody,
   pipelines |-> Nobody, adds |-> Nobody, tables |-> {}, migrations |-> <<>>, routes |-> <<>>,
   scope |-> [claims |-> FALSE, tables |-> {}], identifies |-> FALSE, grants |-> FALSE,
   listed |-> FALSE, supported |-> {}, hosts |-> {}, described |-> TRUE,
   schema |-> TRUE, configFits |-> TRUE, fake |-> FALSE]

Name(n, x) == [of |-> n, is |-> <<x>>]

Route(shape) ==
  [shape |-> shape, method |-> "GET", written |-> TRUE, answers |-> {"output"}, filters |-> TRUE,
   limited |-> FALSE, requests |-> 1, seconds |-> 1, reads |-> {}, keepsRaw |-> FALSE,
   public |-> FALSE, guarded |-> TRUE, requires |-> {}, anyOrigin |-> FALSE]

Held == [tenant |-> FALSE, expose |-> FALSE, exposed |-> {}, ownerOnly |-> FALSE, reserved |-> {"k2"},
         replaces |-> TRUE, cap |-> 2]
Given(key) == [key |-> key, fits |-> TRUE, requires |-> {}]
StepAt(id, side, anchor) == [id |-> id, side |-> side, anchor |-> anchor, kept |-> TRUE, requires |-> {}]
Migration(n, name, hash, creates, reads) ==
  [plugin |-> n, name |-> name, hash |-> hash, creates |-> creates, reads |-> reads]

MCBoots == p1 :> 1 @@ p2 :> 2
MCAdds == p1 :> 2 @@ p2 :> 0

MCEntry == {Given("k1"), Given("k2")}

App(given) == [given |-> given, database |-> TRUE, production |-> FALSE, schedule |-> TRUE]

(* One depends on three, three on two: names sort the other way *)
Users ==
  [Named(3) EXCEPT !.permissions = {Name(3, "read")}, !.emits = {Name(3, "joined")}, !.needs = {2},
     !.registries = Name(3, "menu") :> Held,
     !.adds = Name(2, "pay") :> <<StepAt(6, "after", 1)>>, !.tables = {"users"},
     !.migrations = <<Migration(3, "users", 1, {"users"}, {"kit"})>>]
Kit == [Named(2) EXCEPT !.tables = {"kit"}, !.migrations = <<Migration(2, "kit", 1, {"kit"}, {})>>,
          !.pipelines = Name(2, "pay") :> [durable |-> TRUE, kept |-> TRUE, steps |-> <<1, 2>>]]
Shop ==
  [Named(1) EXCEPT !.needs = {2, 3}, !.listens = {Name(3, "joined")},
     !.routes = <<[Route("GET /shop") EXCEPT !.requires = {Name(3, "read")}]>>,
     !.adds = Name(3, "menu") :> <<Given("k1")>> @@
              Name(2, "pay") :> <<StepAt(5, "after", 1), StepAt(4, "after", 1), StepAt(3, "before", 4)>>]

Whole == <<Shop, Kit, Users>>

(* What a later deploy runs: one step more, or an edited one *)
More(h) == [Kit EXCEPT !.migrations = <<Migration(2, "kit", h, {"kit"}, {}), Migration(2, "more", 1, {}, {})>>]

Change(n, d) == App([i \in DOMAIN Whole |-> IF Whole[i].name = n THEN d ELSE Whole[i]])

Loose == [Shop EXCEPT !.needs = {2}, !.routes = <<>>, !.listens = {}]          \* adds to what it does not depend on
Cyclic == [Kit EXCEPT !.needs = {1}]
Unread == [Users EXCEPT !.needs = {}, !.migrations = <<Migration(3, "users", 2, {"users"}, {"users", "kit"})>>]
Tableless == [Shop EXCEPT !.tables = {"orders"}]
Self == [Users EXCEPT !.listens = {Name(3, "joined")}]
Adrift == [Shop EXCEPT !.adds[Name(2, "pay")] =
             <<StepAt(5, "after", 4), StepAt(4, "after", 5)>>]

MCDeclares ==
  "now" :> App(Whole) @@ "more" :> Change(2, More(1)) @@ "edited" :> Change(2, More(2))
    @@ "loose" :> Change(1, Loose) @@ "cyclic" :> Change(2, Cyclic) @@ "unread" :> Change(3, Unread)
    @@ "tableless" :> Change(1, Tableless) @@ "self" :> Change(3, Self) @@ "adrift" :> Change(1, Adrift)

MCCode == DOMAIN MCDeclares

MCDeployed == {p1 :> "now" @@ p2 :> c : c \in MCCode}
=============================================================================
