------------------------------ MODULE Serving ------------------------------
(***************************************************************************)
(* A kernel behind its HTTP door: requests admitted one by one, handlers   *)
(* that answer or stream, a limit counted in windows, stream slots counted *)
(* per caller, and the process closing under all of them                   *)
(* (http/internal/serve.ts and events.ts, kernel/internal/request.ts and   *)
(* streams.ts, guard/internal/limit.ts, serve/internal/closing.ts).        *)
(***************************************************************************)
EXTENDS FrontDoor, RateLimit, FiniteSets

CONSTANTS
  Req,              \* requests, each sent once
  Addr, AddrOf,     \* addresses, and the one each request comes from
  User, Holder,     \* signed-in callers, and those holding the permission
  Nobody,           \* no identity
  Route, Shape,     \* the declared routes, and what requests look like
  Waits,            \* requests whose handler answers events none of which is there when asked for
  Most,             \* mostStreamsPerCaller
  MaxTime           \* bound: seconds that pass

ASSUME ServingAssumption ==
  /\ AddrOf \in [Req -> Addr] /\ Waits \subseteq Req
  /\ Holder \subseteq User
  /\ Nobody \notin User /\ User \cap Addr = {}
  /\ Route \subseteq Routes /\ Shape \subseteq Shapes /\ Route # {} /\ Shape # {}
  /\ Most \in Nat \ {0} /\ MaxTime \in Nat

VARIABLES
  req,        \* each request on its way
  stream,     \* its open stream, where it has one
  perCaller,  \* registry.perCaller: slots each caller holds
  counts,     \* the limiter's Map
  clock,
  phase       \* of the process: serving, then closing

vars == <<req, stream, perCaller, counts, clock, phase>>

Caller == User \cup Addr
Never == -1
Ending == {"EXPIRED", "RESTARTING", "GONE"}

At == {"idle", "asked", "reading", "handling", "streaming", "answered"}
Phase == {"serving", "draining", "waiting", "closing", "exited"}

\* `shape` and `route` as sent; `window` ends the limit's window it was counted
\* in, `credited` the one a refund went to
NewReq == [at |-> "idle", route |-> CHOOSE p \in Route : TRUE, shape |-> CHOOSE s \in Shape : TRUE,
           who |-> Nobody, left |-> FALSE, window |-> Never, credited |-> Never]

NewStream == [slot |-> "none", told |-> "none", gen |-> "none"]

TypeOK ==
  /\ req \in [Req -> [at : At, route : Route, shape : Shape, who : User \cup {Nobody},
                      left : BOOLEAN, window : Nat \cup {Never}, credited : Nat \cup {Never}]]
  /\ stream \in [Req -> [slot : {"none", "open", "released"}, told : Ending \cup {"none"},
                         gen : {"none", "waiting", "held", "last", "done"}]]
  /\ perCaller \in [Caller -> Nat]
  /\ \A k \in DOMAIN counts : k \in Caller /\ counts[k].hits \in Nat
  /\ clock \in 0..MaxTime
  /\ phase \in Phase

Init ==
  /\ req = [r \in Req |-> NewReq]
  /\ stream = [r \in Req |-> NewStream]
  /\ perCaller = [c \in Caller |-> 0]
  /\ counts = NoCounts
  /\ clock = 0
  /\ phase = "serving"

Alive == phase # "exited"
Running == phase = "serving"
InFlight == {r \in Req : req[r].at = "handling"}
Active == {r \in Req : stream[r].slot = "open"}

CallerOf(r) == IF req[r].who = Nobody THEN AddrOf[r] ELSE req[r].who
KeyOf(r) == IF req[r].route.byAddress THEN AddrOf[r] ELSE CallerOf(r)

-----------------------------------------------------------------------------
(* The door: a forged cookie, identify, the body. *)

\* what nothing reads of an answered request is let go
Over(q) == [q EXCEPT !.at = "answered", !.shape = NewReq.shape, !.left = FALSE,
                     !.route = IF q.window = Never THEN NewReq.route ELSE @,
                     !.who = IF q.window = Never THEN Nobody ELSE @]

Answers(r) == req' = [req EXCEPT ![r] = Over(@)]

Arrive(r, route, shape) ==
  /\ Alive /\ req[r].at = "idle"
  /\ LET sent == [NewReq EXCEPT !.at = "asked", !.route = route, !.shape = shape]
     IN req' = [req EXCEPT ![r] = IF Forgeable(route, shape) THEN Over(sent) ELSE sent]
  /\ UNCHANGED <<stream, perCaller, counts, clock, phase>>

\* identify is handed the whole request, and may name a caller by its cookie,
\* by any header, or not at all; a route any site may read asks it of nobody
WhoMayBe(r) == IF req[r].route.anyOrigin THEN {Nobody} ELSE User \cup {Nobody}

Identify(r) ==
  /\ Alive /\ req[r].at = "asked"
  /\ \/ \E who \in WhoMayBe(r) : req' = [req EXCEPT ![r].who = who, ![r].at = "reading"]
     \/ Answers(r)
  /\ UNCHANGED <<stream, perCaller, counts, clock, phase>>

-----------------------------------------------------------------------------
(* respond(), up to the await of the handler: one step of the event loop. *)

Reaches(r) ==
  /\ Alive /\ req[r].at = "reading"
  /\ BodyRefusal(req[r].route, req[r].shape) = 0
  /\ Running
  /\ req[r].route.public \/ req[r].who # Nobody

Counted(r) == IF req[r].route.limited THEN Spend(counts, KeyOf(r), clock) ELSE counts
Within(r) == req[r].route.limited => Allowed(Counted(r), KeyOf(r))
WindowOf(r) == IF req[r].route.limited THEN Counted(r)[KeyOf(r)].until ELSE Never

\* the requests whose limit is counted, whatever comes of them after
Spends(r, at) ==
  LET counted == [req[r] EXCEPT !.at = at, !.window = IF Within(r) THEN WindowOf(r) ELSE Never]
  IN /\ counts' = Counted(r)
     /\ req' = [req EXCEPT ![r] = IF at = "answered" THEN Over(counted) ELSE counted]

\* refused before the limit is read: the body, a stopped kernel, nobody signed in
TurnAway(r) ==
  /\ Alive /\ req[r].at = "reading" /\ ~Reaches(r)
  /\ Answers(r)
  /\ UNCHANGED <<stream, perCaller, counts, clock, phase>>

\* one more than the most is let through
HasSlotMore(r) == perCaller[CallerOf(r)] <= Most

HasSlot(r) == perCaller[CallerOf(r)] < Most

\* 429 over the limit or the streams, 403 without the permission, 400 for input
\* the route's schema refuses: each of them counted, none given back
Refuse(r) ==
  /\ Reaches(r)
  /\ \/ ~Within(r)
     \/ req[r].route.guarded /\ req[r].who \notin Holder
     \/ TRUE                                          \* the input is not valid
     \/ req[r].route.kind = "stream" /\ ~HasSlot(r)
  /\ Spends(r, "answered")
  /\ UNCHANGED <<stream, perCaller, clock, phase>>

\* openStream: the caller's leaving is heard from here on, not before
Opened == [slot |-> "open", told |-> "none", gen |-> "none"]

Start(r) ==
  /\ Reaches(r) /\ Within(r)
  /\ req[r].route.guarded => req[r].who \in Holder
  /\ Spends(r, "handling")
  /\ IF req[r].route.kind = "stream"
     THEN /\ HasSlot(r)
          /\ stream' = [stream EXCEPT ![r] = Opened]
          /\ perCaller' = [perCaller EXCEPT ![CallerOf(r)] = @ + 1]
     ELSE UNCHANGED <<stream, perCaller>>
  /\ UNCHANGED <<clock, phase>>

-----------------------------------------------------------------------------
(* What the handler ends with. *)

\* release: once, however many endings there are
Released(r) == IF stream[r].slot = "open" THEN "released" ELSE stream[r].slot

Release(r, gen) ==
  /\ stream' = [stream EXCEPT ![r] = [NewStream EXCEPT !.slot = Released(r), !.gen = gen]]
  /\ perCaller' = IF stream[r].slot = "open"
                  THEN [perCaller EXCEPT ![CallerOf(r)] = @ - 1] ELSE perCaller

\* countSuccess: false gives an answered request back, to the key's window of now
GivesBack(r) == req[r].route.limited /\ ~req[r].route.countSuccess

Succeeds(r, at) ==
  LET held == GivesBack(r) /\ KeyOf(r) \in DOMAIN counts
      done == [req[r] EXCEPT !.at = at, !.credited = IF held THEN counts[KeyOf(r)].until ELSE @]
  IN /\ counts' = IF GivesBack(r) THEN Refund(counts, KeyOf(r)) ELSE counts
     /\ req' = [req EXCEPT ![r] = IF at = "answered" THEN Over(done) ELSE done]

\* one answer, through the output schema
AnswersValue(r) ==
  /\ Alive /\ req[r].at = "handling" /\ req[r].route.kind # "stream"
  /\ Succeeds(r, "answered")
  /\ UNCHANGED <<stream, perCaller, clock, phase>>

\* a refusal that returns before the catch, and releases nothing
FailsHolding(r) ==
  /\ Alive /\ req[r].at = "handling"
  /\ Answers(r)
  /\ UNCHANGED <<stream, perCaller, counts, clock, phase>>

\* a throw, a value its schema refuses, or what is no iterable of events
Fails(r) ==
  /\ Alive /\ req[r].at = "handling"
  /\ Answers(r)
  /\ Release(r, "none")
  /\ UNCHANGED <<counts, clock, phase>>

\* events: a route answering either way takes its slot only now, or answers 429
AnswersEvents(r) ==
  /\ Alive /\ req[r].at = "handling" /\ req[r].route.kind # "json"
  /\ \/ /\ req[r].route.kind = "stream"
        /\ stream' = [stream EXCEPT ![r].gen = "waiting"]
        /\ Succeeds(r, "streaming")
        /\ UNCHANGED perCaller
     \/ /\ req[r].route.kind = "either" /\ HasSlot(r)
        /\ stream' = [stream EXCEPT ![r] = [Opened EXCEPT !.gen = "waiting"]]
        /\ perCaller' = [perCaller EXCEPT ![CallerOf(r)] = @ + 1]
        /\ Succeeds(r, "streaming")
     \/ /\ req[r].route.kind = "either" /\ ~HasSlot(r)
        /\ Answers(r)
        /\ UNCHANGED <<stream, perCaller, counts>>
  /\ UNCHANGED <<clock, phase>>

-----------------------------------------------------------------------------
(* The stream: streamedEvents raced against its ending, pulled by            *)
(* eventStream one frame ahead of what its caller takes.                     *)

Streams(r, gens) == Alive /\ req[r].at = "streaming" /\ stream[r].gen \in gens

Ends(r) ==
  /\ Release(r, "done")
  /\ Answers(r)

\* a frame is ready: it waits to be taken, unless its caller is gone, whose
\* leaving closed the generator (its return was queued behind this frame)
Yields(r, gen) ==
  IF req[r].left THEN Ends(r)
  ELSE stream' = [stream EXCEPT ![r].gen = gen] /\ UNCHANGED <<req, perCaller>>

\* an event; or the last frame: an error, or the end its route named
Frame(r) ==
  /\ Streams(r, {"waiting"})
  /\ \E gen \in {"held", "last"} : Yields(r, gen)
  /\ UNCHANGED <<counts, clock, phase>>

\* the source is done and named no last frame
SourceEnds(r) ==
  /\ Streams(r, {"waiting"})
  /\ Ends(r)
  /\ UNCHANGED <<counts, clock, phase>>

\* a stream that is not raced against its lifetime
ToldRestart(r) ==
  /\ Streams(r, {"waiting"}) /\ stream[r].told \in {"RESTARTING", "GONE"}
  /\ IF stream[r].told = "GONE" THEN Ends(r) ELSE Yields(r, "last")
  /\ UNCHANGED <<counts, clock, phase>>

\* the ending wins the race: its caller is told, unless it is the one who left;
\* a source that has its next event there wins it every time, as listed first
Told(r) ==
  /\ Streams(r, {"waiting"}) /\ stream[r].told # "none"
  /\ IF stream[r].told = "GONE" THEN Ends(r) ELSE Yields(r, "last")
  /\ UNCHANGED <<counts, clock, phase>>

\* the caller takes a frame: the next is pulled, and after the last the finally runs
Take(r) ==
  /\ Streams(r, {"held", "last"}) /\ ~req[r].left
  /\ IF stream[r].gen = "last" THEN Ends(r)
     ELSE stream' = [stream EXCEPT ![r].gen = "waiting"] /\ UNCHANGED <<req, perCaller>>
  /\ UNCHANGED <<counts, clock, phase>>

EndingOf(r, ending) == IF stream[r].slot = "open" /\ stream[r].told = "none" THEN ending ELSE stream[r].told

\* the caller goes away: a signal the stream hears when it was open by then
Leave(r) ==
  /\ Alive /\ req[r].at \in {"reading", "handling", "streaming"} /\ ~req[r].left
  /\ req' = [req EXCEPT ![r].left = TRUE]
  /\ stream' = [stream EXCEPT ![r].told = EndingOf(r, "GONE")]
  /\ UNCHANGED <<perCaller, counts, clock, phase>>

\* the server closes the body of a caller that is gone
Cancel(r) ==
  /\ Streams(r, {"held", "last"}) /\ req[r].left
  /\ Ends(r)
  /\ UNCHANGED <<counts, clock, phase>>

\* the lifetime timer
Expire(r) ==
  /\ Alive /\ stream[r].slot = "open" /\ stream[r].told = "none"
  /\ stream' = [stream EXCEPT ![r].told = "EXPIRED"]
  /\ UNCHANGED <<req, perCaller, counts, clock, phase>>

-----------------------------------------------------------------------------
(* The process closes: closeOnce, then kernel.stop, then the store. *)

\* the signal: no request is served from here on, and open streams are told
Stop ==
  /\ phase = "serving"
  /\ phase' = "draining"
  /\ stream' = [r \in Req |-> [stream[r] EXCEPT !.told = EndingOf(r, "RESTARTING")]]
  /\ UNCHANGED <<req, perCaller, counts, clock>>

\* every stream ended, or streamDrainMs passed
Drained ==
  /\ phase = "draining"
  /\ phase' = "waiting"
  /\ UNCHANGED <<req, stream, perCaller, counts, clock>>

\* teardown without the wait for what is in flight
TeardownAtOnce ==
  /\ phase = "waiting"
  /\ phase' = "closing"
  /\ UNCHANGED <<req, stream, perCaller, counts, clock>>

\* the requests in flight have settled: teardown, and the store closes
Teardown ==
  /\ phase = "waiting" /\ InFlight = {}
  /\ phase' = "closing"
  /\ UNCHANGED <<req, stream, perCaller, counts, clock>>

\* no timeout on the stop
ExitUnforced ==
  /\ phase = "closing"
  /\ phase' = "exited"
  /\ UNCHANGED <<req, stream, perCaller, counts, clock>>

\* exit(0) once the stop is done, exit(1) when stopTimeoutMs passed first
Exit ==
  /\ phase \in {"draining", "waiting", "closing"}
  /\ phase' = "exited"
  /\ UNCHANGED <<req, stream, perCaller, counts, clock>>

\* the limiter sweeps what has expired on a timer of its own
Tick ==
  /\ Alive /\ clock < MaxTime
  /\ clock' = clock + 1
  /\ counts' \in {counts, Swept(counts, clock + 1)}
  /\ UNCHANGED <<req, stream, perCaller, phase>>

Handles(r) == AnswersValue(r) \/ AnswersEvents(r) \/ Fails(r)
Reads(r) == Identify(r) \/ TurnAway(r) \/ Refuse(r) \/ Start(r)
Flows(r) == Frame(r) \/ SourceEnds(r) \/ Told(r) \/ Take(r) \/ Cancel(r)

Next ==
  \/ \E r \in Req :
       \/ \E route \in Route, shape \in Shape : Arrive(r, route, shape)
       \/ Reads(r)
       \/ Handles(r)
       \/ Flows(r)
       \/ Leave(r)
       \/ Expire(r)
  \/ Stop \/ Drained \/ Teardown \/ Exit \/ Tick

Spec == Init /\ [][Next]_vars

\* a race one of whose two has settled
Race(r) == stream[r].told # "none" /\ (Frame(r) \/ SourceEnds(r) \/ Told(r))

(* Timers fire and a race that can be won is won; nothing is assumed of a      *)
(* handler, which may hang, nor of a caller, which may leave a frame where it  *)
(* is. An ending that has settled wins the next race against an event that is  *)
(* yet to come; against a source with its next event there it may lose all.    *)
Fairness ==
  /\ WF_vars(Drained) /\ WF_vars(Teardown) /\ WF_vars(Exit)
  /\ \A r \in Req : WF_vars(Expire(r)) /\ WF_vars(Race(r)) /\ WF_vars(Cancel(r))
  /\ \A r \in Waits : SF_vars(Told(r))

FairSpec == Spec /\ Fairness

-----------------------------------------------------------------------------
\* No way out of a handler or of a generator keeps a slot, and no stream goes on
\* without one: a slot is open just while a handler that only streams runs, or a
\* generator waits for its source or for its caller, past its lifetime and past a
\* stop too (the returns and the catch of respond, the finally of streamedEvents).
SlotWhileStreaming ==
  \A r \in Req : stream[r].slot = "open" <=>
    \/ req[r].at = "handling" /\ req[r].route.kind = "stream"
    \/ req[r].at = "streaming" /\ stream[r].gen \in {"waiting", "held", "last"}

\* However a stream ends, and however often it is told to (expired, restarting,
\* its caller gone, its source done), its caller holds one slot per open stream,
\* and never more than the most (openStream's release, the check before it).
SlotsCounted ==
  /\ TypeOK
  /\ \A c \in Caller : /\ perCaller[c] = Cardinality({r \in Active : CallerOf(r) = c})
                       /\ perCaller[c] <= Most

\* A limit that counts failures lets at most its requests through a window that
\* did not succeed, and one more for each answer of an earlier window that was
\* given back to this one (spend, refund).
BudgetHolds ==
  \A k \in DOMAIN counts :
    LET now == counts[k].until
        through == {r \in Req : req[r].window = now /\ KeyOf(r) = k /\ req[r].credited = Never}
        late == {r \in Req : req[r].credited = now /\ req[r].window # now /\ KeyOf(r) = k}
    IN Cardinality(through) <= Requests + Cardinality(late)

\* The store closes under no handler: a stop that was not forced waits for every
\* request in flight, and admits none meanwhile; and a stream opened before its
\* handler ran is told why it ends before the process tears down, or was ending
\* already: only a slow caller, or a source that always has its next event there,
\* can keep that frame from it (kernel.stop, "every open stream is told it ends
\* and why"; kernel.handle).
TornDownInOrder ==
  /\ phase = "closing" => InFlight = {}
  /\ phase \in {"waiting", "closing"} =>
       \A r \in Active : req[r].route.kind = "stream" => stream[r].told # "none"

\* A stop ends: neither a stream no one reads nor a handler that hangs can hold
\* the process past its timeouts (streamDrainMs, stopTimeoutMs).
StopEnds == [](phase = "draining" => <>(phase = "exited"))

\* its caller has yet to take the frame it is at
Untaken(r) == stream[r].gen \in {"held", "last"} /\ ~req[r].left

\* A stream gives its slot back, by whichever of its endings comes, so its caller
\* may open the next: once its caller left, whatever its source does, and
\* otherwise if its source is one that waits. All that can hold it is a frame its
\* caller leaves where it is for ever (the generator's finally, the race in it).
SlotComesBack ==
  \A r \in Req : []<>~Untaken(r) =>
    (req[r].at = "streaming" /\ (req[r].left \/ r \in Waits) ~> stream[r].slot # "open" \/ ~Alive)

\* What contract.ts says of streamSeconds, and what neither a slow caller nor a
\* source with its next event there lets happen; README.md reports it.
ExpiredEnds ==
  \A r \in Req : req[r].at = "streaming" /\ stream[r].told = "EXPIRED" ~> stream[r].slot # "open" \/ ~Alive
============================================================================
