----------------------------- MODULE FrontDoor -----------------------------
(***************************************************************************)
(* What http/internal/serve.ts decides of a request before the kernel sees *)
(* it: whether its cookie vouches for it, and whether its body is read. A  *)
(* route is a record of what it declared, a shape what the headers and the *)
(* body of one request are like.                                           *)
(***************************************************************************)
EXTENDS Integers

Kind == {"json", "stream", "either"}
Accepts == {"json", "form", "urlencoded"}

\* `unsafe`: its method may carry a body; `guarded`: it requires a permission
Routes == [kind : Kind, accepts : Accepts, unsafe : BOOLEAN, public : BOOLEAN,
           anyOrigin : BOOLEAN, guarded : BOOLEAN, limited : BOOLEAN,
           countSuccess : BOOLEAN, byAddress : BOOLEAN]

\* `cookies`: how many cookies of the session's name; `size` against bodyBytes,
\* "named" by content-length and "grown" only as it is read; "many": it fits,
\* in more fields than a form may have
Shapes == [cookies : 0..2, origin : {"none", "allowed", "other"},
           type : Accepts \cup {"text"}, size : {"none", "fits", "many", "named", "grown"},
           parses : BOOLEAN]

\* cookieIn: two cookies of one name are read as none
HasKey(s) == s.cookies = 1

\* isForgeable: a page of another site may send anything but JSON unasked
Forgeable(route, s) ==
  /\ route.unsafe
  /\ HasKey(s)
  /\ s.type # "json"
  /\ s.origin # "allowed"

\* readBytes: past bodyBytes as it arrives, whatever content-length said
Outgrows(s) == s.size = "grown"

\* requestBody and urlencodedBody: the refusal's status, or 0
BodyRefusal(route, s) ==
  IF ~route.unsafe THEN 0
  ELSE IF s.size = "named" THEN 413
  ELSE IF route.accepts # "json" /\ s.type # route.accepts THEN 415
  ELSE IF route.accepts = "json" /\ s.type = "form" THEN 415
  ELSE IF Outgrows(s) \/ (route.accepts = "urlencoded" /\ s.size = "many") THEN 413
  ELSE IF route.accepts = "json" /\ s.size = "none" THEN 0
  ELSE IF route.accepts = "json" /\ s.type # "json" THEN 415
  ELSE IF route.accepts # "urlencoded" /\ ~s.parses THEN 400
  ELSE 0
============================================================================
