-------------------------------- MODULE Gate --------------------------------
(***************************************************************************)
(* The way of a request through the middlewares and the router that main   *)
(* builds (cmd/server/main.go), until a handler has it: CORS, the global   *)
(* rate limiter, the mounted sub-routers, the key that each asks for, the  *)
(* strict limiter of the standard path and WithModel.                      *)
(*                                                                         *)
(* What a limiter decides is the subject of RateLimiter; here it refuses   *)
(* or not.  A part of the request is picked where it is first looked at.   *)
(* chi is a library: the mount with the longest prefix has a path, and a   *)
(* sub-router's middlewares run before its 404 and 405.                    *)
(***************************************************************************)
EXTENDS Models

CONSTANT Prefix   \* the segments of API_PREFIX

VARIABLES
  conf,    \* whether there is an API_KEY, model routes, foolproof routes
  at,      \* the middleware, router or handler that has the request
  method,  \* the method of the request
  path,    \* the segments of its path
  mount,   \* the sub-router that has the path
  shown,   \* the key the sub-router has accepted
  strict,  \* whether the strict limiter has let it pass
  named,   \* req.Model as WithModel leaves it
  status   \* the status it is answered, 0 if it is not

gate == <<conf, at, method, path, mount, shown, strict, named, status>>

-----------------------------------------------------------------------------
Methods == {"OPTIONS", "GET", "POST", "PUT"}
Keys == {"none", "malformed", "wrong", "apiKey", "adminKey"}

Chat == <<"chat", "completions">>
Segments == {Chat, <<"completions">>}
Standard == Prefix \o Chat

Ends == {p \o s : p \in {<<>>, Prefix}, s \in Segments}

Combinations == Ends \cup {s \o t : s, t \in Ends}

\* A faulty list that keeps the standard path.
FoolproofWithStandard == Combinations

(* getFoolproofPaths: one or two path ends, each with the prefix or not.   *)
FoolproofPaths == Combinations \ {Standard}

(* How a name is written in a path, and the names that have a route: those *)
(* of the list, and a Claude name with a date also with a dash.            *)
Slug(m) == m.family \o "-" \o m.date
RouteNames ==
  SupportedModels \cup
  {[m EXCEPT !.date = "dash"] :
     m \in {n \in SupportedModels : n.family = "claude" /\ n.date = "at"}}

Mount(kind, m, segs) == [kind |-> kind, model |-> m, segs |-> segs]
Root == Mount("root", NoName, <<>>)

Mounts ==
  {Root, Mount("api", NoName, Prefix), Mount("admin", NoName, <<"admin">>)}
  \cup (IF conf.modelRoute
          THEN {Mount("model", m, <<Slug(m)>> \o Prefix) : m \in RouteNames} ELSE {})
  \cup (IF conf.foolproof
          THEN {Mount("foolproof", NoName, s) : s \in FoolproofPaths} ELSE {})

Owner(p) ==
  CHOOSE o \in Mounts :
    /\ IsPrefix(o.segs, p)
    /\ \A n \in Mounts : IsPrefix(n.segs, p) => Len(n.segs) <= Len(o.segs)

\* What each sub-router serves, and who has the request next.
Endpoint(m, rest, next) == [method |-> m, rest |-> rest, next |-> next]
Endpoints ==
  [root      |-> {Endpoint("GET", <<>>, "health"), Endpoint("GET", <<"ping">>, "ping")},
   api       |-> {Endpoint("POST", Chat, "strict"), Endpoint("GET", <<"models">>, "list")},
   model     |-> {Endpoint("POST", Chat, "withModel")},
   foolproof |-> {Endpoint("POST", <<>>, "handler")},
   admin     |-> {Endpoint("GET", <<"blacklist">>, "file")}]

\* Faulty: the middleware is forgotten in one of the places that need it.
NeedsKeyButFoolproof(kind) ==
  CASE kind = "admin" -> "adminKey"
    [] kind \in {"api", "model"} /\ conf.key -> "apiKey"
    [] OTHER -> "none"

(* The key a sub-router asks for.  There always is an ADMIN_KEY: Load      *)
(* makes one up.                                                           *)
NeedsKey(kind) ==
  CASE kind = "admin" -> "adminKey"
    [] kind \in {"api", "model", "foolproof"} /\ conf.key -> "apiKey"
    [] OTHER -> "none"

\* Paths to ask for: of every mount, what it serves and what it does not.
Paths ==
  {o.segs \o r : o \in Mounts,
                 r \in {<<>>, <<"ping">>, <<"models">>, <<"blacklist">>, Chat}}

-----------------------------------------------------------------------------
Init ==
  /\ conf \in [key : BOOLEAN, modelRoute : BOOLEAN, foolproof : BOOLEAN]
  /\ at = "cors"
  /\ method = "GET"
  /\ path = <<>>
  /\ mount = Root
  /\ shown = "none"
  /\ strict = FALSE
  /\ named = NoName
  /\ status = 0

\* Either the next one has the request or it is answered.
Pass(next) == at' = next /\ UNCHANGED status
Reply(s) == at' = "replied" /\ status' = s

CORS ==
  /\ at = "cors"
  /\ method' \in Methods
  /\ CASE method' = "OPTIONS" -> Reply(204)
       [] method' \in {"GET", "POST"} -> Pass("limit")
       [] OTHER -> Reply(405)
  /\ UNCHANGED <<conf, path, mount, shown, strict, named>>

\* The limiter refuses a listed address and one that asks too often.
Limit ==
  /\ at = "limit"
  /\ Pass("route") \/ Reply(403) \/ Reply(429)
  /\ UNCHANGED <<conf, method, path, mount, shown, strict, named>>

Route ==
  /\ at = "route"
  /\ path' \in Paths
  /\ mount' = Owner(path')
  /\ Pass("auth")
  /\ UNCHANGED <<conf, method, shown, strict, named>>

(* Auth and AdminAuth.                                                     *)
Authenticate ==
  /\ at = "auth"
  /\ LET need == NeedsKey(mount.kind)
     IN  IF need = "none"
           THEN Pass("dispatch") /\ UNCHANGED shown
           ELSE \E key \in Keys :
                  IF key = need
                    THEN shown' = key /\ Pass("dispatch")
                    ELSE /\ UNCHANGED shown
                         /\ Reply(IF need = "adminKey" /\ key \notin {"none", "malformed"}
                                    THEN 403 ELSE 401)
  /\ UNCHANGED <<conf, method, path, mount, strict, named>>

Dispatch ==
  /\ at = "dispatch"
  /\ LET rest == SubSeq(path, Len(mount.segs) + 1, Len(path))
         here == {e \in Endpoints[mount.kind] : e.rest = rest}
         meant == {e \in here : e.method = method}
     IN  CASE here = {} -> Reply(404)
           [] here # {} /\ meant = {} -> Reply(405)
           [] meant # {} -> \E e \in meant : Pass(e.next)
  /\ UNCHANGED <<conf, method, path, mount, shown, strict, named>>

(* The second RateLimiter, with a blacklist of its own.                    *)
StrictLimit ==
  /\ at = "strict"
  /\ \/ Pass("handler") /\ strict' = TRUE
     \/ (Reply(403) \/ Reply(429)) /\ UNCHANGED strict
  /\ UNCHANGED <<conf, method, path, mount, shown, named>>

\* A faulty WithModel that only looks whether a model is named.
WithModelIfNone(m) ==
  /\ at = "withModel"
  /\ named' = IF m = NoName THEN mount.model ELSE m
  /\ Pass("handler")
  /\ UNCHANGED <<conf, method, path, mount, shown, strict>>

(* WithModel, when the body names m: what it decodes, with the model of    *)
(* the route if m will not do, is encoded as the body for the handler.     *)
WithModel(m) ==
  /\ at = "withModel"
  /\ named' = IF m = NoName \/ ~IsModelSupported(Normalize(m)) THEN mount.model ELSE m
  /\ Pass("handler")
  /\ UNCHANGED <<conf, method, path, mount, shown, strict>>

RefuseBody ==
  /\ at = "withModel"
  /\ Reply(400)
  /\ UNCHANGED <<conf, method, path, mount, shown, strict, named>>

Serve(handler, s) ==
  /\ at = handler
  /\ Reply(s)
  /\ UNCHANGED <<conf, method, path, mount, shown, strict, named>>

HealthCheck == Serve("health", 200)
Ping == Serve("ping", 200)
ListModels == Serve("list", 200)

\* A listed address does not get the file, and there may be none.
BlacklistFile == \E s \in {200, 403, 404} : Serve("file", s)

(* The handler is called.  Of the gate only a mount of a model and the     *)
(* name written still matter to it, and the rest is forgotten.             *)
Call ==
  /\ at = "handler"
  /\ at' = "called"
  /\ conf' = [key |-> FALSE, modelRoute |-> TRUE, foolproof |-> FALSE]
  /\ method' = "POST"
  /\ path' = <<>>
  /\ mount' = IF mount.kind = "model" THEN mount ELSE Root
  /\ shown' = "none"
  /\ strict' = FALSE
  /\ UNCHANGED <<named, status>>

Next ==
  \/ CORS \/ Limit \/ Route \/ Authenticate \/ Dispatch
  \/ StrictLimit
  \/ \E m \in Names \cup {NoName} : WithModel(m)
  \/ RefuseBody
  \/ HealthCheck \/ Ping \/ ListModels \/ BlacklistFile
  \/ Call

Spec == Init /\ [][Next]_gate

-----------------------------------------------------------------------------
TypeOK ==
  /\ conf \in [key : BOOLEAN, modelRoute : BOOLEAN, foolproof : BOOLEAN]
  /\ at \in {"cors", "limit", "route", "auth", "dispatch", "strict", "withModel",
              "handler", "health", "ping", "list", "file", "called", "replied"}
  /\ method \in Methods
  /\ mount \in Mounts
  /\ shown \in {"none", "apiKey", "adminKey"}
  /\ strict \in BOOLEAN
  /\ named \in Names \cup {NoName}
  /\ status \in {0, 200, 204, 400, 401, 403, 404, 405, 429}

(* Whichever of the mounts a path falls to, nothing is served without the  *)
(* key: the model list and completions not without API_KEY if there is     *)
(* one, and the blacklist file not without ADMIN_KEY, which is not what    *)
(* opens the others.                                                       *)
KeyBeforeService ==
  /\ at \in {"strict", "withModel", "handler", "list"} /\ conf.key => shown = "apiKey"
  /\ at = "file" => shown = "adminKey"

(* No route that main adds takes the standard path away from the strict    *)
(* limiter: a completion asked for there has passed it.                    *)
StandardIsStrict == at = "handler" /\ path = Standard => strict
=============================================================================
