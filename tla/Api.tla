----------------------------------- MODULE Api -----------------------------------
(***************************************************************************)
(* The HTTP API: handlers that run at the same time, answer from a cache    *)
(* whose entries expire, or read the database and add what they read.  The  *)
(* routes come in three shapes: a page of a table ("page", and "roots" for  *)
(* the one whose cache returns another type than is added), one record      *)
(* ("record"), and the rows that belong to an id ("blocks").  The table is  *)
(* a StatusTable, which the business processor writes.  Requests with bad   *)
(* parameters are answered 400 before anything happens and are left out.    *)
(***************************************************************************)
EXTENDS StatusTable, Functions

CONSTANTS
  Handlers,  \* the requests that can be in progress at once
  Asked      \* the requests that clients make

Request == [route : {"page", "roots"}, of : {0}]
             \cup [route : {"record", "blocks"}, of : 1..MaxRows]

ASSUME ApiAssumption == Asked \subseteq Request

VARIABLES
  cache,    \* the entries of the LRU caches: what was added
  handler,  \* what each handler is doing, for which request
  answer    \* the last answer, its request, and whether a row was missed

apiVars == <<rows, cache, handler, answer>>

(* A page, the rows of an id, a record with its status; the zero value of one of
   these, and null.  "panic" is an answer 500. *)
Body == [kind : {"none", "page", "zero", "null", "panic"}]
          \cup [kind : {"blocks"}, of : 1..MaxRows]
          \cup [kind : {"record"}, of : 1..MaxRows, status : Status]

Idle == [pc |-> "idle"]

Handler == {Idle}
             \cup [pc : {"query"}, req : Asked, had : BOOLEAN]
             \cup [pc : {"add"}, req : Asked, had : BOOLEAN, got : Body]

ApiTypeOK ==
  /\ rows \in Seq(Status) /\ Len(rows) <= MaxRows
  /\ DOMAIN cache \subseteq Asked /\ cache \in [DOMAIN cache -> Body]
  /\ handler \in [Handlers -> Handler]
  /\ answer \in [req : Request \cup {Idle}, body : Body, had : BOOLEAN]

ApiInit ==
  /\ TableInit
  /\ cache = <<>>
  /\ handler = [h \in Handlers |-> Idle]
  /\ answer = [req |-> Idle, body |-> [kind |-> "none"], had |-> FALSE]

TableStep == TableNext /\ UNCHANGED <<cache, handler, answer>>

Tell(req, body, had) ==
  answer' = [req |-> req, body |-> body, had |-> had /\ body.kind = "null"]

(* Mutant of Hit: null is an entry like any other. *)
HitNull(req) == req \in DOMAIN cache

(* A pointer or a slice that is nil counts as no entry. *)
Hit(req) == req \in DOMAIN cache /\ cache[req].kind # "null"

(* What the cache returns.  The list of state roots is added as one type and
   asserted to be another: the handler panics and the panic is recovered. *)
Cached(req) ==
  IF req.route = "roots" THEN [kind |-> "panic"] ELSE cache[req]

(* A request reaches its handler, which looks into the cache. *)
Ask(h, req) ==
  /\ handler[h] = Idle
  /\ LET had == req.route = "record" /\ req.of \in DOMAIN rows IN
     \/ /\ Hit(req)
        /\ Tell(req, Cached(req), had)
        /\ UNCHANGED handler
     \/ /\ ~ Hit(req)
        /\ handler' = [handler EXCEPT ![h] = [pc |-> "query", req |-> req, had |-> had]]
        /\ UNCHANGED answer
  /\ UNCHANGED <<rows, cache>>

(* Mutant of Read: a record is looked up by its place on the page. *)
ReadNewest(req) ==
  CASE req.route \in {"page", "roots"} -> [kind |-> "page"]
    [] req.of \notin DOMAIN rows -> [kind |-> "null"]
    [] OTHER -> [kind |-> "record", of |-> Len(rows), status |-> rows[Len(rows)]]

Read(req) ==
  CASE req.route \in {"page", "roots"} -> [kind |-> "page"]
    [] req.route = "record" ->
         IF req.of \in DOMAIN rows
           THEN [kind |-> "record", of |-> req.of, status |-> rows[req.of]]
           ELSE [kind |-> "null"]
    [] req.route = "blocks" ->
         IF req.of \in DOMAIN rows
           THEN [kind |-> "blocks", of |-> req.of] ELSE [kind |-> "zero"]

(* An error of the database is logged and dropped: the handler goes on with the
   zero value of a page or a record, or with a nil slice. *)
Failed(req) == [kind |-> IF req.route = "blocks" THEN "null" ELSE "zero"]

Got(h, body) ==
  handler' = [handler EXCEPT ![h] =
                [pc |-> "add", req |-> handler[h].req, had |-> handler[h].had, got |-> body]]

Query(h) ==
  /\ handler[h].pc = "query" /\ Got(h, Read(handler[h].req))
  /\ UNCHANGED <<rows, cache, answer>>

QueryFails(h) ==
  /\ handler[h].pc = "query" /\ Got(h, Failed(handler[h].req))
  /\ UNCHANGED <<rows, cache, answer>>

Add(h) ==
  /\ handler[h].pc = "add"
  /\ LET req == handler[h].req  got == handler[h].got IN
     /\ cache' = [r \in DOMAIN cache \cup {req} |-> IF r = req THEN got ELSE cache[r]]
     /\ Tell(req, got, handler[h].had)
  /\ handler' = [handler EXCEPT ![h] = Idle]
  /\ UNCHANGED rows

(* Mutant of Drop: a use renews the time of an entry. *)
DropUnused(req) ==
  /\ req \in DOMAIN cache /\ answer.req # req
  /\ cache' = Restrict(cache, DOMAIN cache \ {req})
  /\ UNCHANGED <<rows, handler, answer>>

(* An entry has expired, or has made room for another. *)
Drop(req) ==
  /\ req \in DOMAIN cache
  /\ cache' = Restrict(cache, DOMAIN cache \ {req})
  /\ UNCHANGED <<rows, handler, answer>>

ApiNext ==
  \/ TableStep
  \/ \E req \in Asked : Drop(req) \/ \E h \in Handlers : Ask(h, req)
  \/ \E h \in Handlers :
       Query(h) \/ QueryFails(h) \/ Add(h)

ApiSpec == ApiInit /\ [][ApiNext]_apiVars

(* Entries expire, a handler that can take a step takes it, a query that is made
   again and again succeeds at last, and clients keep asking. *)
ApiFairSpec ==
  /\ ApiSpec
  /\ \A h \in Handlers : WF_apiVars(Query(h) \/ QueryFails(h) \/ Add(h))
  /\ \A req \in Asked :
       /\ WF_apiVars(Drop(req))
       /\ SF_apiVars(\E h \in Handlers : Ask(h, req))
       /\ SF_apiVars(\E h \in Handlers : Query(h) /\ handler[h].req = req)

-----------------------------------------------------------------------------
(* Whatever the cache kept and however old it is, a record that is answered is
   the one asked for, with a status it has or had (api/routes/stateroot.go:48-86,
   database/business/stateroot.go:130-142). *)
AnswerTrue ==
  answer.body.kind = "record" =>
    /\ answer.body.of = answer.req.of
    /\ answer.body.of \in DOMAIN rows
    /\ answer.body.status <= rows[answer.body.of]

(* null is an answer only to who asked before the record was there: it is put into
   the cache like any other, but never answered from it (api/routes/stateroot.go:60-69). *)
NullMeansAbsent ==
  answer.req # Idle /\ answer.req.route = "record" => ~ answer.had

(* Answers out of date go away: the last status of a record, and the rows of an id,
   are answered in the end, although older answers are added to the cache after
   newer ones, an empty list is kept like any other, and errors of the database
   are kept as records of zeros; and the list of state roots is answered again and
   again, after every panic (cache/cache.go:33-52, 100-111, api/api.go:102-104). *)
AnsweredAtLast ==
  \A req \in Asked :
    /\ req.route = "record" =>
         ((req.of \in DOMAIN rows /\ rows[req.of] = MaxStatus) ~>
            (answer.req = req /\ answer.body.kind = "record" /\ answer.body.status = MaxStatus))
    /\ req.route = "blocks" =>
         ((req.of \in DOMAIN rows) ~> (answer.req = req /\ answer.body.kind = "blocks"))
    /\ req.route = "roots" => []<>(answer.req = req /\ answer.body.kind = "page")

(* api/README.md:243 documents the route stateroot/list without a limit on how often
   it is asked.  The second request within the expiry is answered 500
   (cache/cache.go:100-106): see ApiRoots.cfg. *)
RootsAnswered ==
  answer.req # Idle /\ answer.req.route = "roots" => answer.body.kind # "panic"
=============================================================================
