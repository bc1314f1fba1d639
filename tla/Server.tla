------------------------------- MODULE Server -------------------------------
(***************************************************************************)
(* The HTTP process: requests on their connections, the readiness probe,   *)
(* the pool of Postgres clients they share, and graceful shutdown, with    *)
(* the calls to the exchange-rate provider that requests in flight are     *)
(* waiting for.                                                            *)
(*                                                                         *)
(* A request claims its idempotency key in Redis, waits for a client of    *)
(* the pool, works in a transaction, may ask for a rate meanwhile, gives   *)
(* the client back, and saves its response in Redis.  Statements take no   *)
(* time unless their server hangs; time passes in attempts, backoffs,      *)
(* probes, hangs and in the queue for a client.                            *)
(*                                                                         *)
(* A handler does not notice that its client went away: it runs on as one  *)
(* of the gone.                                                            *)
(*                                                                         *)
(* Shutdown closes the HTTP server, the pool, Redis and tracing, one after *)
(* the other, while a timer runs that ends the process anyway.             *)
(*                                                                         *)
(* delayed is history: during shutdown a connection outlived its response, *)
(* time passed over a request that waited for a client, a request ended    *)
(* that had waited for another's trial, or a query that a probe had left   *)
(* behind ended.                                                           *)
(***************************************************************************)
EXTENDS RateClient, FiniteSets

CONSTANTS
  SHUTDOWN_TIMEOUT, READINESS_CHECK_TIMEOUT,
  PoolSize,     \* pg's default, 10, as nothing configures it
  Faults,       \* out of FaultKinds
  MAX_HUNG,     \* bound: how many servers hang
  Probers       \* bound: the connections that carry probes

Connections == Calls

FaultKinds ==
  { "postgresHangs", "redisHangs", "tracingHangs",
    "closeFails",     \* a step's close() rejects
    "slowProbe",      \* SELECT 1 outlives the probe's timeout
    "keepAlive" }     \* a busy connection outlives its response

ASSUME ServerAssumption ==
  /\ SHUTDOWN_TIMEOUT \in Nat /\ READINESS_CHECK_TIMEOUT \in Nat \ {0}
  /\ PoolSize \in Nat \ {0}
  /\ Faults \subseteq FaultKinds /\ MAX_HUNG \in Nat
  /\ Probers \subseteq Calls
\* As configured: 10 s for shutdown, 6.8 s for a call, 2 s for a probe.
ASSUME DrainAssumption ==
  SHUTDOWN_TIMEOUT > CallBound /\ SHUTDOWN_TIMEOUT > READINESS_CHECK_TIMEOUT

Closing == {"http", "postgres", "redis", "tracing"}

VARIABLES
  place,            \* what the handler of each connection is doing
  gone,             \* handlers whose client has gone away
  probe, query,     \* what is left of a probe's timeout, and its query
  hung,             \* servers that no longer answer
  closing, force,   \* shutdown: the step it is at, what is left of its timer
  exitCode, exit,
  delayed

handlers == <<place, gone>>
probes == <<probe, query>>
process == <<handlers, probes>>
shutdown == <<closing, force, exitCode, exit, delayed>>
vars == <<clientVars, process, hung, shutdown>>

Idle == {"idle", "answered"}
InFlight == {"claiming", "connecting", "working", "rating", "saving", "probing"}

Init ==
  /\ ClientInit
  /\ place = [n \in Connections |-> "none"] /\ gone = {}
  /\ probe = [n \in Connections |-> 0]
  /\ query = [n \in Connections |-> "none"]
  /\ hung = {}
  /\ closing = "no" /\ force = 0 /\ exitCode = 0 /\ exit = "running"
  /\ delayed = FALSE

Move(n, here, next) ==
  place[n] = here /\ exit = "running" /\ place' = [place EXCEPT ![n] = next]

-----------------------------------------------------------------------------
(* What requests depend on *)

Listening == closing = "no"

\* pool.end() and quit() refuse what comes after them from the moment they
\* are called; what came before is waited for.
PoolEnding == closing \in {"postgres", "redis", "tracing", "done"}
RedisClosed == closing \in {"redis", "tracing", "done"}
RedisAnswers == "redis" \notin hung /\ closing \notin {"tracing", "done"}

InTransaction == {n \in Connections : place[n] \in {"working", "rating"}}
Querying == {n \in Connections : query[n] = "running"}

\* A pool that is ending hands out no more clients, not even to those that
\* are queued for one.
ClientFree ==
  ~PoolEnding /\ Cardinality(InTransaction) + Cardinality(Querying) < PoolSize

-----------------------------------------------------------------------------
(* Requests *)

Connect(n) ==
  /\ Listening
  /\ Move(n, "none", "idle")
  /\ UNCHANGED <<clientVars, gone, probes, hung, shutdown>>

\* A connection that is still open carries another request, even when the
\* server is closing.
Arrive(n) ==
  /\ Move(n, "idle", "claiming")
  /\ UNCHANGED <<clientVars, gone, probes, hung, shutdown>>

Disconnect(n) ==
  /\ Move(n, "idle", "none")
  /\ UNCHANGED <<clientVars, gone, probes, hung, shutdown>>

\* The client goes away in the middle of its request: the socket is closed,
\* nobody tells the handler.
Abort(n) ==
  /\ exit = "running"
  /\ place[n] \in InFlight /\ n \notin gone
  /\ gone' = gone \cup {n}
  /\ UNCHANGED <<clientVars, place, probes, hung, shutdown>>

\* The handler is done.  A response on a connection of a closing server ends
\* the connection, unless it is kept alive.  Its next request takes the client
\* some time.
Respond(n, here) ==
  /\ \/ /\ Move(n, here, "answered")
        /\ n \notin gone
        /\ Listening \/ "keepAlive" \in Faults
     \/ Move(n, here, "none")
  /\ gone' = gone \ {n}
  /\ delayed' = (delayed \/ (~Listening /\ place'[n] = "answered"))
  /\ UNCHANGED <<clientVars, hung, closing, force, exitCode, exit>>

\* With the key claimed the transaction asks for a client.  It is queued when
\* all are taken; a pool that is ending refuses, and the key is released.
Claim(n) ==
  /\ RedisAnswers
  /\ \/ PoolEnding /\ Move(n, "claiming", "saving")
     \/ ClientFree /\ Move(n, "claiming", "working")
     \/ ~PoolEnding /\ ~ClientFree /\ Move(n, "claiming", "connecting")
  /\ UNCHANGED <<clientVars, gone, probes, hung, shutdown>>

\* A client that was released goes to one that is queued.
Begin(n) ==
  /\ ClientFree
  /\ Move(n, "connecting", "working")
  /\ UNCHANGED <<clientVars, gone, probes, hung, shutdown>>

\* getRate, within the open transaction and under its client.
AskForRate(n) ==
  /\ "postgres" \notin hung
  /\ Move(n, "working", "rating")
  /\ step' = [step EXCEPT ![n] = "entering"]
  /\ UNCHANGED <<attempt, timer, age, waited, breaker, gone, probes, hung, shutdown>>

\* The transaction commits, or rolls back when there was no rate, and releases
\* its client.
EndTransaction(n) ==
  /\ "postgres" \notin hung
  /\ \/ Move(n, "working", "saving") /\ UNCHANGED <<step, attempt, age, waited, delayed>>
     \/ /\ step[n] = "ended"
        /\ delayed' = (delayed \/ (~Listening /\ waited[n]))
        /\ Move(n, "rating", "saving")
        /\ step' = [step EXCEPT ![n] = "none"]
        /\ attempt' = [attempt EXCEPT ![n] = 1]
        /\ age' = [age EXCEPT ![n] = 0]
        /\ waited' = [waited EXCEPT ![n] = FALSE]
  /\ UNCHANGED <<timer, breaker, gone, probes, hung, closing, force, exitCode, exit>>

\* The response is saved, or the key released.
Save(n) ==
  /\ RedisAnswers
  /\ Respond(n, "saving")
  /\ UNCHANGED probes

\* "The client is closed": the claim, the save and the release that follows
\* reject, and so does the request.
MeetClosedRedis(n) ==
  /\ RedisClosed
  /\ Respond(n, "claiming") \/ Respond(n, "saving")
  /\ UNCHANGED probes

-----------------------------------------------------------------------------
(* GET /health/ready: each check races with its timeout *)

\* pool.query(), which waits for a client too, and ping().  A connection's
\* probes have one query at a time.
Probe(n) ==
  /\ n \in Probers /\ query[n] = "none"
  /\ Move(n, "idle", "probing")
  /\ probe' = [probe EXCEPT ![n] = READINESS_CHECK_TIMEOUT]
  /\ query' = [query EXCEPT ![n] = IF ClientFree THEN "running" ELSE "waiting"]
  /\ UNCHANGED <<clientVars, gone, hung, shutdown>>

QueryStarts(n) ==
  /\ exit = "running"
  /\ query[n] = "waiting" /\ ClientFree
  /\ query' = [query EXCEPT ![n] = "running"]
  /\ UNCHANGED <<clientVars, handlers, probe, hung, shutdown>>

QueryEnds(n) ==
  /\ exit = "running"
  /\ query[n] = "running" /\ "postgres" \notin hung
  /\ query' = [query EXCEPT ![n] = "none"]
  /\ delayed' = (delayed \/ (~Listening /\ place[n] # "probing"))
  /\ UNCHANGED <<clientVars, handlers, probe, hung, closing, force, exitCode, exit>>

ProbeAnswers(n) ==
  /\ query[n] = "none" /\ "redis" \notin hung
  /\ Respond(n, "probing")
  /\ probe' = [probe EXCEPT ![n] = 0]
  /\ UNCHANGED query

\* Promise.race answers; the query it stopped waiting for goes on.
ProbeTimesOut(n) ==
  /\ place[n] = "probing" /\ probe[n] = 0
  /\ Respond(n, "probing")
  /\ UNCHANGED probes

\* Queries that probes left behind and that hold a client.
Leaked == {n \in Querying : place[n] # "probing"}

-----------------------------------------------------------------------------
(* createGracefulShutdown *)

\* Mistake: the timer covers one attempt of a call, not its retries.
Signal_OneAttempt ==
  /\ closing = "no" /\ exit = "running"
  /\ closing' = "http"
  /\ force' = HTTP_TIMEOUT + 1
  /\ place' = [n \in Connections |-> IF place[n] \in Idle THEN "none" ELSE place[n]]
  /\ UNCHANGED <<clientVars, gone, probes, hung, exitCode, exit, delayed>>

\* The first signal: the timer starts, the server stops listening and closes
\* its idle connections.
Signal ==
  /\ closing = "no" /\ exit = "running"
  /\ closing' = "http"
  /\ force' = SHUTDOWN_TIMEOUT
  /\ place' = [n \in Connections |-> IF place[n] \in Idle THEN "none" ELSE place[n]]
  /\ UNCHANGED <<clientVars, gone, probes, hung, exitCode, exit, delayed>>

Next1 == [http |-> "postgres", postgres |-> "redis", redis |-> "tracing",
          tracing |-> "done"]

\* Mistake: server.close() is called and not awaited.
CanClose_NotAwaited ==
  \/ closing = "http"
  \/ closing = "postgres" /\ InTransaction \cup Querying = {} /\ "postgres" \notin hung
  \/ closing = "redis" /\ "redis" \notin hung
  \/ closing = "tracing" /\ "tracing" \notin hung

\* server.close() waits for every open socket, pool.end() for every client that
\* is checked out, quit() for Redis.  A client that is released goes to whoever
\* is queued for it before pool.end() can be called.
CanClose ==
  \/ /\ closing = "http"
     /\ \A n \in Connections : place[n] # "none" => n \in gone
     /\ ClientFree => \A n \in Connections : place[n] # "connecting" /\ query[n] # "waiting"
  \/ closing = "postgres" /\ InTransaction \cup Querying = {} /\ "postgres" \notin hung
  \/ closing = "redis" /\ "redis" \notin hung
  \/ closing = "tracing" /\ "tracing" \notin hung

CloseStep ==
  /\ exit = "running"
  /\ CanClose
  /\ closing' = Next1[closing]
  /\ UNCHANGED <<clientVars, process, hung, force, exitCode, exit, delayed>>

\* A step that rejects is logged and passed over.  server.close() does not
\* reject: the server was listening.
CloseFails ==
  /\ "closeFails" \in Faults
  /\ exit = "running"
  /\ closing \in Closing \ {"http"}
  /\ closing' = Next1[closing]
  /\ exitCode' = 1
  /\ UNCHANGED <<clientVars, process, hung, force, exit, delayed>>

Exit ==
  /\ exit = "running" /\ closing = "done"
  /\ exit' = IF exitCode = 0 THEN "clean" ELSE "unclean"
  /\ UNCHANGED <<clientVars, process, hung, closing, force, exitCode, delayed>>

\* Mistake: the timer is cleared as soon as the HTTP server has closed.
ForceExit_OfHttpOnly ==
  /\ exit = "running" /\ closing = "http" /\ force = 0
  /\ exit' = "forced"
  /\ UNCHANGED <<clientVars, process, hung, closing, force, exitCode, delayed>>

ForceExit ==
  /\ exit = "running" /\ closing \in Closing /\ force = 0
  /\ exit' = "forced"
  /\ UNCHANGED <<clientVars, process, hung, closing, force, exitCode, delayed>>

\* Nothing waits for the tracing exporter before its step does.
Hang(server) ==
  /\ exit = "running" /\ Cardinality(hung) < MAX_HUNG
  /\ \/ server = "postgres" /\ "postgresHangs" \in Faults
     \/ server = "redis" /\ "redisHangs" \in Faults
     \/ server = "tracing" /\ "tracingHangs" \in Faults /\ closing = "tracing"
  /\ hung' = hung \cup {server}
  /\ UNCHANGED <<clientVars, process, shutdown>>

-----------------------------------------------------------------------------
(* The process *)

\* What takes no time unless a server hangs or the pool is exhausted.
Prompt(n) ==
  \/ Claim(n) \/ Begin(n) \/ AskForRate(n) \/ EndTransaction(n) \/ Save(n)
  \/ MeetClosedRedis(n)
  \/ QueryStarts(n) \/ ProbeAnswers(n) \/ ProbeTimesOut(n)

PromptOwed(n) ==
  \/ place[n] \in {"claiming", "saving"} /\ "redis" \notin hung
  \/ place[n] = "connecting" /\ ClientFree
  \/ place[n] = "working" /\ "postgres" \notin hung
  \/ place[n] = "rating" /\ step[n] = "ended" /\ "postgres" \notin hung
  \/ place[n] = "probing" /\ (probe[n] = 0 \/ (query[n] = "none" /\ "redis" \notin hung))
  \/ query[n] = "waiting" /\ ClientFree

ShutdownOwed ==
  CanClose \/ closing = "done" \/ (closing \in Closing /\ force = 0)

\* A query that is not slow ends before time passes.
QueryOwed(n) ==
  query[n] = "running" /\ "slowProbe" \notin Faults /\ "postgres" \notin hung

Tick ==
  /\ exit = "running"
  /\ \A n \in Connections : ~PromptOwed(n) /\ ~QueryOwed(n)
  /\ ~ShutdownOwed
  /\ ClientTick
  /\ probe' = [n \in Connections |-> Less1(probe[n])]
  /\ force' = Less1(force)
  /\ place' = [n \in Connections |-> IF place[n] = "answered" THEN "idle" ELSE place[n]]
  /\ delayed' = (delayed \/ (closing = "http" /\ \E n \in Connections : place[n] = "connecting"))
  /\ UNCHANGED <<gone, query, hung, closing, exitCode, exit>>

RateCall(n) ==
  /\ exit = "running"
  /\ CallProceeds(n)
  /\ UNCHANGED <<process, hung, shutdown>>

Shutdown == CloseStep \/ Exit \/ ForceExit

Stopped == exit # "running" /\ UNCHANGED vars

Next ==
  \/ \E n \in Connections :
       \/ Connect(n) \/ Arrive(n) \/ Disconnect(n) \/ Abort(n)
       \/ Prompt(n) \/ RateCall(n)
       \/ Probe(n) \/ QueryEnds(n)
  \/ Signal \/ Shutdown \/ CloseFails
  \/ \E server \in {"postgres", "redis", "tracing"} : Hang(server)
  \/ Tick
  \/ Stopped

Spec == Init /\ [][Next]_vars

\* Time passes; statements, queries and calls go on; the process gets on with
\* its shutdown.
FairSpec ==
  /\ Spec
  /\ WF_vars(Tick)
  /\ WF_vars(Shutdown)
  /\ \A n \in Connections : WF_vars(Prompt(n) \/ RateCall(n) \/ QueryEnds(n))

-----------------------------------------------------------------------------
(* Properties *)

TypeOK ==
  /\ ClientTypeOK
  /\ place \in [Connections -> InFlight \cup Idle \cup {"none"}]
  /\ gone \subseteq Connections
  /\ probe \in [Connections -> 0..READINESS_CHECK_TIMEOUT]
  /\ query \in [Connections -> {"none", "waiting", "running"}]
  /\ hung \subseteq {"postgres", "redis", "tracing"}
  /\ closing \in Closing \cup {"no", "done"}
  /\ force \in 0..SHUTDOWN_TIMEOUT
  /\ exitCode \in {0, 1}
  /\ exit \in {"running", "clean", "unclean", "forced"}
  /\ delayed \in BOOLEAN

\* Only a request whose client has gone away can meet a pool or a Redis client
\* that shutdown has closed, and even of those a clean exit cuts off no
\* transaction: whoever had a client of the pool has given it back.
DependenciesOutliveRequests ==
  /\ PoolEnding => \A n \in Connections : place[n] # "none" => n \in gone
  /\ exit = "clean" => InTransaction \cup Querying = {}

\* A shutdown is cut off only for cause: a server that hangs, a query a probe
\* left behind, a connection that outlived its response, a call that had to
\* wait for another's trial, or a request that had to wait for a client of the
\* pool.  Requests in flight that find a client, gone or not, fit in the
\* timeout.
ForcedExitIsExplained ==
  exit = "forced" => hung # {} \/ Leaked # {} \/ delayed \/ \E n \in Connections : waited[n]

\* The process always ends, once told to.
ShutdownEnds == closing # "no" ~> exit # "running"

-----------------------------------------------------------------------------
(* The inductive invariant *)

CallsMatchPlaces ==
  \A n \in Connections :
    /\ place[n] = "rating" <=> step[n] # "none"
    /\ step[n] = "none" => age[n] = 0 /\ ~waited[n]
    /\ n \in gone => place[n] \in InFlight

\* Nothing the history would explain.
Unhindered == ~delayed /\ hung = {}

\* While requests drain, what is left of the force-exit timer covers what is
\* left of every call and of every probe.
Drains ==
  closing \in {"http", "postgres"} /\ Unhindered =>
    \A n \in Connections :
      /\ place[n] \notin Idle
      /\ \/ place[n] \in {"claiming", "working"}
         \/ place[n] = "connecting" /\ closing = "http"
         => force = SHUTDOWN_TIMEOUT
      /\ place[n] = "rating" /\ step[n] # "ended" /\ ~waited[n] => force + age[n] > CallBound
      /\ place[n] = "probing" => force > probe[n]

\* The timer does not run out on a shutdown that nothing holds up.
TimeIsLeft ==
  closing \in Closing /\ Unhindered /\ Leaked = {} /\ (\A n \in Connections : ~waited[n])
    => force > 0

\* A pool that was closed without an error has no client checked out.
PoolIsDrained == RedisClosed /\ exitCode = 0 => InTransaction \cup Querying = {}

IInv ==
  /\ TypeOK
  /\ ClientInv
  /\ CallsMatchPlaces
  /\ Drains /\ TimeIsLeft /\ PoolIsDrained
  /\ DependenciesOutliveRequests
  /\ ForcedExitIsExplained

=============================================================================
