-------------------------------- MODULE Server --------------------------------
(***************************************************************************)
(* The life of the server's processes (main.py, lifespan): each uvicorn    *)
(* worker verifies the database, connects Redis and Kafka, seeds the       *)
(* skills (db/crud.py), starts its poller and serves; on a signal it lets  *)
(* its requests end, cancels the poller and closes the clients.  A worker  *)
(* whose startup fails, or that dies, is started again.                    *)
(*                                                                         *)
(* Requests and the poller share the worker's pool of connections          *)
(* (db/session.py).  A session takes one with its first statement and      *)
(* gives it back when it is closed.  poll_once goes on using its session   *)
(* after the context manager has closed it: the connection it takes then   *)
(* comes back only when the session is garbage.                            *)
(***************************************************************************)
EXTENDS Sequences, FiniteSets, Functions

CONSTANTS
    Workers,
    Requests,       \* request slots of each worker
    Apps,           \* applications in ML_PROCESSING
    SkillNames,     \* the names to seed, in the order of seed_skills
    POOL_SIZE,      \* pool_size + max_overflow
    MaxFaults       \* bound on failures, timeouts, crashes and signals

ASSUME HoldersAssumption == Requests \cap Apps = {} /\ "pass" \notin Requests \cup Apps
ASSUME NamesAssumption == SkillNames \in Seq(Range(SkillNames))
ASSUME PoolAssumption == POOL_SIZE \in Nat \ {0}
ASSUME FaultAssumption == MaxFaults \in Nat

VARIABLES
    stage,      \* what a worker's lifespan is doing
    open,       \* the clients a worker has open
    skills,     \* names in the skills table
    seed,       \* a worker's seed_skills: position, and its open inserts
    conns,      \* who holds a connection of the worker's pool
    garbage,    \* connections of sessions nobody refers to any more
    poller,     \* where start_poller is
    task,       \* _process_one, per worker and application
    request,    \* requests: idle, waiting for a connection, or running
    stored,     \* applications whose verdict is committed
    faults

startup == <<stage, open, skills, seed>>
polling == <<poller, task, stored>>
vars == <<startup, conns, garbage, polling, request, faults>>

-----------------------------------------------------------------------------
Clients == {"db", "redis", "kafka"}
Stages == {"down", "verify_db", "init_redis", "start_kafka", "seed", "serve",
           "drain", "stop_kafka", "close_redis", "close_db"}

NoSeed == [next |-> 1, pc |-> "exists", own |-> {}]

NoTasks == [a \in Apps |-> "none"]
NoRequests == [r \in Requests |-> "idle"]

Holders == Requests \cup Apps \cup {"pass"}
Seeds == [next : Nat, pc : {"exists", "create"}, own : SUBSET Range(SkillNames)]

TypeOK ==
    /\ stage \in [Workers -> Stages]
    /\ open \in [Workers -> SUBSET Clients]
    /\ skills \subseteq Range(SkillNames)
    /\ seed \in [Workers -> Seeds]
    /\ conns \in [Workers -> SUBSET Holders]
    /\ garbage \in [Workers -> Nat]
    /\ \A w \in Workers : IsFiniteSet(conns[w]) /\ Cardinality(conns[w]) + garbage[w] <= POOL_SIZE
    /\ poller \in [Workers -> {"off", "list", "sessions", "gather"}]
    /\ task \in [Workers -> [Apps -> {"none", "listed", "ask", "connect", "store"}]]
    /\ request \in [Workers -> [Requests -> {"idle", "wait", "run"}]]
    /\ stored \subseteq Apps
    /\ faults \in 0..MaxFaults

Init ==
    /\ stage = [w \in Workers |-> "down"]
    /\ open = [w \in Workers |-> {}]
    /\ skills = {}
    /\ seed = [w \in Workers |-> NoSeed]
    /\ conns = [w \in Workers |-> {}]
    /\ garbage = [w \in Workers |-> 0]
    /\ poller = [w \in Workers |-> "off"]
    /\ task = [w \in Workers |-> NoTasks]
    /\ request = [w \in Workers |-> NoRequests]
    /\ stored = {}
    /\ faults = 0

Fault == faults < MaxFaults /\ faults' = faults + 1

CanConnect(w) == Cardinality(conns[w]) + garbage[w] < POOL_SIZE
Connect(w, x) == CanConnect(w) /\ conns' = [conns EXCEPT ![w] = @ \cup {x}]
Release(w, x) == conns' = [conns EXCEPT ![w] = @ \ {x}]

\* The process is gone, and with it its transactions and connections.
Exit(w) ==
    /\ stage' = [stage EXCEPT ![w] = "down"]
    /\ open' = [open EXCEPT ![w] = {}]
    /\ seed' = [seed EXCEPT ![w] = NoSeed]
    /\ conns' = [conns EXCEPT ![w] = {}]
    /\ garbage' = [garbage EXCEPT ![w] = 0]
    /\ poller' = [poller EXCEPT ![w] = "off"]
    /\ task' = [task EXCEPT ![w] = NoTasks]
    /\ request' = [request EXCEPT ![w] = NoRequests]
    /\ UNCHANGED <<skills, stored>>

-----------------------------------------------------------------------------
(***************************************************************************)
(* Startup.                                                                *)
(***************************************************************************)
Spawn(w) ==
    /\ stage[w] = "down"
    /\ stage' = [stage EXCEPT ![w] = "verify_db"]
    /\ UNCHANGED <<open, skills, seed, conns, garbage, polling, request, faults>>

Opens(w, at, client, then) ==
    /\ stage[w] = at
    /\ stage' = [stage EXCEPT ![w] = then]
    /\ open' = [open EXCEPT ![w] = @ \cup {client}]
    /\ UNCHANGED <<skills, seed, conns, garbage, polling, request, faults>>

VerifyDb(w) == Opens(w, "verify_db", "db", "init_redis")
InitRedis(w) == Opens(w, "init_redis", "redis", "start_kafka")
StartKafka(w) == Opens(w, "start_kafka", "kafka", "seed")

SeedName(w) == SkillNames[seed[w].next]

\* Mutant: every name is inserted, whether it exists or not.
SeedExists_Never(w) ==
    /\ stage[w] = "seed"
    /\ seed[w].pc = "exists"
    /\ seed[w].next <= Len(SkillNames)
    /\ seed' = [seed EXCEPT ![w].pc = "create"]
    /\ UNCHANGED <<stage, open, skills, conns, garbage, polling, request, faults>>

\* exists(Skill, name): committed, or inserted by this worker.
SeedExists(w) ==
    /\ stage[w] = "seed"
    /\ seed[w].pc = "exists"
    /\ seed[w].next <= Len(SkillNames)
    /\ seed' = IF SeedName(w) \in skills \cup seed[w].own
               THEN [seed EXCEPT ![w].next = @ + 1]
               ELSE [seed EXCEPT ![w].pc = "create"]
    /\ UNCHANGED <<stage, open, skills, conns, garbage, polling, request, faults>>

\* create(Skill): waits for an open insert of the name by the other worker.
\* When that has committed the unique name raises, the startup fails and the
\* process exits.
SeedCreate(w) ==
    /\ stage[w] = "seed"
    /\ seed[w].pc = "create"
    /\ \A v \in Workers \ {w} : SeedName(w) \notin seed[v].own
    /\ \/ SeedName(w) \in skills /\ Exit(w)
       \/ /\ SeedName(w) \notin skills
          /\ seed' = [seed EXCEPT ![w].own = @ \cup {SeedName(w)},
                                  ![w].next = @ + 1, ![w].pc = "exists"]
          /\ UNCHANGED <<stage, open, skills, conns, garbage, polling, request>>
    /\ UNCHANGED faults

\* Mutant: the seeding goes on in the background while the worker serves.
SeedCommit_Background(w) ==
    /\ stage[w] = "seed"
    /\ stage' = [stage EXCEPT ![w] = "serve"]
    /\ poller' = [poller EXCEPT ![w] = "list"]
    /\ skills' = skills \cup seed[w].own
    /\ seed' = [seed EXCEPT ![w] = NoSeed]
    /\ UNCHANGED <<open, conns, garbage, task, stored, request, faults>>

\* The context manager commits; the poller starts; the worker serves.
SeedCommit(w) ==
    /\ stage[w] = "seed"
    /\ seed[w].next = Len(SkillNames) + 1
    /\ skills' = skills \cup seed[w].own
    /\ seed' = [seed EXCEPT ![w] = NoSeed]
    /\ stage' = [stage EXCEPT ![w] = "serve"]
    /\ poller' = [poller EXCEPT ![w] = "list"]
    /\ UNCHANGED <<open, conns, garbage, task, stored, request, faults>>

-----------------------------------------------------------------------------
(***************************************************************************)
(* Requests: get_db, from the first statement to the end.                  *)
(***************************************************************************)
RequestArrives(w, r) ==
    /\ stage[w] = "serve"
    /\ request[w][r] = "idle"
    /\ request' = [request EXCEPT ![w][r] = "wait"]
    /\ UNCHANGED <<startup, conns, garbage, polling, faults>>

RequestConnects(w, r) ==
    /\ request[w][r] = "wait"
    /\ Connect(w, r)
    /\ request' = [request EXCEPT ![w][r] = "run"]
    /\ UNCHANGED <<startup, garbage, polling, faults>>

RequestEnds(w, r) ==
    /\ request[w][r] = "run"
    /\ Release(w, r)
    /\ request' = [request EXCEPT ![w][r] = "idle"]
    /\ UNCHANGED <<startup, garbage, polling, faults>>

\* The pool's timeout: 30 s without a free connection.
RequestTimesOut(w, r) ==
    /\ request[w][r] = "wait"
    /\ ~CanConnect(w)
    /\ Fault
    /\ request' = [request EXCEPT ![w][r] = "idle"]
    /\ UNCHANGED <<startup, conns, garbage, polling>>

-----------------------------------------------------------------------------
(***************************************************************************)
(* The poller (pipeline/poller.py).                                        *)
(***************************************************************************)
Listed(w) == task' = [task EXCEPT ![w] = [a \in Apps |-> IF a \in stored THEN "none" ELSE "listed"]]

\* get_processing_applications, in a context that gives its connection back.
PollList(w) ==
    /\ poller[w] = "list"
    /\ Apps \ stored # {}
    /\ CanConnect(w)
    /\ poller' = [poller EXCEPT ![w] = "sessions"]
    /\ Listed(w)
    /\ UNCHANGED <<startup, conns, garbage, stored, request, faults>>

\* get_last_session_for_application, for each, on the session that is closed:
\* it takes a connection again and keeps it; then gather.
PollSessions(w) ==
    /\ poller[w] = "sessions"
    /\ Connect(w, "pass")
    /\ poller' = [poller EXCEPT ![w] = "gather"]
    /\ task' = [task EXCEPT ![w] = [a \in Apps |-> IF @[a] = "listed" THEN "ask" ELSE "none"]]
    /\ UNCHANGED <<startup, garbage, stored, request, faults>>

\* Status and verdict from the ML service, no connection held.
TaskAsk(w, a) ==
    /\ task[w][a] = "ask"
    /\ task' = [task EXCEPT ![w][a] = "connect"]
    /\ UNCHANGED <<startup, conns, garbage, poller, stored, request, faults>>

TaskConnect(w, a) ==
    /\ task[w][a] = "connect"
    /\ Connect(w, a)
    /\ task' = [task EXCEPT ![w][a] = "store"]
    /\ UNCHANGED <<startup, garbage, poller, stored, request, faults>>

TaskStore(w, a) ==
    /\ task[w][a] = "store"
    /\ Release(w, a)
    /\ stored' = stored \cup {a}
    /\ task' = [task EXCEPT ![w][a] = "none"]
    /\ UNCHANGED <<startup, garbage, poller, request, faults>>

\* The ML service cannot be reached, a statement fails, or no connection comes
\* free: gather keeps the exception to itself.
TaskFails(w, a) ==
    /\ task[w][a] \in {"ask", "connect", "store"}
    /\ Fault
    /\ Release(w, a)
    /\ task' = [task EXCEPT ![w][a] = "none"]
    /\ UNCHANGED <<startup, garbage, poller, stored, request>>

\* The pass is over and its session garbage; 30 s later the next one begins.
PassEnds(w) ==
    /\ poller[w] = "gather"
    /\ task[w] = NoTasks
    /\ poller' = [poller EXCEPT ![w] = "list"]
    /\ Release(w, "pass")
    /\ garbage' = [garbage EXCEPT ![w] = @ + 1]
    /\ UNCHANGED <<startup, task, stored, request, faults>>

\* Mutant: the exception leaves the loop of start_poller.
PassFails_EndsTheLoop(w) ==
    /\ poller[w] \in {"list", "sessions"}
    /\ Fault
    /\ poller' = [poller EXCEPT ![w] = "off"]
    /\ task' = [task EXCEPT ![w] = NoTasks]
    /\ UNCHANGED <<startup, conns, garbage, stored, request>>

\* A failure or timeout before the tasks exist: logged by start_poller.
PassFails(w) ==
    /\ poller[w] \in {"list", "sessions"}
    /\ Fault
    /\ poller' = [poller EXCEPT ![w] = "list"]
    /\ task' = [task EXCEPT ![w] = NoTasks]
    /\ UNCHANGED <<startup, conns, garbage, stored, request>>

\* Python's collector finalizes the session, which frees its place in the pool.
Collect(w) ==
    /\ garbage[w] > 0
    /\ garbage' = [garbage EXCEPT ![w] = 0]
    /\ UNCHANGED <<startup, conns, polling, request, faults>>

-----------------------------------------------------------------------------
(***************************************************************************)
(* Shutdown.                                                               *)
(***************************************************************************)
\* uvicorn stops accepting.
Signal(w) ==
    /\ stage[w] = "serve"
    /\ Fault
    /\ stage' = [stage EXCEPT ![w] = "drain"]
    /\ UNCHANGED <<open, skills, seed, conns, garbage, polling, request>>

\* Mutant: the poller is left running.
CancelPoller_Not(w) ==
    /\ stage[w] = "drain"
    /\ request[w] = NoRequests
    /\ stage' = [stage EXCEPT ![w] = "stop_kafka"]
    /\ UNCHANGED <<open, skills, seed, conns, garbage, polling, request, faults>>

\* Once the requests have ended: poller_task.cancel(), which cancels the pass
\* and its tasks and rolls their transactions back.
CancelPoller(w) ==
    /\ stage[w] = "drain"
    /\ request[w] = NoRequests
    /\ stage' = [stage EXCEPT ![w] = "stop_kafka"]
    /\ poller' = [poller EXCEPT ![w] = "off"]
    /\ task' = [task EXCEPT ![w] = NoTasks]
    /\ conns' = [conns EXCEPT ![w] = {}]
    /\ garbage' = [garbage EXCEPT ![w] = @ + Cardinality(conns[w] \cap {"pass"})]
    /\ UNCHANGED <<open, skills, seed, stored, request, faults>>

Closes(w, at, client, then) ==
    /\ stage[w] = at
    /\ stage' = [stage EXCEPT ![w] = then]
    /\ open' = [open EXCEPT ![w] = @ \ {client}]
    /\ UNCHANGED <<skills, seed, conns, garbage, polling, request, faults>>

StopKafka(w) == Closes(w, "stop_kafka", "kafka", "close_redis")
CloseRedis(w) == Closes(w, "close_redis", "redis", "close_db")

CloseDb(w) ==
    /\ stage[w] = "close_db"
    /\ Exit(w)
    /\ UNCHANGED faults

\* A startup step fails, or the process dies.
Crash(w) ==
    /\ stage[w] # "down"
    /\ Fault
    /\ Exit(w)

-----------------------------------------------------------------------------
Lifespan(w) ==
    \/ Spawn(w) \/ VerifyDb(w) \/ InitRedis(w) \/ StartKafka(w)
    \/ SeedExists(w) \/ SeedCreate(w) \/ SeedCommit(w)
    \/ CancelPoller(w) \/ StopKafka(w) \/ CloseRedis(w) \/ CloseDb(w)

Pass(w) == PollList(w) \/ PollSessions(w) \/ PassEnds(w)
Task(w, a) == TaskAsk(w, a) \/ TaskConnect(w, a) \/ TaskStore(w, a)
Request(w, r) == RequestConnects(w, r) \/ RequestEnds(w, r)

Next ==
    \E w \in Workers :
        \/ Lifespan(w) \/ Signal(w) \/ Crash(w)
        \/ Pass(w) \/ PassFails(w) \/ Collect(w)
        \/ \E a \in Apps : Task(w, a) \/ TaskFails(w, a)
        \/ \E r \in Requests : RequestArrives(w, r) \/ Request(w, r) \/ RequestTimesOut(w, r)

Spec == Init /\ [][Next]_vars

\* Processes and tasks keep running, the supervisor starts what has exited,
\* garbage is collected, and the pool serves who waits in turn.
FairSpec ==
    /\ Spec
    /\ \A w \in Workers :
          /\ WF_vars(Lifespan(w)) /\ SF_vars(Pass(w)) /\ WF_vars(Collect(w))
          /\ \A a \in Apps : SF_vars(Task(w, a))
          /\ \A r \in Requests : SF_vars(Request(w, r))

-----------------------------------------------------------------------------
(***************************************************************************)
(* Properties.                                                             *)
(***************************************************************************)
\* "Seed skills (no-op if already seeded)": a worker that serves finds every
\* skill, whichever of the workers seeded and whichever failed in between.
ServingMeansSeeded ==
    \A w \in Workers : stage[w] \in {"serve", "drain"} => skills = Range(SkillNames)

\* "shutdown: stop Kafka producer, close Redis, dispose DB pool": nobody is
\* left to use a client when it is closed, nor before it is open.
ClientsOutliveUsers ==
    \A w \in Workers :
        \/ poller[w] # "off"
        \/ task[w] # NoTasks
        \/ request[w] # NoRequests
        => open[w] = Clients

\* Why, in four parts.  A client is open from its step of the startup to its
\* step of the shutdown, and who uses clients is there only in between.
OpenAt(at) ==
    CASE at \in {"down", "verify_db"} -> {}
      [] at \in {"init_redis", "close_db"} -> {"db"}
      [] at \in {"start_kafka", "close_redis"} -> {"db", "redis"}
      [] OTHER -> Clients

StageInv(w) ==
    /\ open[w] = OpenAt(stage[w])
    /\ stage[w] \notin {"serve", "drain"} =>
          poller[w] = "off" /\ task[w] = NoTasks /\ request[w] = NoRequests

\* What the seeding has passed is in the table, or among the worker's own
\* inserts, which no other worker and no committed row repeats.
SeedInv(w) ==
    /\ \A i \in 1..Len(SkillNames) : i < seed[w].next => SkillNames[i] \in skills \cup seed[w].own
    /\ seed[w].next \in 1..(Len(SkillNames) + 1)
    /\ seed[w].pc = "create" => seed[w].next <= Len(SkillNames) /\ SeedName(w) \notin seed[w].own
    /\ stage[w] # "seed" => seed[w] = NoSeed

InsertsDiffer ==
    \A w \in Workers :
        /\ seed[w].own \cap skills = {}
        /\ \A v \in Workers \ {w} : seed[w].own \cap seed[v].own = {}

\* The poller's tasks exist while it gathers.
TasksInv(w) ==
    /\ poller[w] \in {"off", "list"} => task[w] = NoTasks
    /\ poller[w] = "sessions" => \A a \in Apps : task[w][a] \in {"none", "listed"}
    /\ poller[w] = "gather" => \A a \in Apps : task[w][a] # "listed"

\* A connection of the pool is held by a request or a task that is at work, by
\* the pass that gathers, or by garbage: none is lost.
Users(pc, tasks, requests) ==
    {r \in Requests : requests[r] = "run"} \cup {a \in Apps : tasks[a] = "store"}
      \cup {p \in {"pass"} : pc = "gather"}

NoneIsLost == \A w \in Workers : conns[w] = Users(poller[w], task[w], request[w])

IInv ==
    /\ TypeOK
    /\ ServingMeansSeeded /\ ClientsOutliveUsers /\ InsertsDiffer /\ NoneIsLost
    /\ \A w \in Workers : StageInv(w) /\ SeedInv(w) /\ TasksInv(w)

\* Losing the race to seed costs a worker a restart: it comes to serve.
EveryWorkerServes ==
    \A w \in Workers : stage[w] = "verify_db" ~> stage[w] = "serve"

\* The poller needs two connections at a time, one of which it does not give
\* back: with the rest of the pool taken by requests, after timeouts and
\* across shutdowns and crashes, every application waiting is stored.
EveryVerdictIsStored == \A a \in Apps : a \notin stored ~> a \in stored

\* "Context manager ... for use outside FastAPI": between its passes the
\* poller holds no connection.
PollerGivesBack == \A w \in Workers : poller[w] = "list" => garbage[w] = 0
=============================================================================
