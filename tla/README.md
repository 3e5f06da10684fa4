# NammaKelsa backend: verification development

TLA+ modules for the FastAPI backend of NammaKelsa (`src/`), the TLC
configurations that check them, and theorems about all of its components
that TLAPS checks. The backend takes a worker from a phone number
to a skill verdict: login by one-time password, registration (face, Aadhaar),
choice of a skill, documents, a spoken interview, the pipeline of an external
ML service, and a verdict. It runs as two uvicorn workers over PostgreSQL, Redis, Kafka and a
shared disk. Nearly all of its difficulty lies in requests that overlap on the
same row, key or file.

## 1. Inventory

| Part | Source | State it keeps | Operations | Hard about it |
|---|---|---|---|---|
| Login, citizens and officers | `auth/routes.py`, `auth/otp.py`, `cache/redis_client.py`, `admin/auth_routes.py` | Redis `otp:`, `ratelimit:otp:`, `session:`; `users`, `admin_users` | send-otp, verify-otp, creating an officer, expiry | read-change-write of one key; INCR and EXPIRE apart; rows found missing by two requests |
| Registration | `registration/*`, `auth/aadhaar_verifier.py` | `users` columns; cached session | face, aadhaar | check then store; statements that fail inside a transaction; commit after the token |
| Skill choice | `skills/*` | `candidate_applications` | choose | three reads, then an insert under a unique key |
| Chunked upload | `documents/*` | `upload:` in Redis, chunk files, `assembled.mp4`, `documents` | init, chunk, assemble | repeated chunks while the first still runs; failures between disk and Redis |
| Interview room | `interview/chatbot.py`, `controller.py`, `media_buffer.py` | memory of one worker: registry of chatbots, buffers, timers | audio and video sockets, watchdog | overlapping sockets of one session; end while sockets are open, or on the other worker |
| Interview start, end | `interview/routes.py` | `interview_sessions`, application status and cooldown | start, end | Kafka inside the transaction; two ends; a start that overlaps an end |
| Poller | `pipeline/poller.py`, `ml_client.py` | `ml_verdicts`, application status, `users.is_active`, `ml_status:` | one pass every 30 s, in each worker | two pollers and an officer write the same verdict; an error body is taken for an answer |
| Override | `admin/routes.py` | the same rows | verdict override; the other reports only read | loads before it writes |
| Status and stream | `pipeline/routes.py`, `subscribe_ml_result` | a Redis subscription | status, status-stream, result | status read, then subscription; heartbeat timeout |
| Database layer | `db/*` | transactions | get, create, update, commit | only changed columns are written; errors roll back inside the adapter |
| Degree upload | `documents/degree.py`, `documents/routes.py` | a file, a `documents` row | upload | runs beside the end that reads the documents |
| Kafka producer | `kafka/*`, `pipeline/kafka_producer.py` | none; the topics | audio, video, work experience, meta | a medium is many sends; messages carry the candidate only |
| Server process | `main.py`, `db/session.py`, `pipeline/poller.py` | clients, pool of connections, background task | startup, seeding, serving, shutdown | two workers start at once; one pool for all; a crash at any point |
| External | ML service, PostgreSQL, Redis, Kafka, speech and SMS services | | | |

How the parts meet: the rows of `candidate_applications` are written by skill
choice, interview start and end, the poller and the override; the interview
room hands its buffers to the end request; the end request triggers the ML
service through Kafka; the poller brings its verdict back; the stream listens
to the ML service directly. Requests and the poller of a worker share its pool of
connections. `users.is_active` is written by the poller and read
by skill choice and login.

What makes each part correct is stated at the end of its module, in the
section *Properties*, with the comment or document that promises it.

## 2. Modules

The order is the order in which they were planned: the rule the product is
built on first (three attempts, contiguous, with a cooldown), then the life of
an application, then the parts around it.

| Module | Models | Granularity of a step |
|---|---|---|
| `AttemptLedger` | what skill selection promises, without requests | one grant |
| `SkillChoice` | `POST /skills/choose` and its table | a database statement |
| `Assessment` | what the assessment of candidates promises, without transactions or pollers | one decision |
| `ApplicationLifecycle` | interview start and end, poller, override, candidate.meta | a statement, send or call |
| `Login` | send-otp, verify-otp for one phone, at either login | a Redis command or statement |
| `ChunkedUpload` | one upload | a Redis command, file operation or send |
| `VideoUpload` | the same with constants and variables of its own, to stand beside `MediaDelivery` | |
| `InterviewRoom` | one session in the memory of the worker that started it, and its end request on either worker | from await to await |
| `Registration` | face and Aadhaar | a statement or call |
| `StatusStream` | pollers, officers, cache and streams of one application | from await to await |
| `MediaDelivery` | documents, the sends of the end request, the producer, the consumer of the topics | a send, statement or call |
| `Server` | lifespan of the workers, seeding, the pool, the poller's loop | a statement, or a step of startup or shutdown |
| `MC...` | the small instances TLC checks | |
| `...Proofs` | theorems, one module for each of `SkillChoice`, `ApplicationLifecycle`, `Login`, `InterviewRoom`, `Registration`, `StatusStream`, `MediaDelivery` (with those about `ChunkedUpload`), `Server` | |

Conventions. Requests are slots: a slot is idle, or holds the handler's
program counter and local variables; it is reused when the answer is out.
`Fault` spends one of `MaxFaults` failures, so that every run says how many it
allows. An operator whose name has a suffix, such as `Commit_KeepsLocks`, is a
mutated form of the operator after it: it takes no part in the specification
and serves to show that a property can be broken.

### SkillChoice and AttemptLedger
`Arrive`, `LoadUser`, `CountAttempts`, `CheckCooldown`, `CreateApplication`,
`Commit`, `Fail` are the statements of `choose_skill` and
`check_skill_eligibility` in their order; each read sees what is committed when
it runs. `apps` holds committed rows, an inserted row stays in its request
until `Commit`, and a second insert of the key waits (`KeyHeld`). The
environment ends interviews, deactivates users and advances the clock.
`ImplementsLedger` is the refinement: the number of attempts on record is
`taken`, a commit is a `Grant`, everything else stutters. The Redis cooldown
cache is never written by any caller and is left out.

### ApplicationLifecycle
A transaction is an actor whose writes wait in `w` until `Commit`. The rule that
SQLAlchemy writes only columns that differ from what was loaded is in
`WriteStatus` and `Upserted`; row locks are `AppFree`, `SessionFree`,
`VerdictFree`, `UserFree`. `EndSendFails` covers a send that raises, whether or
not the message went out; `EndStatusFails` the update inside the same `try`,
after which the adapter has rolled back and the handler goes on. `Restart` kills
transactions and the memory of chatbots. The ML service keeps one run per
candidate, because `candidate_id` is the user's id. `PollVerdictError` is an error's body,
which has no verdict and is stored as MANUAL_VERIFICATION.

`ImplementsAssessment` is the refinement of `Assessment`, which knows neither
sessions nor requests: what was handed in is `sent`, the cooled applications are
those whose cooldown is committed, a verdict carries whose material it is on, the
barred are the deactivated. Each commit is one step of it or a stutter: a verdict
comes after an interview and on material of the same candidate, FRAUD and the
exclusion are one step, nothing is taken back. It holds where no officer
overrides. An override may judge an application nobody was interviewed for, and
its FRAUD excludes nobody.

### Login
One phone. Each Redis command of a handler is a step. Attempts past the limit
are capped at one more than `OTP_MAX_WRONG`, which the code does not tell apart.

`login` says whose login it is, and stays as it is. The officers' has the same
Redis operations under keys of its own, and rows of its own that are never
inserted by a login: `AdminSend` asks for the row before the rate limit,
`AdminVerify` compares before it loads, `CreateOfficer` adds the row. The two share
no key and no row (session keys carry ids of different tables), so one behaviour
is of one login. verify-otp checks no form of the phone; the model's is the one
that send-otp stored, and the officers' keys have a prefix that no such phone begins with.
`wrong` counts, as history, how often a code was compared with a wrong guess. `MostGuesses`
is how many those may be for a number of overlapping requests: of n requests at a code that is
left m counts, one guesses and reads, the others use up their guesses until it writes its
count over theirs, and all go on from there with m - 1.

### ChunkedUpload
The session is one JSON value: a request changes the copy it read and writes it
back whole (`SetReceived`, `SetComplete`). `WriteChunk`, `Assemble`,
`DeleteChunks` are the file operations in the code's order. The session names an
application or has none (`application_id`, chosen in `Init`), and then no document is
recorded. An upload that has
expired or is complete really stops, so deadlock is not checked.

### InterviewRoom
`ws[s]` is one socket's handler and the buffer it got when it was accepted: a
socket keeps that object even after `release_buffer`. `Receive` is one message
up to the next await; `Exchange` ends at the recorded question; `Reply` is the
send and `check_and_complete`. `timers` are the watchdogs asleep, `newest` the
one `_timer_task` refers to: completing cancels that one only. Sockets find the chatbot on the
worker that started the session and nowhere else, but the end request may reach the
other one (`end.worker`): `railway.toml` starts two, and each has its own registry and
buffers. There it makes an empty buffer, sends no media, sends the meta message, completes the
session, and leaves this worker's memory as it is. On this worker it
reads `seq` as `unsent` (what had been received) and sends audio,
video and meta in three steps; `delivered` says whether the meta message went out with all of
that or a part of it. Two end requests of one session are in
`ApplicationLifecycle`; here there is one at a time, which may fail and be
repeated. When the session is over nothing is left to do, so deadlock is not
checked.

### Registration
`wrote` are a transaction's uncommitted columns; `Free` is the wait for row and
unique key; `aborted` is PostgreSQL's state after a failed statement, in which
later statements fail and COMMIT rolls back silently. A face is the embedding of
the video; equal embeddings have equal hashes (`SameHash`), and `Similar` says
which pairs reach the threshold.

### StatusStream
The poller's calls in their order, an officer's override (`OverrideLoad`, `OverrideStore`, which
leaves the cache alone), `GetStatus`, and a stream: `Connect` loads the row and sends it,
`Subscribe`, then `Deliver`, or `Heartbeat`, with which it ends. ML is asked about the
candidate, so it may answer with the verdict on another application (`other`, in `Answers`). An
error's body is not empty and has no `verdict`: `PollFetchError` stores `DEFAULT`,
MANUAL_VERIFICATION in the code, while `PollFetchEmpty` (404, no JSON) stores nothing. Two
histories: `decided`, the verdicts the status ever was, and `strayed`, whether any poller or
officer took one that is not this application's `ml`. After 20 s `wait_for` cancels `__anext__` of the `listen()` generator,
which finishes it; so the 11-minute deadline of the loop is never what ends it.

### MediaDelivery
One candidate, whose messages go to one partition of each topic. A medium is a
sequence of bytes with their positions; `_chunk_bytes` cuts it as the code does,
`ProduceChunk` is one `send_and_wait`, `ProduceEnd` goes on to the next medium or
to the meta message. `EndDocuments` reads the documents before the media are sent,
`SendMeta` claims what was read. Degree and work-experience uploads run beside it.
Each worker has buffers of its own. `StartedAt` says which one holds a session's, an end
request may reach any (`EndLoad(r, s, w)`), and `Chunks` is empty unless it is that one
(`AtHome`). Sessions completed elsewhere are in `astray`, the others in `done`.
The consumer (`Consume`) is not in the repository: it is written from
`planning/REDIS_DESIGN.txt`, which says it keeps a list per candidate and kind and
puts it together at `is_last`: `Closed` are the places in a topic that end a medium of a
candidate, `List` is what it has when it comes to one, `Joined` what it makes of that. `told` and `cut` are histories: the documents a client was
answered for, and the media whose send stopped on the way. `Overlap` says whether
two handlers of one kind may be in flight for the candidate.

### Server
Each worker goes through the stages of `lifespan`. `SeedExists`, `SeedCreate` and
`SeedCommit` are `seed_skills` in one transaction; an insert of a name that another
worker has inserted and not committed waits, and fails when that one commits,
which ends the startup and has the worker started again. `conns` says who holds a
connection of the pool and `garbage` how many belong to sessions nobody refers to
any more. The poller lists the applications in `PollList`, uses its session after the context has closed it
(`PollSessions`), and stores in tasks with sessions of their own. `Signal`, the
draining of requests, `CancelPoller` and the closing of the clients follow the code's order;
`Crash` may happen at any stage.

## 3. Runs

Runs that pass:

| Run | Shows | Instance | States |
|---|---|---|---|
| `SkillChoice_main` | attempts contiguous, cooldowns respected, `IInv`; the ledger is implemented; every request answered; the deactivated stay out | 1 user, 2 skills (one seeded), 2 requests, 2 attempts, 2 days | 115 000 |
| `AL_main` | what the pipeline holds was sent (`ProcessingWasSent`, in `IInv`); who reads INTERVIEW_PENDING can go on; the assessment is implemented | 1 candidate with 2 applications, 2 sessions, 2 requests, 1 poller | 1 550 000 |
| `AL_override` | cooldown of the interviewed; verdict rows exist; no lock cycle; ML_PROCESSING ends | 1 session, 1 request (client or officer), 2 pollers, 1 fault | 38 000 |
| `Login_main` | sends bounded, one insert, nothing kept for who is no officer (`IInv`); wrong guesses bounded by `MostGuesses`; the rate limit lifts; answers come | 2 requests, 1 code, 2 wrong attempts, 2 sends, 1 fault | 150 000 |
| `Upload_main` | full videos; received chunks kept (`UploadInvariant`); one document for each complete upload | a client that waits for its answers; 4 chunks in any order, with or without an application, 2 faults | 3 700 |
| `Room_main` | what this worker heard it sends, somebody watches the clock (`IInv`); the target completes; the interview ends; the video handler returns | 2 audio sockets, 1 video socket, target 1, 2 messages, end request on either worker, 1 fault | 1 170 000 |
| `Reg_main` | hash and embedding agree; numbers unique; tokens earned; `IInv`; requests that wait for each other are answered | 2 accounts, 2 similar faces, 2 numbers, 2 requests, 1 fault | 89 000 |
| `Stream_main` | what is told was stored or published (`IInv`); all agree unless a verdict strayed (`StreamsAgree`); who keeps asking learns what is stored | 2 pollers, 1 officer, 1 stream, 2 verdicts, an application beside it, 2 faults | 358 000 |
| `Media_main` | what meta claims is on record and complete (`IInv`); media precede the meta message of the worker that held them; the consumer puts whole media together | 2 workers, 2 applications, 1 session, 2 videos, 2 handlers, chunks of 2 bytes, 1 fault | 1 550 000 |
| `Server_main` | who serves finds the skills, no connection is lost (`IInv`); no use of a closed client; both workers come to serve; every verdict is stored | 2 workers, 1 request slot and 1 application each, 2 skills, a pool of 2, 2 faults | 11 800 |

`IInv` is a module's inductive invariant: the type invariant, the safety
invariants named at its definition, and what they need to be inductive (section
4). The runs check each `IInv` on a
small instance; the theorems establish it for all.

Runs that show the code doing something other than a line of the repository
says (`PROJECT.json` quotes the lines):

| Run | Property | What happens |
|---|---|---|
| `SkillChoice_cooldown` | `CooldownAfterEachAttempt` | only the latest application's cooldown is looked at |
| `Stream_heartbeat` | `BlocksUntilPublished` | the stream ends after its first heartbeat |

### Known deviations
The modules state further things that a document, comment or message of the
repository says and the code does not do. They have no run of their own; on the
instance named here (the module's `MC` definitions, no faults unless it says so)
TLC finds a counterexample to each.

| Module, property | Line that says it | What happens | Instance |
|---|---|---|---|
| `ApplicationLifecycle`, `KafkaFailureIsRetried` | `interview/routes.py:192` | nothing retries a failed send | 1 request, 1 fault |
| `VerdictIsOwn` | `planning/BACKEND_PLAN.txt:720` | one verdict is stored for two skills | 2 applications, 2 sessions |
| `FraudBlocksUser` with officers | `skills/cooldown.py:7` | an override to FRAUD leaves the user active | overrides `ReadyOrFraud` |
| `StatusMatchesVerdict` | `planning/BACKEND_PLAN.txt:767` | an unchanged column is not written: status and verdict part | overrides `ReadyOrFraud` |
| `SessionEndsOnce` | `interview/routes.py:142` | two ends of one session | 2 requests |
| `StartNeverInterruptsPipeline` | `interview/routes.py:70` | a late start takes an application out of the pipeline | 2 sessions, 2 requests |
| `Login`, `RateLimitAlwaysLifts` | `auth/routes.py:66` | a counter without a TTL | 1 request, 1 fault |
| `GuessesWithinLimit` | `auth/routes.py:101` | lost updates give a code more guesses; `GuessesBounded` says how many | 2 requests |
| `AttemptsInRange` | `planning/REDIS_DESIGN.txt:30` | the check and the increment are apart | 2 requests |
| `IncrementKeepsCode` | `cache/redis_client.py:109` | GET, change, SET | 2 requests, 2 codes |
| `DeactivationReachesSession` | `auth/middleware.py:60` | the cached session stays active | 1 request |
| `ChunkedUpload`, `FullVideoSent` with overlap | `documents/chunked_upload.py:5` | a second assembly truncates the file | 2 requests, 2 chunks |
| `ResumeCompletes` | `planning/BACKEND_PLAN.txt:570` | a re-sent missing chunk triggers nothing | 1 request, 2 chunks |
| `DuplicatesAreSkipped` | `documents/chunked_upload.py:94` | both copies are written | 2 requests, 2 chunks |
| `InterviewRoom`, `TargetCompletes` without its `faults = 0` | `interview/controller.py:4` | the last reply cannot be sent | 1 audio socket, 1 fault |
| `BufferReleased` | `interview/routes.py:194` | a socket accepted during the end makes a buffer that stays | 1 audio socket |
| `HeardIsSentAnywhere` | `interview/media_buffer.py:7` | the end request reaches the worker without the buffers: nothing that was heard is sent | 1 audio socket |
| `CompleteIsDelivered` | `planning/BACKEND_PLAN.txt:412` | only the client's end request delivers | 1 audio socket |
| `Registration`, `FacesUnique` | `planning/BACKEND_PLAN.txt:1105` | two registrations of one person at once (one at a time it holds, with 3 faces and 2 faults) | 2 accounts, 2 faces, 2 requests |
| `RejectedHasConflict` | `planning/BACKEND_PLAN.txt:1105` | a repeated registration meets its own embedding | 1 account, 2 faces, 2 requests |
| `AnswerIsStored`, `SkippedCheckGoesOn` | `registration/face.py:9`, `:247` | a swallowed exception leaves the transaction aborted | 1 request, 1 fault |
| `RegisteredIsFinal` | `registration/routes.py:75` | two registrations of one account: the second replaces the first | 1 account, 2 requests |
| `FullSessionIsEarned` | `auth/jwt.py:6` | the session is cached before the commit | 1 request, 1 fault |
| `StatusStream`, `ToldIsStored` | `pipeline/routes.py:61` | an officer, a late poller, an error's body or another application's verdict makes the status another one than the terminal one told | 1 poller, 1 officer, 1 stream |
| `DoneHasVerdict` | `planning/BACKEND_PLAN.txt:336` | DONE is cached before its verdict | 1 poller |
| `MediaDelivery`, `ListsHaveNoGaps` | `planning/REDIS_DESIGN.txt:226` | a send that stops half way leaves its chunks to the next | 1 request, 1 fault |
| `MetaMeansMaterial` | `planning/BACKEND_PLAN.txt:369` | the end request reaches the worker without the buffers and sends meta alone, without any failure; or a medium failed | 1 request, 2 workers |
| `MediaArriveWhole` with `Overlap` | `planning/REDIS_DESIGN.txt:225` | chunks of two media mix under one candidate | 2 requests |
| `Server`, `PollerGivesBack` | `db/session.py:56` | the session is used after its context has closed it | 1 worker |

### Bounds
Two requests suffice for every race of a row, a key or a file that these
handlers have, since each handler reads, then writes once; only the number of wrong guesses grows
with the requests, and its bound with it. In `AL_override` the
one request slot belongs in turn to the client and the officer, who then meets
two pollers. `SkillChoice_main` stops at two attempts (the code has three): a
request can count none, one or all, and the theorems cover every limit.
`Upload_main` has one request at a time on purpose: overlapping chunks are among
the known deviations. `MaxFaults` is 1 or 2: one failure reaches every error
path, two a failure during the repetition. `Room_main` has two messages, of
whichever media: with one on each audio socket both handlers are in the pipeline
together and, with a target of one question, the later exchange passes the target (the mutant
`Exhausted_Equal`, which expects the count to stop there, is caught by that); with one of each
medium the end request sends one while the other arrives. `HeardIsSent` and
`TargetCompletes` say themselves that they are about
behaviours in which nothing failed. `InterviewRoom` needs no bound
on buffers: a new one is made only after a release, and releases are bounded by
faults (`BuffersCounted`, which is proved, gives `MaxBuffers`). `MaxTime` covers one
cooldown and the time after it. `AL_main` has no faults, as two applications with two requests and
a poller are already large; its error paths are those of `AL_override`. Its ML service
answers FRAUD, the verdict that changes two rows. `Login_main` has two requests, for which
`MostGuesses` is 5 at a limit of 2, and the lost updates reach 5. `Stream_main` has one stream: streams write
nothing that another reads. With chunks of two bytes, three bytes (work experience) give a full chunk and a short one, two
(audio) a single full one, one (video) a single short one; two work-experience videos give a topic
with two media in a row, and the second application a document that is not the interview's. A pool of two with one request slot is smaller than what a worker can ask
for at once (request, pass, task, and a connection not yet given back); the code
has 30 connections and no limit on requests. Symmetry is used in `AL_main` and
`Media_main`: in `AL_main` for applications, sessions and requests. Its properties
are safety properties, the refinement included: `Assessment` states no fairness.

### Fairness
Handlers that can go on do (weak fairness of each handler's step), because the
event loop runs ready tasks. A statement that waits for a lock has strong
fairness, because PostgreSQL grants a lock in the order of its queue. Keys with
a TTL expire. The pollers poll, since `start_poller` loops for the life of the
process. Clients, officers and faults have none, with one exception:
`PollingLearns` is about the frontend that asks every 10 s, as
`planning/REDIS_DESIGN.txt` says; streams are owed nothing. `ProcessingEnds` assumes that the ML service
finishes what it takes; `PollingLearns` starts from when it has. In `InterviewRoom`
only the clock and the watchdogs, and the video handler, must go on: the interview ends
even if no audio handler gets an answer from its services and no end request comes. In `Server`,
startup, shutdown and the garbage collector go on (weak fairness); what waits for
a connection of the pool has strong fairness, because the pool serves its waiters in the
order in which they came, and what holds one gives it back; uvicorn starts a worker
that has exited again.

## 4. Proofs

Every theorem below holds for all values of the constants that satisfy the
assumptions it names, in particular for any number of candidates, requests,
workers and failures. In each module the argument has the same shape. A
property of committed state is not inductive, because a transaction or request in
flight will change that state according to something it read earlier. `IInv`
therefore says what every such local is still good for. The proof of `IInv` has one lemma for
each handler step or group of steps (mostly named `...Keeps`), over a few lemmas that do
the bookkeeping once for all steps of a kind (`...Moves`). A run of each module checks
the same `IInv` (section 3).

### SkillChoice
For any users, skills, requests, limit and bounds:

* `TypeCorrect` and `InductiveInvariant` (`Spec => []IInv`);
* `AttemptsAreContiguous`: the attempts on record are 1..n, n <= `MAX_ATTEMPTS`;
* `PredecessorIsJudged`: who commits attempt n+1 has looked at the cooldown of n;
* `GrantsDistinct`: no attempt is held or granted twice;
* `CooldownIsRespected`: a choice passes over the cooldown of the attempt before
  it only when that cooldown began after the request arrived;
* `InactiveStayOut`: a deactivated user's attempts never grow again;
* `SelectionImplementsLedger`: selection implements `AttemptLedger`.

Assumptions: `MAX_ATTEMPTS`, `COOLDOWN_DAYS` and `MaxTime` are naturals, NULL is
not one, the seeded skills are skills. Why the properties are not inductive by
themselves: a request acts on a count that may be old. `IInv` adds what an old
count still means: the attempts 1..count it saw are on record for good, so the
row it is about to insert either continues them or violates the unique key; the
latest application it read is at least as new as its count; and two open inserts
differ in their key. The argument is by cases on the actions: `AttemptsAdd` says
what a commit adds, `CountContiguous` and `LatestOfContiguous` what the two reads
return on a contiguous table; all other steps leave `Attempts` alone
(`AttemptsSame`). For the cooldown the invariant `CooldownJudged` is added: what
was seen in check 3 stays true, as the clock moves only forward and a new cooldown
begins after the request arrived. With `PredecessorJudged` it gives the theorem.
`CommitContinues` makes a commit a `Grant`: the number committed is the count on
record plus one, below the limit.

### ApplicationLifecycle
For any candidates, applications, sessions, overlapping requests, pollers,
officers' and ML verdicts, restarts and faults:

* `Life` and `LifeTypeOK` (`Spec => []LifeInv`); `LifeIInv`;
* `LifeProcessingWasSent`: what the poller waits for was sent, after a completed
  interview, and is in cooldown;
* `LifeCompletedMeansCooldown`: a completed interview has put its application in cooldown;
* `LifeVerdictOnRecord`: a verdict that is shown or cached has a row;
* `LifePendingHasOpenSession`: INTERVIEW_PENDING has an open session;
* `LifeLocksInOrder`: a transaction that waits for a row lock has got less far
  than the holder, so that no circle of waiting, of any length, exists;
* `LifeFraudBlocksUser` and `LifeImplementsAssessment`, where no officer overrides:
  the deactivation comes with FRAUD, and the life cycle implements `Assessment`.

Assumptions: every application has an owner, ML verdicts and overrides are
among the five verdicts, NULL is none of the other values, the bounds are naturals.
The last two theorems have the hypothesis `Overrides = {}`: an override may judge
whom nobody interviewed, so without it they are false, and TLC shows so (known
deviations).

A start holds a session nobody else has (`StartInv`, `SessionsDiffer`). An end that
has written the cooldown also leaves DOCUMENTS_PENDING, or need not (`EndInv`); a
verdict is written before the status that shows it (`VerdictInv`). All of these
survive the steps of others because what they rest on only grows: sessions are never
deleted, a cooldown, a sent message and a verdict row stay, and no status goes back
to DOCUMENTS_PENDING. `PendingHasOpenSession` itself is not inductive: the end of the
one open session might find nothing to write to the status and leave it in
INTERVIEW_PENDING. `PendingCanEnd` strengthens it: there is an open session no end of
which has found INTERVIEW_DONE, or nothing to write. For the locks, `Level` numbers the places
where a transaction waits (session or verdict row, application, user) and `LocksInOrder` says
that a holder is always further on. For the material, `Known` says that a stored FRAUD is
of one already deactivated, and `JudgedInv` what a poller's task still has to do for
that to hold when it commits; since two pollers may judge one candidate at once,
it speaks of users still active only. The refinement maps a send to `Submit`, the commit of an end
to `Interview`, that of a poller's task to `Judge`, everything else to a stutter
(`CommitRefines`, `LifeSubmits`, `LifeStutters`).

### Login
For any overlapping requests, codes, limits and faults, at either login:

* `LoginIInv`, `LoginTypeOK`;
* `LoginSendsBounded`: at most `MAX_SENDS` sends in the life of a rate key;
* `LoginOneInsert`: at most one insert of the phone is open, and only without a row;
* `LoginOfficersOnly`: a phone that is no officer's leaves no key and has no session.

Assumptions: `MAX_SENDS` is positive, the other limits naturals, NULL is no code and
no state of an account. `SendsCounted` relates the history `sends` to the
key's count, which INCR changes atomically: that is why this bound holds and the one on
guesses, which GET and SET count, does not. `RequestInv` says which login a
handler's steps belong to, and that the officer's steps after the row was asked for have one.

### InterviewRoom
For any sockets that connect, drop and reconnect, any target, messages and failures:

* `RoomIInv`;
* `RoomHeardIsSent`: what had been received when the end request came to this worker is what
  the pipeline gets, through whichever sockets (of the other worker, where it is false,
  it says nothing);
* `RoomTargetCompletes`: the exchange that reaches the target completes the interview;
* `RoomWatchdogSleeps`: until then a watchdog sleeps as long as anybody listens;
* `RoomCompleteIsFinal`: a completed interview stays complete (action property).

`HeardIsSent` and `TargetCompletes` say themselves that they are about behaviours without
faults. `OneBuffer` is why `HeardIsSent` holds although each socket keeps the buffer object
it was given: until an end request has sent everything there is one buffer, every
open socket holds it (`SocketInv`), and it has each message up to `seq`. `EndInv` follows the
end request through it. `BuffersCounted` bounds the buffers by the end requests that failed
after the release. `TargetInv` has the pending reply that `TargetCompletes` waits for. For the
watchdog it matters that a handler that leaves stops no timer, and that `_trigger_complete`
cancels one only when it completes the interview.

### Registration
For any accounts, faces, similarity, numbers,
overlapping requests and faults:

* `TypeCorrect` and `TransactionsHoldTheirKeys` (`Spec => []IInv`);
* `EmbeddingAndHashAgree`: a stored embedding and a stored hash are of one video;
* `FaceBeforeNumber`: no account has a number without a face;
* `NumberOfOneAccount`: no two accounts share a number;
* `TokenAfterCommit`: who is answered the full token has a committed number.

Assumptions: NULL is no account, face or number, nor one of the words the model
uses for kinds and answers; `MaxFaults` is a natural. The four properties speak of
committed rows, so each of them depends on what an open transaction will commit.
`IInv` adds that: by where it is, a handler has written nothing, the hash, both or
the number (`WroteSoFar`); it works on an account and item of its own kind, with
the face already there for a number (`HandlerOf`); two open transactions differ in
row and key, and the number one is about to commit is nobody else's (`KeysHeld`),
because it was unused when the lock was granted and the lock keeps others out.
A transaction whose statement failed has only face columns, so what its commit
rolls back never carries a token. `HandlerMoves` is the one lemma for all steps
that commit nothing, and `CommittedRow` says what a commit adds.

### StatusStream
For any pollers, streams, verdicts and failures:

* `StreamIInv`;
* `StreamToldVerdictWasStored`: a verdict told by `GET /application/status` is or was in
  the database;
* `StreamStreamsAgree`: channel, database and streams contradict each other only when a
  verdict strayed;
* `StreamVerdictStays`: a stored verdict is never taken back, and replaced by another only when
  one strayed (action property).

Assumptions: the default for a missing verdict is a verdict, and verdicts are not
statuses. Unconditionally, the invariant relates what is told to the history `decided`: a
verdict is cached, and told, only after it was stored, or published by ML for this
application. The order of `PollCache` after the commit is what this needs:
the mutant that caches first breaks it. With the condition `~strayed` what was ever decided, what
a poller carries and what the channel carries are all `ml`, from which the agreement
follows. Without it, an officer's verdict, an error's body and another application's
verdict all part what is told from what is stored (known deviations).

### MediaDelivery
For any sessions, uploads, applications and handlers, media of any sizes, any chunk
size, failures and restarts:

* `ClaimsAreAccurateHolds`: a meta message claims documents that are on record, and
  each that its client had been answered for;
* `MaterialPrecedesMetaHolds`: behind a meta message sent by the worker that started the session
  the topics hold the interview's media, and behind any a claimed work-experience video, every byte
  of them, unless a send stopped on the way;
* `MediaArriveWholeHolds`: what the consumer puts together are whole media, and those of every
  interview completed by the worker that started it are among them;
* `IInvHolds`; `ChunksJoin`: the chunks of `_chunk_bytes`, joined, are the data.

Assumptions: sizes are naturals and the chunk size is positive, every session and upload has
an application, every session a worker that started it. The first two hold whether or not handlers overlap; the third has the hypothesis
`~Overlap`, without which it is false (known deviations). For an end request on another worker
nothing about the interview's media is claimed, since nothing holds.

`DeliveryInv` rests on what never shrinks: the topics, and the set of broken sends. `Past(t)` are the
handlers that have topic t behind them; `Due(t)` adds the interviews that are done, or whose
buffers are released, by the worker that had them; whatever is due has been delivered, and a handler at chunk `seq`
has delivered the chunks before. `MaterialPrecedesMeta` follows when the meta message
goes out, from `Past` for the interview's media and from `VideosOnRecord` for the uploaded video.
`OrderInv` is about order: while no send on a topic has broken off, each message that closes a list
ends the chunks of one medium, with nothing or a closed list before them (`Whole`),
and the rest of the topic is what the one handler there has sent (`EndsWith`). With `OneOfAKind`
nobody else appends in between. So `List`, what the consumer has when it comes to a closing
message, is exactly that medium's chunks, and `ChunksJoin` says that it makes the medium of them.

`ChunksJoin` and the arithmetic of chunks are statements about sequences of every
length. The library's induction theorems cannot be used here, so these proofs take the
first counterexample (`LeastNumber`: a nonempty set of naturals has a least member) and refute
it from its predecessor.

### ChunkedUpload
The theorems are in `MediaDeliveryProofs`, about the instance of `ChunkedUpload` that
`VideoUpload` makes; `UploadInvariant` is its inductive invariant. Assumptions: there is a
chunk, the chunks flagged last are chunks, the bound is a natural.
Under the hypothesis `OneAtATime` (a client that waits for its answers), for any
number of chunks in any order, any of them flagged last, repeated requests, failures,
crashes and expiry at every step:

* `UploadIInv`;
* `UploadFullVideoSent`: every video that is sent holds every chunk;
* `UploadOneDocument`: one upload makes at most one document;
* `UploadReceivedIsKept`: what the session reports as received is on disk or in the
  assembled video.

The hypothesis is what the code relies on: with overlapping requests
`FullVideoSent` is false (known deviations). The session is the hinge of the
argument: while it lacks a chunk, the others are on disk and nothing is assembled
(`Unassembled`), so an assembly always finds all of them; once it lacks none, no request starts
again (`Full` in `RequestInv`), so that deleting the chunk files loses nothing, and the
request that records the document is the last (`DocumentInv`).

### Server
For any workers, requests, applications and skills, a pool of any size, and faults:

* `ServerIInv`;
* `ServerServingMeansSeeded`: who serves finds every skill, whichever workers seeded
  at once and whichever failed before their commit;
* `ServerClientsOutliveUsers`: while a request, a task or the poller is there, the
  database, Redis and Kafka clients are open;
* `ServerPoolIsAccountedFor`: the connections held are those of the running requests
  and tasks and of the gathering pass, and with the garbage they never exceed the pool.

Assumptions: requests, applications and the pass are different holders, the skills
are a sequence, the pool has a place. `StageInv` ties the open clients and who may use them to the stage
of the lifespan. `SeedInv` says that every name the seeding has passed is committed or among
the worker's own inserts; `InsertsDiffer` that no two workers insert the same name, which the
wait for an open insert ensures: so what a commit adds completes the list. `NoneIsLost` is
an equation between the pool and the program counters; the counting rests on the library's
theorems on finite sets.

### Only model-checked
All liveness properties (fairness and `ENABLED` are out of the prover's reach):
`EveryRequestAnswered`, `ProcessingEnds`, `RateLimitLifts`, `CompleteIsRecorded`,
`InterviewEnds`, `VideoCloses`, `PollingLearns`, `EveryWorkerServes`, `EveryVerdictIsStored`.
Of the safety properties, `GuessesBounded`: the bound is stated for any number of overlapping
requests, checked for two, and not proved. Two theorems have hypotheses
that the runs' instances satisfy and the code does not enforce: `OneAtATime` for the upload,
`~Overlap` for `MediaArriveWhole`; without them both are false (known deviations).

`GrantsDistinct`, `PredecessorIsJudged`, `FaceBeforeNumber` and the theorems listed above
that name no property of section 3 are proved and have no run of their own: most of
them are conjuncts of an `IInv`, which has one.

## 5. Not modelled

Lists, details and statistics of the officers (they only read), the middleware,
encodings (JWT, WAV, MP4, base64), configuration, logging, the table of errors,
the texts of prompts, the wording of transcripts, and the contents of verdicts. Tokens appear as the session cached for
them. The pool of connections is in `Server` alone: elsewhere a
statement finds one. What a restart loses of an
interview is in `ApplicationLifecycle`; `InterviewRoom` is the memory of one
process that goes on, with end requests on the other.

## 6. What could follow

1. A proof of the bound on wrong guesses.
2. `Registration`: that the session follows the account when nothing fails.
   `InterviewRoom`: that a completed interview is delivered at most once.
3. An abstract specification of an upload that the sequential upload implements.
4. Skill choice composed with the life cycle, so that cooldowns and verdicts of
   the same rows are checked together.
