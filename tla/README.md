# ANILA: a verification model

TLA+ modules that model the parts of ANILA whose correctness depends on the
order of steps, TLC configurations that check them on small instances, and
proofs for every value of the constants. Paths are relative to the root of the
repository; `csp`, `studio` and `worker` stand for `services/csp/app`,
`services/anila-studio/app` and `services/ingestion-worker/src/ingestion_worker`.
`PROJECT.json` maps every definition to the lines it models and lists the runs,
for each property a mutant of the code that it catches, the findings, the
hazards and the theorems.

    tlc -workers 2 -config swap_console.cfg EmbeddingSwapMC.tla
    tlapm EmbeddingSwapProofs.tla

## The system

ANILA is a platform for AI work in one organisation. Browsers talk through
nginx to the CSP service (FastAPI, several uvicorn workers over one PostgreSQL
behind PgBouncer), which owns accounts, models, conversations, knowledge bases
and the proxy to models. Ingestion runs in a worker (arq jobs in Redis),
artifacts are produced by anila-studio, speech goes through asr-gateway. These
services verify the tokens that CSP signs, with a cached copy of its keys and a
deny list that they are sent. Shared code is in `packages/anila-core`.

| Component | State it keeps | Operations | Interacts through |
|---|---|---|---|
| Embedding model replacement (`csp/api/models.py`, `csp/services/embedding_swap.py`, `worker/embedding_rebuild.py`) | one `embedding_activation` row, a role flag, `embedding_vectors`, failure counts | designate, unset, retry, rollback, daily purge; rebuild pass; vectors of an upload | rows read by CSP and worker, arq jobs, an advisory lock |
| Signing keys (`csp/services/jwt_keyring.py`, `studio/services/jwks_client.py`) | ring of RSA keys; a copy per verifier | periodic advance, emergency rotation, signing, refresh and refetch of copies | PostgreSQL under an advisory lock, JWKS over HTTP |
| Conversations (`csp/services/conversation_service.py`, `message_tree.py`, `background_answer.py`) | tree of messages, active leaf, reserved rows with writer tokens, tasks in memory, notifications | turn, reserve, branch, select, delete, patch; background answer | row lock on the conversation, unlocked patches, asyncio tasks |
| Model concurrency gate (`csp/services/model_gate.py`) | leases, queues and rotation of one model in Redis | arrive, poll, pulse, release | a Redis lock with expiry |
| Revocation of tokens (`csp/services/token_revocation.py`, `csp/api/auth/revocations.py`, `studio/services/revocation_cache.py`) | version per user, rows of revocations; deny list per service | revoke, publish, replay, subscribe, reconnect | HTTP replay, Redis pub/sub |
| Ingestion of documents (`csp/api/ingestion/documents.py`, `worker/handlers.py`, `worker/main.py`) | rows and status of document and job, chunks, counters of a collection, files | upload, reprocess, delete; the handler's steps | arq, PostgreSQL, a shared directory |
| Audit ledger (`csp/services/audit_ledger.py`) | checkpoints chained by hash | seal a day, verify | PostgreSQL |
| Studio jobs (`studio/services/job_lifecycle.py`, `job_reporting.py`, `job_store.py`) | record per job in memory, in Redis and in CSP | create, transition, finalise | detached HTTP reports |
| Quotas (`csp/services/quota_service.py`) | counters in Redis, usage rows | enforce, bump, rebuild | Redis scripts, PostgreSQL |

What makes each of them hard, and what makes it correct:

- **Replacement**: CSP reads the activation row, computes and commits without a
  lock, the worker updates conditionally, a pass takes hours, jobs get lost and
  processes die. Correct when the row never contradicts itself, search moves
  only to a model whose vectors are there, the purge spares what is searched,
  and a rebuild ends.
- **Signing keys**: passes of several workers commit in another order than they
  took their time, verifiers use old documents. Correct when one key signs, a
  token's key outlives it, a retired key is forgotten in bounded time, and a key
  is known before it signs.
- **Conversations**: several tabs, patches that check first and write later,
  tasks that outlive requests but not processes. Correct when the tree
  alternates below one tip, a reserved row belongs to its writer, a finished row
  stays finished, and whoever asked for a background answer is told the truth.
- **Gate**: leases judged by old clocks, dead callers in the queue, failed
  pulses, a lock that outlives its holder. Correct when no more calls run than
  the limit, users are served in turn, and a free slot does not stay unused.
- **Revocation**: overlapping requests, lost and late broadcasts, cut
  connections. Correct when what was revoked stays revoked, everything a
  service could hear it knows, and nothing else counts.
- **Ingestion**: a job that dies after half its effects and runs again, two
  requests for one document, deletion meanwhile. Correct when what is indexed is
  complete and counted once, and a document does not stay in progress.
- **Ledger**: rows that commit after their day was sealed. **Studio jobs**:
  reports that overtake each other. **Quotas**: rebuild beside increments.

## Modules

| Module | Content |
|---|---|
| `SwapPlans` | the pure decisions of `anila_core/embeddings/swap.py` as operators on the activation row |
| `EmbeddingSwap` (`MC`, `Proofs`) | console, purge, upload vectors and rebuild pass around that row |
| `JwtKeyring` (`MC`, `Proofs`) | key ring, signers and verifiers under one clock |
| `ConversationTurns` (`Proofs`) | one conversation, its patches and background answers |
| `SlotPool` | what the gate promises its callers, abstractly |
| `ModelGate` (`MC`, `Proofs`, `TimingProofs`, `IdleProofs`) | the gate's record, callers, pulse tasks and clocks; refines `SlotPool` |
| `TokenRevocation` (`Proofs`) | revoking requests, the channel, one service's deny list |
| `IngestJob` (`Proofs`) | requests of CSP, arq jobs and the handler around documents |

### EmbeddingSwap

`role` is the flag `is_platform_embedding`, `act` the row
`embedding_activation`, `age` the days since the switch (up to `Retention`),
`corpus` the model recorded by the collection, `stored`, `vectors` and `fails`
the chunks, their vectors and `embedding_rebuild_failures`. `request`, `purge`,
`pass` and `writer[r]` hold where the console request, the purge, the pass and
each upload are, with what they have read; `jobs` counts the jobs in the queue.

Every commit is a step. A designation is four: the role flag
(`BeginDesignate`), the read and the commit of `note_designation`
(`ReadForDesignation`, `NoteDesignation`), and `Enqueue`. A CSP commit writes
only the columns that differ from what was read, as SQLAlchemy does (`Write`,
`Merge`), so overlapping commits mix columns. With `Serialised = TRUE` nobody
else commits the activation row between the read and the commit of a console
request; with FALSE everybody may. The purge (`PurgeRead` chooses, `PurgeCommit`
deletes), the uploads and the pass interleave with everything in either case.

A pass goes through batches, each embedded and written row by row, then counts
total and done in two statements and switches in a third. `pass.swept` are the
rows its last sweep saw, `pass.undone` those a retry or a purge took back since:
history, for the properties. However a pass ends, it gives the advisory lock back
in a step of its own (`ReleaseLock`), the enqueue of its continuation included,
so a job that arrives meanwhile finds the lock taken and ends (`JobDropped`).
`astray` says that the last job of an open rebuild was lost in one of the ways the
code has. `Events` names what may happen in an instance, failures included.

### JwtKeyring

`keys` is the table `jwt_signing_keys`, `passes[w]` a transaction of worker `w`
with the moment it took before it waited for the advisory lock, `signing` and
`tokens` the tokens being built and handed out, `cache[v]`, `fetch[v]` and
`refetch[v]` the copy of verifier `v`, the document under way and the time of
the last forced refetch. `killed` remembers the keys retired in emergencies.

`Tick` moves one shared clock, and only as far as the delays of what is under
way allow: `PassLag` from the moment of a pass to its commit, `SignLag` from
`iat` to the read of the active row, `FetchLag` for a request to the key set.
Tokens are dated before their key is read and documents are produced before
they are installed, as in the code. Assumed of the constants: `PassLag <= Cache`
and `Refresh <= Cache` (a transaction takes less than the cache period of an
hour, and verifiers refresh at least that often, as the settings have it),
lifetimes within `1..MaxLife`, and periods of at least one unit.

### ConversationTurns

`rows` are the messages of one conversation by id, `leaf` its active leaf,
`requests` the PUTs that have read their row and not written yet, `jobs` the
background tasks in memory, `notices` the notifications, `lost` the rows whose
task was lost, and `faults` counts restarts and crashes. An operation on the
tree holds the row lock of the conversation from its first read to its commit
and is one step: `StartTurn` (with the filler for an unanswered question in the
same transaction), `ReserveReply`, `BranchTurn`, `BranchMessage`,
`SetActiveLeaf`, `DeleteBranch`. A patch is two steps, `PatchRead` with both
gates (writer token, final state) and `PatchWrite`. A background answer is
`Enqueue`, `JobLoads`, `JobWrites`, `JobTells`. `Restart` loses what lives in
memory; `JobCrashes` is an exception of `_finish` or `_notify`, which
`run_detached` only logs. Tabs send what the shell sends: endings of rows
reserved for a stream, with the writer token ("stopped" stands for "interrupted"
too, which nothing here tells apart); metadata patches without one.

### ModelGate and SlotPool

`gate` is the JSON record in Redis: `inflight` (leases), `order` (the rotation
of users), `queues`, and `meta` (signs of life). The pure functions `Purged`,
`FirstInLine`, `Granted`, `Enqueued`, `Arrived`, `PollOf`, `Pulsed` and
`Released` are `_purge`, `_head`, `_grant`, `_enqueue` and the four branches of
`apply`. `pc[t]` is the call of a ticket in the proxy, `pulse[t]` the task that
renews its lease.

A step reads the time, waits for the lock, then applies one operation: `since[t]`
is how old the clock of a step is when it gets the lock, and every function takes
that age `d`. Times are relative, so a state has no absolute clock and the model
is finite without a horizon.

`Works` takes the lock, writes and gives the lock back; `Fails` gives up before or
after its write, and the caller cannot tell. A failed poll counts as "queued", a
failed pulse ends the pulse loop, a worker may be killed (`Die`). The lock outlives
a killed worker, an unlock that failed, a lost answer to its `SET` and a step cut off
at it: `blocked` is the rest of its life, and while it lasts every step of every
caller fails after its wait. `missed[t]` counts the polls of a caller that failed
in a row. `Tick` lets time pass unless a step is due. How long a caller may queue
is not counted: its wait may be over at any tick.

`SlotPool` has the holders, the waiting tickets and, for each pair of users,
whether one has been served ahead of the other; it knows no queues, leases or
clocks. `Pool` maps the leases to `holding` and the queued tickets to `waiting`;
`KeepsPoolPromise` says that every step of the gate is a step of the pool or a
stutter: never more holders than the limit, nobody let in past a waiter on
arrival, and while a user waits every other user is served at most once.

### TokenRevocation

`version`, `rows` and `retired` are `users.token_version`, `token_revocations`
and the retired keys; `seen[r]` is the version a request has read. A revocation
is `LoadUser`, then `CommitRevocation` (or `RollBack`), then `Publish` or
`PublishLost`: the broadcast follows the commit and nobody repeats it. `killed`
are the keys retired in emergencies, which are announced; a replay names every
retired key, those that aged out (`AgeOutKid`) as well. `link`, `mailbox`,
`floor`, `deadKids` and `ready` are the subscriber: `ColdStartSync` reads the
rows over HTTP, `Subscribe` begins to listen and opens the gate, `HandleMessage`
takes the larger version, `Cut` breaks the connection, `NoticeCut` closes the
gate and starts over. Two histories serve the properties: `unheard`, the
broadcasts missed since the last replay (those that got lost and those between
replay and subscription), and `refused`, what the service has refused so far.

### IngestJob

`docs`, `rows`, `chunks` and `counted` are the status of documents and of
`ingestion_jobs`, the stored chunks and the collection's counters; `blob` is the
file that documents with the same bytes share. CSP's requests take a step per
commit (`PersistBlob`, `InsertDocument`, `Enqueue`, `RecordJob`; `AskReprocess`,
`Claim`, `Enqueue`, `RecordJob`; `DeleteDocument`, `LookForOthers`, `UnlinkBlob`), so
the worker may have finished a job before its row exists. An enqueue may fail, or
its answer may get lost while the job is alive (`ReplyLost`); `GiveBack`, which
marks the document failed, comes later, when that job may have run.

The handler takes a step per transaction (`Take` to `Finish`). When a step
raises it ends in `Fail`, or in `FailLost` if the status cannot be written
either, and in `FailJob`; writes to the job's row are best effort and may get
lost (`row_lost`). Without a designated model it defers: `HoldRow`, `Defer` or
`DeferReplyLost`, `DeferReturns`. It is cut by `job_timeout`, and begins again
when its worker dies. `befell` remembers which failure a document met and
`unsettled` the jobs whose row was inserted too late or whose last write was
lost, so that a property can name exactly the exceptions the code has.

## Runs

| Run | Instance | Checked | Distinct states |
|---|---|---|---|
| `swap_console` | 2 models, 1 row; serving and just migrated platform; designations, rollbacks, retries, uploads with skipped vectors, failed batches, the purge; one console request at a time | `RowConsistent`, `OwnVectorsServe`, `SearchMovesOnlyWhenReady` | 4.5 million |
| `swap_overlap` | 3 models, 1 row; fresh and serving platform; overlapping designations, unset, lost enqueues and jobs, death of CSP or of a pass, its time budget, failed batches; fair | `TypeOK`, `SearchMovesOnlyWhenReady`, `PassEnds`, `RebuildCloses` | 0.18 million |
| `jwt_ring` | 2 workers, two periods, short and long tokens, horizon 11 | `TypeOK`, `RingConsistent`, `KeysOutliveTokens` | 2.3 million |
| `jwt_copies` | 1 worker, 1 verifier, horizon 8 | `StaleCopiesFade`, `PromotedKeysAreKnown`, `RefusalsFade` | 4.6 million |
| `talk_turns` | 2 tabs, 4 rows, 2 patches in flight, 1 restart or crashed task; fair | `TypeOK`, `TurnsAlternate`, `LeafIsATip`, `NoticeTellsTheTruth`, `FinishedNeverReopens`, `WriterKeepsItsRow`, `BackgroundReported` | 0.28 million |
| `gate_slots` | 3 calls of 2 users, 1 slot, 1 slow caller, 1 failure of four kinds with the lock it leaves behind | `TypeOK`, `PulsedWithinLimit`, `SlotNeverIdles`, `WaitersKeepTheirPlace`, `KeepsPoolPromise` | 1.0 million |
| `tokens_heard` | 2 requests, 1 key, 3 failures; fair | `TypeOK`, `HeardIsKnown`, `OnlyCommittedCounts`, `RefusedStaysRefused`, `SettlesListening` | 0.57 million |
| `ingest_jobs` | 2 documents with the same bytes, one failed before; 2 requests, 2 jobs, 1 of 9 failures; fair | `TypeOK`, `IndexedIsComplete`, `CountersTellTheTruth`, `OneJobAtATime`, `JobSettlesWithDocument`, `IndexedStays`, `DocumentsSettle` | 0.73 million |

Deadlock is checked where the system goes on for ever (keys, gate, conversations,
replacement). `tokens_*` and `ingest_jobs` stop when their bounded requests and
jobs are used up.

Runs that end in a counterexample, each about one sentence the repository says
of itself:

| Run | Property | What happens |
|---|---|---|
| `swap_lost_upload` | `UploadsFindable` | an upload between the two commits of a designation is embedded for the new model only |
| `talk_wrong_question` | `AnswersItsOwnQuestion` | a turn from another tab before the task loads the path: the task answers that question |
| `gate_over_limit` | `RunningWithinLimit` | one failed pulse ends the pulse loop; the call goes on, its lease expires, and another call runs beside it |
| `tokens_overlap` | `RevokeKillsOutstanding` | two requests read one version; the later commit does not raise it, and a token minted between them stays valid (from different reads the version may even go down) |

### Bounds

- **Replacement.** `Retention` 1 day: what matters is before or after it.
  `FailLimit` 1 and one row: an action treats rows alike, and every property but
  one is about a single row. `OwnVectorsServe` is the exception: a rollback asks
  only whether the model has any vector, so a row that lost its own may be
  brought back to it by another row that has one. With two rows all events make
  too many states; the theorem has any number. The finding has two rows in its
  instance. Two models give replacement, return and replacement back, with
  uploads, in `swap_console`. A third one lets a designation arrive while a pass
  works for another target, whose job then ends at the lock: `swap_overlap` has
  three, the losses that `RebuildCloses` names, a fresh platform and an unset
  role, but no uploads. No run has uploads on a platform without a role or with
  three models; the theorems do, and hold from every start. `MaxJobs` 1 because
  a job that finds its key taken is not queued twice. `BatchSize` 2 holds all
  rows.
- **Keys.** `Kids` limits the rotations (three keys: one signs while another
  steps back and a third is announced), `Horizon` the clock: 8 in `jwt_copies`,
  so that a key announced, promoted and refused is past the bound of
  `RefusalsFade` within it; `MaxTokens` 1 because tokens do not interact. One
  unit stands for a stretch in which nothing that the model tells apart happens.
  Workers overlap in `jwt_ring`, verifiers are in `jwt_copies`; the theorems
  have any number of both.
- **Conversations.** Four rows (two turns, or one turn with two branches below
  it), two siblings, two tabs, two patches in flight, one restart or crash. A
  conversation may begin with an unanswered question, as in data from before
  replies were reserved.
- **Gate.** Limit 1 makes the slot contended at once; three tickets are a holder
  and two waiters, of two users, so that a user can be served twice. The order
  of the real constants is kept: poll, pulse gap and lock wait (0.4 s, 10 s, 1
  s) are 1, a lock left behind lives 3 (5 s), the silence allowed is 5 (5 s),
  two polls with three waits for the lock, and a lease is 9 (30 s), the least
  for which `LeaseOutlasts` holds. Only `b1` waits for the lock at length.
- **Revocation.** Two requests overlap, one key and one mailbox of two messages
  let events overtake a replay; three failures allow cut, failed reconnect and
  restart in one behaviour. The theorems have no such bounds.
- **Ingestion.** Two documents share a file, two requests contend for one
  document, the platform may begin without a designated model, a deferred document
  needs a second job, `MaxTries` 2 gives a retry
  and a last try. One failure at a time: the properties name what each failure
  may do, and a second one adds only the union.

### Fairness

`swap_overlap` assumes that a request that has begun goes on, that a job in the
queue is taken and that a pass goes on: handlers, arq and the loop of the pass
do so unless the process dies. That CSP or a pass dies, that an enqueue fails,
that the lock is refused and that the time budget ends are events of the run,
and nothing is assumed of operators and users; so `RebuildCloses` is about
behaviours in which designations and interrupted passes come to an end, and it
excuses a rebuild that is `astray`. `talk_turns` assumes that a background task
goes on, since calls to a model have timeouts; `BackgroundReported` excuses a
deleted row and a lost task (restart or crash) by name, because the code does
not pick such a row up again. `tokens_heard` assumes that the subscriber's loop
makes its next step: it catches every error and retries for ever; failures are
bounded, so `SettlesListening` says what holds once they stop. `ingest_jobs`
assumes that requests, arq, handlers and at last an operator who designates a
model go on (a document without one is deferred again and again, by design);
that any of them goes on is enough, since each has a bounded number of steps to
make. `DocumentsSettle` excuses by name what the code gives up: a document left
without a job, a timeout, the last try, and a status that could not be written.
`ModelGate` needs no fairness: its clock makes bounded waiting a safety
property, `SlotNeverIdles`, which is proved too.

## Proofs

For every value of the constants that satisfies the assumptions. Every property
of a passing run is stated by a theorem, except the liveness properties.

- `EmbeddingSwapProofs`: `TypeCorrect`, with and without overlap.
  `RowStaysConsistent` and `UploadsKeepTheirVectors` for `Serialised`, that is one
  commit of the console at a time, while the purge, the uploads and the pass
  interleave with everything; TLC refutes both without. `RowConsistent` is inductive
  together with the type invariant. `SearchWaits` assumes less, `Orderly`: console
  commits do not overlap, or the console only designates, which is `swap_overlap`.
  `Permitted` and `OpenServes` say which requests there are and that an open rebuild
  has a serving model, `ReadStands` that a designation computed from an old row saw
  rightly whether any model serves, and `SweptStands` that until the flip every row
  of the last sweep has its vector or its three failures unless `pass.undone` names
  it. `UploadsKeepTheirVectors` adds `Uploaded` (an upload owns no vector before its
  chunk is stored), `NothingLostYet` (nothing is lost before a first model serves)
  and `SweptOwn`, the same as `SweptStands` for a row's own vectors; its proof
  splits the steps by who can delete a vector, forget a failure or change the models
  kept.
- `JwtKeyringProofs`: `TypeCorrect`, `RingStaysConsistent`,
  `KeysOutliveTheirTokens`, `StaleCopiesAlwaysFade`, `RefusalsAlwaysFade`,
  `PromotedKeysAlwaysKnown`: all properties of the two runs. A pass changes a row
  in one of six ways (`RowChange`: announced, installed, promoted, stepped back,
  aged out, killed), and each invariant is shown to survive the six ways.
  `Timely` says that no delay is exceeded and no moment is in the future;
  `Covered` that a token is dated at most `PassLag` after its key stepped back
  and is dead when the key is retired: the window `MaxLife + Cache` covers both
  since `PassLag <= Cache`, which makes `KeysOutliveTokens`; `Current` that a
  copy agrees with the ring except for changes younger than its delay, key by key
  and state by state, which makes `StaleCopiesFade` and `RefusalsFade`; `LedIn`
  that a promoted key was announced a cache period before.
- `TokenRevocationProofs`: `TypeCorrect`, `OnlyCommittedAlwaysCounts`,
  `HeardIsAlwaysKnown`, `RevokedStaysRefused`, for any number of requests, keys,
  messages and failures. `AllCommitted` says that what is in the outbox, the
  mailbox, the last replay and the deny list comes from a committed row; it is
  inductive because a message is made in the step that commits. `Accounted`
  strengthens `HeardIsKnown`: from a replay on, what is committed is in the deny
  list, still to be announced, still in the mailbox, or among the `unheard`.
  `Refusing` says that from a replay on the deny list covers what was refused
  before, after a restart with an empty one too: the rows are never taken back.
- `IngestJobProofs`: `TypeCorrect`, `IndexedComplete`, `CountersTruthful`,
  `JobsTakeTurns`, `IndexedRemains`, `JobsSettle`, for any number of documents,
  requests, jobs, tries and failures, several of them on one document. None of the
  properties is inductive. `Typed` numbers the jobs and says what refers to what;
  `Stored` that the place of a handler tells which chunks are there; `Counts`
  that whoever inserted the leaves is the only one to count, and has not yet;
  `Alone` that a document has one busy job or one request about to enqueue it,
  not both, until an accident `befell` names; `Left` that nobody is left to take
  an indexed document back; `Agree` that whoever is about to write a job's row writes
  what became of its document. Every write that the code swallows, and the status
  that cannot be written, is among the steps.
- `ConversationTurnsProofs`: `TypeCorrect`, `TurnsAlwaysAlternate`,
  `LeafAlwaysATip`, `NoticesTellTheTruth`, `FinishedStaysFinished`,
  `OnlyTheWriterWrites`, for any number of tabs, rows and patches. `Tree` adds
  that a parent has a smaller id, so that walking down to the newest child ends at
  a tip and what a deletion leaves has a top; `Patches` that a patch under way was
  admitted for the row as it is, or as it was before it was finished; `Answers`
  ties task, row, notification and late patches of a background answer together.
- `ModelGateProofs`, whatever the times are: `TypeCorrect`,
  `GateKeepsThePoolPromise` (every step of the gate is a step of `SlotPool` or a
  stutter) and `LeasesWithinLimit`. `GateInv` says that the record is well formed,
  that a user served ahead of a waiting one stands behind it in the rotation
  (`InTurn`; the reason why nobody is passed twice) and how old the clocks of
  steps under way are. Each operation on the record is shown to keep it by lemmas
  about `Purged`, `Granted`, `Enqueued` and `Released`.
- `ModelGateTimingProofs`, if the times fit. `Delay(n)` is what `n` failures cost: a
  sleep, a wait for the lock and the life of a lock left behind each.
  `PulsedCallsWithinLimit` assumes `LeaseOutlasts`, that a lease is longer than the
  gap between two pulses with two waits for the lock and `Delay(MaxFaults)`;
  `LiveWaitersKeepTheirPlace` assumes `SilenceAllowed`, that the silence allowed to a
  waiter covers two polls with three waits, and a lease one poll with two. `OnTime`
  bounds how old signs of life and leases are in two ways: by the failures so far
  (`Lag`), and, as long as a caller has not missed two polls in a row, by the polls it
  missed (`Behind`). The first is what a lease needs; the second holds for any number
  of failures and locks left behind, so that `WaitersKeepTheirPlace` need only name the
  caller with two missed polls. With the code's numbers (lease 30 s, pulse 10 s,
  silence 5 s, poll 0.4 s, a wait of about 1 s, a lock of 5 s) `SilenceAllowed` asks
  for 3.8 s and holds; `LeaseOutlasts` asks for 12 s and 6.4 s a failure, and so holds
  for two failures while a caller waits to learn of its grant.
- `ModelGateIdleProofs`: `SlotsDoNotIdle`, if `LeaseOutlasts`. A free slot that
  a live caller waits for is held up for `IdleBound` at most: the silence
  allowed, a poll with its waits, and what the failures cost. `SlotSpared` says
  that while `idle` counts the slots stay free for every clock as old as `idle`,
  `HeadSilent` that the head of the line has been silent for as long,
  `WaitersHeard` that no live waiter has gone longer without trying than the
  failures explain. The bound is not tight: it counts a lock left behind beside
  the silence it falls into, and TLC meets eight units of its thirteen.

The prover has no induction over data and does not treat `ENABLED`, so liveness
and fairness stay with TLC: `PassEnds`, `RebuildCloses`, `BackgroundReported`,
`SettlesListening`, `DocumentsSettle`. Of replacement with overlapping commits,
only its types and, for designations alone, `SearchMovesOnlyWhenReady` are proved:
TLC refutes the rest there. The sentences that the other runs refute are, of
course, not theorems.

## Seen while modelling

Interleavings that the runs exclude or that refute a stronger statement, without
a run of their own:

Replacement
- After migration `r1_0059` a pending rebuild has no job (lines 159-185). A job
  that finds the lock taken ends, the pass that held the lock ends as cancelled,
  and the new target has no job (`embedding_rebuild.py:207`, although
  `ingestion_queue.py:82` relies on the running pass); `astray` names it.
- A row that arrives after the last sweep of a pass, or that a retry or a purge takes
  back then, has no vector of the new model when search moves to it, although
  `embedding_rebuild.py:576` reads as if none were left. An upload of that time writes
  the new model's vector itself, unless it planned before the designation or skipped it.
- If every row failed three times, 0 of 0 are done and search moves to a model
  without vectors (`embedding_rebuild.py:584`, `swap.py:269-271`).
- `plan_write_targets` keeps writing the column of a target that failed or was
  cancelled (`swap.py:115`).
- A second switch overwrites `previous_model_id`; the vectors of the model
  before are never purged (`embedding_rebuild.py:601`).
- The first designation may be put behind a rebuild, because the read of the
  previous model falls back on the first registered one (`models.py:1752`).
- A retry forgets that a row was given up on. A rollback that follows cancels
  the rebuild, and the row then has neither a vector of the model searched nor a
  note that it failed; search by vector misses it (`embedding_swap.py:312-319`,
  `swap.py:142-148`).
- A rollback between the purge's choice of a model and its deletion makes that model
  serve, and the purge empties it (`embedding_swap.py:359`).
- `OwnVectorsServe` names the three exceptions, a retry, a late purge and a sweep
  undone: TLC refutes it without any one of them.
- Overlapping commits of the console leave a row that contradicts itself.

Keys
- A token dated between the moment of a pass and its commit is refused although
  its key verifies; `KeysOutliveTokens` bounds the gap.
- An ordinary rotation logs users out for a while: a copy that holds the new key
  as announced refuses its tokens until it expires (`jwks_client.py:251`), although
  `docs/CURRENT-STATUS.md:170` says that such a rotation logs nobody out;
  `RefusalsFade` says that this is the only reason for such refusals and bounds them.

Conversations
- Two endings of one row both read "reserved"; the second changes a finished row
  (`conversation_service.py:1364`, `1419`). A metadata patch between them puts the
  mark of the first ending on the text of the second: half an answer looks
  complete (`1441`).
- `load_active_path` repairs a NULL or dangling pointer without the lock (`274`):
  a reader that saw the pointer empty and then the rows may commit its repair
  after another turn has moved the pointer on, and so point at an older message;
  the next turn forks the conversation.
- A restart leaves the row of a background answer reserved for ever. So does an
  exception of `_finish`, which is only logged (`background_answer.py:447-458`); after
  one of `_notify` the answer is there and nobody is told.

Gate
- A lock left behind (a worker killed within a step, a `SET` whose answer got lost, a
  step cancelled at it, a failed unlock) makes every step of every caller fail for up
  to five seconds (`model_gate.py:258-264`). Polls that fail twice in a row let a live
  waiter be dropped as silent, and it is told that it timed out, contrary to lines
  420-422. `WaitersKeepTheirPlace` names two missed polls as its exception: one failed
  poll never costs a place, one lock left behind may.
- A release that gives up leaves its slot taken until the lease expires.
- The record's lock expires after five seconds; a process that stalls longer
  inside a step writes back a record others have changed. The Redis client's one
  second timeout makes this a matter of stalled processes only; the model has
  the expiry of a lock whose holder is gone, and no holder that outlives its lock.

Revocation
- Between replay and subscription (`revocation_cache.py:253`, `259`, `568-575`) a
  broadcast is lost, and the service that is then ready does not know it until it
  reconnects, although lines 320-323 say that being ready means being in sync. It is
  one of the two exceptions `HeardIsKnown` names.

Ingestion
- The counters are never subtracted (`models/ingestion.py:73-76`); a document
  deleted and uploaded again counts twice.
- An upload whose enqueue fails leaves a document that no operation can restart,
  the dead end `documents.py:431` avoids for reprocessing.
- The job's row may be inserted after the job has ended (`documents.py:352-354`)
  and stays queued; the row of a deferred job stays queued too.
- Writes to a job's row are best effort (`handlers.py:1126-1131`, `1175-1179`): one that
  fails leaves the row open after the job. If the status itself cannot be written in the
  `except` branches (1644, 1660), the document stays in progress for ever.
- If the answer to an enqueue is lost, the job runs beside what the requester or the
  deferring handler (95) does next: a document that the job has indexed is given
  back as failed (`documents.py:434-438`).
- A deletion that has found no other row (`documents.py:898-906`) may unlink the
  file that an upload of the same bytes has just stored; `documents.py:890-897`
  expects the worker to restore it, but the job fails.
- The worker does not delete earlier chunks, as the docstring of migration 0016
  says; a document that died between its two inserts fails for ever on
  duplicate keys.
- The handlers raise "so Arq's retry policy sees it"; arq does not retry ordinary
  exceptions, only jobs whose worker died.

Ledger
- `current_anchor` calls `_latest_checkpoint` without its required `today`, so the
  audit export fails once a checkpoint exists.
- A row takes its time when it is flushed and may commit after its day was
  sealed; the five minutes after midnight cover it, except for the sealing that a
  start shortly after midnight does at once and for the command line
  (`verify_audit_chain.py --seal`). Verification then reports tampering.

## Not modelled

Of the modelled components:

- Replacement: disabling a model in the registry, coverage per collection,
  progress counters, more than one console request in flight; memory facts and
  summaries are treated as further rows.
- Keys: import from PEM files and tokens without `iat`, sealing of private keys.
- Conversations: `append_message` (the two-request path of ANILALM and compare),
  `set_active=false`, ratings, shares, classification, compaction, retries of the
  compare-and-swap (they matter only on SQLite), and the pointer repair: as a read
  and a later write beside every other operation it makes the instance too large.
- Gate: a holder that outlives its lock, how long a caller may queue (its wait may be
  over at any tick), and the snapshot, which only reads.
- Revocation: the expiry of entries and rows after thirty days, which outlasts
  every token, and the size caps of the caches.
- Ingestion: expansion of ZIP uploads (several documents inserted in this way),
  parsers, images, relations between documents, and the event stream, which only
  reads. Its vectors are in `EmbeddingSwap`.

Of the rest of the repository, most is control over text, streams between a
client and a model, rendering, lookups, or request handlers over rows of their
own, where an interleaving of two requests touches nothing they share; a model
of it would restate the code. `PROJECT.json` lists each of these parts with its
reason. The audit ledger, the studio's job reports and the quota counters do
have hazards of order; they are the next modules.

## Plan

1. Invariants of the replacement that survive overlapping commits, and which
   columns of the row they need from one transaction.
2. An instance of `ConversationTurns` for the pointer repair and the append path.
3. `AuditLedger` (two sealers, rows that land late), `StudioJobs` (reports that
   overtake each other, restarts), `Quota` (a rebuild beside increments).

Runs are merged rather than added: one run per component with all its
properties, and one per disagreement.
