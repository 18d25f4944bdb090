# A TLA+ verification of babar

babar is an asynchronous PostgreSQL client for Rust: a background driver task
owns each connection, a `Session` talks to it over a bounded channel, and a pool
hands sessions to tasks; on top sit transactions, streams, migrations, value
codecs and a compile-time SQL compiler. These modules model the code in
`crates/core/src` and `crates/macros/src`, check it with TLC and prove with TLAPS
what matters most about the components that keep state. `PROJECT.json` maps every definition to
the lines it models.

## 1. The system

| Component | State it keeps | Operations | Hard behaviour | What makes it correct | Module |
|---|---|---|---|---|---|
| Driver task (`session/driver.rs`) | the pending command, the command channel, the socket halves, the last transaction status | run, start, on_message, flush, COPY write, close, shutdown, fail_pending | cancellation, errors in the middle of an exchange, flush failures, a dying server, COPY crossing an error, close against queued commands | one exchange at a time; a reply is its own command's, whole, with the first error; every accepted call is answered | Driver, CommandQueue |
| Session calls (`session/mod.rs`, `stream.rs`, `prepared.rs`) | channel sender, statement cache, type registry | query, execute, copy_in, prepare, stream, close, drop | futures dropped anywhere, several tasks on one session | a call is one command and one oneshot | Driver, StatementCache, RowStream |
| Statement cache (`session/cache.rs`) | entries with a handle count per key, a name counter | checkout, insert, release_handle, next_name | overlapping prepares and drops of one key, clean-up in spawned tasks | a handle's statement exists; none is forgotten on the server | StatementCache |
| Pool (`pool.rs`) | slot count, idle queue, closed flag, `Notify` | acquire, drop/recycle, maintenance, close | races for the last slot, dropped futures, return against close | slots are counted exactly; one owner per session; idle sessions are clean; acquire returns | Pool, Lending |
| Transactions (`transaction.rs`, pooled scopes in `pool.rs`) | a guard per scope, open savepoints | transaction, savepoint, guard drop | clean-up tasks racing the next user of the connection, failing COMMIT, streams inside | a failed scope leaves nothing, a successful one everything, and none stays open | Scopes |
| Row streams (`session/stream.rs`) | portal, batch, row channel | start, drive_stream, cleanup_stream | a stream dropped midway, several streams, other statements between batches | rows in order to an honest end; bounded memory; everything given back | RowStream |
| Migrations (`migration/`) | applied rows, advisory lock, the directory | apply, rollback, plan, reconcile | two runners, crashes between script and record, edited directories | the history moves along one catalog, and scripts with it | MigrationPlan, MigrationRunner, MigrationHistory |
| Startup, authentication, TLS (`session/startup.rs`, `auth/`, `tls.rs`) | the handshake, the read buffer | connect, SCRAM, MD5 | messages out of turn, partial reads, a server that leaves | no session before authentication finished; the strongest mechanism; nothing lost at the hand-over | Startup |
| Framing, COPY payloads, DER (`protocol/`, `copy.rs`, `tls.rs`) | read buffer | decode, encode | partial reads, length limits | what is written is what is read | Wire |
| Codecs (`codec/`) | none | encode, decode | widths, NULLs, arity, nested lengths, byte order | decode inverts encode; damage is an error | Bytes, Codecs, Composite, Ewkb |
| Fragments (`query/`) | none | lit, bind, plus | renumbering | placeholders match the bound slots | Composite |
| Typed SQL (`crates/macros/src/typed_sql`) | none | canonicalise, normalise, resolve, solve, lower | optional clauses, outer joins, inference | every shape of the SQL means what was written; types agree | SqlSource, TypedSql |

A call on a `Session` sends one `Command` with a oneshot into the channel of 128
slots; the driver takes the next command only when nothing is pending, writes
its batch, and puts the outcome on the oneshot at `ReadyForQuery`. Prepared
handles, streams and transaction guards hold clones of the sender and may
outlive the `Session`. The pool decides by the driver's atomic transaction
status whether a returned session needs a `ROLLBACK`. Migrations run over either
kind of connection. The hazards of all this are listed, each at its line, in
`PROJECT.json`.

## 2. Modules

**How they compose.** Driver shows that commands are executed and answered one
by one, in the order of the channel, and that the transaction status between
them is the server's; **CommandQueue** is that promise as a specification of its
own, and Driver implements it. StatementCache, Scopes and RowStream take exactly
that as their connection: a FIFO of commands, each of which takes effect in one
step.
Scopes contains the pool's recycling of a connection, as far as it touches
transactions; Pool contains the slots and owners, and implements **Lending**.
MigrationRunner uses
MigrationPlan and implements MigrationHistory. Algorithms calls the operators of
Wire, Codecs, Composite, Ewkb, SqlSource and TypedSql.

**Driver** — the driver task, its callers and the server. `call`/`reply` are the
callers' futures and oneshots, `inbox`/`inboxOpen` the channel, `pending`,
`txStatus` and `writer` the fields of `Driver` and `DriverState`, `toServer` and
`toClient` the socket. The `Start*` actions are `start`, split by whether the
encoder rejects the command, the flush succeeds or fails; the `On*` actions are
`on_message` and the reader's end; `Shutdown` is the drop of the last sender.
The server is external: any message sequence the protocol allows for the
command, notices at any time, death at any time (with or without a FATAL error,
with or without losing what was sent). `served` and `faults` are histories that
the properties compare replies with. A COPY payload is a single write, so a
server that stops reading in the middle of one is not represented.

**CommandQueue** — what a session promises, without messages, batches, rows,
statuses or a driver: callers join a bounded queue, its first member gets the
turn when nobody has it, the server begins and completes only the command whose
turn it is, and each caller is answered once, with success only behind the
completion of its own command (or for a close). `ServesInOrder` is the
refinement: the queue is the callers of the channel's commands (`Line`), the turn
the pending command (`Turn`), `wire` the callers of written batches that the
server has not begun (`Outgoing`), `working` the server's command, `complete` the
owners of `ReadyForQuery` messages that are not read yet (`Incoming`), and an
answer only its success or error. Most steps of Driver (messages of a result,
notices, COPY data) map to no step at all.

**Pool** — `acquire` with a step per await, `PoolConnection::drop`, `recycle`,
`return_idle`, `discard`, `maintenance_tick`, `ensure_min_idle`, `Pool::new`,
`Pool::close`, and the drop of the pool. `pc[t]` is where an acquire is,
`phase[c]` what happens to a connection, `tx[c]` against `known[c]` the real and
the cached transaction status. Time is a choice: a session may be found expired
and a deadline passed at any check. `Notify` is external: one stored permit, FIFO
waiters, the notification passed on when a chosen waiter is dropped.

**Lending** — what a pool promises, without tasks, phases, locks or
notifications: a store with a limited number of places lends items to one
borrower at a time, the one that was longest on the shelf first, or makes a new
one in a place that was free; an item goes back on the shelf only through a check
and only while the store is open; a place is free again when its item is gone,
unless its borrower left with it. `Lends` is the refinement: the holder is
`own`, the shelf the idle queue, the items being checked are the connections
between `PoolConnection::drop` and the queue (`Back`), a place is taken by a task
that connects (`Opening`) or by the refill (`Stocking`), and `lost` is `leaked`.
The places are counted from the items, not from `PoolState::total`.

**StatementCache** — the cache with `prepare_query`, `prepare_command`, `close`
and the drop of handles. `overlapped` records the keys that were ever prepared
twice at a time, which is where the code's promises end; `Abandon` lets callers
drop the futures of prepare and close.

**Scopes** — one connection and the tenants that use it one after the other:
the calls on a `Session`, or the owners of a pooled connection. `frames` are the
open scopes with their guards, `tasks` what dropped guards and streams have
spawned, `queue` the command channel, `levels` the server's transaction and
savepoints with the writes made in each. What the closure does is free:
statements, a retry after an error, savepoints, streams, any result, and its
caller may drop it at every await. The histories `committed`, `acked` and
`outcome` are what the properties compare. `raced` and `hollow` mark the tenants
where the code makes no promise: whose transaction a stream, a late clean-up or
another tenant's command touched, or was committed while the clean-up of one of
its savepoints was still to come (on a connection that the pool has discarded it
never comes, so a COMMIT that is still queued there counts too), and who
committed a transaction that a swallowed error had aborted.

**RowStream** — `start` with its four commands and the undoing of each,
`drive_stream`, `cleanup_stream`, and the consumer, for several streams of one
session with other statements between their commands. `buffer` is the bounded
channel of rows, `batch` what was fetched and waits for room.

**MigrationPlan** — the pure part: `MigrationFilename::parse`, directives,
discovery, `MigrationCatalog::from_assets`, `reconcile`, `verify_drift`, the two
plans. A file is what its parsers tell apart. **MigrationRunner** — `apply` and
`rollback`, a step per SQL statement: state table, advisory lock, load, plan,
scripts in both modes with their records, unlock. Statements are refused,
connections break and futures are dropped anywhere; `tx`/`work` are a
session's transaction and what it has done, `rows`/`net` what is committed. **MigrationHistory** is the abstract
specification: the recorded history moves from one prefix of a catalog to
another, scripts take effect with their record, and only a script that opted out
of transactions may take effect by itself. `Implements` is the refinement, with
`rows` and `net` mapped to themselves.

**Startup** — `connect`: the TLS request and its answer, the startup message,
`authenticate` for every method, the three steps of SCRAM and the choice of its
mechanism, the parameters up to `ReadyForQuery`, the hand-over. A message is two
units, so that reads can end inside one. The server follows the protocol except
for a bounded number of messages out of turn; it may leave at any time.

**Bytes, Results** — byte sequences over a scaled-down byte, and the results of
readers. **Wire** — `BackendCodec::decode` and `decode_body`, the COPY payload
with the server's reader, and the DER walk. **Codecs** — the scalar codecs.
**Composite** — nullable, tuples, arrays, ranges, multiranges, hstore, and
fragments. **Ewkb** — the PostGIS codecs. **SqlSource** — `canonicalize_parts`,
character by character, because what it does to quotes, comments and
placeholders is its whole behaviour. **TypedSql** — normalisation, resolution,
nullability, the constraint solver and the lowering of a statement to every
runtime shape. **Algorithms** — one action per kind of question: pick an input,
apply the code, compare in the properties with a reference that is written
without it; the largest functions under test are its parameters (for a statement, the truth of its predicates under every truth of
their comparisons).

The **MC** modules add the inputs and symmetry sets; the `.cfg` files give the
bounds. **DriverProofs**, **PoolProofs**, **StatementCacheProofs**,
**ScopesProofs**, **RowStreamProofs**, **StartupProofs** and **MigrationProofs**
hold the theorems; **SequenceFacts** holds the lemmas about numbers, sequences and finite sets that
several of them use.

A definition such as `ReserveOffByOne`, placed before `Reserve`, is a mutation: a
plausible bug of the definition that follows it. Replacing the one by the other
makes TLC find the property it is listed with violated, which shows that the
property says something about the code.

## 3. Runs

| Run | Instance | What it shows |
|---|---|---|
| `driver_exchange` | any 2 of 7 kinds of command, 2 statements, 1 row, COPY also as a query | own, complete replies; first fault; fresh status |
| `driver_lifecycle` | 2 calls of 3 kinds (a bind, COPY, and a query that may turn out to be a COPY FROM STDIN), 1 notice, two-slot channel, close, drop and a surviving handle, fair | every call answered and the task ends unless such a query blocks the connection; the refinement of CommandQueue |
| `pool_lending` | 2 tasks and the maintenance task, 2 connections, max 2, min idle 1, health checks, expiry, futures dropped at every await, fair | the refinement of Lending, ownership, only abandoned slots are miscounted, no acquire waits for ever, a closed pool drains |
| `cache_handles` | 3 handles of one key, overlapping and abandoned, fair | hits alive; apart from overlaps handles live, the books agree, nothing is left behind |
| `scopes` | 2 tenants, 1 savepoint, 2 statements or streams, 1 dropped future, refused COMMITs, a lost connection | failed scopes leave nothing, successful ones everything, nothing stays open |
| `migration` | 2 runners (one pooled), 5 directories, 2 calls, rollback of up to 2, 2 faults (a refused unlock among them), fair | the refinement; scripts match records; Ok means done; a call leaves a lock or a transaction behind only where `NothingLeft` says; calls return |
| `streams` | 2 streams of up to 3 rows, batches of 1 and 2, another statement, a dropped future, a broken connection, fair | honest rows, everything given back, the task ends |
| `startup` | every configuration against every server, 2 messages out of turn, split reads, silence at any time; a fair client | a session is earned; the mechanism; the hand-over; connect ends or waits for a silent server |
| `algorithms` | scaled widths, all values at the edges; texts of 5 characters; some 1,800 statements | see the properties of Algorithms |

Three runs show a disagreement between the code and what the repository says:

| Run | What it shows |
|---|---|
| `pool_dirty_idle` | an abandoned `BEGIN` reaches the idle queue |
| `unfiltered_writes` | an UPDATE or DELETE whose WHERE is wholly optional is sent without one |
| `text_first` | a `bytea` that begins with `\x`, or a float whose bytes are a numeral, is not read back as it was written |

**Bounds.** Two commands are what it takes for one to disturb another through a
single pending slot, and two in the channel are the least that can be served in
the wrong order; two calls and the `Close` of a session overfill a channel of two
slots, so that a `Close` is lost or a call has to wait. Two statements tell lost, doubled and
merged result sets apart. Two acquirers and the maintenance task compete
for two slots: each of the three can take the last one, and a dropped acquire
makes a waiter of the next. Three handles are the least for the count of a shared statement to
go wrong; different keys share nothing but the name counter. Two tenants are the
user who leaves something behind and the one who finds it; one savepoint below
a transaction has both kinds of guard. Two migration calls are two racing
runners, or a retry after a crash, over histories of up to three versions; a
third call only repeats these. Two streams interfere through the one
transaction; three rows one by one block the task behind a slow consumer, and
two rows in a batch of two end with a batch that is full. Two messages out of turn can both skip a step and confirm the skip. The byte has 64
values and a word of 64 bits is four bytes, so that every value at the edge of
a width, and every cut of a frame, is enumerated.

**Deadlock** is checked in the runs of Driver, Pool, StatementCache and Scopes,
where `Quiescent` (or an explicit stutter) allows stopping exactly where the
system may rest. RowStream, MigrationRunner, Startup and Algorithms come to an
end when their calls have, so their runs switch the check off; their liveness
properties say that the calls do end.

**Fairness.** Weak fairness of the driver's steps and of a live server's steps
(tokio polls a ready task again; PostgreSQL works off what it received), of each
acquire, each recycling task and the maintenance task, of started prepares,
spawned clean-ups, stream tasks, a runner's statements and the client of
Startup. Nothing is assumed of callers, failures, consumers or notices; a caller
may drop `Pool::close`, so `ClosedPoolDrains` starts where its drain has ended.
Where a server must act, the properties say what happens when it does not: the
server of Startup is not fair, and `Ends` excepts a connection on which it is
silent for ever (`AwaitsServer`); Pool takes a connection attempt as something
that ends. `AcquireReturns` says that no await of `acquire` lasts for ever and
not that the call returns: a task that finds one expired session after another
goes round its loop without looking at its deadline. `EveryCallAnswered` and
`DriverEnds` except a connection that a COPY FROM STDIN sent as a query blocks
(`CopyStarved`), `CallsReturn` a lock that stays with a session whose call was
dropped or whose unlock was refused.

## 4. Proofs

The theorems hold for every value of the constants that satisfies the named
assumptions of the modules: any number of calls, tasks, handles, streams, runners
and connections, any sizes and bounds.

**Driver** (DriverProofs). `TypeCorrect`, with the channel's capacity;
`ExchangesAreSerial`: `Spec => []OneExchange`; `BoundariesAreClean`,
`StatusIsFresh`, `RepliesAreOwn`: `CleanBoundary`, `IdleStatusFresh`,
`ReplyIsOwn`; `RepliesAreComplete`, `FirstFaultsReported`: `ReplyIsComplete`,
`FirstFaultReported`. The assumptions: `None` is no call, no pending command, no
reply and no error, the buffer holds at least one command, the transaction
statuses are "I", "T" and "E" or fewer. None of these properties is inductive:
whether the next message belongs to the pending command depends on everything
that is under way in both directions.
`OneExchange` says where an exchange can be: written and unread (`Written`),
being served (`Serving`), or answered with its `ReadyForQuery` still to be read
(`Answered`), with only CopyDone or CopyFail batches besides (`ExchangeInv`);
what is left to read is the pending command's, and nothing of it follows its
`ReadyForQuery` (`StreamInv`); a flush that fails means that the server is gone,
so a broken writer has no exchange left (`WriterInv`); commands and messages
carry their owner (`OwnerInv`); what the pending command collected is its own
(`PendingInv`).

The last two theorems are about the content of an answer, and compare it with what
the server sent over the whole exchange. Their invariant is `RepliesInv`. `OnceInv`
says that a call is in the channel at most once, that nothing was sent for it
before it is started, and that it has no answer while it is pending. `WireInv`
says which stages the server can be in for which command (`BusyInv`), which
messages can carry a fault (`FitInv`), and that behind a FATAL error or the end of
the stream there is no `ReadyForQuery` (`QuietInv`). `FaultInv` finds the first
fault: in the error that the pending command carries, or in the first message of
the stream that has one. `RowInv` says that there is a path from what the pending
query holds now, message by message, to what it will hold when it reads its
`ReadyForQuery`, and that this is all the server sent; while there is no
`ReadyForQuery` yet, the end of the path is what the server has sent so far
(`SoFar`). Each step then takes the path's first element, adds one at the end, or,
when the connection is lost, cuts it behind the `ReadyForQuery`. Both are stated
for exchanges that can still be answered (`Live`): the others end in `Closed` or
`Io`.

`DriverServesInOrder` is the refinement, `Spec => ServesInOrder`. It uses
`OneExchange`, `WireInv` and `OnceInv`, and needs `StillInv` besides: when the
server is gone nothing is left to be executed, and between two commands no
`ReadyForQuery` is under way. The three together (`OrderInv`) give the lemmas on
which every step rests: at a boundary between commands the abstract wire, server
and completions are empty (`Boundary`), and within an exchange they hold at most
the pending command (`Middle`). There is a lemma per action that names the
abstract step it is, or that it is none, and the answers it gives (`Tells`).

**Pool** (PoolProofs). `PoolTypeCorrect`, `SlotsAreAccounted`,
`OwnershipIsExclusive` (`SlotsAccounted` and `Ownership`, with dropped
futures too), and `IdleStaysClean` under `~Abandon`. The assumptions:
`MAX_SIZE` is positive and `MIN_IDLE` at most that (what the builder checks),
tasks and connections are finitely many. `total` is a counter and `SlotsTaken` a
cardinality, so each action needs the set it adds to or takes from, and that the
element was, or was not, in it: `Hands` ties a task's and the maintenance task's
place to the phase of the connection it has, `Shelved` says that the idle queue
is exactly the connections in phase "idle", each once, `Queued` that the waiters
are the tasks at "waiting", each once, and `Staged` what a pool that is still
being built, or gone, can still have. `IdleIsClean` needs what `recycle` has checked
by each of its phases. It fails with abandoned statements, which is what
`pool_dirty_idle` shows, so the assumption is needed.

`PoolLends` is the refinement, `Spec => Lends`, with abandoned calls and all. The
invariant of the other theorems is enough for it. `Hands` and `Shelved` make what
the store has the same set as what is in the pool's care (`PresentIsInCare`), so
that `total` below `MAX_SIZE` means a free place in the store (`TakenIsTotal`);
`Staged` says that nobody returns a connection to a pool that is gone. Each
action then has a lemma with the step of the store that it is; `KeepFacts` shows
that the removal of expired sessions leaves the queue in order.

**StatementCache** (StatementCacheProofs). `CacheHitsAreAlive`,
`LiveHandlesWork`, `BooksAlwaysAgree`: `HitIsAlive`, `LiveHandleWorksApart`,
`BooksAgree`. Assumed: finitely many handles, and `None` is no cache entry. The
invariant says who is responsible for a name: every name was given once (`Fresh`,
`OneKey`, `Given`), a command in the queue is the one its handle waits for
(`Asked`), and for a key that was never prepared twice at a time the count of its
entry is the number of handles that count (`Apart`), and each of its statements
on the server is cached, being prepared or being closed (`Traced`).

**Scopes** (ScopesProofs). `ScopesTypes`, `TransactionsEnd`,
`FailedScopesLeaveNothing` and `OkScopesArePermanent`: `TypeOK`,
`NothingStaysOpen`, `FailedScopeLeavesNothing` and `OkScopeIsPermanent`. The only assumptions are that the bounds are numbers,
with at least one tenant. For `NothingStaysOpen` the invariant is `Covered`: on a
living connection the tenant is in a scope that it has not asked to end, or a
spawned task is still to send a COMMIT or ROLLBACK, or each open transaction, and
each that a queued BEGIN will open, has a COMMIT or ROLLBACK behind it in the
channel. `FailedScopeLeavesNothing` looks back from `committed`, and needs to know
what a COMMIT will find when it is executed at last. `Asked` says that the
tenant waits for at most one queued command, `Untouched` and `Fresh` that a
tenant leaves no trace before its BEGIN and a scope none before it is opened,
`Unended` and `Owns` that the transaction of a tenant which raced with nobody is
open until its own COMMIT or ROLLBACK is answered, `Sheltered` that a
queued statement will find it open, `Waiting` that clean-ups left by dropped
savepoints have not had their way. `Synced` is the heart: while no
clean-up is due, the server's levels are the open scopes one by one, and hold
only statements of scopes that succeeded or are still open. `Justified` carries
this over to a COMMIT in the queue: it will race with a clean-up, or all that it
can find belongs to successful scopes. For the server's step each command has
one lemma about what it does to the levels.

`OkScopeIsPermanent` looks the other way, from an acknowledged statement to
`committed`, and adds `Keeping`. A statement was sent inside the transaction of
its tenant, and one that is still queued belongs to a running transaction or was
given up (`Promised`). An acknowledged statement of a tenant that is neither
raced nor hollow is lost, because a scope it was sent in did not return Ok, or
committed, or `Pending` (`Kept`): its transaction runs on, and, on a living
connection with no clean-up due, the statement is in a level all of whose scopes
are scopes it was sent in (`Stored`), or the innermost of its scopes is about to
return an error (`Losing`). The scopes of the level matter: a savepoint's release
hands its statements to the level below, a ROLLBACK TO takes away only those of
scopes that failed.

**RowStream** (RowStreamProofs). `StreamsAreHonest`, `BackpressureHolds`,
`StreamsCleanUp`: `HonestRows`, `FetchedAhead`, `LeavesNothing`. `FetchedAhead`
is the bound that the code keeps, two batches; the book promises one (section 5),
so it is proved as a fact about memory and is no run's property. Assumed: rows
and sizes are numbers. The invariant follows a row from the portal over the batch
and the channel to the consumer (`Streaming`): the three are consecutive parts of
the result, and an error is last. `Phase` and `Clear` say for each place of the
task which of portal, statement and transaction it still has, `Channel` whose
answer is next, and `Held` that some stream owes the COMMIT of an implicit
transaction as long as one is open.

**Startup** (StartupProofs). `SessionsAreEarned`, `MechanismIsTheOneOffered`,
`HandOverLosesOnlyReloads`. Assumed: a server answers the TLS request with one of
the three kinds of byte and asks for one of the methods; the bounds are numbers.
`Flow` is the invariant that matters: what the client has read, holds in `rxBuf`
and has not yet read is one sequence of whole messages cut at the right place,
and, if nothing was out of turn, that sequence is what the turn of the server says:
no settings before the grant, `ReadyForQuery` once, and only reloads behind it.

**Migrations** (MigrationProofs). `LocksHold` is the inductive `LockInv`: the
shapes of the call records, at most one session with the lock, and where a call
can be with and without it. `TypesAndLock` and `CallsTidyUp` (`NothingLeft`)
follow. `left` records which calls were dropped and whose unlock was refused,
and `NothingLeft` excepts exactly these. Then, under `~ReuseOpen`, `HistoryHolds` (the inductive `HistoryInv`),
`ScriptsMatchRecords` (`EffectsMatchRows`), `OkIsDeserved` (`OkMeansDone`) and
the refinement, `RunnersImplementHistory` (`Spec => Implements`). The only
assumption about directories is `SourceAssumption`: finitely many files, whose
numeric versions are natural numbers. That a catalog then has ascending versions
and valid modes, and that a table which `reconcile` accepts is a prefix of it, is
proved from the definitions of MigrationPlan. `HistoryInv` says that the table
has one row per version, each from some directory (`Table`), that under a call
with a plan it is a prefix of the call's catalog from which the rest of the plan
leads to where the call wants to be, with the open transaction holding exactly
what the current step has done (`Planned`), and that a script which opted out of
transactions has run before its record (`Ahead`). It needs the lock, because a plan is made once and then executed
statement by statement. `~ReuseOpen` says that a connection which a dropped call
left inside its transaction is not used for another call: the next call's
`BEGIN` would only warn, and its `COMMIT` would also commit the leftover.

Every one of these invariants was checked with TLC on the runs' instances before it
was proved (`RowInv` with its path computed from the stream), and the two refinements
on the instances of the runs of their module. The proofs of invariance have a
lemma per action that states what it leaves behind, and a step per conjunct that
it can disturb. Induction over numbers is by `InductionTo` of SequenceFacts, which is stated for a set of
numbers because the provers cannot instantiate an operator.

Only model-checked: the liveness properties (outside the prover's reach),
and the pure algorithms of Wire, Codecs, Composite, Ewkb, SqlSource and TypedSql,
`RoundTrips` to `TypesAgree` of Algorithms: their definitions are recursive, over
values, texts and syntax trees, and what they compute needs induction over data.

## 5. Observations

What reading the code against its documents showed besides the three
findings. Each is visible in the module named, without a run of its own; where a
property passes beside one of these, its definition names the exception.

*Driver.* After a failed flush the loop takes the next command, though a comment
says that it is exiting (`driver.rs:449`, `:1256`). A `COPY FROM STDIN` sent as a
simple query is never answered, neither are the commands behind it, and the task
does not end when its `Session` is gone (`driver.rs:762`, `:449`): `CopyStarved`
is the exception in `EveryCallAnswered` and `DriverEnds`, against
`tests/loom_driver.rs:9`, `driver.rs:19-21` and
`docs/explanation/driver-task.md:91-97`. The model has one value for all errors
of a server, so it does not tell which of two ErrorResponses a caller is shown.
`StartClose` answers `Session::close` while the loop goes on
(`session/mod.rs:406`). `OnReaderEnd` answers with the reader's error, where the
module comment says `Error::Closed` (`driver.rs:17`).

*Pool.* An `acquire` dropped while it connects leaves its slot counted
(`pool.rs:290`; `docs/explanation/driver-task.md:63`). `notify_waiters` stores no
permit, so a slot freed just before `notified()` is polled wakes nobody and the
waiter times out beside it (`pool.rs:311`). `Discard` frees the slot while the
connection is still open, so `max_size` is not the "hard ceiling" of
`docs/book/06-pooling.md:82`.

*StatementCache.* Two overlapping prepares of a key lose a count, and a statement
is closed under a live handle (`cache.rs:75`): hence `overlapped`. `Hit` skips
the decoder check of `docs/explanation/design-principles.md:51`.

*Scopes.* These are the cases that `raced` and `hollow` set apart: a body that
swallows a statement's error commits an aborted transaction and gets Ok
(`docs/book/05-transactions.md:68`); a dropped savepoint whose outer scope goes
on at once is committed with it, because the outer COMMIT can overtake the
spawned ROLLBACK TO (`transaction.rs:198`); a stream inside a transaction commits
it (`stream.rs:275`; `05-transactions.md:106`). `Races` is wide on purpose: it marks
every tenant whose transaction a foreign command reached, and the properties say
nothing of these tenants.

*RowStream.* The channel holds one batch and the task fetches another meanwhile:
two batches, not one, are ahead, where `docs/book/04-prepared-and-streaming.md:82`
has the next batch fetched only when the consumer pulls. A
write on the session while a stream is open joins its implicit transaction. A
`stream()` future dropped between `BEGIN` and its return leaves the transaction
and the statement behind.

*Migrations.* A non-transactional script can run again after a crash (the
abstract specification allows exactly that). A dropped `apply` on a pooled
connection keeps the advisory lock until the connection closes; on a plain
session it also leaves its transaction open, which the next call would commit
(`ReuseOpen`). An unlock that the server refuses is swallowed: the call returns
what it would have, Ok included, the session keeps the lock and other runners
wait (`runner.rs:138-146`). The state table
is created before the lock is taken. Versions are `u64` in files and `bigint` in
the table.

*Startup.* Bytes read behind the first `ReadyForQuery` are dropped at the
hand-over (`startup.rs:80`); `HandOver` shows that they can only be later notices
and settings. When they are the first half of one, the driver reads its second
half as if a message began there: `HandOver` admits that. `connect_timeout` is the
"Wall-clock cap on `Session::connect`" in `docs/reference/configuration.md:29`, but
bounds the TCP connection only (`tls.rs:112`): a server that falls silent later
holds `connect` up for ever (`AwaitsServer`). `ParameterStatus` before `AuthenticationOk` is ignored.

*Codecs and fragments.* Floats and `bytea` are read as text first, which is the
finding of `text_first`; a vector of 0x5B.. elements is taken for a text as well.
`RoundTrips` excepts exactly these (`AlsoText`). Dates outside the calendar
crate's range panic. Nanoseconds below a microsecond are cut. `Some` of a tuple of NULLs reads back as `None`. Open rings
come back closed. The renumbering of fragments also rewrites `$N` inside literals
(as the comment at `fragment.rs:486` warns), and copies byte by byte, so that text
which is not ASCII comes out as other characters (`fragment.rs:509`).

*Typed SQL.* `SetApart` names the shapes that are not what
`.paw/work/typed-query-api-completion/Spec.md:76` and `:79` ask for: plain
parentheses inside an optional group are taken for a group (`source.rs:260`); a
name that is optional in one place and not in another makes a shape with a
parameter that is not sent; and when parameters are sent, the scan that numbers
them again rewrites a `$` with digits in a string literal, or panics on it
(`lower.rs:1274`), and mangles literals that are not ASCII (`:1279`).
`ShapesMeanTheSource` holds for all other shapes. `$x = 5` does not constrain
`$x`. Quoted identifiers lose their quotes. Dollar-quoted and `E''` strings are
not known to `canonicalize_parts`, and `CanonicalFaithful` reads the source as it
does.

## 6. Not modelled

Socket buffers (the COPY write that never reads, the missing flush behind TLS).
`resolve_dynamic_type` and the type registry: a catalog query and a map of its
answers. The contents of messages that no decision depends on. `schema.rs`,
`config.rs`, `error.rs`, `telemetry.rs` and the re-exports: declarations without
control. `json`, `uuid`, `citext` and text search codecs beyond their framing:
plain text or a library's. Cryptography and the TLS libraries. In the macros, the
parsing of tokens (`public_input.rs`, `public_schema.rs`, `schema_decl.rs`,
`parse_backend.rs` over the sqlparser crate), the generated Rust and the check
against a live database (`verify.rs`). In TypedSql an INSERT comes with its
values paired with named columns, row after row: the count of values
(`resolver.rs:728-737`) and a column list that is left out (`:712-718`) are
settled before; OFFSET is like LIMIT.

## 7. Plan

Modules are written, checked and proved in the order in which they carry others:
Driver and CommandQueue, Pool and Lending, StatementCache, Scopes, RowStream,
Startup, the migrations, the algorithms. What is left:

1. Abstract specifications of a row stream (a sequence that is delivered in
   order, with an honest end) and of the scopes of a connection (nested all-or-
   nothing transactions), with the proofs that RowStream and Scopes implement
   them outside the races that `raced` and `hollow` set apart.
2. The parts that are listed as partly modelled: the type registry, and what of
   the macros stands before and behind the compiler.
