# acsylla in TLA+

acsylla is an asyncio client for Cassandra and ScyllaDB: Cython classes around
the C++ driver. The driver has threads of its own; Python has one event loop.
This directory specifies what acsylla adds to the driver: how answers
travel from the driver's threads to coroutines, what a session does when many
tasks use, close and cancel it, how a statement hands out rows page by page,
how the driver's log and its host events get to Python callbacks, how arguments
become the configuration of a cluster, how statements are bound, how rows and
values are read, and how a keyspace is turned into the CQL that recreates it.
Paths below are relative to `src/acsylla/_cython/` unless they start with `src/`.

## 1. The system

| Component | Source | State | Operations |
|---|---|---|---|
| Callback bridge | `callback_wrapper.pyx`, `posix_to_python_thread.cpp` 10-44, `cluster/cluster.pyx` 6-59 | a queue of raw wrapper pointers under a mutex, a socket pair, one asyncio future and one lent reference per call | `CallbackWrapper.new_`, `set_result`, `posix_to_python_callback`, `Cluster._handle_events`, `Cluster.destroy` |
| Session | `session/session.pyx` | `closed`, `keyspace`, the driver's session | `_connect`, `execute`, `create_prepared`, `execute_batch`, `set_keyspace`, `close` |
| Statement iteration | `statement/statement.pyx` 21-36, `result/result.pyx` 23-54 | the page state of the `CassStatement`, the generator's page and its prefetch task | `__aiter__`, `set_page_state` |
| Statements, batches, binding | `statement/*.pyx`, `batch/batch.pyx` | the C statement with its values, the containers under construction, the entries of a batch | `new_from_string`, `PreparedStatement.bind`, `__call__`, `bind*`, `set_*`, `Batch.add_statement` |
| Cluster configuration | `cluster/cluster.pyx` 61-565, `src/acsylla/factories.py` | what the `CassCluster` was told | `__init__`, `set_*`, `create_execution_profile` |
| Results, rows, values | `result/*.pyx` | a `CassResult`, the iterators it keeps alive, the rows that point into them | `first`, `all`, `as_*`, decoding |
| Logger | `logger/logger.pyx`, `posix_to_python_thread.cpp` 47-80 | a queue of messages, the process-wide log callback | `_handle_message`, `set_*`, `destroy` |
| Host listener | `host_listener/host_listener.pyx`, `posix_to_python_thread.cpp` 83-112 | a queue of host events | `_handle_message`, `destroy` |
| Metadata | `session/metadata.pyx`, the `as_cql_query` methods of `src/acsylla/base.py` | a raw session pointer, a snapshot of the schema | getters for keyspaces, types, functions, aggregates, tables, indexes, views; `as_cql_query` |
| Errors | `errors.pyx`, `src/acsylla/errors.py` | none | code to exception class |
| C++ driver | `vendor/cpp-driver`, an empty submodule | - | external: only what the code above relies on |

How they interact. A coroutine of `session.pyx` calls the driver and gets a
`CassFuture`; `CallbackWrapper.new_` attaches a callback to it, lending C++ a
reference to the wrapper (`Py_INCREF`), and the coroutine awaits the wrapper's
asyncio future. When the driver sets the `CassFuture`, the thread that did so runs
`posix_to_python_callback`: push the wrapper under the mutex, release it,
write one byte to a blocking socket. The loop polls the other end and
`_handle_events` receives one byte, drains the whole queue, completes the
futures and drops the references. If the `CassFuture` is set before the callback is
attached, the callback runs in the loop's own thread. `Statement.__aiter__` is a
client of `Session.execute`, and the logger and the host listener are simpler
bridges of the same kind. A statement is shared between the program, which may
bind it again, and the driver, which encodes it later; a row points into an
iterator, the iterator into a result; `Metadata` keeps the session's raw pointer.

What is hard here:
- threads of the driver run between any two statements of the loop's thread, and
  push and write are two separate steps;
- a task can be cancelled at every `await`, while the driver keeps working on
  its call and later reports to a wrapper nobody waits for;
- the cluster can be destroyed, and the session closed, with calls in flight;
- the loop's own thread may write to the socket that only it reads;
- the page state that positions an iteration belongs to the shared statement,
  and the driver reads it later, in another thread; so do its parameters;
- binding and reading a nested collection are many calls of the driver, any of
  which may raise half way, with C objects that Python does not count;
- options share settings of the driver, so the order of some 60 setters decides;
- a row of an iteration is a pointer that moves on; what it points to must outlive it;
- the statements of a recreated keyspace depend on each other.

The full list, with lines, is `hazards` in `PROJECT.json`. For each component,
what makes it correct:
- *bridge*: no lost wakeup; each lent reference returned once and only once; a
  task reads a result only when it is there; a done future is left alone; every
  await ends;
- *session*: nothing is sent after close; close happens once, drains, and
  terminates; every coroutine ends; `keyspace` tells where the driver works;
- *iteration*: rows in order, each once, no page skipped, an end only at the end;
- *logger, host listener*: each message handled once, in order, by the
  cluster it belongs to;
- *binding*: a call binds what it was given and nothing else, and what is sent
  is what was bound; every container is freed or accounted for;
- *results, metadata*: what a row points to is there; the answers of one
  `Metadata` are of one schema; the script of a keyspace recreates it;
- *values*: what is bound is what is read, also before the epoch;
- *configuration*: what the arguments say is what is in force afterwards, and a
  call that raises has changed nothing.

## 2. Modules

    DriverCall  <--implements--  CallbackBridge     (proofs: CallbackBridge_proofs)
        ^
        +------ uses ----------  SessionLifecycle   (proofs: SessionLifecycle_proofs)
    PagedScan   <--implements--  PagedIteration     (proofs: PagedIteration_proofs)
                                 LogBridge          (proofs: LogBridge_proofs)
                                 HostEvents         (proofs: HostEvents_proofs)
    Values      <--extends-----  Results            (proofs: Results_proofs)
                                 ClusterConfig      (proofs: ClusterConfig_proofs)
                                 Statements         (proofs: Statements_proofs)
    Snapshots   <--extends-----  Schema             (proofs: SessionLifecycle_proofs)

    MCSynchronous  --extends-->  ClusterConfig, Results, Schema   (with Python: None)

`MCX.tla` gives module `X` its sets for TLC, `X_<run>.cfg` its bounds. `MCSynchronous` has the
three components whose methods run to their end side by side. They share no variable, so a step
of one commutes with a step of another, and it lets one of them move (`part`): every
state of a component that any interleaving reaches is reached by that component alone. A
definition with a suffix, as `Register_MissesEarly`, is a *mutant*: a plausible bug,
used only to confirm that a property notices it.

**DriverCall** (abstract) is what `await` of a driver call promises: issued,
answered, returned; or refused; or abandoned by a cancelled task.
`Refuse` is allowed from "answered" too because a future may be set before
the callback's registration fails.

**CallbackBridge**. `cassFuture`, `armed`: the driver's future and whether it holds
our callback. `cbPc`, `cbReq`: each thread inside `posix_to_python_callback`, the
loop's thread included. `queue`, `bytes`, `open`: queue, unread bytes, sockets.
`loopPc`, `loopReq`: what the loop's thread is in the middle of. `future`,
`extraRefs`, `task`, `freed`: the asyncio future, references held by
`Py_INCREF`, the coroutine, `cass_future_free`. Actions: `Submit` and
`Register`/`RegisterError` (a coroutine up to its await, split where the driver can
run in between), `Resume`, `Cancel`, `Complete` (driver, external), `Push`,
`Write`, `Recv`, `PopFront`, `FoundEmpty`, `Deliver`, `Destroy`. The loop's thread
does one thing at a time (`LoopFree`), and a `Write` that finds the socket full
waits, whichever thread it is in.

**SessionLifecycle**. One coroutine per task; the code between two awaits is one
action, as nothing else of the loop runs there. The await itself is
`DriverCall`, instantiated. `driver`, `driverKeyspace`, `inflight`, `answer` are
the driver's side (external): it answers in any order and completes a close when
nothing else is in flight. `Request` stands for `execute`, `create_prepared` and
`execute_batch`, which have the same control. `create_session` fixes `phase`: a
session whose connect failed or was cancelled is never handed out.

**PagedIteration**. One `pc` per async generator: `first` and `await` are its two
awaits of a result, `sleep` is `sleep(0)`, `rows` is the yield loop. `req`
follows its latest execute: scheduled as a task, queued in the driver, encoded
(`sent`), answered. `pageState` is the statement's. A page's number stands for
its paging-state token; `token` remembers the one the request was encoded with.

**PagedScan** (abstract): rows of a paged table in order from a starting page.

**LogBridge**. One `logger` per cluster, with a `queue` (a length: messages are not told
apart) and `bytes`; one `target` for the whole process, the handler given to
`cass_log_set_callback`. `pc` and `handler` are each thread inside
`posix_to_python_logger_callback`; `draining` is the Logger whose `_handle_message`
runs. `Create` is `Cluster.__cinit__` with its Logger and `__init__`, which
may raise and leave an *orphan* that the loop keeps; `Destroy` is `Cluster.destroy`,
`Dealloc` is `Logger.__dealloc__`, right away unless the program keeps the Logger.
`Emit` pops a message and calls the callback; if that raises, the drain is over.

**HostEvents**. Each session's driver thread announces hosts (`Announce`, `Push`, `Write`)
and then answers the connect (`Connected`). The loop is modelled as asyncio runs it:
`Poll` puts the handlers of readable sockets, in any order, behind the handles that are
ready; exactly these run in this iteration; what `HandleEvents` wakes runs in the next
one. `HostListener._handle_message` is `Recv` and `HandleMessage`, as threads push in
between.

**ClusterConfig**. `status` and `step` say how far `__init__` has come in
`InitOrder`; `conf` is what the driver was told, setting by setting, `refs` the driver
objects made and not freed, `profile` the execution profile, `outcome` how the latest
call ended. A setter `SetX(v)` is the set of ways it can end, so a setter that can be
refused has two. `CreateCluster` is `factories.create_cluster` with its normalisation:
milliseconds and names. `InitStep` calls one setter, and `Call`, `CreateProfile` and
`Free` are what may follow. Values are symbols: the default, one that was given, one
that is not understood. Setters that do nothing but hand their value on are one
operator, `SetPlain`; those that share a setting, look into their value or make
driver objects have one each. Two arguments differ from their defaults, one of them
any option and one out of `Varied`, which holds the options that share a setting;
`create_execution_profile` is given one of the sets of options in `Profiles`.

**Statements**. `stmts` are the statements with their parameters and timeout; `op` is
the call that runs, as the `steps` it still has to do (reset, binds, options) and
what its caller asked for (`want`). `frames` are the containers under construction, innermost
last. `live` counts the containers the driver has made; `lost` those of them that an
exception left behind, and `tupled` those put into a tuple, which the code never frees. Each step is
an action, and may `Raise`. `CallRefused` is a call with parameters that are no list, tuple or
dict, which resets what was bound before it raises (`statement/statement.pyx:46-54`).
`CloseNested` puts a finished container into the one around it, and frees it or not, as
the code does for this kind. `Execute` and `ExecuteBatch` give the driver a reference;
`Write` (external) is the driver encoding the request later. `sent` remembers what was
asked for at execution, what went out, and whether only this program's
`PreparedStatement.bind` made the statement (`own`). The timeout stands for all options a
call is given.

**Values** has the conversions of dates, times, timestamps and durations, both ways, as
pure operators. Units are constants, so that a run can scale them, and so is the size of
floats: `Ulps` are the distances they can have, `Mantissa` is how many of each there are, and
`Rounded` is the float nearest to a fraction, ties to even. `AsCassTimestamp` and `Timestamp` round
where the code does, which is where milliseconds are lost. **Results** extends it: `iters` are the iterators of a result, `rows` the `Row` objects the program
holds (`iter` = 0 for one from `first()`), `frames`, `live` and `lost` the
collections that are being read, `got` the latest value. `cell` is what was bound to the
first row, `ReadBack` what comes out. The reference
definitions at its end (`IsDate`, `DayNumber`) are the rules of the calendar, not the code's arithmetic.

**Snapshots**. `history` is the schemas the cluster has had; `snapshot` what each `Metadata`
holds: nothing yet, a version, null, garbage (its session had gone), or freed; `Ask`
is any getter. **Schema** extends it with what the getters say of a keyspace:
`Recreate` is `as_cql_query`, which gives a `replay`: a script of
statements as records, the keyspace built so far, and the statements refused. `Execute` is the
server given the next statement (external: `Taken` says when it takes one, `Created` what it makes);
the program goes on after a refusal. A
keyspace is sequences in the order of names, as the driver's iterators give them.

## 3. Runs

| Run | Question | Bounds |
|---|---|---|
| `CallbackBridge_safety` | `NoLostWakeup`, `RefPerPlace`, `ResultIsReady`, `SettlesOnce`; every await ends, references come back; refinement of `DriverCall` (`ImplementsCall`; with its fairness while the cluster is not destroyed, `ImplementsLiveCall`) | 3 calls, 2 driver threads, a socket with room for a byte of each call; early answers, cancel, destroy |
| `CallbackBridge_burst` | *violation*: early answers and a full socket | 2 calls, socket of 1 byte |
| `SessionLifecycle_safety` | `TerminatedIsQuiet`, `KeyspaceAgrees`, `NothingAfterClose`; coroutines end; a close terminates | 4 tasks (one connects), 2 keyspaces, one `set_keyspace` at a time |
| `PagedIteration_serial` | `PrefetchIsNextPage`, `OpensAtPageState`, `ScansInOrder` (refinement of `PagedScan`), every iteration ends | 3 iterations in turn, pages of 2, 0 and 1 rows, close at any moment |
| `LogBridge_serial` | one cluster at a time catches the log (`CatchesLog`); `MessagesCovered`, `RegisteredIsAlive`, every message is taken | 2 clusters in turn, 4 messages, 2 driver threads, socket of 2 bytes, callbacks that raise |
| `LogBridge_two` | *violation* of `CatchesLog`: two clusters at once | 2 clusters, 1 message |
| `HostEvents_one` | `NeverPopsEmpty`, `ReportedInOrder`; a host is reported before `create_session` returns; connects return, events are reported | 1 session, 4 events, socket of 2 bytes, destroy at any moment |
| `Statements_two` | `BoundAsGiven`, also half way through a call that raises; `SentAsAsked`; `ContainersAccounted` | 2 statements of 2 parameters, 2 calls, containers of at most 1 element, two deep; a batch; symmetry of the statements |
| `Synchronous_parts` | *configuration*: `InForce`: each setting is what the documentation says of its argument; `NamesForIdentity`; `RaisesChangeNothing`; `ObjectsGivenBack` | any option beside each of those in `Varied`, any value of both; 8 kinds of profile; 1 call after `__init__` |
| | *results*: `RowsAlive`, `ReadsOwnRow`, `DecodersAccounted`; `ReadsBack` against reference definitions; `TimestampLossBounded` | 2 rows, 1 iteration, collections of at most 2 elements, three deep; dates, times, timestamps and durations around their edges |
| | *metadata*: `OneSnapshot`; `FindsWhatItNeeds`: no statement is refused; `Recreates`: what the script gives | 331 keyspaces, 2 schemas in turn, 2 `Metadata` |
| `ClusterConfig_policies` | *violation* of `PoliciesAsAsked`: a constant reconnection policy, and round robin | these two options |
| `Results_millis` | *violation* of `TimestampsReadBack`: a datetime of whole milliseconds is read back | the values of `Synchronous_parts` |
| `Schema_script` | *violation* of `RecreatesKeyspace`: the whole script of a keyspace | one keyspace with types, aggregates, three tables, an index and two views |

Why these bounds are enough to be interesting. With two driver threads and a third
callback in the loop's thread, every order of push, write, recv and pop occurs; three
calls are more than the threads, so a thread works twice. The safety of the bridge does
not depend on the socket's size, and is proved for all; the liveness does, as
`burst` shows. Two tasks can close while one executes, or changes the keyspace. Three pages give a first, a middle (empty) and a last one, and
three iterations let one start where a completed and an abandoned one left the
statement. `SocketCap` bounds `bytes`. Calls and tasks are used once and need no cap; log
messages and host events have one each (`MaxLogs`, `MaxEvents`), which lets sockets fill
and messages pile up behind a callback that raises. A real Unix socket holds some hundreds of one-byte writes,
so `SocketCap` = 1 stands for a burst of that size. Setters of the cluster interact only
where two of them write one setting, so pairs of options are enough; the exception,
hostname resolution, has its own property. The options of a profile are read one after the other, and
those in `Profiles` stand for one of each kind and for two that meet. One element and two levels make each kind of
container both the outer and the inner one, and an element that fails comes with
a container open around it; reading goes a level deeper, as more than one iterator can be
left open. The results of `Synchronous_parts` have scaled units (14 ms to a second, 10 us to a millisecond,
10 ns to a microsecond; a day has 24 seconds where dates are given as numbers), so that
all residues occur, and gives floats 10 bits, with which milliseconds far from the epoch
need rounding as they do with 53. Ten milliseconds to a second would not do: no timestamp
would then lose two of them, as real ones can. All timestamps of the run are of days Python has;
that the others raise is only proved. The keyspaces are all pairs of four lists of types and three aggregates, with a plain table, and all
tables with one or two partition key columns, clustering orders, static columns, three
kinds of index, and views by different keys, with plain types: what tables need of types and
aggregates is that they are there. `MaxCalls`, `MaxLost`,
`MaxVersions`, `MaxIters`, `MaxSize` and `MaxDepth` are the bounds.

Deadlock is not checked: in every model a program may stop after its last call.

Fairness. *Bridge*: the loop polls its selector each iteration and runs ready tasks
(weak fairness of `LoopStep`, `Resume`, and of the step that follows `Submit`); the
operating system schedules the driver's threads (`Push`, `Write`); the driver answers
every call that has a callback, with a timeout error if need be (`Complete`). The
loop's actions are guarded by `LoopFree`, but weak fairness is enough for them: with
finitely many calls the loop has finitely much else to do. Submitting, cancelling and destroying are the
program's choice and have no fairness. *Session*: the driver answers and ready tasks
resume. *Iteration*: the same, and a consumer asks for the next row until it abandons the
iteration. *Logger, host listener*: the loop runs its handles, polls each socket again and
again (so a readable Logger is not passed over), and threads inside a callback go on.
The run of LogBridge leaves out messages logged by the loop's own thread
(`LoopLogs`): with a full socket that is the deadlock of `burst` once more. The other
modules have no fairness and no liveness properties: they model synchronous code, in
which nothing waits.

What the violations show. `burst`: an answer that is there before the callback is
attached is written by the loop's thread itself, to a blocking socket that only
this thread reads (`posix_to_python_thread.cpp:42`); once the socket is full the loop
stands still and `_handle_events` never gets "from the queue the data" as its
docstring says. A non-blocking write end would lose nothing: one byte drains the
whole queue. `two`: the log callback is one per
process, yet each Logger registers itself when it is created and unregisters whoever is
there when it dies (so a Logger kept with `get_logger()` after `destroy()` can silence a
later cluster, which is why `LogBridge_serial` sets `KeepsLogger` to `FALSE`). The documentation of `logging_callback` has a callback for each
cluster that catches the log.

`policies`: `load_balance_round_robin` "configures the cluster to use round-robin load
balancing" (`src/README.md:331`, `src/acsylla/base.py:334`, `src/acsylla/factories.py:265`), but its
setter acts `if enabled is not True` (`cluster/cluster.pyx:361-363`), so that `True` sets nothing and
any other value sets it. `constant_reconnect_delay_ms` "configures the cluster to use a
reconnection policy that waits a constant time" (`src/README.md:280`), but the exponential policy
is set after it, and by default (326-333): a constant one is in force only if the delays of the
exponential one are given as `None`.

`millis`: the tests of timestamps expect the very datetime they have bound
(`src/tests/test_row.py:473`, `src/tests/cql_types.py:173-240`), and the change log says that milliseconds in
timestamps are fixed (`src/CHANGELOG.md:14`). But `as_cass_timestamp` takes the
floor of `dt.timestamp()` times 1000 (`statement/bind.pyx:158`): the seconds are a float that is below
the millisecond as often as above, and the product may stay below. About a quarter of all
datetimes with milliseconds from January to November 2004, and from January 2038 to September
2039, are stored a millisecond early (2004-06-01 12:00:00.001 as 12:00:00.000), and so are some of
1978 and 1987. `_timestamp` (`result/value.pyx:336`) cuts again, so that 2514-10-09 20:54:28.308 is read
back as .306. How much is lost at most is `TimestampLossBounded`: a millisecond, or two before 1828 and
after 2111, and never the second.

`script`: the docstring of `as_cql_query` (`src/acsylla/base.py:1981-1983`; 1624, 1724, 1831 of the
parts) says that the query can be used to recreate the entire keyspace. Of the keyspace of the run are
refused: two types, one that uses a type of a later name (2000) and one with a collection in a collection of a field
(`session/metadata.pyx:393`); two aggregates, without final function and without first value, which are written
as `None` (1740); a view without clustering columns (1863); and a table with two partition key
columns and a clustering order. What the rest recreates differs: the partition key is joined with the
clustering columns into one list (1928, for views 1854), so that `PRIMARY KEY ((a, b))` becomes
`PRIMARY KEY (a, b)`; that a column is static is left out, and so are the class of a custom
index, and a view called `<index>_index` (`session/metadata.pyx:142`). `FindsWhatItNeeds` and `Recreates` say that
keyspaces without these (`Sayable`, `SaysAll`) are recreated.

What `HostEvents_one` shows is narrow. The test of the host listener looks at
`events[0]` right after `create_session` (`src/tests/test_cluster.py:89-98`). That holds
because a woken task waits for the next iteration, in which the listener's handle,
readable before, has already run. It takes that the cluster has no other call or
session in flight: a byte of another call can be what wakes the handler that then
drains this answer.

Some properties that hold name places in which the code does not do what one might expect,
though nothing in the repository says otherwise but where it is quoted:

- *Configuration* (`InForce`, `ObjectsGivenBack`): `timestamp_gen="server_side"` raises (446); the plaintext
  authenticators always raise when given to `create_cluster` (565-571). A timestamp
  generator is never freed, nor is a profile whose creation raises. `InForce` is silent about
  `load_balance_round_robin` and about two reconnection policies at once, which are `PoliciesAsAsked`.
- *Session*: a second `close()` returns at once (`session/session.pyx:105`), although the
  documentation of `close` (`src/README.md:593-597`) offers its end as the sign that the
  session has terminated. `TerminatedIsQuiet` and `CloseTerminates` are about the first.
- *Statements* (`BoundAsGiven`, `ContainersAccounted`): a timeout of zero counts as not given
  (`timeout or self.timeout`); a call that raises half way leaves the parameters bound so
  far; containers under construction are lost then, and only then; one put into a tuple is never freed.
  A collection bound by name with a type of its own reads an uninitialised type
  (`statement/statement.pyx:396`, 451); the model takes that to raise, as the other outcomes end the process.
- *Values* (`ReadsBack`): a date given as
  seconds before the epoch rounds to the day after; a time whose offset takes it out of its
  day can be bound and not be read; a duration with parts of both signs is read with the
  sign of its first part that is not zero, as negative `timedelta`s are; `5Ms`, a unit of mixed
  case, is silently dropped (`statement/bind.pyx:17`).
- *Rows* (`ReadsOwnRow`): a row of `all()` that is kept shows a later row.

## 4. Proofs

For every value of the constants, checked by TLAPS:

- `CallbackBridge_proofs`: type correctness, `NoLostWakeup`, `RefPerPlace`,
  `ResultIsReady`, `SettlesOnce`, and `ImplementsCall`.
- `SessionLifecycle_proofs`: type correctness, `TerminatedIsQuiet`, `NothingAfterClose`,
  `ClosedOnce`, that the driver is told to close at most once, and `KeyspaceAgrees` for
  programs that await one `set_keyspace` before the next (`SerialUse`). Also `OneSnapshot`, of
  `Schema`, for any number of `Metadata` objects and schemas.
- `PagedIteration_proofs`, for iterations that do not overlap (`~Overlap`): type
  correctness, `PrefetchIsNextPage`, `OpensAtPageState`, and `ScansInOrder`.
- `LogBridge_proofs`: type correctness, `MessagesCovered`, `RegisteredIsAlive`, and
  `CatchesLog` for clusters in turn whose Loggers are not kept (`Serial`,
  `~KeepsLogger`).
- `HostEvents_proofs`: type correctness, `NeverPopsEmpty`, `ReportedInOrder` (what has been
  reported of a session are the first of its events, in order and without a gap), and `HostBeforeSession`, for any number of sessions that connect at the same time (the run has one).
- `ClusterConfig_proofs`: `InForce` (what the documentation says of each argument), `NamesForIdentity`, `ObjectsGivenBack` and the action property
  `RaisesChangeNothing`, for any `Varied` and `Profiles` and any number of calls after `__init__`.
- `Statements_proofs`: `BoundAsGiven`, `SentAsAsked` and `ContainersAccounted` (no container is freed
  twice, and a call that does not raise leaves none behind but in tuples), for any number of
  statements, parameters and calls, and containers of any size and depth.
- `Results_proofs`: `RowsAlive`, `ReadsOwnRow` and `DecodersAccounted`, for results of any size,
  any number of iterations, and collections of any size and depth; and `ReadsBack` and
  `TimestampLossBounded`, for all values, units and sizes of floats. Of the calendar in `utils.cpp`: `civil_from_days` undoes `days_from_civil`
  on every date, and gives a date of the calendar for every number of days.

Type correctness is proved and therefore in no run.

They assume what the `ASSUME` of each module says of its constants, and
no more, apart from the hypotheses on how the program uses the API that are named above and in the
theorems (`SerialUse`, `~Overlap`, `Serial`, `~KeepsLogger`). Six assumptions were added for the
proofs. `InputsAreParameters` (`Statements`): what a program passes is a sequence of distinct
indices with values, as a list or a dict of Python gives them. `CountsAreNat` and `NoneIsNoValue`
say that bounds are numbers, and that `None`, and a setting that was never made, are none of the
other values. `CellsAreProper`
(`Results`) describes what Python can bind: dates of the calendar in the years 1 to 9999, which fit in the driver's
dates, times of a day with any offset, timedeltas, durations, and numbers; those for dates within
what `civil_from_days` can take, which adds 719468 to the days in an `int`, and timestamps within
half of what a mantissa holds of milliseconds (140000 years, further than any datetime).
`FloatsAreBinary` and `FloatsAreFine` (`Values`) say of floats what is true of doubles and units of 1000:
their distances are powers of two, each half of another; a mantissa holds four seconds of microseconds;
and a spacing is small beside a millisecond.
TLC evaluates them on every run. The argument is the same each time: an inductive invariant `IInv`, a lemma
that `Init` has it, one step per action that keeps it, and short consequences.

*Bridge.* None of the invariants is inductive. A wrapper's life is a chain of places:
armed in the `CassFuture`, in the container of one thread, on the queue, in the
handler. `IInv` says that a wrapper is in at most one place and that the reference
count is 1 exactly then; that each thread with a
container is at push or write; and which combinations of `task`, `future` and
`cassFuture` go together. `RefPerPlace`, which counts places with
`Cardinality`, then follows from the fact that the set of places is empty or a singleton.
`NoLostWakeup` is kept by `Write` because the byte follows the push, and by
`FoundEmpty` because the queue is empty in the step in which draining ends.

*Session.* `IInv` ties `closed` to the driver: `driver` is closing or terminated only
if `closed`, and exactly one close has then been issued; a call that is outstanding is
in `inflight`. `NothingAfterClose` is proved as a step property under it.
`KeyspaceAgrees` says nothing while a `USE` is in progress, so its invariant has to: the two
keyspaces differ only between the driver's answer and the coroutine's assignment, when the driver
has the one that the coroutine is about to assign (`UseAgrees`). That the answer still counts when
the coroutine resumes takes that there is one `USE` at a time (`OneUse`), which is what `SerialUse`
gives, and that one which was cancelled is never noticed (`OutcomeMatches`).

*Iteration.* `IInv` says that at most one generator is active and that an active one
with pages to come has left its own page in `pageState`; so whenever its request is
encoded, it is encoded with that page.

*Logger.* `IInv` adds that a thread is inside the callback only for a Logger that is
not freed, and covers Loggers still to be created, so that `Create` keeps
`MessagesCovered`. The counts of writers change by one element of a finite set.

*Host listener.* `IInv` says that, while the cluster has its sockets, the queue is at least
as long as the bytes, the writers and the byte just received together (`MessagePerByte`);
with a byte in hand the queue is therefore not empty. For `ReportedInOrder`, what has been reported
followed by the queue is one sequence that has each session's events in order and without
a gap (`GapInv`), and a thread has said no more than it pushed. `HostBeforeSession` rests on `HostInv`: until something has been reported, no session is there, a
wakeup is preceded by a host event whose byte is still in the socket, and what runs in this iteration
is the two readers only, the listener among them. An iteration therefore reports before the tasks
that its reader of the Cluster wakes, which come one iteration later. With the driver announcing hosts
before it answers, this does not depend on the order in which the selector gives the readers.

*Configuration.* At each step, `conf` is what the setters up to `step` have to have left
(`SettingsSoFar`): the options with a setting of their own are set if their place in `InitOrder` has
been reached, and a shared setting is a cascade over the places of those that share it. The proof
goes setter by setter, with one postcondition for all of them: what it leaves when it
returns (`Leaves`), when it raises (`Restores`), and the objects it makes (`Makes`). Places are
numbers, so a setter that moves in `__init__` breaks the proof. `RaisesChangeNothing` is `Restores`.
`ObjectsSoFar` counts objects by kind until the Cluster is freed: at most one SSL context from `__init__`,
one profile or SSL context for each call, and policies lost only with their profile.

*Statements.* The steps that a call has left are where the invariant is: the resets come first,
then binds of distinct indices, and what is bound together with what is still to bind is what was asked for
(`CallMatches`). A frame belongs to the bind at the head of the steps (`FramesMatch`), which gives
`ContainersAccounted` its second half; a call remembers how many containers were lost when it began
(`LostBefore`), and only an exception, which ends it, adds to them. For `SentAsAsked`, a request in flight or an entry
of a batch either remembers its slots or its statement has been marked as bound again (`RequestsMatch`).

*Rows.* An iterator stands at the row it yielded last, each `Row` of it was yielded before, and iterators are
freed with the `Result` only, at which time nobody holds a `Row` (`RowsMatch`, `FreedTogether`).

*Values.* `ReadInv` says that the value read is `ReadBack(cell)`; the rest is arithmetic. A year that
begins in March is taken apart into its 400 years, 100 years, 4 years and the one year (`IsYear`, with
`Year` and `Days`); in these terms `days_from_civil` is linear (`Encoded`), the divisions of
`civil_from_days` give the parts back (`YearOfItsEra`, `Decoded`), and the last day of the 400 years, which
the code corrects for, is the case in which a part is one too large (`EraParts`). That the leap day is where
the rules of the calendar have it is `LeapOf`, and that the days are those that the rules count
`DaysAreNumbers`. Days become unsigned and signed again in `UnsignedDays`; for times, `Clock` splits
seconds rounding down and hours towards zero, as the code does, and finds that outside of the day
one of the two is out of range; for durations, `NanosOfUnits` adds the units of a
text up again, for units of any size.

*Timestamps.* The definition of `Rounded` chooses among the distances of floats. There is a smallest
one that suffices (`UlpExists`), so what is rounded is at most half of a distance away, and
the distance is at most the number itself divided by half the mantissa (`Rounds`, `Rounding`); whole numbers
are floats (`WholeFloats`). On the way in the two roundings add up to less than a millisecond, so that the
floor takes one at most, and none of a whole second (`StoredMillis`). On the way out the error before the
last cut is less than a millisecond, and zero where floats have halves of microseconds (`MicrosRead`),
because the last rounding is to whole microseconds. What is one less, and not of a whole second,
is in the same second (`SameSecond`), hence on the same day, whose year `DaysComeBack` gives.

*Metadata.* `SnapshotInv` says that a `Metadata` that has no snapshot has not answered, that one that has
answered of that only, and that the snapshots of the driver that are held are a finite set of `live`
elements. `Schema` does the same steps or leaves all of it unchanged, which is how `OneSnapshot`
is proved of it.

Only model-checked: all liveness properties and `ImplementsLiveCall`, which need
fairness and `ENABLED` and are out of the proof system's reach; and `FindsWhatItNeeds` and `Recreates`,
which are about data: what is created by a script of statements, whose length is that of the keyspace.
That takes induction over sequences. TLC evaluates them for every keyspace of the bounds.

## 5. Not modelled, and what could follow

What is left to prove is about scripts (`FindsWhatItNeeds`, `Recreates`); what is left to model is below.

Not modelled:

- `cass_session_free` in `Session.__dealloc__`, which waits in the loop's thread for threads
  that may wait for the loop. The shape is that of `burst`; whether the driver waits
  for its callbacks there is decided in sources that are not here.
- Iterations that overlap on one statement: they write the page state that a driver thread is
  encoding, and no order is promised for them (`Overlap` lets them, no run does).
- Conversions of numbers, texts, UUIDs, addresses and decimals (`result/value.pyx:26-53`): type by type
  hand-overs to the driver, some of which change the value (a float is rounded, a UUID comes back as
  text). `ReadBack` gives `something` for them, of which `ReadsBack` says nothing.
- Setters of a statement other than through the options of a call, and the options
  of tables and other metadata that are copied as they are.
- Metrics, tracing ids, client ids (pure reads), `errors.pyx` (a table from codes to classes),
  the abstract classes and dataclasses of `src/acsylla/base.py` apart from `as_cql_query`,
  the examples and the shell, which use the library, and the driver itself.
- What a later user of the same file descriptor number sees of a byte written after
  `Cluster.destroy()`.

Of the logger and the host listener, the models leave out coroutine callbacks (each makes a
task and promises no order), replacing or removing a callback, a thread that is inside of the
log callback while `Logger.__dealloc__` deletes its queue, and user callbacks that
destroy the cluster they are called for.
