# Cobalt SQLWorks in TLA+

Cobalt SQLWorks is a desktop SQL editor: an egui application on one UI thread, a tokio
runtime beside it, and one task per database session. Most of it is sequential and well
tested. What is hard to test is what this project models: a user who presses keys while
rows, errors, lost connections and the answers of earlier presses are on their way.

All paths below are under `src/crates/` unless they start with `docs/`.

## 1. The system

| Component | State it keeps | Operations | Talks to |
|---|---|---|---|
| UI thread: `cobalt-app/src/{app,state,ops}.rs` | per tab: `ConnState`, `RunView` (id, state), `pending_run`, `last_run_mode` | run, cancel, connect, disconnect, change database, fetch more, export; `apply_event` and its followups, once per frame | commands to the dispatcher (unbounded), events back (unbounded) |
| Dispatcher: `session/mod.rs` | map tab -> mailbox of its actor, tab -> meta actor | spawns an actor per `Connect`, routes by tab, drops the sender with a `Close` | mailboxes |
| Connection actor: `session/actor.rs` `tab_actor` | the connection, the cancel handle and its flag | open, `ensure_live` (ping, reopen), run, import, change database, close | driver, events |
| Run loop: `run_script`, same file | cap, rows in set, rows held past the cap, cancelled | a biased `select!` between mailbox and stream | result sets, export channel |
| Driver stream: `cobalt-driver/src/mssql/exec.rs` `Run` | pending items, open set, builder, deadline | tokens to `StreamItem`s, cancel with acknowledgement | the wire |
| Script drivers: `cobalt-driver/src/{sqlite,postgres,duckdb}/mod.rs`, `cobalt-duckdb` | the statement that runs, first error, the database's transaction | one batch, statement by statement, on a thread (PostgreSQL: a task); interrupt or cancel token; roll back | a bounded channel of items |
| Run to File: `ops.rs` `spawn_run_export`, `run_export_set` | the set being written, kept files | one file per set, renamed into place at the set's end | bounded channel of 8 from the run loop |
| Import Data: `ops.rs` `start_import`, `actor.rs` `run_import` | one cancel flag, the transaction | a reader thread cuts the file into batches, the actor loads them in one transaction | a bounded channel; the dialog |
| Metadata session: `meta_actor` | a second connection per tab | object explorer requests, reopened on demand | dispatcher |
| Result set: `cobalt-results` | chunks, view, spill file, shared memory budget | append, sort and filter, spill | run loop, grid |
| Spark kernel: `cobalt-app/src/kernel.rs`, `cobalt-runtime/src/worker.rs` | `KernelState`, the busy tab, waiting requests, cancel flag; a thread with its queue and one worker process | start, run, interrupt, stop, drop context | notebooks, Spark SQL tabs; control socket of the worker |
| Notebook and Spark SQL queues: `notebook.rs`, `sparkq.rs` | cells queued, waiting | pump, cancel, poll | kernel, tab sessions |
| Edit Data: `editq.rs` with `ops.rs`, `state.rs` | changes staged by visible row, the results kept aside during a save | stage, discard, save as one script, bring the results back | the tab's session, views of the result set |
| Semantic models, local engine: `session/tabular.rs`, `localq.rs` | one cancel channel per run | run loops of their own | XMLA, DataFusion |
| Sign-in: `cobalt-auth/src/provider.rs` | token cache, refresh tokens | silent and interactive tokens, sign-out | all connects |
| Installer: `cobalt-runtime/src/install.rs` | files, recorded steps | resumable downloads, provisioning | disk |
| Store: `cobalt-store` | history, snapshots, profiles (SQLite) | one transaction per call | UI thread |

What is hard in it, and the property that each part owes:

* **Run loop.** Rows overshoot the row cap and are cut in two; the stream is not read while
  the set waits; `FetchMore` and `Cancel` arrive at any time; a batch can end in the middle
  of a set. It owes: no row lost or doubled, "Paused" exactly when it stopped reading, no
  rows after a cancel, one outcome, a way to the end.
* **SQL Server stream.** The start of a set is held back until decimal scales are known;
  cancel, timeout and transport failure come at every point. It owes the documented order of
  items, and every row once.
* **Tab session.** Every `Connect` makes a new actor and does not wait for the old one;
  events name the tab, not the actor; a run is repeated after a lost connection; messages in
  the mailbox of an actor that returns are dropped. It owes: what the tab shows is what
  happened, a cancel hits the run it was meant for, a press of Run executes once.
* **Run to File.** A bounded channel between an async task and a thread, either of which may
  fail or be cancelled first. It owes: a kept file is exactly its set; both sides end.
* **Spark session.** One worker for every notebook and Spark SQL tab; a queue that nobody
  can take a request out of; Stop that is an interrupt past the queue, or a flag which the
  thread also clears; sessions that break and come back under queued work. It owes: a cell
  shows the outcome it had, no run is left behind as running, Stop ends the run it was
  pressed for, a restart comes back.
* **Script drivers.** A cancel interrupts the statement that runs at that moment, or arrives
  in a later batch; a statement may fail inside a transaction the batch opened or found. They
  owe: the documented order, every row once, a cancel answered, nothing left half done.
* **Local runs, DAX runs.** Run loops of their own, woken by flags and a `Notify` instead of
  a mailbox. They owe what every run owes, and their end.
* **Import Data.** Two threads, one flag that both read, a transaction whose statements may
  fail. It owes: the dialog is told what happened to the table, and both threads end.
* **Metadata sessions.** An actor may die between two requests, and a new one takes over
  while the old one still answers. They owe: an answer to every request, and never an older
  list over a newer one.
* **Result sets.** One memory budget for the sets of every tab, with the lock released while
  a chunk is written. They owe: counters that are right, and the limit kept.
* **Tokens.** Requests side by side, each of which stores what it got. They owe: a sign-out
  is for good.
* **Installer.** Steps that may be cut short anywhere and find each other's leftovers. It
  owes: a record that names only what is there, and an installation that can be repeated.
* **Hot exit.** Stores a text only when a hash says so, over closes, reopens, failing writes
  and crashes. It owes: what is taken for stored is stored.
* **Edit Data.** Changes keyed by the row's position on the screen, a script that stands in
  for the editor's text on "the next run", results brought back by "the next RunDone". It
  owes: what the user is told of a save is what happened.
* **Cells of a notebook.** A queue moved on by presses, results and connections. It owes: a
  cell runs when it was asked for and only then, and the queue is not left waiting.

## 2. Modules

| Module | Models | Kind |
|---|---|---|
| `ItemStream` | `StreamItem` and its order (`cobalt-driver/src/lib.rs:24-73`) | abstract specification of a driver; environment of the run loops |
| `RunContract` | what one run promises its tab (`session/protocol.rs`) | abstract specification of a run loop |
| `RunLoop` | `run_script` for runs shown in the grid | component; INSTANCEs `ItemStream` as its driver; implements `RunContract` |
| `MssqlStream` | `Run` of `mssql/exec.rs` | component; implements `ItemStream` |
| `ScriptStream` | `execute` of the SQLite, PostgreSQL and DuckDB drivers with the database's transaction | component; implements `ItemStream` |
| `TabSession` | UI, dispatcher, actors and the three kinds of channels of one tab | composition |
| `RunExport` | `run_script` with a sink, `sink_push`, the channel and the export thread | composition over `ItemStream` |
| `SparkKernel` | `KernelUi` and its operations, the kernel thread and its worker, and the runs notebooks and Spark SQL tabs show over it | composition |
| `NotebookCells` | the queue of cells of a notebook on a connection | component |
| `EditData` | Edit Data of a tab over its session and its views | component |
| `LocalRun` | a run on a Local tab (`localq.rs`) | component; implements `RunContract` |
| `TabularRun` | a run of a DAX tab, to the grid or to a file (`session/tabular.rs`) | component; implements `RunContract` |
| `ImportRun` | reader thread, channel, `run_import` and the `bulk_insert` of four engines | composition |
| `MetaSession` | a server node of the object explorer, the dispatcher and its meta actors | composition |
| `ResultSets` | append, spill, the shared budget (`cobalt-results`) | component |
| `AuthTokens` | the token cache and the secret of one profile | component |
| `Installer` | the runtime's installation with its files and its record | component |
| `HotExit` | snapshots of tabs, over closes and crashes | component |
| `RunLoopProofs` | theorems about `RunLoop`, as it runs in `MCStreams` | proofs |
| `StreamProofs` | theorems about `MssqlStream` | proofs |
| `ScriptProofs` | theorems about `ScriptStream`, and the types of all of `MCStreams` | proofs |
| `ExportProofs` | theorems about `RunExport` | proofs |
| `SparkKernelProofs` | theorems about `SparkKernel` | proofs |
| `TabSessionProofs` | theorems about `TabSession` | proofs |
| `RunProofs` | theorems about `ImportRun`, `TabularRun`, `LocalRun`, `EditData`, `NotebookCells`, `MetaSession` | proofs |
| `StoreProofs` | theorems about `AuthTokens`, `HotExit`, `Installer`, `ResultSets`, and the types of all of `MCServices` | proofs |
| `MCStreams` | the two kinds of stream, the run loop and Run to File, one of them in each behaviour | instances for TLC |
| `MCServices` | ten components that share no state, one of them in each behaviour | instances for TLC |
| the other `MC*` | one module each | instances for TLC |

`ItemStream` links the layers: `MssqlStream` and `ScriptStream` are checked to produce only
what it allows, and `RunLoop` and `RunExport` are checked against everything it allows. That
is what the drivers deliver, and in two places more than the comments of `StreamItem`
promise: `Done` may carry an error together with `cancelled`, and may come inside a set. The
promise itself is `DoneAsDocumented`, and section 6 says which drivers break it.
`RunContract` closes the layer above: a tab needs to know no more of a run than that, whether
`RunLoop`, `LocalRun` or `TabularRun` is behind it.

`MCStreams` and `MCServices` put independent components into one run: the variable `active`
says which of them moves, and the others stay in one initial state, so the states are those
of the components one after the other and not their product. Nothing is claimed about
components side by side there.

### How state and actions correspond to the code

`RunLoop`. `mail` is the unbounded channel of `TabMsg`; `gone` says that the dispatcher
dropped its sender. `set`, `rows`, `held`, `cap`, `cancelled` are the locals `current` (with
the `RunState` of the result set), `rows_in_set`, `held`, `cap`, `cancelled`. `pc` says
where the task is suspended: before `execute`, or in the `select!`. One action is one turn
of the loop: everything between two `select!`s. `Polls` is the guard of the stream arm: the
mailbox has nothing (`biased`) and the set is below its cap. A Rows item is its number of
rows. `U64Max` is `u64::MAX`, the cap of a run without one.

`MssqlStream`. `Deliver` is a call of `next()` that finds `pending` not empty; every other
action is what `next()` does with the signal, the deadline or one token when nothing is
pending. `current.gathered` are the rows in the builder (or held for the inference of
scales), `current.rows` the rows of the set. `open`, `sent`, ... record what was handed out,
which is the refinement mapping to `ItemStream`.

`TabSession`. `conn`, `run`, `pending`, `last`, `follow` are the fields of `EditorTab` and
the `Followup`s of `apply_event`; a run is `RunView.id`, with the press of F5 it stands for
(`intent`), which the code does not have and the properties need. `cmds` and `events` are
the channels, `entry` the tab's entry in the dispatcher's map, `pc[a]` where actor `a` is
suspended, `flag[a]` the driver's cancel signal and `cancelled[a]` the local of
`run_script`. A run inside an actor is "running" until the driver's Done; `RunLoop` has the
inside.

`RunExport`. The same loop as `RunLoop` with every push into the bounded channel made a
state of its own (`pc = "push"`), because `sink_push` waits there and reads the mailbox
meanwhile. `writer` is the export thread; `files` the files renamed into place with their
number of rows. `delivered`, `whole`, `doomed` are history for the properties.

`SparkKernel`. `kst`, `busy`, `waiting`, `interrupting`, `restart`, `control`, `linked` are
the fields of `KernelUi` (`linked`: `tx` is `Some`; `restart`: `kernel_restart_pending`);
`view[t]` is the run a tab shows, with its press of Run for an id. `cmds` and `events` are
the channels of the thread, `cancel` the shared flag, `intr` what is on its way on the
control socket. `tpc`, `worker`, `cur` are the thread: what it waits for, whether it has a
worker, the request it executes; `hit` says the worker raised KeyboardInterrupt in it.
`result` and `missed` are history.

`ScriptStream`. `at` is where the worker is, `script` the statements it has not completed,
`out` what it sends while the channel `pipe` has no room. `hit` says that the statement which
runs was interrupted, `token` that a cancel request of PostgreSQL is on its way, `stray` that
one of an earlier batch is. `tx`, `undecided` and `written` are the database's transaction
and the changes in it.

`LocalRun`, `TabularRun`. `view` is `RunView.state`. A Local run has a cancel flag, the slot
`more` and the one permit of a `Notify`; a DAX run has the dispatcher's watch channel `flag`
and, when it goes to a file, `queue` and `writer`.

`ImportRun`. `reader` is the thread of `start_import`, `channel` the bounded channel, `loader`
where `run_import` is, `tx` the transaction, `told` the result in `ImportDone`.

`MetaSession`. `list` is the node's `databases` with the request it was loaded by, `awaited`
is `pending_meta`, `entry` the dispatcher's entry; `box[a]`, `life[a]`, `conn[a]` are an
actor's mailbox, where it is, and its connection.

`ResultSets`. `limit`, `used` are `MemoryBudget`; `chunks[s]` the sizes and places of a set's
chunks, `spilling[s]` the chunk its appender writes with the lock released.

`AuthTokens`. `cache`, `secret` are the tokens and the stored refresh token; `step[q]` is
where request `q` is, between two awaits. `out` is a sign-out, which clears the cache and
then the secret.

`Installer`. `part`, `file`, `uvExe`, `jdkDir`, `env`, `saved` are on disk and survive a
crash; `rec` is the record the job holds, `pc` its step.

`HotExit`. `tab[t]` has the text with `saved_text_hash` and `snapshot_hash`, `rows` is the
table `tab_snapshots`, `disk` the files; `sweep` is a tick of the snapshots under way.

`EditData`. `order` is `view_index`, `jobs` the views a thread computes. `staged` maps a
visible position to the row the user meant by it, which the code does not have. `edits` says
whether changes are off, on the grid, or aside in `edit_resume`. Save, Run and the repeat
after a lost connection are one operator, as they are all `run_sql`, which takes
`script_override` before anything else.

`NotebookCells`. `cell[c]` is the state of a cell's run, `exec` the cell the session
executes, `Pump` is `pump`. `owed` (cells asked for and neither run nor taken back), `unasked`,
`lost` and `stranded` are history.

Operators that `PROJECT.json` names as the `as` of a mutant are not part of `Next`. They are
plausible mistakes, kept before the step they get wrong (`DropKeepsMemory` before `DropSet`);
section 3 uses them.

## 3. Runs

| Run | Distinct states | Shows |
|---|---|---|
| `MCStreams` | 341,309 | both kinds of stream follow `ItemStream`, and what a batch leaves in the database; the run loop against every order of mailbox messages and items; Run to File against cancels, failures and a full channel |
| `MCTabSession` | 573,675 | the tab against late events, lost connections, replays |
| `MCSparkKernel` | 411,446 | the Spark session shared by tabs, through stops, kills and restarts |
| `MCServices` | 301,985 | the ten remaining components, each against its own faults |
| `MCRunLoopClose` | finds a violation | a Close while rows stream, section 6 |
| `MCTabSessionOnce` | finds a violation | a run executed twice, section 6 |
| `MCRunExportWhole` | finds a violation | a truncated file kept, section 6 |
| `MCSparkKernelBusy` | finds a violation | a cell executed with no tab busy, section 6 |
| `MCSparkKernelDropped` | finds a violation | a cancelled Spark SQL run executed, section 6 |
| `MCImportWhole` | finds a violation | part of a cancelled import committed, section 6 |
| `MCEditSaved` | finds a violation | "Saved" with nothing written, section 6 |
| `MCStreamsEnds` | finds a violation | a cancelled batch that ends with an error too, section 6 |

Each property is checked to be able to fail: for every property of a passing run
`PROJECT.json` names a faulty variant of one step that makes TLC find it violated.

**Run loop** (in `MCStreams`). `RowsConserved` (shown + held = delivered, however `FetchMore` cuts a set up);
`PausedIffBlocked` (the grid offers "fetch more" exactly when the loop has stopped reading;
otherwise a run could be stuck with no way on); `ClosedWithAllRows` (a set is only completed
with everything delivered, unless cancelled); `NothingShownAfterCancel`; `CancelEnds` (a
cancel ends the run, also from the cap); `RunsAsPromised` (implements `RunContract`).

**Streams.** `EveryRowOnce` (SQL Server: at each read of the wire the rows of the open set
are those handed out and those gathered); `ItemsInOrder` (both kinds implement `ItemStream`,
with the rows read in the items and the right count at a set's end);
`CancelAnswered` (a script except when no statement ran as the cancel came, or the one that
ran completed: the interrupt is then for nothing); `EndsClean` (a batch that ended with an
error leaves no transaction of its own, and of a BEGIN ... COMMIT on a clean connection
nothing is written when the batch failed, everything when it did not, and all or nothing when
it was cancelled between two statements; except DuckDB, which never rolls back, and a
PostgreSQL batch whose ROLLBACK itself was hit by a cancel request).

`ItemStream` is what the drivers deliver, with `Done` at any place and with any combination
of error and `cancelled` a driver has a cause for; the implementation is checked more
closely: SQL Server only ends as documented (`AllowedAt`), DuckDB alone inside a set, and
only with an error (`Allowed`). `EndsAsDocumented` states the two promises that are broken, in
a run of its own.

**TabSession.** `CancelHitsItsRun` (only a run the user cancelled ends as cancelled: a late
cancel does not hit the next run);
`OutcomeIsReal` (the tab never shows an outcome the run did not have); `ExecutedOnceApart`;
`SettledViewIsRight` and `LiveRunIsExecuted` (with nothing on its way the tab shows the
state of its session, and a run shown as running is being executed); `CancelSettles`. All
but `OutcomeIsReal` are about sessions that do not overlap: the user did not connect again
before the last session was wound up, nor disconnect under a run. Section 6 says what
happens otherwise.

**Run to File** (in `MCStreams`). `KeptAsDelivered` (a kept file has exactly its set's rows); `CancelDiscards`
(the set open at a cancel leaves no file); `DoneMeansAllWritten`; `ExportSettles` (actor and
thread both end, whoever waits for whom).

**Services.** One property per part; where the code breaks a promise the exception has a
name, and section 6 tells what happens.

* `InstallsAsPromised`: an install that nobody disturbs succeeds on whatever earlier jobs,
  crashes and removals left, except for three leftovers: a download that is whole but not
  renamed, a partial one whose bytes are wrong, which is resumed and refused by its checksum,
  and a JDK cut short after its launcher; and `runtime.json` names only what is there.
* `EnginesAsPromised`: `LocalRun` and `TabularRun` implement `RunContract`, and a Local run
  neither loses nor repeats rows of a batch cut at the cap.
* `WorkEnds`: a wake-up of a Local run is not lost; a DAX run, an import and its reader end,
  except the dialog of an import that the actor dropped; a metadata request is answered,
  except those queued behind a failed one.
* `ToldRight`: "imported", "failed" and "cancelled" say what is in the table, except after a
  connection lost under the COMMIT; the transaction is over, except on DuckDB and
  after a refused COMMIT; a file of a DAX run is ended as whole only for a run that was.
* `LatestListShown`: between disconnects no older list is shown over a newer one, across the
  deaths of actors.
* `BudgetHeld`: the counters are what is in memory, and the sets exceed the limit by one
  chunk each at the most, except those whose chunks the disk refused. The limit is the
  highest so far: one that was lowered is met by the next append, and only then by spilling.
* `SignOutSticks`: a sign-out that meets no request is for good.
* `WorkIsKept`: a text taken for stored is in the store and is opened by the next start; a
  tab shown as saved is on disk, except after "reopen closed tab" and after a failed save.
* `EditsAsTold`: after "Saved" exactly the changed rows are written, after "nothing was
  written" none is, and changes out of sight are being saved; except a script that was
  dropped, a view that moved the rows, and a save cancelled or cut off.
* `CellsAsQueued`: a cell runs only when asked for (`owed`), not when taken back or behind a
  failed one, and a queue is moved on; except a session lost or busy under a cell, a
  database that was gone, and the pending run that finds its queue empty and runs all.

**SparkKernel.** `CellOutcomeIsReal` (a notebook shows a cell as done or cancelled only if
that very run ended so on the worker); `NothingLeftLive` (with nothing on its way no run is
shown as live); `SettledKernel` (then the session is shown as it is, and free); `StopEnds`;
`RestartHappens`. `NothingLeftLive`, `StopEnds` and `RestartHappens` except the runs in
`missed`, whose stop signal the code loses: the flag was cleared because the thread took up
a command just then; Stop was pressed while the session's Ready was on its way (waiting
requests are dropped, and the session is up); the run was not the busy one, so the signal
went to another or nowhere; the interrupt reached the worker before its cell began; or the
session was stopped with `busy` empty under a run. Spark SQL tabs are left out of
`CellOutcomeIsReal`: after a cancelled run that still waits in the queue, its Done is
applied to the tab's next run (`sparkq.rs:489` does not look which run it was).

### Bounds

They are named constants and only cap what could grow for ever.

| Run | Bounds | Why enough |
|---|---|---|
| `MCStreams`, run loop | 2 batches, 2 sets, 5 rows, chunks up to 3, cap 2, `FetchMore` 1 or all, 3 messages | a chunk of 3 overshoots the cap of 2; a `FetchMore` of 1 leaves a remainder to cut again; 3 messages are `FetchMore, Cancel, FetchMore` |
| `MCStreams`, SQL Server | batches of 2 rows, 2 sets, 5 rows, 2 messages or counts | full batches, a remainder, an empty set, a set that ends before its scales are known |
| `MCStreams`, scripts | 4 scripts (`ScriptsDef`), batches of 2, 3 rows, a channel of 2 | a whole transaction, one left open, one found open, a query between changes; a full batch and a remainder; the channel of the code holds 4, 2 fill all the same |
| `MCStreams`, Run to File | 2 batches, 2 sets, 1 row, channel of 1, 2 messages | the channel of the code holds 8; 1 fills and drains all the same (the run of `MCRunExportWhole.cfg` has 2, and the theorems hold for every capacity) |
| `MCTabSession` | 3 user actions, 1 fault, 4 actors | connect, run, cancel, run again over two sessions, with a replay by the reconnect |
| `MCSparkKernel` | a notebook and a Spark SQL tab, 3 runs, 2 stops, 2 sessions, 1 fault | both tabs queued and one run again after a kill or restart; interrupt and then kill |

| `MCServices`, installer | 2 jobs, 2 troubles, archives of 2 chunks | a job after a crash inside any step; a download resumed in its middle, right or wrong |
| Local and DAX runs | 2 statements, 5 rows in chunks of up to 3, cap 2, 3 requests; 4 items, a channel of 2 | a batch cut twice, a cap raised for an earlier statement; a push that waits |
| import | 4 batches, a channel of 2, 4 engines | the reader ahead of the loader by a full channel |
| metadata | 3 requests, 2 failures, 1 disconnect | a death, the reopening, and a request behind it |
| result sets | 2 sets of 3 chunks of size 1 or 2, limits 1 to 3, 1 failing write | both sets spill, and the limit changes between |
| tokens | 2 requests, 2 resources, 2 accounts | a request that overtakes another, for another account |
| hot exit | 1 tab, 2 texts, 3 faults, 2 closes | tabs meet only in the order of closing; a crash, a failed write and a restart in a row |
| Edit Data | 2 rows, 3 views, 2 troubles, 1 view computed at a time | sorted both ways and filtered; Save, a loss and the repeat |
| notebook | 3 cells (plain, writing, of another language), 3 presses, 2 troubles | one runs, one waits, one is skipped, and one is pressed again |

Alone, with every combination of its inputs, `EditData` has 54,697 states, of which
`MCServices` keeps those where the read-only guard or the large result is at play and not
both.

All configurations turn the deadlock check off: a run that is over, a stream that has ended
and a user who does nothing are proper ends.

### Fairness

* tokio polls a task that can run, and the UI draws frames: weak fairness of the mailbox
  arm, the dispatcher, `ApplyEvent`, `HandleFollowup`, `sink_push` and the export thread.
* A driver answers a cancel, because its wait for the acknowledgement has a timeout: weak
  fairness of the stream arm *while the cancel signal is up*. The same goes for connecting,
  pinging (10 s) and closing (5 s).
* The kernel thread runs, the start of a worker has a timeout, the control socket answers,
  and a cell that got its KeyboardInterrupt or whose cancel flag is up ends (the thread
  looks at the flag every 200 ms).
* Threads that have work do it: the worker of a script and the reader of its
  stream while the cancel signal is up, the loader and the reader of an import, the task of
  a Local run, the dispatcher and the meta actors (opening, ping and close have timeouts).
  A statement that was interrupted ends, and a cancel request of PostgreSQL arrives.
* A metadata request has no timeout in the code; that the server answers it is assumed.
* The writer of a DAX run's file reads on, because the last sends of `run_tabular` wait for
  it without looking at the cancel.
* The installer, hot exit, result sets, tokens, Edit Data and cells of a notebook have
  safety properties only, and no fairness.
* Nothing is assumed of a query that nobody cancels, of the server, or of the user.

## 4. Proofs

Each theorem holds for every value of the constants that its module's `ASSUME` allows; the
runs show the same properties on the bounds of section 3. A proof module EXTENDS the module
it is about (or the module of the run, for a component that runs in `MCStreams` or
`MCServices`), and the inductive invariant is the last section of the component's module,
`IInv`, so that a run can check it.

| Module | Theorem | States |
|---|---|---|
| `RunLoopProofs` | `RowsAreConserved`, `PausedMeansBlocked` | `RowsConserved`, `PausedIffBlocked` |
| | `SetsCloseWithAllRows`, `CancelStopsRows` | the action properties `ClosedWithAllRows`, `NothingShownAfterCancel` |
| | `ImplementsContract` | `RunsAsPromised`: `RunLoop` implements `RunContract` |
| `StreamProofs` | `RowsOnce` | `EveryRowOnce` |
| | `MssqlImplementsItemStream` | `MssqlStream` implements `ItemStream` |
| `ScriptProofs` | `BatchesEndClean`, `StreamsInOrder` | `EndsClean`, `ItemsInOrder`: both kinds of stream implement `ItemStream` |
| | `StreamTypes` | `TypeOK` of the two kinds of stream, the run loop and Run to File |
| `ExportProofs` | `FilesAsDelivered`, `CancelKeepsNoFile`, `SuccessIsComplete` | `KeptAsDelivered`, `CancelDiscards`, `DoneMeansAllWritten` |
| `SparkKernelProofs` | `KernelTypes`, `CellsShowTheirOutcome` | `TypeOK`, `CellOutcomeIsReal` |
| | `NoRunLeftBehind`, `KernelSettles` | `NothingLeftLive`, `SettledKernel` |
| `TabSessionProofs` | `SpecTypeOK`, `SpecOutcomeIsReal` | `TypeOK`, `OutcomeIsReal` |
| | `SpecCancelHitsItsRun`, `SpecExecutedOnceApart` | `CancelHitsItsRun`, `ExecutedOnceApart` |
| | `SpecSettledViewIsRight`, `SpecLiveRunIsExecuted` | `SettledViewIsRight`, `LiveRunIsExecuted` |
| `RunProofs` | `ResultsAreTrue` | `ToldRight` (imports and DAX runs) |
| | `EnginesKeepContract` | `EnginesAsPromised`: `LocalRun` and `TabularRun` implement `RunContract` |
| | `EditsToldAsHappened`, `CellsRunAsQueued` | `EditsAsTold`, `CellsAsQueued` |
| | `LatestListWins` | the action property `LatestListShown` |
| `StoreProofs` | `SignedOutForGood`, `WorkSurvives`, `InstallerPromises` | `SignOutSticks`, `WorkIsKept`, `InstallsAsPromised` |
| | `MemoryAccounted` | `BudgetHeld` |
| | `ServiceTypes` | `TypeOK` of the ten components of `MCServices` |

In all of them `Init => IInv` and `IInv /\ [Next]_vars => IInv'` have one step per action
and under it one per conjunct the action disturbs; an action property or a refinement uses
`IInv` before and after the step. What the invariants add to the properties, and why:

**Run loop.** `IInv` is `TypeOK`, `RowsConserved`, `PausedIffBlocked` and two more. Alone,
`RowsConserved` is not inductive: a Rows item overwrites the single slot `held`, so one
needs that a set which holds rows back is not read (`HeldOnlyWaiting` with
`PausedIffBlocked`: held rows mean Paused, Paused means at the cap, and at the cap the
stream arm is off). And the loop's set must be the stream's: `SetFollowsStream` says that in
the `select!` a set is open exactly when the driver has one open and the signal is up
exactly when the loop was cancelled, and that elsewhere no set is open and nothing is held.
The refinement maps `Start` to `Begin`, `ExecuteOk` to `NextBatch`, a Rows item to `Grow`,
`FetchMore` to `Resume` (or a stutter when no set is open), and the passing items to stutters.

**SQL Server stream.** What `ItemStream` promises is about items handed out; what the code
decides is about items put into `pending`. So each pending item must be allowed *when its
turn comes*: `OpenAt`, `SentAt`, `ToldBefore` say where the stream will be before the i-th
item, and `PendingInOrder` that the item is allowed there. The rest ties the end of the
queue to the parser: `CurrentFollows` (after everything pending the stream is where the
builder is, and what was sent and gathered are the rows read), `StartsCounted` (the sets
started and those still to be are the sets announced; of two starts that are pending the
second is of a set nothing followed yet), `ErrorsTold`, `EndsOnce`.

**Script drivers.** `EndsClean` looks at a batch that is over. What leads there is
`WholeOrNothing`: of a BEGIN ... COMMIT begun on a clean connection either all is still
ahead, or the transaction is open and only its statements and the COMMIT are left, or all is
written; when the ROLLBACK of a failed batch is due, the only way not to be rid of the
transaction is a cancel request that hits it (`hit`); `ChangesCounted` ties what is written, what waits in the transaction and what the
script still has to the changes of the batch, and `EndsForCause` with `HitForCause` say that
only an error or a cancel, of this batch or of one before, cuts it short. For `ItemsInOrder`
the worker runs ahead of the reader by the channel between them. The invariant `ItemInv`
takes what the reader was told, and then every item in the channel and the one the worker
is sending, as a path of such views: each item may come where it comes (`Fits`), and the path
leads to what the worker takes to have been told (`Leads`, `Worker`). A push extends the path
at its end, the reader takes its first step, and the refinement only looks at that step.

**Run to File.** A file is written by what waits in a bounded channel, after the actor has
moved on. `ChannelInOrder` and `CurrentInChannel` say that every batch and every end in the
channel is preceded there, or in the writer's hands, by the start of its set, with only that
set's batches between, so that the rows the writer will have when it gets to a SetEnd are
the rows delivered. The others say where the actor is in a push (`SetFollowsStream`,
`PushedInTurn`), that set numbers grow (`IndexesBelow`), that a delivered set has its file,
its end on the way, or a failure (`DeliveredOnTheWay`), and how both ends finish (`Endings`).

**Spark kernel.** Requests carry the press of Run. `InPressOrder` keeps them ordered on the
whole way from `waiting` through the commands and the worker to the events, and
`CellsOwnRequests` says that a notebook's request is that of the cell it shows: the outcome
is applied by tab and not by run, so this is what makes `CellOutcomeIsReal` true. For
`NothingLeftLive` a live run must have something on its way that ends it (`LiveIsHeldUp`: its
request, or an event or a Shutdown that breaks the session), and `SessionAsShown` with
`StartsOnce` relate the session's state on the screen to the thread. Stop takes a tab's
requests out of the queue with the recursive function `Without`; that the result is the
other tabs' requests in their order is proved by induction on its argument
(`InductionOnASet`, from the well-foundedness of the naturals).

**Tab session.** The first part of `IInv` holds of all sessions. `RunsApart`: a run is in one
place, a command, a mailbox or an actor's hands, and has no outcome while it waits;
`ToldAsEnded`: a RunDone on its way has the outcome of its run, which nobody works on any
more. With `ShownIsLast` they give `OutcomeIsReal`, overlapping sessions included.
`ActorsAsBorn` and `WithinBounds` say what an actor has in hand at each step and that no
Connect is left without an actor, no replay without a run.

The second part, `Apart`, is about sessions that do not overlap, and is one argument around a
press of Run, which the conjuncts make together and none alone. `OneSession`: what is not
the dispatcher's entry is closing or will read a Close, and a Connect waits only when nobody
is up. `NewsInOrder`: the events of one session follow those of the last, so "Connected"
on the screen with nothing contrary on its way means an open session (`SettledViewIsRight`).
Therefore a Run that is sent reaches an idle actor, and the actor works on the run on the
screen (`WorksOnShown`); a Cancel in a queue is for that run or has no Run before it that
could hear it (`CancelIsMeant`, which gives `CancelHitsItsRun`); what is live has a command,
a message, an actor or its last event on the way (`LiveIsUnderWay`, which gives
`LiveRunIsExecuted`); and what may be replayed was not executed (`ExecutesOnce`). The proof
showed that the actor's other way to a cancelled run, a Close, is not taken while sessions do
not overlap, so `CancelHitsItsRun` makes no exception for it.

**Import, DAX and Local runs.** Of a reader thread that died in silence the loader only sees
a closed channel. `BatchesKept` (until the load is over each batch read is in the table, the
channel or the reader's hands) and `GoneForCause` (a reader is gone because of the end of the
file, a cancel, or a bad item still in the channel) give "imported only for the whole file".
`TxAtStep`, `EndsAsHeld`, `OpenForCause`, `SetAtStep` say which transaction, set or end of
file belongs to the step the task is at.

**Tokens, hot exit, installer.** `SignedOut`: between the halves of a sign-out that met no
request the cache is empty, and whoever looked since saw nothing. `HashOfRow`, `HashOfFile`:
the hash the tick compares with is that of what is stored, also while the text differs;
`ClosedIsGone`: a tab between its last save and its closing is off the screen. `BuiltSoFar`
and `RecordIsTrue`: what a step ahead needs is there, and the record in hand is ahead of the
one on disk only while it is being written.

**Edit Data.** A staged change is at the row it is meant for until a view moves the rows
(`InPlace`); changes that are aside are not told of yet, their script addresses the rows
they were made for, and it has written nothing unless it was stopped (`Aside`); and a save
that runs, or that the read-only guard asks about, is that of the changes aside (`OneSave`).
So the RunDone that finds `edit_resume` is the script's, unless that was dropped, which is
the exception `EditsAsTold` names.

**Cells of a notebook.** What is queued is still wanted (`queue` is part of `owed`). A run
of all cells queues them in the notebook's order; that none is queued twice needs that a
notebook has a cell once, which is `CellConstants`.

**Metadata.** `LatestListShown` is about the moment an answer is shown; what makes it true is
where the requests were before. `NewestSent`: what the dispatcher has not read is newer than
what it has. `Mailboxes`: a request is with one actor only, in order, or answered. `Queues`:
the requests of the present connect are all with the actor the dispatcher knows, because it
makes a new one only when the old one has gone with its mailbox, and a request with an
actor has the later ones of its connect behind it, or on their way to the same actor.
`ClosesPart`: a Close parts connects, so that an actor which still answers for an earlier
connect has nothing of this one. From these the answers of a connect come in order
(`AnswersInOrder`), and an answer that is shown leaves only newer lists awaited
(`LaterAwaited`, `LatestShown`).

**Result sets.** `Accounted` is inductive with `Writes`: the chunk being written is in memory
until it is on disk, which is what `Spilled` takes off the counter. The limit is a property
of appends that ended, and the limit may be changed between; so `OldKept` says that what the
sets at rest hold besides their newest chunks never exceeds the highest limit that was set. At the
step that finds no chunk to spill, or the budget kept, this holds of the set at hand; other
sets only shrink. Which chunk goes first is the one with the least number, whose existence
is `WFMin` of the library on the naturals. Bytes are counted as a set (`Held`), so that the
sums are cardinalities of finite sets, to which the library's theorems apply.

**Assumptions.** `StreamConstants`, `ServiceConstants`, `KernelConstants`,
`SessionBounds`: bounds are naturals, a batch of the SQL Server stream and the channels of `MCStreams` have
room for one thing at least, no counter of rows gets as far as `u64::MAX`, a `FetchMore` asks
for at least one row, and the notebooks and Spark SQL tabs are different tabs. There is a
script, scripts are sequences of the four kinds of statement, and none has more than
`MaxSets` selects. `SetConstants`: the result sets are finitely many, and limits are numbers.
`GridConstants`: a view shows rows of the result. `CellConstants`: a notebook has a cell once.
Tabs, requests, resources and accounts are any sets, of any size.

**Only model-checked.** Liveness: `CancelEnds`, `CancelAnswered`, `CancelSettles`,
`ExportSettles`, `StopEnds`, `RestartHappens`, `WorkEnds`. The prover cannot do it, because
fairness needs ENABLED. Every invariant and every safety property of a step that a passing
run checks is also proved. The runs that find a violation (section 6) refute a claim on an
instance, which needs no proof. No module declares a RECURSIVE operator.

## 5. Abstractions

* `RunLoop` takes `execute()` as one step, although it awaits the network outside the
  `select!`. Message and RowsAffected items pass through. A stream that ends without Done
  (`actor.rs:361`, only when a driver's worker panicked) is not an action: the loop goes on as
  after a Done without error, and leaves the open set Streaming in the grid. `RunExport` leaves
  it out as well. `FetchMore` of 0 rows, which only
  the agent channel can send (`agent.rs:920`), and of `u64::MAX`, which overflows
  `rows_in_set + r` (`actor.rs:334`), are outside `Fetches`.
* `MssqlStream` leaves out the session prelude of `execute()` (but for the message it may
  leave), plan mode, and the warning about values that could not be converted.
* `TabSession` handles a frame's followups between its events as well as after them, which
  allows more than the code does; `RunView`'s Paused, Import, the tabular route and the
  sign-in dialogs are left out. Which runs may follow one another is decided by the guards
  of `run_sql` and `cancel_run`.
* `RunExport` has one row per batch.
* `SparkKernel` handles the events of a frame one by one. Contexts, lakehouse bindings
  (`SparkPrep::Wait`), streamed output and the idle policy are left out, and a queued cell is
  one more press of Run. A thread whose channels were
  replaced by a new launch is dropped, since nothing it sends is heard.

* `ScriptStream` has of a database its one transaction and the number of changes in it. Four
  kinds of statement stand for all: a change inside a transaction waits in it, and one
  outside is made at once.
* `LocalRun` leaves out plan mode and the catalog of local tables, `TabularRun` the decoding
  of responses: the model answers with any items.
* `ImportRun` starts where the mapping is confirmed; columns, conversions and creating the
  table are left out.
* `MetaSession` has of the requests the probe and one list.
* `ResultSets` has of a chunk its size. Views and the cache of reloaded chunks are left out.
* `AuthTokens` has one step for a whole sign-in protocol, which names any account.
* `Installer` takes a tool as one call; adopted tools, the health check and the roster of
  packages are left out.
* `HotExit` has text tabs; notebooks' documents and the layout are left out.
* `EditData` has one result set, and a change is a row. Events are applied in the step that
  causes them, since `TabSession` has their delays; what the save script does is what
  `ScriptStream` says, all or nothing. What other runs show while the changes are aside is
  not sorted or edited. An edit still in its text box, and a ROLLBACK typed by the user to
  free a DuckDB connection, are left out.
* `NotebookCells` takes a cell's run as one step, and applies events as `EditData` does.
  Deleting a cell and undo act as turning it into Markdown; parameters and the selection are
  left out; cells on the Spark kernel are in `SparkKernel`.

## 6. Where code and documentation disagree

1. `actor.rs:325` says that after a Cancel, a Close or a dropped sender the loop keeps
   draining until the driver answers with Done. After a Close it does not: the dispatcher
   drops the sender with it, `rx.recv()` is ready with `None` from then on, and the biased
   `select!` never polls the stream again. The task spins; no RunDone, no Disconnected, and
   the connection is not closed. (`MCRunLoopClose`, `CloseEnds`.)
2. `protocol.rs:104` says of `ConnectionLost`'s `rerun` that the lost Run is worth repeating.
   The event does not name the run, so if the tab was connected again meanwhile the run that
   is repeated is the one the new session already has: it is executed twice.
   (`MCTabSessionOnce`, `ExecutedOnce`.)
3. `protocol.rs:22` says that a set whose run failed is discarded. SQL Server, SQLite and
   PostgreSQL end the open set before they report the error, so the run loop sends `SetEnd`
   for the truncated set and its file is kept. DuckDB does not end it (item 8), and there the
   set is discarded. (`MCRunExportWhole`, `KeptOnlyWhole`.)

4. `kernel.rs:297` says that `busy` is the cell executing on the worker. It is taken by the
   first request queued and emptied when that one is done, so the next queued request
   executes with `busy` empty, and Stop does nothing for it. (`MCSparkKernelBusy`,
   `BusyIsExecuting`.)
5. `sparkq.rs:440` says that cancelling a run that still waits drops it. In the thread's
   queue it stays: the run is shown as cancelled and executed all the same.
   (`MCSparkKernelDropped`, `DroppedNeverBegins`.)

6. `mssql/bulk.rs:2` says that a failed or cancelled load leaves nothing behind. The reader
   thread looks at the cancel flag too (`ops.rs:2389`) and stops sending, which the loader
   takes for the end of the file: it commits what it has and reports a success.
   (`MCImportWhole`, `WholeOrNothing`.)
7. `editq.rs:6` says that Save runs the staged changes as a script, and `state.rs:273` that
   the script stands in for the editor's text on the next run. `run_sql` takes it
   (`ops.rs:1828`) before it looks at the connection; without one it only notes that a run is
   pending, and that run is of the editor's text. Its RunDone finds `edit_resume`, the user
   reads "Saved N changes", and nothing was written. `ConnectionLost` repeats a save the same
   way (`state.rs:1954`), and so does a Run after the read-only guard's dialog was cancelled.
   (`MCEditSaved`, `SavedIsWritten`.)
8. `cobalt-driver/src/lib.rs:41` says that a user cancel ends with `cancelled: true` and no
   error. SQLite, PostgreSQL and DuckDB send the error of the interrupted statement with it
   (`sqlite/mod.rs:243`, `postgres/mod.rs:648`, `duckdb/mod.rs:234`). And `:25` has a
   ResultSetEnd for every ResultSetStart; DuckDB leaves it out when a query fails after its
   first rows (`cobalt-duckdb/src/lib.rs:477`). The run loops bear both.
   (`MCStreamsEnds`, `EndsAsDocumented`.)

Met on the way, and not a contradiction of a documented claim. These are the exceptions the
properties name, and behaviours next to them:

* **Sessions.** Events of a replaced session are applied to the tab as if they were the new
  one's (the tab can show Disconnected over a live session until the next event). A late
  Disconnected of the old session fails the run that the new one has; if the user then
  presses Run again, the new actor is still busy with the first run, and a Cancel meant for
  the second one stops the first. A Run
  that reaches an actor busy with another one is dropped in silence. A run that ends by
  Disconnected or NotConnected leaves its history entry running (`state.rs:1901`).
  `execute()` is awaited outside the `select!` (`actor.rs:291`), and when it fails with
  something other than a server error the writer of a Run to File gets no last message
  (`:299`) and may report success.
* **Script drivers.** The interrupts of SQLite and DuckDB do nothing between two statements,
  and a second Cancel is not sent: the script then runs to its end and is reported as
  cancelled without an error. A script that is cancelled and stops without an error (between
  two statements on PostgreSQL, after a chunk of rows on SQLite) leaves the transaction it
  began open, because the rollback is for errors (`sqlite/mod.rs:240`, `postgres/mod.rs:632`). PostgreSQL's cancel request may arrive late, in a later batch.
  DuckDB never rolls back, so after a failed save of Edit Data each BEGIN fails until the
  tab is connected again. A chunk that DuckDB cannot convert
  is counted and not shown; PostgreSQL drops the rows of a chunk that cannot be built.
* **Import.** The statement that is sent to roll back is T-SQL (`actor.rs:223`): on DuckDB
  the transaction stays open under a message that says "(rolled back)" (`state.rs:2166`). A
  refused COMMIT is not rolled back. An import dropped by a busy actor, or one whose
  connection cannot be reopened, leaves a dialog that runs for ever and cannot be closed
  (`dialogs.rs:2053`). A table created for a cancelled import stays. `rx.recv()` blocks a
  thread of the runtime.
* **DAX.** A Cancel just after the end becomes NotConnected, and a run that succeeded is
  shown as failed (`state.rs:1963`). The final sends wait for the writer without looking at
  the cancel. A set whose start could not be pushed stays Streaming in the grid. A response
  cut short closes its set before the error is known (`decode.rs:279`), as in item 3.
* **Metadata.** A failing request ends its actor and drops the requests behind it: their
  nodes stay Loading (`actor.rs:553`). A late answer fills a node after its Disconnect.
* **Tokens.** A refresh in flight stores its token after a sign-out (`provider.rs:317`), and
  a sign-in with another account leaves the other resources' tokens of the first.
* **Installer.** A crash between the last chunk and the rename leaves a whole `.part`; the
  next install asks for the range after its end, is refused with 416, and so are all after it
  (`install.rs:127-140`). A partial `.part` with wrong bytes (an answer that was not the file,
  cut short before its checksum) is resumed, and the install that does so fails; this one is
  removed (`:164`), so the next succeeds. A JDK cut short after its launcher is taken for whole (`:414`).
  Warming up is recorded for the profile at hand, whichever was warmed (`:791`).
* **Hot exit.** `reopen_closed_tab` marks a text as saved that its file may not hold
  (`ops.rs:1435`). `save_file` is not atomic, and a failed save leaves the tab shown as it was
  before. A snapshot is written when the text changes only, so a new file name or binding is
  not (`ops.rs:1501`), and the marker of a Local tab never is (`:1504`, `localq.rs:748`).
* **Result sets and views.** Of two views computed at once the last to finish is installed,
  not the last asked for (`ops.rs:2747`). A comment at `ops.rs:2423` says that
  "the view stays put" until the staged changes are saved or dropped. That is so for a view
  asked for then; one of a large set that was asked for before is installed by its thread
  under the changes, which then belong to other rows (`ViewReady`, and `shifted` in
  `EditsAsTold`). `applying_view`, which could tell, is set and never read.
* **Edit Data.** A save that was cancelled after its COMMIT is reported as "nothing was
  written". A line `GO` inside a text value splits the save script.
* **Notebooks.** A pending run whose queue was emptied while connecting runs all cells
  (`notebook.rs:1008`, `ops.rs:1790`). `Disconnected`, `ConnectionLost` and NotConnected look
  only at the tab's own run (`state.rs:1901`, `:1934`, `:1963`), so a cell stays live after
  its session is lost and blocks the queue. The queue is left when the database is missing
  (`state.rs:1889`). Turning a running cell into Markdown drops its run, and the next
  cell's Run is dropped by the busy actor and stays live.
* **Editor groups.** `layout.rs:326` clamps a ratio between `MIN_RATIO` and `pair -
  MIN_RATIO`, which panics for a pair smaller than two minimums; closing groups can leave one
  (`:443`).

## 7. Plan

Done: every module of section 2 and the proofs of section 4.

Left, in this order:

1. The tree of editor groups (`layout.rs`): each operation leaves it normal.
2. Views and reloaded chunks of a result set beside its appender.
3. In `SparkKernel`: contexts of closed tabs, lakehouse bindings.
4. In `TabSession`: the import and DAX routes and the sign-in dialogs, on which only the
   modules of their own exist.

### Not modelled

Most of the code by lines has no behaviour that a state machine would add to:

* **Drawing** (`ui/`, most of `app.rs`): immediate mode, rebuilt every frame from the state
  that the modules above have. What it calls are their actions.
* **Functions over text**: lexing, completion, formatting and splitting of SQL, DAX analysis,
  the editor's text core, clipboard formats. Sequential, character by character, and
  unit-tested in place.
* **File formats**: exporters and importers, XMLA and showplan parsing.
* **Clients**: the Fabric, Power BI and OneLake clients are one request and one answer.
* **Generated and static data**: keyword and function tables, icons, themes.
* **The agent channel** (`agent.rs`), a test harness that calls the same operations, and the
  update check. `vendor/` is third-party.

The modules stand for the session, storage, kernel, driver and queue code, some six thousand
lines, where steps of several actors meet. `PROJECT.json` lists every component with its
status.
