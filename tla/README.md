# Logpond in TLA+

A verification project for the Logpond log store: TLA+ modules translated from
its Go source, TLC runs over small instances, and TLAPS proofs for every value
of the constants.  `PROJECT.json` is the index: components, runs, mutants, the
map from definitions to source lines, findings, hazards and theorems.

## 1. The system

Logpond is one process.  `POST /api/ingest` appends events to a buffer in
memory; a flush goroutine writes them to hourly DuckDB files (active segments)
and publishes them to live tails; a seal loop turns closed segments into
Parquet files; a SQLite catalog records every segment; retention, archiving,
rehydration, eviction and import move sealed segments between the local disk
and an archive; queries read the catalog, then each listed segment.

| component | state it keeps | operations | correct when |
|---|---|---|---|
| ingest buffer and flusher (`ingest/buffer.go`) | events, gauge, notify channel | Append, Drain, Flusher.Run, drainAll | bodies whole or not at all, FIFO, no lost wake-up, an accepted event reaches the flush function, shutdown drains |
| segment manager (`segments/`) | map of open segments, data directory, catalog rows | Flush, SealOnce, Close, Recover | no acknowledged event without a file, sealed files immutable and as recorded, recovery reconciles disk and catalog |
| active storage (`storage/duckdb`) | one file, its appender | Open, InsertBatch, ExportParquet, Close | used only while open |
| catalog (`catalog/`) | segments, custom facets, jobs | one SQL statement per method | a row says what is on disk and in the archive |
| query executor (`query/executor.go`) | busy counters | Run, Count, facets, cursors, per-segment reads | a chain of pages misses and repeats nothing it need not |
| query language (`query/parser`, `query/*.go`) | none | parse, check, compile to SQL, match in memory | query and live tail read a bar as the grammar says |
| retention (`retention/`) | none between passes | plan, archiveThenDelete, execute | never the last copy of what must be archived |
| archive, rehydrate and import (`api/`, repeated in `ui/admin.go`) | job records, files in place | jobs, evictor, DELETE, import handler and watcher | the row, the file and the copy agree |
| archive backends (`archive/`) | objects and manifests in S3; a script's capabilities | Archive, Retrieve, Verify, Probe | the manifest is the commit marker |
| job manager (`jobs/`) | cancel functions, job rows | Start, Cancel, Complete, Fail | a job ends once, and its row tells the truth |
| fanout, live tail, watchdog (`ingest/fanout.go`, `ws/`, `metrics/`) | subscribers, client queues, registry | Publish, Subscribe, Cancel, shedding | a slow client never blocks ingest; losses are counted; slots come back |
| facet registry, configuration, reload (`facets/`, `config/`, `main.go`) | merged facets, tokens | Load, CreateUI, UpdateUI, DeleteUI, Reload | the published set is that of table and file; facets, tokens and configuration are of one file after a reload |
| extraction, suggestions, UI pages, auth, metrics, tools | none that other parts depend on | | |

They interact through shared state (the manager's map and mutex, the catalog,
the directory, the bucket), channels (notify, subscribers), and contexts at
shutdown.  No lock spans two statements or a statement and a file call, so the
hard behaviour is in what happens between them: the seal loop between two steps
of a flush; a job, a retention pass, the evictor and a query on one row; two
retrieves of one segment; a reload while facets are edited; a page between two
evictions; a client that stalls while the watchdog sheds it; a crash at any
point; the shutdown order of `main.run`; failures half-way.

## 2. Modules

`Segments` models `Manager.Flush`, `openOrCreate`, `sealOne`, `Close` and
`Recover`.  One action is one critical section, file call, catalog statement or
DuckDB call.  A segment is the index of its window; an event is a model value
with the window of its timestamp; a DuckDB file has an identity in `Files`, so
that an unlinked file that is still open keeps its rows and a path may name
another one.  `Flush` runs through `lookup, open, row, publish` once for the
current segment and once per group, `route`s each event, then `pick`s and
`insert`s a group; `SealOnce` runs `detach, count, export, rename, mark,
unlink` (or `dropfile, droprow` when empty).  `phase` holds the four rules of
Recover in order.  Time is two counters: `now`, the window of the clock, and
`horizon`, below which the grace is over, which is all `SegmentID` and
`SealableNow` look at.  `Punctual` is an assumption on the environment, not on
the code: no event reaches `Flush` after the grace of its window, and no
`Flush` outlasts the grace of a window it writes to.  With `Punctual = FALSE`
both happen.  `SegmentsInv` holds the inductive invariants.  `EventStore` is
what a punctual manager promises: segments gain events until they are sealed,
lose none, share none, and hold what was acknowledged.  Its three variables are,
by the mapping `Segments!Store`, the rows of a window that are on disk (in its
DuckDB file, its Parquet file or both), the windows with a Parquet file,
and the events acknowledged.  `SegmentReads`
composes the executor's reads with `Segments`: a query lists the catalog, then
visits one segment per step while flush, seal and recovery go on.

`Ingest` models concurrent handlers, the flusher and the shutdown of
`main.run`.  `IngestQueue` is its abstract specification, a bounded
all-or-nothing FIFO queue; `Ingest!Queue` is the refinement mapping.

`Lifecycle` follows one segment after its seal, or one imported segment:
workers (goroutines) take up `retain`, `archive`, `rehydrate`, `sweep`,
`delete`, `import` and `query`, each a sequence of single steps that carries
the row it read (`snap`) and what it decided (`plan`), as the code carries
them.  One segment is enough because every statement, file and backend call of
these goroutines names one segment and no row is locked across two of them.
The admin page repeats the handlers of the API, so the same actions stand for
both, and it starts one kind of rehydration of its own (`AdminRehydrate`).

`Backends` models S3 (an upload, in parts or whole, its commit by a manifest,
retrieve through a temporary file, verify page by page; a request may take
effect and its answer be lost) and the script (its mutex, its capability cache,
the probe at start and that of the admin page at any time, and what a failing
run removes), one step per request, system call or run.  A probe holds the
mutex throughout and is one step; `Cuts` says which of its runs end without a
clear answer.  `ArchiveJobs` composes it with the job
manager and the goroutines of archive and rehydrate jobs over several segments.
`ArchiveStore` is what both promise: a segment is called archived only once a
copy is committed, and neither is taken back.  `Lifecycle` uses the calls as
one step; `ArchiveJobs` is where their insides interleave.  Two downloads of
one segment share the name `dst + ".tmp"` (s3.go:420): one may rename what the
other is still writing over a file that was whole.  The history variable
`marred` keeps the segments to which this, or a failing run of the script,
happened, and `RehydratedServed` excepts them.  It takes three jobs on one
segment to get there by downloads, one more than the run has.

`QueryPaging` is a client that pages through a result, or counts, while events
arrive (late ones too), segments are sealed and evicted.  Cursor, order,
early stop, the sampled facets and the count guard are the code's (the two
windows of `Paging` fit its sample and its two facet values the cap, so that
facets that say sampled or truncated arise in the theorem only).  Its
assumptions say that each event has a facet value or none, and that `None` is
no cursor.

`QueryLanguage` is the grammar, the filter tree, its compiled form over three
truth values, and its match in memory over two.  `SearchBar` types bars and
sends trees to both; it holds the reference reading of the documented grammar.

`LiveTail` models `Fanout.Publish`, the connections of the two WebSocket
servers (handler, reader, writer, rate cap, close codes) and the watchdog that
sheds them.  `TailStream` is what each client is promised: a stream that may
lose numbers but counts them, gives the others in order and each once, and
nothing once it is over.  By the mapping `LiveTail!Tails` a stream is open while
the handler serves events and its writer runs; what is on its way is what the
channel, the writer and its queue hold, and what is lost is the three counters
of drops and skips together, or, when it is over, all that did not arrive.
`Config` is how defaults, file and environment are laid over each
other and validated; `Facets` composes it with the registry and the reloader.
A layer is any function on fields whose sources and facets are named from
`SourceIds`, `Tokens` and `FacetNames` (`SourcesTyped`, `FacetsTyped`: what
unmarshalling into the Go structures guarantees).  A source with an empty set
of tokens in the environment requires none, hence the condition of
`EnvTokensKept`.  A source that only the environment's tokens name becomes one
of the configuration (section 3).  `AddDefs`, the loops of `rebuildLocked` that skip a name
already there, is written in closed form: the definitions at the positions in
`Fresh`, in the order of `InOrder`.  The provers can unfold this, and not a
fold.

`SegmentsInv`, `ArchiveInv`, `LiveTailInv` and `QueryPagingInv` hold inductive
invariants, the other modules keep theirs beside the properties or the proofs.
`SegmentsProofs`, `SegmentReadsProofs`, `IngestProofs`, `LifecycleProofs`,
`ArchiveProofs`, `LiveTailProofs`, `FacetsProofs` and `QueryPagingProofs` are
the proofs (section 4).

`MC*` modules hold the constants for TLC.  A definition commented "mutant" is
a plausible bug of the definition after it.  It is used nowhere in the
specifications; it is what the property named in `PROJECT.json` must refuse.

## 3. Runs

| run | shows | bounds |
|---|---|---|
| `Segments_punctual` | punctual environment: nothing acknowledged is lost, refinement of `EventStore`, sealed rows tell the truth, flush never writes to a closed connection, the order of deletion; a query misses, of what is placed by time, only segments it listed active and found closed, or marked lost by recovery; until a failure an acknowledged event can be queried or is in the segment being sealed | 2 events in 2 of 3 windows, 2 crashes or shutdowns, 1 failing call |
| `Segments_late` | late events and slow flushes: no event is in two windows, recovery reconciles, and, until a call fails, a closed segment is sealed or dropped, across a crash | 2 events, 1 crash or shutdown, 1 failing call |
| `Ingest_queue` | refinement of `IngestQueue`, no lost wake-up, what was accepted before the cancellation is handed over, what is accepted is handed over in time, a cancelled process exits | 3 requests of 2, 1 and 0 events, capacity and batch 2, 1 failing flush |
| `Life_archive_first` | with `archive_before_delete` a sealed segment keeps its file or a committed copy, and references are of committed copies (`CopiesTrue`); a segment sealed here is called archived only with its copy, however late a plan is carried out (`SealedHereHasCopy`); a due segment is evicted unless queries hold it | 2 workers, all 7 tasks, script backend, 1 failing call, 1 crash |
| `Archive_jobs` | the manifest is the commit marker, verify reports nothing dangling, leftover uploads are explained by a crash, a failed request or a lost answer, the capabilities known are true and no mode is refused twice between two probes (`BackendsTrue`); a rehydrated segment has its file; job rows tell the truth (`JobsTrue`) and go forward only (`JobsForward`); refinement of `ArchiveStore`; every job ends | 2 segments (one in parts), 2 jobs, 1 verify, probes at any time, 1 trouble (failure, or restart, or verify, or a probe cut short) |
| `Tail` | streams stay within their queues, are sheddable and told of the cap (`StreamsSound`); slots are counted true (`SlotsTrue`) and come back, and the publisher never waits (`NobodyWaits`); refinement of `TailStream`, so that events are counted when lost and in order when not; no step uses a closed channel or delivers what the last status excludes; pressure sheds every client and its end lets them in again (`Shedding`) | 7 scenarios of up to 3 connections, cap 2, queues and rate of 1 |
| `Facets` | registry, table and configuration agree and acknowledged facets persist (`RegistrySound`); after a reload, completed or cut, facets, tokens and current configuration are of one file (`AppliedWhole`); no chain of reloads takes the environment's tokens from a source in use | 2 facets, 7 files, 2 edits, 2 reloads, 1 failure, 1 restart |
| `Paging` | pages descend and every one but the last is full, so a chain by time is no longer than its rows (`PagesSound`); every miss is one of those the code allows (same timestamp as a page boundary, late in a segment read later, sealed or evicted meanwhile), facets and count are honest, the chain of pages ends | 4 events on 3 timelines, 2 windows, pages of 1 row, 1 eviction |
| `Language` | the rows of the query are those of the documented grammar, no word is lost, no refusal is unannounced (`ParserTrue`); the live tail passes what the query returns, but for a null attribute whose existence is asked | every bar of up to 5 chunks over 4 alphabets, 10 filter trees, 6 rows, one with a null attribute and two without it |
| `Segments_crash_after_rename` | violation, see below | 1 crash |
| `Paging_load_more` | violation, see below | as `Paging` |
| `Facets_unknown_source` | violation, see below | as `Facets`, no edits |

A property named in parentheses is the conjunction of the smaller ones stated
before it in its module.

Why these bounds are enough to be interesting: three windows let a segment be
sealed while the next is written and a third opens; two crashes let a recovery
itself be cut; a third file identity lets a path be reused while an unlinked
file is still open; two workers are one that holds a stale snapshot and one
that makes it stale; bodies of 2,
1 and 0 events fill, half fill and overfill a buffer of 2; queues of one are
full at the second event; two jobs on one segment are what shares a temporary
name; pages of one row make every row a page boundary; five chunks hold two
operands, a conjunction and a pair of parentheses.  Symmetry is used for file
identities, in a safety run only, where they are interchangeable.
Each bound (`MaxWindow`, `MaxRestarts`, `MaxFaults`, `MaxTrouble`,
`Scenarios`, `MaxEdits`, `MaxReloads`, `MaxEvents`, `MaxPages`,
`MaxEvictions`, the lengths of the alphabets) stops only the environment, so a
bounded behaviour may end, which is what `CHECK_DEADLOCK FALSE` says.

**Violation runs.**  Each shows one sentence of the repository that the code
does not keep; `findings` quotes it.

* `Segments_crash_after_rename`: a crash between `os.Rename` and
  `MarkSegmentSealed` ends, after recovery, with a Parquet file kept and its
  row `lost`.
* `Paging_load_more`: the request saved for "load more" holds the words of the
  search bar twice over, so its second page asks for another phrase.
* `Facets_unknown_source`: config.go:271-273 says that a token of the
  environment for a source that is in no configuration is "ignored at load time
  and surfaced in validation"; the source is staged "so Validate() can complain",
  and Validate does not: the process starts with the source, whose token it
  accepts.  `EnvTokensKept` therefore speaks of sources of the configuration in
  use, and holds whichever way this is settled.

**What the models allow and no run refutes.**  Some candidates are stated in
the modules and belong to no run, because they do not hold.

* Segments: a flush that overlaps the seal of a window it writes to inserts
  into a file that is exported already (manager.go:159, PRD.md:154); hence
  `Punctual`.  A query that lists a segment as active and finds it closed skips
  it (executor.go:635, against manager.go:279-283).  After one failed step of
  `sealOne` a segment is out of the map until a restart.
* Ingest: what is accepted after the cancellation may be left in the buffer
  (buffer.go:157; `ShutdownFlushesAll`).
* Segments: with a flush slower than the grace a window may be opened again
  after its seal, and the second seal renames over the first Parquet file
  (manager.go:384).  Under `Punctual` this hardly arises, and no property is
  claimed of it.
* Lifecycle: retention removes the file of an imported or persistent segment
  and calls it archived, although it has no copy (evaluator.go:343,
  `ArchivedHasCopy`, which holds of segments sealed here only).  An archive job
  that marks a segment from a stale listing after it was rehydrated hides it
  from the evictor (archive.go:186, `DueFileEvicted`).  Rehydrating what was
  archived by hand overwrites the path of a sealed file that is still there.
  The failing one of two overlapping imports, or script retrieves, removes the
  file of the other (import.go:165, script.go:371), so that a rehydrated row may
  have no file: no run claims that it has one.  The admin page's rehydration
  sets a TTL on a segment kept for good.  Queries that overlap for ever hold a
  due segment.
* Archive: a job cut by a crash stays `running` (manager.go:208).  A multipart
  upload whose creation is not answered stays in the bucket and nobody aborts it
  (s3.go:304-314).  A shared temporary name or a failing script may take a file
  that is served; `RehydratedServed` excepts exactly these (`marred`).  An object
  under the key without a digest tag would be taken for the segment's own
  (s3.go:191); nothing in the code puts one.  Verify compares objects with manifests and never reads the
  catalog, so its `orphaned_parquets` are not those of archival.md:124 (s3.go:501),
  and `missing_parquets` is filled by nothing.
* Live tail: the cap is per server (live-tail.md:85 says 20 in all).  Events a
  full channel drops are counted, and no status tells of them
  (live-tail.md:54; `StatusTellsDrops`).  An HTML client that stalls is noticed
  only when it leaves.
* Facets: values marked reloadable that are passed to constructors at start
  (query range, sampling, retention, archive credentials) are accepted by a
  reload and read by nothing.  A reload between an edit and the listing may
  drop an acknowledged facet from the registry until the next (`AckedListed`).
* Queries: a cursor survives the eviction of its segment (`EvictedCursorRefused`,
  PRD.md:479).  Rows that tie with the last row of a page are on no page.
  Several free words are one phrase, not a conjunction (`TermsAreAnded`,
  search-syntax.md:154-160).  Missing fields under `neq`, `not_in` and NOT are
  decided differently in memory and in SQL, and a range that meets a text that
  is no number fails the query (`MatchMirrorsSQL`, match.go:13-16).  For an
  attribute that is there and JSON null, `@k:*` is true in SQL and false in the
  live tail (compile.go:130, match.go:316), so the query returns a row that the
  tail leaves out; search-syntax.md:144 says "present and non-null".

**Fairness.**  Weak fairness is assumed of goroutines that are running (Go
schedules every runnable goroutine), of tickers, and of the restart of a
process that went down (a supervisor).  Strong fairness is used where the code
tries again by itself: the flusher's and the connection's `select` pick at
random among ready cases, so a closed `Done` that is seen for ever is picked
at last although others are ready too; the evictor has a goroutine and a ticker
of its own, so its sweep is not starved by a segment that is busy now and then;
a mutex that is released again and again is acquired at last.  Nothing is
assumed of requests, events, crashes, failures or the clock.  `Paging` assumes
that the client goes on asking.

## 4. Proofs

Every safety invariant, every action property and the four refinements that a
passing run checks have a theorem, but for those of the query language.  The
theorems hold for any sets of events, files, workers, jobs, clients, facets and
configuration files, and any bounds, under the named assumptions of the modules (sizes
are natural numbers, sets that are counted are finite, inputs have the types
the Go structures give them).  Where a theorem needs more, its statement says
so: `Punctual`, `Batch >= Cap`.  None of the
properties is inductive; each paragraph says what was missing.

**Segment manager** (`SegmentsProofs`).  `TypeCorrect`, `OneHomeAlways` and
`RecoveryReconcilesAlways` need no assumption on the environment, the others
assume `Punctual`.
That the pointer in `Flush` is open depends on the seal loop staying
away from its window.  `PunctualInv` says why it does: everything the flush
goroutine holds is at or above `horizon` (`FlushInv`), everything the seal loop
holds is below it (`SealInv`), below it each step of a seal leaves a state from
which recovery can go on (`DiskInv`), and the goroutines run only after
recovery (`PhaseInv`).  Each action has a lemma; `PunctualAlways` collects them
and `DurableAlways`, `SealedRowTrueAlways`, `NeverWritesClosedAlways`,
`OpenSegmentIsActiveAlways` and the action properties `SealedImmutableAlways`
(proved of `SealedImmutable`, which no run checks beside the refinement)
and `CatalogBeforeDeleteAlways` follow from it.

* `OneHomeAlways`: an event is in one window at most.  `HomeInv` extends a
  window's home from its path to every file that was ever its, the unlinked one
  that a late flush still writes to and the rows on their way to Parquet
  included, and keeps it apart from what is still to be routed.
* `RecoveryReconcilesAlways`: the end of Recover, whatever was late, failed or
  crashed before.  `ReconcileInv` allows a file to be missing only under a row
  of a window that is over, and nobody works on a segment that was marked lost.
* `QueryableAlways`: until something fails, an acknowledged event can be read
  or is in the segment being sealed.  `RegisteredInv` (no file with events
  without a row once Recover registered them) and `ServedInv` (it is open,
  being sealed, or marked) relate files, map and catalog.
* `SegmentsImplementStore`: the refinement of `EventStore`.  An insert of a
  flush, whole, in part or failing, is Insert, and only the window it writes
  to changes; the rename of an exported file is Seal, and `PunctualInv` says
  that the file holds exactly the rows that were in the segment; dropping an empty
  file, unlinking an exported one and each rule of Recover change the path by
  which rows are reached and never the rows; all else leaves files alone.  That
  a batch shares nothing with another segment is `OneHome` after the step.

**Reads** (`SegmentReadsProofs`).  `QueryMissesOnlySealingAlways`: what a query
misses of what was acknowledged before it began is in a segment that left the
map between its listing and its look at it, or in a lost one.  `ReadInv` says
of each event that is due where it is awaited: in a row still to be visited, in
the answer, or explained as missed; `ManagerKeepsReads` shows that no step of
flush, seal or recovery moves an event from where a listing has promised it.

**Ingest** (`IngestProofs`).  `IngestImplementsQueue` proves the refinement for
any requests, sizes and capacity: the log of the queue is what was handed over,
then the batch, then the buffer; `Append` is Accept or Reject, a drain is Take
(or a stutter), a flush is HandOver, every other step a stutter.  `TypeInv` adds
to the type invariant that a batch is held during a flush only.  `WakeInv`
strengthens `HalfFullWakes` to the time a drain is due, and needs that one drain
empties the buffer (`Batch >= Cap`; `main.go` passes the capacity).  `DrainInv`
follows the events of every request answered before the cancellation from
handler to buffer, batch and flush function; at exit the last drain was empty,
so the flush function has them all (`EarlyAcceptedIsHandedAlways`).

**Life of a segment** (`LifecycleProofs`).  `LastCopyKept` fails to be
inductive because a worker may be about to remove the file on the strength of a row it read long
ago.  `CopyInv` adds what every worker knows: a snapshot with a reference, a
worker about to mark or with a file retrieved, and, with `archive_before_delete`, any
worker on its way to a removal and any row that left `sealed`, stand for a
committed copy; and nothing un-commits a copy.  `CopiesTrueAlways` joins
`LastCopyKeptAlways` and `ReferenceIsCommittedAlways`.  `SealedHereHasCopyAlways` proves,
with every task and any failure or crash, that an archived row has its copy if
the segment was sealed here (`Vouched`; of an imported one it does not hold,
section 3); `ArchivedInv` carries it through the plans of workers that will
archive the row later.

**Archive backends and jobs** (`ArchiveProofs`).  One invariant (`ArchiveInv`,
`InvAlways`) gives `BackendsTrueAlways`, `RehydratedServedAlways`,
`JobsTrueAlways` and the refinement `ImplementsStore`.  Nothing in the bucket
or the script's store is taken back, so what a call saw there is still so
however many steps come between (`CallInv`); what a call knows of the script's
capabilities is so because it holds the mutex (`LockInv`, `KnownInv`), which a
probe of the admin page takes as well (`ProbedShape`, `ProbeStep`); a listing
that has seen a manifest sees its object, whose key is later (`WalkInv`); a row
trails its goroutine (`JobInv`, `RowsInv`); an S3 file has the name under which
a job began its download and no second one (`FileInv`), so a rename never takes
a whole file away unseen (`ServedInv`).  For the refinement, the put of a
manifest, the run of a script that keeps a copy, and a mark are the steps of the store, all others stutter.
`JobsForwardAlways` (a job's row and progress never go back, a segment counts
when its copy is committed and its row marked, a stranded row is left alone)
needs `ForwardInv` (`ForwardAlways`) besides: a segment in the snapshot of a rehydrate job has
left `sealed` for good, the one a job is about to count was marked, and a
stranded job has no goroutine that could still write its row.

**Live tail** (`LiveTailProofs`, `TailInvAlways`).  What a client was sent, what its writer holds, its
queue and the frame waiting for room are one line of frames (`Pipeline`).
`LineInv`: each event in it matches the status before it, and the last status
tells the filter and the cap in force.  `OrderInv`: what was delivered, the
line, the subscription's channel and what is still to be published follow each
other in number.  `StageInv` says what a handler's place means for writer,
subscription and close code, `ReachInv` that the watchdog finds every other
client in the registry, `BatchInv` how far the batch being published has come.
From it follow `SlotsTrueAlways` (the atomic counter is the number of handlers
between admission and release), `DeliveryAlways` (of `Delivery`, which the
refinement replaces in the run: each event delivered,
counted as dropped or skipped once, in order), `StreamsSoundAlways`, and the
action property `StreamStepsAlways` (no send on a closed channel, no event
after a status that excludes it).  `LiveTailImplementsStreams` is the
refinement of `TailStream`.  A step changes the stream of one client at most
(`StreamMaps`), and changes nothing of it, or ends it, unless it moves an event
(`StaysOrEnds`).  The numbers in a client's line and channel are one ascending
sequence above what was delivered and below what is being published (`OrderInv`): hence
an event that enters the channel is an Offer, one that the writer sends is the
least on its way (Deliver), and one that a filter, the rate cap or a full queue takes out leaves a
gap and no second copy (`LosesOne`).

**Facets and configuration** (`FacetsProofs`).  `AppliedWholeAlways`:
`AppliedInv` says which of facets, tokens and configuration are new at each
stage of a reload.  `EnvTokensKeptAlways` rests on lemmas about `Compose`: a
merged configuration names each source of the environment with its tokens,
whatever the layers say, and the live tokens are those of some file merged.  `RegistrySoundAlways` proves that create, update and
delete commute with a rebuild: `AddDefsAppend`, `AddDefsRemove` and
`AddDefsShape` say what appending, removing or altering a row does to the
definitions of `rebuildLocked`, for any lists; `InOrderIs` and `InOrderOnly`
characterise the order of a finite set of positions.  `RegistryInv` adds what
these need: names in the table are distinct, builtin, configuration's and
operator's definitions follow each other (`Ordered`), and the rows a reload
holds are well-formed, however old.

**Paging** (`QueryPagingProofs`, `PagingInvAlways`).  A row that was due, or
was returned, is in a segment that the next page lists again or that was shut
(`RangeInv`, `ListedInv`); while a page is read, a row that is due and not got
is still to be visited, shut, or left out by the last segment read in favour of rows
before it (`ReadInv`), which is where the early stop could lose one; past the
page it comes after the cursor or is excused (`DueInv`).  `PagesSoundAlways`,
`MissesExplainedAlways` and `ResultsHonestAlways` follow, for any pages,
limits and timelines.  `ChainShortAlways` counts: a page that has a next one is
full, and in an order by time its rows are on no other page, so pages times
limit is at most the rows seen, plus one page at the end.  `ChainEndsInTime`
draws the conclusion that the bound `MaxPages`, which is above `MaxEvents`,
never stops such a client: the end that `Paging` sees a chain come to is the
program's and not the bound's.

The induction theorems of the library cannot be instantiated, but one of its
facts serves instead: `<` on the naturals is well-founded, so a nonempty set of
naturals has a least element (`Smallest`, `WFMin`), and a
counterexample can be taken minimal.

**Only model-checked.**

* Liveness: `EventuallySealed`, `EventuallyEvicted`, `EventuallyHanded`,
  `ShutdownEnds`, `JobEnds`, `SlotReleased`, `Shedding`, `ChainEnds`.  Fairness is
  out of the prover's reach.
* `PublisherFree`, a statement of ENABLED.
* `ParserTrue` and `TailCoversQuery`: `QueryLanguage` and `SearchBar` use
  RECURSIVE operators, over trees, which a module with a theorem cannot reach,
  and what they compute would need an induction over data.
* The violation runs, which are counterexamples.

## 5. What is abstracted or left out

* The rows of a failed insert that reach the file are any subset of the group.
* A file call that fails does nothing; a loss of power that loses a completed
  rename or a WAL is not modelled.  The wall clock never goes back.
* The annotation of late events is data and left out; where they are routed is not.
* In `Ingest` a crash loses the buffer, which is by design, so there is none.
* Which segments an age or disk policy selects, the hour retention protects,
  and the dry run are left open in `Lifecycle`: any local segment may be
  selected at any time.  Archive and Retrieve are atomic there, and step by
  step in `Backends`.
* Texts are words compared as the constants say; a number is the word it is
  written as, and core columns are compared with words only, because what a
  number bound to a text column does is the driver's.
* `Manager.Cancel`, `RunForeground` and the garbage collection of old jobs are
  called by nothing in the program, and are left out.
* Metrics, authentication, field extraction, suggestions, the pages of the
  user interface, the load generators, migrations and logging hold no state
  that the modelled decisions depend on, or are pure functions of a request.

## 6. Plan

Done: segments, reads, ingest, life of a segment, archive backends and jobs,
live tail, facets and configuration, paging and the query language; abstract
specifications of ingest (`IngestQueue`), segments (`EventStore`), archive
(`ArchiveStore`) and live tail (`TailStream`), each with its refinement proved;
theorems for every safety and action property but those of the query language.

What could follow:

1. An abstract specification of the registry (a set of names that the
   configuration wins), and the pages after an evicted cursor.
2. Field extraction and its limits; the catalog's migrations.
3. The policies of retention (age, disk), with the protected hour.
