# kinjo, modelled and checked

kinjo is a terminal browser for DNS-SD services: it discovers what the local
network announces, lists it, and hands a chosen service to a command. This
directory models it in TLA+, from the discovery threads to the process around
them, checks the models with TLC on small instances, and proves the most
important properties with TLAPS for every value of the constants. Paths below
are relative to the repository's root; `src/` is its source.

## Inventory

| Component | State | Operations | Hard part |
|---|---|---|---|
| `src/discovery/worker.rs` | a thread, a cancellation token, the outcome slot, the keepalive sender | spawn, outcome, shutdown (cancel, join) | order of publishing and disconnecting; panics; joining a loop that is busy |
| `src/discovery/inbox.rs` | bounded channel, overload reason | `send`, `overload` | the consumer is slower than the producers; several producers |
| `src/discovery/session.rs` | `SessionState`, receiver, producer | `poll`, `ending`, `shutdown`, drop | an ending is reported once, after everything sent before it |
| `src/discovery/mdns.rs` | browser, `LivenessTracker`, probe queue | browse events, probe cycles | probes answer late; services die silently |
| `src/discovery/zeroconf.rs` | one task per service type | start, browse, join | partial starts; tasks end separately; removals name no occurrence |
| `src/discovery/fake.rs` | a finite stream | samples, pauses | completes, unlike the others |
| `src/discovery/entry.rs` | record identity, grouping into hosts, types, logical services | `id`, projections | a row speaks for several occurrences |
| `src/discovery/options.rs`, `txt.rs` | none | validation, first-wins maps | what is refused, and by whom |
| `src/ui/app.rs` | records, rows, selection, modals, filter, layout, session, rules | drain, keys, mouse, refresh, reload | records change under the cursor and under open pickers |
| `src/ui/{filter,layout,viewport}.rs` | filter, panels, windows | pure functions of that state | boundaries; a layout is a frame old |
| `src/ui/keymap.rs` | the bindings | overlay of files, resolving, labels | two meanings for a key, or none |
| `src/ui/render.rs`, `display.rs`, `terminal.rs` | none | a frame; escaping | a frame that is no longer so; escapes |
| `src/ui/{cli,config}.rs`, `config_home.rs` | none | arguments, directories, loading | the same files judged strictly and leniently |
| `src/plumber/config.rs` | the builder of an overlay | add a directory, a file | order of precedence; files change while they are read |
| `src/plumber/{mod,template,exec}.rs` | rules, templates | match, prepare, fork, exec | quoting; several addresses; what a device may inject |
| `src/lib.rs`, `main.rs`, `crash.rs` | the process, its signal handler | start, reload, hand off, end | SIGHUP means two things; nothing may outlive the terminal |

`run_invocation` loads rules and bindings, starts a session and gives all to
the app. The session's worker thread runs an adapter's browse loop, which
publishes events through the inbox; the UI thread drains at most 256 of them a
tick and applies them to its records, from which the lists are recomputed.
`refresh` cancels and joins the old worker before a new session starts; leaving
drops the app, and with it the session, before the process is replaced by the
chosen command. SIGHUP sets a flag that the app polls. Nothing is persisted.

What makes each part correct, and where it could go wrong at a line that a test
hardly reaches, is listed under "hazards" in `PROJECT.json`.

## Modules

| Area | Modules |
|---|---|
| threads | `DiscoveryWorker`, `DiscoveryLifecycle`, and what they implement: `DiscoveryFeed` |
| records | `RecordStore`; `EventStream` over it; `MdnsDiscovery` over that, `ZeroconfDiscovery` over `StatusLine` over that |
| browsing | `Viewport`, `BrowseProjection`, `Screen`, `BrowseModel` |
| keys | `Keymap`, `KeyDispatch` |
| rules | `CommandTemplate`, `RuleEngine`, `FakeNetwork`, `RowDetails`, `RuleSession` |
| process | `Invocation`, `ConfigOverlay`, `CommandTable`, `ProcessShell` |
| shared | `Positions`: sets of positions of a sequence, in their order |
| instances | `MC*` |
| proofs | `*Proofs`; those about `Viewport` are in `KeyDispatchProofs`, the lemmas about sequences in `SequenceProofs` |

### DiscoveryWorker, DiscoveryLifecycle, DiscoveryFeed

The worker thread, the inbox and the three browse loops, per session. Events
are numbers: no loop looks into what it sends. Program counters name the places
where another thread can see a difference: `building` (the runtime), `starting`
(asking the native library), `browsing`/`pausing` (at a `select!`), `returned`,
`published` (outcome in the slot), `closing` (last sender dropped), `exited`.
The zeroconf tasks are `browsers[s][t]`. An overload and the cancellation it
causes are one step: its reason is read only after the loop and all its tasks
are over. `WorkerPanics` unwinds a loop anywhere before it has returned.

DiscoveryLifecycle adds the UI thread: one action per outcome of `poll` in
`drain_discovery` (`DrainEvent`, `DrainIdle`, `DrainEnded` with the whole of
`apply_session_end`), the next tick, `Refresh`/`Replace` (the join is between
them), `Leave`/`HandOff` (`drop(app)`, then exec). `list` holds the events
behind the app's records.

DiscoveryFeed is what discovery promises the person at the list, without
threads or queues: one feed at a time, in order, nothing missing unless the
feed is known to be lossy, and a failed or lossy feed leaves no list.
`ImplementsFeed` says that DiscoveryLifecycle refines it.

### RecordStore, EventStream, StatusLine, MdnsDiscovery, ZeroconfDiscovery

RecordStore is `drain_discovery`'s four kinds of event, `apply_session_end` and
`refresh_services` acting on the ids of the records, the ceiling and the
`record_limit_reached` flag. A record is its
`EntryId`: a registration and an occurrence (interface or endpoint), or the
placeholder `Pending`. EventStream puts the content of events on the way from a
loop to it. StatusLine adds who wrote `App::status` last, with all its writers
while a session listens or fails: the branches of the drain, the recompute that
ends a drain which changed something (`changed`) and may close an open picker,
and, between two drains, keys, reloads and refreshes. Which picker loses its
choice is in BrowseModel; here one may, whenever the records changed. A sample
stream's completion, which speaks over everything and touches no record, is in
DiscoveryLifecycle. MdnsDiscovery is the mdns loop: `LivenessTracker`, the probe queue
and its window, browse events with and without an interface, and a network in
which services come and go with or without a word; `stale` and `missed` are
history variables. ZeroconfDiscovery is the adapter without a tracker. A
refused send ends its stream at once here, while the later sends of other tasks
are in DiscoveryLifecycle.

### BrowseProjection, Viewport, Screen, BrowseModel

BrowseProjection is the way from records to rows: filter, grouping, order,
matching of rules. Viewport has the windows over lists and text, titles,
scrollbars and the hit test. Screen is what a frame says: bars, list, details
and pop-ups, as functions of the app. BrowseModel is the state of `App` over
these and the event loop of `App::run`, one phase after the other: `reload`
(`poll_reload`, its outcome chosen freely), `drain`, `draw`, `input`. Every
change goes through `recompute_visible`, which rebuilds the rows, moves the
cursor and the details scroll with them, and keeps an open picker on its choice
or closes it. Each key, click and turn of the wheel is an action enabled in
`input` while fewer than `MAX_INPUT_EVENTS_PER_TICK` were handled. `drawn` is
the last frame, and `layout` its bounds, forgotten while a redraw must come
before the next input. A redraw for an animation may or may not happen in
`PollReload`. `ran` is a history variable: the argv that this step ran. What a
drain does to the records is any change; RecordStore says which ones there are.

The size of the details is abstracted to how far they scroll (0 or 1), and a
pop-up has as many rows as the list.

### Keymap, KeyDispatch

Keymap has the actions, the default keys, what files lay over them, what makes
a load fail, and the keys a hint spells. KeyDispatch is what keys do to the
mode, the query, the help and the app's life under bindings loaded at startup,
with hints and help as they are drawn, while the terminal is resized. What
commands and filters do to lists is BrowseModel's.

### CommandTemplate, RuleEngine, FakeNetwork, RowDetails, RuleSession

CommandTemplate reads a command symbol by symbol, refuses what `compile`
refuses, and renders. RuleEngine has what an entry keeps of a report (with the
TXT maps), a rule file and its predicates, candidates, targets and their
deduplication, requirements and launching. FakeNetwork has the samples of the
fake backend. RowDetails extends RuleEngine by what a row says of its
occurrences: facts, counts, children, TXT. RuleSession composes them: a writer who knows which arguments he
means writes a command, it is loaded, services come and go, programs are
installed and removed, and the rule is run.

### Invocation, ConfigOverlay, CommandTable, ProcessShell

Invocation says what a command line asks for, which directories are read and
which discovery options are honoured. ConfigOverlay is the builder, one file at
a time, and beside it what a whole reading declares. CommandTable is the table
that `list-commands` prints, with the escaping of its text. ProcessShell is the
process: one step per file it reads or per call another actor can come between,
the delivery of SIGHUP at any moment, and a world that edits files, sends
SIGHUP and takes the terminal away. A terminal is standard input ("alive", and
"gone" after a hangup) or only the controlling terminal that keys are read from
("not_stdin", then "lost"): `terminal_is_alive` sees the first kind. `reading`, `inforce`, `last` and `edited`
are history.

Operators commented "Mutated form" or "Mutant" are deliberately wrong variants
of a definition, used to show that a property can fail.

## Runs

| Run | Question | Bounds |
|---|---|---|
| `lifecycle` | is delivery lossless and ordered across refresh, overload and endings; is the feed implemented; is the process handed off with no worker left; does every join return | any adapter in each of 2 sessions, 2 types, 2 events each, inbox of 1, 1 event a tick |
| `start_may_hang` | is the join bounded if the native library is not | violated |
| `mdns` | do tracker and list agree, are deaths witnessed and noticed, returns noticed; does the list's ceiling never bite when the tracker's is the same | one registration on 3 interfaces, or one without; ceiling 2, threshold 2, 1 probe at a time, 4 pieces of news, inbox of 3 |
| `mdns_mixed` | agreement when one registration comes both ways | violated |
| `zeroconf` | is the list what was reported; does the ceiling hold; is its notice true, and what may replace it | 2 registrations x 3 ids, ceiling 3, 5 pieces of news, inbox of 3 |
| `zeroconf_capped` | can a list be incomplete and not say so | violated |
| `browse` | do rows, frame, cursor, scroll and open pickers follow the records, the rules and the filter; is only what is live and chosen ever run | 4 entries of 3 ids, 2 rule sets, queries of 1 letter, panels of 1 row with details to scroll and of 2 rows without, 2 inputs a tick |
| `browse_click` | does a click select the row under the pointer | violated |
| `keyboard` | does a key mean one thing, does every key a hint names do what it says, can the browse screen be left, is the help drawn full | 11 codes, 3 sets of modifiers, up to 2 files, 3 heights, queries of 1 character |
| `key_trap` | can every accepted configuration be left from every mode | violated |
| `rules` | is a command read as meant, is nothing injected, do the cheap and the full match agree, is a row's text true of all of it | up to 3 arguments of 3 atoms in all, 7 files, 4 reports of which 2 are live, 2 programs |
| `process` | are rules, output and exit status explained by whole readings; is no signal lost; does a hangup of standard input's terminal end the process | 9 command lines, one of them among relative paths, 2 disks, 2 edits, 2 signals, a hangup of either kind of terminal |

The bounds let each interesting thing happen more than once. In `lifecycle`
the drain budget is spent with events left, both sessions fill their inbox, and
a replacement follows a session that overloaded, failed or panicked. An inbox
of one slot cannot reorder; that order is kept in longer ones is what
`DeliveryHolds` and `ImplementsFeedHolds` prove. In `mdns` one probe is active
and one waits, and the ceiling is reached and left. In `browse` one logical
service has two occurrences and another resolves and changes its identity, so
rows appear, go, move and merge, a rule matches with no, one or two targets,
and a reload takes a rule away. In `process` a file is edited before, during
and after a reading, overrides, duplicates and breaks a rule, and directories
are missing or unreadable. Sessions are used one after the other and share
nothing but the UI thread, so two are enough to see one leak into the next.

Every bound is a constant in a guard: `MaxSessions`, `MaxEvents`, `MaxNews`,
`MaxReports`, `MaxQuery`, `MaxAtoms`, `MaxArgs`, `MaxLive`, `MaxEdits`, `MaxSignals`.
`EVENT_CAPACITY` (4096), `MAX_EVENTS_PER_TICK` (256),
`MAX_DISCOVERED_OCCURRENCES` (4096), `MAX_CONCURRENT_PROBES` (32),
`MAX_INPUT_EVENTS_PER_TICK` (64) and `MAX_SERVICE_NAME_LEN` (15) are constants
of the code, given small values. `rules` and `process` may stop: a command is
written to its end, and a process ends.

TLC also evaluates, as assumptions of the instances, that the fake samples show
what their comments say (`SamplesServeTheirPurpose`), that names are accepted
as RFC 6763 has them (`NamesAreWellFormed`), and that options may be given
before or after the subcommand (`PlacementNeverMatters`).

### Fairness

`lifecycle`: weak fairness on the UI thread's drain, tick, and return from a
join, and on each worker's own steps: `event::poll` times out, threads are
scheduled. A loop whose token is cancelled takes its branch because `select!`
picks at random among the ready ones, and a zeroconf task's
`browser.shutdown()` is taken to return. `FairSpec` also assumes that the
native library answers a request to start browsing; `SpecNativeMayHang` does
not, and `start_may_hang` shows what depends on it. `mdns`: the probe timer
ticks, every probe ends (each resolve has a timeout), and the app drains.
`process`: the program runs and a pending signal is delivered. Nothing is ever
assumed of the user, the network, or a browse ending by itself.

## What the checks found

Five statements of the repository are not what the code does; each is a run
that TLC finds violated, and an entry under "findings".

1. The join is bounded only if the native library answers: `mdns.rs` awaits
   `builder.browse()` before its `select!`, so a cancel during start waits.
2. A click is tested against the window around the cursor as it is now. When a
   key of the same burst moved the cursor past the edge of a list taller than
   its panel, that is not the window on the screen, and the click selects
   another row than the one under the pointer.
3. Declaring a nameless occurrence dead removes the whole registration from the
   list; its named occurrences stay tracked and not `removed`, so a successful
   probe does not re-announce them.
4. With zeroconf, occurrences ignored at the ceiling are not reported again,
   and the notice disappears with the first removal: the list then looks
   complete, which ADR 0005 rules out.
5. Loading bindings asks that a quit key exists, not that it works everywhere:
   with `common.quit` and `search.close` unbound, a typed letter opens the
   search and no key leaves it.

Smaller observations, which no run states:

- a reload may read some files before an edit and others after it; the rules it
  installs are those of a reading, not of a moment (the next SIGHUP repairs it);
- an error out of `ratatui::run` returns before the diagnostics of the last
  reload are printed, and failing to write them prevents the hand-off;
- a directory whose `stat` fails is passed over without a word;
- with standard input redirected, keys are read from the controlling terminal
  and `HAD_TERMINAL` is false; when that terminal hangs up, `on_sighup` asks for
  a reload and the process stays (`HangUp` to "lost"). `lib.rs` says "a hangup
  ends the process here" and "A process that never had one cannot be hung up
  on"; `HangupEnds` is therefore about a terminal that was standard input;
- `record_limit_reached` is kept "so a later transient status event cannot hide
  that the visible list is capped" (`app.rs:223`), and no status event does; but
  a picker that the same drain closes, a reload, a launch, a failure and the
  host filter replace the notice while the flag stays, and nothing else shows
  the flag. `CapNoticeIsTrue` says exactly which writers may;
- the comment at `plumber/template.rs:86` allows a placeholder as program name;
  the code below it, ADR 0003 and the tests refuse one, which
  `NothingIsInjected` agrees with;
- two crash reports of one process within a second have one name, though
  `crash.rs:60` says "Collision-proof within a run";
- "press esc to clear search" is shown on an empty list although esc keeps the
  query, and a filtered empty list says so even when the session failed;
- the cursor of the type filter is an index that discovery shifts;
- a click in a burst can leave the cursor past the end of a list that a key of
  the burst shortened; the next recomputation clamps it, and until then there
  is nothing to run.

## Proofs

Each theorem holds for every value of the constants that its module's
assumptions admit; every assumption is also evaluated by TLC in a run.

**DiscoveryLifecycleProofs**: every adapter, any set of service types (finite
or not), any number of sessions and events, every capacity and budget. The
safety properties are not inductive: that a session's ending is explained, say,
needs that the outcome is published exactly between the return of the loop and
the disconnect, and that a cancelled token has a cause. `IInv` names what is
missing: sessions are used in turn and each is joined before the next
(`SessionsInTurn`); a worker's account, its slot and its tasks follow its
program counter (`WorkerInOrder`); whoever cancels has overloaded the session
or stopped polling it (`CancelHasCause`); an ending leaves a drained session
(`EndingApplied`); a join leaves room for the replacement (`JoinInBounds`).
Only the session the app owns has a worker that can move (`OnlyTheCurrentMoves`);
whatever step it takes is one of few shapes (`WorkerStep`), so preservation is
shown once for the shapes (`InvWorker`) and once per action of the app
(`InvApp`). From `Inductive` follow `TypeOK`, `OneProducer`, `HandOffAfterJoin`,
`EndingIsExplained`, `OverloadFailsClosed` and `CancelledEndingUnseen`;
`DeliveryIsLossless` is inductive relative to `IInv`. The refinement
(`ImplementsFeedHolds`) needs all of it, and that what is listed ascends
(`Ascending`): a worker's step is a step of the feed or none (`WorkerRefines`),
and so is each action of the app (`AppRefines`).

**RecordStoreProofs**: ceiling and flag for any registrations,
occurrences and ceiling, from how an upsert changes the cardinality
(`WithCardinality`). It also has the lemmas on streams that both adapters need:
what the list will be once the queue is drained changes by the event sent and
by nothing a drain does, as long as no event was refused at the ceiling.

**AdapterProofs** uses them: the drained list is what was reported
(`ZeroconfInv`), or what the tracker believes in (`MdnsInv`, with `TrackerInv`:
probes in flight are of tracked keys and their failures are counted since the
last word of the service, which is also why a death is witnessed). That the
notice of the ceiling is true (`CapNoticeIsTrueHolds`) needs of every writer of
the status line what it leaves of the flag (`SaidOfFlag` for the events of a
drain, `WritersKeep` for all). The agreement with the tracker
assumes a `Pure` network, which names its interfaces throughout or not at all;
the other networks are the finding `mdns_mixed`. Both adapters implement
RecordStore, in every network, so its theorems hold of them. That the list's
ceiling is never reached before the tracker's (`CapNeverReachedHolds`) depends
on what is in flight, which no bound on the records alone says: `Foreseen`
gives the list after each queued event, each within the ceiling and the last
one equal to what the tracker believes in (`CapInv`).

**BrowseProofs**: any entries, rules, letters and terminals. Lists, counts and
types are current in every state; the cursor and the place in the details
belong to a row, since every step has one of three shapes: the rows are
recomputed under the cursor (`Follow`), stay (`Stay`), or the tab is another
and starts at its top (`OtherTab`). What the last frame said is so whenever the
app waits (`FrameInv`: what is drawn is what the app would draw, or it is
dirty), its counts are the lengths of the lists, and the cursor is in the
window (`PlaceInv`). Reconciling keeps the pending choice of an open picker or
closes it (`ReconciledActions`, which gives `NeverRetargets`), but what the
picker lists is only what its anchor stands for because of what the picker and
the cursor have in common: `LiveInv` says that an open picker is of the row
under the cursor, lists the matches that row has now, and points at one of
them, or at a target or service of one. With the lists current, what is listed
is of entries that the filter shows (`ShownEntries`). From this follow
`PickersAreLive`, that every argv run is a current candidate's
(`RunsOnlyTheLive`), and that a picker closes only when its choice is gone
(`PickerOutlivesTheRest`). Assumed: entries and row ids are given in an order
without repetition, and every entry has its rows in it (`compare_occurrences`
and the order of labels end in the identity); the names in a rule set are
distinct, as the overlay keeps them.

**KeyDispatchProofs**: for all files, codes and modifiers, no event stands for
two actions, every key a hint names does what the hint says in its mode, the
browse screen names a key that quits, the help is drawn full, and a press that
scrolls further moves what is shown. `KeyInv` says that every action is bound to
a list of keys and that the bindings in force passed both checks of loading; a
key that a hint spells is then bound to one of its actions, and resolves to it
because no other action active in the mode has that key. Assumed is only that
files are lists of names. The module also has Viewport: windows show the
selection and are full at every size, zero included; scrollbars appear exactly
when something is hidden; a click never selects what is not drawn.

**RuleSessionProofs**: for all words, fields, files, programs and reports. The
reader is at every symbol where the writer is (`ReadInv`, which says what the
reader holds in terms of the arguments meant so far), so a command is read as
meant or refused. `SessionInv` adds that the services looked at are reports,
that the one rule in force is what the writer meant, and that what was launched
was so. The candidates of an entry are just the variants of it that fit the
rule (`CandidatesFit`), and its targets are one of them for each command
(`TargetsFit`); this is `MatchingAgrees`, and it makes every field of a target
resolve. The first symbol of a rendered argument is then the first of its first
atom (`RenderedToken`); a value that could begin an option is text, and
compiling keeps text from the front of an argument unless the author terminated
the options or opted out (`NothingIsInjected`). For `RowsTellTheTruth`, a row
holds the entries of one identity, which is as much as their facts
(`IdentityIsTheFacts`); merging one more occurrence leaves each TXT key shared
exactly when all so far agree on it (`MergeOneMore`), observing one more pair
keeps the first value of each key (`ObserveOneMore`), and the counts of the
children are those of a partition (`SumOfParts`). `EngineAssumption` is how the
fields and the lower case of keys are given; `ReportAssumption` is that reports
are texts and that addresses and ports, displayed from numbers, do not look
like options.

**ProcessProofs**: any directories, files, command lines, edits and signals.
`PInv` says at every step of a reading what the builder holds in terms of the
files read so far (`Faithful`), which files are still to be read (`Progress`),
and that until the next edit, what was read so far and what is left to read
make up what the disk holds (`Current`), which no one may claim before a handler
for the signal is there (`Served`). The declarative `Overlay` and `Errors` of a whole reading are
shown to be what adding one file after the other leaves. From it follow
`OutcomeIsExplained` and `SignalsAreHonoured`. `ProcessAssumption` gives the
types of what is configured, and that no reading looks like a status.

**SequenceProofs** has what these need of `Positions`, of sequences that are
joined and flattened, of the least of a set of numbers and of sums over a
partition. Induction over data is done without an induction theorem: a claim
about all the prefixes of a sequence has a least counterexample (`Least`), the
prefix before it is none, and one step contradicts it. That a recursive
function exists is shown in the same way (`ObservedExists`, `MergingExists`).
The definitions are therefore in terms of positions (`ItemsAt`, `InOrder`) and
recursive functions, where the library's `SelectSeq` and folds over operators
could not be expanded.

Only model-checked is everything about liveness, which the prover does not
reach: `OverloadIsReported`, `EndingIsNoticed`, `ShutdownReturns`,
`SilentDeathIsNoticed`, `ReturnIsNoticed` and `HangupEnds`. Every invariant and
every action property that a passing run checks is also a theorem.

## Not modelled

- The native DNS-SD libraries, clap, the TOML reader, regular expressions, the
  layout and widget library: only what the code sees of them. Whether a regular
  expression accepts a text is part of the data.
- Colours, words, columns, ages and the phases of animations; the words of the
  status line; the wording of a crash report, and that the library's panic hook
  would restore the terminal while the UI of a panicked worker goes on.
- How a terminal is divided into panels: heights are chosen freely. The sizes
  of pop-ups share the list's height in Screen, and Viewport covers them.
- The exit status of a forked command, which goes to the status line only.
- That `ratatui::run` panics when there is no terminal is an assumption of
  ProcessShell about its surroundings.
- Reload is a free choice in BrowseModel and is modelled in ProcessShell; the
  two are not composed, nor are the records' adapters with the browse state:
  each takes any behaviour of the other's interface.
- Text is symbols or classes of characters; DNS-SD escapes stand for one symbol
  each, and characters are counted, not compared, where columns matter.
