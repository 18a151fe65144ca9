# natscli in TLA+

A verification project for `nats`, the command line of the NATS messaging
system. The program is a collection of commands. Some run goroutines, callbacks
and timers against each other; others look at a server or a file, ask the user,
and change what they looked at with a request of its own. Both kinds are
modelled: TLC checks them on small instances, and TLAPS proves the most
important properties of the benchmarks, of the backup, of `nats sub` and of
`pub` and `req` for every size. Paths are relative to the repository.

## 1. The system

| part | where | state it keeps | what is hard |
|---|---|---|---|
| `nats bench` | `cli/bench_command.go`, `internal/bench` | two wait groups, a trigger, a channel of outcomes, a channel of samples, one goroutine and one message handler per client | order of reports, failures in every phase, uneven shares, handlers that outlive their client |
| `nats sub` | `cli/sub_command.go` | message counters under `msgMu`, the list of subscriptions, map of requests, recorder, context, timer | several handlers against one limit, drops, timer reset against timer fired, recorder against handlers at exit |
| `nats pub`, `nats req` | `cli/pub_command.go`, `cli/req_command.go`, `internal/util/publisher.go` | a pipe from stdin, a pending atomic batch, the client's buffer | callback goroutine against the signal, disconnections, errors that are only logged |
| `nats reply`, `nats latency`, `nats rtt` | their files in `cli/` | counters in a callback, a wait group | a limit that counts something else than the library's, lost messages |
| backup and restore | `cli/backup_command.go` | idle timer, lists of errors | timer against progress, one stream of many failing |
| streams, consumers, cluster | `cli/stream_command.go`, `cli/consumer_command.go`, `cli/server_cluster_command.go` | what was read, what the user agreed to; the server's | look, ask, then act on a server that moves on; waits without an end; edits that write back all they read |
| key-value, objects, counters | `cli/kv_command.go`, `cli/object_command.go`, `cli/counter_command.go` | revisions that were read | stale revisions, files that are overwritten |
| contexts | `cli/context_command.go`, `internal/util/config.go` | files of the selected and previous context | several files changed one after the other |
| operators, accounts, users | `cli/auth_*.go`, `internal/auth` | a copy of signed documents, committed as a whole | names that silently mean another, updates lost to another run |
| server requests, reports | `cli/server_report_command.go`, `cli/server_ping_command.go` | pages merged by server, a counter | connections that come and go between pages, answers while counting |
| watches, top | `cli/server_watch_*.go`, `top/` | a map under a mutex, a sampling goroutine | first answers against updates, samples and screens out of order |
| checks and exporter | `cli/server_stream_check.go`, `cli/server_consumer_check.go`, `internal/exporter` | answers of servers, one kept connection per check | concurrent scrapes, replicas seen at different times |
| services, traces, events, traffic | their files in `cli/` | collection windows | endless loops |
| framework, help, plugins, schemas, generators, tables, plots | the rest | none | nothing a model checker reaches |

The commands do not talk to one another. What they share is the client library
(connections, subscriptions, consumers), which is modelled from how this code
uses it, and the process: a command that returns ends everything it started.
Commands meet on the server and in local files, which two runs of the program
may change at the same time; `Administration` has two of them side by side. In
`bench`, the main goroutine talks to its clients through two wait groups and
two channels, and a client to its message handler through a third channel. In
`sub`, the handlers talk to the main goroutine by cancelling its context.

### What makes them correct

* `bench`: the run ends; it prints statistics only of a run in which no client
  failed, and then of all clients; nothing is published before every client is
  ready; each message is published once; a sample spans exactly the messages
  asked for; reporting an outcome never blocks or panics.
* `sub`: the printed sequence is the number of messages received plus the
  number dropped; no more than `--count` messages are handled; a backup is
  either complete and committed or the command fails; the command ends when its
  timer, its limit or the end of the stream says so.
* `pub`, `req`: what was read is published or an error is returned.
* `backup`: an account backup succeeds only if each stream's did; a snapshot
  that has arrived is not reported as timed out.
* administration: what cannot be undone is done after the user agreed to that
  very thing, or forced it by its name; a field nobody named keeps its value; a
  command ends, and if it ends well it has done what it is for.
* reports: what is shown is what the servers said, each thing once, and newer
  before older.

## 2. The modules

| module | what it is |
|---|---|
| `BenchRun` | the abstract specification of one `nats bench` run |
| `BenchHarness` | the main goroutine of every bench action and the steps by which clients touch what they share with it; `msgsPerClient` and `offset` |
| `BenchPublish` | harness + publishing clients (`pub`, `service request`, `js pub`, `kv put`) |
| `BenchJSPublish` | `jsPublisher`: what one client of `bench js pub` does in its publishing turns |
| `BenchConsume` | harness + receiving clients, all ten kinds |
| `Subscribe` | `nats sub` |
| `Backup`, `Restore` | `nats backup account` with the directory it writes, and `nats backup restore account` on that directory |
| `BackupRestore` | one after the other |
| `NumberProofs` | lemmas about numbers, finite sets, sums and shares |
| `BenchPublishProofs` | theorems about `BenchPublish` |
| `BenchConsumeProofs` | theorems about `BenchConsume` |
| `BenchJSPublishProofs` | theorems about `BenchJSPublish` |
| `BackupRestoreProofs` | theorems about `BackupRestore` |
| `SubscribeProofs` | theorems about `Subscribe` |
| `ClientsProofs` | theorems about `Clients` |
| `AdministrationProofs` | theorems about `Administration` |
| `Publisher` | `pub` and `req`: the reader of stdin, the callback goroutine, the main goroutine, the connection |
| `Replier`, `Latency` | `reply`; the two sides of `latency` |
| `Messaging` | publisher or latency run, repliers, and the server between them |
| `Top`, `Watch`, `Ping`, `Connections` | `nats top`; the four `server watch` commands; `server ping`; `server report connections` |
| `Exporter`, `ReplicaCheck` | the Prometheus exporter; `server stream-check` and `consumer-check` |
| `ServiceServer`, `DirectGets` | `bench service serve`; the loop of `sub --direct` |
| `Clients` | one of the commands above and what it talks to |
| `AdminServer` | streams, buckets, contexts, accounts and files as assets with parts and revisions (external) |
| `AdminCommand` | how a command runs: a plan of steps, what it saw, what was agreed, what it did |
| `StreamCommands`, `ClusterCommands`, `ConsumerCommands`, `BucketCommands` | the commands on the server |
| `LocalCommands`, `FileCommands` | contexts, operators, accounts and users; the commands that write files |
| `Administration` | several of these commands, the server's elections and moves, interrupts |
| `MC*` | the models TLC runs, one `.cfg` each per question |

`BenchPublish` and `BenchConsume` extend `BenchHarness`;
`BenchPublish` implements `BenchRun` under the refinement mapping `Run`.

An operator whose comment begins with "Mutant" is not part of any
specification. It is another definition with a plausible bug, which shows that
a property can fail: a missing `return`, a forgotten `Done()`, a check left out.

### BenchHarness

The variables are the locals of an action: `startwg` and `donewg` are the
counters of the wait groups, `triggered` says whether `trigger` is closed,
`errChan` is the buffered channel with the client each value came from,
`samples` the content of `bm.SamplesChannel`, `firstErr` is `err2`. `client[c]`
is where the goroutine of client `c` stands. One action per call that another
goroutine can observe: `StartClient` (`startwg.Add`, `donewg.Add`, `go`),
`ClientsStarted` (`startwg.Wait`, `close(trigger)`), `ClientsDone`
(`donewg.Wait`), `Collect` (one turn of the loop over `errChan`), `Finish`. For
clients: `StartDone`, `DoneDone` (which panics below zero), `SendOutcome`
(which blocks on a full channel), `AddSample`. `ConnectFails` also stands for
everything that may fail before the first client is started: arguments,
creating or purging the stream, bucket or consumer.

Receiving actions have no trigger. `triggered` is set for them too and nothing
reads it.

### BenchPublish

A client goes through `born` (its `startwg.Done()`), `armed` (`<-trigger`),
`publish`, `flush`, `sample`, `done`, `report`, `finished`; a failing publish or
flush takes it through `broken`, `abandon`, `failed`. The order in which the
code reports is kept: `errChan <- err` before `donewg.Done()` after a failure,
`donewg.Done()` before `errChan <- nil` after a success. The four publishing
loops differ in what a turn does on the server and not in what it does to the
run, so `Publish` and `PublishFails` stand for a turn of each of them.

### BenchJSPublish

One client of `bench js pub`, from its trigger to its flush, in the four ways it
may publish. `i` and `j` are the loop variables of the code, `latencies` how much
of its slice is filled, `commit` whether the message that is reused for the
whole run carries `Nats-Batch-Commit`. `status` and `copies` say of each message
what became of it and how often the stream holds it; for `async` the server
stores and answers in actions of its own (`StoreAsync`, `AnswerAsync`), in any
order and also after the client has given up. `staged` is the batch a server
holds open for `atomic`: one commit stores it, a message out of sequence throws
it away, and the server may drop it at any time (`ServerDrops`). The fast
publisher's batching is the library's; it is modelled by what `jsPublisher`
relies on, an acknowledgement number that never decreases and never passes the
messages handed in. Nothing in the code refuses a `--batch` that is zero or
negative; the model assumes a positive one (`JSPublishAssumption`).

The comment on `attempts` (`cli/bench_command.go:2096`) speaks of retries after
failed acknowledgements. There are none: the first one returns, and the model
has no retry.

### BenchConsume

`kind` is the benchmark type. A kind is described by the sets it belongs to:
which clients get all messages and which a share (`Broadcast`), who calls the
handler (`Pushed`: the client library; `Pulled`: the client's own fetch loop;
`Getting`: there is none), whether the clock starts before the first message
(`Early`), whether the handler acknowledges (`Acking`), and what stops delivery.
A time stamp is modelled by the number of messages received when it was taken,
which is what the properties need to know of it. The handler is a process of
its own, `handler[c]`, and keeps running when its client is done.

Whether a progress bar is displayed (`progressBar`, the default,
`cli/bench_command.go:140`) decides what a failing fetch does: without it the
error ends the client (`FetchFails`), with it the error is swallowed and the
fetch is repeated (`cli/bench_command.go:2770`, `:3295`). Repeated fetches that
succeed in the end change nothing; those that never do are a state of the client,
`refused`, which it does not leave (`FetchRefused`).

The server delivers a message to a handler at most once (no redelivery) and
`AutoUnsubscribe` and `StopAfter` take effect at once. `nacked` is a history
variable.

### Subscribe

`main` is where `subscribe()` stands, `sub[s]` the life of a subscription
(`none`, `open` but not yet in the list, `listed`, `stopped` by the handler,
`closed` with the connection), `queue[l]` what the library holds for a handler
goroutine and `hand[l]` the message that goroutine has taken and is waiting for
`msgMu` with. A handler is one step, since it holds `msgMu` from its first line
to its last; the messages in other hands wait. `Handle` is the union of the
three handlers of the code (`createMsgHandler`, `createJetStreamMsgHandler`,
`createMatchHandler`): the mode decides which lines of them apply.
`shown` and `recorded` are the messages printed and written to the recorder.

### Backup, Restore and BackupRestore

`disk[s]` is what the subdirectory of stream `s` holds: nothing, files without a
`backup.json`, a backup that lacks its end, a whole one.

`Backup` is `accountAction` and, within it, `backupStream` for one stream after
the other. `cmd` is where the command stands, `todo`, `cur`, `good`, `errs` and
`warns` are its loop and its lists. `timer` is the idle timer of each stream:
`armed`, `due` when its time has passed, `off` when its function has started.
That function is two steps, `Fire` (`cancel()`) and `SayTimedOut`
(`timedOut = true`), because nothing orders the second before `backupStream`
reads the variable (`LookAtTimedOut`). Timers of finished streams go on, as in
the code. `sent` and `received` are the chunks the library has and those its
callback knows of (`Notify` resets the timer). That `SnapshotToDirectory`
returns without an error when its context is cancelled is what the code relies
on by reading `timedOut` after a nil error; the model also lets it return one.

`Restore` is `restoreAccountAction` with `restoreStream`: `existing` are the names
fetched at the start, `left` the directories still to be restored, `account` what
the account holds. Another client may create streams at any time (`Create`).
Directories carry the names of their streams, as `nats backup account` makes
them; the server refuses to restore a stream it has. The directories are checked for a
`backup.json` only, so that a snapshot that lost its end is restored as it is.

A backup that has arrived in full but whose timer fires before `timedOut` is
read is reported as a failure; the model has this and no property forbids it.

### Publisher, Replier, Latency and Messaging

The goroutines of `Publisher.Run` are `CopyLine` (stdin into the pipe), the
callback with its place in `pc`, and main with `RunInterrupted` and
`RunCompleted`, the two branches of its `select`. `ReadAll` and `ReadLine` are
`ReadStdin` in its two modes. The kinds of a job are the callbacks of
`publishAction` and `requestAction`. A message is the chunk and copy it comes
from and whether it carries its headers (`dressed`). While the connection is
down the client keeps messages in `outbox`; `Lost` is what a closing connection
takes with it. After a signal main closes the pipe (`hung`) and returns while
the callback goes on, as in the code, until the connection is closed.

`Replier` counts deliveries for `AutoUnsubscribe` (`rgot`) apart from replies,
and `Latency` has a wait group, a message that may be `lost`, and a server side
and a client side connection. `Messaging` routes requests to the repliers of a
queue group and to latency's subscription.

### Screens, reports and checks

Each of `Top`, `Watch`, `Ping`, `Connections`, `Exporter`, `ReplicaCheck`,
`ServiceServer` and `DirectGets` keeps its state in one record, whose fields
are the locals and fields of the code with the same names where there are any.
`Watch` has two queues, as the code has two subscriptions: the answers to the
first request and the updates. `Ping` counts with unsigned integers of a small
`Word`. `Connections` models the pages of each server, sets of connections as
the report sorts them in the end, with the code's offset, which advances by one
more than a page holds. `Exporter` has a mutex per check
and scrapes at any time. `ReplicaCheck` first lets replicas get ahead of each
other, then gathers what each says at its own time, and computes the rows of
both checks, also the ones that dereference nil. `ServiceServer` has the wait
groups and the channel of the other benchmarks, but its clients end only by
failing replies, each of which reports and calls `Done()`. `DirectGets` pages
through a stream that changes.

### Administration

A command line is a record: operation, asset, item, whether `--force` is
given, whether there is a terminal, which fields its flags set. Its handler is
the sequence of steps it takes (`StreamHandlers` and so on), and each step is an
action that looks at what the code looks at, ends with an error, says no, or
goes on. Between any two steps of one command the other one, an election or a
move may come. A request may be refused or lost, and its answer may be lost
after it was done (`Request`). `seen` is what was loaded, `was` and `new` a
configuration before and after the edit, `agreed` what the user said yes to and
`did` what was requested; the last two are histories. Configurations have three
fields or so, enough to tell a field that was named from one that was not; each
value is that of the start, a default, or the name of the process that set it.
`file` is the flag `--config` of the edits of streams and consumers: the file alone is
then the configuration, and what it does not set is a default (`OfFile`,
`cli/stream_command.go:1787`, `cli/consumer_command.go:1012`). For a consumer the
file says its name too: `to` is the consumer it names, which is the one that changes
(`Target`), while the one on the command line was shown and asked about.
Contexts, operators, accounts and users are read, changed as a copy and written
back as a whole, so that two runs may lose each other's changes, as they do.

What a run may start with is `Fits`: a command for streams is not given an
account, a key that the command line insists on is there (`cli/kv_command.go:151`),
a file is written with what the command itself made. `agreed` notes what a prompt
was about together with the revision that was read before it: `kv revert` updates
the revision it saw first (`cli/kv_command.go:470`), so that a write while the
user thinks makes it fail, and `ConsentComesFirst` says that. `picked` notes what
the user chose from a list: `--force` does not keep the removal of a key or user
from asking which one is meant (`PickKey`, `PickUser`), so a forced command may
remove what its command line did not name, but never what nobody chose.

## 3. The runs

| run | model | what it shows |
|---|---|---|
| `bench_publish` | 3 clients, 4 messages | all properties of `BenchPublish`, and the refinement of `BenchRun` |
| `bench_js_publish` | one client, 7 messages in batches of 3, all four types | indices, batches stored whole and once, one batch at a time, the publisher returns |
| `bench_consume` | all kinds, 2 clients, 3 messages asked for, 4 stored, batches of 2, with and without progress bar, acknowledgements may fail, 212,000 states | samples span the run, reporting never blocks while acknowledgements succeed, results are complete, the run ends |
| `bench_ack_failure` | `consume`, acknowledgements may fail | **violation**: a failed acknowledgement makes `donewg` negative, the process panics |
| `bench_idle_fetch` | `fetch`, 3 clients, 2 messages | **violation**: the client with an empty share waits for ever |
| `backup_restore` | 2 streams of 2 chunks, all options | success means a whole backup, all streams are tried, a restore is refused before it changes anything, what the round trip brings back |
| `backup_health` | the same | **violation**: the idle timer cancels a snapshot whose health check is running |
| `subscribe` | 2 subjects, 3 messages, room for 1, limit 1, all options | counts, limit, backup, termination |
| `clients` | each command of `Clients`, 374,000 states | publishing in order, batches whole or not at all, success means everything was sent, reports are true, commands progress, screens do not go back |
| `clients_atomic` | `pub --atomic` with headers | **violation**: the last message of a batch is stored without its headers |
| `administration` | every administrative command beside one that gets in its way, 72,000 states | consent but for the commands named below, edits that write only what was asked or is named as reset, commands that end |
| `subscribe_end` | 1 subject, 2 messages, `--terminate-at-end` | **violation**: an ignored last message hides the end of the stream |

`ReportsAreTrue` is a conjunction with one named part per module (`ScreenFollows`,
`WatchCatchesUp`, `PingIsTrue`, `ConnectionsOnce`, `OneConnectionEach`,
`NoneWronglyInSync`, `NoneWronglyUnsynced`, `ServesUntilAllFail`, `DirectOnce`),
each stated in the module it is about, and so is `CommandsProgress`.

Deadlock is not checked: every one of these programs ends, and the runs that
could hang are covered by the termination properties.

**Bounds.** Three clients and four messages give shares of 2, 1 and 1, so that
one client is still publishing when another reports, and every order of three
outcomes in `errChan` occurs. Two consuming clients suffice for one taking what
the other needs; one message more than asked for lets the handler run past the
last one, with `ch` (capacity 2, as in the code) full. Two streams let the timer of one fire
while the other is backed up, and two chunks let a snapshot stall in its middle.
Seven messages in batches of three give two full batches and a short one. In `Subscribe`, one
message is in a hand, one in the queue and one arrives: the smallest traffic in
which a drop, an overshoot of the limit and a reply before its request occur
together. In `Clients`, two lines of stdin, two copies of a message and one
disconnection let a message be read, written and lost while main returns; two
sources with an update each let an answer overtake one; three servers behind a
ping that expects from none to four of them, with a word of eight values, reach
the underflow; pages of one connection and three connections reach the third
page; two scrapes meet at each of four checks; two service clients with two
failures each reach the early end, the panic and the hang; a stream of two
messages, with or without gaps, grows by two and shrinks. In `Administration`,
two commands at a time on three servers are the least for a look of one, a
change by the other and the act of the first; `MCCommandLines` pairs every
command with those that change what it works on. A third process would add
another change in between, which elections and moves already are. `NumMsg`, `BatchSize`, `NumStored` and `Buffer` bound the first group; `MaxLines`,
`MaxDrops`, `Seconds`, `MaxSamples`, `MaxOrders`, `MaxResizes`, `MaxUpdates`,
`MaxAges`, `MaxConns`, `MaxChurn`, `MaxFails`, `MaxApplied`, `MaxFailures` and
`MaxSeq` bound `Clients`, and `History` the revisions in `Administration`. There is
no state constraint.

**Fairness.** Weak fairness for the main goroutine, for each client and for
each handler: the Go scheduler runs what can run, and the library's calls
return because they carry timeouts. In `BenchJSPublish` and `Backup` only for the
command and its timers, not for the server or the user. In
`BenchConsume` also for the delivery of
messages the server has: a lost message makes these commands wait, and they say
so. In `Subscribe` for the timer, which fires as soon as the finite traffic no
longer resets it; not for arrivals, replies or the user's interrupt. In `Clients` for the
main goroutine and its timers (`MainRuns`), the goroutine beside it
(`OtherRuns`), the server's delivery and each replier; not for stdin, signals,
the keyboard, new messages or failures. In `Administration` for each process
and for the server's elections and moves; a user who is asked answers, and
nobody interrupts.

**What is excused.** `CommandsProgress` does not ask a latency run to end that
lost a message or has none to send (`cli/latency_command.go:67`, `:176`), a replier
to reach `--count` after a reply that failed, or a service server whose client
failed twice. `ConnectionsOnce` lets the report leave out one connection per
page, which the offset skips (`cli/server_report_command.go:1589`). `PingIsTrue`
excuses the difference when more servers answer than were expected.
`CommandsEnd` names the two waits without an end (`Stuck`): that for a consumer's
new leader looks at a timer that fires once (`cli/consumer_command.go:931`), that
for the end of a move never gives up (`cli/stream_command.go:1187`).
`WritesOnlyWhatWasAsked` names the fields the code resets unasked (`Resets`), among
them all that a file leaves out of which a stream or consumer is edited; and as a
field may always have the value it had at first, it does not notice a change that
another command overwrites with what it had read before. `ConsentComesFirst` names
the two commands that remove without a question (`NeverAsks`) and the consumer
that a file names (`FileNames`), and asks for the warning about a key-value bucket
only of the commands that give one (`WarnsOfBuckets`: the edit, the purge and the
removal of messages; `stream rm` and `stream seal` do not). `RoundTrip` names the
streams whose timer had cancelled the snapshot and not said so when `backupStream`
looked (`unseen`): they are restored without their end.

`BenchConsume!Terminates` excuses a run in which an acknowledgement failed:
such a run either panics (see the violation) or stops with its error, or, for
the kinds without further messages, waits for one. It excuses a fetching run with
a progress bar, too, in which a client's fetches are refused for good, since the
code then fetches for ever.

**The setup race of `sub`.** `LimitHolds` and `Quits` speak of a limit reached
with every subscription in the list. A handler that reaches the limit while
`defaultSubscribe` is still subscribing unsubscribes only what is listed; later
subscriptions go on, and with `--match-replies` the test `received == limit` can
then never hold again.

## 4. Proofs

TLAPS proves the theorems below for every value of the constants that the named
assumptions allow; TLC evaluates those assumptions on the runs. Every theorem
rests on an inductive invariant, `IInv` (in `ClientsProofs` a conjunction,
`AllInv`), which TLC checked on small instances. Seven modules hold theorems about one specification each;
`NumberProofs` holds what they share.

### Sums and counting: NumberProofs

The induction theorems of the library take an operator as a parameter, which
the provers cannot instantiate. `NumberProofs` goes around that: a family of
subsets of a finite set that is not empty has a least member (`LeastSubset`,
from the well-foundedness of strict inclusion), which is an induction over
numbers (`NumberInduction`) and over the subsets of a finite set
(`SubsetInduction`) where what is proved is membership in a set. From it follow
the laws of sums over finite sets that the models write as `MapThenSumSet`: a sum
takes one value out (`SumTakes`), changes by what one value changes by
(`SumChanges`) and is monotone (`SumsCompare`); and division with remainder.

It ends with shares of a number: that they fit one behind the other
(`SharesFit`) and add up (`SharesAddUp`), which both benchmarks need.

### BenchPublishProofs

Assumed: `SizesAssumption` (at least one client and one message; `Clamp` is a
Boolean).

The lemmas before the theorems show how one client moving from one place to
another changes the number of clients at a set of places (`ClientMoves`) and what
`Offset` computes for every client (`OffsetRecursion`, `OffsetIsFirst`).

* `TypeCorrect`: `Spec => []TypeOK`;
* `NeverBlocks`, `BarrierHolds`: `ReportingNeverBlocks` and `TriggerBarrier`;
* `NumbersAreUnique`: `EveryMessageOnce`, from the sums above;
* `ResultsAreComplete`: results mean that every client has finished with a
  sample;
* `EveryClientPublishes`: with the clamp, no share is empty;
* `RunIsImplemented`: `Spec => Run!Spec`.

None of the properties is inductive. The invariant behind them, `IInv`, ties
the counters to the clients' places: `startwg` is the number of clients born
and not yet armed, `donewg` the number that have not taken their `Done()`, and
the length of `errChan` plus `collected` the number that have sent. From these
follows that there is room whenever somebody is about to send, that a counter
is positive whenever it is lowered, and that an empty `donewg` means nobody is
at work. It also says that `firstErr` is set when a failing outcome has been
collected, and that such an outcome is in `errChan` otherwise, which the
refinement needs to tell results from errors.

### BenchConsumeProofs

Assumed: `SizesAssumption` and the assumption of `BenchConsume` on its kinds.

* `TypeCorrect`, `NeverBlocks`, `ResultsHoldAll`: `TypeOK`,
  `ReportingNeverBlocks`, `ResultsAreComplete`;
* `MeasurementsSpanTheRun`: `MeasuresTheRun`.

`IInv` is the accounting above, extended by what a failing acknowledgement does
to it: its handler may send an outcome and lower `donewg` a second time, so that
the equations hold only up to those. `ErrorsComeAhead` says that as long as such
an error is not collected it is in `errChan` ahead of every nil outcome that
could hide it, which is why results never hide one. `Follows` goes with one
client from its first message to its sample: the stamps it has taken, the
messages it has received and where its handler and its goroutine are determine
its interval.

This proof found the type invariant wrong: a client that fetches may be given a
share greater than what is stored, and `received` and `interval` were bounded by
the messages stored. No instance that TLC checked has such shares together with
the messages to fill them. `TypeOK` now has natural numbers there, and says
that a client's channel never holds more than two values.

### BenchJSPublishProofs

Assumed: `JSPublishAssumption` (at least one message, a positive batch size).

* `TypeCorrect`: `Spec => []TypeOK`;
* `SliceIsLongEnough`: no latency is written past the end of the slice, and a
  publisher that succeeds has one for every batch;
* `MessagesStoredOnce`: nothing is stored twice, success means all is stored;
* `BatchesStoredWhole`: `BatchesAreAtomic`;
* `BatchesFollowEachOther`: `OneBatchAtATime`.

The invariant says how far the count of latencies is behind the messages: equal
for `sync`, at most the acknowledgement seen for `fast`, and a whole number of
batches for the others until the last one, which makes `Batches` the right
length (lemma `NextBatch`, about division rounded up). For the stream it says,
type by type, that everything before `i` is stored and acknowledged, that
nothing from `i + j` on was sent, and that the batch the server holds open is the
beginning of the current one, in order.

### BackupRestoreProofs

Assumed: `BackupAssumption` (a snapshot has a chunk; the name for no stream is
not a stream's). For every set of streams:

* `TypeCorrect`: `Spec => []TypeOK`;
* `SuccessHoldsAll`: success means that every listed stream is there in full, in
  memory, or was cut by a timer just about to say so;
* `AllAreTried`: every listed stream is accounted for exactly once;
* `RestoreHoldsAll`, `RestoreChecksFirst`: `RestoreIsComplete` and
  `NothingRestoredInVain`;
* `RoundTripHolds`: what a successful restore of a successful backup brings back.
  Nothing that was not listed; of each stream that was listed the whole, unless
  it is in memory, was warned of and is left out, or its timer was overtaken: then
  it comes back without its end, and neither command says so.

`RestoreChecksFirst` says no more than the check it is about: nothing is restored
while a directory has no `backup.json` or its stream existed when the names were
fetched. A cut backup has its `backup.json` and passes.

Its invariant has three parts. `Accounting` says that `todo`, the current stream
and the three lists partition what was listed. `Holdings` says that a stream
whose context is cancelled is in `firing` or in `timedOut`, which is why a cut
snapshot is noticed unless its timer is between its two steps; it fails if a
timer can cancel any stream but its own. `Restoring` says that the command
restores only when the backup has ended, and that what it has passed is in the
account.

### SubscribeProofs

Assumed: `SubscribeAssumption` (finitely many subjects, at least one, none of
them the inbox; a positive buffer).

* `TypeCorrect`: `Spec => []TypeOK`;
* `SequenceIsRight`, `LimitIsKept`, `BackupHoldsAll`: `CountersAgree`,
  `LimitHolds`, `BackupIsComplete`.

A message that counts is in one place, a handler's hand or a position of a
queue, until it is handled. `Fresh` says that no two places hold the same
message and that none of them holds one that was handled: hence `received` is
the number of messages shown or waiting for a reply. `Counted` adds that
`counter` exceeds it by the sum of the drops noticed. `Lanes` says that a message
is on the lane of its own subscription, so that after everything is unsubscribed
no handler is given another one; `Stops` then bounds what can still be handled
by the hands that are not empty: in mode "match" there is one, and the message
that reached the limit was in it. `Recorder` says where the recorder can be at
each place of `subscribe()`.

### ClientsProofs

Assumed: `PublisherAssumption` (what the command line accepts: an atomic batch
comes from stdin, line by line) and the assumptions of the parts.

* `InputComesInOrder`: `PublishedInOrder`;
* `BatchesAreWhole`: `BatchIsAllOrNothing`;
* `SuccessMeansComplete`: `SuccessIsComplete`;
* `TypeCorrect`: `Spec => []TypeOK`;
* `ReportsHold`: `Spec => []ReportsAreTrue`, every conjunct of it;
* `ScreensOnlyGoOn`: `Spec => ScreensGoOn`.

The invariant of the publisher, `IInv`, compares what was given away, `Given`,
received by the server or held until the next connection, with where the
callback is: it is in order and comes before what is sent next (`GivenInOrder`);
as long as no error may have been passed over it is exactly the first `Behind`
messages there are (`NothingLeftOut`); and a batch is pending as read until it is
stored as a whole, which happens only at the end of the input (`BatchPending`).
With the types of repliers, latencies and deliveries it is `MessagingInv`.

Each other command has an invariant of its own, a lemma that it holds at first
(`...StartsWell`), one that the steps of the command keep it (`...GoesOn`) and one
that the conjuncts of `ReportsAreTrue` and the types follow (`...Fine`). None of
the conjuncts is inductive; what had to be added is the interesting part:

| part | what its invariant says beyond the property |
| --- | --- |
| `TopInv` | samples are newer the closer they are to the monitor (`SamplesInOrder`), and the stale drawings that were made and those still held (`LateOnes`) are two together |
| `WatchInv` | an update that is under way is behind all older ones of its server, and the last one sent is under way as long as any is (`LatestComes`); an answer may overwrite it only in the window of `prePing`, when nothing counts as fresh |
| `PingInv` | answers are noted (`times`) after they are counted (`seen`), and what is summed up was noted |
| `ConnzInv` | tables of connections are increasing, so that what is behind the last page read is on no page yet, whatever closes (`Ahead`); without changes what is listed is what the offset has reached (`AllReached`) |
| `ExporterInv` | the mutex of a check belongs to the scrape between connection and manager, and a connection to a manager or to that scrape (`ConnectionsCounted`) |
| `CheckInv` | rows are about servers that answered and true of their answers (`RowsAreTrue`); `DifferenceShows` is the case split over statuses |
| `ServeInv` | the second wait group is the number of clients that owe a release (`Owing`) as long as none failed twice |
| `DirectInv` | all that is there between the start and the next sequence was handled, and nothing beyond (`LoopInOrder`) |

`AllInv` is all of them. A command keeps its own and leaves the variables of the
others alone (`AllGoOn`), and what another command would start with is a possible
start (`ReportsMayStart`, `ChecksMayStart`): this is where the constants must
allow one, a server to watch, a refresh limit, an expected number of servers and a
stream of two messages.

### AdministrationProofs

Assumed: `AdminServerAssumption` (finitely many servers, at least two; a bucket
keeps at least one revision) and `AdministrationAssumption` (`Fits` above; at
first, no field has a value of a command line that has not run yet). For any
number of processes, command lines, assets, items and servers:

* `TypeCorrect`: `Spec => []TypeOK`;
* `Consent`: `Spec => []ConsentComesFirst`. The steps it is about are `Grave`: what
  removes, seals, resets, moves, reverts or overwrites, and for the edit of a
  stream its update. Each was agreed to or forced by name, but for
  `stream peer-remove` and `mappings rm`, and for a consumer that is edited from a
  file, where only the consumer of the command line was. It does not say that the
  thing is still what the user was shown, except for the revision that `kv revert`
  replaces, nor that the removal or sealing of a bucket's stream is preceded by a
  warning: it is not;
* `WrittenAsAsked`: `Spec => []WritesOnlyWhatWasAsked`, for every mixture of
  commands, with the fields of `Resets` as its exceptions: what an edit from a
  file leaves out is among them, so that of such edits it says only that they write
  no value but what the file has, what was there, or a default.

There are 87 operations with a plan each, and 126 actions. The proof does not
go through their product. The first half is about plans alone: `Follows` says
which step may come right after which (an overwriting step after one that makes
a configuration of what was read, a removal after a question or another step after
one), `Starts` which may come first, `Suits` which steps an operation may have at
all. `PlansAreSound` shows it for every plan, once; what is left of an orderly
plan is orderly (`OrderlyTail`, `OrderlySkip`). The second half is about actions alone: each
provides what may come after it with what that relies on (`Relies`), for a command
by itself; and each changes the assets in a way (`GoodChange`) that takes from
no other command what it relies on (`FineStays`): an operator or account that
is there stays there, what is replaced is no longer the original, and what is
written is a configuration that some command line explains.

The invariant, `IInv`, is this for every process: what is left of its plan is
in order, what its next step relies on holds, what it did was agreed to, forced
or picked (`DidWell`), what it read was fine at that time (`SawWell`). It says of
every field of every asset that it has the value it had, or one that the flag
of some command line set, or a default that the asset may have (`AssetFine`). TLC
checked `IInv`, and `GoodChange` as an action property, on the instance of the run
before it was proved.

The proof attempt changed the properties twice. `ConsentComesFirst` compared only
the names of what was asked about and done, which for a revert is less than the
user is shown; it now compares revisions. And it said of a forced command that
it affects only what its command line names, which is false of the removals above
that pick.

### Left to TLC

* Liveness (`Terminates`, `Returns`, `Quits`, `BackupEnds`, `CommandsProgress`,
  `CommandsEnd`): the provers have no rule for fairness and ENABLED.

Every invariant and every action property of the passing runs, and the refinement
`ImplementsRun`, is stated by a theorem.

## 5. What disagrees with the code's own words

1. `cli/bench_command.go:2649`: the handler releases the wait group for a failing
   acknowledgement, and the client's goroutine releases it again however it ends:
   in the run's trace its setup fails at the flush after the consumer has begun to
   deliver (`:2745`), with a share that completes it is at the end of the fetch
   loop (`:2815`) (`bench_ack_failure`).
2. `cli/bench_command.go:2808`: fetching clients without a share
   (`bench_idle_fetch`).
3. `cli/backup_command.go:237`: the idle timer against the health check that
   "can take a long time without progress reports" (`backup_health`).
4. `cli/sub_command.go:509`: `--terminate-at-end` and ignored subjects
   (`subscribe_end`).
5. `cli/pub_command.go:195`: the last message of an atomic batch loses its
   headers, its reply subject and the expansion of its subject
   (`clients_atomic`).

Outcomes that the models contain and no document denies: the waits, skips and
resets named above; the state of a stream that is dereferenced before the error
is looked at (`cli/sub_command.go:915`); nil dereferences in the checks of
replicas; a connection leaked by a scrape (`internal/exporter/exporter.go:64`); a
rescue of the meta group that ends well when every server refused it
(`cli/server_cluster_command.go:266`); a consumer that was deleted during its edit
and comes back (`cli/consumer_command.go:1171`); a fetch error that is returned or
swallowed for ever depending on whether a progress bar is displayed
(`cli/bench_command.go:2770`, `:3295`); `consumer edit --config`, which asks about one
consumer and changes, or creates, the one that the file names
(`cli/consumer_command.go:1013`, `:1171`); edits from a file, which reset every field
that the file leaves out (`cli/stream_command.go:1787`); the removal and the sealing
of a bucket's stream without the warning that other commands give
(`cli/stream_command.go:3310`, `:1457`); a truncated backup that is reported as good
(`cli/backup_command.go:237`). Read on the way and below the
models' detail: overflow groups of a new consumer are set from the pinned ones
(`cli/consumer_command.go:2134`), and the error of `Seal` is dropped
(`cli/stream_command.go:1474`).

## 6. Not modelled, and what could follow

`PROJECT.json` lists every part with its status and the hazards without a
property. Not modelled:

* commands that send one request and print its answer: listings, info, state,
  history, the other server reports, `rtt`, most `server check` commands. They
  change nothing, and what could go wrong in them is how they print;
* `service`, `trace`, `events`, `traffic`: loops that print what arrives;
* `consumer sub`: a loop around one subscription, of which `Subscribe` has all
  but the acknowledgement;
* `audit`: calls into a library and a report over its result;
* the framework, help, completion, plugins, schemas, generators, tables and
  plots: pure input and output;
* of the modelled commands: wording, formatting, validation of arguments, what
  a library does inside one call (the encoding of claims, the balancer, the
  servers themselves).

What could follow is of two kinds. The properties excuse what the code does today
(section 3): if the race between `cancel()` and `timedOut`, the doubled `Done()` or
the swallowed fetch error is repaired, the exceptions `unseen`, `nacked` and
`refused` should go, and the proofs be run again without them. And liveness is
checked on instances only.
