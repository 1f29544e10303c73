# nameq in TLA+

TLA+ models of nameq (https://github.com/ninchat/nameq), the TLC runs that
check them on small instances, and TLAPS proofs of their safety properties.
Paths below are relative to the repository. `PROJECT.json` lists, for every
definition that models code, the source lines it stands for.

## 1. The system

nameq is a peer-to-peer feature discovery service. Each host runs one service
process (`service.Serve`). It reads the features of the host from a config
directory, tells the other hosts by UDP and through an object in S3, and writes
what it knows of all hosts to a feature tree, a directory of files. Client
libraries in Go, C++ and Python watch the tree with inotify.

### Components, their state and operations

| Component | State | Operations | Model |
|---|---|---|---|
| main loop, `service/main.go` | `notify`, three pending forwards, two done channels | coalesce and forward notifications, wait for the two loops | `Serve` |
| config watcher, `service/config.go` | the scan under way | watch and scan the directory, install the features, notify | `FeatureConfig` (file by file), `Serve` (a scan is a step) |
| Go `SetFeature`, `RemoveFeature`, `go/nameq.go` | the files of the config directory | write a temporary file, rename it, remove | `FeatureConfig` |
| local node, `service/node.go` | an atomic pointer to the features | get, set, update | `Serve` (`local`) |
| remotes table, `service/node.go` | IP address to node, under a lock | updatable, update, expire, addrs, nodes | `Remotes` |
| transmit and receive loops, `service/io.go` | `replyTo`, `addrs`, a new address | send rounds, answer new peers, farewell; receive, update, notify, reply | `Serve`, `Cluster` |
| packet codec, `service/packet.go` | none | marshal, unmarshal, authenticate | left out |
| storage loop, `service/storage.go` | body, threshold, keys, new addresses | put, list, delete, load, reply, expire | `Serve`, `Cluster` |
| state loop, `service/state.go` | the set of file names of a pass | write, rename, walk, remove | `Serve` (a pass is a step), `FeatureTree` (file by file) |
| Go monitor, `go/nameq.go` | queued features, end-of-boot mark, watches | watch, list, open, handle events, deliver, close | `Monitor` |
| Go demux, `go/demux.go` | channels, buffers | forward, buffer, close | `Demux`, `Fanout` |
| find-features, `cmd/nameq/command/monitor.go` | ordered set of hosts | accumulate until boot is over | `FindFeatures` |
| C++ monitor, `cpp/nameq.cpp` | buffer, watches | watch, list, handle all queued events in one read | `CppMonitor` |
| Python client, other commands | as the Go clients | as the Go clients | left out, see 7 |

### How they interact

Inside a process, goroutines share the local node (an atomic pointer) and the
remotes table (a lock), and wake each other through channels that hold one
token. The config watcher tells the main loop, which tells the state, storage
and transmit loops. The receive loop tells the state loop directly. The receive
loop and the S3 scan pass the addresses of new peers to the transmit loop
through the `reply` channel, which holds ten lists. Between processes there are
UDP packets and the bucket. Between the service and its clients there is the
feature tree and the kernel's inotify queue; between the programs that set
features and the service there are the files of the config directory, another
inotify queue, and a temporary file that all writers of a feature share.

### What is hard

* Coalescing: a token stands for any number of changes, so each consumer must
  read the data after taking the token, and each forward must survive the next.
* State read in one step and used in another: the local node in a pass of the
  state loop and in a put, the list of addresses of a round, the threshold and
  the keys of a scan, the files behind inotify events.
* Blocking sends to a bounded channel, with the reader free to end.
* S3 calls that fail, with the object stored or not; crashes and restarts at
  any step; packets lost, late and duplicated.
* Stamps of several clocks, those of the hosts and that of S3, which are compared
  with each other.
* inotify queues that overflow, with an error that is only logged.
* Three orders that everything rests on: put before list (bootstrap), watch
  before list (monitor), latency tolerance shorter than expiration.

### What makes each component correct

* Service: every change of the local node gets to the tree, to S3 and to every
  known peer; every change a packet makes gets to the tree; no loop blocks for
  good; it returns when cancelled, after its farewells.
* Cluster: nodes that have started know each other; the dead are forgotten and
  stay so; the running are not forgotten; only old objects are deleted.
* Configuration: what a caller sets gets in place, whole, and from there to the
  local node; what is removed goes.
* Monitor: no change of the tree is missed; the end of boot comes after what
  existed; it ends when closed.
* Demux: every subscriber gets all its features once, in order, and the end,
  whatever the other subscribers do.

## 2. Modules

| Module | What it is |
|---|---|
| `Remotes` | the remotes table as operators on a function from peers to nodes |
| `RemotesProofs` | what those operators do to any table, and in which orders |
| `Serve` | one service process: all its goroutines and channels; extends `Remotes` |
| `MCServe` | a view of `Serve` without its state loop, `Serve` with no peers, and on an empty tree |
| `ServeProofs` | theorems about `Serve` and their proofs |
| `Cluster` | several processes, the bucket, the network and time; instantiates `Remotes` |
| `ClusterProofs` | theorems about `Cluster` |
| `MCCluster` | the clocks of `Cluster`, and the symmetry of its nodes |
| `FeatureConfig` | the config directory, its writers and its watcher |
| `FeatureConfigProofs` | theorems about `FeatureConfig` |
| `MCFeatureConfig` | the `-features` argument for `FeatureConfig` |
| `FeatureTree` | the tree on disk, written file by file, and the inotify queue |
| `Monitor` | the Go `FeatureMonitor`; extends `FeatureTree` |
| `MonitorProofs` | theorems about `Monitor` and `FeatureTree` |
| `CppMonitor` | the C++ `FeatureMonitor`; extends `Monitor` for the steps they share |
| `CppMonitorProofs` | theorems about `CppMonitor`; extends `MonitorProofs` for its lemmas |
| `FindFeatures` | the find-features command as the client of a `Monitor` |
| `FindFeaturesProofs` | theorems about `FindFeatures`; extends `MonitorProofs` too |
| `Fanout` | what a `FeatureDemux` promises, in the abstract |
| `Demux` | `FeatureDemux` and `FeatureBuffer`; implements `Fanout` |
| `DemuxProofs` | theorems about `Demux`, the refinement among them |
| `MCDemux` | `Demux` with the subscriptions of its documentation and test |

Definitions with a comment `mutant:` are deliberately wrong variants
of the definition after them. They are not part of any specification; each shows
that some property is sensitive to a plausible slip in the code.

### Serve

One variable per goroutine (`mainPc`, `configPc`, `statePc`, `receivePc`,
`transmitPc`, `storagePc`) says where it is; the other variables have the names
of the Go variables where they exist. An action is what a goroutine does between
two points where another one can matter: a channel operation, a read or a write
of the shared node or table, an S3 call.

* `Start` is `Serve` up to `initStorage`; `initStorage` runs the steps of the
  storage loop while `mainPc = "storage"`, and its first failure ends the
  process (`"failed"`).
* Each token channel is a Boolean; `reply` is a sequence of address sets.
* A put is two steps, `StorageMarshal` reading the node and `StoragePutOk` or
  `StoragePutFails` taking effect. After a failure `stored` is `None`: the object
  may be there or not.
* A scan is `ScanList`, one `ScanLoad` or `ScanLoadFails` per key, `StorageReply`
  and `StorageExpire`.
* `tree` is what a pass of the state loop leaves (`StateSync`, one step here).
  `sent` is the last packet handed to the network for each peer, whatever became
  of the peer since; nothing but a send changes it.
* `silent` is history: the hosts whose table entry changed with nobody telling
  the state loop since. It exempts, by name, what finding 2 is about.
* `unmet` and `lapsed` are history too: the peers that joined and were sent no
  packet since, and the peers that were expired and had not joined again when the
  transmit loop ended (until then: have not). `unmet` makes `PeersHearLocal` ask for
  a packet to a peer that is back, which may have died meanwhile, and `lapsed` is
  who is left out of the farewell.
* When `Serve` returns the process exits, so every action requires `Running`.

Abstractions: a feature map is an opaque value; time stamps of packets and
objects come in any order (`Times`, `Thresholds`); peers have IPv4 addresses, so
`resolveAddr` does not fail; errors of file writes are in `FeatureTree`; what
the files of the config directory mean is an input.

### Cluster

The time of day, the objects' modification times, the packets in flight, and per
node its table and the place of its storage loop. Features are left out, only who
is known and since when. Packets can be lost, reordered and delivered any number
of times while `latencyTolerance` lets them. `Boot` and `Crash` happen at any
step; a failing `initStorage` is a crash. A listing may end early, after some
pages.

Every host and the bucket has a clock of its own, ahead of `clock` by a constant
(`Skew`). Packets are stamped by the sender's, objects by the bucket's, the
threshold of a scan by the scanning host's, and all three are compared, as in the
code. Assumed: the differences are constant; a node that is up puts again within
`StorageInterval` (`TimelyPuts` holds the clock back); the pages of a listing are
seen at one moment, which is also that of the threshold (in the code it is computed
right after the first page, `storage.go:127`, `135`).

Six history variables give the properties their words: the latest stamp taken
of each node (`latest`), the nodes whose object was deleted under them (`robbed`),
whom a scan failed to list or load (`missed`), whose object was there when the scan
under way began and who has been running since (`present`), whom a scan has expired
for good (`purged`), and when a node went down (`downSince`). No action looks at
them.

### FeatureConfig

`SetFeature` is its system calls: `Open` (which truncates), `Write`, `Rename`, or
`RenameFails` and `Unlink`; `Abandon` is an I/O error or a caller that dies. The
temporary file is shared, so a call may have open a file that another has renamed
or removed meanwhile: `inode` says which file it is now. Contents are opaque,
except `Null` (a JSON null), `Blank` and `Junk` (no JSON document: the mix that
two writers of different length may leave).

The watcher is `watchConfig`: `ReadDir`, one `ReadFile` or `ReadFileFails` per
file, and `Update`, `KeepFeatures` or `Panic` when they are compared with the old
ones. `Parsed` is what a file says: a blank one takes a feature of the `-features`
argument away, and what cannot be parsed leaves it. `Panic` is the nil pointer
that null makes of a feature, dereferenced by the comparison (`node.go:88`).
`Start` and `Stop` are the service's.


### FeatureTree, Monitor and FindFeatures

A pass (`StartPass`) picks any tree it wants, writes the files that differ
(`MakeDir`, `Rename`), then removes the files that are not in it (`Walk`,
`Remove`); each change can fail (`Fail`). Directories are never removed, as in
the code. Each change queues an event if there is a watch, and inotify may merge
it with an identical unread one; when the queue is full it discards it (`lost` keeps
the files that were affected). The tree's root may be removed while it is empty
(`RemoveRoot`). The monitor's `AddFeature`, `ReadDir` and `Open`
are the three system calls of `addFeature` and `addHost`; `toAdd` and `toOpen`
hold what is left of the two loops. `view` is what the client received.
`FindFeatures` keeps the set of hosts; the order in which they are printed is left
out. `Looking` is what the two monitors share, watching and listing. `CppMonitor`
has its own handling of events: `read` takes all events there are, and hands over
its buffer in the end.

### Demux and Fanout

A feature is its position in the input. `Demux` has one goroutine that forwards
to the outputs of a name in turn, and a queue per output: a bounded channel, or
the buffer of a `FeatureBuffer`. `Fanout` only knows which features an output is
due. `Implements == F!Spec` is the refinement; variables map to themselves.

## 3. Runs

| Run | Instance | Shows |
|---|---|---|
| `serve_peers` | 1 peer, `ReplyCap` 1, changes back and forth, cancellation, the state loop left out | `PeersHearLocal`, `Farewell` |
| `serve_local` | no peers, a first configuration with or without features, changes back and forth, cancellation, the transmit loop left in its first round | `LocalDue`, `StoredDue`, `TreeFollowsLocal`, `S3FollowsLocal` |
| `serve_live` | 1 peer whose features change, stamps 1 and 2, leftovers in the tree | `TypeOK`, `RemoteDue`, `PacketReachesTree`, `RepliesDrain` |
| `serve_stop` | 1 peer that joins twice, cancellation | `CancelReturns` is violated (finding 1) |
| `serve_scan` | 1 peer with features, an empty tree | `ScanReachesTree` is violated (finding 2) |
| `cluster` | 2 nodes, one clock behind, tolerance 1, interval 2, expiration 3, clock to 8, 2 packets at a time | `TypeOK`, `DeadForgotten`, `StartedMeet`, `NoResurrection`, `LiveKept`, `OnlyDeadChosen` |
| `cluster_delete` | 2 nodes, one clock | `OnlyOldDeleted` is violated (finding 3) |
| `demux` | 3 names, 3 outputs, 1 stalled, 4 features | `TypeOK`, `InOrder`, `Implements`, `OthersReceive`, `OthersEnd` |
| `monitor` | 1 feature, 2 hosts, 2 values, 2 passes, 2 events | `TypeOK`, `ChangeDue`, `BootComplete`, `FollowsTree`, `CloseEnds` |
| `feature_config` | 1 feature, null and another document, which the argument gives too, 2 writers, 2 events | `TypeOK`, `ScanDue`, `SetWhenAlone`, `OnlyAsked`, `FilesReachLocal` |
| `find_features` | 2 features, 1 host, 1 pass | `HostsFound` is violated (finding 4) |
| `cpp_monitor` | 1 feature, 1 host, 1 pass | `ReadToEnd` is violated (finding 5) |

The properties in words:

* `LocalDue`, `StoredDue`, `PeersHearLocal`, `RemoteDue`: where the tree, S3 or a
  peer lags behind the local node (the tree behind the table), a token, a
  pending forward or a read still to come will mend it, without waiting for a
  timer. These say that no notification is lost. `LocalDue` is also about the tree
  that an earlier process left, which the state loop only replaces when something
  wakes it: what is left of this host may stay if the node has no features
  (`updateFeatures` then reports no change) and nothing else has woken the state
  loop, and in no other case. `TreeFollowsLocal` has the same exception.
* `Farewell`: when `Serve` has returned, every peer it ever sent a packet to was last
  sent the empty node, except one that was expired and had not joined again when
  the transmit loop ended; and the last put was of the empty node, or it reported an
  error and S3 may still have the features.
* `TreeFollowsLocal`, `S3FollowsLocal`, `PacketReachesTree`, `RepliesDrain`: what
  is due does come about, and no loop stays blocked on the reply channel.
* `CancelReturns`: a cancelled service returns; violated, see 4.
* `NoResurrection`: no process ever takes an entry that is not newer than one it
  had, even if that was expired in between.
* `DeadForgotten`: once a process has expired entries up to the time a node went
  down, that node is and stays unknown to it.
* `LiveKept`: a scan expires no entry of a node that had put its object before the
  listing and has been running since, however long the scan takes and whatever is
  put meanwhile, unless part of the listing or the load failed, or the object had
  been deleted under its owner. Here the threshold has to be the one of the listing:
  computed once more at the end, it would be younger than what was loaded.
* `OnlyDeadChosen`: a listing chooses for deletion no object of a node that has put
  one since it started, if the clocks agree. What finding 3 deletes was chosen
  before its node was back.
* `StartedMeet`: of two started nodes one has known the other, unless part of a
  listing or a load failed or an object was deleted under its owner.
* `ScanDue`: where the local node differs from the files, a scan is still to get
  there, unless a file could not be read, null ended the service, or a removal was
  discarded. The last is the only harm an overflow does: the last event of a full
  queue causes a scan, except if its file is gone and fsnotify drops it for that.
  `FilesReachLocal` is the same as liveness.
* `SetWhenAlone`: a call of `SetFeature` that no other on that feature meets
  renames its own data, whatever dead callers have left. Calls that do meet may
  fail with an error, or put a blank file or a mix in place.
* `OnlyAsked`: while no two calls on a feature have met, its file becomes what the
  one under way is to set, or goes; never what an abandoned call has left, which is
  still in the temporary file.
* `ChangeDue`: where what the client will be told differs from the disk, the
  event or the listing that mends it is still to come, or that very event was
  discarded. `BootComplete`: what existed and stayed is told before the end of
  boot. `FollowsTree` is the first as liveness; `CloseEnds`: `Close`, or the end of
  the tree, ends the monitor even if nobody receives from it.
* `Implements`: every behaviour of `Demux` is one of `Fanout`. `InOrder`: what a
  subscriber has received has no gap, no repetition and is in order, and is all of
  it when it sees the end; a property of `Fanout`, and so of `Demux`. `OthersReceive`,
  `OthersEnd`: a stalled subscriber holds up no other.
* `ReadToEnd`, `HostsFound`, `ScanReachesTree`, `OnlyOldDeleted`: what the
  documentation promises and the code does not keep, see 4.

### Bounds, and why they are enough

* `ReplyCap` is 10 in the code and 1 in the runs: the channel is full after one
  list, so the blocking sends happen. The proofs hold for every capacity.
* Peers are independent entries of the table, and with one list in the channel one
  peer that is expired and joins again also fills it (`serve_stop`). Two feature
  maps suffice to be equal or different. `serve_local` has the liveness of changes
  without peers and `serve_peers` the safety with one; the proofs have any number
  of both. With two configurations that come at any time and in any order, changes
  meet passes, puts, scans and pending forwards in both runs. `serve_local` takes
  no step of the transmit loop, which nothing else waits for until the end
  (`MCServe`), and has no time stamps, as there is nothing to stamp. `serve_peers`
  takes states for one that differ only in what the state loop does
  (`VIEW WithoutStateLoop`), on which nothing in its properties and no step of the
  others depends.
* Two time stamps (`serve_live`) give packets and objects that are older, as new
  and newer than an entry; one is enough where what an entry says does not matter,
  with thresholds on both sides of it.
* Cluster's clock starts at `ExpireTimeout` so that thresholds are natural
  numbers. It has five ticks: enough for the node whose clock is ahead to die at
  once and be forgotten by the other. The one behind is forgotten after four, with
  time left to come back. A node puts every two ticks, so that a scan may begin before a put and
  end after it, with an expiration of three. No more than two packets are under
  way at a time and, in the last two ticks, one and none (`FewPackets`).
  `OneBehind` puts one node behind the other and the bucket; `ClocksAgree`, which
  lets none be ahead of the bucket with these timeouts, is a premise of `LiveKept`,
  `StartedMeet` and `OnlyDeadChosen` only, and the proofs take any clocks.
* Two events fill the queue of `monitor` and of `feature_config`, so discarding
  happens; two writers have the temporary file in every combination, and anybody
  may remove the feature besides. The argument gives the feature a value
  (`ArgValue`), which a blank file takes away and the removal of the file brings
  back; the proofs have any argument, or none.
* Two passes of the state loop change a file three ways (written, replaced,
  removed and written again) across one listing; two hosts make a listing with a
  file already opened and one still to open.
* Four features overfill the channel and reach both subscribers of a name.

`CHECK_DEADLOCK FALSE` is set where the system may stop: the service returns or
fails, the demux example ends, the state loop is done.

### Fairness, and why the code justifies it

* Goroutines are scheduled fairly: weak fairness on every step that stays
  possible.
* `select` picks at random among ready cases, and blocked senders are queued:
  strong fairness on the cases of the transmit and storage selects, and on the
  send of the receive loop.
* `SF_vars(StoragePutOk)`: S3 accepts a put now and then. No fairness of the
  config, of packets or of what scans find.
* The fairness of shutdown (`StopFairness`) is stated apart: `TransmitDone`,
  `StorageDone` and the farewells.
* In `Monitor` the client receives until it closes the monitor. In `Demux` the
  stalled subscriber is never fair.
* In `FeatureConfig` the watcher's goroutines are scheduled (`WF_vars(Scan)`); no
  fairness of its writers, of errors or of `Start`.

## 4. Findings

1. `serve_stop`: a cancelled service may hang. `scanStorage` sends to `reply`
   (`service/storage.go:198`), whose only reader has returned on `ctx.Done`. With
   the channel full the storage loop never says farewell and `Serve` never
   returns. With a capacity of 10 this needs ten peers that join by packet around
   the shutdown, and one more that the scan finds. It is for good: no step of any
   goroutine or of the environment ends `Stuck` (`StuckForGoodHolds`).
2. `serve_scan`: the S3 scan updates and expires entries (`storage.go:189`, `201`)
   without notifying the state loop. In the run a scan loads a peer's features
   after the start, and the tree, which was empty, never shows them: it stays behind
   until a packet or a local change comes. Of the hosts that no
   scan has changed it never stays behind (`RemoteDueHolds`).
3. `cluster_delete`: an object is deleted by an old listing (`storage.go:165`)
   after its node has come back and put it again. A third node that starts before
   the next put does not find it. Only objects that were listed before the node's
   first put are in danger (`OnlyDeadChosenHolds`).
4. `find_features`: a host with two requested features is dropped when one of
   them is removed (`cmd/nameq/command/monitor.go:199`). It takes two names
   (`HostsFoundByOneName`), and a host without any is never printed
   (`HostsHaveFeatureHolds`).
5. `cpp_monitor`: `read` watches a feature directory that has appeared
   (`cpp/nameq.cpp:175`) and does not list it. A host written before the watch
   is never told, though the service makes the directory and the file at once. It
   takes a directory that was not there before the monitor (`ReadToEndOfHolds`), and
   what the client does know is right (`KnownRightHolds`).

Seen on the way, without a run of their own: a peer that a scan expired and that
joins again after the transmit loop's farewell round is not told that the node is
going (`lapsed`; its own expiration will do that); a feature file with `null` ends the
service (`KilledByNull` exempts exactly that); `watchConfig` with no directory
ignores the `-features` argument (`service/config.go:21`); `PathError.Err` is
compared with `os.ErrNotExist`, which it never equals (`config.go:95`), so a file
that is just gone is skipped like one that cannot be read.

## 5. Proofs

Each theorem is for every value of the constants that the modules' `ASSUME`s
allow; TLC evaluates the `ASSUME`s in the runs. An invariant is proved inductive
relative to the ones before it: the proof assumes those in the unprimed and, where
needed, the primed state, and has a step per action.

### RemotesProofs

About the operators of the table, for any table and any nodes:

| Theorem | Statement |
|---|---|
| `UpdateGrows` | an update takes no entry away, makes none older, and leaves one as young as what was given |
| `UpdateTwice` | the same node taken twice changes the table once, and counts as new once |
| `UpdatesCommute` | two updates of different peers, or with different stamps, come to the same in either order |
| `UpdateExpireCommute` | so do an update and an expiry, if what is taken is as young as the threshold |

These are why duplicated and reordered packets do no harm, and why the scan may
load and expire while packets arrive. With equal stamps the first one stays.

### ServeProofs

For every set of peers and features, every bound on time stamps and every
capacity of the reply channel:

| Theorem | Statement |
|---|---|
| `TypeCorrect` | `Spec => []TypeOK` |
| `QuietHolds` | loop variables hold something only between certain steps |
| `ViewDueHolds`, `BodyDueHolds` | a node that changed after a loop read it has been announced to it |
| `LocalDueHolds` | `Spec => []LocalDue`, from `ViewDue` |
| `RemoteDueHolds` | `Spec => []RemoteDue` |
| `StoredDueHolds` | `Spec => []StoredDue`, from `BodyDue` |
| `PeersHearLocalHolds` | `Spec => []PeersHearLocal`, from `Quiet` |
| `ReachedKnownHolds` | until the transmit loop ends, whoever was sent a packet has an entry, or has lapsed |
| `StopOrderHolds` | a loop that is done has said farewell to all but the lapsed; `Serve` returns after both |
| `FarewellHolds` | `Spec => []Farewell`, from `StopOrder` |
| `StuckForGoodHolds` | `Spec => StuckForGood`: every step from a `Stuck` state ends in one |

`LocalDue` alone is not inductive: a pass that has read the local node may see it
change before it writes, which is what `ViewDue` excludes from going unannounced;
`BodyDue` is the same for the put. `PeersHearLocal` needs `Quiet`, that `replyTo`
and the new addresses are empty outside the steps that use them. `Farewell` needs
that each loop ends with its farewell (`StopOrder`), and that the last round of the
transmit loop, which goes to those in the table, gets to all that were ever sent
anything: `ReachedKnown`, which follows a peer from its joining through
`newAddrs` or `recvAddr`, the reply channel, `replyTo` and `addrs` to `sent`.
Assumed: `Empty` and the inputs are features, `None` is no feature, `NoNode` is no
node, `Loopback` is no peer, the capacity is positive.

### ClusterProofs

For every number of nodes, every skew of their clocks, and every three timeouts of
which the tolerance and the storage interval are shorter than the expiration:

| Theorem | Statement |
|---|---|
| `TypeCorrect` | `Spec => []TypeOK`, with `Shape`: what is empty outside a scan |
| `StampedHolds` | nothing is stamped later than it can have been |
| `ScanBeganHolds` | a threshold is not of the future; what is to be loaded is younger |
| `RememberedHolds` | what was taken last of a node is in the table, or is too old to come again |
| `NoResurrectionHolds` | `Spec => NoResurrection`, from `Remembered` |
| `PurgedForGoodHolds` | all that is left of a purged node is too old to be taken |
| `DeadForgottenHolds` | `Spec => []DeadForgotten`, from `PurgedForGood` |
| `FreshHolds`, `SparedHolds` | a running node's object is young; a scan will load it or has an entry as young |
| `LiveKeptHolds` | `Spec => LiveKept`, from `Spared` |
| `OneSeesHolds` | of two nodes that have listed, one put before the other listed |
| `StartedMeetHolds` | `Spec => []StartedMeet`, from `OneSees` |
| `OnlyDeadChosenHolds` | `Spec => OnlyDeadChosen`, from `Fresh` |

The step that matters in the first half is that an entry goes only when the
threshold has passed its stamp. A packet with an older stamp is then beyond
`latencyTolerance`, which is shorter than `expireTimeout`, and an object with an
older stamp is not loaded, now or later, as thresholds only grow. `LiveKept` needs
that the threshold is one and the same for objects and entries, from the listing to
the expiration: the object that a running node had at the listing is younger than it
if the clocks agree, so it is loaded, unless the entry is as young; and what the
node puts during the scan only makes it younger (`Spared`, over `present`).
`ClocksAgree` is a premise of the three properties that need it.

### FeatureConfigProofs

For every set of features and documents, every argument, any number of writers and
every capacity of the queue but zero:

| Theorem | Statement |
|---|---|
| `TypeCorrect` | `Spec => []TypeOK` |
| `AloneHolds` | a call that meets no other has the temporary file to itself, blank till it writes |
| `SetWhenAloneHolds` | `Spec => []SetWhenAlone`, from `Alone` |
| `OnlyAskedHolds` | `Spec => OnlyAsked`, from `Alone` |
| `WatchedHolds` | `Watched`, below |
| `ScanDueHolds` | `Spec => []ScanDue`, from `Watched` |

`Watched` has three parts, inductive together: a call has the final file open only
if that file exists (`OpenThere`), so that writing to it causes an event that is
not dropped; the last event of the queue wakes the watcher or a removal was lost
(`LastWakes`), which is why an overflow is harmless; and the local node, or the
draft of the scan under way, is current or a scan is to come (`Current`).

### MonitorProofs

For every tree, any number of passes and every capacity of the queue:

| Theorem | Statement |
|---|---|
| `TypeInvHolds`, `TypeCorrect` | `Spec => []TypeOK`, with `Shape`: where the loops hold something |
| `BootFirst` | the end of boot is queued before the loop begins |
| `DueHolds` | `Spec => []Due(Features)`, below |
| `ChangeDueHolds` | `Spec => []ChangeDue`, from `Due` |
| `Told1stHolds` | a file that stays is told as it is, and before the end of boot |
| `BootCompleteHolds` | `Spec => []BootComplete`, from `Told1st` |

`ChangeDue` is not inductive: an event that is taken, or found identical to the last
one, must have been the last about its file or be followed by one that tells the
truth (`EventsMatch`); a directory that is not watched is yet to be (`WatchDue`); a
file the client knows is in a watched directory (`GoneDue`), as a listing would not
show that it is gone; and a file it does not know has a look to come (`HereDue`):
its own event, the listing under way, or a new directory (`NewDir`) of which there
is an event and no watch yet.

`HereDue(F)` is about the directories in `F`, and of the other ones about the
files the client knows of. For the Go monitor `F` is all of them. Each step but the
handling of events is a lemma of its own that says nothing of who takes it
(`WriteDue`, `LookingDue`, `FileEventDue`, and `WriteType`, `LookingType`, `TakeType`
for the types), so that both monitors use them.

### FindFeaturesProofs

| Theorem | Statement |
|---|---|
| `FindsByMonitor` | `FindSpec` implements `Monitor`'s safety part, so `TypeInv` and the rest hold |
| `HostsHaveFeatureHolds` | what is printed has one of the names, for any names |
| `HostsFoundByOneName` | `HostsFound`, if one name is asked for |

### CppMonitorProofs

For every tree, any number of passes and every capacity of the queue:

| Theorem | Statement |
|---|---|
| `KnownRightHolds` | `CppSpec => []KnownRight`, from `Due({})` |
| `ReadToEndOfHolds` | `CppSpec /\ f \in dirs => []ReadToEndOf(f)`, from `Due({f})` and `Listable(f)` |

`CppStep` is the step of both: any step of the C++ monitor or of the state loop keeps
`Due(F)`, unless it watches a directory of `F` that was not watched, as that is not
listed afterwards. With no directory in `F` there is no such step, and `Due({})` is
what `KnownRight` needs. A directory that was there at first (`Listable`) stays, and
no event ever says that it has been made. `CppMonitor.cfg` shows that this premise
is needed: there the directory appears later.

### DemuxProofs

For all names, outputs, buffers and capacities, each output in one place of one
name's array (`OutputsAssumption`):

| Theorem | Statement |
|---|---|
| `TypeInvHolds`, `TypeCorrect` | `Spec => []TypeOK` |
| `KeptHolds` | what is due to an output is in its queue, in order, or the feature at hand |
| `ImplementsHolds` | `Spec => Implements`: each step is one of `Fanout`, or none |
| `InOrderHolds` | `Spec => []InOrder`, from `Implements`: it is inductive in `Fanout` |

`Implements` is safety only, as `Fanout` has no fairness; that what is due arrives
is `OthersReceive`, which TLC checks.

### Only model-checked

All liveness properties, as fairness and ENABLED are out of the prover's reach:
`TreeFollowsLocal`, `S3FollowsLocal`, `PacketReachesTree`, `RepliesDrain`,
`FilesReachLocal`, `FollowsTree`, `CloseEnds`, `OthersReceive` and
`OthersEnd`. For most there is a proved invariant that says what is still to come
(`LocalDue`, `StoredDue`, `RemoteDue`, `ScanDue`, `ChangeDue`), so that what TLC adds
is that it does come.

## 6. Running

    tlc -config ServeLive.cfg Serve         # likewise for the other runs
    tlapm ServeProofs.tla                   # likewise for the other proofs

The runs with an MC module take that module: `tlc -config Cluster.cfg MCCluster`.

## 7. Not modelled

* Packet encoding and authentication (`packet.go`), logging (`log.go`), random
  intervals, flags and the commands around `Serve` and `SetFeature`: no state of
  their own. An interval is a step that may happen at any time. The
  monitor-features command prints what it receives.
* What the nodes say of themselves in `Cluster`: there it would be the stamp under
  another name, as `Remotes` replaces an entry as a whole. That an object with old
  features may be stamped later than a packet with new ones is in `StoredDue`: the
  put that corrects it is due.
* Clocks that are adjusted while nodes run.
* The Python client: its monitor watches, lists and handles events in the order of
  the Go one, so `Monitor` stands for it; its `set_feature` makes a temporary name
  of its own, so that calls never meet, and the rest of `FeatureConfig` applies. Its
  `close` joins the thread, and so waits for a callback that blocks.
* Of the C++ client, `set_feature` and `remove_feature`, which do what
  `FeatureConfig` has for Go.
* Files of the tree that are no IP addresses, which nothing of nameq writes.
* Errors of inotify calls other than an overflow.

## 8. Plan

Done: all modules of section 2; proofs of every safety property the passing runs
check; how far each finding goes.

What would add to it: that a pass of `FeatureTree`, file by file, comes to the one
step that `Serve` makes of it, as a refinement; `Cluster` with clocks that are set
back.
