# A TLA+ verification project for the geyser gRPC plugin

This directory holds TLA+ models of the geyser gRPC plugin under
`src/geyser-grpc-plugin`: its server, its clients, the path between them and its
data conversions (and of one calculation of `src/orca_toolkit`), the TLC configurations that
check them on small instances, and TLAPS proofs of what matters most for every
instance. `PROJECT.json` maps definitions to source lines and lists runs,
faults, findings, hazards and theorems.

Paths below are relative to `src/geyser-grpc-plugin` unless they start with `src/`.

## 1. Inventory

### The system

A Solana validator loads the plugin (`server/`) as a shared library and calls it
from several threads. The plugin pushes notifications into five bounded
crossbeam channels. One thread, the event loop of `GeyserService`, takes them
out and forwards them to subscribers, each of which has a bounded tokio channel
that a gRPC stream is fed from. Clients (`client/`) read such a stream in a loop.

    validator threads --(5 bounded channels)--> event loop --(1 bounded channel
      per subscription)--> SubscriptionStream --(gRPC)--> GeyserConsumer --> app
    RPC tasks --(subscription_added, unbounded)--> event loop
    one small task per stream --(subscription_closed, unbounded)--> event loop

### Components

| Component | State | Operations | Hard behaviour | Correct if |
|---|---|---|---|---|
| `GeyserService` (`server/src/server.rs`) | seven subscription maps, `highest_write_slot` (shared), added and closed channels | seven subscribe RPCs, five update handlers, added, closed, heartbeat | order between channels, full buffers, disconnects while sending, the loop returning while work is queued | a client gets a subsequence, in order, of what it asked for; a live client is never dropped; a gone one is cleaned up; the end of the loop ends all streams |
| `SubscriptionStream` (`server/src/subscription_stream.rs`) | receiver, oneshot signal, spawned task | new, poll_next, drop | the signal precedes the receiver's drop; the task may be aborted | its end is reported once, and only after it ended |
| `GeyserGrpcPlugin` (`server/src/geyser_grpc_plugin.rs`) | `PluginData`: runtime, exit sender, five senders, startup flag | on_load, on_unload, the validator's callbacks | partial failure of on_load, a server that cannot bind, several threads in update_account | no leaked thread; callbacks fail only if the server is gone; the header covers what was accepted |
| `AccessTokenChecker` (same file) | token | call | | no subscription without the token |
| `GeyserConsumer` (`client/src/geyser_consumer.rs`) | LRU cache of per-slot write numbers, last heartbeat, shared exit flag and rooted slot | four consume loops | out-of-order updates, eviction, a watchdog in a task that lags, exit on a silent stream | numbering without gaps; no false alarm; silence and exit noticed |
| `compact_timestamp` (`server/src/compact_timestamp.rs`) | none | stamp, distance, reconstruct | 32-bit wrap-around, clock skew | recent stamps are exact |
| `proto/src/convert.rs`, `proto/src/lib.rs` | none | conversions between Solana's, the protobuf and the old bincode types | None against empty lists, u8 in u32, error variants with details, old writers | what is written can be read, and is the same |
| `cli/src/main.rs` | none | seven commands, six of which read a stream | the end of the stream | the end of the stream ends the command |
| `client/src/types.rs`, `interceptor.rs`, `lib.rs` | none | data types, one header | none | |
| `src/orca_toolkit` | none | a script that builds a swap | Euclidean division of negative ticks | the arrays cover the current tick |
| `src/mock_offchain`, `src/mock_onchain`, `src/test_validator` | none | a script, a logging stub program, data | none | |

## 2. Modules

| Module | Models | Kind |
|---|---|---|
| `GeyserTypes` | topics, kinds, requests, notifications | data |
| `LossyFeed` | what the service promises a subscriber | abstract specification |
| `GeyserService` | `GeyserService` + `SubscriptionStream` + `AccessTokenChecker` | component, refines `LossyFeed` |
| `GeyserPlugin` | `GeyserGrpcPlugin` around `GeyserService` | composition (EXTENDS), implements `GeyserService!Spec` |
| `GeyserConsumer` | the read loops: `consume_account_updates` with `process_update`, `consume_slot_updates`, `consume_slot_entry_updates`, the CLI's commands | component |
| `HeartbeatConsumer` | `consume_partial_account_updates` | component, discrete time |
| `EndToEnd` | `GeyserPlugin` and `consume_account_updates` joined by a response stream | composition (EXTENDS and INSTANCE), refines `LossyFeed` |
| `ProtoConvert` | `proto/src/convert.rs`, `proto/src/lib.rs` | a document that is converted again and again |
| `TickArrays` | index arithmetic of `create_swap_transaction` in `src/orca_toolkit/src/main.rs` | pure, with its theorem |
| `CompactTimestamp` | `compact_timestamp.rs` between two clocks | component |
| `MC*` | small instances | TLC |
| `*Proofs` | theorems | TLAPS |

Definitions whose comment starts with "Fault:" are variants of the definition
that follows them with a plausible mistake. No specification uses them; each is
put in the place of the original once, to see that a property notices.

### GeyserService

State and code: `chan` is the five crossbeam channels, `subs` the seven maps of
`event_loop` (lines 413-425) indexed by kind, `added` and `closed` the two
unbounded channels, `connected` says that `PluginData` still holds the senders,
`svc` that the server still holds the service. Per subscription: `stream` (where
the RPC and its stream are), `task` (the spawned close task), `buf` (the tokio
channel), `got` (what the client was sent), `header`. `updates` is a history: the
log of accepted notifications; channels, buffers and `got` hold positions in it,
so order and duplication are visible without comparing payloads.

One iteration of `select!` is one action. That is faithful because handlers only
`try_send`: none blocks, and a receiver dropped while a handler runs is either
seen by that handler's single send to it or by the next one. RPC handlers are two
steps (`Subscribe*`, then `Respond`) since the loop may run in between; dropping a
stream is two steps (`DropStream`, then `DropReceiver`) since `drop` signals
before the receiver field goes, and the close task is a third party
(`CloseTask`, `AbortTask`).

A channel whose configured size is 0 (an unreadable
`slot_entry_update_buffer_size` becomes 0) is a rendezvous channel: `try_send`
succeeds only while the loop is blocked in `select!` (`Blocked`), and commits the
loop to that branch (`HandedOver`): until it has handled the update it
takes no other (`Selecting`).

The loop returns (`Return`) when a handler gets `RecvError`: an update channel
that is empty and disconnected, or one of the subscription channels once every
holder of its sender is gone.

### GeyserPlugin

`on_load` is split where something else can run or an error can return:
configuration errors, `GeyserService::new`, TLS errors (locals dropped in reverse
order, service before senders), spawning the server. The server's bind is an
action of its own, because `on_load` does not wait for it. `update_account` is
two steps, `fetch_max` and `try_send`. The other callbacks are single sends. A
callback that gets `Disconnected` sets `refused`.

### GeyserConsumer and HeartbeatConsumer

The server is a free environment: any update, error or end of stream at any
time. `method` says which loop runs; the loops share the exit flag's check, the
read, the hand-over to the application and the returns, and differ in what they do
on the tick (only `consume_account_updates` has one), on an error and on the end of
the stream. `process_update` is modelled with its cache: `used` orders the slots by
last use, `seqs` holds the entries, eviction included. `late` counts messages
handed on after the exit flag was set.

`HeartbeatConsumer` has a clock; the tick is tokio's `interval` with its default
behaviour (a tick is never skipped, a late one reports the instant it was due),
`MaxLag` says how long the task may be kept from running and `MaxGap` how far apart
a live server's heartbeats are read. The two RPCs before the loop are actions.
The expiration is the u64 product of the server's interval and the
application's tolerance: when it overflows, a debug build panics and a release
build goes on with the product modulo 2^64, and both are possible in the model; an
interval of 0 panics in tokio.

### EndToEnd

One of the service's clients, `App`, is a `consume_account_updates`. A step is
one of the server side (`ServerSide`, any step of `GeyserPlugin`), or one of the
client, which reads `got[App]` in order (`ReceiveUpdate`), sees the end of the
response once everything was read (`EndOfResponse`), or a transport error at
any time (`ReceiveError` in `ClientLoop`). `delivered` records which entries of the
log reached the application, `base` how long the log was when the response was built.
The application is a patient one (no exit, receiver kept, rooted slot 0): those
choices are `GeyserConsumer`'s own run, and without them an end of the
loop is the server's doing. The client is an instance of `GeyserConsumer` whose
stream, a free environment there, is the plugin's response here: `ConsumerSpec`
says that the composed client is still a `GeyserConsumer`.

### ProtoConvert

A document starts in its native form, or in a protobuf form as an older writer
left it (fields the writer did not know at their defaults, numbers beyond what
this code writes), and every conversion that exists for its kind is an action.
`Native(k)` and `Proto(k)` are the types of both forms, the latter from the
`.proto` files; `Datum` stands for contents that are only copied. Options are sequences
of length 0 or 1, also the message fields protobuf always leaves optional: a
missing token amount is read as the default, a missing transaction, message, header, or
meta of a versioned transaction is a panic of the decoder (`Decodable`), and an
amount that is not a number is printed as 0 (`AmountString`). Integers keep their width (`U8`, `U32`); a floating-point
amount is a number of units with `Epsilon` as `f64::EPSILON`. Fields that are copied
in both directions are left out. Error variants go by their number in
`transaction_by_addr.proto`: the encoder names the variants and the decoder
matches numbers, and the two tables were compared name by name against the enum
(they agree).

### CompactTimestamp

One stamp and one decoding, with a receiver clock that advances and a sender
clock at a constant skew. Times are whole microseconds.

## 3. Runs

| Run | Instance | Shows |
|---|---|---|
| `ServiceFeed` | 1 client and a call without a token, 10 requests of all kinds (2 malformed), an update per topic and two account updates every filter tells apart, buffers of 2 and a rendezvous channel, 2 updates | types, `DeliveryInv`, refinement of `LossyFeed` |
| `ServiceLive` | 2 clients, account or partial, buffers of 1 that the update fills, 1 update, fairness | `NoLiveDrop`, `DeliveryInv` across disconnects, full buffers, late close events; an entry is removed once and for good (`RemovedForGood`), nothing happens after the loop's return (`OverAfterReturn`); clean-up of partial subscriptions, heartbeats that compete with the update, shutdown, end of streams |
| `ServiceZombie` | 1 account client | **violated**: a gone subscription stays |
| `PluginLife` | 2 validator threads, 2 slots, every topic (a rendezvous channel for entries), 2 updates, a caller with and one without token, every way to load and unload, fairness | header, refusals, the plugin implements `GeyserService!Spec`, what a failed load or an unload releases (`UnloadReleases`), no loop thread is left, a failed bind ends the loop and so reaches the validator (`BindFailureSurfaces`) |
| `PluginPanic` | | **violated**: on_unload panics after a failed bind |
| `ConsumerLoops` | nine loops; 3 slots, 2 accounts, cache of 2, 3 updates, fairness | numbering, the order that is enforced, at most one message after exit, exit on a silent stream, end of the stream, no update refused as stale near slot 0 (`NoneStaleAtGenesis`) |
| `ConsumerSeqs` | 1 account, 3 write versions | **violated**: out-of-order writes are forwarded |
| `HeartbeatTight` | intervals 0, 2 and 5 with 2 missed and products modulo 8, gap 4 = expiration, lag 3 > interval | watchdog bounds, which are tight, and what the overflow does to them |
| `TimestampRange` | modulus 8, clock to 26, skews -3, 0, 2, 4 | **violated**: a stamp older than half the range is reconstructed too young |
| `EndToEnd` | 1 application, 1 validator thread, 2 slots, 2 updates, buffers of 1, every way to load and unload, fairness | `AppFeedSpec`, `NothingOlder`, `HandedNumbered` (the client's numbers count what the validator's log says), `ConsumerSpec`, `UnloadReachesApp` |
| `EndToEndStale` | same with buffers of 2 | **violated**: a late update ends the consumer |
| `ConvertRoundTrip` | every combination of absent, empty and present fields, numbers 0 and at the limit, all error variants; documents of older writers | `Faithful`, `NeverFails` |

Bounds. `MaxUpdates`, `MaxMessages` and `MaxTime` bound histories and clocks only.
Capacities of 1 and 2 make every channel both empty, partly filled and full; two
clients are enough for one to disturb the other, because no handler looks at two
subscriptions together; three slots overflow a cache of two; one validator thread can still be
between `fetch_max` and `try_send` when a response is built, which is what
`NothingOlder` is about (the theorem has any number of threads); intervals 2 and 5
put the product below and above the limit; a lag above the
interval makes ticks pile up; one update fills
a subscriber's buffer of 1, and every heartbeat finds it full until it is read. The theorems below have no such bounds.
Runs do not check for deadlock, but for `ConvertRoundTrip`, where some conversion
always applies: with the plugin unloaded, the consumer returned
or a bound reached, the system does stop.

Fairness. `Fairness` of `GeyserService` asks that a branch of `select!` that stays
ready is taken (crossbeam picks among ready operations at random, and the tick
is always ready again), that a woken tokio task runs, and that a drop which began
completes. Clients, the validator and the operator owe nothing. `ReadingSpec`
adds that clients keep reading; only the properties about readers use it.
`PFairness` adds that `on_load` and `on_unload` finish once called, and that a panic
unwinds. The consumers' `FairSpec` asks that the task runs and its tick fires,
and, strongly, that the end of the stream is read: `tokio::select!` starts polling at
a random branch, so a branch that is ready at every wait is not passed over for
ever by the tick, although each tick takes the loop out of its wait. `EFairness`
joins these and adds that tonic goes on writing the application's response and
that a connection delivers what was written or breaks.
`PartialPinged` is shown for finitely many updates: with a stream of updates that
never pauses, a full buffer can swallow every heartbeat.

## 4. Proofs

All theorems are checked by TLAPS to the last leaf, from the named assumptions in
the modules: keys and malformed keys are disjoint, slots are natural numbers with
0, channel capacities are natural numbers and subscriber buffers at least 1 (tokio
refuses 0), requests and notifications are well-typed, intervals are natural
numbers, the cache holds at least one slot, a u32 holds
every u8, and the documents conversions start from are well-formed (those of an
older writer are protobuf values the decoder accepts).

**GeyserServiceProofs.** `Delivery` proves `TypeOK /\ DeliveryInv` inductive.
`NoLiveDrop` is not inductive alone: that a close event removes no live client
needs that only streams being dropped are ever reported (`ClosedInv`), that a
subscription sits in the map of its own kind (`AcceptedInv`), and that an RPC not
yet answered is registered too (`LiveInv`). That what is sent is in order needs the
whole pipeline: what was sent is older than what is buffered (`BufInv`), which is
older than what the channel of the subscriber's topic holds (`BeforeChan`,
`GotInv`), which is sorted (`ChanInv`). From it follow `TypeCorrect`,
`LiveClientsKept` and `ImplementsFeed` (`Spec => FeedSpec`): a publish, an accepted
subscription and the poll of an update are steps of `LossyFeed`, everything else
stutters. `RemovalIsFinal` (`RemovedForGood`) needs `AddedOnceInv`: an id waits in
the added channel at most once, and not while a map holds it, so a removal leaves
no event behind that could bring the entry back. `ReturnIsFinal`
(`OverAfterReturn`) needs `ReturnedInv`: with the loop its receivers, queues and maps
are gone, so every later send finds its channel disconnected.

**GeyserPluginProofs.** `PluginRunsService`: every step of the plugin is a step
`GeyserService` allows, so `PluginImplementsFeed` follows. `HeaderIsCurrent`: accepted
updates and updates a thread is about to send are at most `highest_write_slot`
(`CoveredInv`), because fetch_max precedes the send. `RefusalNeedsBindFailure`:
`LifeInv` says what keeps the loop alive at each stage of the plugin's life.
`NothingHeld` (`UnloadReleases`) is the
safety half of `NoLoopLeft`: `HeldInv` says who holds the senders and the
service's handle at each stage, through every way `on_load` fails or the server
ends; that the loop then does return is liveness and stays with TLC.

**HeartbeatConsumerProofs.** `WatchdogInv` relates clock, next tick, last heartbeat
and exit time; the three bounds follow for every interval, tolerance, gap and lag,
as does type correctness (`WatchdogTypeCorrect`). `NoFalseAlarms` holds wherever
the product does not overflow.

**GeyserConsumerProofs.** The invariant behind `WritesNumbered` and
`FirstWriteIsFloor` ties the cache to what was forwarded: as long as the slots fit,
every forwarded slot is cached and its entry holds the number of writes forwarded
and the seq of the first. That eviction never takes a slot in
use needs the cardinality argument that a full cache of fitting slots already has the
new one. `ExitBound`: once the flag is set the loop head is passed at most in
"check", so one message at most is handed on. `GenesisNotStale`: a refused update was
below the header or below a limit above 0, and since the rooted slot only rises
and the header is read once, that stays true (`StaleInv`). `ConsumerTypeCorrect` bounds
the cache.

**EndToEndProofs.** The client changes nothing of the server, which holds by the
shape of the composition; the lemma `ServerUnaware` (`ESpec => PSpec`) says so, to
carry over what was proved of the server (`ServerSafe`). `EndSafe` is the composition's inductive invariant: what was
written to a client is increasing and asked for (`WrittenInv`, from the steps of
`LossyFeed`); what the application was handed are messages it has read
(`HandedInv`); the header of an opened response covers the first `base` entries of
the log (`HeaderInv`, from `CoveredInv` and because a response is opened once);
and the client's oldest slot is that header (`OldestInv`). `NothingOlderHanded`
follows, and `AppIsFed`: a write to the application's response is a stutter of its
feed, and handing on the next message is a delivery. `ClientUnaware`
(`ESpec => ConsumerSpec`) is the client's side: what the client
reads, the next entry of the response, the end or an error, is something the
free environment of `GeyserConsumer` may send. So the theorems of `GeyserConsumerProofs`,
taken as an instance, hold of the composed client; four bridge lemmas
(`ConsumerInstance` to `SameNext`) say that the two instances of `GeyserConsumer`
define the same things. `NumbersCountTheLog` (`HandedNumbered`) joins both sides:
with `MatchInv`, which ties each message the client forwarded to the entry of the
validator's log it came from, the numbering proved of the client becomes a
statement about the validator's writes.

**ProtoConvertProofs.** From the parts up to whole documents, for every width,
length and content. Each part has a lemma on what its decoder makes of any protobuf
value (`*Read`), one on what becomes of an encoded native value (`*Round`, `*Stored`),
and one that "the same" is transitive, since a document may be converted again and
again. `Faithful` says nothing of a document in its protobuf form and is not inductive;
`ConvertInv` is: in whatever form a document is, it can be brought back to a well-formed
native one that is the same. `ConversionsFaithful` and `DecodersAccept` follow from
`ConversionsKeep`. `SecondTripExact` needs no run: whatever a decoder accepted, from any
writer, comes back unchanged from the next encoding and decoding, so losses do not
accumulate.

**TickArrays.** `CurrentTickCovered`: rounding down twice gives the array that holds
the tick, for negative ticks too.

**CompactTimestampProofs.** Two times less than a modulus apart are at most one
turn apart (`TurnsApart`); hence `RoundTrip` and `RecentExact` for every positive modulus,
2^32 included: a stamp at most half the range old is reconstructed exactly, whatever
the number of wraps and the skew. Both carry their assumptions on the constants in
their statements.

Only model-checked: the liveness properties (`PartialReaped`, `PartialPinged`,
`LoopStops`, `StreamsEnd`, `NoLoopLeft`, `BindFailureSurfaces`, `ExitHonoured`, `EndNoticed`,
`UnloadReachesApp`), because the prover has no fairness and no ENABLED. Every other
property of a passing run is stated by a theorem.

## 5. Where code and comments differ

What the violated runs show:

1. `ServiceZombie`: added and closed events race; a close event handled first is
   lost, and a full account, program, slot, entry, block or transaction
   subscription stays in its map until a matching update fails. Partial ones are
   saved by the heartbeat (`PartialReaped`).
2. `PluginPanic`: after a failed bind `on_unload` panics, contrary to its expect.
3. `ConsumerSeqs`: `global_seq` is never advanced, so only updates older than
   the first one seen are refused.
4. `EndToEndStale`: an update that is older than the header ends the consumer; the
   module's comment says it is discarded. It takes no late validator: the update
   only has to wait in a channel while a newer one is accepted and the response is built.
5. `TimestampRange`: a compact timestamp is exact for half its range, about 36 minutes
   (theorem `RecentExact`), where `compact_timestamp.rs` (line 3) and geyser.proto
   (line 178) say 71; an older stamp is taken for one as far on the other side of
   the half.

Noticed while modelling, and not the subject of a run:

- only partial subscriptions are pinged (`server.rs` 429-433); geyser.proto (line
  194) says account subscribers are;
- the distance `to_system_time` subtracts has no sign, so the stamp of a sender whose
  clock is ahead is placed in the past, off by twice the difference, where
  geyser.proto (line 178) speaks of accuracy between sender and receiver;
- slots are not monotone on the client's side: an older slot that is not older than
  the header or the rooted limit is forwarded after a newer one, and
  `latest_write_slot` is computed and never read;
- the CLI's PartialAccounts, Transactions and Blocks print "exiting" at the end of
  the stream and loop for ever (`Spinning` in `GeyserConsumer`);
- conversions lose what `Faithful` names: a `ui_amount` below `f64::EPSILON`,
  `num_partitions` in the bincode form, the text of a BorshIoError, and whether an
  empty list of balances or rewards was None;
- `create_swap_transaction` passes the current tick array and the two above it, with
  `a_to_b` true (line 130), a swap that lowers the tick.

## 6. Not modelled, and the plan

Not modelled: account data and other payloads, TLS, tonic and HTTP/2 flow control
(a stream is polled or not), the unwraps of the client on messages this server
never sends, argument parsing and printing of the CLI, the interceptor (a call has
the token or not), the scripts and data outside the plugin. A
`subscriber_buffer_size` of 0 is excluded: tokio panics in every call. Account and
partial subscriptions are composed with a client only for account updates;
`HeartbeatConsumer` assumes of the server what `PartialPinged` says of it.

Done, in this order: `GeyserTypes`, `LossyFeed`, `GeyserService`, `GeyserPlugin`,
`GeyserConsumer`, `HeartbeatConsumer`, `CompactTimestamp`, rendezvous channels,
`EndToEnd`, `ProtoConvert`, `TickArrays`, with the proofs named above.

Left: the heartbeat path from the loop's tick to the watchdog in one timed
composition, that is, how often a full buffer may swallow a heartbeat before a live
server is given up.
