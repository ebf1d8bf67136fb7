# picobroker: TLA+ models, model-checking runs and proofs

picobroker is a small MQTT 3.1.1 broker: a `no_std` library that routes packets
between sessions, two servers that feed it from TCP connections, one on Tokio
and one on Embassy for the RP2040, and a demonstration client. The modules in this
directory model the library, both servers and the client, check them with TLC on small
instances and prove with TLAPS, for every instance, the invariants of the registries, delivery,
the expiry of sessions, the vectors' refinement, and the safety of both servers' tasks.

Paths below are those of the repository; `PROJECT.json` lists the source lines of
every definition.

## Inventory

| Component | State | Operations | Hard because |
|---|---|---|---|
| `PicoBroker` (`src/broker.rs`) | the two registries | `register_new_session`, `remove_session`, `mark_session_disconnected`, `queue_packet_received_from_client`, `process_all_session_packets`, `dequeue_packet_to_send_to_client` | one round handles the packets of all sessions, and the first error (`?`) ends it wherever it is |
| Session registry (`src/session.rs`) | per session: state, keep-alive, last activity, receive and transmit queue | register, remove, mark, update, queue, dequeue; expiry queries | queues and the registry itself are bounded; ids are looked up anew at each use |
| Topic registry (`src/topics.rs`) | entries: filter and subscriber ids | `subscribe`, `get_subscribers`, `unregister_all` (`unsubscribe` and `clear_all` have no caller) | refers to sessions by id only; entries must vanish with their last subscriber; a failed `push` is discarded |
| Topic matching (`src/topics.rs`) | two level iterators | `topic_matches` | empty levels at the ends, look-ahead for `#` |
| `HeaplessVec`, `HeaplessString` (`src/protocol/heapless.rs`) | array and length | push, remove, retain, dequeue_front | shifting loops, length types `u16` and `u8` |
| Packet codec (`src/protocol/`) | none | encode and decode of 14 packet types, variable-length integers, strings | boundaries of lengths and buffers |
| Tokio server (`examples/tokio_mqtt_server`) | broker behind a mutex, notification senders, per connection: buffers, channels, timer | one handler task per connection, one cleanup task | tasks interleave at every `await`; several waits are on bounded channels; two notions of keep-alive |
| RP2040 server (`examples/rp2040_mqtt_server`) | broker behind a mutex, notification slots and channels | the same on Embassy, with a pool of sockets | slots are reused; one packet per read |
| Tokio client (`examples/tokio_mqtt_client`) | a socket | connect, publish once, disconnect | leaves without waiting for its message to arrive |

How they interact: a handler decodes a packet from its connection, takes the
broker's lock, calls `queue_packet_received_from_client`, then
`process_all_session_packets` (for *all* sessions), asks which sessions have
packets pending, takes its own, releases the lock, wakes the other sessions'
handlers through their channels and writes its packets. The cleanup task takes the
same lock every few seconds and removes expired and disconnected sessions. All
broker methods take `&mut self`, so they never overlap.

What makes each part correct:

* registries: a subscriber is always a registered session; no duplicates; entries
  exist exactly while they have subscribers; processing never
  meets an unknown session;
* delivery: every matching session gets a message once, in the publisher's order; a
  publisher is acknowledged only when everybody has the message; a round that
  succeeds leaves nothing unprocessed, and every round ends;
* matching: agrees with MQTT's rules for `+` and `#` (MQTT 3.1.1, 4.7.1), for filters whose `#` is the last level;
* vectors: the array, its length and the loops that shift items behave as a sequence;
* codec: what is decoded is what was encoded, wherever the length field ends, and fits
  the buffer it is written to;
* servers: queued packets are eventually written or the connection is closed;
  wake-ups are not lost; a session whose packets are read in time does not expire; what a
  connection used is free once it ends; no task waits for ever.

## Modules

**`Broker`** is the core: `PicoBroker` with both registries. Each method is one
action, except `process_all_session_packets`, whose loops run one iteration per
action (`pc` is `"next"` in the outer loops, `"collect"` in `get_subscribers`,
`"deliver"` in the delivery loop of `handle_publish`). While `pc # "idle"` no other
method can start. That makes the half-done state an error leaves behind visible.

| Code | Model |
|---|---|
| `SessionRegistry.sessions` | `sessions` (ids in vector order) and the functions `state`, `keep_alive`, `last_activity`, `rx`, `tx`; the fields of an unregistered id have a fixed value |
| `TopicRegistry.topics` | `topics` (filters in vector order) and `subscribers[f]` |
| the local `session_ids` of `process_all_session_packets` | `todo`, from the current session on |
| the locals of `handle_publish` and `get_subscribers` | `cur`, `found`, `entry`, `idx` |
| what the round returned | `result` |
| a handler's `?` | `QueueTxFails`, and `Return(r)` in `HandleSubscribe` and `NextSession` |

Packets keep the fields the broker reads. A PUBLISH also carries who sent it and the
how-manieth message of that sender it is (`from`, `seq`); they stand for its payload
and packet id. `UNSUBSCRIBE`, acknowledgements and server-to-client packets are one
type, `"ignored"`: `process_all_session_packets` drops them all. The client id is stored by
`handle_connect` and read by nothing, so it is left out. Calls that fail before
changing anything (registering a known id or above the limit, any call for an
unknown id) are stuttering steps. `published` is a history variable.

**`TopicName`** has `topic_matches` and `LevelIterator` as operators on sequences of
characters. `Iterate` is one iteration of the loop. **`TopicMatch`** runs it as a
state machine on every name and filter of a bounded length, next to a
reference definition (`Matches`) that splits the strings first. `MCBroker` takes from
`TopicName` which of its filters match; `Broker` itself leaves matching a parameter,
so that what is proved holds for any matching function.

**`KeepAlive`** is one connection of the Tokio server: its handler task, the cleanup
task, the mutex they share, and a clock. A step of the model is what a task does from
one `await` to the next (and within a round of processing, one packet). `pc` is where the handler
is: `"register"`, `"select"` (the main loop), `"queue"` (a packet is read, the lock asked
for), `"round"` and `"error"` (the lock is held), `"remove"`, `"closed"`. The cleanup
task is asleep or in the mutex's queue. Of the broker the connection's own session is
kept. Other connections act on it through rounds of processing, which handle the
packets of all sessions and may fail at any place: `ProcessPacket` may happen in any
handler's round, `RoundFails` at any time in this one's. Notifications and frames are left
out; they only delay the handler, which the model may do anyway. The mutex is Tokio's
(external): it serves tasks in the order in which they asked.

The clock is counted in whole seconds, does not go back, and may move between any two steps: no
assumption on how fast tasks run. Both `last_activity` of the registry, which is
the time at which the handler *got the lock*, and the handler's own, the time at which
it *read the packet*, are there.

**`FrameReader`** is `read_packet` of the Tokio server inside the handler's `select!`.
Bytes are numbers: the type byte and the body of the k-th packet are k's, the length field is
encoded as the code does it, with the base as a parameter (128 in the code). Bytes
arrive in pieces of any size, and `Cancel` is the `select!` taking another branch in the middle of a packet.
A client may go away with only part of what it sent delivered, so the stream can end anywhere.
That every frame decodes is assumed here (the codec is a component of its own).

**`HeaplessVec`** has the array and the length of `HeaplessVec` and `HeaplessString`, each
call an action, the loops of `remove`, `dequeue_front` and `retain` one iteration per action. It
implements **`BoundedSeq`**, where a call replaces a sequence at once. The refinement
mapping `Contents` gives the sequence that the array will stand for when the loop that runs
is over. The width of the length is a parameter; `CapacityAssumption`
says that it can count the capacity, which nothing in the code demands.

**`Codec`** has `encode` and `decode` of all fourteen packet types on bytes. The nine
fixed-size types share two operators and differ in a table of
formats, as they share a trait in the code. A frame goes the way it goes through the Tokio
server: decoded, written by `encode_frame`, decoded by the peer. All `ProtocolError`s are one value.
An index or a slice out of range is `Panic`, and so is `usize` subtraction below 0 when
`OverflowChecks` is on (a debug build). UTF-8 is reduced to ASCII bytes and a byte that is none.

**`BrokerRound`** is the broker the servers see: a record, and an operator for each call.
The servers hold the mutex from `queue_packet_received_from_client` to the last
`dequeue_packet_to_send_to_client` and await nothing in between, so a round is one step. It
has one topic; what differs between topics is in `Broker`. That this is the same broker is checked:
**`AtomicBroker`** makes a specification of these operators, and
**`BrokerRefinement`** maps `Broker` with one filter, which every topic matches (`OneTopicForAll`), to it. The mapping is the
history variable `before`: while a round runs, the abstract broker is still in the state the round started from.
`MCRound` is the instance that is checked, and the refinement is proved for all others.

**`TokioServer`** composes the broker with one handler per connection, the cleanup task and
`ServerState`. An action runs a task from one `await` to the next.

| Code | Model |
|---|---|
| `ServerState.connections`, `notification_senders` | `connections`, `senders`; `channel[s]` counts the tokens in a session's notification channel |
| where a handler is | `pc`: `"register"`, `"insert"`, `"select"`, `"process"` (a packet is read), `"notify"`, `"waiting"` (inside `notify_session`, with the DashMap guard), `"send"`, `"drain"` (notified), `"write"`, `"remove_sender"`, `"remove_session"`, `"done"`; `"failed"` after the early return of registration |
| its locals | `packet`, `to_notify`, `tx_packets`, `frames` (the channel `frame_tx`/`frame_rx`) |
| the client | `socket`, `received`, `closed`, `stalled` |
| `notify_session`: `get`, then `send(()).await` | `NotifySession` if there is room, else `NotifyWaits`, `NotifyContinues` |
| `DashMap::remove` blocks on a guard | `RemoveNotification` needs `~Guarded(c)` |

Guards are taken per entry. A DashMap locks shards, so the code waits in more cases than
the model; and a blocked `remove` blocks a thread of the runtime, in the model its task only.
Time is left out: the timer may strike whenever the handler is in its `select!`, and a session may be
found expired at any scan (`Faults`). When that is right is the matter of `KeepAlive`. That an
encoding fails is left to `Codec`. `failed` is a history variable.

**`TokioClient`** is the demonstration client in the place of one of `TokioServer`'s clients:
CONNECT, wait for CONNACK, PUBLISH with QoS 0, DISCONNECT, shut down. The server is
the one of `TokioServer`, unchanged.

**`EmbassyServer`** is the RP2040 server: as many accept tasks as the broker has places, each
with one socket and one slot of the notification registry that it keeps from connection to
connection, over the same `BrokerRound`. Here packets are made of units (type byte, length
field, body; `Layout` says how many), written and read in pieces, because `read_packet`
reads outside of the `select3` and keeps what is left over in `rx_buffer`. A notification is a `try_send` into a channel of
one; releasing a slot does not empty its channel. A read into a full buffer gives 0 bytes (the
socket is external). The cleanup task's vectors of four hold all sessions of the configurations that are used. Failing
`accept` calls change nothing and are left out.

**`Vectors`** says what `retain` and the removal of an item make of the items in use. `Broker`, `BrokerRound`
and `BoundedSeq` use these operators; `HeaplessVec` has the loops and is shown to implement them.

The theorems are in modules of their own: **`BrokerProofs`** (registries, delivery, and the refinement
of `BrokerRefinement`), **`KeepAliveProofs`**, **`ParsingProofs`** (`FrameReader` and `TopicMatch`), **`HeaplessVecProofs`**, **`TokioServerProofs`** and **`EmbassyServerProofs`**. What
several of them need is in **`VectorProofs`** (sequences, and the two induction lemmas) and
**`BrokerRoundProofs`** (what a round of `BrokerRound` does and what it leaves alone). The modules `MC...` give the instances.

## Runs

| Run | Checks | Instance |
|---|---|---|
| `registry` | `TypeOK`, `SubscribersAreSessions`, `NeverSessionNotFound`, `RegistriesConsistent`, `NoSubscriberDropped`, `PubackMeansDelivered` | two sessions that are removed and come back while packets are queued, one of them publishing (QoS 0 or 1) and subscribing, the other sending everything else; the first subscribes with `a` and `b`, the second with `a` and `#`, which both match the topic `a`: three filters for two entries, so that a SUBSCRIBE is refused; queues of one packet, so that a delivery is aborted after some subscribers got the message |
| `rounds` | `ImplementsAtomicBroker`, `InOrderOnce`, `OkMeansDrained`, `ProcessingEnds` | a publisher with two messages, QoS 0 or 1, a client that subscribes, connects again and disconnects; queues of two |
| `topic_match` | `AgreesWithReference`, `Terminates` | all names up to 4 and filters up to 5 characters over `a / + #`: enough for three filter levels, two of them empty, or `a/+/#` |
| `keep_alive` | `TypeOK`, `ExpiredMeansSilent` | default 2 s, clients asking for 0 and 1 s, so timeouts of 3 and 1 s; scans every 2 s; 7 s of time, enough for a session to expire, a client to come back, and a scan to wait for the lock longer than a timeout; a queue of one, so that it is found full |
| `frames` | `NothingLost`, `EveryPacketRead` | three packets of remaining length 0, 1, 2 and 9 in base 2: length fields of 1, 2 and 4 bytes, with and without a body, every cut of the stream |
| `heapless` | `TypeOK`, `ImplementsSequence` | an array of three, two items, slices of up to four: every call on every content, full and empty included; two different items are what a lost, doubled or old item shows with |
| `codec` | `RelayIntact`, `WrittenBackUnchanged`, `PanicsOnlyOnUnderflow`, `OnlyLongestDropped`, `LengthFieldSizeIrrelevant` | 24,000 frames: every first byte with every short body; CONNECT, SUBSCRIBE, UNSUBSCRIBE with each byte changed, cut and extended; PUBLISH with all flags around the limits of topic (4) and payload (130), so that lengths cross 127/128; length fields in their shortest form and one byte longer; fixed-size packets with lengths on both sides of 128, 2^14 and 2^21, of whose bodies only the two bytes that their decoders look at are there |
| `tokio` | `TypeOK`, `WakeUpNotLost`, `InOrderToClient`, `CleanedUp` | a publisher with two packets of any kind (PUBLISH, PINGREQ, malformed) and a subscriber; notification channels of one and frame channels of two, so that both fill; clients that close or stop reading, timers, expiring sessions |
| `client` | `PublishedIsReceived`, `ClientEndsWell`, `QueuedIsDelivered`, `TurnedAwayOnlyWhenFull` | the demonstration client, a subscriber and a third connection for two places; the shipped channel capacities 8 and 32, which these clients cannot fill |
| `embassy` | `TypeOK`, `RegistrationSucceeds`, `WakeUpNotLost`, `NoGaps` | two accept tasks, three connections, so that a slot passes on while the other task still has the old session on its list; a publisher with three messages, so that a gap would show; close, timeout, expiry |
| `embassy_buffer` | `RoomInSelect`, `ClosedFreesSlot` | one task, two connections of three packets, written and read in pieces of any size: two-byte, longer, with a longer length field, malformed, and too long for the buffer of six units; close, stall, timeout |
| `tokio_ping` | `PingsAnswered`, which is violated | one client, nine PINGREQs, the shipped capacities |

`rounds` has one filter. `MCBroker_overlap.cfg`, a configuration beside the runs, checks `InOrderOnce` with a subscriber whose two
filters `a` and `#` both match, queues of two and rounds that are aborted (215,000 states, no error). In the runs it
is `NoSubscriberDropped` of `registry` that overlapping filters would break.

`CHECK_DEADLOCK FALSE` is set where the system may rest: nobody has to call the broker or to send
packets (and the bound on messages may be used up), a pure function returns
(`TopicMatch`, `Codec`), time is bounded (`KeepAlive`). `heapless` checks it.

Bounds. `MaxPublish`, `MaxSent` and `MaxAccepted` bound what clients do; they are in the guards of
receiving, sending and accepting. Two messages are what an order needs, three what a gap needs. Clock
readings and keep-alive values are one value each in `Broker`: it stores them and
compares them only in the expiry queries, which are in `KeepAlive`. The
number of sessions is two at a time: the loops treat sessions one after the other,
and a delivery that reaches one session and fails at the next is there with two.

Fairness. `FairSpec` of `Broker` asks for weak fairness of `Process`: once
`process_all_session_packets` is entered the thread runs on; nothing in it waits.
No fairness is assumed of calls, so `ProcessingEnds` does not depend on what
callers do. `FrameReader`'s asks that the handler's task runs on (weak fairness of its
steps), and strong fairness of reading the body, which `Cancel` disables again and again:
`select!` polls its branches in random order, so a ready read is not passed over for ever.
`TopicMatch` is a function that runs on: weak fairness of its loop. In the servers a task that
can go on is polled by the runtime: weak fairness of each handler's steps taken together, which does not say
which branch a `select!` takes; and of the cleanup task's scan, whose timer fires again and again. In `EmbassyServer` a timer that
is not rearmed strikes. `TokioClient` adds the client's task, and that connections are accepted. Nothing is
assumed of other clients.

`NoSubscriberDropped` is stated for `MAX_SESSIONS <= MAX_SUBSCRIBERS_PER_TOPIC`, which
every configuration in the repository satisfies. Without it `get_subscribers` drops
what does not fit (`let _ = subscribers.push`). `WakeUpNotLost` and `NoGaps` are stated up to the first round that fails:
what a failed round leaves behind is described below.

### Where code and text disagree

The first is a run; the others are kept as configurations beside the runs, each with
the property of its module that fails: `tlc -config <cfg> <module>` gives the trace.

`tokio_ping` (`PingsAnswered`): the README of the repository lists PINGRESP as supported. The handler's own
session is among the sessions with pending packets, so each packet it answers puts a token into
its own notification channel. When `select!` takes the socket's branch nine times before the
notification's, the ninth `notify_session` waits for room in a channel that only this task
reads (`examples/tokio_mqtt_server/src/handler.rs:230`). The handler is stuck for good, its timer with it.

`MCTokio_close.cfg` (`CleanupNotBlocked`, "Remove notification sender", `handler.rs:349`): `notify_session` keeps
the DashMap guard across the `await` of `send`. A publisher waits for room in the channel of a
subscriber that has left its loop; the subscriber's `remove_notification` waits for the guard; nobody reads
the channel any more.

`MCTokio_wakeup.cfg` (`QueuedIsDelivered`, "Send notifications to sessions with pending packets",
`handler.rs:228`): when a round fails, here because the PUBACK finds a full queue, the list of sessions to notify
is empty, although messages were queued before the failure.

`MCTokio_count.cfg` (`ConnectionsAreActive`, "Get the number of active connections", `server.rs:124`): the
cleanup task takes a disconnected or expired session out of the map and the broker and leaves its handler and socket as they
are. The client stays connected, is not counted, and none of its packets is processed.

`FrameReader_pieces.cfg` (`WellFormedIsRead`, "Read a complete MQTT packet from the stream",
`examples/tokio_mqtt_server/src/io.rs:39`): `read_packet` waits for two bytes and parses the length
field. If its continuation is still on the way the answer is `IncompletePacket`, which the handler
takes for a protocol error and closes the connection. In `frames` this is the
`status # "open"` of `EveryPacketRead`. `MCEmbassy_split.cfg` (`IncompleteIsContinued`, "Incomplete packet, continue
reading", `examples/rp2040_mqtt_server/src/handler.rs:206`) is the same on the RP2040.

`MCEmbassy_pipelined.cfg` (`CompleteIsRead`, "Read complete MQTT packet from socket", `io.rs:39`): one packet is decoded
per read; of two that arrive together the second stays in the buffer until the client
sends something more.

`MCEmbassy_silent.cfg` (`SilentClientTimedOut`, "Managing keep-alive timeout", `handler.rs:35`): the
reads inside of `read_packet` have no timer. A client that falls silent in the middle of a packet keeps its task and its slot.

`KeepAlive_zero.cfg` (`KeepAliveZeroDisables`): `is_expired` honours a keep-alive of 0 ("keep_alive=0 means disable
keep-alive mechanism. Session should only be cleaned up when TCP connection closes",
`src/session.rs:44`), but the handler's timer is set once, from the default, and closes
the connection of such a client after 90 s without a packet
(`examples/tokio_mqtt_server/src/handler.rs:158`). A client that asks for more than the
default is dropped early in the same way; no property is about this timer.

`TopicMatch_literal.cfg` (`MisplacedHashIsLiteral`): to see whether `#` is the last level, `topic_matches` takes the next
level off the filter, also when there is one. The filter `#/` then matches the name
`#`, and `sensors/#/temp` does not match the very same name. Two tests say by their names
(`test_invalid_wildcard_placement_literal_treatment`,
`test_hash_wildcard_literal_treatment`) that such a `#` is literal. Filters with `#`
in its place are not affected: `topic_match` shows that they agree with the rules of MQTT 3.1.1, 4.7.1. Section 4.7.2, by which a
wildcard at the start matches no topic that begins with `$`, is not in the code: `#` and `+/...` match such topics too. The reference
definition leaves it out as well.

Three more the codec's properties state as exceptions. `encode_frame` has no room for the length of a topic and the packet
id ("We need space for packet type (1) + remaining length (up to 4) + payload", `io.rs:82`), so a PUBLISH
at the limits is accepted and then dropped: `OnlyLongestDropped` says which ones and that there are no others.
The decoders of fixed-size packets ignore the size of the length field: a PUBACK whose length 2 is written in two
bytes is read at the wrong offset. `LengthFieldSizeIrrelevant` is about the other four. The length check of the fixed-size packets subtracts the
size of the length field from the size of the packet: it panics in a debug build for two-byte packets with a length from 128 and for
four-byte packets with a length from 2^21, which the Tokio `read_packet` does not refuse. `PanicsOnlyOnUnderflow` says that nothing else panics.

## Proofs

`BrokerProofs` proves, for every set of sessions, topics and filters, every matching
function and every limit (with room for one subscriber in an entry, and finite sets
of sessions and filters: `SetsAssumption`, `LimitsAssumption`, `MatchAssumption`):

* `TypeCorrect`: `Spec => []TypeOK`;
* `SubscribersStayRegistered`: `Spec => []SubscribersAreSessions`;
* `RegistriesStayConsistent`: `Spec => []RegistriesConsistent`;
* `ProcessingFindsSessions`: `Spec => []NeverSessionNotFound`.

`LimitsAssumption` asks for `MAX_SUBSCRIBERS_PER_TOPIC` above 0: with 0 a new entry's
first `add_subscriber` would fail after the entry limit was checked, a case the
model leaves out and no configuration has.

None of the last three is inductive. The invariant that is, `RegistryInv`, joins
`TypeOK`, `SubscribersAreSessions`, `RegistriesConsistent`, `NeverSessionNotFound` and
`NothingStale`: during a round, every id in the snapshot `todo` and every id in
`found` is registered. The argument is:

1. `todo` is taken from `sessions` and `found` from subscriber vectors, which name only
   registered sessions; nothing in a round removes a session, since calls do not overlap.
   So each lookup succeeds and no step returns `SessionNotFound`.
2. Types of the vectors survive `remove` because vectors have no duplicates
   (`RemoveElementProperties`, `KeptProperties`), which is why `TypeOK` alone is not
   inductive and is proved together with `RegistriesConsistent`.
3. `remove_session` takes the id out of every subscriber vector before the session
   vector (`RemoveKeepsRegistries`), and `subscribe` is only reached with an id of
   `todo`, hence a registered one (`SubscribeKeepsRegistries`).

`KeepAliveProofs` proves for every default keep-alive above 0, cleanup interval, queue size and
set of keep-alives (`KeepAliveAssumption`):

* `KeepAliveTypeCorrect`: `Spec => []TypeOK`;
* `OnlySilentSessionsExpire`: `Spec => ExpiredMeansSilent`.

A session is silent here if its handler has read no packet; one that waits in the socket, or has lost the `select!` to another branch, does not count.

The danger is that the cleanup task compares a clock reading taken before it waited for
the lock with activity recorded after. The inductive invariant `Recorded` says what the
registry knows: every packet the handler has read, but for the one it is waiting to
queue; and, once the task has read the clock, every packet read before that, unless
its handler is *ahead of the task* in the mutex's queue. Such a handler gets the lock
first and records a time not before the task's reading. So when the task scans,
`last_activity` is at least the time of the last packet read before the scan's clock
reading, and if it is later than the reading itself the saturating subtraction gives 0. The
proof needs both the order of the mutex and the saturation.

The second part of `BrokerProofs` continues from `RegistryInv`, for every limit, matching function and number of messages:

* `OkDrainsEveryQueue`: `Spec => OkMeansDrained`;
* `EverySubscriberFound`: `Spec => []NoSubscriberDropped`;
* `AcknowledgedIsDelivered`: `Spec => PubackMeansDelivered`, if `MAX_SESSIONS <= MAX_SUBSCRIBERS_PER_TOPIC`;
* `MessagesStayInOrder`: `Spec => []InOrderOnce`.

Each has its own inductive invariant. `ReceiveQueuesDrain`: while a round runs, a session that is no
longer in `todo` has an empty receive queue; at the end `todo` is empty. `FoundIsComplete`: `found` has every registered
session that subscribes through an entry already visited or, in the current entry, before `idx` (`CollectedSoFar`); this is where the
room in `found` is needed, and it is there because `found` has no duplicates and names sessions only
(`RoomForSession`), and because the registry has no more than `MAX_SESSIONS` (`WithinLimits`, `CapacitiesRespected`). `DeliveredSoFar`: during the delivery loop every session of `found` before `idx` has
the message in its queue, so that when the loop is over and the PUBACK is queued all have it; `PublisherKnown` says whose PUBACK it is. The hypothesis of
`AcknowledgedIsDelivered` is the one `NoSubscriberDropped` carries in its statement: without it
`get_subscribers` discards what does not fit, and the publisher is acknowledged all the same. Every
configuration in the repository satisfies it. `OrderInv`
joins four parts: a client's messages stand in its receive queue in order (`ReceivedInOrder`); the message in hand
is older than all of them (`InHandIsOldest`); what is in a transmit queue is older than both, and not younger than the message
in hand once that was delivered there (`QueuedIsOlder`, with `StillToDeliver`); and `InOrderOnce` itself. An early return
leaves the message in hand undelivered and never comes back to it, so it breaks none of them.

The last part of `BrokerProofs` proves that the loops of `process_all_session_packets` amount to the single step that the
models of the servers take for a round:

* `RoundsAreAtomic`: `RoundSpec => ImplementsAtomicBroker`, if `OneTopicForAll`.

The hypothesis says that there is one filter, that every topic matches it and that there is room for its entry: `BrokerRound` has one list of
subscribers and no registry of topics. `MCRound` assumes it, so TLC evaluates it on the instance of `rounds`. Sessions, limits, queues and the
mix of packets are arbitrary, and rounds that fail are included.

The calls outside of a round agree with the operators of the same names one by one (`RegisterAgrees`, ...). For a round the invariant is
`RoundPoint`: at every place in the loops, *the rest of the round*, applied to the broker as it is, gives what the whole round gives
when applied to `before`. What the rest is depends on the place: the rest of the deliveries, then the rest of this session's
packets, then the sessions still in `todo`, unless an error has ended it (`Progress`, `Delivering`). Then a step of a loop unrolls
one turn of the recursive function that stands for this loop in `BrokerRound` (`DrainUnrolled` and its like), which leaves the
result as it was: a stutter; and when the round returns nothing is left to do, so that what `Broker` has come to is what
`AtomicBroker` computes. The two ways of looping differ where `Broker` has locals: `todo` and `found` were
collected earlier. Besides `RegistryInv`, `WithinLimits`
and `ReceiveQueuesDrain`, two invariants say that they are still what would be collected now, `TodoIsRest` and `FoundIsPrefix`, and one that a session
that is not registered has an empty transmit queue, as it gets it in `BrokerRound` (`AbsentSendNothing`).

`ParsingProofs` has the two components that take input apart. About `read_packet`, for any base of the length field, any packet lengths that four of its digits can hold
(`FrameAssumption`), any number of packets, any cuts of the stream and any cancelled reads:

* `NothingIsLost`: `Spec => []NothingLost`.

`NothingLost` itself is not inductive: that `Decode` takes one whole packet off the buffer depends on the length that `ParseLength` found some steps
earlier. `FrameInv` adds that what was sent is packets (`FramesSent`) and that `total_len`, once known, is the length of the packet that is next
(`LengthKnown`); it needs this of the local variable only, because the buffer only grows until then. `ParseLength` establishes it in three steps. What the
length field has is read off `Encoded` (`LengthWritten`: it ends at the first digit without the top bit, and the digits add up to the
length). Whatever is in the buffer begins the rest of the stream, which begins with the next packet (`BufferBegins`), so what is in the buffer and
belongs to a length field is that field (`Begins`). And then the parser, if it finds an end, finds that end (`LengthParsed`). Whether enough bytes are there for it to find
one is another matter, and `WellFormedIsRead` fails there. The byte stream is `FlattenSeq`, by recursion over the packets; `FlattenIsJoin` turns it into a
chain of concatenations, from which `FlattenAppend` and `FlattenSplit` follow with the induction lemmas of `VectorProofs`.

About `topic_matches`, for names and filters of any length over any characters (`CharactersAssumption`; the bounds are any numbers):

* `MatchesLikeReference`: `MatchSpec => []AgreesWithReference`.

The reference cuts a string at its separators and at both ends (`Cuts`), numbers the cuts in their order (`Rank`), and takes as the i-th level what is between
cut i - 1 and cut i; it knows nothing of `remaining` and `pending_empty`. `At` says which state of an iterator stands for which cut: `pending_empty` is the
cut behind a separator that ends the string, the only one for which `remaining` does not tell. One call of `LevelIterator::next` goes from a cut to
the one after it and yields the level between them (`NextLevel`), and from the last cut it yields `None` (`NoneAtEnd`). The invariant is `Agreed`: while the loop runs, both
iterators have yielded the same number of levels, and each level of the filter so far is `+` or the name's, and not `#`; after it, what it returned is
right. For a `#` the code takes one more level off the filter; that there is none is what `HashOnlyLast` says, and without it the step fails, as
the run of `MisplacedHashIsLiteral` shows.

`HeaplessVecProofs` proves for every capacity, every set of items and every length type that can count the capacity
(`CapacityAssumption`):

* `VectorTypeCorrect`: `Spec => []TypeOK`;
* `VectorImplementsSequence`: `Spec => ImplementsSequence`, the refinement of `BoundedSeq`.

A call that starts a loop is the abstract step; every iteration of the loop and its end are stutters. For that `Contents`
joins two sections of the array: what the loop has put in its place, and what it is still going to move or keep
of the rest. `ShiftKeepsSequence`, `RetainKeepsSequence` and `RetainSkipsItem` show that one iteration moves an item from the second to
the first and changes nothing of the whole, although the array itself holds an item twice in between. `CapacityAssumption` makes the
modulus of `length as u16` (`u8`) the identity.

Retention is written as a recursive function over the length (`Kept`) rather than with `SelectSeq`, and the loops of
`BrokerRound` likewise: that a set of numbers with 0 and every successor is `Nat` is a theorem without an operator as
parameter (`NatSet`), from which `Iteration` follows for any property that can be written as membership in a set. That is how loops of any length
are reasoned about here.

`BrokerRoundProofs` shows that a round of `BrokerRound`, of any length, failed or not, leaves the set of sessions as it is,
keeps all capacities and the consistency of the registries (`RoundSound`), and leaves a session *quiet* that was: one without a
subscription and without packets in its queues gets none from the others' packets (`Quiet`, `DeliverReach`, `DrainReach`). It also keeps the
order of messages (`RoundOrder`, below).

`TokioServerProofs`, for every finite set of connections and every capacity (`TokioAssumption`, `RoundAssumption`):

* `TokioTypeCorrect`: `Spec => []TypeOK`;
* `WakeUpsAreKept`: `Spec => []WakeUpNotLost`;
* `EndedIsCleanedUp`: `Spec => []CleanedUp`;
* `TurnedAwayWhenFull`: `Spec => TurnedAwayOnlyWhenFull`;
* `MessagesInOrder`: `Spec => []InOrderToClient`.

The inductive invariant of the first four has four parts: `TypeInv`; `BrokerInv`, the broker is sound; `HoldsInv`, which says
at which places of the handler its session, connection and sender exist, and that a session that is not in its loop yet is quiet;
and `WakeUpNotLost`. `HoldsInv` is what `WakeUpNotLost` needs: a handler that is about to be notified has its sender in the map, and one that
enters its loop has nothing in its queue that was announced before it could be. A full channel is no danger, because it
already holds the token. `TurnedAwayWhenFull` counts: sessions of the broker are connections between registration and removal.

`MessagesInOrder` needs more than what is under way *to* a client. `OrderInv` also has what is under way *from* each client
(`Arriving`: its receive queue, the packet its handler has read, its socket, and the message it will send next): this is in order, is the client's own, and is newer than anything of
that client that is under way to anybody. So a message that is delivered goes behind everything older in every queue, and sending the next one keeps
all that. Steps of the handler then only move packets within the two lines, or lose some of them: a closed client's last
frame, a removed session's queues. `PlaceInv` says that a handler's list of packets is empty whenever it takes a queue off the broker, which would
otherwise overwrite it. What a round does to the order is `RoundOrder` of `BrokerRoundProofs`: with `Ordered`, the same statement
about one broker and any surroundings, as an invariant of the delivery loop, the loop over a session's packets and the loop over
sessions, including the rounds that fail half-way (`DeliverOrder`, `DrainOrder`, `ProcessAllOrder`).

`EmbassyServerProofs`, for any number of slots, which is `MAX_SESSIONS`, any number of connections, any buffer of at
least two bytes, and any layout in which a packet has a type byte and at least one byte of length (`EmbassyAssumption`):

* `EmbassyTypeCorrect`: `Spec => []TypeOK`;
* `BrokerNeverFull`: `Spec => []RegistrationSucceeds`;
* `EmbassyWakeUpsAreKept`: `Spec => []WakeUpNotLost`;
* `BufferHasRoom`: `Spec => []RoomInSelect`;
* `DeliveredWithoutGaps`: `Spec => []NoGaps`, if `QUEUE_SIZE <= TX_PACKETS` and publishers send nothing else (`PublishersOnlyPublish`).

The invariant of the first four is `TypeInv`, `BrokerInv`, `SlotInv`, `HoldsInv` and `WakeUpNotLost`. `SlotInv`: a session belongs to one slot, ids
only grow, and the slot's entry in the registry is its session's in the loop and empty once it is unregistered. `HoldsInv`: every session of the
broker belongs to a slot that will remove it, so a slot that registers faces at most one session per other slot
(`BrokerNeverFull`, by a surjection from slots to sessions). A slot's channel may hold a token of its last
session, and a list may name a session that is gone: the first wakes a task for nothing, the second finds no slot, and neither
takes a wake-up away from anybody. `TypeInv` carries the room in the buffer: a packet of at least
two bytes leaves it, and only `read_packet` can fill it. With a buffer of one byte the task would leave
`read_packet` with a full buffer.

`DeliveredWithoutGaps` is about the whole way of a message, from the client's `write` to another client's `read`. Its
first hypothesis is what the code relies on: the vector in `handler.rs` holds 8 packets, queues hold 5 (`main.rs`) or 8 (the default of `server.rs`);
with longer queues `Collect` drops packets without a word. The alias `LargeMqttServer` of the RP2040's `main.rs` has queues of 16 (and 16 sessions, for
which the cleanup task's vectors of four are too short as well); nothing uses it, and neither the runs nor the theorem are about it. The second makes "without a gap" a statement about `seq`, which counts all packets of a client.
The invariant `GapInv`, on top of the one above, has four parts:

1. `PlaceInv`: the task has packets in hand only while it notifies and writes, and so overwrites none when it collects the next ones.
2. `StreamInv`: the units a client has written, in the buffer, in the socket or not sent yet, are whole packets in the order of their
   numbers, but for the rest of the first one at the front (`Whole`); the packet in hand is the one before. So the number of packets that were handled
   can be read off what is still to come (`Handled`): nothing is handled twice or skipped, however the stream is cut.
3. `RestInv`: between rounds no session has anything left to handle.
4. `FlowInv`: in what has reached a client and is under way to it (`UnderWay`), the messages of each publisher follow each other without a gap, and the last one
   is the last that was handled of this publisher, or there is none (`FlowOk`). There is none if the client does not subscribe yet, and none of
   publishers that have not come yet.

A round that goes well handles exactly the packet it was given (`RoundOk`, `Handles`): a message goes to the end of the queue of each subscriber, and to no other.
With 2 and 3 it is the one after the last one handled, so 4 is preserved. All other steps move packets from one place in `UnderWay` to the
next (`Keeps`), or empty the queue of a session that is taken off the broker and will get no more (`Drops`).

Only model-checked: everything about the codec, which is a large distinction of cases on single bytes that TLC enumerates and of which the provers find few
on their own. Liveness (`ProcessingEnds`, `Terminates`, `EveryPacketRead`, and the ones of `client` and `embassy_buffer`) is out of the prover's reach.

## Not modelled

Hardware bring-up of the RP2040 (Wi-Fi, PIO, network stack) and logging are I/O without state of the broker. `unsubscribe` and
`clear_all` of the topic registry have no caller. `Display` of errors and packets is wording. The Tokio
server's `main.rs` and the RP2040's `server.rs` only set sizes and hold references.

## Plan

Done: all modules of the model, and the theorems above. What would come next: the round trips of the codec, one packet type at a time.
