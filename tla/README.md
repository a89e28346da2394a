# A verification of SideAssist.Client.Qt

SideAssist.Client.Qt is a C++/Qt library with which a program makes some of its
settings (*options*) and some of its results (*parameters*) available through an
MQTT broker. This directory holds TLA+ models of the library, TLC configurations
that check them on small instances, and TLAPS proofs of the main safety properties
for instances of any size.

## 1. Inventory

| Part | Source | State | Operations |
| --- | --- | --- | --- |
| Client: connection | `src/src/client.cpp` | the QMQTT client | `connectToHost`, slots of `connected`: `uploadAll`, `setupSubscriptions` |
| Client: options | `src/src/client/client_option.cpp` | `options_`, slot connections | `addOption`, `option`, upload of value and validator, subscription, unsubscription |
| Client: parameters | `src/src/client/client_parameter.cpp` | `parameters_` | `addParameter`, `parameter`, upload of value and validator |
| Client: remote messages | `src/src/client/client_handle_message.cpp` | none of its own | `handleMessage` |
| Named value | `src/include/named_value.*` | name, value, validator | `setValue`, `setValidator`, `validate` |
| Value validators | `src/include/value_validator.hpp`, `src/src/value_validator.cpp`, `src/src/value_validators/` | immutable | `validate`, `serializeToJson`, `deserializeFromJson` of ten classes |
| FieldEnum | `src/include/field_enum.hpp` | a field of flags | bit operations, `between` |
| Log | `src/src/client/client_logging.cpp` | `log_file`, files on disk | `installDefaultMessageHandler`, the message handler, `handleMqttError` |
| Applications | `src/apps/` | options and parameters of their own | echo, client_id_tester, screenshot_copier |
| Tests | `src/test/` | | five tests of validators |

How they interact. An application creates named values through the client. A named
value emits `valueChanged` and `validatorChanged`; the client's slots publish the
change. Every option has the topics `side_assist/<id>/option/<name>` (the value,
retained by the broker), the same with `/set` (where the remote side writes) and with
`/validator` (the validator as JSON, retained). A parameter has `param` instead of
`option` and no `/set`. When the connection is made, the client uploads everything
that is defined and subscribes; for an option without a value it also subscribes to
the option's own topic, where the broker keeps the value of an earlier run. A message
passes the routing, parsing and validation of `handleMessage` before it becomes the
value, which publishes it in turn.

What is hard here: values that change while the connection is down or being made; the
echo of the client's own publications while it is subscribed to its own topic;
messages for an earlier connection or process; what a crash leaves on the broker; a
validator that has to mean the same to its reader as to its author; several threads
that add options; an id that changes, and names that contain the separator of topics;
an application whose parameters follow its options one publication later; a directory
that changes while the watch on it does. The file `PROJECT.json` lists these hazards with their lines, and the properties aimed at them.

What makes each part correct:

- *Client*: the broker ends up with the newest value and validator of everything;
  every option can be set remotely; a saved value is recovered, and only a current
  one; no message is misrouted; subscriptions to an option's own topic are temporary.
- *Validators*: a validator that is published and read back accepts the same values;
  reading never builds a senseless validator; the tests for integers and for paths
  are exact.
- *Log*: no log and no line is lost, a process never continues an earlier run's log, the
  numbers of old logs tell their age, and only a race or the system makes the set-up fail.
- *Maps and locks*: whoever asks for a name gets the same object, connected once and
  subscribed to; no call waits for ever.
- *Topics*: no option gets a value meant for another, or for another id.
- *screenshot_copier*: what is watched is what the option says; no complete image is
  overlooked, and none takes the place of a newer one that this process copied.
- *echo, client_id_tester*: the parameter ends up equal to its option on the broker.

## 2. Modules

| Module | Models |
| --- | --- |
| `ClientSync` | options, parameters, named values, connection and remote messages of the client, with the broker, the network and the remote side as environment |
| `MCClientSync` | values and validators for TLC |
| `MCRefusal` | `ClientSync` with a record of the argument `accept_remote_initial_value` |
| `ClientSyncProofs` | theorems about `ClientSync`: types, values, validators, routing, subscriptions, remote updates |
| `ValueReplication` | abstract specification: current values, a channel, a store that keeps the last |
| `ClientReplication` | the refinement mapping from `ClientSync` to `ValueReplication` |
| `MCReplication`, `ReplicationProofs` | the refinement for TLC, and its proof |
| `TopicNames`, `MCTopicNames` | topics as segments: names with `/`, and `setClientId` |
| `TopicProofs` | theorems about `TopicNames` |
| `OptionRegistry`, `MCRegistry` | the map of options and its lock, with several threads |
| `RegistryProofs` | theorems about `OptionRegistry` |
| `EchoApp`, `MCEcho` | `ClientSync` composed with echo and client_id_tester |
| `EchoProofs` | theorem about `EchoApp` |
| `ScreenshotCopier`, `MCScreenshotCopier` | the application screenshot_copier, with the file system, the watcher and the clipboard |
| `ScreenshotProofs` | theorems about `ScreenshotCopier` |
| `LeafValidators` | JSON values; FieldEnum; the validators without components: what they accept, how they are written and read |
| `Validators` | all validators, `Abstract::deserializeFromJson`, and a validator's way from client to reader |
| `MCValidators` | instances of `Validators`: strings and a file system, validators, texts, values |
| `ValidatorProofs` | theorems about `LeafValidators` and `Validators` |
| `LogFile` | rotation and opening of the log by several processes, and the message handler |
| `MCLogFile` | symmetry of the processes for TLC |
| `LogFileProofs` | theorems about `LogFile` |

### ClientSync

One action is one event handler, or one call of the application, with every slot it
runs: the client lives in one Qt event loop and its slots are direct connections, so
nothing comes between `setValue` and the last slot of `valueChanged`. Between the
slots of QMQTT's `connected` there is room for the application (its slots of
`Client::connected` run there), hence two actions, `HandleConnected` (the slot
`uploadAll`) and `SetupSubscriptions`, with phase `announcing` between them.

| State | Code |
| --- | --- |
| `phase` | QMQTT's connection; `Online` is `isConnectedToHost()`, true from the moment the socket is open, before CONNACK |
| `created` | the keys of `options_` and `parameters_` |
| `value`, `validator` | `NamedValue::value_`, `validator_` |
| `watching` | options whose `valueChanged` is connected to `unsubscribeInitialValueWhenOptionIsNotUndefined`; several connections of the same slot count once, since `disconnect` removes all of them, and the slot after the first no longer runs |
| `toBroker`, `toClient` | packets in flight (external) |
| `retained`, `subs` | the broker's memory (external) |
| `steps` | the number of calls, remote messages and failures so far, at most `MaxSteps` |

`AddOption`, `AddParameter`, `AppSetValue`, `AppSetValidator` and `ConnectToHost` are
the application's calls; `HandleConnected`, `SetupSubscriptions` and `HandleMessage`
the client's handlers; `SocketUp`, `ConnectFails`, `LinkLost`, `Restart`,
`BrokerReceive` and `RemoteSet` the environment. Payloads are abstract: a value, a
validator (by identity), `Malformed` (not JSON, or without a `value`) or `Empty`.

Assumptions about the environment: MQTT delivers in order within a connection; what
is in flight when the connection breaks is lost (QMQTT keeps no session: `setCleanSession(true)`);
the broker starts a clean session without subscriptions and without queued messages;
`/set` messages are not retained. `Restart` may happen at any time and keeps nothing
but what the broker retains. The broker may initially retain anything that an earlier
process could have left.

### Validators

A validator is a record with its class and members, a JSON value a record with its
type and contents. `Serialize` and `Deserialize` translate all ten classes, the order
in which `Abstract::deserializeFromJson` asks them, and what each does with malformed
input. The three steps are: the client has a validator (`given`), it has been written
as JSON (`written`), a reader has read it (`read`); in another start, the reader meets
an arbitrary text. The readers of `SingleType` and `ListItem`, which
`Abstract::deserializeFromJson` does not ask, are called directly in stages of their
own; the type that `SingleType`'s reader leaves uninitialised is any type, or none.
Strings are abstract but for their prefixes and suffixes; a field of flags is the set of
those it has, with the element `Unnamed` for all bits that no flag has; the file
system is a constant function from strings to what `QFileInfo` says.

`validate`, `serializeToJson` and `deserializeFromJson` call themselves for what is
inside. In the model they are recursive functions, `Accepts`, `Serialize` and
`Deserialize`, whose domains `Validators` and `Jsons` are built level by level: a
client's validators nest `Depth` deep, for any `Depth`, and a reader's one deeper, because
`ListItem`'s reader unwraps the list of another one. A validator without items writes at
most three levels of JSON, and each that contains it two more, which bounds `Jsons`. An
object is a function on all `JsonKeys`, `Undefined` where the member is missing, as
`QJsonValue::operator[]` returns it.

`FieldModulus` is the 2^32 to which FieldEnum truncates a number. TLC computes with
32-bit integers, so the runs use 2^4 instead: the flags need three bits, the fourth is
one without a name, and numbers up to 23 wrap around just as numbers above 2^32 do. `INT64_MAX`, the default for what
is no integer, is the largest field value after truncation in both cases.

### LogFile

Programs of one client id that share a working directory share its log directory. Each
process carries out `installDefaultMessageHandler` in steps, one for each access to the
file system: `CheckDirectory` (`isDir`), `MakeDirectory` (`mkdir`), `CheckCurrent`
(`exists`), `Search` (one pass of the loop), `Rename`, `Open`. `Refused` is the failure
of one of these for a reason of the system's. `Write` and `Flush` are the message
handler's two, and `End` is `exit(1)` in `handleMqttError` or any other end.

| State | Code |
| --- | --- |
| `has_dir`, `dir` | the directory `log`; the file under each name (`Current` is `{id}.log`, `n` is `{id}.{n}.log`) |
| `logs`, `contents` | the files ever created, by age; the number of each process's lines in them |
| `step`, `count`, `log_file` | where a process is, the local `count`, the static `log_file` |
| `lines` | how many messages the handler has finished |
| `before`, `alone` | history variables: what existed when a process began, and who has been undisturbed since then |

Assumptions: `QFile::rename` is atomic and does not replace an existing file, as Qt's
documentation says; an open file may be renamed and stays open; what is appended is
not overwritten by others; nobody else removes logs.

### ValueReplication and ClientReplication

What an author of a program may believe of the client: each name has a current value;
each change goes, once and in order, through a channel to a store that keeps the last
one; when a connection is made, everything is sent once (`Sends` counts: an update that
a step appends twice is not allowed); a lost connection takes the
channel with it, a crash everything but the store. There are no options, parameters,
validators, subscriptions or topics. `ClientReplication` maps `ClientSync` to it: the
store is what the broker retains on the topics of values, the channel is the packets to
the broker, of which only publications of values count. `up`, the time between the
socket and the slots of `connected`, is the link `open`: changes are sent although not
everything has been announced. `ImplementsReplication` is the abstract specification.

### TopicNames

A topic is a sequence of segments and a name one or more of them. `SetClientId` changes
the id at any time, and with it what is published on and what `handleMessage` takes for
the prefix, but not what is subscribed to. Names are any sequences over the constant
`Segments`. `NameIn` takes the third segment for the
name, as the code does. The broker answers at once: delays are the subject of
`ClientSync`. A value is the name of the option that it is meant for.

### OptionRegistry

Each step of a thread is a statement between which another thread may come: calling,
locking `options_lock_` for reading, `find` and unlocking, locking for writing,
`emplace`, connecting and subscribing, returning. The event loop opens the socket,
locks, subscribes to one option after another, and unlocks.

| State | Code |
| --- | --- |
| `options`, `slots` | `options_`; how often an object's `valueChanged` is connected to the upload |
| `readers`, `writer` | `options_lock_` |
| `step`, `wants`, `creates` | where a thread is, and its arguments |
| `online`, `loop`, `visited` | the socket; where the event loop is, and its iterator |
| `subscribed` | the subscriptions of this connection |

A `NamedValue` is identified by the call that makes it, so that two of them for one
name can be told apart.

### EchoApp

The actions of `ClientSync` that do not set values, and a `HandleMessage` in which an
option's `valueChanged` runs three slots in the order of their connection: the upload,
the parameter's `setValue` with its own upload, the unsubscription. The initial states
hold anything that earlier processes may have left on the broker, equal or not.

### ScreenshotCopier

| State | Code |
| --- | --- |
| `option`, `timestamp`, `filename` | the values of `monitored_path`, `timestamp`, `filename` |
| `watched`, `changed` | `monitor->directories()`; notifications not yet handled |
| `dirs`, `kind`, `mtime`, `clipboard` | the system's: directories, files with their times, the clipboard (external) |
| `saved`, `awaiting` | what the broker retains for the option, and whether it is still to come |
| `dead`, `gone`, `arrived` | removed directories whose notification is pending; history variables |

`SetOption` is `setValue` with `updateMonitoredPath`, which sets up the watch;
`HandleChange` is the slot of `directoryChanged` with `TryCopyImage`. The branch of
`updateMonitoredPath` for a value that is no list (`screenshot_copier.cpp:25-26`) is
unreachable, since the validator accepts lists only. Assumptions about the watcher, from
Qt's documentation: it reports that entries come or go, not what is written to them;
several changes may be reported as one; it forgets a removed directory; whether a
pending notification survives `removePaths` and `addPaths` is open.

## 3. Runs

| Run | Checks | Bounds |
| --- | --- | --- |
| `sync_option_param` | `TypeOK`, `BrokerFollowsValues`, `BrokerFollowsValidators`, `EveryOptionIsSettable`, `SavedSubscriptionIsTemporary`, `MessagesAreRoutable` | one option, one parameter, two values, one validator that accepts one of them, five environment steps |
| `sync_saved_value` | `RemoteUpdatesAreSound`, `ValuesReachBroker`, `SavedValueIsRecovered` | one option, six environment steps, fairness |
| `refused_saved_value` | finds `RefusedValueIsNotAdopted` violated | one option, four environment steps |
| `validator_roundtrip` | `RoundTrip`, `CopyAcceptsNoLess`, `CopyAcceptsNoMore`, `TypesAreExact`, `ReadyMadePaths`, `ListItemsReadDirectly` | all `Path`s of named flags and some with unnamed bits, all `Types`, and compositions of depth two; values of each type |
| `validator_texts` | `ReadCanBeSentOn`, `SingleTypesReadDirectly` | 32 000 texts |
| `log_rotation` | `NoLogIsLost`, `NumbersTellAge`, `NoLineIsLost`, `LogsAreFresh`, `OnlyDisturbedFail` | three processes, 0 or 2 renamed logs with or without a current one, two lines each |
| `value_replication` | `ImplementsReplication` | as `sync_option_param` |
| `topic_names` | `TypeOK`, `NoForeignValues`, `PlainNamesAreHeard`, `PublishedUnderTheId`, `EarlierIdsAreNotHeard` | options `a`, `a/b` and `a/set`, two ids, four environment steps |
| `option_registry` | `OneObjectPerName`, `ReturnedIsConnected`, `NoneMissed`, `MapIsStableForReaders` | three threads, two names, two calls each, two connections |
| `option_calls` | `CallsReturn` | two threads, otherwise the same; fairness |
| `screenshot_copier` | `WatchFollowsOption`, `CompleteImagesAreSeen`, `OnlyTheFirstCopyIsOlder`, `ImagesAreCopied` | three files in two directories, two times, four lists, four environment steps; fairness |
| `echo` | `EchoFollows`, `EchoConverges` | one pair, three values of which the validator accepts two, five environment steps; fairness |

Why the bounds are enough. Options do not influence each other in the code: no handler
reads one option to change another, and each has its own topics. One option and one
parameter therefore show every interaction of the client with the broker; the proofs
confirm it for every invariant, with no bound at all.
Two values distinguish the newest from an older one; the validator accepts one and
rejects the other. Five steps hold a full life: add, set, connect, lose or restart,
change. Six steps of `sync_saved_value` also allow two processes in full, since only
the environment's steps are counted, not the client's and the broker's.

The three names of `topic_names` are the three ways in which a name can go wrong or
right: plain, a longer one, and one that ends like an operation. Two ids are the former
and the present one. Two threads are needed to race in `option`, the third one inserts
while they do; the event loop is a fourth. Four steps of `screenshot_copier` allow for
two lists and two files, or for a restart between a list and a file. The options of the
echo programs have no connection with each other, so that one pair stands for all.

Three processes at the log are enough for two that race and a third that finds what
they left; here, too, the proofs have no bound. That they may share a log is possible,
and `NoLineIsLost` covers it.

The runs do not check for deadlock: when the bound on the steps is used up, or the
application does nothing more, the system rightly comes to rest. So does a validator
that has been read, and a program that has ended.

Fairness (`FairSpec`): weak fairness for `SocketUp`, for the client's three handlers
and for `BrokerReceive`. The event loop does run its handlers, and TCP and the
broker deliver as long as the connection lasts. Nothing is assumed about the
application, the remote side or failures: `ValuesReachBroker` is conditional on a
session that lasts, and `SavedValueIsRecovered` allows the connection to end. `EchoApp`
assumes the same. `ScreenshotCopier` assumes that the event loop handles what is pending,
and nothing about users. `OptionRegistry` assumes that the scheduler runs every thread
that can run; a lock need not be fair, since the calls that compete for it are bounded
in number.

`TypeOK` of `LogFile`, `OptionRegistry` and `ScreenshotCopier` is proved and therefore
in no run.

What the runs show:

- Whatever is interleaved with the connection, the broker ends up with the newest
  value, and nothing published is out of order. For validators it holds with one
  exception, which the property names: the removal of a validator while offline is
  never published, since `uploadAll` skips null pointers.
- No option is left without its subscription to `/set`, although `addOption` and
  `setupSubscriptions` may both make it.
- `todo.md` asks to subscribe only to options that exist and to drop the subscription
  to an option's own topic once it has a value. That is done.
- A saved value is adopted only if it is the newest. This needs the assumption that
  the application does not reset an option to Undefined: if it does, while the echo of
  the old value is on its way, `handleMessage` takes the echo for a saved value.
- `accept_remote_initial_value = false` is respected only by `addOption` in a session.
  `setupSubscriptions` ignores it (`src/src/client.cpp:99`); this is the finding in
  `PROJECT.json`.
- A validator is read back as it was exactly if it is built from `Dummy`, non-empty
  `Types` and `Option`, and `Path` with ordered bounds, by non-empty `Any` and `All`.
  `SingleType`, `ListItem`, `StringPrefix` and `StringSuffix` do not survive: the
  first is written under `type` and read under `types`, the second is never asked, and
  the last two are written without their strings. Inside `All` or `Any` such an item
  vanishes, and the rest accepts more, or less.
- What a reader makes of any text can be sent on in turn, and arrives unchanged, unless a
  `StringPrefix` or `StringSuffix` is in it: in spite of the truncation to 32 bits and of
  skipped items, no reader lets reversed bounds, unnamed bits or an empty list pass. A
  client's own `Path` may have them; then the reader refuses it.
- However the processes interleave, rotation neither replaces a log nor disturbs the
  order of the numbers, because names in use stay in use and renaming does not replace.
  A process can fail to install its handler, but only if another one interferes.

- The client implements the abstract specification of a replicated value: each change is
  published once, not twice, and `uploadAll` publishes every defined value once.
- Names with `/`: `a/b` is subscribed to, and every message for it is refused. `a/set`
  publishes on the topic on which `a` is set, so that its value becomes that of `a`, and
  once it has a value it unsubscribes from this topic: `a` is deaf until the next
  connection.
- `setClientId` while connected leaves the existing options deaf until the next
  connection, since their subscriptions keep the former id; messages that still come
  under it are ignored. Values go to the new topics as they change, and all of them
  with the next connection.
- `option` may lose the race between its two locks; `emplace` then makes it return the
  winner's object, and only the winner connects and subscribes. Whichever of `addOption`
  and `setupSubscriptions` comes first, no option is left out.
- `SingleType::deserializeFromJson`, called directly, reads six of its seven types; for
  `Integer` and unknown names the type it gives is uninitialised. `ListItem`'s own
  reader gets back whatever its item allows.
- The echo parameter follows its option, also after a process that ended between the two
  publications: the next process adopts the saved value and publishes both. The
  exception is a saved value that the validator refuses.
- screenshot_copier overlooks no image that is complete when it appears. An image that
  is still being written when the notification is handled is skipped, and nothing
  announces its completion; a change of the list may drop a notification that is pending
  (`screenshot_copier.cpp:27`); images that are there when a directory is added count
  only from the next change in it. A directory that is removed and made again is watched
  only after a different list has been set, since `setValue` ignores an equal one
  (`named_value.hpp:36`). After a restart, one missing directory makes the validator
  refuse the whole saved list.
- An image in the clipboard is replaced by an older one only by the first copy that a
  process makes: `main` sets `timestamp` to 0 (`screenshot_copier.cpp:80`), although the
  clipboard may still hold what the process before it copied. Since the comparison is
  `<`, the image that was copied last is copied again with each change of its directory, over whatever the
  user has copied since, and of two images with the same time in two directories the one
  whose directory is reported last stays.

## 4. Proofs

Every safety property that a run checks and expects to hold is proved, and the
refinement of `ValueReplication`, for any number of options, parameters, names, values,
processes, threads, files and steps, and for validators of any depth. The proofs use
the assumptions on constants that the modules state, and nothing else:

- `ConstantsAssumption` (`ClientSync`): finite disjoint sets of names, special values
  that are no values;
- `EchoAssumption`: each option has a parameter of its own, and a validator;
- `NamesAssumption` (`TopicNames`): a name is a nonempty sequence of segments;
- `LeafAssumption`: what `QFileInfo` says has the right type; a field has at least four
  bits; the names of the types are strings; the null pointer is nothing else;
- `ValidatorsAssumption`: what is given nests `Depth` deep, and a text as deep as a
  validator of this depth would write;
- `LogAssumption`, `RegistryAssumption`, `CopierAssumption`: special values are not
  ordinary ones and bounds are numbers.

| Theorem | Module | States |
| --- | --- | --- |
| `TypeCorrect` | `ClientSyncProofs` | `Spec => []TypeOK` |
| `ValuesFollowed` | `ClientSyncProofs` | `Spec => []BrokerFollowsValues` |
| `ValidatorsFollowed` | `ClientSyncProofs` | `Spec => []BrokerFollowsValidators` |
| `MessagesRouted` | `ClientSyncProofs` | `Spec => []MessagesAreRoutable` |
| `OptionsSettable` | `ClientSyncProofs` | `Spec => []EveryOptionIsSettable` |
| `SubscriptionsTemporary` | `ClientSyncProofs` | `Spec => []SavedSubscriptionIsTemporary` |
| `RemoteUpdatesSound` | `ClientSyncProofs` | `Spec => RemoteUpdatesAreSound`, if `AppValues \subseteq Values` |
| `EchoFollowed` | `EchoProofs` | `EchoSpec => []EchoFollows` |
| `TopicTypes` | `TopicProofs` | `Spec => []TypeOK` |
| `ForeignValuesRefused` | `TopicProofs` | `Spec => []NoForeignValues` |
| `ValuesPublished`, `PlainNamesHeard` | `TopicProofs` | `Spec => []PublishedUnderTheId`, `Spec => []PlainNamesAreHeard` |
| `EarlierIdsUnheard` | `TopicProofs` | `Spec => EarlierIdsAreNotHeard` |
| `PathRoundTrip` | `ValidatorProofs` | a `Path` with ordered bounds of named flags is read as it was written, any other is refused |
| `WayInductive` | `ValidatorProofs` | `Spec => []Way`, the inductive invariant |
| `TransmissibleArrives`, `ListItemsArrive` | `ValidatorProofs` | `Spec => []RoundTrip`, `Spec => []ListItemsReadDirectly` |
| `NothingRefused`, `NothingLetThrough` | `ValidatorProofs` | `Spec => []CopyAcceptsNoLess`, `Spec => []CopyAcceptsNoMore` |
| `TypesMeanTypes`, `SingleTypesMeanTypes` | `ValidatorProofs` | `Spec => []TypesAreExact`, `Spec => []SingleTypesReadDirectly` |
| `ReadyMadePathsMean` | `ValidatorProofs` | `Spec => []ReadyMadePaths` |
| `ReadersFilter` | `ValidatorProofs` | `Spec => []ReadCanBeSentOn` |
| `WellTyped` | `LogFileProofs` | `Spec => []TypeOK` |
| `LogsKept`, `NumbersInOrder` | `LogFileProofs` | `Spec => []NoLogIsLost`, `Spec => []NumbersTellAge` |
| `LinesKept` | `LogFileProofs` | `Spec => []NoLineIsLost` |
| `FreshLogs` | `LogFileProofs` | `Spec => []LogsAreFresh` |
| `UndisturbedSucceed` | `LogFileProofs` | `Spec => []OnlyDisturbedFail` |
| `ClientReplicates` | `ReplicationProofs` | `Spec => ImplementsReplication` |
| `RegistryTyped` | `RegistryProofs` | `Spec => []TypeOK` |
| `SameObject`, `ReturnedConnected` | `RegistryProofs` | `Spec => []OneObjectPerName`, `Spec => []ReturnedIsConnected` |
| `AllSubscribed` | `RegistryProofs` | `Spec => []NoneMissed` |
| `StableMap` | `RegistryProofs` | `Spec => []MapIsStableForReaders` |
| `CopierTyped` | `ScreenshotProofs` | `Spec => []TypeOK` |
| `WatchMatchesOption`, `ImagesSeen` | `ScreenshotProofs` | `Spec => []WatchFollowsOption`, `Spec => []CompleteImagesAreSeen` |
| `OlderOnlyFirst` | `ScreenshotProofs` | `Spec => OnlyTheFirstCopyIsOlder` |

The argument. *Types* are inductive by themselves; the work is in `SetToSeq`, by which
the model sends the packets of a loop over a map: `SetToSeqLists` shows that it lists
every element of a finite set once.

`BrokerFollowsValues` speaks of `WillHold(q, store, t, p)`: if the broker has `store`
and processes the queue `q`, then it retains `p` on `t`. Three lemmas say how this
changes when packets are appended that do not publish on `t` (`HoldsAfterOthers`), when
one of them does (`HoldsAfterPublish`), and that it does not change when the broker
takes the first packet (`HoldsAfterReceive`). It is inductive together with `TypeOK`
and `FreshUntilCreated`, which is needed because a new option must not have a value
that was never sent. On `HandleConnected`, `UploadAll` contains the one publication of
each defined value (`UploadAllFollowed`); `SetValue` appends it (`SetValueFollowed`).

`MessagesAreRoutable` is not inductive: a message is delivered because of a
subscription, and a subscription is in force because a packet asked for it.
`Routing` strengthens it by both, while the socket is open; `QuietOffline` adds that
nothing is queued otherwise, so that a new connection starts with none of them.

Subscriptions. `WillSubscribe(q, subs, t)` is the same idea for what the broker will be
subscribed to. `SavedSubscriptionIsTemporary` is inductive with `TypeOK`,
`FreshUntilCreated` and `QuietOffline`: each step that asks for an option's own topic
connects the slot that will drop it, and each `SetValue` with a value runs that slot.

Remote updates. A saved value is adopted only by an option that is Undefined.
`EchoFree` says that then nothing is on its way to the broker for the option's own topic,
and that a message from this topic carries what the broker retains; so what is adopted
is the newest. It needs an application that never sets a value back to Undefined; without
it the property is false.

Echo. All but two actions of `EchoApp` are actions of `ClientSync`, and keep what the
lemmas about those say. `EchoInv` adds `Repeats`: option and parameter have the same value
in the process, in every phase. With `BrokerFollowsValues` for both, the broker's two
values agree as soon as its queue is empty, if the option has a value; of an option that
is Undefined nothing is said. `EchoSlotsAppend` is the step that is new: the
slots of one `valueChanged` append a publication for each of the two.

Topics. The loops are written with `FlattenSeq`, a recursive function of the library;
`FlattenSeqLists` proves, by induction on the length, that its result lists
the elements of the parts. `TopicInjective` and `SetTopicOfAnother` say what two topics
have in common: `Topic(id, n)` determines both, and is another name's `SetTopic` only if
`n` is that name and `set`. `NoForeignValues` says that an option `n` has
only values meant for `n`, or for `n/set`, `n/set/set`, whose topics `n` shares
(`Extends`). The invariant says the same of everything a value passes through: of the
values themselves (`ValuesFit`), of what the broker retains on each topic
(`RetainedFits`), and of the messages on their way (`ReceivedFits`); `HandledFits` shows
that what `handleMessage` routes to an option fits it, whatever slashes the topic has.
`PlainNamesAreHeard` needs `SubscribedUnderTheId`: in a session without a change of id
every option is subscribed to on `/set`, unless an option `n/set` may have undone it.
`PublishedUnderTheId` has the same premise: after a change of id, nothing is claimed
until the next connection.

Validators. The library's induction theorems take an operator as a parameter, which the
provers cannot instantiate. `NaturalInduction` takes the *set* of the numbers that have
the property, and follows from the well-foundedness of `<`; so do all results on recursive
functions. `Under(n)` and `JsonUnder(n)` are what nests less than `n` deep.

1. Each recursive function exists and satisfies its definition on its whole domain
   (`NestedUnfolds`, `SerializeUnfolds`, ...): what it gives for a value depends on what
   it gives one level down (`...Local`), so that a function on `Under(n)` extends to one
   on `Under(n + 1)`.
2. What is written for `n` levels can be read (`SerializeTypes`). What is read is nothing
   or a validator, and one that is transmissible exactly if there is no `StringPrefix` or
   `StringSuffix` in it (`DeserializeTypes`, of any text): no reader makes an empty list,
   and `ReadRange` lets only ordered bounds of named flags pass. This is `ReadersFilter`.
3. `ReadListKeeps`: the loop of `deserializeListFromJsonArray` keeps, in order, what could
   be read, and its result is as long as the array only if nothing was skipped.
4. `LeafReads`: a validator without items arrives, or nothing does. `ComposedReads`: of
   `Any` and `All` arrives what is left of their items. `WayThere` and `CopiesCompare`
   then follow by induction on the depth. In the second, `Keeps` distinguishes the two
   losses: an item missing from an `Any` is an alternative less, one missing from an `All`
   a condition less.
5. `Way` says what each stage leaves in the variables, and turns these facts into
   invariants of `Spec`.

`PathRoundTrip`: the number of a permission or type field gives back the set it stands for,
that of bits without a name included (`Encodings`); a written range is read back if it is
in order and has no such bits, and refused otherwise (`RangeRoundTrip`); and a range that is left out stands for the one that says nothing. It
holds for every `FieldModulus` of at least 16, which covers the 2^32 that TLC cannot compute.

Logs. `DirectoryOK` says that the renamed logs are 1, 2, ... in the order of age, and
the current one, if any, is the newest. Its step for `Rename` needs `SearchOK`: every
number that a search has passed is in use, and since it stays in use, the number that is
found free is the next one, or else it is taken by now and `Rename` fails.
`LogsAreFresh` needs `FreshWhenOpened` (a process about to open sees nothing older than
its start), `NoLineIsLost` needs `LinesOK` (nobody has lines in another's log), and
`OnlyDisturbedFail` needs `AloneOK` (what an undisturbed process has seen still holds).

Refinement. `CarriedAfterSending` turns packets appended to `toBroker` into updates
appended to the channel, and each handler's packets are counted by a lemma:
`ChatterSent` for none that concerns a value, `ValueSent` for one, `UploadAllSent` for
one of each defined value, no two of them the same. `NextReplicates` then has a step for each action:
`SetValueReplicates` shows that a handler that sets a value is `Change`, or `Chatter` if
the value stays; a restart is `Crash`, `BrokerPersists` makes the broker's step
`Persist`. It needs `TypeOK`, and `FreshUntilCreated`: `uploadAll`
loops over what has been created, and nothing else has a value.

Registry. `LockHeld` relates the lock to where the threads are: whoever is between
`emplace` and the return is the writer, and then nobody reads. `MadeOnce` says that an
object in the map was made by one call, which is past `emplace`; so an object about to be
inserted is new. `ConnectedOnce` says that an object is connected, or its maker is about
to connect it and nobody else has seen it. `StableMap` is `LockHeld` in other words;
`AllSubscribed` needs `SubscribedSoFar`: what has been visited has been subscribed to,
and nothing is inserted during the iteration.

Copier. `CopierInv` is `WatchFollowsOption`, `CompleteImagesAreSeen`, types, and
`ArrivedAreImages` (what has arrived and is the same is an image). After `TryCopyImage`
the timestamp is at least that of each image in the directory (`TryCopyImageStep`), and
so, with `ArrivedAreImages`, of all that has arrived there. `ClipboardReported` is for
`OlderOnlyFirst`: once a process has copied an image, an image in the clipboard is
the one it reports, with `timestamp` (`ReportStays`), and `Candidates` are not older.

Only model-checked: liveness (`ValuesReachBroker`, `SavedValueIsRecovered`, `CallsReturn`,
`ImagesAreCopied`, `EchoConverges`), since fairness is beyond the prover; and the violation
of `RefusedValueIsNotAdopted`, which is a counterexample.

## 5. Not modelled, and why

- The lock of `parameters_`, and `uploadAll`'s iteration under read locks: the code is
  that of `options_lock_` and of `setupSubscriptions`, without the subscriptions.
- `handleMessage` and the upload slots call `find` without a lock. If another thread adds
  options meanwhile, this is a data race, whose outcomes are not bounded by anything the
  code says. Every program of the repository has one thread.
- Messages logged by several threads at once: the handler writes after it has released
  its mutex. The same holds here.
- QMQTT, Qt and the broker are external and modelled from their use.
- Wording and layout of log messages, the slots that only log; constructors; export
  macros and build files; `setUsername` and `setPassword`, which hand credentials to
  QMQTT.
- The contents of values: two or three abstract values, and abstract validators, in
  `ClientSync` and `EchoApp`.
- Ids with `/`.
- The tests: they call validators with single values, which the runs include in kind.

## 6. State of the plan

All of it is done: the client (`ClientSync`), the validators, the log, the abstract
specification and its refinement, the maps and locks, the topics, and both
applications, with their runs; and the proofs of section 4. The safety
properties are all proved; what remains beyond them is listed in section 5.
