# A TLA+ model of the refuge server

The program is a small C system: a server that keeps the state of a refuge in
one JSON file, clients that read or update it over TCP and UDP, simulated
temperature sensors that raise alerts, and an emergency process per TCP client
that ends the connection after a minute. Everything on the server is a process
made by `fork`; the processes share a file, a System V message queue and
signals, and hardly anything else. Almost all that is hard in this code comes
from there, and that is what the modules model.

## Inventory

| Component | State | Operations | Hard because |
|---|---|---|---|
| State file (`lib_handler.c`: `read_file`, `write_file`) | `data/state_summary.json` | take the size, read, truncate, flush | not atomic, used by every process at once, no lock that works across processes |
| Document edits (`supplies_data_handler.c`, `alert_module.c`, `emergency_handler.c`) | the document | `set_supply_status`, `add_entry_to_json`, `add_event_to_json` | read-modify-write of the whole document |
| Request handling (`server.c:319-427, 487-658`) | request and reply buffers, `mutex_state` | status, update, refusal, close | `mutex_state` is copied by `fork`; error paths |
| Process tree and end of connection (`server.c:3-317, 429-485, 660-709`) | processes, `newsockfd`, `pipe_fd`, pending signals | accept, fork, `end_conn`, `sign_handler` | one handler for all processes, with globals that mean something else in each |
| Emergency process (`emergency_handler.c`) | pipe, timer | store two events, notify, signal parent | outlives its parent, or is outlived by it |
| Sensors and alert listener (`alert_module.c`, `server.c:138-172`) | message queue | reading, `msgsnd`, `msgrcv` | queue removed by any ending connection; bounded; outlives the server |
| JSON helpers (`cjson_handler.c`) | none | get, add, override, merge keys | nested texts printed and parsed again by every edit; results printed into buffers sized for the previous text |
| Sockets (`comunication_handler.c`) | none | connect, `send_message` in parts, receive | lengths of the parts; messages that share a `recv` |
| Client (`client.c`) | menu flags, buffers | request loop, signals | late replies, no timeout over UDP, a loop that is a recursion |

What makes each correct:

* the file always holds one whole document, which is one edit of a document
  that was there before; supplies come from the administrator; alerts are not
  invented; a request ends;
* a connection process is signalled by its own emergency process or from the
  terminal and by nobody else (its client may still be sent END by a listener
  that is interrupted while it accepts it); shared resources go, and main goes,
  only as the end of a connection passes up the tree; emergencies end the
  connection they are about;
* an alert that was sent is received once and in order while somebody listens
  and nobody removes the queue, over restarts too; no sensor blocks for ever;
* an update the user chose once is applied at most once, and what the client
  shows belongs to what it asked; a client does not wait for ever, or it is
  known what for;
* a text goes out whole and in order whatever its length, and what goes out
  behind it does not run into it;
* the JSON helpers are updates of a mapping from keys to values, and after any
  edits made with them the summary says what was asked for.

`PROJECT.json` lists the hazards at their lines with the properties that would
catch them.

## Modules

| Module | What it is |
|---|---|
| `StateSummary` | the document, its three edits, and the file as size + document at offset 0 |
| `StateFile` | the server's processes at work on the file: requests, `mutex_state`, `read_file`/`write_file` call by call, sensors, emergency processes, signals |
| `SnapshotStore` | abstract specification: a store of whole documents with snapshots and unchecked commits |
| `StateFileProofs` | TLAPS proofs about `StateFile`, and that it implements `SnapshotStore` |
| `MCStateFile` | the constants of `StateFile` for TLC |
| `ServerLifecycle` | the process tree, signals, the emergency pipe, `end_conn`, the END message |
| `ServerLifecycleProofs` | TLAPS proofs about `ServerLifecycle` |
| `MCServerLifecycle` | symmetry for TLC |
| `AlertPipeline` | alerts from the sensors through the kernel's message queue to the listener, over several runs of the server |
| `AlertChannel` | abstract specification: a FIFO channel that may lose all it holds at once |
| `AlertPipelineProofs` | TLAPS proofs about `AlertPipeline`, and that it implements `AlertChannel` |
| `ClientSession` | one client's request loop, its signals, and the server process behind a TCP stream or lossy datagrams |
| `ClientSessionProofs` | TLAPS proofs about `ClientSession` |
| `MCClientSession` | lengths of the messages for TLC |
| `SendMessage` | one call of `send_message`, byte by byte |
| `SendMessageProofs` | TLAPS proofs about `SendMessage` |
| `CJson` | the JSON helpers as operators on values and texts |
| `CJsonProofs` | TLAPS lemmas about the helpers on objects of any size |
| `JsonBuffer`, `MCJsonBuffer` | a buffer under any sequence of calls of the helpers |
| `JsonBufferProofs` | TLAPS proofs about `JsonBuffer` |
| `SummaryEdits`, `MCSummaryEdits` | the three edits of the state summary made with the helpers, against those of `StateSummary` |
| `SummaryEditsProofs` | TLAPS proofs about `SummaryEdits` |

`StateFile` EXTENDS `StateSummary` and instantiates `SnapshotStore`.
`ServerLifecycle` stands beside it: it treats what a connection does with a
request as a step that may fail, and models the connection's beginning and end
in the detail that `StateFile` leaves out. `AlertPipeline` takes up what both
reduce to "the queue is there or not", and instantiates `AlertChannel`.
`ClientSession` is the other end of a connection; that its server closes a
socket some time is `EmergencyProcessesEnd` of `ServerLifecycle`. `SummaryEdits`
EXTENDS `CJson` and instantiates `StateSummary`: it is the layer below
`StateFile`'s `Edit`.

### StateFile and the code

`pc[p]` is the place of process p in its code; the values are explained at
`PC`. One action is one library call others can observe:

* `ReadSize`, `ReadEmpty`, `ReadBody`, `ReadShort`, `IOFails`: `read_file`.
  `Fetched(file, n)` is what the first n bytes parse to. `cJSON_Parse` stops
  behind the first object, so bytes left behind it are harmless, and a text cut
  off inside it is `Torn`.
* `OpenForWrite`, `CloseWrite`, `FlushFails`: `write_file`. `fopen("w")`
  truncates; the text is smaller than a stdio buffer and reaches the file in
  the one `write` of `fclose`, whose result the code drops.
* `RecvStatus`, `RecvUpdate`, `RecvDenied`, `RecvFails`, `RecvClose`: one
  iteration of `run_admin_server` or `run_normal_user_server` up to the file.
  `SemWait` and `AckUpdate` are the two ends of the critical section.
* `HeapAbort`: `json_object_to_json_string` copies the new text into a buffer
  allocated for the old one; when the text grew, the C library may abort at
  the next allocation. The outcome of that undefined behaviour is a choice.
* `Keepalive`, `Wake`, `Notify`: `run_emergency_handler`. A timestamp takes
  more than `SIZE_TIME` bytes and the event buffer is not initialised; the
  stored text is therefore `intact` or `garbled`, or `strcat` ends the process.
* `SenseNormal`, `SenseAlert`: one call of `simulate_temperature_sensor`.
* `CtrlC`, `HandleSignal`: signals, handled at any point of the code, with
  `end_conn` reduced to its effects on the queue and on the parent.

`last`, `granted` and `raised` are history: the last document written whole,
the amounts an administrator asked for, the alerts raised. `HeapAbort` and
`DocLen` only depend on lengths, so the text of a document is its length.

### ServerLifecycle and the code

`main` waits for the six children it forks: `tcp[l]` for a TCP listener l (IPv4
and IPv6 run the same loop on sockets of their own, each with its `newsockfd`,
here `held[l]`), `others` for the UDP servers and the sensors, `drain` for the
reader of the queue. `conn` and `emer` are the two processes of each client,
`via` the listener it connects to. `end_conn` is split where another process or
a second signal can come in: the pipe closed (`closing`), END sent (`ending`),
then, after `sleep(5)`, the queue removed and the parent signalled. The handler's
globals are followed per process: a listener has a client in `newsockfd` only
between `accept` and `close`; main, the UDP servers, the sensors and the reader
of the queue have none, and leave at the first failed call; an emergency
process has closed its end of the pipe, but `fopen` reuses the descriptor.

The kind of a pending signal is not kept, since both call `end_conn`. Where it
matters, a second signal during `end_conn`, both outcomes are there: one of the
same kind stays blocked and `end_conn` goes on, one of the other kind finds the
pipe closed and exits. A listener is sent SIGTSTP only, but for the terminal,
which is why `TcpSignal` asks for `terminal` there.

A signal climbs as far as the code lets it. A listener that is waiting in
`accept` has no client, and its `end_conn` exits before it signals main; one
caught between `accept` and `close` sends END to the client it has just
accepted, goes on to the end and signals main, which exits although the other
listener still accepts and the other children still run. `MainEndsFromBelow`
says that, short of the terminal, there is no other way for main to end before
its children.

### AlertPipeline and the code

A queue is the kernel's: `create_message_queue` finds it by a key made from a
fixed path and gets an identifier, which `fork` copies. A run of the server
(`Gen`) has a sensor process and a listener. `Msgsnd` waits for room, `Msgrcv`
takes the oldest message, both fail once the identifier is stale, `Remove` is
the `IPC_RMID` of `end_conn`, `KillSensor` and `KillListener` are signals. A run
that starts while the queue of an earlier one is there is attached to it.
`send_alert_msqueue` takes identifier 0 for an error (`Raise`).

### ClientSession and the code

`pc` follows `main` of `client.c`: connect, head of the loop, menu, send,
`recv`, and the rest of `recv_and_check_message`. While `flag_get_supply` is
set that function sends the same buffer again and calls itself: `depth` counts
the calls, and once `StackFrames` of them are open the kernel may end the client
at any further one (`StackOverflow`; the code has no test of its own). SIGINT resets the flag and ends
a `recv` that waits, but not one about to be called; the reply it leaves on the
way is then read for a later request. A TCP stream keeps no message
boundaries: a message on its way to the client carries `end`, the number of
bytes from the first one not yet read to its last, so the last `end` is what
waits in the stream (`Waiting`) and a `recv` lowers them all (`Drop`). `Take` and
`Parsed` say what one `recv` takes and what `cJSON_Parse` makes of it (the first
whole message; the rest of the buffer is dropped). Datagrams may be lost. The server's end is `Serve`, `ServeFails`,
`EndConn` and `Close`; a TCP socket outlives the process that read from it
because the emergency process holds a copy. Messages may have any length. In
the run they fit `BUFFER_SIZE` (`Fits`), as they do for the shipped state file;
nothing in the code keeps a status document that short, and a longer one, read
in parts, lags without any wait abandoned, so `LagBounded` is claimed under
`Fits` only. How long texts are sent is `SendMessage`'s subject.

### SendMessage and the code

A byte of the text is its position, so order and completeness can be read off
the wire. Whole, part and last are the three `send`s of the function; the last
is given the length of the whole text, and what lies behind the local buffer
goes out with it as `Junk`. Each may fail.

### CJson, JsonBuffer, SummaryEdits and the code

A JSON value is a number, a string or a sequence of members; a text is what
`cJSON_Print`, `%d` or `%f` made of a value, or a word. Conversions are what
they do: a number comes back from a lookup as `%f` text, `INTPARSE` takes zero
for "no number", lookups respect case and deletions do not. `Merged` is the loop
of `merge_json_strings`, one `Put` for each member of the second object. `SummaryEdits`
makes the edits the way the code does, printing an inner object to a text,
changing that, and parsing it back into the outer one, two or three levels deep.
Its history variable `doc` is the document to which each edit was applied as it
was asked for, with `Edit` of `StateSummary`; `EditsAgree` compares what a reader
finds in the text with it.

The name of a supply is free text (`client.c:236`), so the same supply may be
named "rice" and "Rice". Lookups tell them apart, and the deletion before an
override does not: it takes the first member of either spelling
(`cjson_handler.c:160`). From `[rice]`, adding "Rice" gives `[rice, Rice]`,
updating "rice" `[Rice, rice]`, and updating "rice" once more deletes "Rice" and
leaves `[rice, rice]`, of which a reader finds the older amount. So the update
is not seen, the other spelling is lost, and the object can go on growing,
although `supplies_data_handler.c:27` means to "override if already exist".
Supplies in use in two spellings are therefore what `EditsAgree` excepts
(`Respelt`), and only their amounts: everything else is right beside them.

## Runs

All instances are small; the constants are in the `.cfg` files.

| Run | Instance | Shows |
|---|---|---|
| `updates` | 2 connections, sensors, 1 item with 2 amounts of different length, 1 alert | `TypeOK`, `SuppliesAuthorised`, `SemFreeOutside`, refinement `StoreSafety` |
| `sensors` | 1 connection, 1 UDP server, sensors at 2 entrances, 1 alert each | `AlertsNeverOvercount`, `RequestsComplete` |
| `emergency` | 1 connection, its emergency process, 2 amounts | `WedgedForever`, `TornOnlyIfGrown` |
| `lifecycle_safety` | 2 clients, 2 TCP listeners, nobody at the terminal (symmetric) | `TypeOK`, `QueueRemovedAfterEnd`, `MainEndsFromBelow`, `SignalledByOwnEmergency` |
| `lifecycle_ends` | 1 client, 2 TCP listeners, up to 2 signals from the terminal | `QueueRemovedAfterEnd`, `EmergencyProcessesEnd`, `RecordedEndsConnection` |
| `alerts` | 2 runs of the server, 3 alerts each, a queue for 2 messages, first identifier 0 or 1 | `TypeOK`, `ReceivedInOrder`, `CutOffByRemoval`, `NothingSkipped`, refinement `ChannelSafety`, `QueuedAlertsArrive`, `SendersReleased` |
| `client_session` | TCP and UDP, 5 requests, 3 signals, 3 stack frames | `TypeOK`, `LagBounded`, `UpdatesOnceInOrder`, `StuckOnlyByLoss`, `TcpLoopLeft` |
| `send_message` | buffer of 4 bytes, texts of 1 to 30 bytes, called as the client and as the server call it | `TypeOK`, `SentInOrder`, `TextThenNul` |
| `json_buffer` | 3 keys, values of every kind, every combination of flags | `UniqueKeys`, `AddBindsOneKey`, `MergeOverrides` |
| `summary_edits` | 1 entrance, 2 categories, 3 supply names (2 of them one name in two spellings; 1 on file at first), 2 amounts, 1 alert, 3 amounts in a summary that is edited | `AlwaysReadable`, `EditsAgree` |

Why the bounds suffice for these questions: every race on the file needs one
process between two of its calls and another that rewrites the file with a
longer or a shorter text, so two writers and texts of at least two lengths
reach all of them; three processes (two connections and the sensors) add
chains of stale write-backs. `MaxAlerts` bounds the alerts, as the guard
of `SenseAlert`. In the lifecycle a connection is influenced by its listener,
its own emergency process and the terminal; a second client is what it takes
for one to disturb another, a second listener for main to exit under one that
still accepts, and the liveness properties are about processes that no second
client can reach (`SignalledByOwnEmergency` says so). `MaxPresses` bounds the
signals from the terminal. `MainEndsFromBelow` and `SignalledByOwnEmergency` say
nothing once it was used, so `lifecycle_safety` leaves it out; two presses in
`lifecycle_ends` are one to start `end_conn` and one to come upon it. Two clients
with two listeners and a terminal are some 17 million states, which were checked
once, and the theorems cover every number of all three.

In `alerts` a second run is what it takes to share, inherit or be cut off from
a queue, and three alerts against room for two make both runs' sensors wait. In
`client_session` two status replies fit one buffer and a third does not
(lengths 3, 3 and 1 of 7), so one `recv` can return a message, several, or one
and a part; five requests and three signals let a client fall behind by three
and still ask again. Texts of 30 bytes are up to seven buffers and a rest,
with each remainder and with none. In `json_buffer` keys differ in more than
case, as those of requests and replies do; names of supplies that do not are in
`summary_edits`. There `MaxMembers` bounds the amounts in a summary that is
edited, because overrides of a name in two spellings make an object grow without
end; three let the sequence above happen in full.

Deadlock is not checked: the system may stop. All processes may exit, and with
`MaxAlerts` reached the sensors may be the only ones left.

`HIGH_TEMPERATURE` is 36 in `updates` and `sensors` and 38, as in
the code, elsewhere. The simulated readings are 16..37 (`alert_module.c:9`), so
as built the alert path never runs; a lower threshold is the only way to
check it. The proofs hold for every value.

### Fairness

`StateFile`: weak fairness of every step a process takes by itself and of
signal delivery: the kernel schedules runnable processes and `sleep` returns.
None for clients, for readings and for failures. `sem_wait` needs no more than
weak fairness because each process has its own semaphore. `ServerLifecycle`:
the same, for each process of the tree. `AlertPipeline`: weak fairness of the
listeners, strong fairness of the senders, because the kernel keeps senders
that wait for room in a queue of their own and wakes them in turn; none for
starting a server, raising an alert, signals and removals. `ClientSession`: weak
fairness of the client's and of the server's own steps, closing a socket among
them (`EmergencyProcessesEnd`); none for the user, signals, losses and
`end_conn`.

### Disagreements between documentation and code

Two are runs expected to end in a violation, with the text they contradict in
`PROJECT.json` under `findings`.

* `supplies_by_update`: an emergency process writes a document it read before
  an update back over it; the supplies change with no update in progress.
* `every_client_told`: the emergency is recorded as announced to all, and the
  only connection its process could signal is gone; the client, whose socket
  the emergency process itself kept open, is not told.

Other places where the models part from what one would expect of the code are
named at their lines under `hazards`; the properties there are what does hold:

* a status reply may be the beginning of a document, but only when the file
  grew while it was read (`TornOnlyIfGrown`);
* a process that ends between truncation and flush, or a flush that fails
  inside `fclose` and is reported as success, leaves an empty file, and by
  `WedgedForever` no process ever fills it again;
* a client's close removes the queue of the whole server; its sensors and its
  listener then exit, and runs after it start afresh (`CutOffByRemoval`), while
  a queue nobody removed hands its alerts to the next run;
* the sensors exit at the first alert if the queue has identifier 0
  (`NothingSkipped`: the alert not sent is their last);
* SIGINT just before `recv`, with the UDP reply lost, leaves the client waiting
  (`StuckOnlyByLoss`); END may hide behind a late reply, and the client then
  learns of the end by the next two requests (`TcpLoopLeft`);
* the status loop ends where the stack does;
* a long text is followed on the wire by a NUL and by bytes that belong to
  nobody; the server's short texts, and texts of a whole number of buffers, are
  followed by no NUL at all, and the reader relies on its cleared buffer
  (`TextThenNul`);
* a supply updated under two spellings loses amounts and keeps others twice, as
  shown above for `SummaryEdits`; everything else in the summary stays right
  (`EditsAgree`);
* main may exit while a listener still accepts, when the other listener is
  caught between `accept` and `close` (`MainEndsFromBelow`).

## Proofs

`StateFileProofs` proves for all constants that satisfy the named assumptions
of `StateSummary` and `StateFile` (any number of connections, UDP servers,
emergency processes, entrances, items and amounts; any positive text lengths):

* `Invariance`: `IInv` is an invariant, and from it
* `TypeCorrect` (`TypeOK`), `SuppliesSafe` (`SuppliesAuthorised`),
  `AlertsSafe` (`AlertsNeverOvercount`), `MutexNeverBlocks` (`SemFreeOutside`),
* `WedgedStays` and `TornSafe`: the action properties `WedgedForever` and
  `TornOnlyIfGrown`,
* `ImplementsStore`: `StateFile` implements `SnapshotStore`.

None of the properties is inductive. What `CloseWrite` stores is the edit of a
buffer, so `SuppliesAuthorised` and `AlertsNeverOvercount` range over the
documents in memory too, and need to know that an update in progress was
granted (`UpdatesGranted`), that each kind of process makes its own kind of
edit (`OpsByProcess`), that a write is only under way with a parsed document
(`BuffersInUse`), and that what a read returns is the last document written
(`FileIsLast`): the file is either empty or begins with `last`, whatever is
left behind it. `AlertsNeverOvercount` counts the alert in progress as not yet
stored (`Pending`), without which one store could count for two.
`SemFreeOutside` needs the value of the semaphore everywhere
(`MutexAccounted`). `IInv` was checked with TLC on the instances above before
it was proved.

The proof goes by the part of the state a step changes rather than by
repeating all conjuncts for all actions: `NextShape` reduces a step to one
process's step, `ProcStep` says what it may do to its own variables,
`SharedShape` what it may do to the file and to the histories, `BufferStep` and
`LiveDocsStep` which documents are in play afterwards; each part of `IInv` then
follows in a lemma of its own.

`ServerLifecycleProofs` proves, for any sets of clients, of TCP listeners and of
other children, and any number of signals from the terminal:

* `LifecycleInvariance`: `LInv` is an invariant, and from it
* `LifecycleTypes` (`TypeOK`), `QueueSafe` (`QueueRemovedAfterEnd`), `MainSafe` (`MainEndsFromBelow`),
  `ConnectionsApart` (`SignalledByOwnEmergency`).

Here too the properties lean on the steps before them. That the queue goes
after END needs that whoever is between the halves of `end_conn` has sent it
(`EndSentFirst`). `MainEndsFromBelow` needs where each signal on the way up comes
from: main's from a listener that has exited (`MainSignalledFromBelow`), a
listener's from a connection of its own that has been sent END and has exited
(`ListenerSignalledFromBelow`), which in turn needs that a listener only holds
clients that came to it. And that a signal to a connection was its own
emergency process's last act needs that no second emergency process is ever
forked for the same client (`BeforeProcesses`). The proof has one step per
action, in two halves: `NextProcesses` for what a client's processes may be,
`NextChain` for the chain of signals. `LInv` was checked with TLC on the instance
of `lifecycle_safety` first.

`AlertPipelineProofs` proves, for any number of runs and alerts and any
capacity: `PipelineInvariance` (`PInv`), `PipelineTypes` (`TypeOK`), `OrderSafe`
(`ReceivedInOrder`), `RemovalSafe` (`CutOffByRemoval`), `SkipSafe`
(`NothingSkipped`) and `ImplementsChannel` (`ChannelSafety`). That alerts are
received in order needs that the queue continues the order of what was
received (`QueueInOrder`), which needs that what is sent next is newer than all
that was sent (`SentWasRaised`); that runs are cut off needs that identifiers
are not given out again (`IdsAreOld`) and that a run that has not started has
left no trace (`NotStarted`).

`ClientSessionProofs` proves `UpdatesSafe` (`UpdatesOnceInOrder`) for any
number of requests, signals and losses, from `CInv`: the updates applied, on
their way and in the client's buffer are in the order they were chosen, and a
buffer that the loop sends again holds no update, because the menu is only
reached with `flag_get_supply` reset.

It also proves `SessionTypes` (`TypeOK`) for messages of any positive length
(`TInv`), and, for messages that fit in `BUFFER_SIZE` (`Fits`), `LagInvariance`
(`LInv`) and `LagSafe` (`LagBounded`). `LagBounded` is
about the one message in the client's hands; `LInv` carries the bound to all
requests and replies that can still become that message. Replies and behind
them requests stay in the order in which the client asked, END last
(`InOrder`); each still to be shown lags by at most the waits abandoned (`Lag`);
and a `recv` that fails, which leaves replies behind without a wait abandoned
for each, is the last one (`Failing`). What one `recv` does to the stream is in
`Dropped`, `Cut`, `Taken` and `Numbers`: since a message carries its `end`,
dropping bytes is a subtraction and no sum over the stream is needed.

`SendMessageProofs` proves, for every buffer size and every text,
`SendInvariance` (`SInv`), `SendTypes` (`TypeOK`), `PartsInOrder`
(`SentInOrder`) and `TextComplete` (`TextThenNul`). `SInv` says that inside the
loop the wire holds exactly the first `slice` bytes of the text, and that the
loop is left with less than a buffer to go, which is why a last send that takes
more than the text finds the NUL that `strncpy` pads with behind it.

`CJsonProofs` holds the lemmas about the helpers, for objects with any number
of members. An object can be taken for a mapping (`IsMapping`) when each key is
in it once, its values are not NULL and its keys differ in more than case;
then a lookup finds the one member with its key (`Lookup`), `Put` updates the
mapping at one key (`PutUpdates`), and a merge overrides it by the second
object (`MergedUpdates`). The last is an induction over the members of that
object; it is made on the set of lengths for which it holds (`SetInduction`,
from the well-foundedness of the finite subsets of `Nat`), which the provers can
instantiate.

`JsonBufferProofs` proves `BufferInvariance` (`JInv`), `KeysStayUnique`
(`UniqueKeys`), `AdditionsExact` (`AddBindsOneKey`) and `MergesExact`
(`MergeOverrides`) for any keys, texts and number of calls. None of the three is
inductive: a deletion removes the first member with a key, so that the others
are untouched and none is left rests on the keys being unique, and that on
every value in the buffer being one a lookup does not take for "not there".
`JInv` says both. The assumptions are that keys differ in more than case
(`KeysDiffer`: the code deletes without regard to case, see the hazard at
`cjson_handler.c:160`), that the texts merged hold mappings (`OthersType`), and
that NULL is no object (`NullIsNoObject`).

`SummaryEditsProofs` proves `SummaryInvariance` (`SInv`), `SummaryReadable`
(`AlwaysReadable`) and `EditsExact` (`EditsAgree`) for any entrances, categories,
amounts and names of supplies, names in several spellings included. `SInv` holds
the shape of all three levels: the text is that of an object whose three parts
are mappings, those of the entrances, the categories and the events with all
their keys. A category need not be a mapping: it is any sequence of amounts, of
which is known that their spellings are in use (`KeysInUse`) and that one
without a rival spelling in use is there once (`SoleMembers`). Neither
`AlwaysReadable` nor `EditsAgree` is inductive: they say what lookups find, not
that what they do not find is absent, and an override of a spelling without a
rival is right only because the member it deletes is the one it replaces
(`PutAmount`, over `PutMembers` of `CJsonProofs`). `Parts`, `CountRead`,
`AmountRead` and `EventRead` say what is read of such a text, `SupplyEdit`,
`EntryEdit` and `EventEdit` what each edit makes of it, and `Made` and
`MadeMembers` that the shipped file is one. The assumptions: the fixed keys and
the names of entrances and categories, which the code writes and no user types,
differ in more than case (`KeysDiffer`); amounts are not zero, as the client
ensures (`INTPARSE` would store a zero as a string); the file starts with
finitely many keys and with counters that are not negative; NULL is no value
and no text. Together with `ImplementsStore` this joins the layers: the texts
the helpers produce follow `Edit` of `StateSummary`, which is the edit `StateFile`
commits, except for the amounts of a supply in two spellings.

`LInv`, `JInv` and `SInv` of these modules were checked with TLC on the
instances of `client_session`, `json_buffer` and `summary_edits` before they were
proved.

Only model-checked: liveness (`RequestsComplete`, `EmergencyProcessesEnd`,
`RecordedEndsConnection`, `QueuedAlertsArrive`, `SendersReleased`,
`StuckOnlyByLoss`, `TcpLoopLeft`), which is out of the prover's reach. Every
other property of the passing runs is a theorem.

## Not modelled

* Text: names, printing, logs, screen output. A document is its three objects
  and a length.
* Partial writes: documents are far shorter than a stdio buffer.
* Handlers interrupting `printf`, `malloc` or `exit` themselves, which may
  deadlock inside the C library; zombies; `main`'s `wait` returning on SIGTERM.
* SIGTERM: its handler returns, and the interrupted `recv` or `accept` fails;
  that is `RecvFails` and `AcceptFails`.
* Setting up the server's sockets: a fixed sequence of calls, each of which
  exits on error. That a restarted server may fail to bind while old
  connections linger is the kernel's rule.
* Memory contents behind overrun buffers, but for their effects named above;
  running out of memory; what the user types but for the option chosen.
* `send` that takes part of what it is given: sockets are blocking, and the
  texts are far smaller than a socket buffer.

## Plan

All components the inventory names are modelled but for the setting up of
sockets and for logging, and every safety property the runs check is proved.
Left: to prove what exactly a sequence of overrides makes of a supply in two
spellings, of which only the effects on everything else are proved; and the
safety lemmas that the liveness properties rest on (a request
in progress can always go on, a waiting sender's queue has a reader or has been
removed).
