# common_component: a TLA+ verification project

common_component is a C++ framework for Linux servers. A process started by
`app_launcher` loads `app_frame`, which starts groups of threads (global, work,
burden, and the io groups tcp, proto tcp and web). Every thread runs a libevent
loop; threads talk to each other by task queues with a notification pipe; io
threads own connections; asynchronous requests are transactions with timeouts.
This directory holds TLA+ models of that machinery, the TLC runs that check them
and TLAPS proofs of the most important invariants.

`PROJECT.json` maps every definition that models code to its source lines and
lists runs, mutants, hazards and theorems. To check a run:
`tlc -config <run>.cfg <module>`; to check proofs: `tlapm <module>Proofs.tla`.

## 1. Inventory

| Component | State | Operations | Talks to | What makes it correct |
|---|---|---|---|---|
| `thread_center` | per thread: `tq_`, `pipe_`, `pending_notify_list_` and its 1us timer, `write_fd_mutex_`, `stopping_`, `reload_finished_` | PushTask, Notify{Stop,Reload,Exit}, ReadCallback, OnTask, OnStop, OnTimer, Start, Join, Release | every thread pushes into the others' queues under their mutex; the pending timer belongs to `timer_axis` | no task or notification lost, duplicated or reordered; no wakeup lost; stop drains the queue; tasks are handled in the end |
| `app_frame` (life) | the groups, `app_frame_threads_count_`, the start barrier | Initialize, Activate, NotifyReload, NotifyStop, CanExit, NotifyExitAndJoin, Freeze, Finalize, Release | calls the groups of `thread_center` from the main thread | all threads start before anything else; global reloads first; drain before exit; join before release; stop ends; a failed start is undone |
| `app_frame` (configuration) | `conf_mgr_`, which modules are loaded, created and related | LoadAndCheckConf, Load*Threads, CreateAllThreads, SetThreadsRelationship; ConfMgr's Load and getters | reads `conf_center`; loads the Threads modules with dlopen | threads counted = threads created; no null group; groups related as README.md says; getters never see a half-read configuration |
| `app_launcher` | main event loop, signal, inotify and exit-check events, watch descriptors, file stats | OnStop, OnReload, OnExitCheck, OnInotifyReadEvent, WatchConfFiles | drives `app_frame` | stops once; polls until the logics let go; follows the configuration files |
| `base` SeqNum | `cursor_`, `inuse_seqs_` | Alloc, Free, Reset | connection ids, transaction ids | finds a free number if there is one; late reuse |
| `timer_axis` TimerAxis | `timer_hash_map_`, libevent events | SetTimer, KillTimer, TimerExist, OnTimer | callbacks set and kill timers, their own too | an entry exists iff its event is pending; fires as often as asked |
| `timer_axis` RecordTimeoutMgr | `record_hash_map_`, `timeout_multimap_` | UpsertRecord, RemoveRecord, OnTimer and OnTimeout | base of ConnCenter, PartMsgMgr and RspMsgMgr | both maps agree; the scan ends; expired records are taken |
| `tcp_threads` | ConnCenter's maps by socket and by id, idle records, `online_tcp_conn_count_`; per connection receive buffer and send list | OnAccept, CreateConn, DestroyConn, ReadCallback, WriteCallback, Send, OnTask, SendToClient, CloseClient, OnTimeout | SeqNum, RecordTimeoutMgr, logics (callbacks that call back in) | maps and counter agree; no freed connection is used; the end of a connection is told once; bytes are sent once and in order |
| `proto_tcp_threads` | `data_` of a connection, `part_msg_mgr_` | OnRecvClientData, DispatchMsg, heartbeat, SendToClient | `tcp_threads`, `proto_msg_codec` | messages reassembled in order, dispatched once, answered; incomplete ones time out |
| `web_threads` | http and websocket parser contexts, `part_msg_mgr_`, parser settings shared by all | parser callbacks, OnRecvClientData, OnHTTPReq, OnWSMsg, RecordPartMsg | `tcp_threads`, the vendored parsers | bodies and messages whole and in order; unfinished requests time out; no freed context used |
| `work_threads`, `burden_threads`, `global_thread` | logics, schedulers with `last_*_thread_idx_` | SendToThread, SendToClient, CloseClient, broadcast, OnTask, OnStop, CanExit | `thread_center`, io threads, clients | a task reaches the thread it is for, an answer the connection it is for; rounds are even |
| `trans_center` | `trans_hash_map_`, `peer_trans_id_map_`, ids, timeout records | RecordTransCtx, CancelTrans, OnRecvRsp, OnTimeout, OnConnected, OnClosed | clients of `client_center_mgr` call it; sinks call back in | tables agree; a transaction ends once; it ends |
| `client_center_mgr` | clients per peer, `connected_`, bufferevents, cached messages, http callback arguments | CreateClient, Send, ReadCallback, SetConnected, reconnect timer, Get / Post, OnConnCleanupEvent | `trans_center`, `timer_axis` | answers are matched, reconnects happen, closes are told, connections are freed |
| `conf_center` | the document and three caches of values | Load, GetConf, GetGroup | `app_frame`, `app_launcher` | values are those of the document |
| `log_engine`, `base` utilities, `udp_threads` | | wrappers of libraries, pure functions; udp is not started by `app_frame` | | |

The hard behaviours: pushers and owner interleave on queue, pipe, pending list
and timer (only some of it under the mutex); `OnStop` holds a mutex across
callbacks; the main thread's calls interleave with the threads' own shutdown;
callbacks of sinks and logics re-enter the component that is iterating; batches
of timeouts are delivered after the state they were taken from has changed;
socket numbers and ids are reused; connections break while requests are cached,
half written or half read; files change while they are read; a start may fail
at any step. `PROJECT.json` lists them as hazards with their lines.

## 2. Modules

| Module | Models | Notes |
|---|---|---|
| `ThreadCenter`, `MCThreadCenter` | `thread_center` | one action per callback or locked section; `ctl[t]` says where a thread is; two threads, three groups |
| `AppFrame` (EXTENDS `ThreadCenter`), `MCAppFrame` | main thread, `app_launcher` + `app_frame` | one call on one thread per step; implements `Spec` of `ThreadCenter` |
| `AppConf` | `AppFrame::Initialize` | all configurations with counts -1, 0, 1 |
| `Dispatch` (EXTENDS `AppConf`), `MCAppConf` | the schedulers and OnTask of all groups | goes on where `AppConf` ends, for four configurations |
| `SeqNum`, `SeqNumReuse` | `base/inc/seq_num.h` | instantiated by `TCPThread` and `TransCenter`; `SeqNumReuse` adds, per number, what was touched since it was allocated |
| `RecordTimeoutMgr` | `record_timeout_mgr.h` | instantiated by `TCPThread` and `TransCenter` |
| `TimerAxis` | `timer_axis.cpp` | |
| `TCPThread` | `conn_center.cpp`, `thread_sink.cpp`, `normal_conn.cpp` | composes `SeqNum` and `RecordTimeoutMgr`; `frames` is the stack of nested callbacks |
| `TransCenter`, `Transactions` | `trans_center.cpp` | composes `SeqNum` and `RecordTimeoutMgr`; `Transactions` joins the promises of both |
| `TransTable` | what clients see of `trans_center` | a small table instead of `TransCenter`, whose inner state the clients do not touch |
| `ProtoTCPClient`, `HTTPClient`, `Clients` | `client_center_mgr` | one client of each kind over one table of transactions; `Clients` composes them |
| `ProtoCodec` | `proto_msg_codec.h` | messages as cells of length field and body |
| `ByteChannel` | abstract: bytes accepted, delivered in order, up or down | refined by the send side of `ProtoStream` |
| `ProtoStream` | `proto_logic.cpp`, `normal_conn.cpp`, `buffer_event_conn.cpp` | one connection from socket to handler and back |
| `WebConn`, `MCWebConn` | `web_logic.cpp`, `the_http_parser.cpp`, `the_ws_parser.cpp`, `mpart_body_processor.cpp` | connections of two threads; a request is a sequence of tokens between parser callbacks |
| `ConfCenter`, `ConfMgr`, `ConfWatch`, `MCConfWatch` | `conf_center.cpp`, `conf_mgr.*`, `event_wrapper.cpp`, `app_launcher.cpp` | from the editor's system calls over inotify to the getters in the threads |
| `LifeTables`, `ProcessTables`, `ModuleLife`, `MCModuleLife` | Initialize to Release of every module of a process | the tables hold the steps of each function, `ModuleLife` executes them, with failures |
| `AppFrameProofs`, `TransactionsProofs`, `UtilityProofs` | theorems about `ThreadCenter` and `AppFrame`; `RecordTimeoutMgr` and `TransCenter`; `SeqNumReuse`, `TimerAxis` and `ProtoStream` | in the first two the second module's proofs build on the first's |
| `ClientsProofs`, `TCPThreadProofs`, `DispatchProofs`, `ConfWatchProofs`, `WebConnProofs` | theorems about the module each is named after | `DispatchProofs` begins with `AppConf` |

Operators commented "Mutant" are variants of the definition that follows, with a
plausible bug; replacing the definition by its mutant makes the named property
fail, which shows that the property depends on the code.

### ThreadCenter and the code

A notification is a byte in `pipe[t]`, or in `pending[t]` when the pipe is full;
`Write` is the locked write common to PushTask and the three Notify functions.
Each locked section is one action, because it neither blocks nor calls out,
with the exception of `OnStop`: `LockForStop`, `Drain`, `TaskDone`, `StopDone`
hold `mutex[t]` across steps, since the sink runs in between. A push is two
steps: the callback decides (`PushTaskToThread`, which for a broadcast names
all threads of the group in turn), then `PushTask` waits for each target's
mutex. `timer_axis_` of a thread is used by pushers under the mutex and by the
owner without it; the owner's unprotected read of `removed` and its erase are
the separate steps `CheckRemoved` and `RemoveTimer`. A byte lost by `EINTR` on
the non-blocking one-byte write goes the same way as a full pipe and is covered
by it. A task is named by its number among those pushed to its target.

### AppFrame and the code

`main` is the main thread's position, `left` the threads its current loop has
still to call, `groups_left` the groups `NotifyExitAndJoin` has still to join.
CanExit asks the logics of all threads; their answer is theirs here, so
`OnExitCheck` may happen at any poll (how the logics come to it is in
`ModuleLife`). `ThreadsCount` is the counted number of threads whose agreement
with the created ones is part of `StartIsSound`.

### Dispatch and the code

A thread is `<<kind, index>>`. Logics call the scheduler of their thread at any
time, with any guid they have been told of (`known`): by OnClientConnected, or
with a message (`OnMessage`). `SendToThread` is `work::Scheduler::SendToThread`
and its twin in `tcp::Scheduler`, behind the operations each interface offers
(`Offered`) and with the group pointers `SetThreadsRelationship` gave out
(`Groups`). `WorkToClient` finds the io thread by type and index and pushes a
task; `IOToClient` goes by the index in the own group alone, and acts at once
when the connection is its own thread's. Ids are the same in all io threads, as
each counts its own. Which handler a message id selects and the message bytes
are left out; how queues are served is `ThreadCenter`'s.

### TCPThread and the code

The thread is sequential, but callbacks nest. `frames` holds the running
callbacks (`OnClientConnected`, `OnRecvClientData` inside the read loop,
`OnClientClosed`) with the logic that is called next; `TellAndClose` is a logic
that calls CloseClient. A frame holds the pointer the C++ code holds; using it
after the object is freed sets `uaf`. `ForeignClose` stands for another io
thread closing a number twice (`NormalConn::Initialize` on its error path and
then `Finalize`); `MaxForeign` bounds it, 0 leaves it out. What a read or write
returns is a choice; the byte contents are in `ProtoStream`.

### TransCenter, Clients and the code

`calling` is the sink's callback that runs; inside it the logic may record and
cancel transactions. Ids are not reused within a behaviour (`Fresh`): `FullCircle`
says that reuse takes all other numbers first, 2^32 of them here.

The cached messages of a client are a set of ids, as their order is that of the
ids and nothing depends on it beyond that.

In `ProtoTCPClient` every attempt to connect has its own bufferevent; attempts
overlap when the reconnect timer fires while one is under way. `Connect` may fail
at once (no address, no socket, no bufferevent): CreateClient then keeps no client,
and the reconnect timer goes on. (What libevent calls from inside a connect that
fails is not modelled.) A transaction without a sink is cancelled by
RecordTransCtx itself (`trans_center.cpp:166`), so its answer finds none.
A message of the peer is an answer or a notification; the latter goes to the
sink of the thread, which the scheduler adds to every client it creates and nobody
removes (`work_threads/src/scheduler.cpp:363`). `recved_data_`
and `send_list_` belong to the client and survive a lost connection, as in the
code. `ReadMsg` is one turn of the loop of `ReadCallback`, taken up again where
the code would go on. In `HTTPClient` a request's `CallbackArg` goes from in
flight over its clean-up event to released.

### ProtoStream and WebConn and the code

In `ProtoStream` the client's messages are a stream of cells; a read takes any
non-empty prefix of what has arrived. `parsing` is the loop in
`OnRecvClientData`: while it goes on nothing else of the thread does. A message
is a heartbeat, has a handler or not, has a bad length or a bad checksum
(`Kinds`). Answers are appended by `Send` and written in part by `WriteCallback`
or libevent's buffer. `SendsInOrder` is the refinement of `ByteChannel`.

In `WebConn` a token is the stretch of input between two parser callbacks, and
`piece` the tokens of the current read. The parsers of two threads run at the
same time (`busy`), and share `on_body`, the field of the settings that
`OnHeadersComplete` switches for multipart bodies and `OnMessageBegin` sets back.
`mpart` says whether a connection's processor of multipart bodies has a parser,
which survives `Req::Reset`; the multipart callback without one follows a null
pointer (`crashed`). A websocket frame is two tokens, its header and its body, so
that reads cut inside it; after a handler that closed, `Uses` records whatever
the code still does with the freed parsers. Which callbacks the vendored
parsers make for a token is modelled from how the code uses them (`InOrder`). A
parse error of a frame (`the_ws_parser.cpp:147`) cannot happen: the websocket
parser stops only when a callback returns non-zero, and none does.

### ConfWatch and the code

An edit of a file is its system calls: written in place, replaced by rename, or
moved away, written anew and the backup deleted. inotify events queue up and
are read by `OnInotifyReadEvent`, which compares `FileStat`s and renews watches.
`OnReload` reads the files into the log engine and `ConfCenter`, then `ConfMgr`
section by section under its lock, while threads call the getters.

### ModuleLife and the code

A step is `<<op, owner, member>>`; `todo` holds the steps that are left of what
`main` executes, `st` the state of every member. The launcher's `event_wrapper`
is a member from SetAppLauncher on (`app_launcher.cpp:58`). A failing step of Initialize
or Activate replaces `todo` by what `main.cpp` then does, which is the same
teardown as at the end of a good run. Threads run between Start and Join; their
logics are told to stop and say in their own time that they can exit.

## 3. Runs

| Run | Question |
|---|---|
| `thread_overflow` | are tasks, notifications and wakeups conserved when the pipe overflows and a thread is stopped, reloaded and told to exit? |
| `app_lifecycle` | does the process start, reload, stop and end in the right order, with and without global thread, and is it an implementation of `ThreadCenter`'s `Spec`? |
| `app_conf` | do the threads that are counted, loaded, created and related agree, for every configuration (`StartIsSound`); do tasks and answers reach what they are for, in order, in even rounds (`Routed`)? |
| `seq_num` | is a free number found, and reused only after a full circle? |
| `timer_axis` | does a timer exist iff it is pending, and run as asked? |
| `tcp_conns` | do the connection tables and the counter agree, is no freed connection used, is every end told? |
| `trans_center` | do the transaction tables and the timeout index agree, does the scan end, does a transaction end once, and does it end? |
| `clients` | are responses matched to their requests and notifications told, lost connections told and taken up again, http connections freed? |
| `proto_stream` | are messages handled once and in order however they are cut, are incomplete ones watched, are answers delivered in order, is every whole request answered? |
| `web_conn` | do handlers get their request's bytes in order, are unfinished requests watched and ended, is no freed context used? |
| `conf_watch` | do caches, members and getters agree with the file that was loaded, and does the process follow its files? |
| `module_life` | is everything taken down in an order in which nothing is used after it is gone, also after a failed start; do all logics agree to the exit; does every process end? |

Several properties are conjunctions of named parts, defined beside them: the
type invariant of a module is one of them (`TypeOK` and its like).

The bounds and why they are enough:

* Two threads and at most 3 tasks: every interleaving of a pusher, an owner and
  the main thread on one queue needs two threads; a third task is the first that
  meets a full pipe, a pending byte and a served one at once. `PipeCapacity` is
  1 to overflow; `app_lifecycle` has 4, which at most 5 notifications per thread
  do not fill while the thread runs.
* `MaxNotices`: at most one stop, one reload and one exit per thread; the main
  thread sends no more (`reloads < MaxReloads`, `stop_called`).
* SeqNum with five numbers, from 2 so that the range does not begin at 1: wraps,
  full table, frees in any order.
* A clock of 0..2, timeouts 1 and 2, three transactions, two peers: equal and
  different expiries, two records expire in one batch and one later. A
  transaction's record is inserted once; refreshed records are in `tcp_conns`.
  That record and index agree when a key is upserted again and when the clock
  goes back is theorem `MapsMatch`; no run has a clock that goes back.
* Two sockets, three connections, three ids: a socket number is reused while
  another connection is open; ids are reused by id wrap.
* Thread counts -1, 0, 1: negative, absent, present. Sums of more threads are the
  same sums. The four busy configurations have two threads in one group each, or
  two io groups with equal indices and ids; two calls to threads bring a guid to
  a third thread or make a round wrap, two calls for clients put an answer
  before a close. Only the global logic calls without a guid (`Starters`): such
  a call differs from others in that nobody answers it.
* Two transactions, two bufferevents and a limit of two reconnects: attempts
  overlap, a response meets another's transaction, the limit is reached. The peer
  sends two messages (`MaxPeerMsgs`), answers or one notification (`Nfys`): one in
  front of another, of a lost connection or for a transaction without sink.
* Two messages of three cells (two of the length field): cut inside the length
  field, between length and body and between messages.
* Two connections on the same thread or on two, six pairs of scripts (`MCScripts`):
  requests that follow one another, a multipart request in front of another
  request and beside another client's, multipart or not,
  fragments with a ping between, bytes that are no request, a close frame.
* Two edits of two contents: the second falls into any step of the first's
  reload. `Probes` is one member.
* Four configurations of modules that the check accepts (`MCConfs`): every kind of
  threads, with and without global logic and common logics, and a group of two;
  one logic per host.

Deadlock checking is off where the model ends by design (the process has ended,
a bound is used up); it is on for `seq_num` and `module_life`.

### Fairness

* `ThreadCenter.Fairness`, `AppFairness`: the scheduler runs every thread, and
  libevent serves every active event of a loop, so pipe, timer and the steps of a
  running callback are weakly fair separately. No push, stop signal or reload is
  assumed to happen. `AppFairness` has weak fairness on the main thread,
  `OnExitCheck` included: the logics allow the exit in the end.
* `TransFairSpec`: the check timer is periodic and its batch is worked off in the
  same callback; strong fairness of `Tick` and `OnTimer`, because the loop may be
  in a callback at any moment but returns from each.
* `Clients`: an attempt to connect succeeds or fails in the end (TCP's own
  timeout), the reconnect timer fires, a callback's loop goes on, an http request
  is completed by libevent, by answer or timeout.
* `ProtoStream`: the loop serves readable and writable sockets, a started
  callback goes on, work threads answer the tasks given to them. The client is
  not assumed to send.
* `WebConn`: a running parser goes on; the timer of `part_msg_mgr_` fires.
* `ConfWatch`: the main thread goes on, an edit that was begun is finished.
* `ModuleLife`: main, threads and logics go on; a logic that was told to stop
  allows the exit from its timer, as all logics of the repository do.

## 4. Where code and comments part

The passing properties hold of the code as it is. Where the code falls short of
what a comment or the repository's README says, the property has a condition for
it, or a constant of the module rules the case out. The constants below bring
each case back; TLC then finds the counterexample.

Left out of the runs by a constant:

* `TaskHandled` of `ThreadCenter` (`FairSpec`, `Related <- MCRelated`,
  `MaxNotices <- NoNotices`, `PipeCapacity = 1`): PushTask re-arms the
  pending-notification timer under `write_fd_mutex_` (`thread.cpp:257`), but
  `TimerAxis::OnTimer` of the owner reads `removed` and erases the timer without
  it (`timer_axis.cpp:49-53`); the byte is never written and the task is never
  handled, against `thread_center_interface.h:188`.
* `CallsEnd` with `StopRelated <- CyclicStopRelated`: OnStop holds
  `write_fd_mutex_` (`thread.cpp:341`) while the sinks push; two threads that push
  to each other there, or one that pushes to itself, wait for ever. README.md:42
  lets work threads schedule to all groups, their own included.
* `NoUseAfterFree` with `ClosesInClosed = TRUE`: a logic that closes another idle
  connection in OnClientClosed leaves a dangling pointer in the batch of expired
  ones (`conn_center.cpp:276`).
* `IteratorValid` of `TransCenter` with `CancelsSelf = TRUE`: CancelTrans of the
  transaction a sink is told of in OnConnected or OnClosed erases the element the
  loop's iterator points to (`trans_center.cpp:210`, `235`).
* `ConfFollowsFile` with `Patient = FALSE`: an edit between the load of the
  configuration and the first watch (`app_launcher.cpp:136-141`) is never noticed,
  and inotify_add_watch on a path that is missing between delete and rename
  leaves the file unwatched for good (`event_wrapper.cpp:125`).
* `ConnectsOrGivesUp` of `Clients`: a client whose first connect fails never
  starts the connect timer, although `proto_tcp_client.cpp:423` speaks of giving
  up after 100 failures.
* `UsersGoFirst` with `StartMayFail = TRUE`: when a later pthread_create fails, the
  threads that run already are destroyed without being joined.
* `Routed` with `Careful = FALSE`: `tcp::Scheduler` ignores the guid's io type, so
  an io logic that answers a guid of another group writes to another client or
  follows a null pointer; `global::Scheduler` broadcasts through a null group
  (`global_thread/src/work_logic/scheduler.cpp:20`).

Conditions inside properties:

* `TimersAsAsked`: a timer set again while its marked entry is still in the map
  keeps the old `total_times` and `times` when -1 is asked for
  (`timer_axis.cpp:164`), and a SetTimer inside the timer's own last callback is
  undone by `OnTimer` (`timer_axis.cpp:49`), although `timer_axis_interface.h:79`
  says -1 goes on for ever. An object pointer with len 0 is dropped
  (`timer_axis.cpp:278`); `timer_axis_interface.h:52` documents it.
* `StartIsSound`: leaves the burden group out of the documented relations (it is
  related to the global thread and itself only, `app_frame.cpp:1148-1161`, while
  README.md:12 lets it schedule to all groups) and negative thread counts out of
  the rules, as they pass (`app_frame.cpp:527`). The check also refuses a server
  with web logics, work threads and no work logic (`app_frame.cpp:655`), against
  its comment at 658.
* `ClosedIsTold`: a connection whose socket number comes back is destroyed without
  OnClientClosed (`thread_sink.cpp:537`). `tcp_conns` has one logic: with two, a
  logic that closes the connection leaves the next a dangling guid
  (`thread_sink.cpp:392`).
* `LifeInOrder` needs a pipe that does not fill, otherwise 'e' may overtake 's'.
* `BytesInOrder` is about clients whose bodies behind the first come in one stretch,
  as in `MCScripts`. With `Post \o Post` a read that ends the first request and brings
  the first stretch of the second body hands both on together, as complete_ stays
  set and the body is one buffer (`the_http_parser.cpp:278`, `456`).
* `CtxUse`: `on_body` of the settings all parsers share is switched by the requests
  of every connection (`the_http_parser.cpp:331`, `444`), so a body may go to the
  wrong callback, which may follow a null pointer and end the process. The property
  says that this takes a switch by another connection since the request began, or,
  for the wrong callback, a request joined to the one before. And a websocket
  handler that closes its connection leaves `websocket_parser_execute` running in the
  freed context; the property says that no http parser does. The run reaches all
  of these.
* `BytesInOrder` is, for bodies, about clients that send no multipart request: the
  joined or misdirected bodies of others are what `CtxUse` is about.
* `NothingLeft`: after a failed start main still calls Stop (`main.cpp:152`). When the
  single-run check or the pid file failed, SetAppLauncher has not run and OnStop
  follows a null pointer to the launcher (`event_wrapper.cpp:269`); when the inner
  module of a wrapper was not loaded, NotifyStop follows that (`app_frame.cpp:285`).
  The property says that there is no other crash, that nothing exists yet in the first
  case, and that no thread runs in either.

Modelled as they are: an upsert of an existing record does not store the value
(`record_timeout_mgr.h:235`); a response whose transaction is gone is not consumed
and blocks those behind it (`proto_tcp_client.cpp:157-162`); `recved_data_` is not
cleared on reconnect; messages of timed-out transactions are still sent; with a
reconnect interval of 0 a client is removed without OnClosed; the error answer
written before a server close is dropped, and EV_CLOSED drops unread data; a
message that does not decode stays in the buffer unwatched; a length field cut
by a read is read past its end and may close the connection; pipelined http
requests in one read are merged, a URL cut by a read is overwritten; a part record may
outlive the message it was made for (`web_logic.cpp:489`); a parse error leaves the connection open until its part timeout; a ping between fragments is
merged into the message; `IN_MOVE_SELF` is not handled; a file read while it is
written loads what is there.

## 5. Theorems

All theorems are for every value of the constants under the named ASSUMEs.

### thread_center and app_frame

* `ThreadCenter` (in `AppFrameProofs`): `ThreadTypes`, `StopMutex`, `StopDrains`, `NoticesKept`,
  `WakeupsKept`, `NothingDroppedEarly`, `TasksKept`, for all sets of threads,
  groups, relations, pipe capacities and bounds. `StopHoldsMutex` is the inductive
  strengthening of `DrainedAtOnStop`: it says who may hold a mutex between steps
  and when a task is in the sink; the empty queue at `on_stop` follows because no
  `Write` is enabled while the mutex is held. `NoticesConserved` and `NoLostWakeup`
  are inductive on top of the types, by lemmas about counting a byte in a sequence
  (`CountAppend`, `CountTail`). `TasksConserved` needs `ReleaseLast`: tasks are
  dropped by a release only, and no thread is left then that could push.
* `AppFrame`: `AppImplementsThreads` is the refinement `AppSpec => Spec`. Its
  one difficult step is the release: `ThreadCenter` releases a thread only when all
  have ended, and the main thread relies on having joined group after group.
  `MainInv` says so (`GroupsInTurn`: the threads of joined groups have left their
  loops; `ReleasesLast`: in the release phase all have). From the refinement
  everything proved of the threads holds of the process (`ThreadsKeepPromises`).
  The parts of `LifeInOrder` have invariants of their own: `StartsCounted` (the
  start barrier counts the threads that have started, so a full count means all
  of them, by cardinality of finite sets), `ReloadsInTurn` and `ReadWasSent` (what
  a thread has read of reloads was sent, and the others are sent theirs after the
  global thread's flag), `StopsSent` and `StopsFirst` (a stop byte is ahead of the
  exit byte in the pipe until it is read). `StopsBeforeExits`, and with it
  `LifeKeepsOrder`, are about the behaviours in which no pipe is full
  (`[]NothingPending`), because with a full pipe the exit byte may overtake the
  stop byte; the pipes of run `app_lifecycle` never fill.

### timers, numbers, transactions

* `SeqNumReuse` (in `UtilityProofs`): `SeqTypes`, `CircleHolds`, `ReuseAfterFullCircle`,
  `AllocAlwaysFinds`, for every range. `CircleInv` relates the numbers touched since
  an allocation to the arc between that number and the cursor; the full circle at
  reuse follows from it and the definition of the search. That the search ends at
  a free number is the least-number principle (`LeastNumber`, from the
  well-foundedness of < on Nat).
* `RecordTimeoutMgr` (in `TransactionsProofs`): `RTMTypes`, `MapsMatch`, `ScanAlwaysEnds`, for all keys,
  values, timeouts and clock bounds. `IndexMatches` is inductive with the types
  and rules out every stray entry.
* `TimerAxis` (in `UtilityProofs`): `TimersRunAsAsked`. `TimerInv` relates, per timer, the entry of
  the map, the pending event, the mark left by KillTimer inside a callback, and
  the counts of what was asked and what was run.
* `TransactionsProofs`: `TransInv` says of every id which of the tables it is in while
  its transaction is live, while its end is being told, and after (`TransMatches`),
  with the peer lists and the batch of expired records. `UsesRecordTimeoutMgr` is
  a refinement: the steps of `trans_center` are steps of `RecordTimeoutMgr`, so
  `MapsMatch` and `ScanAlwaysEnds` carry over. `SinksToldOnce` is the safety half
  of `EndsOnce`. `IteratorsStayValid` has the hypothesis `CancelsSelf = FALSE`, which
  is exact: with it TRUE the code uses an erased iterator (section 4).

### connections

* `ClientsProofs`: `ClientsInv` joins `Connection` (which bufferevent is in use, and
  when the connect timer runs), `Requests` (http requests and their clean-up),
  `Losses` and `Answers` (every whole message in `recved_data_` or on the way was
  sent by the peer) for any sockets, transactions, notifications and bounds.
* `TCPThreadProofs`: `TCPInv` describes the connections between any two steps,
  with callbacks nested to any depth: maps, ids, counter and idle records
  (`Tables`, `Counted`, `Watched`), the batch of expired records still to be told,
  and the frames, each of which holds a connection that is live or known to be
  gone. `TablesAgree`, `FreedNeverUsed`, `EndIsTold` and the refinement
  `IdleRecordsKept` follow. Their hypothesis `LogicsCareful` is that no logic closes
  a connection in OnClientClosed, and that a logic that closes one in another
  callback is the only logic; without it the code does use freed connections
  (section 4). The logics of run `tcp_conns` are careful in this sense.

* `ProtoStream` (in `UtilityProofs`): `MessagesInOrder` and `RestIsWatched`. `StreamInv` adds to
  `InOrder` and `PartWatched` that the loop runs on data of an open connection.
  What has arrived and what has not are together the stream from the first
  message that was not handed on, so the data always begins at the border of a
  message (`FirstMsg`); then IsWholeMsg reads the length field of that message, and
  only a wrong checksum keeps it from being decoded (`WholeIsNext`). The place of a
  cell in the stream is by division (`StreamCells`, from `DivisionOfSum`).
  `SendingImplementsChannel` is the refinement of `ByteChannel` by the sending side
  (`SendsInOrder`). `SendInv` says that what was accepted is what was delivered followed
  by what is on the send list, while the client is there; WriteCallback cuts the
  list inside an item, and `CutList` says that its items together are then the rest
  of what they were. `FlatConcat` and `FlatJoins`, about FlattenSeq for any list, are
  by induction over its length (`UpTo`, from `LeastNumber`).
* `WebConnProofs`: `PartsWatched` (`WatchedWhilePart`) and `CtxSound` (`CtxUse`), for
  any connections, threads, clients and cut of what they send. `WebInv` says per
  connection when a parser runs and what it may have left (`RunInv`), that a request
  that is complete is handed on before the read ends, and what was parsed behind it
  in that read is known to be (`CompleteInv`), and that a message that has begun is
  watched at the end of a read (`PartInv`). `CallbackInv` is about the one variable all
  connections share, from one token to the next: behind the URL of a request the
  callback is the plain one and no Content-Type is left, behind its headers it is
  the one they ask for and the parser exists, each as far as `astray` has nothing.
  That `astray` gets every switch by others is `SetOnBody`, the only place where the
  callback changes. The assumption `ParserAssumption` is the contract of the vendored
  parsers: no part of a request or frame without the one before it.

### configuration, start and dispatching

* `DispatchProofs`: `StartSound` (`StartIsSound` of `AppConf`) for any counts
  of threads and any combination of groups. `StartInv` says, phase by phase, what the
  phases before have established: the check's rules, the modules loaded, the groups
  created, the relations. `NoNullGroup` and `DataIsHandled` need all of these
  together. `DispatchKeepsStart` is the refinement `DispatchSpec => ConfSpec`, from
  which `DispatchStartSound` follows. `DispatchRouted` is the invariant `Routed`:
  `QueueInv` keeps, of each queue, that tasks for a client wait only with the thread
  whose connection it is (`AtHome`, `Addressed`), that answers are numbered by the
  order of the calls and stay in it (`Numbered`, `QueueOrder`, `WrittenBefore`), that a
  closed connection was closed after what was written to it (`ClosedBefore`), and
  that each accepted answer has arrived, is on its way, or came too late (`Kept`).
  `InTurns` is the strengthening of `Balanced`: in the order of the turns, from the
  next thread on, the numbers of tasks grow by one at most. The hypothesis of the
  three is `Careful`, without which `Routed` fails (section 4).
* `ConfWatchProofs`: `CacheSound` (`CacheMatchesDoc`) and `GettersSound`
  (`GettersSeeLoaded`), for any documents, edits and reads. `WatchInv` says what holds
  between the steps of a reload: the maps of `ConfCenter` match its document
  (`MapsMatch`); the members are those of the last complete load, or while the
  lock is held, section by section those of the new document (`MembersInv`); no
  thread is told of a load before it has ended (`LoadsInv`). A member that two
  sections read ends with the value of the later one (`SectionOf`), which is what
  makes `MembersInv` inductive. There is no hypothesis beyond `ConfWatchAssumption`.

### Assumptions

The named ASSUMEs of the modules: `NoThread` is no thread, `seq_min >= 1`,
`seq_max > seq_min`, timeouts within the clock's range, model values that are no
record (`IdleRecordAssumption`) and the like. `ThreadsInGroups` says what
`CreateAllThreads` sees to and `StartIsSound` checks: every thread is in one group
and once in the order of calls, the counted threads are the existing ones, and the
global thread comes first. `WebAssumption`, `ConfWatchAssumption` and
`DispatchAssumption` are the types of their constants. `Careful`, `LogicsCareful`
and `CancelsSelf = FALSE` are hypotheses of single theorems, each with the
behaviour it excludes in section 4; the runs' instances satisfy them.
`ParserAssumption` is what http_parser and websocket_parser call back for.
`WiringAssumption` is how `TransCenter` uses its
RecordTimeoutMgr. TLC evaluates them on the runs' instances.

### Only model-checked

* Liveness (`CallsEnd`, `TaskHandledOrExit`, `TransEnds` and all the others), with
  its fairness: out of the prover's reach.
* `BytesInOrder` of `WebConn`: it holds of the run's kinds of clients (section 4); a
  theorem would need a hypothesis on how bodies are cut that binds no real client.
* The invariants of `ModuleLife` (`UsersGoFirst`, `NothingLeft`, `ExitAgreed`): its
  state is what is left of a table of steps, and the tables are nested lists of
  the steps of the functions of all modules, which TLC evaluates and the provers do not.

## 6. Not modelled

`udp_threads` (its use in `app_frame` is commented out); the pure utilities of
`base`, build files and scripts; `log_engine` beyond its place in start and end of
the process; memory allocation failures; command line, daemonising, pid file and
resource limits of `app_launcher`; the byte level of the vendored http, multipart
and websocket parsers, url decoding and response headers; values of checksums and
byte order; TLS; numbers beyond 32 bits in `conf_center`; AddSink and RemoveSink
of `trans_center` and RemoveNfySink of clients (nothing in the repository calls
them); CreateClient for a peer that has a client already; a reload that
arrives while one is under way in the same loop turn; which handler a message id
selects.

## 7. What is open

The safety properties that remain with TLC are `BytesInOrder` and the invariants of
`ModuleLife` (section 5). For the latter, a proof would state what each table does for
all sets of modules, along the lemmas about lists in `UtilityProofs`. In the
code, `udp_threads` is to be modelled once `app_frame` starts it.
