# redis-cerberus in TLA+

redis-cerberus is a proxy for a redis cluster. Clients talk to it as if it were
one redis server; it splits their requests by key slot, forwards the parts to
the nodes that own the slots, and puts the replies together. This directory
holds TLA+ modules that model its event loop, its connections and the way it
reads its input, the TLC configurations that check them on small instances, and
proofs, checked by TLAPS, of many of the properties for instances of any size. Line numbers refer to the files in
`src/`.

    tlc -workers 2 -config MCRename.cfg MCProxy     # one run
    tlapm ProxyProofs.tla                           # one module of proofs

## 1. The system

### Parts

| Part | Source | State | Operations |
|---|---|---|---|
| event loop | `core/proxy.cpp` | `_retrying_commands`, `_slot_map_expired`, `_slot_updaters`, `_finished_slot_updaters`, `_conn_poll_type`, `active_conns` of a batch | `handle_events`, `poll_ctl`, `_set_slot_map`, `_update_slot_map_failed`, `_retrieve_slot_map`, `new_client`, `pop_client` |
| client connection | `core/client.cpp` | `_parsed_groups`, `_awaiting_groups`, `_ready_groups`, `_output_buffer_set`, `_awaiting_count`, `_peers` | `on_events`, `_read_request`, `_process`, `_push_awaitings_to_ready`, `_send_buffer_set`, `_write_response`, `group_responsed`, `reactivate`, destructor |
| commands and groups | `core/command.cpp` | `awaiting_count` of a group, the step a multi-step command is at | `split_client_command` and the parsers of special commands, `select_remote`, `responsed`, `command_responsed`, the steps of a RENAME |
| server connection | `core/server.cpp` | `_commands`, `_sent_commands`, `_output_buffer_set`, the pool and the map of `Server` objects | `on_events`, `_recv_from`, `_push_to_buffer_set`, `close_conn`, `pop_client`, `get_server` |
| replies | `core/response.cpp` | `_last_error` | `split_server_response`; `rsp_to`: answer, redirect or fail a command |
| slot map | `core/slot_map.cpp` | `_servers` | `replace_map`, `clear`, `parse_slot_map`, `select_slave_if_possible` |
| slot map updaters | `core/proxy.cpp` | the socket, answer and progress of each `SlotsMapUpdater`; the shared `remote_addrs` | `on_events`, `_send_cmd`, `_recv_rsp`, `_notify_updated` |
| output queue | `core/buffer.cpp` | `_buf_arr`, `_1st_buf_offset` | `append`, `writev`, `clear` |
| long connections | `core/subscription.cpp` | the two ends of a SUBSCRIBE or BLPOP | `on_events`, `restore_client`, `after_events` |
| acceptor | `core/acceptor.cpp` | `_accepting`: whether it is registered | `on_events`, `turn_on_accepting` |
| message splitting | `core/message.hpp` | split points and nesting | `parse`, `split_by` over partial input |
| key slots | `core/slot_calc.cpp` | the hash-tag automaton | `next_byte`, `get_slot` |
| threads | `core/concurrence.cpp`, `core/globals.cpp` | one `Proxy` each; the list of remotes is shared | start-up, `notify_each_thread_update_slot_map` |
| statistics, system calls, utilities | `core/stats.cpp`, `syscalls/`, `utils/` | counters, none | formatting, thin wrappers |

### How they interact

A thread runs one loop. `epoll_wait` returns a batch of events; the handler of
each connection runs to completion. A client's handler reads requests, makes a
`CommandGroup` of each, puts the commands of the first `MAX_PIPE` groups into
the `_commands` of the servers that own their slots, and later writes the
replies. A server's handler reads replies, gives the i-th to the i-th of
`_sent_commands`, moves `_commands` to `_sent_commands` and writes. A command
that is redirected, whose server is lost, or whose slot has no server goes to
`_retrying_commands`. After the batch `poll_ctl` registers each connection as
its entry in `_conn_poll_type` says, `after_events` deletes closed clients and
notices closed servers, and, if commands are to be retried or the map is
expired, `_retrieve_slot_map` asks all remotes for a new map. The updater that
brings it is one more connection: in its handler the map is replaced, servers
are closed and opened, and the commands that wait are sent again.

Nothing is persisted and nothing in a thread is preempted. What makes the code
hard is that handlers act on each other's state in the middle of a batch, in
any order: a map is replaced between two events of one server; a client is
closed while its commands are queued at three places; an updater ends the round
the next event belongs to. Writes may be cut short at any byte. Threads share
the list of remotes and set each other's `_slot_map_expired`.

### What should hold

* of a client: its replies come in the order of its requests, each complete,
  each once; every request is answered as long as the client stays;
* of a command: it is in exactly one place until it is answered, and in none
  after that or after its client is deleted; its answer is counted once;
* of a server connection: a reply goes to the command whose request it answers,
  or is dropped; what is queued is going to be written;
* of the loop: it never waits with work to do that no event will wake it for;
* of a map update: a round has one outcome, the best its answers allow, ends,
  and is begun when commands wait for one;
* of the output queue: the stream is what was appended, byte for byte;
* of a descriptor: it has one owner, and nothing is read or written without one;
* of an object: it is not used after it is deleted, nor recycled while in use;
* of the slot map: the server of a slot is connected to a node that may serve it;
* of the input: what becomes of a message depends neither on the messages around
  it nor on the reads that bring it.

The hazards behind these are listed, each at its line, in `PROJECT.json`.

## 2. The modules

| Module | Models | Extends |
|---|---|---|
| `Subsequence` | the ordered filter of command vectors (`utils/alg.hpp`) | |
| `ProxyState` | the constants, the variables and initial state of a thread, routing | `Subsequence` |
| `ClientConn` | `Client` and `CommandGroup` | `ProxyState` |
| `ServerConn` | `Server`, the effect of replies | `ClientConn` |
| `SlotMapUpdate` | `SlotMap`, the end of an update round | `ServerConn` |
| `Proxy` | `handle_events`, the next-state relation, fairness, properties | `SlotMapUpdate` |
| `Service` | abstract: what a client is promised | |
| `Updaters` | the rounds of `SlotsMapUpdater`s in several threads | |
| `SlotMapRound` | abstract: one outcome for each round, as `Proxy` assumes | |
| `ClusterNodes` | CLUSTER NODES and what `parse_slot_map` reads from it | |
| `ServerPool` | `Server` objects, `servers_map`, `servers_pool`, both forms of `replace_map` | `ClusterNodes` |
| `Connections` | the descriptors of clients: acceptor, clients, SUBSCRIBE and BLPOP, in one thread | `ServerPool` |
| `Message` | `parse` and `MessageSplitterBase` | |
| `KeySlot` | `KeySlotCalc`, and the definition of redis cluster | |
| `Requests` | the input of a client or a server: splitters, command parsers, reads | `Message`, `KeySlot` |
| `BufferSet` | `BufferSet` with its vectored writes | |
| `MCProxy`, `MCUpdaters`, `MCConnections`, `MCRequests` | instances for TLC | the modules they are of |
| `SubsequenceProofs` | proofs: filters, null references and repetitions in queues | `Subsequence` |
| `ProxyProofs` | proofs: the servers' queues, the retry list, which of them has a command | `Proxy` |
| `ClientProofs` | proofs: types, order and counts in the methods of `Client` | `Proxy` |
| `PipelineProofs` | proofs: types, then order, of whole steps; the refinement of `Service` | `ProxyProofs`, `ClientProofs` |
| `CommandProofs` | proofs: commands and counts in whole steps | `PipelineProofs` |
| `ConnectionsProofs` | proofs: descriptors, their owners, the batch and the acceptor | `Connections` |
| `UpdatersProofs`, `BufferSetProofs` | proofs | `Updaters`, `BufferSet` |

An operator whose name says what is wrong with it (`AddPeersNone`,
`UnwrittenAgain`, `SentErased`, ...) stands before the definition it is a faulty
form of. It is not part of the specification: put in the place of that
definition it breaks a property, which shows that the property depends on that
piece of code. `PROJECT.json` pairs each property with one.

### Proxy and the modules it extends

One behaviour of `Proxy` is one thread. A step is one handler, except where a
handler is cut into consecutive steps that nothing can come between: ending a
round is `UpdaterDone` or `UpdaterFailed`, then a `CloseRemoved` for each server
that `replace_map` or `clear` closes (in any order: they are in a
`std::set` of pointers), then `SetSlotMap` or `Discard`. The variable `phase`
holds the place. Events of a batch are dispatched by `Dispatch`, at most one for
each connection and at most `MaxBatch`; `EndBatch` is all that `handle_events`
does after them.

| Action | Code |
|---|---|
| `Accept` | `Acceptor`, `Proxy::new_client` |
| `ClientEvent` | `Client::on_events`, with any number of requests arriving and any number of replies leaving; with `broken`, a failed write and `on_error` |
| `ClientQuit` | hang-up, end of file or a bad request |
| `ServerEvent` | `Server::on_events`: `k` replies read, some of them redirections, some ending a RENAME early, `w` requests written; with `broken`, a failed write |
| `ServerLost` | `close_conn` from `on_events` or `on_error` |
| `UpdaterDone`, `UpdaterFailed`, `CloseRemoved`, `SetSlotMap`, `Discard` | `notify_slot_map_updated`, `_update_slot_map_failed`, `replace_map`, `clear`, `_set_slot_map` |
| `EndBatch`, `Retrieve` | the rest of `handle_events`, `after_events`, `~Client`, `poll_ctl`, `_retrieve_slot_map` |

What is abstracted:

* A request is a group, the commands of a group are given by `GroupOf`, the
  slots of a command's steps by `Steps`; texts are left out. A reply is the
  request it answers. `wire[s]` is what has been written to the server and not
  yet answered: the network and the node together, in order and without loss as
  TCP delivers. The node is assumed to reply exactly once to each request. A
  surplus reply makes the proxy close the connection, which is `ServerLost`.
* A `Server` is its address. The objects behind it, the pool that recycles them,
  and connects that fail at once are in `ServerPool`.
* What a client's bytes mean, and which slots its keys have, is given by the
  workload; how the proxy finds out is in `Requests`.
* The updaters of a round are one connection with one outcome. `Updaters`
  shows that the real ones amount to that (run *round*, property `OneOutcome`).
* A write on a descriptor that is closed raises `SystemError`, which nobody
  catches; the client's `fd` becomes `badio` and the model stops.
* MOVED, ASK and CLUSTERDOWN are one kind of reply, as they are to
  `ServerConn`: the command is retried after a map update.

### Updaters

Each thread has its updaters by address, with what each has received, the
events still to come in its batch, and the slots of the commands that wait. A
round begins in `EndBatch`, is answered by `RecvRsp` and `HungUp`, and ends with
the first complete map or, when the last updater is through, with the best
partial map or none. `remotes` is shared by the threads; `UPDATESLOTMAP` and
`SETREMOTES` write it and `expired` of all threads, as `_slot_map_expired` is a
plain bool that other threads write. Whether full coverage is required is chosen
at the beginning. When no descriptor is left for an updater the exception of
`new_stream_socket` is not caught and the process ends: `SocketFails`.

### ServerPool and Connections

`ServerPool` has the methods as functions of one record: the objects with their
addresses, `servers_map`, `servers_pool`, the slot map, and, within an operation,
the objects `close_conn` was called for (`shut`). `Connections` is the
loop around it. A step is a handler, the call of `after_events` for one
connection, or the end of `handle_events`. The long connections attached to each
`Server` and those to be made inactive are its variables: `close_conn` hands the
one to the other, nothing looks at them before the operation is over, and so
`PoolBecomes` does it for all objects in `shut` at once.

| Action | Code |
|---|---|
| `Wait`, `WaitDangling` | `epoll_wait`, and the inactive long connections closed first; one of them may be deleted already |
| `Accept` | the accept loop, up to no descriptor, no connection, or an aborted one |
| `ClientGone`, `AskLong`, `AskLongNull` | the end of a client; `deliver_client`; a `Server` that never got a connection has no `Proxy` to count with |
| `AskLongThrows`, `NumberReused`, `CloseAgain` | `deliver_client` whose far end cannot be made: the exception closes the descriptor, another thread may be given the number, and the `Client` closes it again |
| `NearGone`, `NearData` | `LongConnection::on_events` |
| `FarGone`, `Message`, `PopReply` | `on_events` and `on_error` of the server ends, `restore_client` |
| `BadIO`, `RestoreFails`, `BadReply` | what ends the process: descriptor -1, a failed write in `on_error`, and a malformed reply to a pop |
| `ServerGone`, `ServerData`, `Update`, `UpdateFailed` | `close_conn`; `replace_map` with answers of nodes; `clear` |
| `EndEvents`, `AfterEvents`, `Finish` | the rest of `handle_events` |

After `BadIO`, `RestoreFails`, `BadReply`, `WaitDangling` and `AskLongNull` the behaviour ends
and `exited` says why. The invariants are about all states before that; *handover*
is about `BadIO`.

A line of CLUSTER NODES is a record: the number of its words, id, host (`Nil` if
empty), flags, master, ranges. Ports and the splitting at blanks are left out.

### Requests, Message and KeySlot

A buffer is a sequence of bytes; the name of a command, or the first word of an
error, is one byte. `Element` is `parse` for one element, `Turn` one turn of the
loops around it with the consumer's `on_string`, `on_array`, `on_error` and
`on_split_point`. `SplitClientCommand` and `SplitServerResponse` go over the whole
buffer, as the code does again at each read. A checksum is the bytes it was
computed of, so keys are in one slot here when the same bytes of them count.
`Overrun` is an undefined case: `btoi` looks at the byte after a colon that the
read has ended with. `Atoi` is `util::atoi`, which takes signs and blanks; for
blanks alone it returns a value that was never set, and any of `unset` is tried.
`Encode`, `Kind`, `Texts`, `Keys` and `Refused` are not code;
they say from the arguments of a request what has to become of it.

### BufferSet

The loops of `writev`, `write_vec`, `write_single` and `next_group_to_write` are
steps. Bytes are numbered in the order they are appended, so buffers and entries
of the I/O vector are a first byte and a length, as `iov_base` and `iov_len` are.
`Spec` is the output of a client; `ServerSpec` adds `clear`, by which a server's
connection is closed and its object used again.

## 3. The runs

| Run | Configuration | Instance | Checks | States |
|---|---|---|---|---|
| *rename* | `MCRename` | 2 clients, 2 nodes, a RENAME over two slots, READONLY, batches of 2, a map that is partial after a migration, 1 fault | `TypeOK` `OnePlace` `RepliesAligned` `CountsExact` `RetriesAttended` `ClientsAttended` | 126,706 |
| *pipe* | `MCPipe` | 1 client with GET, PING, MGET over both nodes, GET; `MaxPipe` 2, `MaxResponses` 1, 1 fault | `OnePlace` `RepliesAligned` `PipelineIntact` `RepliesComplete` `CountsExact` `ServersAttended` `ServiceSafety` | 28,231 |
| *live* | `MCLive` | MGET and PING, `MaxPipe` 1, 2 faults, fairness | `ClientsAttended` `EveryRequestAnswered` | 6,913 |
| *round* | `MCRound` | 1 thread, 2 remotes, 5 answers, full coverage required or not, 1 order, nodes may close quietly, fairness | `TypeOK` `UpdatersOutliveEvents` `RetriesHaveRound` `OneOutcome` `BestAnswerUsed` `RoundEndsUnlessCut` | 41,598 |
| *buffer* | `MCBuffer` | buffers of 1 to 3 bytes, 7 bytes in all, groups of at most 3 buffers and 4 bytes | `TypeOK` `ResumeExact` `VectorExact` | 11,659 |
| *conns* | `MCConns` | 2 clients, 2 long connections, 4 nodes, 2 slots, 5 descriptors, slaves read with a filter, 5 answers, batches of 2, 2 updates, 1 fault | `TypeOK` `OneOwner` `ObjectsOutliveEvents` `LongsAttended` `AcceptorAwake` `PoolClosed` `RightNode` `OpenServersMapped` | 788,934 |
| *requests* | `MCRequests` | all keys of up to 3 bytes over `{`, `}` and a letter; all pairs of 9 requests, 33 more alone (numbers with signs and blanks among them), malformed ones between two others; all pairs of 11 replies; all cuts | `TypeOK` `CutsInvisible` `RequestsRight` `SlotsRight` `RepliesRight` `ClosedIfBad` | 27,923 |

What they show:

* *rename*: commands are neither lost nor duplicated nor answered by the reply
  to another, and responses are counted once, when a command of three steps, a
  client that leaves, a lost server, a redirection and a map update meet in the
  same batch. Whenever the loop waits, there is a round for commands to be
  retried, and each client is waited for in the way its requests need.
* *pipe*: with `MAX_PIPE` and `MAX_RESPONSES` at values that split the pipeline
  at every place, a client's stream stays whole, and each step of the proxy is
  one the abstract `Service` allows.
* *live*: every request is answered or its client disconnected.
* *round*: however the answers of a round interleave, it amounts to one of the
  outcomes of `SlotMapRound`; late events of the same batch find their updater
  alive and change nothing; the map and the remotes come from an answer with the
  most slots, the last one included, and all commands are answered CLUSTERDOWN
  only if no answer may be used; and every round ends unless a node closes its
  connection without an answer, or the process ends.
* *buffer*: a stream resumes at the exact byte, wherever writes are cut.
* *conns*: a client's descriptor always has one owner while it goes from the
  acceptor to a `Client`, to a `Subscription` or a `BlockedListPop` and back, and
  a closed one has none, but for the double close described below; no
  event and no `after_events` reaches an object that is deleted, though either
  end of a long connection deletes both; no long connection is left without
  something that will delete it; connections that wait while descriptors are out
  are accepted when one is freed; `Server` objects, recycled, refused and moved
  between slots, are connected where the map says, and none is left open without
  a slot.
* *requests*: a message becomes the same group or response however reads cut it
  and whatever surrounds it; commands that are taken apart are well formed and
  have the slots redis cluster defines; malformed input closes the connection at
  the byte that shows it, and only that.

### Where the code and its documents disagree

Five runs check a property that a document, a comment or a test of the repository
states and that the code does not have. `PROJECT.json` quotes the statements.

* *wakeup*, `ServersAttended` (`core/proxy.cpp:154`): `_set_slot_map` registers
  the server of a retried command for writing at once. If that server had an
  event with nothing to write earlier in the same batch, `poll_ctl` puts its
  older entry back, and the command waits for some other event of that server.
  It takes a batch of two events; with single events (*pipe*) the property holds.
* *long*, `NoIOOnClosedFd` (`core/client.cpp:117`): `_write_response` goes on
  after `_process`, called by `_send_buffer_set`, has turned the client into a
  long connection and closed it.
* *hungup*, `RoundEnds` (`core/proxy.cpp:43`): an updater takes a closed
  connection for an incomplete answer and waits on.
* *handover*, `NoIOOnClosedFd` (`core/subscription.cpp:87`): the server end of a
  subscription writes what it has read to its client end, which an event earlier
  in the batch may have closed.
* *clear*, `VectorExact` (`core/buffer.hpp:121`): `clear` keeps the write offset.

More behaviours were seen in the models and are not runs, since no statement of
the repository is clearly against them:

* `close_conn` requeues what is still to be sent before what was sent
  (`core/server.cpp:156`), so two commands for the same key may change places.
* If `MAX_RESPONSES` were smaller than a pipeline, a write cut short and then
  resumed could leave answered groups in `_awaiting_groups`
  (`core/client.cpp:92`) with nothing to wake the client; `ClientsAttended` is
  therefore checked with `MaxResponses` no smaller than the pipeline.
* Without full coverage, a command for a slot that no node has is retried round
  after round and keeps the requests behind it waiting (`core/proxy.cpp:146`);
  *live* has complete maps.
* UPDATESLOTMAP given while a round is under way is taken to be done when that
  round ends (`core/proxy.cpp:133`, `193`), and a round that ends in another
  thread overwrites what SETREMOTES has set (`core/proxy.cpp:134`). Nor does an
  order wake a thread that waits in `epoll_wait`, which has no timeout. The
  `README.md` of the program promises an update "after the next operation", not
  which one; no property is stated of it.
* When the far end of a new long connection cannot be made, the client's
  descriptor is closed twice, by the destructor of the near end and by the
  `Client` that catches the exception (`core/client.cpp:58`). Between the two
  another thread may have been given the number, and then loses its descriptor.
  `OneOwner` says that this is the only time at which an object has the number
  of a closed descriptor.
* Exceptions that nothing catches end the process: no descriptor for an updater's
  socket (`core/proxy.cpp:207`), and a malformed reply to a blocked pop
  (`core/subscription.cpp:168`).
* A long connection that is deleted in the batch in which its `Server` is closed
  stays in `_inactive_long_connections` and is closed in the next batch
  (`core/proxy.cpp:285`): `WaitDangling`.
* A connect that fails at once leaves the `Server` in the slot map and in the
  pool (`core/server.cpp:212`); the next address given that object shares it.
  `RightNode` and `OpenServersMapped` are stated for updates whose connects could
  all be begun.
* The accept loop ends at an aborted connection with others still queued, and
  descriptors freed by servers and long connections do not resume a paused
  acceptor (`core/acceptor.cpp:47`); `AcceptorAwake` excepts both.
* The slot of BLPOP and BRPOP is that of the key followed by the timeout, unless
  the key has a hash tag (`core/command.cpp:783`); `SlotsRight` excepts them.
* A request of no elements, `*0`, is passed on to the node of the slot of the
  empty key (`core/command.cpp:1090`), and counts as a request in
  `RequestsRight`.
* A blocked pop whose reply has come keeps its connection to the node, and the
  object, until the node closes it (`core/subscription.cpp:176`).

### Bounds

Two servers and two slots are what it takes for a command to move from one to
another, for a group to have parts at both, and for a map to close one server
and keep the other. One fault (a lost connection, a redirection, a client that
quits, an update that fails) in *rename* and *pipe*, and two in *live*, make
each recovery path happen; the number of map updates and of events is not
bounded. Batches of two let one handler act between another's event and the end
of the batch; a batch of three would add no kind of pair. `MaxPipe` and
`MaxResponses` (64 and 256 in the code) are reduced until the pipelines of the
instances exceed them. In *buffer* the sizes are chosen so that groups end
because of the count, because of the size and because there is no more, and so
that a buffer can be cut twice. In *round* a second remote is what makes two
answers of a round differ, and one thread is enough for what a round is, as
threads only share `remotes` and flags: what other threads do to these, the
orders of its own clients do too, at any moment. The theorems are for any number
of threads.

In *conns* five descriptors are two clients, two servers and one far end, so that
each kind of descriptor can be the one that is missing. Two long connections can
be at two servers or at one; two updates move both slots to other servers and
recycle objects, with a pool that grows by two. Sockets and long connections are
interchangeable and reduced by symmetry (the properties are invariants, and no
action or answer names one of them). In *requests* keys of three bytes have every
kind of brace, a text of ten bytes has a length of two digits, and pairs show
what leaks from one message to the next; the limit of a million arguments is
eight.

In the other runs there is no symmetry reduction: clients and nodes have
different parts in the workloads.

Deadlock is not checked, because behaviours may rightly end: clients have asked
all they will, a connection has been closed, the input is used up, or the process
has ended.

### Fairness

epoll is edge triggered, but `EPOLL_CTL_MOD` at the end of a batch re-arms a
connection, so one that stays ready is reported again. Hence strong fairness for
a client receiving replies, a server receiving requests, a server replying, and
an updater getting its answer: they assume peers that read, and nodes that
answer or whose connection breaks. The loop's own steps (`EndBatch`, `Retrieve`,
`CloseRemoved`, `SetSlotMap`, `Discard`) have weak fairness: they are code that
runs next. Nothing is assumed about clients sending requests, about faults or
about which map an updater brings. *live* uses single-event batches and complete
maps, for with batches of two (*wakeup*) or a hole in the map the property does
not hold.

`Updaters` assumes the same of its threads and nodes: a thread that has events goes
through them to the end of the batch, an updater's socket that stays ready is
reported again, and a node answers or its connection breaks. That `epoll_wait`
returns for any other reason is not assumed: it has no timeout
(`core/concurrence.cpp:23`). A node that has closed its end quietly stays readable
for ever, which is what *hungup* is about and `RoundEndsUnlessCut` excepts.

## 4. The proofs

| Theorem | Says | Along |
|---|---|---|
| `ProxyProofs!RepliesCorrect` | `Spec => []RepliesAligned` | `ServerInv` |
| `ProxyProofs!RetriesNotForgotten` | `Spec => []RetriesAttended` | `Attended` |
| `PipelineProofs!TypeCorrect` | `Spec => []TypeOK` | `TypeInv` |
| `PipelineProofs!PipelineCorrect` | `Spec => []PipelineIntact` | `PipeInv` |
| `PipelineProofs!ServiceImplemented` | `Spec => ServiceSafety` | `PipeInv`, `StepNoticed` |
| `CommandProofs!CommandsInOnePlace` | `Spec => []OnePlace` | `CommandInv` |
| `CommandProofs!CountsCorrect` | `Spec => []CountsExact` | `CommandInv` |
| `CommandProofs!RepliesWhole` | `Spec => []RepliesComplete` | `CommandInv` |
| `ConnectionsProofs!DescriptorsOwned` | `Spec => []OneOwner` | `ConnInv` |
| `ConnectionsProofs!EventsOfLive` | `Spec => []ObjectsOutliveEvents` | `ConnInv` |
| `ConnectionsProofs!LongsKept` | `Spec => []LongsAttended` | `ConnInv` |
| `ConnectionsProofs!AcceptorWakes` | `Spec => []AcceptorAwake` | `ConnInv` |
| `UpdatersProofs!InvAlways` | `Spec => []Inv` | `Inv` |
| `UpdatersProofs!TypeCorrect` | `Spec => []TypeOK` | `Inv` |
| `UpdatersProofs!NoFreedUpdater` | `Spec => []UpdatersOutliveEvents` | `Inv` |
| `UpdatersProofs!NoRetryForgotten` | `Spec => []RetriesHaveRound` | `Inv` |
| `UpdatersProofs!RoundsImplemented` | `Spec => OneOutcome` | `Inv` |
| `UpdatersProofs!BestUsed` | `Spec => BestAnswerUsed` | `Inv`, `Incomplete` |
| `BufferSetProofs!ResumeCorrect` | `Spec => []ResumeExact` | `Inv` |
| `BufferSetProofs!VectorCorrect` | `Spec => []VectorExact` | `Inv` |
| `BufferSetProofs!TypeCorrect` | `Spec => []TypeOK` | `Inv` |

The theorems about `Proxy` hold for any clients, servers, slots, workload, maps
and bounds that satisfy `WorkloadAssumption` and `BoundsAssumption`
(`ProxyState`), those about `Updaters` for any threads, nodes, answers and
settings that satisfy `AnswersAssumption`, those about `BufferSet` for any sizes
and limits that satisfy `SizesAssumption`, those about `Connections` for any
finite sets of sockets and long connections, any batches, answers, pools and
limits of descriptors that satisfy `ConnectionsAssumption` and `PoolAssumption`.
TLC evaluates these assumptions in the runs of their modules.

**RepliesCorrect.** `RepliesAligned` is not inductive. Closing a connection
empties `sent`, `wire` and `output`; opening it sets `sent` and `wire` only, so
one has to know that the output of a closed server is empty (`ClosedSilent`),
and concatenations can be split only when their parts are known to be sequences
(`QueueTypes`, `StreamTypes`). `ServerInv` is these with `Aligned`, a form of the
property by `Follows(nul, s, t)`: `s` is as long as `t` and each entry is that
of `t` or null. `SubsequenceProofs` shows that `Follows` survives what the code
does to both sides: dropping as many entries in front (replies read), appending
the same entries (`_push_to_buffer_set`), moving entries from `output` to `wire`
(a write), and replacing entries by null (`pop_client`).

**RetriesNotForgotten.** `RetriesAttended` speaks of the loop between two
batches, and is not inductive: `SetSlotMap` ends the update while commands are
still to be retried. It is the updater's own event, still in the batch, that
makes `handle_events` look at them again, so `Attended` adds that the updater is
in the batch while a map is replaced.

**TypeCorrect of Proxy.** A group is taken from `_parsed_groups` by position, and
a slot from `Steps` by stage, so `TypeInv` adds that stages are in range; the
lemmas of `ClientProofs` follow the methods of `Client` one by one.

**PipelineCorrect and ServiceImplemented.** `PipelineIntact` says of an open client
that what it has received, its output, `_awaiting_groups` and `_parsed_groups`,
put together, are the requests it has sent, in their order. `Service` also
covers the step that closes a client, and from then on `_parsed_groups` need not
be the rest: a request for a long connection leaves
the groups before it in both queues. `Tidy` therefore says that what was
processed is a beginning of the requests sent, and that the rest is
`_parsed_groups` as long as the client is open. The lemmas show that the methods
of `Client` keep `Tidy` and take nothing back (`Good`). `StepNoticed` sums up the
actions: each is an `Exchange` with one open client, or is `Unnoticed`.

**CommandsInOnePlace, CountsCorrect and RepliesWhole.** None of the three is
inductive, and each needs the others, so one invariant proves them:
`CommandInv` is `PipeInv`, `CountInv` and `PlaceInv`.

* `PlaceInv`: a command that is `Pending` (issued, not answered, its `Client` not
  deleted) is in exactly one of `retrying`, `commands[s]`, `sent[s]`, any other in
  none (`AllPlaced`); no queue has a command twice (`AllOnce`); a closed server
  has none (`ClosedBare`), or opening it again would drop what it had.
* `CountInv`: `left[g]` is the number of unanswered commands of `g`
  (`LeftExact`), nothing is answered that was not issued, and every `Client` is
  `Sound`: its `count` is the number of incomplete groups among `awaiting`
  (`Counted`); what it has received or has in its output is complete
  (`Complete`); the servers that have an unanswered command of an awaited group
  are among its `peers` (`Known`); the commands issued for it belong to groups it
  has processed (`Entered`).

The dependence is in three places. At the end of a batch a deleted `Client`
takes its commands back from the servers in `_peers` only, so `OnePlace` needs
`Known`; `Known` speaks of awaited groups, and that a pending command belongs to
one needs `Entered` and `Complete`. A reply takes one from the count of its
group and, with the last, one from that of the `Client`: that this is right
needs that the command is answered once, which is that it was in `sent[s]` and
nowhere else. And `_push_awaitings_to_ready` moves groups to the output as far
as the counts say, so `Complete` needs `LeftExact` and `Counted`. Before it was
proved, TLC had checked `CommandInv` as an invariant of the instances of *pipe*,
*rename* and *long*.

`ProxyProofs` shows what each step does to the places, and
which servers may have a command afterwards (`Held`), given what it does to the
descriptors of the clients; `ClientProofs` shows what the methods of `Client` do
to `Sound`; `CommandProofs` puts the two together, one lemma per action
(`...Counts`), and draws the conclusions. A server event is restated for this as
`Replies`: the replies read are divided into those that redirect a command, those
that leave it another step and those that answer it.

**Connections.** The four theorems rest on one invariant, `ConnInv`, none of which
depends on what the slot map and the pool hold: a step that changes those is
`PoolBecomes(p)` for some `p`, and any `p` will do. TLC had checked it on the
instance of *conns* first.

* `Owned` is `OneOwner` without cardinalities, and adds that a connection not yet
  accepted has no `Client`. It needs `OnlyLive`: a deleted `LongConnection` holds
  no descriptor. `Phased` has it that a `Client` with an exception on its way is
  there only while events are handled.
* `InBatch`: the `Client` that an event is still to come for is open, and the
  socket of a long connection that one is to come for has no `Client`, not even a
  closed one. Without the second half `restore_client` could give a descriptor to
  a `Client` that waits to be deleted. It is why a conversion and the way back
  never happen in one batch.
* `Handled`: what is closed within a batch, or about to be for an exception, is
  in `active_conns`, so its end deletes it. `LongsAttended` needs this for the far
  ends, between batches.
* `Attached`: a `Server` and the long connections it knows of know each other, so
  deleting one finds it where it is.
* `Stopped`: if the acceptor has stopped and there is room again, `_fd_closed` is
  set or the end of this batch will find something closed (`Due`). The step
  that stops the acceptor leaves no room at all, which is counted with
  cardinalities (`AcceptFull`). `Woken`: an acceptor that is registered has an
  event while connections wait.

A lemma per action shows that the first three and `ObjectsOutliveEvents` survive
it (`...Holds`); the four events that close an end of a long connection, or give
it back, are instances of one (`EndEvent`). `AttachedNext` and `FlagsNext` do the
rest.

**Updaters.** `Inv` is `TypeOK`, the two invariants and two more. Events are
handled inside a batch only (`EventsInBatch`), so that emptying
`_finished_slot_updaters` at the end of one frees no updater with an event to
come. A thread that keeps the updaters of a round that has ended has no other
round going on (`OneRound`): at the end of a batch `SlotMapRound` lets a thread
forget that its round has ended only if it is not in a round. The end of a batch
either leaves rounds and maps alone (`GoesOn`), `Begins` a round or `Clears` the map; an event
that ends a round is `Ended`; each is a step of `SlotMapRound` or a stutter.
`BestAnswerUsed` adds that no updater of a round that goes on has a complete map
(`Incomplete`): a round that ends in `_update_slot_map_failed` then compares all
the answers, those of the updaters still open being empty by `TypeOK`, and one
that ends at once with a complete map leaves no better one behind.

**BufferSet.** Between calls (`Resting`) the buffers cover the bytes from
`sent + 1 - off` to `appended`. Within `writev` the vector repeats a beginning
of the queue (`Grouping`), the part still to be written covers what follows
`sent` (`Writing`), and while entries are passed over (`Skipping`) it covers
what follows `sent - skip`. `Queue` says the buffers are adjacent and not empty.
The case that needs it all is a vectored write cut short twice in one buffer.

`Keep`, the ordered filter, is written in closed form because `SelectSeq` is
recursive; `SubsequenceProofs` shows that it yields a sequence over what is kept.

**Only model-checked.**

* Liveness (`EveryRequestAnswered`, `RoundEndsUnlessCut`):
  fairness and ENABLED are out of the prover's reach.
* `Requests` with `Message` and `KeySlot`: what recursive functions compute of
  every input needs an induction over data, which is out of its reach too.
* `ClientsAttended` and `ServersAttended` of `Proxy`. Neither holds for all values
  of the constants (see *wakeup* and the note on `MAX_RESPONSES` in section 3), so
  the theorems would be for instances with pipelines of at most `MaxResponses`
  and with batches of one event.
* `TypeOK`, `PoolClosed`, `RightNode` and `OpenServersMapped` of `Connections`, which
  are about `ServerPool`: updates of the map run over the slots with folds, of
  which the prover knows nothing without induction.

## 5. What is not modelled

* Formatting and wording: the texts of replies, logging, statistics
  (`core/stats.cpp`), stack traces. How DEL adds up the replies of its commands
  (it counts those in which the byte `1` occurs) and that MSET answers OK
  whatever its commands are answered.
* Lengths that overflow or that are not digits (`btou` does not check them), and
  numbers too large for `util::atoi`, which makes the largest int of them.
* In `Connections`, host names that are not addresses: `connect_fd` throws
  `UnknownHost` for them, which is no `IOErrorBase`. What becomes of the
  connection of another thread whose descriptor is closed by `CloseAgain`.
* CRC16, a table lookup: a checksum is the bytes it is of.
* Ports and blanks in CLUSTER NODES.
* Partial maps in `Connections`: a slot that no node of a new map has keeps its
  `Server` (`core/slot_map.cpp`), which may be closed and reused for another
  address. Holes in the map are in `Proxy` and `Updaters`, not with the pool.
* A node without an address, which `_covered_slots` leaves out but the map keeps.
* Errors nested in arrays.
* Start-up: the configuration file, the options, and the creation of threads
  (`main.cpp`). It happens once, before any of the states modelled.
* System calls (`syscalls/`, `core/fdutil.cpp`): thin wrappers, whose results are
  the choices the actions leave open.
* Data races between threads other than on `remotes` (guarded by a mutex) and
  on the flag: threads share no connection.
* Code of others: `cppformat/`, `backtracpp/` and `utils/easylogging++.h` are
  libraries kept with the program, for formatting, stack traces and logging. They
  are some 13,000 lines, well over half of what is under `src/` apart from the
  tests, and no property is about them. The modules stand for some 2,600 lines,
  nearly all in `core/`, which has 4,400 with its headers, logging and
  statistics.

## 6. Order of work

The modules were built from the core outward: `ProxyState` to `Proxy`, with
`Service`; then `Updaters` with `SlotMapRound`, to discharge what `Proxy` assumes
of updates; `BufferSet`, to discharge that `output` is a queue of requests of
which a prefix is written; `ServerPool` and `Connections`, for the objects and
descriptors that `Proxy` takes as given; and `Requests`, for the groups, the
slots and the kinds of replies that are its workload.

## 7. What could follow

* A proof of `ClientsAttended` for pipelines of at most `MaxResponses` requests: it
  needs an invariant of what each `Client` is registered for in epoll.
* `ServerPool` under `Proxy`, each server of `Proxy` being the object that has its
  address, and with it partial maps.
