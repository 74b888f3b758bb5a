# A verification project for FindingWork

The repository collects systems programs in C and C++ around one theme, network
servers on Linux. Its own core is `projects/project1_kv/zzx_kvstore`, a key-value
store with three storage engines, a text protocol and three interchangeable
network layers. Around it stand what the author built on the way: a user-space
TCP/IP stack on DPDK, servers on every interface Linux has for waiting, a thread
pool, a chat room over KCP, and the library NtyCo with programs that run on it.

This directory models these programs in TLA+ and checks the models with TLC. With
TLAPS it proves, for every number of keys, clients, descriptors, threads and
buffers: that the array and the hash engine implement the map; that the epoll
layer is the atomic service and requests that melt do nothing; that on io_uring each
connection has one operation under way, and that with one connection this layer is
the service too; that NtyCo loses no coroutine and resumes none twice; that the stack's TCP keeps its
descriptors exact, and echoes in order and frees a connection after both ends unless a
thread met the connection half-way; that its event poll loses no wake-up, and that its UDP half answers in order and forgets only
what a full ring took; and the invariants of the thread pool, the shared counter, the
chat room, the buffers and the ARP table of the stack, the web servers on NtyCo, and
the teaching servers on select, poll and epoll, with reactors, threads or processes.

Paths below are relative to `src/`; without a directory they are in
`projects/project1_kv/zzx_kvstore/`. `CO/` is
`study_notes/C++study/c++进阶/`, `NT/` is `CO/2.3.1_coroutine/NtyCo-master/`,
`US/` is `0voice/advanced/2.4基于dpdk的用户态协议栈的实现/zzx_实现/`.

## 1. The system

```
 clients ──TCP──> network layer (one of kv_reactor.c, kv_iouring.c, kv_ntyco.c)
                     │  msg_handler(msg, length, response)
                     v
                  kvs_protocol ─> kvs_split_token ─> kvs_protocol_filter   kvstore.c
                     │  SET..EXIST       RSET..REXIST       HSET..HEXIST
                     v
                  kvs_array.c        kvs_rbtree.c        kvs_hash.c

 kv_ntyco.c ──> NtyCo: scheduler, hooked socket calls, trees and queues
 US/tcp.c:  port <─> rings <─> packet core (ARP, UDP, TCP) <─ sockets ─> echo server
 chat_server ─> kcp_server ─> ikcp <── UDP ──> ikcp <─ kcp_client
```

One thread runs the whole store: an engine call is atomic with respect to other
calls, and what interleaves is the kernel, the clients and the batches of events.
The stack has a main core, a packet core and server threads, with rings, mutexes
and condition variables between them. The other servers are one loop, several
processes, several threads or coroutines, as their names say.

| part | state it keeps | operations | what makes it correct |
|---|---|---|---|
| array engine, `kvs_array.c` | `table[1024]`, `total`, strings on the heap | create, set, get, del, mod, exist, destory | a map; no key twice, none out of reach, no string lost while the table stands; -2 only when full |
| hash engine, `kvs_hash.c` | chains, `count` | the same and count | a map; each key in its chain; `count` exact; nothing reachable freed |
| tree engine, `kvs_rbtree.c` | nodes with colour and three links, `nil` | the same | a map; linked, ordered, balanced after any history |
| command layer, `kvstore.c` | none of its own | split_token, protocol_filter, protocol | a request of the right number of words does one engine call, anything else none |
| epoll layer, `kv_reactor.c` | `conn_list[fd]`, interest of each descriptor | accept_cb, recv_cb, send_cb, loop | a client gets the answer to its own request, once, eventually |
| io_uring layer, `kv_iouring.c` | two queues, one receive and one response buffer | the loop's branches | the same; one operation under way per connection |
| skip list, `kvs_skiptable.c` | list of several levels | insert, search | search finds what was inserted |
| TCP of the stack, `US/tcp.c`, `US/ustack_backup_2.4.4.c` | control blocks, queues, descriptor bitmap, event poll | handlers of each state, socket calls, echo servers | bitmap and blocks agree; echoes in order; both ends closed frees the block |
| UDP, ARP, rings of the stack | rings, ARP table, buffers | packet core, main loop, `udp_*`, ARP timer | a datagram no full ring touched is answered; a buffer has one owner |
| KCP, `ikcp.c` and its loops | windows, queues, acknowledgements | send, input, flush, recv | messages whole, in order, once; both ends get on |
| chat room, `kcp_server.cc`, `chat_server.cc` | sessions, users | Run, Update, keep-alive, join and leave | users are the sessions |
| NtyCo, `NT/core` | ready queue, waiting tree, epoll | schedule_run, poll_inner, hooked calls | no coroutine lost, resumed twice, or with another's descriptor |
| programs on NtyCo, `NT/sample` | processes, coroutines, locks | servers, web servers, benchmark | clients are served; counts are right |
| teaching servers, `CO/`, `0voice/…` | per-descriptor entries, buffers | loops, reactors, threads, coroutines, io_uring | who is echoed, and what ends the process |
| thread pool, lock and CAS, `0voice/Linux_base/…` | task and worker lists; a counter | push, destroy, worker; add | every task once; every turn counted |
| address book, DNS and HTTP clients, `0voice/Linux_base/…` | list and file; queries; a page | menu entries; commit, answer | sorted; each query answered once |

### Where it is hard

* **Histories.** The array's holes and its counter, the two deletion paths of a
  hash chain, the rotations of three trees: what a long sequence of legal calls
  leaves behind.
* **One step of several failing.** An engine allocates two or three blocks per
  insertion, and frees the old value of a key before it has the new one; a
  benchmark's connect fails after its socket was made.
* **Boundaries of messages.** Requests to the store have no delimiter; two in one
  `recv` become one line.
* **Reuse and sharing.** Descriptors are reused within one batch of events; loops
  share one buffer, or one `clientfd`, among all connections.
* **Locks and wake-ups.** The stack's event poll tests `rdy` outside its lock; the
  pool is destroyed without its mutex; processes take a word around `accept`.
* **An unreliable network.** Datagrams are lost, repeated and reordered; peers
  close, reset and fall silent, at any step.
* **Liveness.** Interest in a descriptor is in reading *or* writing, an io_uring
  operation fires once, an edge is told once, EPOLLONESHOT waits for a MOD.

`PROJECT.json` lists the hazards at their lines, with the properties that cover
them or the reason why none does.

## 2. The modules

Component modules have VARIABLES, Init, one action per operation and Next; they do
not depend on how they are composed. `MC…` modules give them constants and put
several side by side: the components of such a module share nothing, so each
behaviour is one of one of them, chosen initially (`focus`, `part`, `prog`,
`layer`), and the invariants are asked of the behaviours of their own component.

### The store

| module | models | state | actions |
|---|---|---|---|
| `KVMap` | abstract: what an engine promises | `dict`, `answer` | `Set Get Del Mod Exist Clear`, with `Refuse` |
| `KVReply` | return values and how the protocol reads them | — | — |
| `KvsArray` | `kvs_array.c` | `table total blocks status reply` | `kvs_array_*`, one action per way out of set and del, `Crash` |
| `KvsHash` | `kvs_hash.c` | `nodes count blocks status reply` | `kvs_hash_*`, `DelCrash` |
| `KvsRbtree` | `kvs_rbtree.c` | `tree blocks status reply` | `kvs_rbtree_*` over `Rotate`, `rbtree_insert_fixup`, … |
| `KvsProtocol` | `kvstore.c` as operators, with the lemmas the network layers share | — | — |
| `KVService` | abstract: what a network layer promises | `dict call seen` | `Invoke Apply Answer GiveUp Leave` |
| `KvsReactor`, `KvsIoUring` | the network layers over `KvsProtocol` | entries, queues, buffers, the clients' sockets | each callback or branch, the kernel, clients |
| `SkipList` | `kvs_skiptable.c` | header and nodes | insert, search |

`KvsArray`, `KvsHash` and `KvsRbtree` each INSTANCE `KVMap` with a refinement
mapping and are checked, the first two also proved, to implement it; the network models use
the map as the engine and INSTANCE `KVService`.

A pointer to a string is the string, `NULL`, or (array only) `WILD`, a word the
program never wrote. `blocks` is a ledger of heap blocks: every `kvs_malloc` and
`kvs_free` moves it, and the properties compare it with what the structure still
reaches. `status` becomes `crashed` where the code has undefined behaviour.
`kvs_malloc` fails whenever `MallocMayFail`; each failure branch is a disjunct.
`KVMap` has two strengths: a *strict* engine refuses a call without changing
anything (hash), a *lossy* one may leave the key bound to nothing (array, tree).
The hash table starts empty although it is not cleared: 800 KB come from `mmap` as
zero pages; the array's 16 KB do not, so `FreshWords` says what they may hold.

The proofs are in modules of their own: `KvsArray_proofs`, `KvsHash_proofs`,
`Network_proofs` for both network layers, `UStackTcp_proofs`, `NtyCo_proofs`,
`Teach_proofs` for `TeachLoops`, `TeachReactors`, `TeachThreads`, `TeachHttpEpoll`,
`TeachHook`, `TeachUring` and `MulPort`, and `Parts_proofs` for `Counter`, `ThreadPool`,
`KcpRoom`, `UPacketPath`, `UEventPoll`, `UStackUdp` and `TinyHttp`.

In the reactor one interest per descriptor, the batch of events being worked off,
and descriptors that are reused at once, lowest first, are kept. The io_uring
model separates what the loop prepares (`sq`), what the kernel works on (`armed`)
and what has completed (`cq`); receives write the shared buffer when they
complete, sends read the shared response when they are carried out. In the mapping
to `KVService` a request is *sent* until the handler has run, then *done* with its
answer until the client reads it; one whose client left is an *orphan*.

### The stack on DPDK

| module | models |
|---|---|
| `UStackTcp` | `US/tcp.c`: control blocks, one handler per TCP state, socket calls, the echo server with and without event poll, clients |
| `UEventPoll` | `US/ustack_backup_2.4.4.c`: `epoll_event_callback` against `nepoll_wait` and `nepoll_ctl`, lock by lock |
| `UStackUdp` | rings, ARP table, `udp_process`, `udp_out`, `nrecvfrom`, `nsendto`, echo server |
| `UPacketPath` | who holds each buffer between port, rings, stack, ARP timer and kernel |

In `UStackTcp` a handler is one step, except where the code lets the other thread in
with something half done: between the signal of a fragment and the numbers of its
control block, and between the FIN of `nclose` and `LAST_ACK`. The numbers and the
acknowledgement that follows them are one step: a server in between only changes which
of two segments goes out first. In `UPacketPath` the kernel takes any part of a burst,
from the front.

### KCP, the chat room, NtyCo

| module | models |
|---|---|
| `Kcp` | `ikcp.c` between two ends with the five loops of the repository, over a network that loses, repeats, reorders |
| `KcpRoom` | `kcp_server.cc`, `kcp_session.cc`, `chat_server.cc` |
| `NtyCo` | the scheduler with `kv_ntyco.c`, `nty_server.c`, `ntyco_httpd.c` |
| `NtyTree`, `NtyQueue` | `nty_tree.h` (red-black and splay) and `nty_queue.h` (four kinds of list), pointer by pointer |
| `TinyHttp` | `nty_http_server.c`, `nty_http_server_mulcore.c` |
| `NtyBench` | `nty_bench.c` with `nty_connect`, `nty_send`, `nty_recv` and their hooks |

In `NtyTree` mirrored branches are one operator with the side as a parameter and
functions that only look are operators compared in every state; in `NtyQueue` an
address of a link is the name of its owner, so that a write through `tqe_prev`
goes where the code writes.

### Servers and clients that teach

`TeachSocket` is what they share: connections, what a client sent and how it
ended, what `recv` and `send` then give. `TeachLoops`: eight loops on select, poll
and epoll as one with parameters. `TeachReactors`: reactors, WebSocket.
`TeachUring`, `TeachThreads`, `TeachHook`, `TeachHttpEpoll`: the io_uring echo
server, a thread per client, coroutines with hooked calls, a process per core.
`MulPort`: `server_mulport_epoll.c`, edge-triggered with a pool of workers.
`WebClients`: the asynchronous and the blocking DNS client, the HTTP client.

### Smaller parts

`ThreadPool`: `threadpool.c` line by line where `nThreadPoolDestroy` writes without
the mutex. `Counter`: `lock.c`, `CAS.c`. `Contacts`: the address book and its file.

## 3. The runs

Each run is one question, with its bounds in the `.cfg` and the `MC` module.

| run | shows | bounds and why they are enough |
|---|---|---|
| `array` | unique keys, ledger, the lossy map; healthy: a map that loses nothing | 3 slots, 3 keys, 2 values: a hole between two keys, a filled hole, a full table, wild slots |
| `array_full` | *violation*: full with free slots | the same |
| `hash_any` | chains, count, nothing freed early, the strict map | 3 buckets, 4 keys: two that collide, one alone, one with a negative hash |
| `hash_negative` | *violation*: a crash in del | one call |
| `structures` | tree engine, skip list, address book, event poll, UDP half, NtyCo's trees and queues | 9 keys with one value take the store's fix-ups up several levels, 3 keys with two values and failing allocations its contents; 7 keys for NtyCo's tree, 5 for the splay; lists of 4 elements and two heads; 3 connections with up to 2 fragments; rings of 2 |
| `network_safe` | one operation per connection; descriptors and owners; the atomic service | 2 clients, 2 descriptors, requests of two lengths, one malformed |
| `network_live` | the io_uring service and its liveness; melted requests do nothing; everyone is answered | 1 connection on io_uring; 2 clients on 1 descriptor of the reactor, 2 requests in flight |
| `iouring_residue` | *violation*: bytes of another request | 2 connections |
| `ustack_tcp` | descriptors exact; echoes in order; freed after both ends; served | 2 clients; 2 units from a polite one that comes alone, 1 from the others: a stale number needs one unit and the end of the connection, a second unit shows what comes after it; both servers one by one, the plain one together, the one with event poll for clients that do not wait |
| `kcp` | whole messages in order, once; held before forgotten; everything comes back | windows of 3, messages of 1 to 3 fragments, one fault at any place |
| `teach` | who is echoed and what ends each server; the benchmark's numbers; each query answered once; liveness | up to 3 clients and 3 units per program, buffers of 1 to 3, 2 descriptors; 2 children or 2 coroutines and up to 3 turns; 3 names, batches of 2, 2 descriptors (one too few) or 3; answers with an alias, and with a record the parsers do not know between two addresses |
| `parts` | buffers, coroutines, web servers, chat room, pool, counter; each gives what it owes | 2 stations, clients, processes, workers, tasks; 3 turns; the web server with 1 descriptor, which the connection takes from the file, and with 2 |

`structures` counts trees of the store that differ only in the addresses of their
nodes as one (`VIEW StructView`): which free address a node gets tells nothing, and
the parent pointer of the sentinel is written before any fix-up reads it. Nothing
else is merged.

The properties of a component are conjuncts of one invariant per component, each
with a name and a comment of its own in the component's module:

| property | conjuncts |
|---|---|
| `ChainsSound` | `InItsChain`, `CountExact`, `NothingFreedEarly` |
| `RedBlack`, `BookIsSequence` | `WellLinked`, `SearchOrder`, `Balanced`; `BookLinked` |
| `LinksSound` | `SkipSound`: `Threaded`, `LevelIsHighest`, `SearchIsExact`; `TreesSound`; `QueuesSound` |
| `PollSound`, `UdpSound` | `ReadyExact`, `NoLostWakeup`, `NoFreedItem`, `NeverBlocks`; `AddressKnown`, `PiecesInOrder`, `UdpNoLostWakeup`, `NothingForgotten` |
| `StackSound`, `KcpSound` | `BitmapExact`, `EventMeansData`; `MessagesInOrder`, `AckedIsHeld`, `NeverBack` |
| `LoopSound`, `WebReactorSound` | `LoopEchoes`, `LookedAt`, `StallsOnMore`, `ClosedOnRequest`; `ReactorEchoes`, `GrowRepeats`, `HandshakeFirst`, `FramesInOrder`, `WhatKills`, `HangsUpOnFull` |
| `ThreadsSound`, `HookSound`, `HttpEpollSound` | `OwnClient`, `OnlyStraysHarm`; `OneList`, `HookEchoes`, `HookKills`; `LockSurvives`, `ArmedOrHandled`, `PagesPaid`, `WhatStopsCores`, `CountTooLow` |
| `AskersSound` | `BenchSound`: `OptionsKept`, `TurnsAreCounted`, `LostDescriptors`, `WhatKillsAChild`, `ParentAddsUp`; `ClientsSound`: `OneCallEach`, `EveryAddress`, `WhatHoldsDescriptors`, `PageInOrder` |
| `PathSound`, `NtySound` | `OneOwner`, `TableIsFirstSeen`, `MissIsARace`; `OnePlace`, `NobodyMissing`, `OwnDescriptor`, `LockExact`, `AbortsOnlyAtLimit` |
| `HttpSound`, `RoomSound`, `PoolSound` | `OneListens`, `NotFoundWaits`, `WhatEndsHttp`; `RoomIsSessions`, `NoticesAgree`; `TaskOnce`, `TaskWakes`, `SafeBeforeDestroy` |

Several of them say what a flawed program still guarantees: who is *not* harmed
(`OnlyStraysHarm`), or that nothing but the causes named ends a process
(`WhatEndsHttp`, `WhatKillsAChild`).

`CHECK_DEADLOCK FALSE` is set where a system stops: a destroyed or crashed engine
takes no call, a killed process no event, clients leave, a program ends.

**Fairness.** An event loop runs while an event is ready, since its wait has no
timeout or is level triggered; a kernel completes an operation that can complete;
a thread or process that can run runs (weak fairness of each). Strong fairness is
used for the mutex of the pool alone (`TakeMutex`, `WakeAll`): each holder soon
lets go, and a waiter that asks again and again gets it. The network of KCP loses
at most a bounded number of datagrams, and its timers fire. Nothing is assumed
about clients sending, closing or connecting, except that one that waits reads
what has arrived. A thread of `Counter` is not promised that its compare and
exchange hits: the end of the counting follows since each miss is another's hit.

Each property of a passing run has a mutant in `PROJECT.json`: a definition as a
plausible bug would have it, kept in the module just before the real one, with
which the run reports a violation of that property.

### What disagrees with the documentation

Shown by a run: `kvs_array_set` counts a filled hole twice (`kvs_array.c:178`,
`array_full`); `kvs_hash_del` does not test a negative index (`kvs_hash.c:344`,
`hash_negative`); the io_uring receive buffer is cleared at the wrong time
(`kv_iouring.c:157`, `iouring_residue`).

Met while modelling and translated as it is:

* `kvs_hash_del` frees the head of a chain without its strings (`kvs_hash.c:358`);
  `kvs_rbtree_set` returns 0 for an update, not 2 (`kvs_rbtree.c:545`);
  `kvs_rbtree_destory` frees no node (`kvs_rbtree.c:485`), and `kvs_array_destory`
  the table alone, so every key and value is leaked (`kvs_array.c:88`).
* `kv_ntyco.c:83` hands a new reader the address of `cli_fd`, a local on the one stack
  that all coroutines share (`NT/core/nty_coroutine.h:53`, `nty_coroutine.c:54-70`,
  `192-198`). When nothing else is resumed before the reader starts, it reads the
  number intact; after another event of the same batch it reads what the other stack
  has there. Built with gcc, with and without optimisation, that is a byte of another
  reader's cleared response buffer, so mostly 0, and a second reader of that kind fails
  the assertion of `nty_schedule.c:172`. `Argument` leaves the number open.
* `nsend` does not advance `snd_nxt` (`US/tcp.c:1309`): answers before an
  acknowledgement carry one number.
* The packet core signals the server before it brings `snd_nxt` and `rcv_nxt` up to
  date (`US/tcp.c:1808`, `1921`, `1989`), and `nclose` puts its FIN in the ring before
  it notes `LAST_ACK` (`1547`). A server in between answers or closes with old numbers,
  which the client drops or cuts; an acknowledgement in between is lost, and the
  control block stays. `last_ack` takes any acknowledgement (`2016`), so the answer of
  a client to a FIN it cannot use frees the block.
* `rte_kni_tx_burst` is given the whole burst for each frame (`US/tcp.c:801`), and
  nobody looks at how much of it the kernel took (`802`, `812`).
* `nty_http_server.c:501` closes the NULL that `fopen` gave, for a directory without
  index and also for an ordinary page when the connections have all the descriptors.
* `nty_schedule_search_wait` writes before it looks whether it found a coroutine
  (`NT/core/nty_schedule.c:128`).
* The benchmark's parent keeps the writing end of its pipe, so "Some of our
  childrens died." is never printed and the death of a child, which an answer
  without end of line brings about, leaves it waiting (`NT/sample/nty_bench.c:509`,
  `543`); an answer cut short by a reset counts as a success.
* The DNS parsers do not skip a record of another type by its length
  (`async_dns_client_noblock.c:265`), and `dns.c:82` never writes the byte that
  ends the name it asks for. `dns_parse_name` copies a name past the 128 bytes of
  `aname`, or calls itself without end (`async_dns_client_noblock.c:175`, `181`).
* `httprequest.c:116` takes an error for a piece of length -1: `realloc` and `strncat`
  then write through NULL, also after pieces all of which begin with a NUL.

## 4. The proofs

Each theorem is of the specification of a component (`Spec`, `RSpec`, `PoolSpec`,
…) and holds for every value of its constants that the named ASSUME of its module
allows; TLC evaluates these on the instances of section 3. The argument is the same
everywhere: an inductive invariant, one lemma per action that it survives it, and
the property as a consequence. What follows says what each invariant had to add to
the property, since that is what the code relies on.

### The array engine (`KvsArray_proofs`)

For every `SIZE`, every set of keys and values, any content of the fresh table and
with or without failing allocations:

* `TypeCorrect`, `KeysFound`, `HeapLedger`: `TypeOK` (in particular `total` stays in
  `0..SIZE`), `KeysUnique /\ StoredBelowTotal`, `ValueHasKey /\ LedgerExact` (the ledger as long as
  the table stands: `kvs_array_destory` leaks what it held).
* `HealthyIsSafe`: with a zeroed table and memory enough, `Spec => []NeverCrashes`.
* `ArrayImplementsMap`: `Spec => ImplementsMap`, the lossy `KVMap`.

`IInv` is the conjunction of five invariants, none of which is inductive alone.
`blocks` stays in its range because the ledger bounds it by the number of slots; the
ledger survives a deletion because `ValueHasKey` says that a slot with a key holds a
value or `NULL` and nothing wild; a key cannot be stored twice because
`StoredBelowTotal` puts every stored key where the search of `kvs_array_set` looks.
`HealthyIsSafe` adds `NoBadWord`: the two assumptions are the *only* causes of the
crashes that `array` reaches.

For the refinement, `Contents` is shown to be a function (`ContentsIsMap`: a key is
bound once, by `KeysUnique`), and each way out of a call either keeps every binding
(`ContentsKept`) or rebinds one key (`OneKeyBound`). What `Contents` says of a key
without a slot, or with a slot whose value was lost, is not a value
(`ArrayAssumption`). The proof also found that the two branches of `OutcomeOf`
(`KVReply`) overlapped for the answer 0; they are now exclusive.

### The hash engine (`KvsHash_proofs`)

For any number of buckets, any string hash, negative ones included, and with or
without failing allocations:

* `ChainsAreSound`: `Spec => []ChainsSound`: a key is in the chain of its hash, once;
  `count` is the number of nodes; nothing reachable was freed.
* `HashImplementsMap`: `Spec => ImplementsMap`, the strict `KVMap`.

`count` is the cardinality of the set of all nodes, `<<bucket, position>>`; the
counting lemmas `OneNodeMore` and `OneNodeLess` say how it changes when a chain grows
at its head or loses one node anywhere, which is where the two deletion paths meet.

### The epoll layer (`Network_proofs`)

* `DescriptorsAgree`: `RSpec => []FdsSound`, for any clients, descriptors, limit and
  number of requests in flight.
* `ReactorIsService`: with clients that wait for their answers (`MaxPending = 1`),
  `RSpec => ReactorImplementsService`: a request takes effect once, at one instant,
  and its answer reaches the client that sent it.

`FdsSound` is far from inductive. `EventsHold` is the heart: an event that
`epoll_wait` reported still describes its descriptor when its turn comes, although
callbacks before it close descriptors and accept others on them. This holds because
`accept_cb` gives away only descriptors without an owner, and such a descriptor has
no event left in the batch. The other parts are `DictTyped`, `QueuesTyped`,
`ConnsTyped`, `QueuedOnce` (a client waits once for accept), `NothingExtra` (requests
on their way, answers in a buffer and answers on their way never exceed what a client
waits for) and `MeltWellFormed` (what melts is well formed, so it has a word too
many). The refinement adds `AnswerOf`: while a request is on its way there is no
answer, and afterwards the one answer is in the buffer or on its way. With more
requests in flight the layer does not implement the service: they melt.

* `MeltedAreRefused`: `RSpec => MeltedDoNothing`, for any number of requests in flight.

The word count of `kvs_split_token` is a recursive function, so this needs induction
over the line. `Least` gives it without an operator as parameter: the set of the
positions at which a claim fails has a least element, by `WFMin` of the library.
`Summable` says that the count exists, `MoreWords` that each request after the first
brings at least one word more, `MeltedIsRefused` that the count then differs from what
the first command takes. The property had to be corrected for it: with three requests
in flight the client's own reset clears the stream and the record of its answer in one
step, which the statement counted as a recv until it asked for an unchanged socket.

### The io_uring layer (`Network_proofs`)

* `OneOperationEach`: `Spec => []UringSound`.
* `UringIsService`: `Spec => ImplementsService`, and `OneClientNoResidue`:
  `Spec => []NoResidue`, for one client that may come and go any number of times
  (`OneClient`) and that gives every known command its number of words (`KnownWhole`).

An operation is in the submission queue, with the kernel or in the completion queue.
`PlacesAgree` says that each connection, and the listening socket, is named in one
place of the three, once; `Has` and `Once` are the lemmas about sequences it needs.
`BusyAgree` says that every connection has such an operation unless it was reset, and
`ErrorsReset` why the exception is no wider: a receive fails only on a connection
that was reset, and a failed receive is the one completion after which the loop
neither arms the connection again nor closes it.

The refinement needs both hypotheses because of what the code shares: with two
connections a receive overwrites the buffer another request waits in
(`iouring_residue`), and a known command with a wrong number of words has the length
-3, which is sent as a huge one. `Alone` is the step from the first theorem: with one
client the rings hold one entry that is not of the listening socket. So `TurnOf` can
follow the request from the stream to the buffer (`Heard`, with the length the kernel
counted) and the answer from the response buffer (`Sending`) to the client: never two of
them, and nothing of a connection is left when its client comes back.

### The thread pool, the counter, the chat room (`Parts_proofs`)

* `PoolIsSound`: `PoolSpec => []PoolSound`, for any workers and tasks. A task is in
  the list, in the hands of one worker, or was run (`ListedOnce`, `HeldOnce`,
  `OnePlace`); `TaskWakes` needs `ReadsHold` and `WalkInCrew`, what a worker and the
  destroyer have read outside the mutex and may still rely on; nothing is touched
  after it was freed until the pool is destroyed (`SafeBeforeDestroy`).
* `EachTurnCounted`, `LockedReadIsFresh`, `MissesAreOthersHits`, `CounterTyped`: for any
  threads and rounds, a turn that ends adds one at one instant, for every way of
  counting but the bare one. `CounterInv` ties the holder of the lock to the one thread
  between its read and its write; what a compare and exchange expects is never ahead
  of the number.
* `RoomAgrees`: `RoomSpec => []RoomSound`, for any clients, addresses and timeouts.
  Sessions get increasing numbers, so a user of the room is one session (`NothingBefore`,
  `Settled`); `NoticesAgree` holds because the notices of joining and leaving are sent
  in the step that changes the users.

### The coroutines of NtyCo (`NtyCo_proofs`)

* `CoroutinesSound`: `NtySpec => []NtySound`, for any clients, descriptors and
  processes, and each of the programs: the store's server, the echo server, the web
  server with its lock.

`NtySound` says where a coroutine is and that nobody is missing; `NtyInv` says why.
Where it is follows from how far it is in its function (`Queued`, `Waits`,
`Resumed`), and each of these needs the others: a descriptor of which epoll reports
an event has a coroutine that waits for it (`Waits`), and it still has one when the
turn of this event comes, because a coroutine resumed for another event takes only
itself out of the tree (`Batch`). `cli_fd` is one variable whose address goes to all
readers. As a variable it is right, because a batch of events has the listening socket
once and the readers made meanwhile are started before the next batch: `Batch` keeps
the ready queue empty until accept returns, and `Works` says that `cli_fd` is what was
given to whoever is still to start. As memory it is not: another coroutine resumed
between accept and the start of the reader writes over it (`spoilt`), and the reader
then works on any number (`torn`). The clauses that rest on descriptors, `OwnDescriptor`
and `AbortsOnlyAtLimit` among them, are therefore stated until that has happened; that
each coroutine is in one place, that no event finds nobody and that the lock has one
holder is proved also of a process with such readers. `Descriptors` says that accept gives the smallest
descriptor that is not owned (`SmallestIs`), so no two readers share one, unless it
is -1, which a second failed accept brings about and `AbortsOnlyAtLimit` admits. That
there is always a number left for a new reader is a count: a process made at most one
reader for each client taken from the queue, and at most two with -1, of which
the second stops it (`BacklogSound`, `RoomForOne`); a process with a torn reader may
make more, and is followed as far as `MaxReaders`. `LockSound` ties `accept_mtx` to
the one process that is inside accept, a process killed by SIGPIPE included, which is
why nobody accepts after it.

### The TCP of the stack (`UStackTcp_proofs`)

For any clients, any number of units and both bodies of the echo server:

* `StackSafe`: `Spec => []StackSound`.
* `EchoesSafe`: `Spec => []EchoesInOrder`; `FreedSafe`: `Spec => FreedAfterBothFins`.

`StackInv` is inductive whatever clients do. `ListOk`: the list holds the listener
and, once each, the blocks of different clients, and a block outside it is blank.
`BitmapOk` is `BitmapExact` over the states a handler leaves in between: `nclose`
clears the bit but leaves the number in the block, which `LAST_ACK` marks as given
back. `ServerOk` is what makes the socket calls safe: between `nrecv` and `nsend` or
`nclose` the descriptor still finds the connection it was read from, although the
lookup takes the *first* block of the list with this number and closed ones keep
theirs; new blocks are put at the head, but without a number, and only the server
itself gives one out. `RingOk`: the end of a connection is the last fragment in its ring.

The rest is a conversation for each client, of what the client knows (`p`), what is
under way to the stack (`net`), its block (`b`) and all that will go back (`pipe`, the
wire and the send ring together, so that `ng_tcp_out` changes nothing). `Wire` says
that a connection opens and is ended once. `Unit` says that the unit a polite client
waits for is in one place: on its way, in the ring, in the server's hands, or on its
way back. `Step` orders the two ends: a FIN is the last thing on its way, and
`CLOSE_WAIT` and `LAST_ACK` are reached only after the client's own end; that is why
`last_ack`, which takes any acknowledgement for the one it waits for, frees no block
early. Each handler then is one lemma about one conversation, and one that others are
left alone.

The packet core and the server are two threads, and each has a moment at which the other
finds a connection half changed: between the signal of a fragment and its numbers
(`core`), and between the FIN of `nclose` and `LAST_ACK`. Both are steps of their own.
The clients to which a thread sent, or whose acknowledgement it dropped, at such a
moment are in `hurried`, a history variable; the conversation holds of a polite client
until it is there (`Tame`), and `EchoesInOrder` and `FreedAfterBothFins` are stated for
the others. That the bitmap, the list and the rings agree is proved of all of them.

That an event means data holds when clients come one after another, and needs
`SequentialInv`: all connections but the first of the list have been closed, the
event poll knows the listener and at most this first, and each mention of it in the
ready list or in the server's hands is paid for by a fragment. With several clients
at once it does not hold: a number that `nclose` gave back is given to the next
connection while the closed one still stands before it in the list with the same
number, and `nrecv` then looks into the ring of the closed one. That a block and a descriptor are always to be had is a count
(`FreeStream`, `FreeFd`): streams and descriptors are one and three more than clients.

### The buffers of the stack (`Parts_proofs`)

* `OneOwnerEach`: `PathSpec => []PathSound`, for any buffers, rings, bursts and stations.

Ownership is counted: a buffer occurs once in all of pool, port, rings, kernel and
hands of the cores together (`Holders`), unless the stack is in the trouble the model
names (`trouble`: a mixed burst for the kernel, a transmission, a full ring, a full FIFO
of the kernel); `Times` and its lemmas say how often something occurs in a sequence that is
cut, joined or filtered. `TableTyped` and `TableIsFirstSeen` need that a station is
looked up before it is inserted. `MissIsARace` became stronger on the way: that a
miss of the ARP timer has an insertion between its count and its walk is not a flag
of the model any more but follows from the table having grown.

### The event poll and the UDP half of the stack (`Parts_proofs`)

* `PollIsSound`: `PollSpec => []PollSound`, for any connections, fragments and sizes of
  a turn (`MaxEvents`).
* `UdpIsSound`: `UdpSpec => []UdpSound`, for any hosts, traffic, number of pieces, ring
  and burst sizes.

The packet core looks at `rdy` before it takes the lock, so `PollInv` has to cover a
server that changes the lists in between. `ListedOk`: the ready list holds what is
marked, once, and what the callback has found is still unmarked when it inserts it.
`SleepOk`: between looking and sleeping the server holds `cdmtx`, and if something is
listed by the time it sleeps, the core is about to signal. `PaidOk` is why no event
makes the server wait: the events of a descriptor that are listed, in the server's
hands or about to be inserted (`Due`) never exceed the fragments in its ring, and
those of the listener not the connections that wait to be accepted. `HandedOk` says
that what the server has in hand is still registered: it removes only the descriptor
of the event it is at, and events of one turn are of different descriptors.

`UdpInv` follows a datagram on its whole way. `Under` is what is on its way to the
server: on the wire, in a ring, in the burst of the core, in the server's hands. Each
datagram is there at most once (`Spread`), as a piece that starts where its answers
end. `Back` is all that was answered, the oldest first: heard, in the two rings, in
the server's hands; so the main loop and `udp_out` only move things inside it.
`History` relates the two: the answers to a datagram are in the order of its pieces,
without a gap unless a full ring dropped one; whatever was sent is under way,
answered to its end or dropped. `HistorySends`, `HistoryAnswers`, `HistoryLoses` and
`HistoryDrops` are the four ways it changes, and each action is one of them or leaves
`Under` and `Back` as they were. `heard` is one sequence, in the order in which
answers leave the port, since the order among different hosts is not lost either.
`Introduced` says that whoever is answered is in the ARP table, which never shrinks.
`UdpSleepOk` is `SleepOk` for the mutex of the UDP socket.

### The web servers on NtyCo (`Parts_proofs`)

* `WebServersSound`: `HttpSpec => []HttpSound`, for any processes, visitors and
  descriptors.

That a process ended for a reason (`WhyEnded`) is inductive because the reason is in
what never changes of a visitor: who accepted it, what it asks, that it went away. That
a file could not be opened for want of a descriptor is kept as a count: as many visitors
of the process as it has descriptors were cut off by its end.
`OneStarts` adds to `OneListens` how it stays possible: as long as nobody listens and
no process was ended by its visitors, nobody is past `bind`.

### The teaching servers (`Teach_proofs`)

For any clients, any number of units from each, any buffer, and every program of the
module (`TeachAssumption` asks for finitely many clients, a buffer of one unit at
least, and that a client ends with a close or a reset):

* `ThreadsAreSound`: `ThreadsInit /\ [][ThreadsNext]_threadVars => []ThreadsSound`.
* `ReactorsAreSound`: the same of the reactors and `WebReactorSound`.
* `LoopsAreSound`: the same of the loops and `LoopSound`.
* `CoresAreSound`: the same of the web server with a process per core, for any set of
  processes and any limit of descriptors, and `HttpEpollSound`. `CoreAssumption` says
  that the word of the lock tells a process from none.

* `PoolOfWorkersIsSound`: the same of the server on many ports, for any workers, and
  `MulPortSound`.
* `HookedCallsAreSound`: the same of the coroutines with hooked calls, for any limit of
  descriptors, and `HookSound`. `HookAssumption` says that the scheduler and the
  acceptor are no clients.
* `UringEchoesAreSound`: the same of the echo server on io_uring, and `UringSound`.

The seven share `SockInv`, the kernel's side: a descriptor has one owner, the queue
holds a client once, and what lies in a client's box is the rest of what it sent, in
order (`Fine`, `Rest`). `Heard` says that answers and box together are what was sent.

*Threads*: a thread strays that began with another descriptor than the one it was made
for. As long as none did, `Serves` holds of all threads, and with the descriptor on the
heap none ever does; this is where the two versions of the program part.

*Reactors*: an entry belongs to its descriptor and outlives its owner. `Attends` says
that interest, event and the length of what is to be sent agree; it survives the reuse
of a descriptor because `accept_cb` resets every field but `status`. For WebSocket,
`Shakes` holds while nobody left: only then is the entry of a new descriptor fresh,
as `event_register` leaves `status` as it was (`reactor.c:67`). `Doomed` says when the
next send to a client kills the process; `Attends` then knows what this client was
answered before, which is what `WhatKills` asks for.

*Loops*: `Packed` is what select relies on: while nobody left, descriptors have no
gaps and `maxfd` is the highest, so nobody can be overlooked. `Roused` says of the edge
epoll that a client with something to read has an edge or an event, unless it has sent
more than one buffer; `ClosedOnRequest` had to be carried along for the full buffer.

*Processes*: `Held` is what keeps a client from being forgotten: it is armed or has one
event in the batch of the process that accepted it; and the pages it was sent, a page
it is owed and one sent after it closed are together no more than the units it paid. A process killed by SIGPIPE has therefore read twice from one client,
which is the bound in `WhatStopsCores`. An event in a batch names a client of the same
process that is still open, since descriptors are closed only in the client's own turn.

*Pool of workers*: a job and a hand keep a number, not a connection, and `Keeps` says
what remains true of it: the client it stood for is closed or still has it. Who has
the number now is therefore either the job's own client or nobody the job has met
(`OwnOrGone`), from which follow who cuts whom and whose units an answer may carry.
`Counted` follows `curfds`, which main and the workers change without a lock: with one
client in all that met its end once, the count is read and written by one hand at a
time, as main does not add while a hand works (`NoneWhileAdding`); it is 1 or 2, so
`epoll_wait` has room. With a second count for a client, or a second client, nothing
of it remains, and `EndsByTwo` says no more.

*Hooked calls*: `OneHome` says of all coroutines where they are, and that epoll watches
exactly for those that wait; an event therefore finds its coroutine in the list, and a
coroutine that closes its descriptor runs, so nobody waits for it. `Cares` relates a
coroutine's call to its client: it writes what it holds, the last of what was read. A
client that the kernel has heard of twice was read from before that, hence it had sent
two units when the next write kills the process, which is `HookKills`.

*io_uring*: `OneEach` and `Owned` say that a descriptor is in one place of the two
rings, the kernel and the batch, and that only open connections are in them; so what
completes is about the client the operation was prepared for. `Due` is what the
operation of a client carries: the first places of the shared buffer, never more than
was read from it and not yet answered; and while nobody else has sent or left
(`Alone`), they are the client's own next units. Others overwrite the buffer, which is
why nothing more is said of its contents.

### Model-checked only

Liveness and ENABLED are out of the prover's reach: every property with `~>` and
fairness. So is induction with the library's theorems, which take an operator; what
recursive definitions compute for every input is proved only where `Least` was enough,
not for the trees and lists of `KvsRbtree`, `NtyTree`, `NtyQueue`, `SkipList`,
`Contacts`. The invariants of `Kcp` and the clients are checked on the instances of
section 3, as is `Served`, the liveness of the stack's TCP.

## 5. Not modelled

* Bytes: the limits of 1024 bytes and 128 words of a request, the terminator one
  past a full buffer (`kv_iouring.c:172`) and the terminators that it and `strtok`
  (`kvstore.c:58`) write into the shared receive buffer, frames of WebSocket, the
  packing of DNS names, pages that exceed the benchmark's buffer; the length of an
  echoed datagram, which is the `strlen` of a buffer never cleared (`US/tcp.c:1594`,
  `1607`) and counts the header (`1009`).
* Allocators: the event poll takes its items from `rte_malloc` and gives them to `free`
  (`ustack_backup_2.4.4.c:2392`, `2429`).
* Short sends, except where a module says so: `send` takes the whole answer.
* The life cycle of the store's engines around `main`.
* NtyCo: sleeping for a time, `sendto` and `recvfrom`, what lies on the shared stack
  beside `cli_fd`, the switch itself. KCP: the estimate of the round trip, wrap-around of numbers, stream mode.
* The stack: the configuration of port and KNI, the disabled DDoS detector.
* Exercises on ucontext and hooks, MySQL clients, word counts, test clients of the
  store, LeetCode solutions and notes: sequential programs or I/O around libraries.
* Copies: earlier versions of a file that is modelled, and the same file in another
  directory, are not modelled again.

Hazards met but not among the forty of `PROJECT.json`, for want of weight: two answers
before an acknowledgement carry one number (`US/tcp.c:1309`); holes and a smaller
`total` in any order (`kvs_array.c:261`); a client
of the store that gives up reads the answer to its earlier request
(`kv_reactor.c:195`); the table of the hash engine is not cleared
(`kvs_hash.c:88`); the hash engine strands blocks when a later allocation fails
(`kvs_hash.c:36`); saving the address book turns persons of one initial round
(`Contacts.c:228`). The models contain the first two and the last two.

## 6. Plan

Done: the store, the stack, KCP and its room, NtyCo and its programs, the servers
and clients; the proofs of section 4. What would come next:

1. Proofs: KCP, the remaining teaching servers.
2. `KvsStore`: the life cycle of the engines and the filter over the real engines
   with their failures.
3. KCP with wrap-around of sequence numbers and the round trip; the switch of
   stacks in NtyCo.
