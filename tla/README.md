# A verification development for MyObj (cocol)

This directory models this repository in TLA+: the C library's own parts (the
message server with its item pool and thread queues, the creation of its
threads, the memory pool, the hash table and the red-black tree) and the parts
of the libevent that it carries and runs on (the event loop, the map from
descriptors to epoll, the buffers, the bufferevents, the resolver and the
connections of HTTP). TLC checks the modules on small instances. TLAPS proves
the properties of the server, of the memory pool, of the hash table, of the map
to epoll and (but for liveness) of the event loop, and of bufferevents the release,
the limits and what suspends them, for every value of the constants. Paths such as
`cocool/co_message.c` are under `src/`; `event.c` and the other files of
libevent are under `src/net/libevent/src/`.

    tlc -workers 2 -config MCMsQueue.cfg MsQueue        # one run
    tlapm MsQueueProofs.tla                             # one module of proofs

## 1. The system

The library's own code is `cocool/`, `include/` and `test/`, about 3700 lines;
`net/libevent` is a vendored copy of libevent 2.1.8, fifteen times as long.

| component | source | state it keeps | operations |
|---|---|---|---|
| item pool and thread queues | `co_message.c:29-94` | `g_pms_quenes`, `g_msquene_lock`; per thread `phead`, `ptail`, `msquene_lock`; per item `pnext` | `ms_item_alloc`, `ms_item_free`, `ms_quene_push`, `ms_quene_pop` |
| message server | `co_message.c:97-521` | the listening socket; per worker a pipe and an event base; per item socket, status, buffer; `ithread_id` | `ev_accept_cb`, `message_notify`, `message_dispatch`, `ms_new_connect`, `ms_process`, `ms_read_more`, `ms_timeout_process`, `ms_handler`, start-up |
| thread creation | `co_pthread.c` | `threadparam` on the creator's stack | `cpthread_creat`, `start_routine` |
| memory pool | `co_mmp.c` | `proot`, `pmemData`, `buff`, `imemFree`, `imemUsed`, `imemSize`, `buffMask` | `mm_pool_init`, `cocol_*_malloc`, `_free`, `_dup`, `_init` |
| hash table | `co_hash.c` | the list `first`, the buckets `ht`, `count`, the elements | `sqlite3HashInit`, `Insert`, `Find`, `Clear` |
| red-black tree | `co_rbtree.c` | `root`; per node parent, children, colour; a traversal's `t->node` | `rb_rebalance`, `rb_erase`, `rb_first`, `rb_next`, `rb_destroy`, and the insert core the user writes |
| event base | `event.c`, `minheap-internal.h` | active queues by priority, the timer heap, common-timeout queues, what is running and who waits for it, the pending notification | `event_base_loop`, `event_add`, `event_del`, `event_active`, `event_base_once`, `event_base_loopexit`, `_loopbreak`, `_loopcontinue` |
| descriptors and epoll | `evmap.c`, `epoll.c` | events and counts of each descriptor, the changelist and the place of each descriptor in it; in the kernel, the interest | `evmap_io_add_`, `_del_`, `epoll_nochangelist_add`, `event_changelist_add_`, `epoll_dispatch`, `event_reinit` |
| buffers | `buffer.c` | chains, `last_with_datap`, lengths, reference counts, what the callbacks have still to be told | adding, prepending, draining, moving, sharing, reserving, reading, pullup, freezing, callbacks |
| bufferevents | `bufferevent.c`, `bufferevent_sock.c`, `bufferevent_ratelim.c` | the two events, what suspends each direction, buckets, references, callbacks owed; a rate-limit group | enabling, reading, writing, watermarks, connecting, rate limits, freeing |
| resolver | `evdns.c` | requests in flight and waiting, the ring of nameservers, their probes, the counters | requests, answers, timeouts, search, reissue, probes, cancelling, suspending, freeing |
| HTTP connections | `http.c`, `http-internal.h` | the queue of requests, the state of the connection, what it reads and writes, the retry timer; of the server, the request of each connection | `evhttp_make_request`, `_cancel_request`, `evhttp_connection_free`, `evhttp_send_reply` and its parts, the callbacks of the bufferevents |
| the rest | `co_malloc.c`, `co_socket.c`, `co_obtype.c`, ...; `evrpc.c`, other backends, ... | | see section 8 |

How they interact. The main thread runs libevent on the listening socket.
`ev_accept_cb` takes an item out of the pool (shared by all threads, one mutex),
fills it, pushes it on the queue of worker `ithread_id` (one mutex per queue)
and writes a byte into that worker's pipe. The worker's own event loop calls
`message_notify`, which reads the byte, pops the item and dispatches it by its
status; the handlers read from or close the socket and may return the item to
the pool. Workers are created by `cpthread_creat`, which hands them their
parameters through its own stack frame. The memory pool, the hash table and the
tree are used by one thread and share nothing with the server.

In libevent every thread may call the functions of an event base, under one
lock, while the thread of the loop waits in `epoll_wait` or runs a callback
without it. A bufferevent has a lock of its own, taken inside its callbacks; the
group it shares its bandwidth with has another, under which members are only
tried. A resolver has one lock, and calls the program back through callbacks
that it queues in the event base. An HTTP connection lives in one event loop,
over a bufferevent, and calls the program back from within.

Which behaviours are hard, and what makes each component correct:

| component | hard | correct when |
|---|---|---|
| pool and queues | statements of several threads interleave; one link field `pnext` serves lists under different mutexes; a field is cleared before its lock is taken | no item is lost or in two places; queues are FIFO; no mutex stays locked |
| message server | item and wake-up travel separately; an item keeps fields of its last use; descriptor numbers come back; unset results | wake-ups match items; no descriptor is closed twice; every queued item is taken |
| thread creation | parameters are read on another thread after their frame may be gone | a thread runs with its own parameters; a base has one loop |
| memory pool | release exchanges block numbers, not elements; a cache in front of the stack; growth inside an allocation; pointers into arrays that move | a block belongs to one object; an owner's data is its own |
| hash table | an intrusive list in which a bucket is a run of elements; stale chain pointers; rehash in place; memory refused at any growth | the table is a map; buckets and list agree |
| red-black tree | the loops carry a broken invariant upwards, with a NULL node as the broken one | a search tree of the same keys, balanced, whose traversal skips nothing |
| event base | the lock is free at three places of the loop; a wake-up is written once and read before it is recorded; one timer stands for many; callbacks change the queue that runs | nothing that is due is forgotten; what was deleted does not run; waits in `event_del` end; more important events go first |
| descriptors and epoll | the program closes and reopens descriptors behind the map; changes are saved up and cancel each other; a fork empties the list | after a dispatch the kernel watches what the events want |
| buffers | a pointer to a pointer must follow every call that moves chains; shared chains; callbacks that come later; memory that runs out half-way | a buffer is the sequence of its bytes; callbacks learn of every change; a chain is freed once |
| bufferevents | a callback that was taken runs after another thread has suspended or freed; four reasons to suspend; locks that are only tried | an event is added exactly when it should be; nothing is suspended for ever; freed once and completely |
| resolver | a request is finished while the next one is made; counters and lists change together in many paths; late answers; a server fails with requests of its own and a probe | who asks is told once; nobody waits while there is a place; servers are blamed and restored for their own doing |
| HTTP connections | the program's callbacks run in the middle of a function and call back into the connection; what was still to come survives a reset; the two ends hang up at different times | every request comes to an end, once, and is told the truth; no reply is taken for another's |

The hazards, each with its line and the properties that look for it, are in
`PROJECT.json`.

## 2. Reading code that does not compile, and repairs

`co_message.c` has errors a compiler rejects. Each is read as its smallest
repair; everything that compiles is kept as it stands, however odd.

| line | as it stands | read as |
|---|---|---|
| 106 | `MS_COMMOND` is not defined | `ms_handler` is not modelled |
| 145-146 | `memset` of the events by value | of their addresses |
| 213 | `pms_item.timeval` | `pms_item->timeval` |
| 302-313 | the result of the `void` function `ms_read_more` is used | it returns an `int` |
| 344 | `ms_quene_pop` of the structure | of its address |
| 351 | the dispatch of a wrong argument | of `pms_item` |
| 446 | `pdatabuf` from an offset alone | from the start of the buffer |
| 450 | `= NULL` without a field | `.pnext = NULL` |

Kept as they stand, and therefore in the models:

- `istatus` is not set on accept (143-146): a new item has the status its last
  user left, or what `malloc` returned (`MsBus!Init`, `Alloc`).
- The `memset` of an item's events leaves their base NULL, so `event_add` fails
  (`event.c:2438`) and `ms_new_connect` always closes and frees (`NewConnect`).
  No event of an item is ever registered: `ms_handler` and the timers are never
  reached.
- `ms_process` returns nothing, `ms_read_more` only on some paths: the caller
  compares whatever is there (`FreedOrNot`).
- Accepted sockets are blocking: a worker may wait in `read` for ever.
- An empty pool (144) or `ithread_id` past the array (147) is undefined; the
  models end the process there (`Crash`).
- Nobody calls `evthread_use_pthreads`, so the server's event bases have no locks.

Code that compiles and is wrong is a parameter. `Repaired` is a set of names,
with `{}` for the code as it is; a name in the set takes that function or line
without its fault. The same module then shows both what the fault breaks and
what holds without it. Section 7 says what each repaired function does.

| module | names |
|---|---|
| `MsBus` | `"thread_id"` (148, the index never wraps), `"notify_arg"` (372, the callback gets the address of a parameter of a function that has returned) |
| `CThread`, in `MsServer` as `StartRepaired` | `"argc"` (405, `pms_thread` is passed in the place of the number of parameters) |
| `EvLoop` | `"event_base_once"` |
| `EvBuffer` | `"evbuffer_invoke_callbacks_"`, `"advance_last_with_data"`, `"evbuffer_add_buffer_reference"`, `"evbuffer_remove_buffer"`, `"evbuffer_pullup"`, `"evbuffer_commit_space"` |
| `EvBev` | `"bufferevent_decref_and_unlock_"`, `"bufferevent_socket_connect"`, `"be_socket_setfd"` |
| `EvDns` | `"nameserver_send_probe"`, `"evdns_request_timeout_callback"`, `"evdns_request_transmit"`, `"search_try_next"`, `"reply_parse"`, `"evdns_base_clear_nameservers_and_suspend"`, `"evdns_base_free"` |
| `EvHttp` | `"evhttp_connection_reset_"`, `"evhttp_connection_done"`, `"evhttp_connection_connect_"`, `"evhttp_connection_cb_cleanup"`, `"evhttp_connection_retry"`, `"evhttp_send_reply_start"`, `"evhttp_connection_fail_"`, `"evhttp_read_cb"` |

## 3. The modules

    MsFifo     <-- implemented by -- MsQueue   -- MsQueueProofs
       ^------- INSTANCE ----------- MsBus     -- MsServerProofs
    CThread  <--- INSTANCE --- MsServer = MsBus + CThread -- MsServerProofs
    MmStore    <-- implemented by -- MmPool    -- MmPoolProofs
    HashMap    <-- implemented by -- HashTable -- HashTableProofs
    RbSet      <-- implemented by -- RbTree

    EvHeap --- EvBase --- EvLoop -- EvLoopProofs
    EvMap -- EvMapProofs
    EvBytes    <-- implemented by -- EvBuffer
    EvBev -- EvBevProofs -- EvBevCauses  EvDns               EvHttp

`MC...` modules hold symmetry sets, views and constant functions for TLC.

**MsFifo** is what the four list operations promise: a stack of free items, a
FIFO per queue, and items handed over whole. **MsQueue** is the code, one action
per statement that touches shared memory; a label such as `push_link` is the
statement a thread executes next. `freeSeq`, `queueSeq` and `where` are
history variables: no action reads them. The callers are any threads that
use an item only while they own it; what they do with it is `MsBus`.

**MsBus** builds the server over `MsFifo` (`Fifo == INSTANCE`): each list
operation is one step, which `MsQueue!ImplementsFifo` justifies. `ev_accept_cb`
is `Accept`, `Alloc`, `Push`, `Write`; `message_notify` is `Notify` and `Pop`,
with its branch for no item; the dispatch is `NewConnect`, `Timeout`, `Process`,
`Ignore`, then `ReadNothing` or `ReadData`. `client` is the other end of each
descriptor, with numbers reused once closed.

**CThread** is the frame of `cpthread_creat` (`start_func`, `param`), filled and
abandoned by the main thread and read field by field by the new threads.
**MsServer** composes the two (it extends `MsBus` and has an instance `Start` of
`CThread`): a worker of `MsBus` takes part from the moment
its thread has entered `message_thread_proc`, and `pbase` says whether a base is
new, has its loop, or was spoilt by a second thread that read its parameter late.

**MmPool** has an element as the pair of its block number and what `privData`
points to, because a release exchanges the first and not the second. A call of
the interface is one action. `obj` is what the program holds: a pointer into
`buff`, into `proot`, or a copy. Two programs use the pool: both copy each
header before the next allocation; the careful one never asks for contents that
the pool knows, the sharing one does. **MmStore** is what the pool owes the
owners: private memory, until a `realloc` that moves the array takes it from all.

**HashTable** has one action per call up to the call of `rehash`, then one per
element `rehash` moves, then the final `insertElement`. `strHash` and the
comparison without case are the constants `HashOf` and `NameOf`. **HashMap** is
the map of names that the comments of `co_hash.c` describe.

**RbTree** has one action per iteration of the loops of the search, of
`rb_rebalance` and of `rb_erase_rebalance`. Mirrored branches are one
definition with the side as a parameter. A key is the node's number. An erase
searches its key as the header of `co_rbtree.h` shows and erases the node it
found. **RbSet** is the set of keys a search finds, with the call that is
running and its key: a call changes the set by that key, once, or returns
because there is nothing to change.

**EvHeap** is the binary heap of timers, over sequences. **EvBase** has the
functions of `event.c` that run with `th_base_lock` held, as operators from a
base (a record with the fields of `struct event_base` and, by event, of `struct
event`) to a base; `need` is `EVBASE_NEED_NOTIFY`. **EvLoop** has the two
threads: the loop, with the lock free while it waits (`wait`), has results to
look at (`polled`) or runs a callback (`call`, and `drained` between the two
halves of `evthread_notify_drain_eventfd`), and another thread, which may be
caught in `event_del`. Time is a number.

**EvMap** has the map (`events`, `count`), the changelist with the place every
descriptor remembers, and the kernel's side: `file` is what the program did with
the descriptor, `kernel` what epoll still knows. A dispatch applies the changes
through `epoll_apply_one_change` and its retries, each to the item of its
descriptor: there is one change at most for each, so their order does not
matter. The kernel may answer any new item with `ENOMEM`.

**EvBuffer** has a buffer as the list of its chains and `dp`, the place of
`last_with_datap`. A call is one step; a function that others call is an operator
from the world before to the world after, as it is in EvDns and EvBev, so that
a call contains everything it sets off. Memory may run out at each allocation.
**EvBytes** is what a buffer is to its user: a sequence of bytes.

**EvBev** has socket bufferevents with `BEV_OPT_DEFER_CALLBACKS` and locked
callbacks. The loop takes a callback from the queue (`Take`) in one step and
gets its lock in another, and any call of any thread may come between. `susp`
is the set of reasons why a direction rests, `pend` the events added, `tell` the
callbacks owed. `uses` is what a program does with bufferevents: each behaviour
is that of one program. Sockets fill `sock`: the network ends a connect when it
likes, and a refusal is told to whichever call asks first.

**EvDns** has the requests of the program and the probes, in flight (`heads`) or
waiting, and the servers; a request handle is its user or the probed server.
A callback or a call is one step. `net` is what the network may still answer:
queries to the server they went to, with the transaction id they had. `sentTo`
and `heard` are history that no step reads: to which server the query of a
request was last put on a socket, and which servers have been heard from since
they failed. `use` is what a base is set up and used for.

**EvHttp** has both ends of HTTP: one client connection `con` with its requests
`req`, and the server's connections `srv`, over TCP connections `tcp` whose two
directions carry pieces (a head, a body or a chunk, an end). Callbacks of the
program run in the middle of a function: `todo` is what the functions on the
stack still have to do, innermost first, and while its first item is `cb` the
program may make, cancel or free. `fault` collects the assertions that fail.
`job` is what is asked and answered, and the settings of the connection.

Operators whose comment begins with "Faulty" are plausible slips in the
operation below them. No action uses them; put in place of that operation, each
makes the property listed with it in `PROJECT.json` fail, which shows that the
property looks at that line.

## 4. The runs

| run | instance | what it shows |
|---|---|---|
| `msqueue` | 2 items, 2 queues, 3 threads | every list is a list at each statement, each item at one place, the code implements `MsFifo`, and no list stays locked |
| `bus` | 2 items, 2 workers, 2 descriptors, 4 accepts, both lines repaired | items and wake-ups match at every interleaving; every queued item is taken, or its worker waits in a read |
| `server` | 2 threads, 2 items, 1 descriptor, 3 accepts, `message_notify` as it is | however late threads start, a base has one loop or none; workers popping from each other's queues share no item and close no descriptor twice |
| `mmpool` | 4 objects, 4 blocks growing to 6, two contents | no block lost or handed out twice, counters account for every object, objects have memory of their own, which an expansion that moves the array takes from all of them |
| `hash` | 5 elements, 5 names in 6 spellings, 2 data | the table is a map; list and buckets agree at every step of a first and of a second rehash |
| `rbtree` | 8 keys | a balanced search tree after each iteration, in-order traversal; each call changes a set by its own key, once; every call returns |
| `evloop` | 4 events of 2 priorities, times 1 to 3, 3 calls, two threads | the queues and the heap agree; no wake-up is lost; what was deleted stays so; priorities; due timers and active events run; a break stops the loop |
| `evmap` | 2 descriptors, 5 events, counts up to 2, with and without changelist | after a dispatch the kernel watches what the events want, whatever was closed and reopened behind the map |
| `evbuffer` | 2 buffers, 4 chains of 2 or 4 bytes, 5 calls | the chains agree with the counts, the buffers are sequences of bytes, callbacks learn of every change |
| `evbev` | 8 programs, 2 bufferevents, buffers of 2 bytes, 2 configurations | events are added exactly when they should be; references; order of callbacks; limits kept; bandwidth comes back |
| `evdns` | 2 servers with probes, one place in flight, one trouble; 2 users, one with 2 names, or 1 user with two transmissions | lists and counters agree, everyone is told once, no place stays empty; a server is counted as silent, or taken out of use, only for queries that were put to it |
| `http` | 5 jobs of 2 requests, 2 TCP connections, 2 troubles, all repaired | each request is told once, with its own reply or a failure that somebody caused, and is not handed to the server twice; no assertion fails; every request comes to an end |

Why the bounds are enough to be interesting. With three threads, two can be inside
two queues while the third is inside the pool, and two can wait for one mutex;
with two items a queue has a first and a last that differ, and the pool runs
empty. (The safety part of this run is proved for every size, section 6.) Four
accepts over two workers give each worker a second connection and use each
descriptor number again; in `server` the third accept goes to an item that was
used before. A pool of four blocks with a buffer of two goes through two refills
and one expansion, with all four objects live. In the hash table `RehashAt` (10 in
the code) is 1, which brings buckets within reach of few elements; `MaxBuckets` is
the soft limit and `Slack` what `malloc` gives beyond the request. The first
rehash is from no buckets to two, three or four, when memory is not refused. A
rehash of a table that has buckets needs more than two elements for each bucket,
and no less than five in all since one bucket is never grown: the fifth element
takes a table of two buckets apart and spreads it over three or four, with all
orders of the list that inserts and deletes bring about. One entry stands for all
of them in changing its data (`OneVaries`), and the elements are a symmetry set.
Both properties are proved for every size (section 6). Eight keys give trees of
height five and every case of both loops, on both sides.

Four events hold one of each kind: a persistent descriptor, a more important timer
that may use the common timeout, a deferred callback, and an exit; three calls
suffice to add, delete and add again, from inside and outside the loop. The heap
of such a base is small, so `MCEvLoop` also evaluates `EvHeap` on every heap of
seven events. With counts up to 2 the limit of 65535 readers is met. Two buffers
and five calls reach moves between buffers with empty chains in front, in the
middle and behind; the repairs of `evbuffer_pullup` and `evbuffer_commit_space`
change nothing within five calls, since their faults need six and eight. One place
in flight makes every freed place matter in `evdns`, and the limits on
retransmissions, reissues and timeouts are 1, so that a request meets each of
them; `MaxTroubles` bounds what else goes wrong to one full or broken socket,
suspension or end, at any time. With one retransmission a timeout counts against a
server only after a reissue, so a second use of the base allows two, with one
request and a server that cannot be reached (`Uses`; each behaviour is one of
them). Probes stay with their server (`"nameserver_send_probe"`), without which
there are too many states for a run. The jobs of `http` pair requests so that each
form of request and of reply follows another, on connections with and without
retries, reading on write errors, lingering and freeing themselves; two troubles
let a failure meet the recovery from another.

The programs of `evbev` divide the interface, because all of it at once would be
too much: connecting with and without a name, with the socket replaced; marks and
timeouts; limits with bytes counted or given back beside reading and beside
writing, with enabling, and with freeing while a refill is due; two members of a
group of which one may be locked elsewhere; and a member freed while its group is
suspended. Two bytes are enough for a bucket to be used in part, emptied, and for
the mark to be met from both sides; `Burst` has one configuration equal to the
rate and one above it; ticks that a bucket has not seen count up to two.

Reductions. The objects of `mmpool` are interchangeable and a symmetry set; it
checks no liveness. It also uses a `VIEW` that hides the parts of `proot` and `buff` the
careful program never reads again and the contents of blocks that no owner sees
(`MCMmPool` says why), so `TypeOK` is
evaluated there on one of the states that differ only in those parts. The view
of `evbuffer` numbers chains in the order in which the buffers have them.

Deadlock is checked in `msqueue`, `mmpool`, `hash`, `rbtree` and `evmap`. The
others stop where the system does or the bound is: after the last accept, the
last call, the last request, or with every bufferevent freed.

Beside the runs there are configurations for the code as it is, each of which
TLC answers with a counterexample; section 7 lists them. `MCEvDnsFew` passes: it
has the invariants of `evdns` with fewer repairs.

## 5. Fairness

Each liveness property assumes only that what is running goes on.
`MsQueue!FairSpec` has weak fairness of the next statement of each thread, and
nothing about new calls. That is enough for a mutex to be free again; nothing
says that a waiting thread gets it, which POSIX does not promise either.
`MsBus!FairSpec` has weak fairness of the acceptor inside its callback and of
each worker's event loop; neither new connections nor clients that send are
fair, so `Taken` allows for a worker that waits in `read`. `RbTree` is fair
only in the loop of a call that was made.

`EvLoop!FairSpec`: the thread of the loop goes on whenever it can, so does a
thread that has been woken in `event_del`, and so does the clock. Nothing is said
of the program's calls or of descriptors becoming readable.

`EvDns!Fairness`: the event base runs what is due (timers, queued callbacks, a
socket with room), a socket does not stay full or broken, and a program that
suspends the resolver resumes it. The network owes nothing.

`EvBev!FairSpec`: the loop and the clock go on, and the program at last leaves
its limits alone. The last is needed: `bev_refill_callback_` runs from one timer
for both directions, and each decrement that empties a bucket, like each new
limit, sets it anew (section 7).

`EvHttp!Fairness`: both event loops run what is due, what is on the stack goes
on, and the program of the server answers what it holds.

Where TLC would have to work out `ENABLED` of a large step, weak fairness is
written out as `[]<>~Guard \/ []<><<A>>_vars`.

## 6. What is proved

Every theorem holds for all values of the constants allowed by the `ASSUME`s.

**MsQueueProofs** (from `MsQueueAssumption`: at least one item, `Pool`, queues
and threads disjoint).

| theorem | statement |
|---|---|
| `Invariance` | `Spec => []IInv` |
| `TypeCorrect`, `MutualExclusion`, `FreeListCorrect`, `QueueListCorrect`, `ItemsConserved`, `NothingStale` | `Spec => []` of `TypeOK`, `LockInv`, `FreeListInv`, `QueueListInv`, `OnePlace`, `ItemInv` |
| `Refinement` | `Spec => ImplementsFifo` |

The inductive invariant `IInv` is the conjunction of the six. None is inductive
alone: the lists stay lists only if an item that is linked in is in no other
list (`OnePlace`, since all lists use `pnext`), which rests on who owns an item,
which rests on what a thread remembers between two statements (`ItemInv`: the
head it read is still the head), and that on the mutexes (`LockInv`). Lemmas on
sequences (`TailOfList`, `ConsOfList`, `AppendToList`) say what taking from and
adding to a linked list does; each action has a lemma of its own, and `QuietStep`
does the part common to actions that change no list. For the refinement, four
statements (`AllocNext`, `FreeHead`, `PushTail`, `PopNext`) take effect, the
other steps stutter.

**MsServerProofs**, of `MsBus` (from `MsBusAssumption`: the sizes are positive,
descriptors are a finite set of positive numbers).

| theorem | statement |
|---|---|
| `Types` | `Spec => []TypeOK`, for the code and each repair |
| `DescriptorsApart` | `Spec => []FdsApart`, for the code and each repair |
| `ItemsAndDescriptors` | `Spec => []Inv`: also `OneHome`, no item is lost or in two places, for the code and each repair |
| `BytesMatchItems` | `Spec => []NoByteInVain`: no more bytes than items, for the code and each repair |
| `WakeUpsMatch` | with both lines repaired, `Spec => []NotifyMatches` |

`FdInv` adds to `FdsApart` the descriptor that `accept` returned and no item has
yet. `Apart` says `OneHome` without counting: no list has an item twice, no two
lists or hands share one. `VainInv` compares the finite sets of queued items and
of bytes that are written or about to be (`Units`), since a worker may pop from
another's queue and only the sums are kept. `WakeInv` adds to `NotifyMatches` that
the next worker exists, that a worker pops from its own queue (what the repairs
provide), and that all workers stop with the process.

**MsServerProofs**, of `MsServer` (from `MsBusAssumption` and
`MsServerAssumption`: at least one thread, and what a dead frame holds is no
thread).

| theorem | statement |
|---|---|
| `ServerIsSafe` | with `"argc"` in `StartRepaired`, `ServerSpec => []ServerInv`: parameters in time, one loop for a base, and `Inv` and `NoByteInVain` of `MsBus`, whatever is repaired there |

The invariant joins those of `MsBus` to `StartInv` (a parameter that a thread
finds is its own or that of a later thread) and `LoopInv` (`OneLoop`: who is at a
base, by its state). The actions of `MsBus` and of `CThread` keep their own parts
by the lemmas of the components; what is new is the frame and the end of the
process.

**MmPoolProofs** (from `MmPoolAssumption`: the buffer is not empty and fits into
the pool and into what it grows by).

| theorem | statement |
|---|---|
| `BlocksConserved` | `CarefulSpec => []` of `TypeOK`, `OneHome`, `Accounted`, `RoomToFree`, `HandedOut` |
| `PoolIsSound` | `CarefulSpec => []Inv`, which adds `PointersAgree` |
| `MemoryIsPrivate` | `CarefulSpec => ImplementsStore` |

`PoolInv` is `Homes` (`OneHome` in pairs: no two places of stack, cache and
objects have one number), `Accounted`, the balance of used and free elements that
`RoomToFree` follows from, and `HandedOut`. A refill copies headers from the
stack to the cache, so a block is in two places inside the call and in one after
it; the lemma `RefillAgrees` and the lemmas on `Homes` follow the numbers through it.
All three hold whether `realloc` moves the array or not. `place` counts its moves,
and a pointer keeps the `place` it was made for: `PointersAgree` says that it names
its own block at that place, never another. So an expansion that moves the array
turns the data of every object that was live into `Lost` (`MmStore!CreateMoved`),
which is what `mm_pool_expand` does to the program (`MCMmPoolMove.cfg`, section 7),
and what an owner writes after that changes no object.

**EvMapProofs** (from `EvMapAssumption`: finitely many descriptors, every event
has one and wants something of it).

| theorem | statement |
|---|---|
| `MapIsConsistent` | `Spec => []Inv`: counts are those of the events, and each change knows its place |
| `KernelWatches` | `Spec => []Watched` |

`Watched` speaks of descriptors without a change. The inductive invariant
`MapInv` needs its counterpart for the others, `Waiting`: what the kernel had
when the change was made, less what it deletes and with what it adds, is what
the events want; and the kernel still has it, or has forgotten the descriptor and
the change speaks of all that it had.

**HashTableProofs** (from `HashTableAssumption`: finitely many elements, NULL is
none of them and no data, keys that spell one name have one hash).

| theorem | statement |
|---|---|
| `TableIsSound` | `Spec => []Inv`: `NothingLost`, `DoublyLinked`, `BucketRuns`, `Findable` |
| `TableIsAMap` | `Spec => ImplementsMap` |

The invariant `IInv` names the list: there are sequences `s` and `r` such that
`s` is the list from `first` on, with `prev` its way back and each bucket an
interval of it (`Table`), and `r` is what rehash has still to move (`Shape`);
`Own` adds that no two elements have one name and what the locals of an insert
hold. `insertElement` puts an element into `s` at a place where no other
bucket's interval is cut (`LinkedAt`, `RunsAt`), `removeElementGivenHash` takes
one out (`UnlinkedAt`, `RunsRemoved`). The functions of the model that walk
(`From`, `Run`, `Behind`, `Search`) give what `s` says by `FromPath`, an
induction written out as a least counterexample (`Least`). For the refinement,
`Says` relates a name to what the live elements say of it.

**EvLoopProofs** (from `EvLoopAssumption` and `EvBaseAssumption`: finitely many
events, any positive number of priorities, at most one common duration, and
deferred callbacks without descriptors or persistence).

| theorem | statement |
|---|---|
| `Invariance` | `Spec => []IInv` |
| `BaseStaysOk` | `Spec => []Inv`: `TypeOK`, `BaseOk`, `CommonScheduled`, `TimeoutsElapsed` |
| `WakeupsReach` | `Spec => []NoLostWakeup` |
| `DeletesHold` | `Spec => []DeleteHolds` |
| `PrioritiesRespected` | `Spec => PriorityRespected` |

The proof has three layers. The heap: `ShiftUp` and `ShiftDown` walk with a hole,
so their invariants are the order of all but the hole (`OrderBut`), and that the
event that will fill it fits above or below (`AfterAbove`, `BeforeBelow`). They
are recursive functions, about which `HeapPush` and `HeapErase` are proved by
inductions written out as least counterexamples (`LeastOne`). The base: each
function of `event.c` that is an operator of `EvBase` has lemmas that it keeps
`Sound(b, t)` (timers, queues, kinds of events and elapsed timeouts, at time `t`);
that it `Does` no more than it may (who runs stays, the notification is only ever
given, only the named events come into use, what is active and more important
than the running queue sets `event_continue`); that the timer of the common list
stays set (`Keeps`); and that it `Wakes` a sleeping loop if it gives it something. The
loop: each action keeps `IInv`, by what it calls.

None of the properties is inductive. `NoLostWakeup` needs that a notification
that is pending is readable or just being drained (`Told`, in `Threads`), since
`evthread_notify_base` does nothing when one is pending. `PriorityRespected` needs
`Important`: while callbacks run, `event_running_priority` is the queue they come
from, and whatever is more important has been noticed through `event_continue`.
`DelWaits` needs that the loop has a current event exactly while it is in a
callback, and that the one waiter is counted. `CommonScheduled` needs to survive
the callback of `timeout_event`, during which the timer is not set.

**EvBevProofs** (from `EvBevAssumption`: finitely many bufferevents, a bucket
holds at least what a tick adds, marks within the buffers).

| theorem | statement |
|---|---|
| `AlwaysSound` | with `"bufferevent_decref_and_unlock_"` in `Repaired`, `Spec => []Sound(Now, loop)` |
| `FreedOnce` | with the same, `Spec => []Released` |
| `LimitsAreKept` | with the same, `Spec => MovesWithinLimits` |

The other two repairs may be present or not. Without this one the finalizer goes
with one event only, a refill may add another of the dying bufferevent (section
7), and `Released` is false. `Sound` is the inductive invariant. It counts: the
references of a bufferevent that is live are that of the program, of a lookup, of
a deferred callback in the queue and of the one the loop is at (`Counted`); who
has none is finalized, and the queue names a finalizer for it and nothing else
(`Alive`, `QueueFits`); the loop is never at one that is freed (`LoopFits`).
`Released` follows, but is not inductive, for it says nothing of one that is about
to be freed.

A function of the code calls many others, for one bufferevent `b`. `Does(w, x, b)`
says what all of them leave as it was, from the world `w` to the world `x`: the
references less the deferred callback's, the finalized events, the members of the
group, and every bufferevent that is neither `b` nor a member. `Quiet` adds that
nothing enters the queue, `Moves` lets the buffers change. Each operator of the
model has a lemma with one of these, the members of the group one with an
induction written out (`EachMember`). A handler that takes a reference, does its
work and drops it (`Handles`) keeps `Sound` by one lemma (`Bracket`), and a call of
the program by another (`Rehold`). `WithinLimits` is carried along each step.

**EvBevCauses** (from `EvBevAssumption`, and what `EvBevProofs` proves).

| theorem | statement |
|---|---|
| `WaitsForACause` | with `"bufferevent_decref_and_unlock_"` and `"be_socket_setfd"` in `Repaired`, `Spec => []Inv` |

Without the repair of `be_socket_setfd` TLC finds `Inv` violated. That of
`bufferevent_decref_and_unlock_` is there for `Sound`, from which the proof starts:
without it TLC finds no violation of `Inv` on the instance of the run, which does
not speak of what has been finalized. The third repair may be present or not:
without it TLC finds `ConnectedFirst` violated, and `Inv` holds.

The inductive invariant is `Sound`, `Fine` and that the program is one of
`Programs`. `Fine` says of every bufferevent that is live and not finalized that it
is `Firm`: `Waits` and `MarkHeld`, and what makes `BandwidthHeld`, `AsksForBytes` and
`Held` inductive (`Upheld`). An empty bucket suspends (`Capped`); what is suspended
for its bucket has the refill timer added, queued or at the loop (`Backed`); what is
suspended for the group is a member, in a direction that the group suspends or has
still to resume (`Tied`); and a callback owed is made by a deferred callback that is
queued, or by the one that runs, which has not come to it yet (`Owed`). Of the group
it says that a direction that is not suspended has bytes (`FedBut`). `Plain` notes what a
refused connect leaves behind, which `Waits` needs.

Handlers break these one at a time and mend them before they end: the buffer is
filled before the mark suspends, the bucket emptied before it suspends, the group
resumes its members before it forgets that it has to. So each function has a lemma
with what it may be given broken and what it leaves: `Stands` is `Firm` but for the
mark, `Nearly` but for what is said of one reason, `FedBut(w, ds)` but for the
directions `ds` of the group. `Aside(w, x, b)` is the frame: no other bufferevent
changes, nothing of another leaves the queue, and of `b` only its own events do.
`Fares` joins the frame to the invariant, and what a handler, a callback or a call of
the program does is a chain of such steps. `HandedFine` is for the steps between
which the loop has no lock: what a callback that is taken still owes stays owed, for
`Timed` and `Awaits` look at the loop.

**Only model-checked**: liveness and `ENABLED` everywhere (of `EvLoop`,
`EventsServed` and `BreakStops`); the invariants and refinements of `RbTree`,
`EvBuffer`, `EvDns` and `EvHttp`; and of `EvBev` `ConnectedFirst`, which depends
on the order of a dispatch: it needs an invariant about the places in the queue.
The tree is walked by recursive functions, each fact about which takes an
induction written out by hand; `EvBuffer` and `EvDns` use `RECURSIVE` operators
for calls that call themselves, in whose modules the prover has no SMT.

## 7. Where the code and its comments part

Configurations beside the runs, with the code as it stands; TLC finds each
property violated.

| configuration | property | at | what happens |
|---|---|---|---|
| `MCMsBusNil` | `NeverNil` | `co_message.c:372` | the dangling argument lets a worker pop from another's queue |
| `MCCThreadArg`, of `CThread` | `PmsThread` | `co_message.c:405` | the worker's parameter is passed as the number of parameters |
| `MCMmPoolReuse` | `NotFreed` | `co_mmp.c:114` | `irefcount` is counted and never looked at: a shared block is freed under its other owner |
| `MCMmPoolMove` | `PointerValid` | `co_mmp.c:143` | pointers into the old array after it was moved |
| `MCEvLoopOnce` | `OnceReleasesLock` | `event.c:2052` | `event_base_once` returns with `th_base_lock` held when the add fails |
| `MCEvLoopAdd` | `AddedIsWatched` | `event.c:2597` | `event_add` of an event that is active because of its timeout does not watch its descriptor ("pending until it is triggered", `include/event2/event.h:1211`) |
| `MCEvDnsAnswer` | `BackWhenHeard` | `evdns.c:1042` | an answer is taken by its transaction id, whoever sent it, and brings up the server that the request has now |
| `MCEvBufferLast` | `LastWithData` | `buffer.c:703` | `advance_last_with_data` stops at an empty chain, and data behind it is no longer before `last_with_datap` |

Seen while modelling, of the library: `ibufflen` is never set, so
`ms_process` may ask `read` for no bytes and close a live connection
(`co_message.c:240`); a late thread gets another worker's base, whose loop
refuses it, and `message_thread_proc` frees the base under the other thread
(`co_pthread.c:90`, `MsServer!Reenter`); the second failing allocation of
`mm_pool_init` passes a static object to `free` (`co_mmp.c:398`); a program that
keeps the pointer into `buff` instead of a copy shares it after the next refill
(`co_mmp.c:234`); `rb_first` of an empty tree leaves the traversal unset
(`co_rbtree.c:324`).

Of `event.c`: `event_del` waits once on `current_event_cond` (2794) and does not
look again, although its comment (2781-2785) promises that the callback is not
running; `timeout_next` computes the sleep from the cached time, which may be
old; `event_base_loopcontinue` has no effect during an internal callback;
`event_del` leaves `ev_io_timeout` of a persistent event, so a later `event_add`
without a timeout keeps the old one (`event.h:1213` says there is none).

Of `buffer.c`, in the order of `Repaired`: `evbuffer_invoke_callbacks_` (515-530)
gives back the lock it took for a deferred callback that was already queued;
`advance_last_with_data`, above; `evbuffer_add_buffer_reference` (1034) frees the
empty chains at the end of the destination and leaves them linked;
`evbuffer_remove_buffer` miscounts with empty chains in front, ignores the result
of `evbuffer_add` (1322) and calls back with the old length; `evbuffer_pullup`
writes behind an immutable chain; `evbuffer_commit_space` refuses extents that
`evbuffer_reserve_space` gave. Not repaired, because the properties allow them:
`APPEND_CHAIN_MULTICAST` stops when memory runs out but everything is counted as
added; `evbuffer_prepend` may store part and return -1; a buffer that shares its
own chains is never freed.

Of `evdns.c`. `MCEvDnsAnswer` takes the code with no repair: even an answer that
does not fit the question brings up the server that the request has now (1042, and
"we got a good reply from the nameserver: it is up", 923). With `"reply_parse"`
repaired the same configuration shows a probe that is retransmitted to another
server, whose answer brings up the failed one (2335); with
`"nameserver_send_probe"` as well, the late callback of an old probe that brings
up a server which has failed since (2307). So no run checks `BackWhenHeard`.
`evdns` finds `ServersJudged` violated without any one of three repairs: a timeout
picks the next server and then counts against that one (2192), also when a
reissued request, which waits for the timer of its last transmission (732), has
not been sent to it; when a send fails, `nameserver_failed` moves the request on
and it then counts as sent to a server that has not seen it (604, 2267); a refusal
is taken, again by its transaction id, for that of another server (1042).
Repaired, the timeout counts against the server that was asked, and against none
while the request is still to be sent; a request counts as sent before its server
fails, and a reply counts only from the server that was asked. The invariants of
the run need none of these three (`MCEvDnsFew` checks them without). Further:
`search_try_next` makes the next request before it finishes the last (3291), so
that with one place the new one waits and nobody pumps; suspending (2396) and
freeing (4029) pump requests onto servers and lists already let go;
`evdns_transmit` (2345) returns 1 when only choked requests are left;
`evdns_cancel_request` reads `current_req` before it has the lock; probes take
places in flight, and two probes of dead servers can keep the one place from a
request for ever.

Of the bufferevents: a connect that succeeds at once triggers the write callback
before CONNECTED and, without `EV_WRITE`, never tells of it (compare
`bufferevent.c:145`); `be_socket_setfd` leaves `connecting` and
`connection_refused`, so that the end of the old connect is told of the new
socket; after the last reference only one callback is marked finalizing, and a
refill or the group's refill may add an event of the dying bufferevent
(`bufferevent.c:684`); a program that decrements or sets limits again and again
keeps the other direction from being refilled; bytes may be read after
`bufferevent_disable` returned to another thread; a name that resolves after
`bufferevent_free` is still connected to; `max_single_read` and `_write` are
ignored where there is a bucket; with `min_share` 0 a share of 0 bytes is read
and taken for the end of the stream.

Of `http.c`, in the order of `Repaired`, each shown by `http` with that name left
out: `evhttp_connection_reset_` (1307) leaves `EVHTTP_CON_CLOSEDETECT` and a
deferred read, which then meet the next connection; `evhttp_connection_done`
(822) sends the next request after an exchange in HTTP/1.0, when the server
hangs up, and a request cancelled in the middle of it is freed under it; a
connect does not stop the retry timer, which fires on the live connection
(1371); a request that waits in the list of `evhttp_connection_cb_cleanup` (1426)
can be cancelled and corrupts the list; a retry connects although its requests
have been cancelled; `evhttp_send_reply_start` (2837) uses the connection of a
request that has lost it, where `evhttp_send` looks; `evhttp_connection_fail_`
and the close found in `evhttp_read_cb` leave a connection that should free
itself ("after the last request has completed or failed",
`include/event2/http.h:715`).

## 8. What is not modelled

- `ms_handler` and the expiry of timers: unreachable as the code stands
  (section 2). Failures inside `message_thread_setup` and the set-up of the
  listening socket: straight-line I/O whose results nobody looks at.
- `co_malloc.c`, `co_socket.c`: wrappers of one library call each.
- `co_heap.c` is disabled by `#if 0`; `co_dicty.c` is unfinished; `co_obtype.c`
  is tables of constants and does not parse; `co_class.c`, `co_except.c`,
  `co_gc.c` are empty; `co_init.c` and `co_interp.c` are stubs.
- `irefcount` and type pointers in `MmPool`, thread attributes in `CThread`, the
  bytes of messages in `MsBus`.
- Of the event base: signals, finalizers (but those of bufferevents), the set-up
  and its configuration, limits on the callbacks of a turn, the debugging map. Of
  `evmap.c`: signals, edge-triggered events. Backends other than epoll are not
  part of a build on Linux.
- Of `buffer.c`: searching, peeking and copying out change nothing; file
  segments and `sendfile`; `printf`; pinned chains, which are for Windows.
- Of the bufferevents: callbacks that run inline or unlocked, `trigger` and
  `flush`, priorities, another base, and pairs, filters, OpenSSL and IOCP. A
  program gives a bucket back no more than the refill would leave in it (above the
  maximum, `ev_token_bucket_update_` counts in unsigned numbers and goes on adding,
  `bufferevent_ratelim.c:96`) and overdraws it by one byte.
- Of `evdns.c`: the encoding of packets, `resolv.conf` and hosts,
  `evdns_getaddrinfo`, server ports, `disable_when_inactive`, failing allocations.
- Of `http.c`: the text of messages (first lines, headers, URIs, pages), virtual
  hosts and dispatch by path, `header_cb`, `error_cb` and `closecb`, requests that
  the program owns, limits on headers, a bind that fails, a connect that is half
  open, and one to a remembered address (`EVHTTP_CON_REUSE_CONNECTED_ADDR`, 2573)
  that fails inside `connect`, whose event callback then precedes the cleanup; a
  trailer comes with its last chunk.
- RPC and tagging, the listener, signals, the wrappers of locks and threads,
  and the utilities.

## 9. Plan

The modules were written in the order of section 3: the server's own core first,
then what it stands on. What follows, in this order:

1. `EvBevCauses`: that a connect is told before what follows it (`ConnectedFirst`),
   from the order of the queue.
2. That `MsBus` restricted to its lists implements `MsFifo` for every size.
3. Bufferevents with inline and unlocked callbacks, pairs and filters; then
   `EvHttp` over `EvBev`.
4. More of the server: `ms_handler`, the item's events and the timeouts with the
   event base restored, over `EvLoop`; and a `message_thread_setup` that fails.
