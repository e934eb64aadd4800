# A TLA+ verification of the RPC library and the extent server

The repository holds two systems: a multi-threaded RPC library with at-most-once
semantics (`rpc/`), and an extent server, a small file store on an in-memory disk
(`extent_*.cc`, `inode_manager.cc`). This directory models both, from the poll
thread and the marshalling up to the calls of an application, and checks the models with
TLC. With TLAPS it proves, for every value of the constants, that the RPC system and the
extent server implement what their clients are promised, and the safety invariants of the
protocol, the pool, the connections, their reference counts, the marshalling, the deadlines
and the disk.

## Inventory

| component | state | operations | interacts with | correct means |
|---|---|---|---|---|
| `rpcc`, client | `calls_`, `xid_`, `xid_rep_window_`, `chan_`, `srv_nonce_`, `dup_req_` | `call1`, `bind`, `cancel`, `got_pdu` | application threads call it; the PollMgr thread calls `got_pdu`; sends on a `connection` | a call returns once, with the answer of its one execution or a failure; every call and `cancel` return; only finished calls are acknowledged |
| `rpcs`, server | `reply_window_`, `conns_`, `nonce_`, `procs_` | `dispatch`, `checkduplicate_and_update`, `add_reply`, `rpcbind` | `got_pdu` queues jobs, the pool's threads run `dispatch` | a handler runs at most once per call; a reply is kept while it may be asked for; a reply reaches a live connection |
| `connection` | `dead_`, `refno_`, one PDU being read and one being written | `send`, `read_cb`, `write_cb`, `closeconn`, `incref`, `decref` | sender threads wait for the PollMgr thread | PDUs are never mixed; a blocked sender wakes; the end of a stream is noticed; deleted only when unreferenced |
| `tcpsconn`, listener | `conns_` | `process_accept`, destructor | holds a reference to each connection | dead connections are collected, none that is in use |
| `PollMgr`, `SelectAIO` | callbacks by fd, fd sets, pending changes | `add_callback`, `del_callback`, `block_remove_fd`, `wait_loop` | one thread calls back into connections | no callback after `block_remove_fd` returns |
| `ThrPool`, `fifo` | bounded queue of jobs | `addJob`, `takeJob`, destructor | producers: PollMgr thread; consumers: dispatch threads | every accepted job runs; the destructor joins all, unless one is left asleep in `send` |
| `marshall`, `unmarshall` | byte buffer, index, `_ok` | `<<`, `>>`, headers | the templates of `rpcc::call` and `rpcs::reg` | what is unpacked is what was packed; no access outside the buffer |
| timespec | – | `add_timespec`, `cmp_timespec` | deadlines of `call1` | a call waits neither too long nor too short |
| `extent_server`, `extent_client` | – | `create`, `put`, `get`, `getattr`, `remove` | client calls the server directly; `extent_smain` registers it with `rpcs` | get returns what was last put; files are independent |
| `inode_manager` | the inode table | `alloc_inode`, `read_file`, `write_file`, `remove_file` | blocks of the block manager | no block in two files, none lost |
| `block_manager`, `Bitmap`, `disk` | bitmap, blocks | `alloc_block`, `free_block`, read and write | – | metadata blocks are never handed out |

Hard to test: two copies of a request in the server at once, requests and
acknowledgements that overtake one another, a connection that each end believes
in for a different time, a server restart between two copies, deadlines that
expire as the answer arrives, a sender that sleeps while its connection is closed,
locks taken in both orders, references exchanged while connections are deleted,
sums at the edge of a second or of a word, a disk at its limit, and a file at its
maximal size. `PROJECT.json` lists each at its line.

## Modules

    RpcNet        connections between a client and a server
    RpcClient     rpcc                        EXTENDS RpcNet
    RpcServer     rpcs                        EXTENDS RpcNet
    RpcSystem     the two composed; properties  EXTENDS RpcClient, RpcServer
    RpcService    what callers are promised   (abstract; RpcSystem implements it)
    RpcProofs     theorems about RpcSystem: types, at most once
    RpcRefinement theorems: replies are kept, RpcSystem implements RpcService
                  (with a nonce and without)
    MCRpc         instances for TLC
    ThrPool       fifo, ThrPool, and the part of connection and rpcs that feeds them
    ThrPoolProofs theorems about ThrPool
    PollMgr       PollMgr and SelectAIO
    Connection    connection; properties      EXTENDS PollMgr
    ConnectionProofs  theorems about Connection
    ConnRefs      reference counts: connection, tcpsconn and rpcs
    ConnRefsProofs  theorems about ConnRefs
    MCConnRefs    instances for TLC
    Marshall      marshall, unmarshall and the templates of call and reg
    MarshallProofs  theorems about Marshall
    MCMarshall    instances for TLC
    CallTimer     the deadlines of call1, add_timespec and cmp_timespec
    CallTimerProofs  theorems about CallTimer
    BlockManager  Bitmap, disk, block_manager
    InodeManager  inode_manager               EXTENDS BlockManager
    ExtentServer  extent_server; properties   EXTENDS InodeManager
    ExtentStore   what clients are promised   (abstract; ExtentServer implements it)
    ExtentProofs  theorems about ExtentServer
    MCExtent      instances for TLC

### RPC

A call is named by its xid. `call[x]` is the stack frame of `call1` with its
`struct caller`: `pc` says where it is, `hdr` is the header it packed, `ch` its
channel, `done`/`ret` what `got_pdu` or `cancel` wrote. Steps are cut where the
code releases a mutex or waits: `Call` (the first block under `m_`), `Transmit`
(`get_refconn` and the sends), `WaitTimeout` and `FinalTimeout` (the timed wait),
`Finish`, `RecordDup` and the return. `GotReply` is `got_pdu`, `Cancel` and
`CancelDone` the two parts of `cancel`.

At the server a thread of the pool goes through `Receive` (or `RefuseOld`), one of
the four `Check...` actions, `Run` (the handler and `add_reply`) and `Answer`. Run
contains both because no other step can tell whether the handler's last effect
and the saving of its reply are one step: until `cb_present` is set a duplicate
is INPROGRESS.

`RpcNet` gives each end of a stream its own `dead_` flag. A send to a broken stream
may fail or be accepted and lost. PDUs in transit are a set per connection:
they are read in order, but the pool reorders requests before `dispatch` takes its
first lock, and the client treats replies of different xids independently. When
the server's end fails, any subset of the unread requests is still dispatched.

The lists `xid_rep_window_` and `reply_window_[nonce]` are sets of xids; both are
sorted, the code only looks at their front, and a duplicate entry in the first is
popped together with its twin. `UpdateXidRep` gives the closed form of the loop of
`update_xid_rep`. There is one client: the server's tables are keyed by client nonce
and entries of different clients never interact. A nonce is a number of its own:
that `random()` never repeats, and never returns 0, is assumed.

A restart (`Restart`) is a crash of the process followed by a new `rpcs`: tables are
empty, all streams break, replies already in flight may still arrive.

### Dispatch pool

`RpcServer` lets a thread take any request that has arrived. `ThrPool` is the queue
in between. An action is what happens under `fifo`'s mutex: `Enq` and `TakeJob` are
`enq` and `deq`, a thread that finds the queue empty goes to sleep (`DeqWait`), the
destructor does when it is full, and `pthread_cond_signal` wakes one sleeper, any
one; `SpuriousWakeup` wakes one for no reason. `ReadCb` is the PollMgr thread in
`read_cb` and `rpcs::got_pdu`: a PDU the queue refuses stays in `rpdu_` and is offered
again when the connection is next readable. `CloseConn`, `EnqPill` and `Join` are
`~rpcs`: the listener closes the connections, then `~ThrPool` queues one pill per
thread and joins the threads. The queue and the sleepers are kept exactly; what a job
does is left to `RpcServer`, but for one thing: it may fall asleep. `RunJob` either ends, or
leaves the thread in `send` on an open connection over which `dispatch` may answer
(`ReplyTo`), and `blocked` says on which. `SendEnds` wakes it, when its PDU is sent or the stream
breaks. `closeconn` signals neither `send_wait_` nor `send_complete_` and ends the callbacks, so a
thread asleep on a connection that `CloseConn` closes is `Stranded`: only a spurious wake-up, which
makes it look at `dead_`, lets it go on.

### Connections and the poll thread

`PollMgr` has the watched descriptors (`rfds`, `wfds`, `highfds`), the wake-up pipe,
`callbacks` (the non-NULL entries of `callbacks_`), and the poll thread: `PollTop` is the
head of `wait_loop`, where `pending_change_` is cleared, `PollCopy` and `PollSelect` are
`wait_ready`, cut at `select`, and `PollCall` picks the next descriptor and reads
`callbacks_` without a lock. `BlockRemoveWait` and `BlockRemoveDone` are the two halves of
`block_remove_fd`, around its wait.

`Connection` puts a connection on each descriptor. A PDU counts pieces: the socket buffer
takes `Space` of them, the rest waits in `wpdu` for `write_cb`; what arrives has a length
and a body. A thread in `send` goes through `Send` (it has been called), then under `m_` one
of `SendRefused`, `SendWhole`, `SendPart`, `SendFails`, sleeps on `send_wait_` or
`send_complete_`, and returns (`SendReturn`). `CloseConn` is `closeconn` up to the unlock,
`Remove` and `Removed` are `block_remove_fd`. `ReadCb` and `WriteCb` are the callbacks,
`WriteCbStops` the branches that end the watching, `WriteCbAborts` the failing `VERIFY(!dead_)`.
`eagain` is `errno` of the poll thread: `read` sets it and, at the end of a stream, leaves
it as it was. The peer reads, writes, closes or resets the stream (external). `wire`,
`closed`, `removed` and `early` are history variables.

`RpcNet` is what the protocol above sees of this: a PDU arrives whole or not at all, and
each end learns of a broken stream in its own time.

### Reference counts

`ConnRefs` follows the references to a server's connections. `at[t]` is where a thread is,
the connection it works on and the one it is about to drop. A step is one acquisition of
`m_`, `ref_m_` or `conss_m_`; where a second lock is taken while one is held, the step ends
there, so that `NoLockCycle` can speak of the thread that waits. `Accept`, `GcIsDead` and `GcRef` are
`process_accept`, `Close` and `CloseNext` are `~tcpsconn`; `PollCall`, `ReadCb`, `GotPdu` and
`AddJob` lead from a callback to a queued job, and `Dispatch` to `Send` are `rpcs::dispatch`,
reduced to what it does to connections. The queue of the pool is a set of jobs, each
the number of its PDU and its connection: in which order jobs are taken is `ThrPool`'s matter. `Decref` and `DecrefZero` are the two locks of
`decref`. `SetReachable` is the test hook: when it falls between the two reads of
`reachable_` in `got_pdu` it deletes a queued job, and the model stops (`raced`).

### Marshalling

A byte is a digit of `Base`, an int is four of them, so `UintMod` stands for 2^32 and
the wrap of the unsigned sums is kept. The buffer is a sequence with the capacity of the
code, grown by the rules of `rawbyte` and `rawbytes`; index and capacity are `int`s in the
code and numbers here, that is, a PDU is assumed to be shorter than 2^31. `Values`, `ReqHeader` and
`Ret` are what is marshalled. The loops of the code (shifting an int, doubling the capacity)
are functions defined by recursion: `Power`, `Shr`, `Number` and the capacity. A behaviour is one call: `Shift`
writes arguments, `SendRequest` packs the header in front of them, `Dispatch` unpacks it,
`Unshift` reads arguments of the handler's types, which may be other types, `Run` tests
`okdone`, `SendReply`, `GotReply` and `CallM` are the way back. The server aborts ("aborted") when a
method returns a negative number, since negative numbers are the failures of `rpc_const`. With those
`dispatch` turns a request down before its handler sees it: `SendFailure` is the reply
that is a header alone, for an old server instance and for a forgotten request. `CallM` returns a
negative number at once, as `call_m` does, and shifts a result out only behind another one. An
access outside the buffer is the state "fault". A map is encoded like a vector of pairs and a bool like a char.

### Deadlines

`CallTimer` is the loop of `call1` as far as time is concerned. `Sec` units of time are a
second (10^9 nanoseconds in the code), the timeouts are all numbers of units, not only
whole seconds, and a call begins anywhere within a second. `pthread_cond_timedwait` refuses a
deadline whose nanoseconds are a full second (EINVAL): the call then goes round its loop
without sleeping and without releasing `ca.m` (`Spins`).

### Extent server

`block_bitmap` is the set of marked bits and `disk` an array of blocks of WORDS
words. Sizes count blocks (`BLOCK_COUNT` of the code's bytes), and the contents
of a file are a version number spread over its blocks, encoded so that no word
of data is a block number. `write_file` is one action; the k-th block it allocates
is the k-th free one, `NthAlloc(k)`, and 0 from the moment none is left, as
`Bitmap::find` has it. Its two loops are named by what they leave behind: `NewBlocks` is how often
`alloc_block` is called and `NewBlock` what it returns for a block of the file, `Blocks` and
`IndirectBlock` are the two arrays of block numbers afterwards, and `Written` is the disk after
one of the loops. `AppFile` is what a client could read back, and maps the
server to `ExtentStore`. The inode table is a variable of its own rather than part of
`disk`; `InodeTableSafe` is what makes this right. `full` and `shrunk` are history
variables: that the disk has overflowed, that a file was overwritten with a shorter
one. Requests are sequential, as `extent_client` makes them.

## What the runs show

| run | bounds | shows |
|---|---|---|
| `rpc_faults` | 3 calls, 2 at a time, 2 connections, 2 server instances, 2 threads | `TypeOK`, `AtMostOnce`, `ReplyKept`, `ImplementsService` |
| `rpc_lossy` | 7 calls one at a time, with the resend of RPC_LOSSY | `AtMostOnce` |
| `rpc_once` | 3 calls of a client without a nonce, with deadlines | `ImplementsService` |
| `rpc_live` | 2 calls, deadlines, cancel, 1 connection, 2 instances, 1 thread | `CallReturns`, `CancelReturns`, `ImplementsService` |
| `thr_pool` | 3 threads, 2 connections of 2 PDUs, a queue of 2 | `PoolTypeOK`, `AcceptedHaveRun`, `AcceptedRuns`, `DestructorReturns`, `ReaderCatchesUp` |
| `connection` | 1 connection, 2 senders, 2 PDUs of at most 2 pieces, a buffer of 1 | `ConnTypeOK`, `RemovedIsQuiet`, `PdusWhole`, `AbortIsRace`, `SendReturns`, `BreakNoticed` |
| `conn_refs` | 3 connections, 3 PDUs, 2 threads, a queue of 1 | `RefTypeOK`, `RefExact`, `NoUseAfterFree`, `NoLockCycle`, `AllFreed` |
| `marshall` | base 4, at most 2 arguments of 6 types | `MarshallTypeOK`, `NoOverrun`, `ReadsWhatWasWritten`, `RefusalIsMismatch`, `FaultIsWrap` |
| `call_timer` | 3 units to a second, timeouts to 25 units | `NotEarly`, `DeadlineBounded`, `FewRounds`, `SpinIsFraction`, `CallEnds` |
| `extent_store` | 5 data blocks, 2 files of at most 2 blocks, 1 direct block | `DiskTypeOK`, `NoSharedBlocks`, `InodeTableSafe`, `MarkedIsUsed`, `ImplementsStore` |

Why the bounds are enough for the interesting cases: two connections are a break
and a retransmission; two instances are a restart; two threads are a request
beside its own duplicate or beside a younger one; three xids are a bind and two
calls that acknowledge in either order. `rpc_lossy` needs seven xids: a request is
resent once a completed call acknowledged more than it, and its mutant only
executes it twice from then on. In `thr_pool` the queue is shorter than the row of
pills, so that the destructor itself must wait for space, and shorter than what
the connections send, so that PDUs are refused; with as many PDUs as threads and one more, every
thread can be left asleep in `send` while a job waits in the queue. In `connection` a PDU of two pieces does not
fit the buffer, so `write_cb` finishes it while the other sender waits; connections meet
only in the poll thread, and two of them are beyond TLC's reach here. Three connections
in `conn_refs` are one that dies, the one that replaces it in `conns_`, and a third whose
`process_accept` collects the first; a queue of one refuses PDUs. In `marshall` two
arguments are enough to outgrow `DEFAULT_RPC_SZ` by either rule, and `LongString` of `MCMarshall`
needs more than a doubling. In `call_timer` 25 units are room for four rounds of doubled length
with every carry. In `extent_store` two blocks already reach the
indirect block, and leaked blocks fill the disk and overflow it.

`ImplementsService` has an exact place for `atmostonce_failure`. One might expect that a caller never
sees it, but it may: after a bind (1), call 2 gives up at its deadline, and calls 3 and 4 are
made at once; 4 acknowledges 2 and is dispatched first, so that the server deletes the entries
below 2, and 3, which it has never seen, is below the window's new front. This takes four xids;
the comment at `rpc.cc:658` foresees it. So `RpcService` promises less than silence and more
than nothing: a call that returns `atmostonce_failure` was not executed, and one that returns it or
`oldsrv_failure` is not executed afterwards.

What the properties of connections, counts, buffers and deadlines leave open is as much their point as what they promise:

* `RemovedIsQuiet` excepts a wait of `block_remove_fd` that ended early. The wait is not in
  a loop on `pending_change_`, so a spurious wake-up lets it return while a callback runs.
* `AbortIsRace`: `VERIFY(!dead_)` in `write_cb` does fail when a send has failed, or
  `closeconn` was called, after `select` returned; only in that window.
* `SendReturns` excepts connections closed by `closeconn`, which wakes nobody: a sender
  asleep there sleeps for ever.
* `DestructorReturns` and `AcceptedRuns` follow from that. `~rpcs` deletes the listener, which closes
  the connections, before the pool: if a thread was asleep in `send` of one of them, `~ThrPool` waits
  in `pthread_join` for ever, and if all threads were, accepted jobs are not run. The two
  properties except a thread that stays stranded, and all threads that stay so, and nothing else; without
  the exceptions TLC finds both.
* `BreakNoticed` excepts a connection that is deaf: at the end of a stream inside a PDU
  `readpdu` looks at an `errno` that `read` has not set, and a stale EAGAIN makes it wait for
  data that never comes, with `select` returning at once from then on.
* `RefExact` and `AllFreed` count apart the references that the old-instance path of
  `dispatch` forgets, and the latest connection of the client, which `conns_` keeps.
* `FaultIsWrap` and `RefusalIsMismatch`: a string is read from outside the buffer only if the
  sum of index and length wraps, which needs a caller and a handler of different types. A reply that
  is a header alone has no result of any type; that it does not reach the assertion of
  `call_m` rests on the test of the sign before it.
* `SpinIsFraction` and `CallEnds`: with the timeouts of the repository, whole seconds, every
  call ends; with a fraction the nanoseconds may add up to exactly 10^9, which is not
  carried.

Runs that expect a violation record where the code departs from its comments:

* `rpc_lost_reply`: a reply goes to a broken stream that the server still thinks
  alive, the retransmission was dropped as INPROGRESS, and the client, whose
  new channel is fine, never sends again. The call hangs until its deadline.
* `extent_max_file`: a file of exactly MAXFILE blocks is not read back.

`ReaderCatchesUp` says that a connection is read to its end, not that its last PDU is
accepted: if the queue refuses it, it stays in `rpdu_` until more data arrives on that
connection, which may be never.

Three more departures have no run of their own, but are in the models: a client without a
nonce whose connection dies makes the server follow the NULL pointer `conns_[0]` (`Fault`
in `RpcServer`, reached in `rpc_once`); a put of a shorter file frees nothing (`MarkedIsUsed`
holds only until then); and a full disk hands out block 0, the boot sector (`NthAlloc`).

Three comments differ from the code without a run: `rpc.cc:650` says replies with
"XIDs <= xid_rep" are deleted and freed, the code deletes those `< xid_rep` and frees
none; `rpc.h:277` says `cb_present` means the reply "has been sent", it is set before
the send; `rpc.h:272` calls FORGOTTEN a request whose reply was deleted, where the
code, as `rpc.cc:658` has it, also answers so to an old request it never saw.

The runs say CHECK_DEADLOCK FALSE for the RPC system, which stops when the bounded
supply of xids and connections is used up, and for the pool, which stops when it is
deleted or its destructor waits for a stranded thread. `Connection` stops when its bounds are used up or an assertion fails, `ConnRefs`
and `CallTimer` when all is closed or the clock stops, `Marshall` when the call has returned or a side has aborted. The
extent server never stops.

### Symmetry and view

Dispatch threads are interchangeable, and `WorkerSymmetry` is used in safety runs
only. `extent_store` uses the view `LiveState`, which hides the last request and reply, the
contents of unused blocks and the block numbers past a file's end: within its
bound (`MaxPut` below MAXFILE) an indirect block is always written before it is
read, so no step reads what the view hides, and every transition's reply is still
checked against the store when it is generated.

### Fairness

`FairSpec` assumes weak fairness of every thread's steps, of the delivery of PDUs on a
live stream and of each end noticing a failed stream (TCP reports it to `select`).
The deadline of a call is an absolute time, so a call that returns to its wait
again and again still meets it: strong fairness of `FinalTimeout`. Nothing is assumed of
the application, of breaks or of restarts. In `rpc_live` a call therefore returns
because of its deadline in the worst case; `rpc_lost_reply` shows that without it
it need not.

In `ThrPool`, a thread that is not asleep runs, and `select`, which is level-triggered,
reports a connection with unread data again and again. Nobody need delete the
`rpcs`, but a destructor that has begun goes on. Handlers return, and a thread asleep in `send` is
woken as long as its connection is not closed by `closeconn` (`SendEnds`): the client reads its replies, or
the stream breaks and `write_cb` reports it. Nothing is assumed of spurious wake-ups.

In `Connection` the poll thread and every thread that is not asleep are scheduled, a peer that
is up reads what was sent, and one that has closed answers data with a reset, as TCP
does. Nothing is assumed of who sends, closes or breaks. In `CallTimer` the caller is
scheduled and time passes; a reply need not come.

## What is proved

All theorems hold for every value of the constants that satisfies the named assumptions of the
modules, and say what a run checks on its instance. Each rests on an inductive invariant, whose
parts are given below with the reason for which they are there.

### The RPC protocol (`RpcProofs`, `RpcRefinement`)

* `TypeCorrect`: `Spec => []TypeOK`. `xid_rep_window` must be non-empty for its front to
  be an element, so the induction carries that as well; the lemma
  `UpdateXidRepWindow` shows that insertion and compression keep the window
  non-empty and within range.
* `AtMostOnceHolds`: if `Retrans`, `Spec => []AtMostOnce`. `AtMostOnce` alone is not
  inductive. `IInv` adds: every request anywhere in the system is a copy of the
  header its call packed, and acknowledges only older xids (`HeaderInv`, `WindowInv`,
  `CopyInv`); an application call names a server instance, because it follows a bind
  that learnt a nonzero nonce (`BindInv`); and if a call addressed to the running
  instance was executed or is about to be, the server knows its xid - it is in the
  window or below the window's front, which is never emptied (`ExecInv`). A copy that
  arrives later is then INPROGRESS, DONE or FORGOTTEN; one that arrives at another
  instance is refused. `HeaderInv`'s "xid_rep < xid" is what keeps `CheckNew` from
  deleting the entry it has just made, and the window from becoming empty.
* `ReplyKeptHolds`: if `Retrans`, `Spec => []ReplyKept`. The heart is `AckInv`: neither the
  client's window nor a header that was ever packed acknowledges a call that still waits. That
  takes the lemma `UpdateXidRepStops`: the compression of the window stops at the first gap,
  and a call that waits is a gap. `KeepInv` carries it to the server, `NonceInv` says which
  instance is meant.
* `ServiceImplemented`: if `Retrans`, `Spec => ImplementsService`, under the mapping `AppStarted`,
  `AppExecuted`, `AppResult`. `ReplyInv` and `ResultInv` say what an outcome that is in transit, or
  with a caller, tells of the server (`Backed`): "ok" that the handler has run, `oldsrv_failure` that
  the instance meant is gone, `atmostonce_failure` that the handler has not run and never will (`Barred`: the
  instance is gone, or has moved its window past the xid). Every
  step is then a step of `RpcService` or a stutter.

`BoundsAssumption` and `ClientAssumption` say that the bounds are natural numbers and the switches Booleans.
`Retrans` is a client with a nonce. Without one the server keeps no replies, and the argument is
another one:

* `ServiceImplementedOnce`: if not `Retrans` and not `Lossy`, `Spec => ImplementsService`. `OnceInv` says that a
  request is in one place: with its caller before the transmit pass, in transit on one connection, or
  with one thread that is about to run its handler (`OneCopy`). Every step moves at most one request, and
  only to its next place (`Places`): a call that loses its channel is not sent again, since `WaitTimeout` asks
  for `retrans_`. An executed request is in no place any more (`Spent`), and neither is one that the server has refused, for the
  refused copy was the only one (`FinalInv`). `Lossy` must be excluded: the resend of
  `dup_req_` does not look at `retrans_`, and there a handler would run twice.

Both refinements use of their invariant only `ServiceFacts`, and share the proof that every step is a
step of `RpcService` (`StepRefines`).

### The pool (`ThrPoolProofs`)

`PoolTypeCorrect` and `AcceptedHaveRunHolds`, for any number of threads, connections and PDUs and
any capacity, whoever sleeps in `send`. In `PoolInv` an accepted job is in exactly one place: in the queue once,
with one thread, or done (`JobInv`); what a connection may still offer has not been accepted
(`OfferInv`), which is why a refused PDU that is offered again does not run twice; the
pills in the queue are its last elements (`PillsLast`), so that a thread that takes one leaves
no job behind; and the destructor begins when the connections are closed (`DtorInv`).

### Connections (`ConnectionProofs`)

`ConnTypeCorrect`, `PdusStayWhole`, `RemovedStaysQuiet` and `AbortsOnlyInRace`, for any number of
connections, senders and pieces, and thus also for the two connections beyond TLC's reach. The parts of `ConnInv` are agreements
between two threads. Senders and the poll thread: `wpdu` belongs to one sender that is
waiting for it (`OwnerInv`), and the stream ends exactly where that PDU is to go on
(`WireInv`). Remover and poll thread: from `UnwatchFd` on nobody watches the descriptor, and it
is quiet as soon as the poll thread has gone round its loop (`PollInv`, `RemoverInv`); a dead connection that may still be called back
has a thread that is removing it (`DeadInv`).

### Reference counts (`ConnRefsProofs`)

`RefTypeCorrect`, `CountsStayExact`, `NothingUsedAfterFree`, `LocksNeverCycle` and `AllOthersFreed`, for any
number of workers, connections and PDUs. Three facts of `SoundInv` carry them. The count is the sum of
the references in tables and threads (`CountInv`). A connection that is not dead is in `conns_`
(`LiveInv`). While the poll thread is at a dead connection, or may come to it, the
thread that removes its callbacks holds a reference (`RemoverInv`). So the count of a
connection never reaches zero under the poll thread, which is what the locking order rests on: the
thread that waits for `m_` with `ref_m_` held waits for nobody. The rest says
where threads may be and with what (`PlaceInv`, `ListenInv`), that `conss_m_` excludes and the client's entry is
empty while it is exchanged for the first time (`ConssInv`), that a job is queued once
(`JobInv`), and that the zero of a count belongs to one thread (`ZeroInv`). Once a queued job was deleted
(`raced`) only types and `NoLockCycle` remain.

### Marshalling (`MarshallProofs`)

`TypeCorrect`, `NoOverrunHolds`, `FaultIsWrapHolds`, `RefusalIsMismatchHolds` and `ReadsWhatWasWrittenHolds`, for bytes of any size,
buffers of any first capacity that holds a header, any number of arguments and values of any length.
`MarshallAssumption` says this, and that a value is within its type.

The encodings are recursive, and the library's induction theorems cannot be instantiated. But "every
nonempty set of numbers has a least element" (`WFMin`) takes a set, not an operator, and the induction
over a set follows from it (`SetInduction`). With it the recursive functions are shown to exist (`PrimitiveRecursion`)
and to be inverse to one another: `NumberOfBytes` and `BytesOfNumber` say that a number is recovered from its
bytes and bytes from their number.

`Added` is what writing means: the bytes are there, all else is as it was, and the index is within the buffer; that `rawbyte` and
`rawbytes` grow the buffer enough is part of it. `ShiftInAdds` shows it for every type,
`PackHeaderPacks` for the headers in front, and `ShiftOutReads` is the inverse: `operator>>` on bytes that
begin with an encoding returns the value that was encoded. `MarshallInv` follows the call: what is written is the encoding of the
arguments (`WriteInv`), a PDU has them behind its header (`PduInv`), and what has been read is at each
moment the beginning of what was written, equal to it as long as the types agree (`ReadInv`). A reply has
one result, or a negative number and none (`CountInv`). Without the part about differing
types `ReadInv` would not be inductive: that a handler which reads other types gets the bytes that were
sent, or is refused, is what `OkDone` rests on.

### Deadlines (`CallTimerProofs`)

`NeverEarly`, `DeadlineIsBound`, `OnlyFractionsSpin` and `RoundsAreFew`, for every length of a second, of the first round and of
the timeout. `DeadlineInv` says where the final deadline is: in `finaldeadline`, and from the last
round on in `nextdeadline`, the other being cleared. `WholeInv` adds that sums of
whole seconds stay normalised. `RoundInv`, for `RoundsAreFew`, says that a round is `to_min` times a power of two long, and
that the rounds that ended took no less. A power of two is known to the prover only as the
number of subsets of a set, which `PowerOfTwo` turns into the two equations that are needed.

### The disk (`ExtentProofs`)

* `DiskTypeCorrect` and `InodeTableStaysSafe`, for every layout that `LayoutAssumption` admits (the
  file system fits on the disk), whatever the requests, beyond an overflow as well.
  `SystemInv`: the blocks of the file system are marked, and no inode and no word of
  a block on the disk has the number of one of them, so that what an indirect block
  held before does no harm. That `IBLOCK` stays within what the constructor marks is a
  lemma on the two formulas.
* `BlocksNotShared` and `NothingLeaks`, for files shorter than MAXFILE. `OwnInv` treats the direct blocks, the
  indirect block and those it lists alike, as slots that hold a block: until the disk overflows no block is in
  two slots. The heart is the lemma `WriteFileSlots`, on what `write_file` leaves in the slots.
* `StoreImplemented`: under the same assumption `Spec => ImplementsStore`.

`MaxPut < MAXFILE` is needed: `write_file` never writes back the indirect block of a file of
MAXFILE blocks, as `extent_max_file` shows.

### Only model-checked

* Liveness: `CallReturns`, `CancelReturns`, `AcceptedRuns`, `DestructorReturns`, `ReaderCatchesUp`, `SendReturns`,
  `BreakNoticed`, `CallEnds`. Fairness and ENABLED are outside what the prover handles.

## Not modelled

* `rpcs::updatestat`, `diff_timespec`, logging, `method_thread`, `slock` and `verify`: no state that
  a property could be about; scoped locks are the boundaries of the actions. `EPollAIO` is never
  instantiated, `gettime.cc` is a port to another system.
* The destructor of `rpcc` and its `set_reachable`: tests only, with no call in progress.
* `extent_smain`: it is not built at LAB=1, its make target does not link `inode_manager.cc`,
  and it does not register `create`. Here `extent_client` calls its own `extent_server`, in
  one thread, so that the missing locks of the extent server are never put to the test.
* In `ConnRefs`, a `send` that sleeps and spurious wake-ups of `block_remove_fd`; `Connection` has
  both. The `VERIFY`s on descriptors at MAX_POLL_FDS.
* Contents of a partial last block, files longer than MAXFILE (`read_file` runs past the
  indirect block), inode time stamps (never set), and data that happens to be read as
  block numbers.
* The tests (`rpctest`, `lab1_tester`), read for what they expect of the code.

## What is left

Every invariant and every refinement that a passing run checks is also a theorem. What could be added: the interleaving of
`set_reachable` with `got_pdu` beyond the point where `ConnRefs` stops, and a client without a
nonce under RPC_LOSSY, for which `AtMostOnce` does not hold and which nothing in the repository makes.
