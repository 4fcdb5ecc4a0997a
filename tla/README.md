# WanNet: formal model

WanNet is a C++ network library for Windows: an IOCP server (`NetServer`), a
client (`NetClient`) and the lock-free containers and pools under them.  This
directory holds TLA+ models of it, TLC configurations that check them on small
instances, and TLAPS proofs of what has to hold for every size.  Paths below
are relative to `src/WanNet/NetLibrary/` unless they start with `src/`.

Contents: 1. the system. 2. the models. 3. the runs. 4. bounds. 5. fairness.
6. what the violations show. 7. the proofs. 8. what is not modelled. 9. plan.

## 1. The system

### Components

| Component | State | Operations | Uses |
|---|---|---|---|
| **Session protocol** `NetServer/Session.*`, `NetServer.*` | per session: `IoCount` (31-bit count and Release Flag), `ID`, `bDisconnected`, `bDisconnectRegistered`, `bSendFlag`, `SendQueue`, `RegisteredPackets`, socket, two `OVERLAPPED`s; per server: `mUnusedSessionKeys`, `mSessionAcceptedCount`, `mSessionCount` | `SendPacket`, `Disconnect`, `SendAndDisconnect`, `GetSessionIPAddress`; accept thread; IOCP workers; `Init`, `PostRecv`, `PostSend`, `IncrementIoCount`, `DecrementIoCount` | queue, key stack, ring buffer, packet pool, Winsock |
| **Receive path** packet loop of `iocpWorkerThread` | `RecvBuffer`, position in the stream | cut the bytes into packets, check header, length, checksum, call `OnReceive` | ring buffer, `Serializer::decode` |
| **RingBuffer** `NetServer/RingBuffer.h` | `mBuffer`, `mFront`, `mRear` | `Enqueue`, `Dequeue`, `Peek`, `MoveFront`, `MoveRear`, sizes | |
| **LockFreeQueue** `DataStructure/LockFreeQueue.h` | `mHead`, `mTail`, `mID`, `mCount`, nodes | `Enqueue`, `TryDequeue`, `GetCount`, `Clear` | object pool |
| **LockFreeStack** `DataStructure/LockFreeStack.h` | `mTop`, `mID`, `mCount`, nodes | `Push`, `TryPop`, `Clear` | object pool |
| **LockFreeObjectPool** `Memory/LockFreeObjectPool.h` | `mTop`, `mID`, `mSize`, `mCapacity`, nodes | `Alloc`, `Free`, `Clear` | |
| **Serializer** `NetServer/Serializer.h` | buffer, `mSize`, `mDeserialingSize`, `mbSendPrepared`, reference count | reference counting, stream operators, `encode`, `decode`, `prepareSend` | TLS packet pool |
| **TlsObjectPool** `Memory/TlsObjectPool.h` | per thread: `mTop`, `mHalfTop`, `mSize`; manager: chunks under a lock | `Alloc`, `Free`, `PreCreateChunk`, the end of a thread; whole chunks to and from the manager | |
| **Server life cycle** `NetServer.cpp` `Start`, `Shutdown`, the accept, monitor and worker threads | `mbIsRunning`, the listen socket, the completion port, the session list, the keys left over from the last run | start, stop at any moment, start again | all of the server |
| **NetClient** `NetServer/NetClient.*` | `mbIsConnected`, `mSocket`, `mRecvBuffer` | `Connect`, `Disconnect`, `SendPacket`, receive thread | ring buffer, Serializer |
| **Logger** `Logger/` | level, log and monitor file, queue of messages, event | log calls, `ASSERT_LIVE`, `SetLogLevel`, asynchronous writer, end of the process | queue |
| **ConfigReader** `Tool/ConfigReader.h` | a buffer and a position in it | ten overloads of `GetInt` and `GetString` | |
| **DBConnector**, diagnostics | a MySQL handle; none | sequential calls | |

### How they interact

* `accept()` returns in the accept thread, which pops a key, counts a reference
  in, initialises the slot, calls `OnAccept`, posts the first `WSARecv` and
  drops its reference.
* The kernel completes overlapped operations into the completion port; any
  worker takes any completion.  The outstanding operation's reference becomes
  the worker's.  A receive completion runs the packet loop and posts again, a
  send completion frees the packets and calls `PostSend` again.
* An application thread (or a handler that runs on a worker) names a session by
  its 64-bit ID.  It counts a reference in, checks that the slot is still
  the session it means, works, and counts out.
* Whoever takes `IoCount` from 1 to the bare Release Flag closes the socket,
  posts an `OnRelease` notice to the completion port and pushes the key back.

There is no lock anywhere on this path.

### What is hard, and what makes each component correct

* **Session protocol.**  Counting in and releasing race; an ID may be stale;
  completions are taken in any order; a disconnect races the posting of the
  I/O it must cancel; a send is refused after its packets left the queue.
  Correct when: nobody works on a released slot or on another connection's;
  `IoCount` is exact; a key has one owner; the handlers of one ID run in
  order; one receiver and one sender at a time; no packet is leaked or
  freed early; a reset or disconnected session is released.
* **Queue, stack, pool.**  Compare-and-swap on recycled nodes (ABA), helping,
  a count changed apart from the list.  Correct when each
  implements the atomic container its callers see.
* **RingBuffer, receive path.**  Wrap-around at every offset, full against
  empty, packets cut anywhere.  Correct when the bytes and the packets come
  out whole, in order, once.
* **Serializer**: a packet in recycled memory, sent once or again, is encoded
  exactly once, and decodes to what was written into it.
* **NetClient.**  `OnDisconnect` connects again on the receive thread of the
  connection that ended, so two receive threads overlap around one `mSocket`
  and one buffer.  Correct when each closes its own socket, once, one of them at a
  time uses the buffer, and `OnReceive` gets whole packets in order.
* **TlsObjectPool**: a chunk moves between threads whole; a thread that ends
  takes its list with it and nothing else.
* **Life cycle.**  `Shutdown` clears a flag, closes a socket under a blocked `accept`,
  posts one notice for each worker behind whatever is on the port, and waits; any
  thread may be anywhere, the accept thread may not even have begun.  Correct when
  `Shutdown` returns, no worker ends before it, and the next `Start` finds a server
  like new (it does not, see 6).
* **Logger.**  Correct when the writer never sleeps over a queued message, and the
  message of the assertion that ends the process is in the file.
* **ConfigReader**: a line as the header documents it is read whatever else is in
  the file, and whatever is in the memory behind a text that no zero ends.

The list of hazards with their lines is in `PROJECT.json`.

## 2. The models

    SessionService        KeyStack           ObjectPool          FifoQueue
         ^ (refinement)      ^                   ^                   ^ (until a node is recycled, see 6)
    Session  - - uses - -> LockFreeStack     LockFreeObjectPool  LockFreeQueue <- QueueProperties <- QueueProofs
       ^                     \___________________|___________________/
    SessionProperties                      MCContainers  -- TlsObjectPool
       ^
    SessionInvariant                       ServerLifecycle <- LifecycleProofs
       ^                                   Logger <- - LifecycleProofs
    SessionOrder <- SessionProofs          LockFreeObjectPool <- PoolProofs - -> TlsObjectPool
    RingBuffer                             LockFreeStack <- StackProofs
       ^                                   Serializer <- NetClient <- ClientProofs
    Receive <- ReceiveProofs
       ^
    MCReceive <- MCTools  -- Logger, ConfigReader

A dashed arrow is an `INSTANCE`.  `ProofLemmas` is extended by the proof modules of the
session, the receive path, the pools, the stack, the queue and the client.

| Module | Models |
|---|---|
| `Session` | the session protocol, one step per shared access another thread can tell apart |
| `SessionProperties` | its type invariant, safety, refinement, fairness, liveness |
| `SessionInvariant`, `SessionOrder` | `SessionInv` and `OrderInv`, the inductive invariants |
| `SessionService` | abstract: what an application may rely on about IDs and handlers |
| `SessionProofs` | proofs about `Session`, from the first of them and from both |
| `ServerLifecycle`, `LifecycleProofs` | `Start`, `Shutdown`, restart, with the four kinds of threads; proofs about it and about the logger |
| `LockFreeQueue`, `QueueProperties`, `QueueProofs` | the queue, one shared access per step; its properties; the proof of them and of the refinement |
| `FifoQueue` | abstract: a FIFO queue with one-step operations |
| `LockFreeStack`, `KeyStack`, `StackProofs` | the stack of unused keys; abstract stack; the proof that the one implements the other |
| `LockFreeObjectPool`, `ObjectPool`, `PoolProofs` | the pool; abstract pool; the proof that the one implements the other, and proofs about `TlsObjectPool` |
| `TlsObjectPool` | the packet pool: lists of threads, chunks of the manager |
| `RingBuffer` | the byte buffer |
| `Receive`, `ReceiveProofs` | the receive path of one session, on top of `RingBuffer`; proofs about both |
| `Serializer` | the packet: payload, header, `encode`, `decode`, `prepareSend` |
| `NetClient`, `ClientProofs` | the client: `Connect`, `Disconnect`, `SendPacket`, the receive threads; proofs about it and about the codec |
| `Logger` | every way to log, the level, the assertion, the writer thread |
| `ConfigReader` | the scan for a name and the conversion of its value |
| `ProofLemmas` | lemmas about sequences, counting and recursive functions that several proofs need |
| `MCSession`, `MCLifecycle`, `MCQueue`, `MCReceive`, `MCClient` | instances for TLC |
| `MCContainers`, `MCTools` | several parts in one run: `running` says which of them a behaviour is about, the others stay in their initial state. They share nothing, so this checks each as a run of its own would. |

Operators whose comment begins with *Mutant:* are deliberately wrong variants
of the definition that follows them.  They are used to show that each property can fail.

### Session

The state of a slot is a function from `Keys`.  `IoCount` is split into
`ioCount` and `releaseFlag`: the code never carries between them.  Thread-local
state is `pc` (labels name the place in the code: `inc` to `chk_id` are the
checks at the head of every API call, `ps_*` is `PostSend`, `pr_*` is
`PostRecv`, `dec_*` and `rel_*` are `DecrementIoCount`), `ses` and `arg` (the
slot and the ID the call was given), and `refs`, how much of the count this
thread owes.  `issued` and `released` record what the application has been told.

Three points where the abstraction matters:

* *Handlers.*  `OnAccept`, `OnReceive`, `OnRelease` are the application's.
  What they may do to sessions is call the API, and such a call differs
  from one of an application thread only in that its thread holds one more
  reference meanwhile.  The model lets `AppThreads` call at those moments.
* *The send queue* is atomic here (a sequence).  Section 6 says where the
  code's queue differs.  The key stack is a set: which unused key is popped
  does not matter to the protocol.
* *The kernel* is external: an operation posted on a live connection stays
  pending or fails at once, a pending one completes when the peer acts, when the
  connection is reset, or when `CancelIoEx` meets it.  A completion may
  already be there when `WSARecv`/`WSASend` returns.

`Init` is the state `Start` leaves when the memory of `new Session[]` is fresh.
`Session` has no constructor for `IoCount`, so a restart on recycled memory is
outside of the model (see 8).

### ServerLifecycle

The same server from the other side: all the threads, and of a session only its
slot, its ID and its posted receive.  `main`, `accept`, `monitor` and `worker`
name the place of each thread in the code (`accept = "call"` lies between the
test of `mbIsRunning` and `accept()`, `"accept"` is the blocked call).  The port
is the sequence `mIOCP` of completed receives and notices; a notice is an ID, and
the zero ID ends a worker.  A listen socket has a number for each `Start` and
goes through `none, made, bound, listening, closed`; `BindSocket` fails while another
socket of this process has the port.  `mUnusedSessionKeys` is a sequence here, since
what `Shutdown` leaves on it matters; `live[k]` is the set of connections that own
slot `k`, which should never have two members.

* A thread that is created and has not run yet is one whose first step is late.
* `Release` is what `DecrementIoCount` does at the end; who gets there,
  and that it is one thread only, is `Session`'s subject.  Here the reference of
  a slot is in one of four places: the accept thread, the posted receive, the
  packet on the port, the worker that handles it.  Sends are left out.
* Every call of the system whose failure the code answers with an assertion or with
  `CrashDump::Crash` may fail (`SystemError`): those of `Start` and of the set-up of the listen
  socket, `accept` for whatever reason, the options of a new connection, its registration on the
  port, `GetQueuedCompletionStatus`.  The process ends then, also one whose server runs.  `crashed` keeps
  such a cause (`"system"`) apart from the other one, a call on a listen socket that the
  program itself has left in the wrong state (`"socket"`): only the latter depends on how the
  threads interleave, and `CrashHasCause` speaks of it alone.
* After `crashed`, or once a slot is shared (`Broken`), the behaviour ends: what two
  connections do to one slot is not modelled.
* The statistics the monitor thread prints each second, and the deletion of the
  thread handles, are left out.

### Queue, stack, pool

Each models the pointer as the code stores it: an address and the ID taken from
a shared counter when the pointer was made; the compare-and-swap
compares both, except the one on `Next` in `Enqueue`, which compares with a plain
`nullptr`.  Reading a node another thread owns by now is modelled as what it
is: a read of whatever is in the recycled memory, since the pools never give
memory back to the heap while the container is in use.

`LockFreeQueue` and `LockFreeStack` take nodes from an atomic pool: that is
sound because `LockFreeObjectPool` implements `ObjectPool`
(`PoolImplementsPool`).  Likewise `Session` may use an atomic key stack because
`LockFreeStack` implements `KeyStack` (`StackImplementsStack`).  In the refinements
the abstract step is the successful compare-and-swap.  A `TryPop` that finds
nothing and an `Alloc` that makes a new node are steps too.  `Clear` of the pool
is modelled where its comment allows it: when nobody is in another call.

### TlsObjectPool

The lists are thread-local, so a call is one step, except that a chunk is made
between the section under the lock and the counting.  Lists are kept as links
(`Next`, `mTop`, `mHalfTop`), since what can go wrong is the place of the cut.
`EndThread` drops the list of a thread (`lost`): the class has no destructor that
gives it back, and every receive thread of a `NetClient` ends.

### RingBuffer and Receive

A byte is its position in the stream, so the buffer is right when 1, 2, 3, ...
comes out.  A direct writer (the receive path) may write all that `GetDirectEnqueueSize`
offers, which may be all that is free: `filled` remembers that one has.  The buffer then
counts as empty, and nothing holds of its contents but that positions stay in range.  So
`BytesKept`, `PeekIsOldest`, `DirectWriteIsSafe` and `PacketsWhole` say what holds until then, and
`UseSizeIsUnread` (run `recv_full`) says what the code would have to keep and does not.

`Receive` EXTENDS the buffer and calls what the code calls (`Enqueue` is called by
nobody in the library; it is proved, not run).  A stream belongs to a *deployment*: its packets, the
largest payload the server accepts, and `lead`, the number of bytes the peer is ahead of
the server at most.  A `lead` below the capacity is a peer that never fills the buffer, one that is
not is a peer that may.  It is sequential because `OneReceiver`
of the session model holds.  A packet is its header; where the bytes at
`mFront` are not the start of a packet the loop reads an arbitrary header
(`AnyHeader`), and a checksum over such bytes may be right by chance: nothing
is assumed about garbage.

### Serializer and NetClient

`Serializer` computes what the code computes, over bytes of `ByteValues` values: the
checksum, the header and the two chains of exclusive-ors (`encode`, `decode`).
The operator `^` is a constant, the table `ExclusiveOr`: `MCClient` gives it the
exclusive-or of two-bit bytes, computed bit by bit, and the proofs use one law of
it, that it undoes itself (`XorAssumption`).
`Length` is not cut: it has 16 bits and a packet at most 1000 bytes.

`NetClient` has the main thread and one receive thread for each `Connect`.  A
thread's `pc` names the place in the code (`check`, `socket`, `connect`,
`begin`, `connected` are `Connect`; `recv`, `wait`, `loop`, `OnReceive`,
`lost`, `close` are `recvThread`).  `socket` is the argument a pending `recv` was
called with, or `socketBackup`.  Reads of `mSocket` and `mbIsConnected` are steps
of their own where another thread may change them in between.

The application is external: like `EchoDummy` it calls `Connect` once on its
main thread and afterwards only in `OnDisconnect`, until it succeeds.  Two
threads that call `Connect` at once are outside of the model.
The server is the TCP peer: its packets are cut into pieces, of which a `recv` returns any number
that `GetDirectEnqueueSize` allows, and a connection may end at any piece; the bytes on their way
are then received or lost.  `mRecvBuffer` has `BufferSize` cells, one for a piece: `mRear` and the
number of pieces determine what may be received in one go, whether there is room left when a
packet is not complete (an assertion), and whether a `recv` has filled the buffer, which then counts as
empty (`filled`).  After a connection that ended inside a packet the
buffer starts with the pieces that were left (the code does not clear it), the
header the loop reads is arbitrary, and the assertions on `Code` and `decode`
may fail (`crashed`).

### Logger and ConfigReader

In `Logger` a message is the number of the call that made it, its level is
compared where the code compares it, and a file is the sequence of
what was written.  A `WriteFile` may fail (`fails`).  `LogFormat` writes its text and
the line break in two steps.  The queue is a first-in first-out queue (`FifoQueue`).
`Exit` is `main` returning, which waits for nobody; `raiseCrash` is `ASSERT_LIVE`.

`ConfigReader` scans characters.  The buffer is as long as the file has bytes, so
text of `WCHAR`s leaves half of it as it was in memory, and text mode makes one
character of a carriage return and a line feed; the model puts any of
`Leftovers` there, and lets the conversion at the very end of the buffer read on.

## 3. The runs

| Run | Question | Properties |
|---|---|---|
| `session_reuse` | one slot serves two connections; two workers take their completions in any order, an application thread sends and disconnects with new and stale IDs | `TypeOK`, `CountIsHolders`, `NoUseAfterRelease`, `FrozenWhileReleased`, `OneReceiver`, `HandlersInOrder`, `KeyHasOneOwner`, `OneSender`, `PacketAccounting`, `NoCrash`, `ImplementsService` |
| `session_live` | does a reset or disconnected session end? | `ResetIsReleased`, `DisconnectReleases` |
| `server_lifecycle` | start, stop at any moment, start again, with two workers and two slots, and any call of the system failing at any time | `TypeOK`, `NoticesSuffice`, `WorkersServe`, `CrashHasCause`, `ShutdownReturns` |
| `containers` | the queue (two consumers with one producer, or with two producers that help each other), the stack (three threads, two keys, nodes recycled), the object pool (two threads, `Clear`), the thread-local pool (two threads, chunks change hands, one ends) | `TypesOK`, `NothingLost`, `CountersAgree`, `TailInList`, `ChunksWhole`, `QueueImplementsFifo`, `StackImplementsStack`, `PoolImplementsPool` |
| `tools` | receive path: six streams cut anywhere (packets of many sizes with a bad checksum near the end, a length above the maximum, a wrong code, a packet longer than the buffer), each from a peer that fills the buffer or one that does not; logger: two threads, the writer, files that fail; configuration reader: every text of up to three lines | `TypesOK`, `BytesKept`, `PeekIsOldest`, `DirectWriteIsSafe`, `PacketsWhole`, `PacketsHandled`, `NoLostWakeup`, `AssertIsLogged`, `ReadsWhatIsWritten` |
| `client_reconnect` | the client sends, disconnects, loses its connection at any point and connects again from `OnDisconnect` | `TypeOK`, `WireDecodes`, `ReceivesWhole`, `ClosesItsSocket`, `OneReceiver` |
| `send_and_disconnect`, `send_stranded`, `queue_order`, `recv_full`, `server_restart`, `client_cut` | see 6 | violated |

All runs but the client's check for deadlock.  A terminating state (every bound used up, a peer that
has no more to send, a process that has ended) stutters explicitly and nothing else may stop.  The client really
stops when its only `Connect` fails, when an assertion ends the process, or when
it waits for a server that says nothing.

## 4. Bounds, and why they are enough

* `MaxAccept = 2` on one key is the smallest instance in which a slot is
  reused and an ID is stale.  Slots share nothing but the stack of keys, the two counters
  and the port; the theorem about `SessionInv` covers any number of them.
* `MaxCalls = 2` with one application thread in `session_reuse`: a call on a stale ID meets
  the workers and the accept thread, and one call follows another.  Calls that
  overlap are covered by `send_stranded` (two threads, three calls) and by
  `SessionInv`, proved for any number of threads.  A queue longer than a batch
  (`MaxWsaBuf = 1`) does not occur in `session_reuse`.
* `Packets`: two may be in flight at once, one of them stored in the session.
* `session_reuse` leaves out `GetSessionIPAddress`, which changes nothing (it is in
  `session_live`, and `UseIsSafe` covers it).
* `TagCount` is larger than the number of IDs an instance can take from the counter, so
  the 16-bit ID does not wrap in any run; its wrap is a hazard listed and not
  covered.
* Queue: `Quotas` bounds the calls.  A stalled consumer meets a recycled node
  with one producer and three enqueues.  With two producers and one enqueue each
  no node is recycled under a stalled `Enqueue`: `NoNodeReused` separates what the
  queue keeps from the finding of `queue_order`, which needs five enqueues.
* Stack: the ABA its ID prevents needs three threads (one stalled in `TryPop`,
  two others to pop and push in the opposite order); with two, a stack
  without IDs passes.
* Ring: capacity 7 with a header of 2 has every relation of `mFront`, `mRear`, a
  length and the end of the buffer; the longest stream goes round four times.  The two longest streams
  come twice, from a peer with a `lead` of 7 and from one with 6, which never fills the buffer, so that
  `filled` does not excuse everything.
* Pool of threads: chunks of 2 (500 in the code) and two of them; a list may grow
  past a chunk, shrink and grow again before it is cut, and the other thread
  takes what was cut off.
* Client: two sockets are one reconnection, the least in which two receive threads
  meet; two calls of `SendPacket` or `Disconnect`.  Bytes of two bits keep the sums and
  the exclusive-ors of the codec wrapping within a payload of two bytes; `rand()`
  gives one key (the proofs cover all), and contents include a full packet.  A buffer of five cells holds a
  packet of three and part of the next, is filled by the six pieces of a connection, and makes
  `GetDirectEnqueueSize` stop at its end; in `client_cut` it has nine, which these six cannot fill.
* Life cycle: two starts are one restart.  `server_lifecycle` has two accepts in each
  run, so that the keys `Start` has just pushed suffice and it gets past
  the restart; with a third (`server_restart`) the keys of the run before are reached.
  Two workers can leave a notice to each other and end in any order.  The proofs
  cover any number of all of these.  `MaxAccepts < IdCount`: the count of accepts
  does not wrap.
* Logger: two threads and three calls are enough for a message that is queued while
  the writer is between its test of the queue and its wait, and for an assertion
  while the other thread logs.  Three of the five levels.
* ConfigReader: two names of which one begins with the other, lines in which a name is
  part of a longer word, the last line with and without its end, and four kinds
  of left-over memory, one of which looks like a line for the name.
* `SYMMETRY` is used in runs that check safety only.

Each property has at least one mutant of a mapped definition, listed in `PROJECT.json`,
that makes its run fail under the same bounds.

## 5. Fairness

`FairSpec` of the session assumes: every thread in the middle of its work goes
on (weak fairness of `ThreadStep`: the scheduler; no thread of this path waits
on a lock); a completion or notice in the completion port is taken at last
(strong fairness over the workers together, since a worker may be busy whenever
it is looked at, but the port is a queue and a worker always comes back to it);
the kernel fails the pending operations of a connection that was reset (weak).
Nothing is assumed of the peer, of `accept`, of successful completions or of the
application's calls, whose number is bounded: calls that overlap without end could keep
`IoCount` above one, a hazard that is listed (`Session.cpp:57`) and that no property covers.

`tools` assumes of the receive path that the loop goes on and that bytes that were
sent arrive; of the other two parts nothing.

`FairSpec` of the life cycle: each of the accept thread, the monitor thread and every
worker goes on (weak fairness), and so does `Shutdown` once it was called.  Nobody
has to call `Start` or `Shutdown`, to connect or to send, and no call of the system has to fail.  Weak fairness of a worker
is enough although several take from one port: a packet there can be taken by
whichever worker waits, the notices are as many as the workers, and a worker that
comes back to its loop while `Shutdown` waits sees `mbIsRunning` and ends.

## 6. What the violations show

1. **`send_stranded`** (`Session.cpp:150`).  A thread in `PostSend` reads the
   queue's count as 0 while it holds `bSendFlag`; a second thread enqueues,
   finds the flag set and returns; the first drops the flag and leaves.
   The packet stays queued until somebody sends again on this session.
2. **`send_and_disconnect`** (`NetServer.cpp:201`, `Session.cpp:145`).
   `SendAndDisconnect` registers the disconnect before it calls `PostSend`, which
   refuses to send on such a session; and it cancels no I/O.  With a silent peer the
   packet is not sent and the session lives on.
3. **`queue_order`** (`LockFreeQueue.h:49`).  `Enqueue` tests only that `Next` of
   the node it took for the tail is `nullptr`.  If the thread stalls between reading
   `mTail` and the compare-and-swap, that node may have been dequeued, freed and
   allocated by another `Enqueue` that has not linked it yet; the stalled
   thread appends to a node that is not in the list.  When that node is linked
   later, the two values come out in the wrong order, even with respect to one thread.
4. **`recv_full`** (`RingBuffer.h:30`).  The length offered to `WSARecv` may be all of the
   free bytes; when the peer fills it, `mRear` meets `mFront` and the full
   buffer counts as empty: `GetUseSize` is 0 with every byte unread (`UseSizeIsUnread`).
5. **`server_restart`** (`NetServer.cpp:48`).  `Shutdown` deletes the sessions and leaves the
   keys that were not in use on `mUnusedSessionKeys`; the next `Start` pushes all of
   them again.  Once enough connections are accepted a key is popped a second
   time while its slot is live, and `Init` runs on a session in use.
6. **`client_cut`** (`NetClient.cpp:85`).  The receive thread leaves the bytes of a packet that the end of the
   connection has cut in `mRecvBuffer`, and the next `Connect` does not clear it: the first bytes of
   the new connection are taken for the rest of that packet (or, where its header was cut, of that
   header), and the assertion on `decode` (or on `Code`) ends the client.

The third concerns the queue that `Session` takes for atomic.  It does not
disturb the properties of `Session` about counts, flags and owners, which
never look at the order of the queue; `OneSender` and `PacketAccounting` hold for a
queue that works.

## 7. What is proved

The eight modules with theorems are checked by TLAPS to the last leaf.  The assumptions are the
`ASSUME`s of `Session`, `RingBuffer`, `ServerLifecycle`, `LockFreeQueue`, `Serializer` and `NetClient`: finite sets
of keys and threads that do not overlap, positive bounds, fewer accepts than IDs, the law of
exclusive-or, and for the client that the server's packets fit into a packet.  TLC evaluates
them in every run of a module that extends them.  What a theorem needs beyond is a hypothesis
that its statement shows:

* `LoggerConstants`, `PoolConstants`, `StackConstants`: the same sort of facts about the constants of
  the logger, the pools and the stack.
* `[]TagsTellApart` (`PoolInvariant`, `PoolRefined`): no `Free` is about to push the very pointer,
  ID included, that a stalled `Alloc` has read.  `TagsTellPointersApart` proves it from
  `MaxFrees < TagCount`, fewer frees than IDs; past that the code relies on no call stalling
  for a multiple of 65536 frees.  `StackInvariant` and `StackRefined` have the same hypothesis
  about `Push` and `TryPop`; `IdsTellPointersApart` proves it from
  `MaxPushes + Cardinality(Threads) <= TagCount`.  The run `containers` has 3 + 3 <= 6.
* `[]Undisturbed` (`QueueInvariant`, `QueueRefined`, `QueueHolds`, `QueueInOrder`): `TagsTellApart`
  as above, about the pointer an `Enqueue` is about to append, and `AppendsToList`: the node a
  producer appends to is in the list.  The first follows from the second while there are fewer calls of
  `Enqueue` than IDs (`IdsTellPointersApart`).  The second is what the code does not ensure:
  `queue_order` is a behaviour in which it fails, and the order with it.  The theorems say that this
  is all that can go wrong.  `OneProducerUndisturbed` proves both from `Producers = {p}` and fewer
  calls than IDs, so the theorems `OneProducer...` have no hypothesis about behaviours.

**`SessionProofs`**, for any number of keys, workers, application threads,
packets, connections and calls:

* `SessionInvariant`: `Spec => []SessionInv`.
* `TypeCorrect`, `CountCorrect` (`CountIsHolders`), `UseIsSafe`
  (`NoUseAfterRelease`), `NeverCrashes` (`NoCrash`) and `ReceiverIsAlone`
  (`OneReceiver`) follow from it.

`NoUseAfterRelease` alone is not inductive: that a thread past its checks
is safe rests on the count.  The argument is: (i) how many references a
thread holds follows from where it is (`RefsByLabel`); (ii) `IoCount` is the
number of holders (`CountIsHolders`), so a thread that holds one keeps the
count above zero and the compare-and-swap from 1 to the flag fails for everybody else;
(iii) hence the flag is clear while anybody holds a reference taken under
a clear flag (`FlagMeansReleased`); (iv) `bDisconnected` is then
false for whoever passed the check (`DisconnectedMeansClosed`), the ID cannot
change under it (`IdMatches`, `IdIsKnown`) because only the accept thread
writes it and only on a key it owns (`OneOwner`); (v) the receive and send sides
are in one place (`RecvOwned`, `SendOwned`), which is what the handling of the
flags and of the two `OVERLAPPED`s needs.  The step proof has one lemma per action,
and the counting argument (adding or removing one holder) is a lemma of its own.

**Order, keys and packets.**  Over the same constants `SessionProofs` adds a second inductive invariant,
`OrderInv` of module `SessionOrder`, which is inductive only together with `SessionInv`
(`OrderInvariant`).  From it follow `SenderIsAlone` (`OneSender`), `KeysAreKept`
(`KeyHasOneOwner`), `HandlerOrder` (`HandlersInOrder`) and `Refinement`: `Session`
implements `SessionService` (`ImplementsService`).

* *Handlers.*  An ID is live from `OnAccept` to the post of its notice, and the slot named by
  its high half carries it all that time (`LiveSlots`).  For this the ID made by `AcceptPop`
  must be new (`FreshIDs`), and nobody but the accept thread may work on a slot between
  `bDisconnected = false` and `OnAccept` (`SetupAlone`): a caller with an old ID is stopped at
  `chk_id`, the last check, because no ID the application has is the one being set up.
* *Sends.*  `bSendFlag` gives one sender (`SendOwned`); that `PostSend` starts from an empty
  array is `RegisteredInv`: the array is empty whenever the flag is down on an open session,
  since the completion empties it before it drops the flag, and `Init` empties what a failed
  send left.
* *Keys.*  `OwnedKeys`: a slot with its flag set, or with a count of zero that no
  thread is about to take back, is on the stack, being set up or being released.
* *Refinement.*  `OnAccept`, the post of the notice and `OnRelease` map to `Accept`, `Close` and
  `Release`; every other step leaves the three sets alone (`SilentThreadStep`).

The lemmas take the actions in groups, one step for each conjunct of `OrderInv`.
Two more results rest on both invariants:

* `ReleasedIsFrozen` (`FrozenWhileReleased`), an action property: a step of a thread that changes
  a slot or posts on it needs a reference or the slot's key, and by `SessionInv` a thread that
  has one sees the flag clear or is the accept thread that clears it.
* `PacketsAccounted` (`PacketAccounting`): with the fact that an idle thread has no packet the
  equation is inductive.  It counts two sets of threads and places, so each action has
  to say which element leaves which set and enters which; that the places of
  a packet in a queue change by one at `Enqueue`, and do not when the head of `SendQueue` moves
  to the end of `RegisteredPackets`, are the lemmas on `Occurrences` in `ProofLemmas`.

**`ReceiveProofs`**, for every capacity, stream and sequence of calls, those that fill the buffer
included: what the properties say holds until then is proved until then, and the sizes and positions
stay in their ranges afterwards too.  About the buffer alone: `RingInvariant`, `RingTyped`, `RingKeepsBytes`, `RingPeeksOldest`,
`RingLendsFreeMemory`.  The invariant states the contents by cell (a cell at
distance `d` behind `mFront`, `d` smaller than the use size, holds byte `read + d + 1`)
instead of by position modulo the capacity; the lemma `ByCellsByBytes` shows
the two are the same.  That form keeps the remainder out of the step proofs.
About the packet loop on top of it: `ReceiveInvariant`, and from it `PacketsAreWhole`
(`PacketsWhole`), `ReceiveKeepsBytes` (`BytesKept`) and `ReceiveTyped` (`TypeOK`).  Every step of the
loop is a call of the buffer or leaves it alone, so the buffer's step lemmas are used again;
what is new is that the place in the stream from which the loop reads is where a packet of the
stream begins as long as no bad one has been met, so that the header it peeks at is that
packet's and the payload it takes ends where the next one begins.

**`PoolProofs`**, for any number of threads, objects and calls: `PoolInvariant`, `PoolRefined`
(the pool implements `ObjectPool`), `TagsTellPointersApart`, and from these
`PoolImplementsObjectPool`, `PoolCountsItself` (`CountsItself`) and `PoolTyped` (`TypeOK`).

* The invariant says that *there is* a list of pointers under `mTop`, joined by `Next`, of objects
  that are neither in use nor on their way back.  The refinement mapping reads the abstract
  free list by walking from `mTop`; that the walk finds that very list is the lemma
  `ListWalk` of `ProofLemmas`, and what pushing and popping do to it `ListPush` and `ListPop`.
* An `Alloc` that has read `mTop` and `Next` and stalls is harmless as long as it
  fails or what it read still holds.  The compare-and-swap succeeds only if `mTop` is the pointer
  it read, ID included; `NextStillTrue` says that a pointer that is in the list still has the
  `Next` that was read through it.  The one step that could break this is the push of that
  same pointer, which is what `TagsTellApart` excludes.
* `IdsFresh`: every ID in a pointer that anybody holds or that is stored anywhere is at most
  `mID`, hence the next one is new while there are fewer frees than IDs; and nobody
  else has the pointer that a `Free` is about to push.

**`StackProofs`**, for any number of threads, keys, nodes and calls: `StackInvariant`, `StackRefined`
(the stack implements `KeyStack`), `IdsTellPointersApart`, and from these `StackImplementsKeyStack`,
`StackConservesNodes` (`NodesConserved`: each node that was made is in one place) and `StackTyped` (`TypeOK`).

* The argument begins as the pool's does: there is a list of pointers under `mTop`
  (`ListWalk`, `ListPush`, `ListPop` again), and `NextStillTrue` for the stalled `TryPop`.
* What is new is that two kinds of things go round, the nodes and the keys in them, and
  that a node leaves the list in one step and its key is read from it in a later one.  `Apart` says of
  a set of things, those that are spare, those that calls have and those in a row
  that no thing is in two places; the invariant states it once for nodes and once for
  keys, and its four lemmas (`ApartTake`, `ApartGive`, `ApartPush`, `ApartPop`) are the only
  ways in which a step moves one.
* A key that a call has popped but not returned yet counts as handed over at the
  compare-and-swap; that the node still holds it when the call reads it is part of the invariant.
* `Apart` says that no node is in two places.  That none is lost follows by counting (`NodesAreSomewhere`): the
  nodes of the list, of the pool and of the calls are as many as were made (`Counted`).
* `IdsLeft`: the guard that bounds the calls of `Push` looks at `mID`, which a call changes only
  at `Fill`, so calls that began together may pass `MaxPushes` by the number of
  threads: hence that number in the bound.

**`PoolProofs`, the thread-local pool**, for any number of threads and chunks of any size: `TlsInvariant`,
and from it `TlsTypes` (`TypeOK`), `TlsChunksWhole` (`ChunksWhole`) and `TlsObjectsConserved`
(`ObjectsConserved`).

* What has to hold is that cutting a list at `mHalfTop` leaves one chunk below, through any
  sequence of `Alloc`s and `Free`s.  The invariant gives each object a place (with a caller,
  in the list of a thread, in a chunk of the manager, lost) and a position in its list
  counted *from the end*: so it stays where it is while others come and go above it, and
  `mHalfTop` of a list above one chunk is the object at position `ChunkSize`.
* A list is a `Chain`: its objects have the positions from one to its size, and `Next` leads to the
  position below.  Five lemmas say what the pool does to one (`ChainPop`, `ChainPush`, `ChainCut`,
  `ChainRename` when a list becomes a chunk or a chunk a list, `ChainMake`), `ChainWalk` that
  following `Next` from its top meets those objects, `ChainFull` and `ChainFits` how many there are.

**`QueueProofs`**, for any number of producers, consumers and calls: `QueueInvariant`, and from it
`QueueRefined` (the queue implements `FifoQueue`, the property `QueueImplementsFifo` of the run
`containers`), `QueueHolds` (`TypeOK`, `TailInList`, `CountIsLength`, `NodesConserved`), and with a
second invariant `QueueInOrder` (`InOrder`).

* There is a list `q` of pointers from `mHead` on, joined by `Next`, and every node is spare, in the hands of
  one call, or in it (`Placed`, with `Apart` as for the stack).  An `Enqueue` appends to `q` at its
  compare-and-swap on `Next`, a `TryDequeue` takes its first pointer at the one on `mHead`; every other
  step writes neither `mHead` nor the `Next` of a node in `q` (`ListAppend`, `ListPop`).
* `mTail` is somewhere in `q` (`TailIn`).  That it stays there is the hard part: the two
  compare-and-swaps on it come from calls that read it long ago, and `TryDequeue` moves `mHead`
  past nodes.  A pointer that was read of `mTail` is not further on in `q` than `mTail`, and one that was read of
  `mHead` is not behind the first: so once it has moved the pointer does not come back, the compare-and-swap of a
  stalled call fails, and while it has not moved what the call read after it is true (`TailsTrue`, `HeadsTrue`).
  The one step that could bring such a pointer back is the append of it, which `TagsTellApart`
  excludes.  And `TryDequeue` does not take the node under `mTail`: its compare-and-swap succeeds
  only if `mHead` has not moved since it was seen to differ from `mTail`, and `mTail` goes forward only.
* `AppendsToList` is needed at one place: `Link` compares `Next` with `nullptr`, with no ID,
  so that the node under a stalled producer is the last of `q` follows only if it is in `q`.
* `Counted`: `mCount` is the length but for the calls that have changed the list and not the
  counter yet; hence `CountIsLength` when nobody is inside a call.
* The order: the serial numbers of one producer rise along the row of what was taken and
  what is in the list, and what it is still bringing comes after (`OrderInv`).
* One producer: it finds `mTail` at the last node whenever it reads it, since nobody else appends or moves
  `mTail`, and its `Enqueue` goes through at the first attempt, so that it
  never meets the finding, however many consumers recycle nodes meanwhile.  This is the
  case of a session that is sent to from its own `OnReceive` only, which one worker at a time calls (`OneReceiver`).

**`LifecycleProofs`**, for any number of workers, slots, accepts and restarts:
`LifecycleInvariant`, and from it `LifecycleTypes` (`TypeOK`), `ServerKeepsWorkers`
(`WorkersServe`), `EachWorkerHasNotice` (`NoticesSuffice`) and `CrashIsExplained`
(`CrashHasCause`).  None of these is inductive by itself.

* That a worker ends only for a notice of `Shutdown` needs that no other notice
  is zero, hence that a released slot has an ID (`IDsInv`: the number of an accept, at
  least one), hence that the slot is live when it is released, hence that it
  can be released from one place only (`SlotInv`: the accept thread, the posted
  receive, one packet on the port, or one worker).
* That the notices suffice is a count: `posted` is at most the notices on the port plus
  the workers that have ended (`NoticeInv`), each step that takes a notice ends a
  worker, and ended workers and blocked ones are disjoint subsets of `Workers`.
  The lemma `CountTaken` does the counting when the port moves up.
* That the listen socket is in the wrong state only for a known cause rests on where it can be for each
  place of the accept thread (`SocketInv`): while the server runs it is never closed, and `accept()` on
  it fails for reasons of the system alone.
* A second owner of a slot has another ID than the first (`SecondOwner`), so the step
  that gives a slot away twice ends the behaviour and the invariant need not
  speak of what follows.

**`LifecycleProofs`, the logger**, for any number of threads, messages and calls: `LoggerInvariant`, and
from it `WriterWakes` (`NoLostWakeup`) and `AssertionIsLogged` (`AssertIsLogged`).  The
event and the queue say together that nothing is lost: a message in the queue
finds the event set, the writer awake, or the thread that put it there still on its way to
`SetEvent`.  That an assertion's message is in the log before the crash
needs to know what the thread carries from its call to `raiseCrash` (`MessageInv`, `CrashInv`).

**`ClientProofs`**, for any number of connections, calls, packets of the server and byte values:

* *The codec.*  `DecodeUndoesEncode`: `decoded(encode(p)) = p` for every packet.  A chain of
  `encode` is a recursive function; that such a function exists and satisfies its equation is
  proved once, by its least counterexample (`RecursionExists` of `ProofLemmas`; the
  induction theorems of the library take an operator as a parameter, which the provers cannot
  instantiate).  Then each byte that `Unchain` makes is the one `Chain` was given, by
  `XorAssumption`, since both add the same byte before it.  In the same way the checksum of a
  packet depends on its payload only.
* *The inductive invariant* has four parts, shown one after the other.  `ControlInv`: one
  thread is *active* (it connects or receives) at any time, and each thread that has stopped
  receiving has a socket of its own that is down and not closed.  From it follow
  `BufferHasOneUser` (`OneReceiver`) and `SocketsClosedOnce` (`ClosesItsSocket`), neither of
  which is inductive: that `CloseSocket` closes another socket than the one that
  the new thread receives from needs to know which socket `recv` was last called with, at every
  step of the `Connect` in between.  `DataTypes` gives `ClientTyped` (`TypeOK`).
  `WireInv` says what the main thread's packet stands for, before it is prepared and
  after, and gives `RequestsDecode` (`WireDecodes`).
* `StreamInv` gives `RepliesArriveWhole` (`ReceivesWhole`).  It says of the active thread that
  what it has handed to `OnReceive`, the packet being read, the buffer and what is on
  its way are, in this order, all pieces of the connection; that the buffer is empty
  whenever no connection is open; and that no assertion has failed.  All of it holds as long as no
  connection has ended inside a packet (`leftover`) and no `recv` has filled the buffer (`filled`).  The
  code ensures neither, as `client_cut` and `recv_full` show; the theorem says that nothing else
  can go wrong.  That `mRear` and the number of pieces stay in the buffer holds in any case.

**Only model-checked.**

* All liveness (`ResetIsReleased`, `DisconnectReleases`, `ShutdownReturns`, `PacketsHandled`): out of
  the prover's reach.
* The queue with several producers, where nothing but the instance shows that `AppendsToList`
  holds: `containers` bounds the calls so that no node is recycled under a stalled `Enqueue`
  and finds `QueueImplementsFifo` and the queue's part of the other properties true.
* The configuration reader (`ReadsWhatIsWritten`).  What the scan reads is compared with the lines
  of a text that `FlattenSeq` joins, a fold over data of any length, which is out of reach.

`TypesOK`, `NothingLost`, `CountersAgree`, `ChunksWhole`, `NoLostWakeup` and `AssertIsLogged` of the runs
`containers` and `tools` join properties of several parts or take them over from one.  The theorems
state the parts: all of them are proved but `ConfigReader`'s in `TypesOK`, and the queue's
under its hypotheses.

## 8. What is not modelled

* The life cycle and the session protocol are two models, not one: `ServerLifecycle` has no
  sends and no application threads, `Session` no `Shutdown`.  That `Shutdown` deletes
  sessions which application threads may still use, and under which receives
  are posted, has no outcome to state a property about.  Nor has `new Session[]`
  on recycled memory, which sets neither `IoCount` nor `RegisteredPacketCount`.
  (The constructor of `NetServer` sets no member either; the echo
  server's object is static, hence zeroed.)
* The 32-bit wrap of the accept count and the 16-bit wrap of the pointers' IDs.
* The statistics of the monitor thread.
* Two threads that send one unprepared packet at once.  In `Receive`, `decode`
  is its outcome.
* In `NetClient`: a failing `_beginthreadex`, and the number of a closed handle given to
  another socket.  That `Connect` refuses for ever when `mbIsConnected` is set late
  is in the model and in no property.
* The header type LAN, which the build does not select; the blocks of the debug build.
* `Logger`: the text of a line, the console, the making of the files.  The messages still in
  the queue when `main` returns are lost (`Exit`), which nothing in the code promises otherwise.
  `writeToFile` takes the result of `WriteFile` the wrong way round (`Logger.cpp:201`): the model prints the
  file error after each success and after no failure, as the code does (`reported`); no property is about it.
* `DBConnector`: nothing in the repository uses it.  Each method is one call of the MySQL C
  API, and what it does is decided there.
* `ObjectPool.h` chooses a pool at compile time.  `Profiler` is compiled out
  (`PROFILE_ON` is not defined) and keeps one table for each thread.  `OverflowChecker`,
  `CrashDump`, `CpuUsageMonitor` and most of `NetUtils` are diagnostics and wrappers of one
  Windows call each.
* The MySQL headers under `DBConnector/` are third-party declarations.  They are about
  9 000 of the 14 000 lines of C++ in the repository and have no behaviour to model.
* Memory order: every shared access of the containers and of `IoCount` that the
  models take in program order is an `Interlocked` operation or a plain access
  on x64 compiled in place.

## 9. Plan

1. Proofs: from which behaviours of the callers `AppendsToList` follows with several producers
   (that no node is freed while a producer that has it for the tail is stalled, say).
2. `NetClient`: the reconnection that the late `mbIsConnected` prevents.
3. A liveness run for `TryDequeue`, which retries while `mHead = mTail` and `mCount` is
   not 0, after the stall of `queue_order`.
