# Verification of the message broker

TLA+ modules, TLC configurations and TLAPS proofs for `projeto-so-2022-23`: a
broker that keeps message boxes (`mbroker`), three client programs (`pub`, `sub`,
`manager`), the producer-consumer queue between the broker's main thread and its
workers, and a small in-memory file system (TecnicoFS) that is linked into the
broker. Paths below are relative to `src/projeto-so-2022-23/`.

Contents: [the system](#the-system), [plan](#plan), [modules](#modules-and-the-code),
[runs](#runs), [fairness](#fairness), [proofs](#proofs),
[what the checks found](#what-the-checks-found),
[what is not modelled](#what-is-not-modelled).

## The system

```
 pub, sub, manager --request--> register FIFO --> main --pcq_enqueue--> queue
      ^                                                                   | pcq_dequeue
      |  own FIFO (named in the request)                                  v
      +-------------------------------------------------------------- worker 1..max_sessions
                                                                          |
                                     msg_boxes, box files  <--------------+
```

| component | state | operations | talks to |
|---|---|---|---|
| queue (`producer-consumer/`) | ring buffer, element count, head, tail; one mutex for each of the three; two condition variables | create, enqueue, dequeue, destroy | main enqueues, workers dequeue |
| broker, front end (`mbroker.c` main, worker_main) | register FIFO, the queue, `max_sessions` threads | read a request, enqueue it, dequeue it, open the client's FIFO, serve, close; SIGINT | clients through FIFOs |
| broker, boxes (`mbroker.c` handlers) | linked list of boxes; per box: name, publishers, subscribers, size, a file, the descriptor publishers write to, a mutex and a condition variable; `messages_lock` | register publisher, register subscriber, create, remove, list; SIGINT | workers share the boxes, files outlive the process |
| manager, publisher, subscriber | where the program is; its FIFO and the name of it; SIGINT handler | register, mkfifo, open, unlink, talk, leave | the front end, then one worker |
| protocol (`protocol/`) | none | sizes and layouts of packets | all programs |
| utilities (`utils/`) | none, but `vector` | scoped locks, assertions, logging, vector | all programs |
| TecnicoFS (`fs/`) | inodes, blocks, directory, open file table, one library mutex | open, close, read, write, unlink | nobody: the broker never calls it |

What is hard in each, and what makes it correct:

* **Queue.** Three mutexes and two condition variables, none of which guards both
  indices and the count. The wait conditions read head and tail under the count's
  mutex although they are written under others; signals are sent without the mutex
  of the condition variable. Correct means: an element put in comes out once and in
  order, a full queue is not overwritten, an empty one yields nothing, nobody sleeps
  for good while there is work.
* **Boxes.** A counter of a box is written under `messages_lock` when a session
  begins and under the box's `wait_mutex` when it ends; a removal frees the box on
  the strength of these counters. Subscribers read the file without a lock and sleep
  on a condition variable. The file of a box survives the broker. Correct means: one
  publisher per box, one box per name, no session on a freed box, every subscriber is
  sent what was published, in order, once, and eventually.
* **Front end and clients.** Two processes must open the two ends of a FIFO found by
  its name, and the request travels through a queue meanwhile: the client may have
  been interrupted, its FIFO may not exist yet, or another client may use the name.
  Correct means: a worker serves the client that asked, a manager gets its answer,
  and no worker waits for a client that does not come.
* **Conversations and listings.** A FIFO holds a bounded number of packets, and a write
  to a full one waits for a reader that its user may have suspended. A listing writes
  with `messages_lock` held. Programs leave with packets in their FIFOs, or see the end
  of a FIFO that still holds some. Correct means: what is typed is printed, once, in
  order and to the end; a listing is one state of the list; nobody waits for a stranger.
* **TecnicoFS.** Sequential under a library mutex, but entries, inodes, blocks and
  handles refer to one another, an unlink does not look whether the file is open, and
  fields keep stale values. Correct means: directory and inodes agree after every
  sequence of calls, no block has two owners, none is lost, a handle stays in its file.

The full list of hazards, each with the line where it bites and the properties that
cover it, is `hazards` in `PROJECT.json`.

## Plan

In order of importance. All modules exist, and all theorems are proved.

| step | modules | abstract specification | theorems |
|---|---|---|---|
| 1 | `ProducerConsumer` | `BoundedQueue` | types; counter and indices; no element twice; for one producer and one consumer: no empty slot handed out, no element overwritten, refinement |
| 2 | `MessageBox` | `MessageLog` (with a failing disk) | types; every safety property; refinement |
| 3 | `Registration` | `Rendezvous` | types; whom a worker serves; what a manager leaves with; refinement |
| 4 | `TecnicoFS`, `TecnicoFSData` | `FileStore` | types; directory, blocks, offsets, lost blocks; refinement |
| 5 | `Vector`, `Listing`, `Conversation` | `MessageLog` again, for what appears on the screens | types; a listing is a snapshot; every line is sent; refinement |

The safety properties of all passing runs, the refinements among them, are theorems;
liveness is model-checked only (see [proofs](#proofs)).

`Conversation` takes a box at the promise `MessageBox` is checked against, and composes
the programs, their sessions and the listings of `Listing` through FIFOs and
`messages_lock`.
`Registration` has the ring itself, with one step per critical section, so that what the
`pcq_*` runs show of the real queue with several workers happens to its requests: they
are kept, lost, or handed out as NULL, which ends a worker. `MessageBox` starts where a
client's FIFO has been opened: the two compose through "a worker is serving a client
of this kind", which is the only thing they share.

## Modules and the code

### ProducerConsumer, BoundedQueue

`ProducerConsumer` is `producer-consumer.c` at the granularity of every access
another thread can observe. Fields of `pc_queue_t` are variables (`size`, `head`,
`tail`, `buffer`, and a holder for each mutex); `pc[t]` is where a thread is in its
call.

| action | code |
|---|---|
| `LockSize` | `SCOPED_LOCK(pcq_current_size_lock)`, and the relock when a wait returns |
| `LoadHead`, `LoadTail` | the two loads of a wait condition, in either order, under the wrong mutex |
| `CallWait`, `Sleep`, `SpuriousWakeup` | `pthread_cond_wait`: condition true; release and join the wait set at once; return |
| `Reserve`, `Store`, `AdvanceHead`, `SignalPopper` | the rest of `pcq_enqueue` |
| `Claim`, `Fetch`, `ClearSlot`, `AdvanceTail`, `SignalPusher` | the rest of `pcq_dequeue` |

The loads are sequentially consistent: the data race is modelled as an
interleaving of loads and stores, not as the weaker outcomes C allows.
A slot nobody has written holds `Garbage` (malloc), an emptied one `NULL`.

`BoundedQueue` is the promise of the header comments: put at one end while there is
space, take from the other while there is an element. `ImplementsQueue` is the
refinement: an enqueue takes effect when it advances the head, a dequeue when it
reads the slot.

### MessageBox, MessageLog

`MessageBox` is the state the handlers of `mbroker.c` share, one action per stretch
of a handler that no other thread can split. Workers are given by what they may take
(`PubWorkers`, `SubWorkers`, `ManWorkers`, `RemWorkers`, which may overlap), so an
instance can aim at one kind of race.

| action | code |
|---|---|
| `RegisterPub`, `WriteMessage`, `ShortWrite`, `CountMessage`, `EndOfPipe`, `LeavePub` | `handle_packet_register_pub`: register, append to the file, count under `wait_mutex` and broadcast, end of file, decrement |
| `RegisterSub`, `StoreSubscribers` | the load and the store of `subscribers++` in `handle_packet_register_sub` |
| `TestSize`, `SpuriousWakeup`, `Forward` | the wait on `size`, and the read of the file with the write to the client |
| `SubscriberGone`, `LeaveSub`, `DecrementSubscribers` | a failed write, and the load and store of `subscribers--` |
| `Unlock` | the release of a scoped lock at the end of a handler, a step after the last write |
| `CreateBox`, `RemoveBox`, `ListBoxes`, `ListEntry` | the manager's requests; a list is one write per entry with `messages_lock` held |
| `Interrupt`, `Restart` | SIGINT ends the process and leaves the files; a new run starts with an empty list |

A packet in a file is two halves, so that a write that is cut short (`DiskFull`)
can be told from a whole one. In a list only the writes and the lock appear here; what
they say is `Listing`. `CountRange` stands for 2^64. A box is named by its
creation, so a box created again under an old name is another box; `box[w]` is
the pointer the session of `w` holds, and a session on a removed box is a use of
freed memory.

`MessageLog` is what a box promises: a log that only grows and subscribers that hear
it from its beginning, in order, message by message. A box can be damaged, which
is what a short write does; of what was published before, everything is still promised.

### Vector, Listing, Conversation

`Vector` is `vector.c` as operators on a record. `Listing` is `manager list` and the
handler that answers it, from the opens on, with a FIFO of `PipeSize` packets between
them. `Conversation` extends it with the loops of `pub.c` and `sub.c` and the sessions
that serve them.

| action | code |
|---|---|
| `StartList`, `WriteBox`, `Write` | `handle_packet_list_msg_box`: the lock, one packet per box, a write that waits while the FIFO is full and fails when its reader is gone |
| `PushPacket`, `ReadPacket`, `ServerDisconnected`, `InterruptManager` | the loop of `execute_command_list`: the new packet goes into the vector and is then read; end of file; `EINTR` |
| `ChangeBoxes` | creations and removals by other workers, when `messages_lock` is free |
| `Suspend` | ctrl-Z: a program that does not read |
| `TypeLine`, `EndInput` | the user of a publisher |
| `ReadLine`, `EndOfInput`, `WriteLine`, `InterruptPub` | the loop of `pub.c`: `fgets`, the test of `feof` before the write, the write with SIGPIPE, SIGINT |
| `RegisterPub`, `Receive`, `EndOfPipe` | the worker of a publisher |
| `RegisterSub`, `Forward`, `SubscriberGone` | the worker of a subscriber: read the file, write to the FIFO, and a write that fails |
| `PrintMessage`, `Disconnect`, `InterruptSub` | the loop of `sub.c` |
| `StopBroker` | SIGINT to the broker: every FIFO is closed, what is in one can still be read |

`Sorted` is `qsort`, which promises an order that agrees with the comparison (`Orders`):
it is one order unless two names are the same.
Names are numbers in the order of `strcmp`, and 0 is the empty name, which the code
accepts for a box and also uses to say that there are none. `snapshot` is a history
variable: the list when a handler took the lock.

### Registration

`Registration` is `pub.c`, `sub.c` and `manager.c` from their start to their exit,
and `main`, the queue, `worker_main` and the opens and closes of the handlers on the
other side. A client is one run of a program and sends one request, so requests are
named by their sender. Workers are interchangeable and hold one request at a time, so
they are told apart by it: `srv[r]` is how far the worker of request `r` is, `end[r]`
the FIFO it opens or has open; those inside `pcq_dequeue` (`claims`) and those that were
handed NULL (`exited`) are counted.

| action | code |
|---|---|
| `Start`, `Register`, `MakeFifo`, `OpenFifo`, `Unlink` | the clients' steps, in the order of `Program`: a manager creates its FIFO and then asks (`manager.c:91`, `:128`), publisher and subscriber ask and then create it (`pub.c:57`, `:65`; `sub.c:62`, `:69`) |
| `EndOfInput`, `EndOfPipe` | the ways a client leaves: its user, its answer, a packet it cannot take, or the end of the pipe |
| `Interrupt` | SIGINT: the first one makes a blocking open or read return and is lost anywhere else; the second one kills |
| `Reserve`, `Store` | main's loop: it reads a request, waits for space and counts it; it stores it |
| `Claim`, `Dequeue` | `pcq_dequeue` of a worker: it uncounts a request; it takes what the slot holds, a request or NULL, on which the worker exits (`mbroker.c:126`) |
| `OpenPipe` | a worker's open: no FIFO, the request is dropped; somebody in or blocked at the other end, and the opens return together; otherwise the worker blocks |
| `Answer`, `Forward`, `EndOfSession`, `CloseSession` | what the sessions write, and their ends |
| `Stop` | SIGINT to the broker |

A FIFO is named by the client that made it and a path name leads to one or none: a
name can be used again by another client, and a worker may wait on a FIFO that has
lost its name. The kernel does not care who is at the other end of a FIFO. A publisher's
handler opens to read (`mbroker.c:170`), the others to write (`:209`, `:255`, `:284`,
`:327`), so `OpenFifo` and `OpenPipe` let an open return with whoever opens the other
end (`Opposite`, `At`): client and worker, or two workers, when a request has outlived
its sender. Then one worker's answer is in the FIFO for the other worker or for the client,
whoever reads first: `pipe[c]` is what the next read of the FIFO of `c` gets, an
`"answer"` of a manager's handler or any `"other"` packet or part of one, and is
emptied when nobody has the FIFO any more. SIGINT behaves as System V `signal` does, because the programs are
compiled with `-std=c17 -D_POSIX_C_SOURCE=200809L`: calls are not restarted and the
handler is reset after one signal.

The queue's steps within a critical section, its locks and its lost signals are
`ProducerConsumer`; here a `Claim` need never happen, which is what a lost signal does. A
slot nobody has written holds NULL: what else `malloc` leaves there ends the broker
when a worker follows it, as `Stop` does at any moment.

`Rendezvous` is what the opens promise: clients and workers get in at a FIFO that is
then open at both ends, be it by two workers; a request is served once at most.

### TecnicoFS, TecnicoFSData

`TecnicoFS` is `operations.c` over the tables of `state.c`. Every operation holds
`g_library_mutex` from its first line to every one of its returns, so one operation is
one step, and any number of threads is covered. The allocation tables are the sets
of what is taken; of the blocks only the root's has a content, which is the directory. Arguments, modes included, are chosen freely.

| action | code |
|---|---|
| `tfs_init`, `tfs_destroy` | `state_init` with the creation of the root, `state_destroy` |
| `OpenFile`, `CreateFile` | `tfs_open` of a name that is found (truncation, offset), and of one that is not |
| `tfs_close`, `tfs_write`, `tfs_read`, `tfs_unlink` | the functions of these names |

Helpers carry the names of `state.c`'s functions (`FindInDir`, `ClearDirEntry`,
`AddDirEntry`, `DeleteInode`, `AddToOpenFileTable`, ...). `First` is their common
search from 0 upwards. Names in the directory's memory are arbitrary after
`tfs_init`: `malloc` may return what a file system destroyed earlier has left, and
`clear_dir_entry` reads the names of unused entries. Sizes are `size_t`: a
difference below zero is nearly 2^64, which a read cuts to `len` and a write passes to
`memcpy`, which faults (`"aborted"`, like a failed assertion). `stale` is a history
variable: the open handles whose file was unlinked, or truncated below their offset.

`TecnicoFSData` adds the bytes in the blocks: every step of `DataNext` is a step of
`TecnicoFS`, with `WriteData` for the `memcpy` of `tfs_write`. A byte is the inode of
the file it was meant for, which is what tells a byte in the wrong file or place; what
is in a block of no file, or was never written, is `Garbage`.

`FileStore` is the promise of `operations.h`: files are sequences of bytes and handles
cursors in them (`FileOf`, `ContentOf` and `CursorOf` are the mapping). Nothing is promised of a handle in `stale`, but that it harms one file
at most.

## Runs

| run | instance | shows |
|---|---|---|
| `pcq_spsc` | 1 producer, 1 consumer, 2 slots, 5 elements | types, the inductive invariant `SpscInv`, no empty slot handed out, no element overwritten, refinement of `BoundedQueue` |
| `pcq_workers` | 1 producer, 2 consumers, 2 slots, 4 elements | with the broker's shape: counter and indices agree (`RingMatchesCount`), no element comes out twice, every enqueue returns |
| `pcq_dequeue_empty` | 1, 2, 2 slots, 2 elements | finding: a dequeue returns an unwritten slot |
| `pcq_consumer_asleep` | 1, 1, 2 slots, 3 elements | finding: the consumer sleeps on a queue with an element |
| `mb_delivery` | 2 publishers, 2 subscribers, 1 box, 3 messages, 5 requests | refinement of `MessageLog`, and every subscriber catches up |
| `mb_sessions` | 2 publishers, one of which also removes, 1 subscriber, 1 manager, 2 names, 3 boxes, 2 messages, a disk that fills up, 6 requests, 1 restart | one publisher per box, which its counter counts, one box per name, no dangling session, size never ahead of the file; `MessageLog` although the disk is full, boxes are removed and created again and files of an earlier run lie on the disk |
| `mb_destroy_locked` | 1 publisher, 1 subscriber, 1 manager | finding: a removal destroys a locked mutex |
| `mb_use_after_free` | 1 publisher, 2 subscribers, 1 manager | finding: a removal frees a box that serves a subscriber |
| `registration` | a publisher, a subscriber and two managers of one pipe name, 2 workers and 2 slots, SIGINT to the subscriber, to one manager and to the broker | whom workers serve, what managers leave with, managers whose request was taken return, a ready client is connected, but for the stray requests the properties name; refinement of `Rendezvous`, a stop of the broker reaches the clients |
| `tecnicofs` | 3 names and one too long, 2 directory entries, 2 handles, 2 blocks of size 2 for files | directory and inodes agree, blocks have one owner, handles stay in their file and no block is lost unless a file was unlinked or truncated while open; refinement of `FileStore` |
| `conversation` | 1 publisher, 1 subscriber, 1 list, FIFOs of 1 packet, 2 lines per user, lists of 0 and 3 boxes that change once, 1 interruption or suspension, SIGINT to the broker | a listing is one state of the list; every line is sent; screens refine `MessageLog`; lines are published and printed, listings end, `messages_lock` comes free, leavers are noticed, subscribers end with the broker |
| `tfs_read_past_end` | as `tecnicofs` | finding: a read past the end of a file that was truncated |

Bounds. Two slots are the smallest ring in which head and tail differ; five elements
let both indices wrap twice, so every pair of positions occurs with every state of
the calls. Two consumers are enough for each of the queue's races, which are
between one consumer and one other. Three boxes under one name let a box be removed
and created again twice, and two names let a publisher be in one box while another is
removed; three messages (`mb_delivery`) let a subscriber be behind, even and ahead
of the test, and two (`mb_sessions`) let a message follow a damaged one; `CountRange` 8 is more than the sessions there can be, so a counter
above the number of workers is a wrap. In `registration` all clients have one name, the hardest case: clients of
other names share with them the queue and the workers only. All kinds of program use the
name one after the other, in every order. It takes three of them for a stray request to
meet a client that followed no interrupted one: the first is interrupted, the second is
served by the first one's request and leaves its own behind, which meets the third. The
interrupted ones ask before they make their FIFO (the subscriber) and after (a manager);
they leave a request, or a FIFO when a second SIGINT, the last, kills them. Two workers with
requests of opposite kinds do meet, at the FIFO of a client that has not opened it yet and
at one whose client was killed, and both can be handed NULL, after which no request is
taken any more; two slots and four requests let main store over one. In `tecnicofs` the directory, the handles and the
blocks all run out, and a stale handle can meet a free inode, an inode used again and
a block used again; `MaxOffset` 3 is one beyond a block, which a wrapped read can
reach; `DataNext` leaves out modes that ask nothing of the file at hand. In
`conversation` one packet fills a FIFO, so every writer waits for its reader; a list of
three boxes out of order, one with the empty name, sorts, and makes a vector of capacity
1 grow twice or, with a box added, reach `VectorLimit` and panic in the middle of an
answer; `Churn` allows the box with the empty name to be removed, so the last entry can
be any. With one fault a subscriber or a manager can be suspended, or any program
interrupted. The theorems lift the bounds of the properties they state.

`mb_sessions` gives one worker to subscribers, so that the two halves of a
`subscribers--` and a registration never overlap: when they do, an update of the
counter is lost and `NoDanglingBox` fails, which is what `mb_use_after_free` shows with two.
So nothing is claimed of `subscribers` itself. A removal may meet
a locked mutex there, as in `mb_destroy_locked`; the process then ends and may be
restarted. The run shows that the counters protect the boxes but for these two
findings.

## Fairness

* `ProducerConsumer`: a runnable thread runs (weak fairness), and a thread that asks
  for a mutex that is free again and again gets it (strong fairness on the lock
  steps): no mutex is held across a call that blocks, other than the wait that
  releases it. Nothing is assumed of spurious wakeups, so no property holds because
  of one.
* `MessageBox`: a worker that can go on without its client goes on (weak fairness).
  Clients need not send, leave or read, and no wakeup is spurious by assumption.
* `TecnicoFS`: none; it is a library, and promises nothing unless it is called.
* `Registration`: clients, and workers that have a request, take the next step they can
  take (weak fairness). Nothing is assumed of the queue: main need not enqueue and no worker
  need dequeue, since a signal can be lost (`pcq_consumer_asleep`) and a NULL ends a worker
  (`pcq_dequeue_empty`). So `ManagersReturn` and `ReadyClientConnects` speak of a request a
  worker has taken; that one is taken at all, the code does not promise. Nobody need start, type, leave or press a key, and a subscriber that has
  left need not be noticed, since that takes a message.
* `Conversation`: workers are scheduled, and so are programs that are not suspended
  (weak fairness: a write waits for its own reader, and `messages_lock` is contended for
  by the bounded number of requests an instance has). Users need not type, read on after
  ctrl-Z, or interrupt, and the broker need not stop.

## Proofs

Checked by TLAPS for every value of the constants.

* `ProducerConsumerProofs`, for any number of threads and slots: `TypeCorrect`,
  `CountMatches`, `NeverTwice`. `TypeOK` is not inductive: what a producer stores is
  an element only because a producer in a call has not used up its supply. `BaseInv`
  adds that and which steps belong to whom (`CallInv`), and that a thread holds a mutex
  exactly in the stretch it locks (`LockInv`). `RingMatchesCount` is inductive with
  these, once the sets of calls in flight are known to be finite (`CountsInv`).
  `PlacesInv` says where an element can be: in one slot (`OneSlot`); taken, and in a
  slot, only of the slot its consumer is about to clear with the tail's lock
  (`SlotOrOut`); and nowhere before its producer stores it (`Fresh`).
* `SpscProofs`: `DequeueSafe` and `EnqueueSafe`: with one producer, one consumer and
  at least two slots, for any capacity and any number of elements, a dequeue never
  returns an empty slot and an enqueue never overwrites an element. The invariant is
  `SpscInv`: the used slots are those from the tail on, as many as the counter says
  once calls in flight are accounted for (`CountInv`); an index loaded in a test may
  be stale only where the thread's own call or the other one's cannot be fooled
  by it (`SeenInv`); exactly the used slots hold elements (`SlotInv`). `RingInvariant`
  is that invariant as the run checks it. `RingIsQueue` is the refinement of
  `BoundedQueue`: `View` is the elements from the tail on without the one that is being
  taken, and a step appends to it, takes its head or leaves it. The ring's
  arithmetic is in the lemmas on `Slot` and `Offset`, which replace `%` in the
  invariant because the provers do not reason about a variable modulus.
* `MessageBoxProofs`, for any number of workers, names and boxes, restarts and short
  writes: `TypeCorrect` and `NamesAreUnique`. `BaseInv` says which session is where and
  holds which lock (`ControlInv`), that the list is in the order of creation without a
  name twice (`ListInv`), and that offsets stay in the files (`FileInv`).
* `SessionProofs`: `OnePublisher` for any number of workers: `PubInv` ties the counter
  of a box to the one session that has not given it back yet. `NoUseAfterFree` and
  `CountedIsWritten` hold where one worker serves subscribers, so that the counter of a box
  is right (`SubInv`), or none removes boxes: then a box with a session stays on the list
  (`Pinned`), its `size` is within what
  has been written (`CountedInv`) and its readers are behind `size` (`ReadInv`). The
  hypothesis is needed: see `mb_use_after_free`.
* `MessageLogProofs`: `BoxIsLog`, the refinement of `MessageLog`, under the same
  hypothesis. Logged messages are different (`UniqueInv`), `size` is the length of the
  log and the publishers' offset its end while the box is undamaged (`OffsetInv`), the
  file holds what is still promised of the log (`ContentInv`), and a subscriber's offset
  is the end of what it was sent (`HeardInv`).
* `RegistrationProofs`, for any number of clients, pipe names, workers and slots:
  `TypeCorrect`, `SenderServed`, `ManagersAnswered`, `RendezvousImplemented`. At the
  heart of `IInv` is `StrayEnds`: a worker is at a FIFO that its request's sender has
  not made only if that sender has gone or is about to fail at its mkfifo, and a client of
  the name was interrupted before (`LeftBehind`); so two workers meet only there, and
  `SenderServed` needs no word about who completed the open. It rests on `Strays` (a
  request outlives its sender only so) and on `ClientInv`, which follows a name from one
  client to the next: who made its FIFO (`Creator`), who uses it (`OneAtATime`), and when it
  is left (`Killed`). `Backlog` says that a request is at one place, in the register pipe,
  with main or in one slot, whatever the ring overwrites or hands out as NULL, and
  `Capacity` counts the workers. `Attended` says what a manager inside its FIFO can
  still expect, a worker that will answer or an answer in the pipe, unless a stray request
  came between. The two opens have a lemma each on whom they meet (`ClientMeets`,
  `WorkerMeets`). With three clients of a name a stray request is handed on, and forms of
  these properties that speak of the client before alone are false.
* `TecnicoFSProofs`: for tables, blocks and directories of any size, all the
  properties of the run `tecnicofs`. `DirectoryCorrect` needs `DirInv`, whose part
  `NameBelowFree` is the reason the code works: no unused entry below a used one has
  its name, whatever memory held, because `add_dir_entry` takes the first unused
  entry; hence `clear_dir_entry` clears what `tfs_unlink` looked up
  (`ClearsWhatItFound`). `BlocksCorrect` and `OffsetsCorrect` build on it: an
  operation frees a block of an inode the directory calls taken. `BlocksKept` is an
  action property.
  `DataImplementsTables`: every behaviour of `TecnicoFSData`, which adds the bytes and
  restricts the arguments, is one of `TecnicoFS`; hence `DataTablesCorrect`, the three
  invariants for the specification the run checks. `FileStoreImplemented` is the
  refinement of `FileStore`: `StoreInv` collects these invariants, with the types of the
  bytes and that no handle leads to the root (`NoneToRoot`). Because files with content
  have blocks of their own, a write changes the file whose block it is and no other
  (`OtherFiles`), which for a handle that is not stale is the file it was opened in.
* `ConversationProofs`, for any number of programs, boxes, lines and packets in a FIFO:
  `TypeCorrect`; `ListingsAreSnapshots` (the packets read, those in the FIFO and those
  still to come are the list the handler found: `PacketsInv`); `LinesSent` (a
  publisher's lines are in the box, in its FIFO or still to be read, in order:
  `LogInv`, `CompleteInv`); `ScreensAreLog`, the refinement of `MessageLog` by
  what is printed (`ScreenInv`).

Assumptions. Constants are what the code's are: numbers of workers, slots and
boxes, sets of names; special values are not ordinary ones (`ThreadAssumption`,
`CapacityAssumption`, `ValueAssumption`, `BoxAssumption`, `RegistrationAssumption`,
`VectorAssumption`, `ListingAssumption`, `ConversationAssumption`, `ParamsAssumption`,
`NameAssumption`). Two of them choose the states looked at: the lists `Listing`
begins with have no name twice, which is `NamesAreUnique` of `MessageBox`, and in
`Conversation` the boxes with a session are not among those removed, which is what
`NoUseAfterFree` says where it holds.
Hypotheses of theorems, which cannot be dropped: in `SpscProofs` the single producer and
consumer and `Capacity >= 2` (with two consumers, or one slot, the statements
are false: `pcq_dequeue_empty` for the first; `StoreIntoFreeSlot` fails on the same
instance with more elements); in `SessionProofs` and `MessageLogProofs` one worker
for subscribers or no removals (`mb_use_after_free`). They cut the broker to a
configuration in which it is correct: `max_sessions` workers of which one takes
from the queue at a time, or a broker whose boxes are never removed.

Model-checked only: liveness (`ProducersReturn`, `SubscribersCatchUp`,
`ManagersReturn`, `ReadyClientConnects`, `StopReachesClients`, and in `conversation` all
that is under `PROPERTIES` but `ScreensImplementLog`), which TLAPS does not reason about under
fairness. The properties of the five runs that expect a violation are false.

## What the checks found

Five disagreements between the code and what its texts say; each has a run, and
`findings` in `PROJECT.json` quotes the texts.

1. Two workers in `pcq_dequeue` can be handed an unwritten or emptied slot; NULL
   ends a worker thread for good (`pcq_dequeue_empty`). The same race lets
   `pcq_enqueue` overwrite an element, which loses a request.
2. The signal of an enqueue can be lost, and a consumer sleeps with an element in the
   queue until the next enqueue (`pcq_consumer_asleep`).
3. A removal between the last statement of a session and its unlock destroys a
   locked mutex, and the assertion ends the broker (`mb_destroy_locked`).
4. `subscribers++` and `subscribers--` run under different mutexes; a lost update
   lets a box be freed under a subscriber (`mb_use_after_free`).
5. `tfs_read` through a handle whose file another `tfs_open` has truncated reads past
   the end of the file (`tfs_read_past_end`).

A smaller one without a run: a removal refused because of a subscriber says the box
has a publisher (`mbroker.c:295`, `:311`). Two more that follow from a line of code and
no text rules out, and that properties name as exceptions: `manager list` says "NO BOXES
FOUND" when the last box has the empty name (`manager.c:257`); a last line without a
newline is read by `pub` and not sent (`pub.c:88`).

Behaviours that no text of the repository rules out, and that the models contain: a
publisher or subscriber asks before its FIFO exists and can be dropped, after which
it blocks in open for ever; a request whose sender was interrupted is served to the
next client of the same pipe name, whose own request is then handed on in its turn, and a
manager that gets a subscriber's session in this way waits for an answer for ever; such a
request and that client's own, one to read and one to write, complete each other's open
without the client, which then waits in open for ever, or loses its answer to the other
worker; once NULL has ended all workers, every request stays in the queue; a
client killed at the wrong moment keeps a worker
for ever and its pipe name unusable; a short write to a box file shifts every later
message of the box; a manager suspended in a long listing keeps `messages_lock`, and
with it every registration, creation and removal, until it goes on; in TecnicoFS a handle that outlives its file reads and writes what
the next file is given, loses a block if the file was empty, or aborts the process.

## What is not modelled

* Of TecnicoFS: a second `tfs_init`, which replaces the sizes of
  the tables before it fails; failing `malloc`; `tfs_destroy` during a call of another
  thread, which it does not exclude. The links and the copy that `operations.h` declares
  have no definition.
* `vector_destory`, which frees a vector when its user returns.
* `pcq_destroy`: called by the test alone, after every thread has been joined.
* Failing system calls that end a program by an assertion (start-up, malloc), and
  a corrupt register FIFO, on which main stops by `PANIC`.
* The layouts and sizes of packets and the formatting of listings; box sizes and counters
  in a listing. A packet is shorter than `PIPE_BUF`, so a write of one is atomic. Lines
  longer than a packet, which `fgets` splits into several.
* The capacity of FIFOs in `MessageBox` and `Registration`; `Conversation` has it.
* The arguments a program refuses before it does anything.
* Weak memory: see `ProducerConsumer` above.
