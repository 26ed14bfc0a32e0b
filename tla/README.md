# toy-queue: specifications, model checks and proofs

toy-queue is a C library for passing telemetry frames between processes
through a ring in POSIX shared memory, with the synchronization library it
can be built on and two small programs that exercise it. This directory holds
TLA+ specifications of it, the TLC runs that check them, and TLAPS proofs.

## The system

| Component | Source | State | Operations |
|---|---|---|---|
| Telemetry ring | `queue.c`, `queue.h`, `queue_internal.h` | indices `head`, `tail`, `last_tail`; counters `head_seq`, `tail_seq`, `last_tail_seq`; slots of header and payload; `write_mutex`, `read_mutex`, `read_cond`, `write_cond` | `queue_put`; `queue_pop` + `queue_push`; `queue_get`; `queue_get_last` |
| Life of the segment | `queue.c` | the named segment, `entries`, `readers`, per process mappings | `queue_init`, `queue_open`, `queue_close`, `queue_destroy` |
| Sizing of the ring | `queue.c` 62-75 | none (pure) | power-of-two and page rounding in `size_t` |
| Programs | `test.c` (targets `test`, `client`, `client2`) | loop counters, `go` | publisher loop, consumer loop, shutdown on `entries == 0` |
| First version of the queue | `first_test/queue.c` | byte indices, one mutex, `readable`, `writeable` | `queue_put`, `queue_get` (both block) |
| Futex mutex and condition variable | `mutex.h`, `mutex.c`, two versions | futex words | lock, timed lock, unlock, trylock, wait, timed wait, signal, broadcast |
| `darc_condwait` | `mutex.h` | a value to wait on, three variants | wait, wait-if-value, signal, broadcast, set value |
| Barriers | `mutex.h` | counters | `pool_barrier`, `fast_barrier`, `ticket_barrier` |
| `spincond` | `mutex.h` | ticket pair | wait, timed wait, signal, broadcast ("under construction") |
| `client.c` | `client.c` | - | calls `queue_get` with a signature that no longer exists; no Makefile target builds it |

How they interact. Processes share one `shared_t` and the slots after it. The
publisher side (`queue_put`, or `queue_pop` then `queue_push`) and the
real-time consumer (`queue_get`) exclude each other with `write_mutex`; the
telemetry consumer (`queue_get_last`) takes `read_mutex`, which publishers
take too, nested inside `write_mutex`, when they may have to drop the oldest
message. `queue_get` sleeps on `read_cond` (with `write_mutex`),
`queue_get_last` on `write_cond` (with `read_mutex`); both give up two seconds
after they were called and return 0. `write_cond` is also what
`queue_destroy` sleeps on until `readers` is 0. The pthread primitives are the
default (`POSIXMUTEX` in `mutex.h`); the futex ones can replace them.

The first version of the queue, in `first_test/`, is a program of its own with
its own copy of the mutex library, built with `OPTMUTEX`. The barriers and
`darc_condwait` are used by no program of the repository; they are a library.

What is hard about it: two mutexes for one pair of indices; `tail` read by
`queue_get_last` under the wrong one; signals sent without the mutex of the
waiter; a slot that the publisher fills with no lock held; pointers into the
ring handed to consumers after the lock is gone; indices that only grow and
`size_t` differences between them; two publishing protocols (put, pop/push)
that keep `tail` and `last_tail` in different ways; and, around it, processes
that open, die and close at any time. PROJECT.json lists the hazards at their
lines with the properties that look for them.

What makes each part correct:

* ring: nobody writes to a slot that is still to be read; the real-time
  consumer gets the newest message or nothing; the telemetry consumer gets
  the unread messages in order, each flagged exactly if the real-time consumer
  missed it; nobody sleeps over a message; every call returns;
* life of the segment: `readers` counts the attached clients; resources are
  released only after the last of them is gone, and released in the end;
* sizing: the ring is a power of two no smaller than asked for and each slot
  holds header and payload, or the request is refused;
* first queue: a bounded FIFO that loses and duplicates nothing, and whose
  calls return once they can;
* mutexes and condition variables: mutual exclusion; no lost wakeup; a
  condition wait is atomic with the release of the mutex;
* barriers: no thread leaves before all of its group have arrived, in every
  round; nobody is left asleep; destruction waits for those on their way out.

## Modules

| Module | Models | Role |
|---|---|---|
| `TelemetryQueue` | the ring, with its four kinds of caller | detailed specification, properties, inductive invariant, mutants |
| `TelemetryLog` | what the ring promises for `queue_put` publishers | abstract specification |
| `MCTelemetryQueue` | - | symmetry for the TLC runs |
| `TelemetryQueueProofs` | - | theorems about `TelemetryQueue`: types; the ring under `queue_put` |
| `TelemetryConsumerProofs` | - | theorems about what consumers get from a `queue_put` queue; refinement of the log |
| `TelemetryPopProofs` | - | theorems for borrowing publishers, and for both kinds |
| `QueueLifecycle` | `queue_init`, `queue_open`, `queue_close`, `queue_destroy` and the loops of `test.c` around them | specification, properties, mutants |
| `QueueLifecycleProofs` | - | theorems about `QueueLifecycle` |
| `FutexMutex`, `FutexMutexOpt` | the futex mutex, version 1 and version 2 (`OPTMUTEX`) | steps, as parts of `FutexCond` |
| `FutexCond` | the futex condition variable, both versions, under `darc_condwait` (`MUTEXCONDWAIT`), `mutex_trylock` and `mutex_timedlock` | detailed specification, properties |
| `CondwaitSpec` | `darc_condwait` on POSIX primitives (`POSIXCONDWAIT`) | abstract specification of `FutexCond` |
| `FutexCondProofs`, `CondwaitProofs` | - | theorems about `FutexCond`: exclusion and wakeups; refinement |
| `SeqBarrier`, `TicketBarrier` | `pool_barrier` and `fast_barrier`; `ticket_barrier` | steps, as parts of `Barriers` |
| `Barriers` | the three barriers under the threads that use and destroy them | detailed specification, properties |
| `BarrierSpec` | what a barrier promises | abstract specification of `Barriers` |
| `BarrierProofs` | - | theorems about `Barriers` |
| `FirstQueue` | the first version of the queue | detailed specification, properties |
| `BoundedFifo` | what it promises | abstract specification |
| `FirstQueueProofs` | - | theorems about `FirstQueue` |
| `MCFutexCond`, `MCBarriers`, `MCFirstQueue` | - | the calls, setups and workloads of the TLC runs, symmetry |

### TelemetryQueue

The variables have the names of the fields of `shared_t`. A slot is a header
(`header`, a `message_t` whose `len` is 1 once published and 0 while the slot
still holds the zeros of a new segment) and a payload (`body`, the number of
the message it belongs to). `write_mutex` and `read_mutex` hold their owner;
`read_cond` and `write_cond` the threads that wait and have not been released.
`pc`, `ptr` and `m` are each thread's place in its call, its buffer pointer
and its local header. `delivered` is a history variable: the numbers that
`queue_get` has returned.

A step is a stretch of code that no other thread can observe in the middle:

| Call | Steps |
|---|---|
| `queue_put` | `PutLock` (lock, flag and pass a missed message), `PutRoom` (`read_mutex`: signal, drop the oldest if full), `PutHeader`, `PutBody` (payload, signal, unlock) |
| `queue_pop`, filling, `queue_push` | `PopLock`, `PopRoom`, `Fill`, `PushLock`, `PushWrite` |
| `queue_get` | `GetWait`, `GetMissed`, `GetTake`, `GetTimeout`, `GetTimeoutReturn` |
| `queue_get_last` | `LastLock`, `LastWait`, `LastTake`, `LastTimeout`, `LastTimeoutReturn` |
| consumer | `Release` (done with the buffer), `SpuriousWakeup` (POSIX allows it) |

All that `queue_get` reads is guarded by `write_mutex`, so a pass through its
loop is one step. `queue_get_last` tests `tail` and waits in two steps because
`tail` and the signals of `queue_push` are not under its mutex. `read_mutex`
sections in publishers are one step each. The header and the payload are
written in two steps because slots are read without `write_mutex`. Plain reads
of `tail` are taken to be atomic, which is what the x86 build makes of an
aligned `size_t`; the C memory model does not promise it.

Assumed of callers: every message has the same size (as in `test.c`), a
publisher that borrows slots with `queue_pop` is the only publisher (one
`last_tail` is all the queue has for it), and a thread makes one call at a
time. Threads do not die inside a call.

`SizeMod` stands for 2^64. It is far above every bound, so a wrapped
difference is as large as in the code. `MaxMsgs` bounds the messages published
and `MaxHead` the index at which a last `queue_get_last` may start; the second
is needed only where `head` runs away (below).

### TelemetryLog

Messages are numbered. The newest is fresh until one real-time consumer takes
it or the next publisher retires it, flagged as missed; either way it joins a
set of unread entries of at most `Capacity`, read oldest first or discarded
oldest first. A consumer that finds it has missed messages gives up the fresh
one, which then is lost to everybody: that is what `queue_get` does at lines
525-530, and the log says so plainly.

The refinement (`Log` in `TelemetryQueue`): a message is published at
`PutBody`; it is fresh while `Behind` and no publisher is at work; the entries
are the slots from `head` to `tail`, number from the payload, flag from the
header; what consumers got is their local header.

### QueueLifecycle

One server process and client processes that come, consume and go. `entries`
and `readers` are the fields of `shared_t`; `server` and `pc` say where each
process is; `seen` is what a client read of `entries` in `queue_open`. A client
in `Telems` is built with `TELEM` and calls `queue_get_last`, the others call
`queue_get`.

Whether a client ever leaves depends on whether its calls ever return nothing,
so `ring` keeps what decides that, and nothing of the contents. The indices and
sequence numbers only grow, so their differences are enough: `lag` is
`tail - head`, `ahead` is `last_tail - tail`, `unseen` is
`tail_seq - last_tail_seq` (2 stands for more: `queue_get` only tells 0, 1 and
more apart). `tail` and `head` are the slots the two indices name and `written`
the slots published at least once; a slot never published has length 0, which
`consumer_loop` takes for nothing. These change in each operation exactly as
the fields do in `TelemetryQueue`; an operation is one step here, as no client
can see the middle of one. A negative `lag` is a `size_t` near 2^64. `head` may
run on for ever then, so `lag` is not followed below `-MaxAdrift`;
`RunsAwayForGood` says that the operations cannot bring it back to 0 from
there, so nothing depends on how far below it is. (After 2^64 more calls of
`queue_get_last` it would come round.)

| Code | Steps |
|---|---|
| `queue_init` | `InitCreate` (the name exists), `InitSize` (zeroed memory exists), `InitFields` (`entries`), `InitReaders` (`readers = 0`) |
| publisher loop | `Pop`, `Push` (the loop ends only after a `Push`) |
| `queue_destroy` | `DestroyMark` (`entries = 0`, first look at `readers`), `DestroyCheck` (later looks), `DestroySync` (unmap, destroy the mutexes) or `DestroyFails` (one of them is held: exit), `Unlink` |
| `queue_open` | `OpenFails`, `OpenInfo`, `OpenReadsEntries`, `OpenCounts`, `OpenMaps` |
| consumer loop | `GetTakes`, `GetMissed` (`queue_get`); `LastTakes` (`queue_get_last`); `FallsAsleep`, `TimesOut` (both); `CheckEntries`, `Interrupt` |
| `queue_close` | `Close` |
| crash of a client | `Killed` (only clients in `Mortal`) |

`queue_open` is split where it reads `entries` and where it counts itself,
because the read takes no lock and what happens in between matters; a
`read_mutex` section is one step. The wait of `queue_destroy` on `write_cond`
is a wait for the next look, because nobody signals when a reader leaves and
it looks again every second. A client that saw `entries = 0` maps nothing, and
`exit`s, still counted: it ends as "lost", like one that was killed.
After the mutexes are destroyed, glibc's `pthread_mutex_lock` returns an error
that `queue_open` drops, so a client inside `queue_open` goes on.
A client inside a `read_mutex` section at the very moment `queue_init`
initializes the mutex, which would admit a second one, is not modelled: the
section is one step and the new mutex starts free.

Two history variables say who was at the wrong place: `forgotten`, the clients
already counted when `queue_init` zeroed `readers`; and `racing`, those between
reading `entries` and counting themselves when `queue_destroy` found no reader.
The properties are stated relative to them, so they say exactly how far the
protocol can be trusted.

### FutexMutex, FutexMutexOpt, FutexCond

The two mutexes are two machines on one set of variables: the futex word `u`,
and `pc`, where a thread is in a call of the mutex. Each atomic instruction and
each system call is a step:

| Code | Steps |
|---|---|
| `mutex_lock`, `mutex_timedlock` | `LockFast` or `LockContended` (the spin), `Sleep` (`FUTEX_WAIT`: sleeps, or `EAGAIN`), `TimedOut`, `Retake` (the exchange after a wait, or after the spin) |
| `mutex_trylock` | `TryLock` |
| `mutex_unlock`, version 1 | `Unlock`, then for a contended word `HandedOff` (somebody took it: mark it) or `SpunOut` and `Wake` |
| `mutex_unlock`, version 2 | `Unlock`, `Release` (the byte `locked`), `HandedOff` or `SpunOut`, `ClearContended` (the byte `contended`), `Wake` |

`FutexMutexOpt` maps to `first_test/mutex.h`, the copy the first queue is built
with; version 2 of `src/mutex.h` is the same code. A bounded spin is its two
ways out. `FUTEX_WAIT` compares and sleeps atomically, as the kernel does;
signal handlers (`EINTR`) are left out.

`FutexCond` puts the condition variable on top, for both versions: `version` is
chosen in `Init`. `at` is where a thread is in the calls above the mutex.

| Code | Steps |
|---|---|
| `darc_condwait_wait`, `_wait_ifvalue`, `_timedwait`, `_timedwait_ifvalue` | `Enter`, `BeginWait` (compare the value; read `seq`), then, in `cond_wait` or `cond_timedwait`: `Part` (unlock), `CvSleep` or `CvAgain` (`FUTEX_WAIT` on `seq`), `CvTimedOut`, the mutex's `Retake` and `Sleep`, `Relocked` (take `bcast`), `Requeue` (version 1) or `ReadSeq` and `CmpRequeue` (version 2) |
| `darc_condwait_signal`, `_broadcast`, and `_withvalue` | `PostUnlocked` or `Enter`; `Post` (value and `seq`), `SetBcast`, `CvWake` |
| `darc_condwait_setvalue` | `Enter`, `SetValue` |
| a user of the mutex | `UseMutex` |
| end of a call | `Leave` (unlock), `Return` |

`fresh` stands for the copies of `seq` that threads hold: the threads whose
copy still equals it. This is exact as long as `seq` does not wrap all the way
round while a thread is between reading it and sleeping. All callers use one
mutex, as `darc_condwait` does, so `mid` never makes a wait fail and is left
out. History variables: `leaked` (`mutex_timedlock` took the lock in a call
that then returned an error), `due` (those waiting when a broadcast began and
not yet out), `owed` (the one waiting when a signal began with the mutex held),
`moved` (sleepers were requeued).

`CondwaitSpec` is written from the `POSIXCONDWAIT` variant: release and wait is
one step, a broadcast lets out all who wait, a wait may end for no reason. In
the refinement (`Abstract` in `FutexCond`) a thread waits from the unlock in
`cond_wait`, not from its sleep; the threads a broadcast concerns (`due`), and
the one a signal under the mutex concerns (`owed`), are let out at `Post`,
however much later they run.

### SeqBarrier, TicketBarrier, Barriers

`Barriers` chooses a barrier, its `count`, its users and how often they call,
in `Init`. A step is one atomic access or system call: `Enter` (`refcount`, or
the ticket), `ReadSeq`, `CountIn`, `Gate` (the test of `seq`), `Mark` (the fast
barrier's flag), `Sleep`, `Last` (the 64 bit store to `reset`), `WakeAll`,
`Slow` ("We were too slow"), `Leave`, `Notify`; for tickets `Look`, `Sleep`,
`Last`, `WakeAll`, `Leave`, `Notify`; for destroyers `Destroy`, `Await`,
`AwaitSleep`. `seq` and the tickets wrap at `Mod`. In the fast barrier `seq`
stands for the upper three bytes and `flag` for the lowest. The test and the
addition in `Last` of the ticket barrier are one step each: only one thread can
be there for a given group. A barrier is destroyed by one of its users, when
everybody has been let through for the last time and some may still be inside.

`BarrierSpec`: threads arrive, go through in groups of `total` that have all
arrived, and depart; a barrier is closed when nobody is left in it. A thread
counts as let through (`Released`) as soon as its group's `seq` or tickets have
passed, whether it has noticed or not.

### FirstQueue, BoundedFifo

The buffer is cells, each holding a part of a message; `head` and `tail` are
byte indices that both go back by `Size` when `head` has passed it, and `Cell`
is the double mapping. All is done under one mutex, so a step goes from getting
it to giving it up: `CallPut`, `PutWaits`, `Put`; `CallGet`, `GetWaits`,
`TooLong` and `StillThere` (the wait for somebody else to take a message that
does not fit), `Get`; `SpuriousWakeup`. A signal wakes one of the threads that
wait on that condition variable, of whichever kind. `BoundedFifo` is a sequence
of messages and the number of cells they take with their headers, `used`, at
most `Size`; `log`, the history of what was put, gives the refinement its
lengths, `used` is `tail - head`, and what a consumer got is read from the
cells.

## Runs

| Run | Instance | Checks |
|---|---|---|
| `put_ring` | 1 publisher, 1+1 consumers, 4 slots, 7 messages, fairness | types; the inductive invariant `PutInv`; `WindowInRing`, `UnreadIntact`, `MissFlagExact`, `BufferGrace`; `GetsNewest`, `TelemInOrder`; `CallsReturn` |
| `put_wakeup` | 2 publishers, 2+2 consumers, 2 slots, 4 messages | `NoSleepOverMessage`, `TelemBehindByOne`; `ImplementsLog`: refinement of `TelemetryLog` |
| `pop_mixed` | 1 borrowing publisher, 1+1 consumers, 4 slots, 5 messages, fairness | `CursorNearTail`, `PushMatchesPop`, `LentSlotIsFree`, `NoSleepOverMessage`, `PushBehindByOne`, `CallsReturn` |
| `life` | 1 `queue_get` client, which may be killed, and 1 `queue_get_last` client, 2 slots, fairness | types; `ReadersExact`, `OnlyRacersAreCaught`; `RunsAwayForGood`; `ClientsLeave`, `DestroyEnds` |
| `cond_futex` | both versions, 3 threads, 3 calls of any kind | types; `Exclusive`, `NobodyStranded`, `BroadcastReachesAll`, `SignalReachesWaiter`; `ImplementsCondwait`: refinement of `CondwaitSpec` |
| `barriers` | each barrier with 2 users of a group of 2 for 5 rounds, 3 of 3 for 3 rounds, 3 of 2 for 2 rounds; fairness | types; `ExactUsersNeverMix`, `NobodyStranded`; `DestroyReturns`; `ImplementsBarrier`: refinement of `BarrierSpec` |
| `first` | 2 producers, 2 consumers, 5 cells, 5 messages, three workloads | types; `NobodySleepsOver`; `ImplementsFifo`: refinement of `BoundedFifo` |
| `doc_get_newest` | pop/push with `queue_get` | violates `GetsNewest`: another slot is returned |
| `doc_closes_after` | as `life`, nobody killed | violates `ClosesAfterWaiting`: a `queue_get_last` client never leaves |
| `doc_closed_under` | 2 clients | violates `ClosedUnderNobody`: the queue is destroyed under a client that is opening it |
| `doc_bcast` | as `cond_futex` | violates `BroadcastWakesEveryone`: in version 2 a broadcast may leave a waiter asleep |
| `doc_first` | as `first` | violates `BlocksOnlyAsDocumented`: a signal goes to a thread that cannot use it |

"1+1 consumers" are threads in `queue_get` and in `queue_get_last`.

What they show. With `queue_put` the ring keeps its promise exactly, the log:
the oldest message is dropped where `queue.h` (line 70) says that the call
blocks until there is space. `queue_get` moves `tail` without a signal (it is
commented out at `queue.c:539`), so a telemetry thread can sleep on although a
message has become available to it; the price is bounded, it is behind by one
message (`TelemBehindByOne`), not by more. `queue_push` signals without
`read_mutex`, and a telemetry thread between its test and its wait misses that
signal: again it is behind by one message and not more, as long as `queue_get`
is not used (`PushBehindByOne`). The
buffer of `queue_get` stays good while fewer than `Entries` further messages
are published (`BufferGrace`); the one of `queue_get_last` has no such time, since `head`
has moved on before the caller sees it. With `queue_pop`/`queue_push` the ring
is sound too as long as `queue_get` has handed out nothing (`LentSlotIsFree`).
Once `queue_get` is used with them, it is not: `queue_get` moves `tail` and
leaves `last_tail` behind, so
the next borrowed slot is one the consumers are using and the next message is
not where `queue_get` looks; and the wrapped `last_tail - head` (`queue.c:312`)
advances
`head` past `tail`, after which `queue_get_last` takes what is not there, and
then never finds the ring empty again (`RunsAwayForGood`). That is the combination `test.c` builds. What still holds there is
checked by `pop_mixed`.

The shutdown handshake works for clients that opened while the queue was up
and close it properly, unless `head` has run past `tail`: `readers` is exact,
every `queue_get` client leaves once `entries` is 0, every `queue_get_last`
client too as long as it does not find `head` past `tail` (`ClientsLeave`), and
`queue_destroy` then ends (`DestroyEnds`). With the publisher of `test.c`, a
`queue_get` client and a `TELEM` client, `head` does get there, and for good
(`RunsAwayForGood`); once every slot has been published each call of the
`TELEM` client returns a message, it does not come to its test of `entries`
(`test.c` 80-82), and `queue_destroy` waits until somebody interrupts that
client (`doc_closes_after`).

The handshake does not survive clients at its edges either: one that opens
before `queue_init` is done may be counted and then forgotten, so that its
`queue_close` takes `readers` below zero; one that reads `entries = 0`, before
`queue_init` has set it or while `queue_destroy` waits, exits counted.
`ReadersExact` says by how much `readers` is off in each case, and `DestroyEnds`
excludes both. And one that has read `entries` but is not yet counted when
`queue_destroy` looks attaches to what is being destroyed
(`doc_closed_under`); `OnlyRacersAreCaught` says there is no other way.

Both futex mutexes exclude, also while waiters are being requeued. A
`mutex_timedlock` may take the lock in a call that reports failure (`leaked`);
from then on nobody else can get it, so the wakeup properties are stated
without that case. Version 1 loses no wakeup: a broadcast reaches everybody who
was waiting, a signal under the mutex reaches the waiter, a sleeper on the
mutex is always owed an unlock. Version 2 keeps that until sleepers are moved
to the mutex (`~moved`); from then on some may be left, and also when the waiter
that was to move them fails to look at `bcast`, because its wait for the mutex
has overwritten `retval`: that is what `doc_bcast` shows. Both refine
`CondwaitSpec`, which is about who may go on, not about who must: lost wakeups
are the business of the other properties.

The barriers work in every round for exactly the users they are set up for. The
ticket barrier works for more users as well. In the pool and fast barriers a
thread more than a group may read `seq`, be overtaken by a whole group, and be
counted into the next group with the old `seq` (`mixed`): it goes through at
once and leaves a group one short. `ImplementsBarrier` and `NobodyStranded` are
therefore stated until that happens, and `ExactUsersNeverMix` says that it does
not with exactly as many users as a group has. The comment "We were too slow...
wait for the barrier to be released" (`mutex.h:1015`) shows that the code
expects such threads; it catches those that find the group full, not those that
find the next one open.

The first queue delivers every message once, whole and in order. If every
consumer takes every message, nobody sleeps over a message, and with messages
of one length no producer over room for one; with several lengths one
`writeable` for each message taken may go to a producer whose message does not
fit yet. With buffers that are too small for some messages, signals get lost
(`doc_first`).

Why the bounds are enough. Seven messages on four slots are nearly two laps,
enough for the window to fill, overflow, drain and meet a reused slot with
every kind of slot before it; with two or three slots, four or six messages are
two laps. Two threads of a kind are the least that can compete for a mutex or a
signal, and threads interact through nothing else. In `life`, two clients are one of
each kind, so that one can be attached or lost while the other opens or leaves;
clients affect each other only through `readers`, for which the proofs below
allow any number, and through the ring, where it takes one of each kind to
drive `head` past `tail` on two slots. `MaxAdrift` is 3, the least from where `head`
is sure to be past `tail` for good at any point of a pop and push; `SizeMod` is 8,
so that a count below zero is far from any real one. In `pop_mixed`, four slots
let a telemetry thread get more than one message behind (with two slots
`queue_pop` makes room too early for that), and the fifth message overwrites
the first. Three threads in three calls are a waiter, one that wakes it
and one that takes the mutex or posts in between; all that a fourth could add
is a longer queue of sleepers, which the kernel's choice of any sleeper already
covers for three. (Nearly half a million states; a fourth call does not fit
the time a run is given.) Five rounds of two take the tickets, which wrap at 8, once around; three
users of groups of three are the least with two sleepers and one who wakes
them. On five cells with headers of one cell, messages of 0, 1 and 2 cells fill
the buffer exactly, nearly, and across its end; five messages go around it
twice. The proofs below remove the bounds for the central
properties.

Fairness. `FairSpec` asks strong fairness of every call in progress, because a
mutex that others keep taking is enabled again and again, not continuously,
and of each time-out by itself, because the deadline is fixed once at the
beginning of a call (`queue.c` 493-500, 546-553): however often a wait is
interrupted, its deadline passes. Calling at all is not assumed. This is
stronger than POSIX promises about who gets a mutex; it is what the default
mutexes deliver in practice, and without it no call could be said to return.
In `QueueLifecycle` weak fairness is asked of the server and of every client in
what it is doing, since nothing there takes an enabled step away; starting a
program, interrupting it and killing it are never forced. In `Barriers` weak
fairness is asked of every thread inside a call, which is no more than that it
is scheduled: no step of a barrier waits for a lock. `FutexCond` and
`FirstQueue` have no fairness; that nobody is left asleep is stated there of
the states in which nobody runs (`Quiet`).

Deadlock is checked in every run of `TelemetryQueue`: threads that are idle may always call
`queue_get` or `queue_get_last` again, so a state with no successor would be a
real one. (With only telemetry consumers, that is until `MaxHead`, which those
runs do not reach.) `QueueLifecycle` really ends, when the segment is unlinked
and every client is gone, so its runs do not check for deadlock; `ClientsLeave`
and `DestroyEnds` say when it does not stop before. The programs of `FutexCond`,
`Barriers` and `FirstQueue` stop when their calls are used up, and a waiter
nobody signals sleeps: deadlock says nothing there, and `NobodyStranded`,
`SignalReachesWaiter`, `NobodySleepsOver` and their like say who may be asleep
then.

## Proofs

`TelemetryQueueProofs` proves, for any sets of threads and any number of slots:

* `TypeCorrect`: `TypeOK`, for either kind of publisher;
* `PutWindow`: `WindowInRing`, for `queue_put` publishers (`Poppers = {}`);
* `PutInductive`: the inductive invariant `PutInv`;
* `PutUnreadIntact`: `UnreadIntact`; and
* `PutGetsNewest`: `GetsNewest`.

They rest on the ASSUMEs of `TelemetryQueue` (kinds of threads are disjoint, at
least one slot, a borrowing publisher is alone). `MaxMsgs` and `MaxHead` are
arbitrary, so they bound nothing.

Argument. `WindowInRing` alone is not inductive: `PutLock` and `GetTake` move
`tail` without looking at `head`. They may because a message at `tail` has a
reserved slot (`SlotReserved`): `PutRoom` makes room before the header is
written, and the telemetry side only ever makes more. That needs to know that
a publisher in the middle of a call holds `write_mutex` (`MutexHeld`), and that
a telemetry thread about to read still has something to read
(`ReadSomething`), because a publisher drops messages only under `read_mutex`.
For the contents, `NewestInPlace` says where the newest message is at each
stage of a put and that it is newer than all unread ones; that the slot at
`tail` is none of the unread ones is `TailSlotFree`, from the fact that indices
less than `Entries` apart have different remainders (`SlotsDistinct`).

`TelemetryConsumerProofs` proves, for `queue_put` publishers and any threads and
slots:

* `PutMissFlagExact`: `MissFlagExact`;
* `PutTelemInOrder`: `TelemInOrder`;
* `PutBufferGrace`: `BufferGrace`;
* `PutImplementsLog`: `ImplementsLog`, the refinement of `TelemetryLog`; and
* `PutTelemBehindByOne`: `TelemBehindByOne`.

All use the invariant above (`PutState`). `FlagInv` adds that what `queue_get`
returned is older than `last_tail_seq`. `ReadInv` says that what a telemetry
thread holds is older than all it can still read, so the next one it gets is
newer. `UseInv` places the buffer of `queue_get` at an index `i` before `tail`
no further back than messages have been published since: the ring comes round
to it with the `Entries`-th of them, not sooner. In the refinement the unread entries
of the log are the slots from `head` to `tail`; that there are as many entries
as slots (`LogSize`) is a bijection between them, since their numbers differ.
Each step of the ring is an operation of the log or leaves it alone, one lemma
for each. `SleepInv` counts: while a telemetry thread sleeps, the unread
messages are at most the threads already woken for them, and one more only if
no signal is still to come from a publisher or a fresh message. That one is the
signal missing at `queue.c:539`.

`TelemetryPopProofs` proves

* `NobodySleepsOverMessage`: `NoSleepOverMessage`, which is about threads in
  `queue_get`, for any publishers;
* `PopPushMatches`: `PushMatchesPop`, for any publishers;
* `PopCursorNearTail`: `CursorNearTail`, for borrowing publishers; and
* `PopLentSlotIsFree`: `LentSlotIsFree`, for borrowing publishers on a ring of at
  least two slots.

`WakeInv` says that once a message is there and its publisher out of the way,
one thread of those in `queue_get` has been released if any waits; a time-out or
a spurious wakeup releases more, never fewer. `CursorInv` relates `last_tail` to
`tail` whatever `queue_get` does. `LentInv` has the contents of the ring until
`queue_get` returns something: who is lent which slot, and that `head` is less
than `Entries` behind it. The proof does not go through for one slot, and TLC
agrees: with `Entries = 1`, which `queue_init` allows for `queue_pop` as well
(`queue.c` 62-65), `queue_pop` at line 312 makes room in a ring that holds
nothing to drop and leaves `head` past `tail`, and the slot it then lends is
the only one, unread or not.

`QueueLifecycleProofs` proves, for any number of clients:

* `LifeTypeCorrect`: `TypeOK`;
* `LifeReadersExact`: `ReadersExact`;
* `LifeOnlyRacersAreCaught`: `OnlyRacersAreCaught`; and
* `LifeRunsAwayForGood`: `RunsAwayForGood`, for any ring.

They rest on `LifeAssumption`: finitely many clients, fewer than a `size_t` can
count, a ring of at least one slot, and `MaxAdrift` of at least 3. `ReadersExact` is inductive together
with `ForgottenWereCounted` (only counted clients can be forgotten); the work
is in the wrapping additions (`CountOneMore`, `CountOneLess`) and in the sizes
of the sets that a client enters and leaves. From it, no reader means nobody
counted (`NoReaders`), so when `queue_destroy` stops waiting only clients
between the look at `entries` and the count hold the queue; `RaceInv` carries
that on, since `entries` stays 0 and nobody can begin to hold the queue later.
`RunsAwayForGood` is a balance: in each round of pop and push `head` moves on
once, because `last_tail` is at most one ahead of `tail` (`CursorInv`) and so
below `head`, and `tail` moves on once, by `queue_push` if the message before is
unseen or else by the `queue_get` that took it. `RanAway` is the sum that never
rises, whatever `queue_get_last` does (`StepAway`).

`FutexCondProofs` proves, for any threads and calls and both versions:

* `CondTypeCorrect`: `TypeOK`;
* `FutexExcludes`: `Exclusive`;
* `CondNobodyStranded`: `NobodyStranded`;
* `CondBroadcastReachesAll`: `BroadcastReachesAll`; and
* `CondSignalReachesWaiter`: `SignalReachesWaiter`.

They rest on `CondAssumption`. `ExclusiveInv` adds to these two `CallShape`:
where a thread can be in the mutex given where it is in the calls above it.
Whatever a step of either mutex does to the holders and the word is one of a
few moves (`MutexMove`: somebody takes a free mutex, the holder lets go, or
neither changes), which `MutexStepMoves`, `UnlockMoves` and `TimedOutMoves`
show; `MoveKeeps` shows once that each preserves the invariant. The steps of
the condition variable do not touch the word; what is left is that sleepers
they move or wake do not hold the mutex.

The wakeups need three more invariants. `SleepersHaveWaker`: while a thread
sleeps on the mutex, the word says so to its holder, or a thread is on its way
to wake one sleeper or to mark the word again (`handoff`, `clear`, `wake`,
`retake`). A thread at `clear` in version 2 may erase the mark of later
sleepers, but it goes on to wake one, which restores the mark. With it goes `MovesUnderMark`: whoever moves
sleepers to the mutex of version 1 got it by an exchange with 2, so they do not
arrive under an unmarked word. Version 2 lacks that (`mutex_unlock` of another
thread may clear the mark behind it), which is where `~moved` comes from.
`BcastInv`: while a waiter that a broadcast concerns sleeps on `seq`, the
broadcaster has yet to set `bcast`, or it is set and somebody is on the way to
look at it, or somebody is about to move the sleepers. `SignalInv`: the one
waiter a signal under the mutex concerns stays the only one until it is woken,
because nobody else can get the mutex to begin a wait. Both rest on
`ConcernedStale`: whoever is concerned and not yet asleep will find `seq`
changed. When every call rests (`Quiet`) none of these helpers is left.

`CondwaitProofs` proves `FutexImplementsCondwait`: `Spec => ImplementsCondwait`.
`HolderIs` turns `Exclusive` into the value of the abstract `owner`; that a
step leaves alone what it does not mention is `HolderKept` and `PlacesKept`.
A step of the mutex is `Acquire`, `Release`, `BeginWait` (the unlock inside
`cond_wait`) or a stutter (`MoveMaps`); threads that leave `Waiting` together,
by time-out, wakeup or requeue, are one `Woken` step (`WokenMaps`); `PostMaps`
treats the broadcast and the two kinds of signal. `ExclusiveInv` is needed
before and after the step, nothing else.

`BarrierProofs` proves, for the three barriers and any users, group and rounds:

* `BarrierTypeCorrect`: `TypeOK`, for any number of users;
* `ExactUsersSound`: `ExactUsersNeverMix`;
* `ExactUsersNotStranded`: `NobodyStranded`; and
* `ExactUsersImplementBarrier`: `ImplementsBarrier`,

the last two for as many users as a group has (`Exact`, a condition on `setup`,
which no step changes). Types need `RefExact`: `refcount` is the threads inside,
and one until the barrier is destroyed, so no decrement goes below zero. In the
pool and fast barriers `SeqExact` says that `count` is the threads of the
forming group and that each has the present `seq`: while a user is outside no
group is complete, so nobody is overtaken. `SeqAwake` says who will wake a
sleeper. In the ticket barrier `TicketExact` says that the forming group holds
the tickets after `count_next` without a gap and that all others in use are of
the group before, so the unsigned difference at line 1166 tells the two apart;
`OutExact` ties `count_out` to those inside, whatever their number;
`TicketAwake` is its `SeqAwake`. `LeavingInv`: when the barrier is being
destroyed whoever is still inside has been let through. With one user more,
`mixed` can become true in a pool or fast barrier, and in any of them a thread
that is held up inside while the others go on may see `seq` or the tickets come
round to where it left them; so the two theorems are not true there for every
`Mod`. `BarrierAssumption` asks that `Mod` is even, as 2^32 and 2^24 are: the
test for a passed ticket is for half the range, and for odd `Mod` a ticket of
the forming group could count as passed.

`FirstQueueProofs` proves, for any producers, consumers, lengths and size:

* `FirstTypeCorrect`: `TypeOK`;
* `FirstImplementsFifo`: `ImplementsFifo`; and
* `FirstNobodySleepsOver`: `NobodySleepsOver`.

`RingInv` says that there is a chain of positions, `at`, from `head` to `tail`,
each message beginning where the one before ends and lying in one piece in the
cells that `Cell` gives it. A put appends to the chain, a get drops its first
position, and when both indices go back by `Size` the chain moves along; that
cells less than `Size` apart are different makes a put harmless to the messages
before it. The invariant says that some chain exists, not how to compute it: no
recursion over the messages is needed, and neither is a sum of their sizes.
For the wakeups, each put or get signals one thread, so `EnoughGetters` counts:
while a consumer sleeps, there are no more messages than consumers on their
way; and `EnoughPutters`: while a producer sleeps, the room is less than the
producers on their way and one more would need. The second is where one length
is used. Spurious wakeups only add threads on their way.

Model-checked only. Liveness: `CallsReturn`, `ClientsLeave`, `DestroyEnds` and
`DestroyReturns` are out of the prover's reach. `NobodyStranded` and
`ImplementsBarrier` for more users than a group, which depend on the bounds as
said above. What the proofs do not treat otherwise is the pop/push publisher
with `queue_get` beyond `CursorNearTail`, `PushMatchesPop` and
`NoSleepOverMessage`: there is no more that holds (`doc_get_newest`).
`PushBehindByOne` is checked on the bounded ring only. All other
properties of the passing runs are theorems.

## Not modelled, and why

* Mappings, `shm_open`, `ftruncate`, printing and statistics: I/O without
  effect on the protocol. Slots are reached by index and mask, so the second
  mapping of the buffer is never used.
* `queue_copy_next_entries` and `queue_copy_last_entries` are declared in
  `queue.h` and defined nowhere.
* `client.c` does not fit the library's present interface.
* The sizing of the ring (`queue.c` 62-75): arithmetic inside one call.
* The default variant of `darc_condwait` (`mutex.h` 889-951): a futex on the
  value itself, without a mutex. It has no state but the value, and nothing
  says what a wait in it may miss.
* `spincond` (`mutex.h` 1190-1246), which the source calls under construction.
* Destruction and attributes of mutexes and condition variables, and the maps
  of the first version's `queue_open`, `queue_close` and `queue_destroy`, which
  has no handshake (it unlinks the fixed name "george" whatever the queue was
  called).
* The programs of `first_test/`: threads of `FirstQueue` call whenever they
  like, which includes their loops.

## Plan

Done: `TelemetryQueue` and its log; `QueueLifecycle`; the futex mutexes,
condition variables and `darc_condwait`; the barriers; the first queue; proofs
of every safety property of the passing runs but `PushBehindByOne`.

To do, in this order:

1. The ticket barrier for more users than a group, under a bound on how far a
   thread can fall behind.
2. A refinement of `TelemetryLog`, or of a weaker log, for `queue_pop` and
   `queue_push` without `queue_get`.
3. A proof of `PushBehindByOne`.
4. The default variant of `darc_condwait`; the sizing of the ring.
