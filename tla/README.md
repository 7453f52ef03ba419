# Verification of the LinuxCLHQ programs

The repository is a collection of C programs and small libraries on Linux
systems programming: token buckets, thread pools, a semaphore, a relay engine, a
pipe and a timer library, socket servers, and a multicast radio (server and
client). The programs are independent of each other, but they meet the same
questions: who holds which mutex, who is asleep on which condition variable, what
a signal handler or a second thread may change between two instructions. This
directory holds TLA+ models of them, checked with TLC, and proofs checked with
TLAPS. Paths below are relative to `src/Linuxlhq/`.

## 1. The system

### Components, their state and their operations

| component | state | operations | hard part |
|---|---|---|---|
| Token bucket, `IPV4Muticast/src/server/mytbf.c` | `job[]` (registry), per bucket `token cps burst pos` with a mutex and a condition, `mut_job`, thread `thr_alarm` | init, fetchtoken, returntoken, destory; a refill every second; module load and unload | refill, sleepers, destroy and exit interleave |
| Token bucket variants, `004Concurrent/thread/posix/mytbf_mutcond`, `mytbf_mut`, `004Concurrent/signal/mytbf`, `sigactionmytbf` | the same registry; busy waiting, or a SIGALRM handler in place of the thread | the same interface | handler between test and `pause()`, non-atomic `token -= n` |
| Counting semaphore, `004Concurrent/thread/posix/mysemaphore/mysem.c` | `value`, mutex, condition | init, add, sub, destroy | sleepers that wait for different amounts |
| Primes with a bounded number of threads, `mysemaphore/main.c` | the semaphore, the thread ids | main takes and creates, threads give back, main joins and destroys | destroy against the last `mysem_add`; how many threads exist |
| Prime pools, `009prime_cond.c`, `008prime_pool_busy.c` | the slot `num`, `mut_num`, `cond_num` | main puts, workers take, main closes | one condition for two directions; relocking a held mutex |
| abcd in turn, `010printabcd_cond.c`, `007printabcd.c` | whose turn; a chain of mutexes | print and pass on | wakeups; mutex unlocked by another thread |
| Relay engine, `005AdvanceIO/nonblock/relayer` | `rel_job[]`, two state machines per job, descriptor flags, `mut_rel_job` | rel_addjob, the scan of `thr_relayer` | short writes, one direction ending first, flags restored on failure |
| Standalone relays, `001relay.c`, `002relay_select.c`, `003relay_poll.c`, `004relay_epoll.c` | two state machines and an event set | one loop | stale event sets, descriptors not watched |
| Counter files, `005add.c`, `006add_mutex.c`, `007lockfile_process.c`, `006IPC/sem/add_sem.c` | a number in a file, its lock | read, add one, write | lost updates, interrupted `semop`, stdio that writes only at the flush |
| Primes with a process or a thread each, `003Process/003..005`, `004Concurrent/thread/posix/003primer.c`, `004primer_e.c` | the helpers, the structs handed to them | create, test, report, wait | which numbers a helper covers, whose struct it is |
| Thread pipe, `006IPC/mypipe` | counts of readers and writers | register (rendezvous), unregister, read, write (empty) | peer leaves before the waiter wakes |
| Stream servers, `006IPC/socket/STREAM/01..04`, and their client | the accepting processes, the connections each one holds | accept loop, a child per client, a pool | zombies, descriptors left open, one client against the others |
| Multicast server, `IPV4Muticast/src/server` | channel table, list thread, one thread per channel, token buckets | start, announce, send, SIGTERM | the shutdown order, a handler inside `syslog`, more channels than the table holds |
| Multicast client, `IPV4Muticast/src/client` | the chosen channel, a pipe to the player | receive the list, choose, filter, write on | partial writes, datagrams of others |
| Daemons, `003Process/daemon.c`, `013siactiondeamon.c` | the log, a file | daemonize, one line a second, SIGTERM | a handler at any moment |
| slowcat programs, plain copies, HTTP download | buffer, position, the tick | read a piece, write all of it | short writes, interrupted calls, stdio's silent errors |
| Exercises on signal masks, `002star.c`, `011block.c`, `012susp.c`, `014susp_rt.c` | the mask, what is pending | block, print a row, `sigsuspend` | a signal between unblocking and waiting |
| Process and shared-memory exercises, `003Process`, `001pipe.c`, `shm.c`, `006sharememory.c` | stdio's buffer per process, shared memory | fork, exec, wait, print | what fork copies and exec drops |
| Timer library, `006IPC/socket/STREAM/06anytimer` | `job[]`, `inited` | addjob, repeat, cancel, wait | not modelled: see section 6 |
| Datagram and message queue examples, file exercises, notes in `Other/` | none of their own | system calls in sequence | not modelled |

### How they interact

* `medialib.c` opens one token bucket per channel directory and `thr_channel.c`
  runs one thread per channel that fetches from it; the list thread reads the list
  `mlib_getchnlist` made; `daemon_exit` cancels the list thread, frees the list,
  and its `exit()` runs `module_unload` of the token bucket.
* `mysemaphore/main.c` calls `mysem`; the units it takes are given back by other
  threads.
* `relayer/main.c` calls `rel_addjob`; the four standalone relays have their
  own copy of the `fsm_driver` state machine.
* The multicast client filters what the server's list and channel threads send; the
  network between them loses, repeats and reorders, so each end is modelled against
  any datagrams. The stream servers are modelled together with their client.
* Everything else is a program by itself. Inside each program the interaction is
  shared memory under a mutex and a condition variable, or a signal.

### What makes each component correct

* A token bucket never holds more than its burst, never goes below zero, and
  nobody sleeps while it has tokens; slots have one owner; nothing freed is used;
  `exit()` ends and releases everything.
* A semaphore never gives out units it does not have and never lets a thread
  sleep whose request can be met.
* A pool hands each task to exactly one worker, wakes someone for every task and
  main for every empty slot, and ends.
* The printing programs print in turn, for ever or to the end.
* A counter under a lock counts every adder, even when one of them fails.
* A peer of the pipe does not sleep through the arrival or the departure it
  waits for.
* A stream server serves every client that stays, whatever the others do, as long as the process
  that was started runs; a daemon ends on SIGTERM whenever it comes (violated, section 5); the
  player hears its channel whole and in order.
* What a process prints is written once, however it forks.
* The relay passes on every byte once and in order, ends a job once, leaves the
  descriptors as it found them, and never blocks under its mutex.

The full list of hazards, each at its line with the properties that would catch it, is
in `PROJECT.json`.

## 2. The modules

Every critical section that contains no blocking call except
`pthread_cond_wait` on its own mutex is one action: no other thread can see the
inside. Where a mutex is held across other locks or blocking calls, locking and
unlocking are actions of their own and the mutex is a variable. A thread asleep in
`pthread_cond_wait` is at the location `wait`; a broadcast moves every such thread
on, a signal one of them, and, as POSIX allows, a sleeper may also wake without
either (`SpuriousWakeup`). Signal handlers are actions enabled between any two
instructions of the process that shares state with them.

Programs that share their state are checked by one MC module with a variable
`program`, chosen in its Init: each behaviour is a behaviour of one program.

### Token buckets

**TokenBucket** is the abstract library: open buckets with a level between 0 and
their burst; credit, take, give back. A bucket opens empty; what a closed one is prepared for
may be anything. It is the promise of the server's library and of the seven other buckets.

**Mytbf** is `mytbf.c` of the server. Variables have the names of the code's: `job`,
`mut_job`, `token`, `cps`, `burst`, `pos`; `heap` is what `malloc` has given out;
`alarm` and `scan` are the position of `thr_alarm` and its loop index; `pc`, `me`,
`size` are the position, the bucket and the size of the call of each thread.
`thr_alarm` holds `mut_job` while it takes the buckets' mutexes in turn, so its loop
is `AlarmLock`, `AlarmJob`/`AlarmSkip` per slot, `AlarmUnlock`, `AlarmWake`. A call is
`InitAlloc` then `InitRegister` or `InitFull`; `FetchCall`, `FetchSleep`,
`FetchTake`; `UseAll` or `ReturnToken`; `DestroyUnregister`, `DestroyFree`.
`exit()` is `Exit`, `AlarmCancelled` (cancellation acts in `sleep`, the only
cancellation point), `UnloadJoin`, and `UnloadDestroy`/`UnloadFree` per bucket. What
callers owe is in the guards: calls are made on buckets between init and destroy,
no call on a bucket is under way when it is destroyed, rates and bursts are
positive, and `exit()` begins when no call is under way (`Unused` and the guard of `Exit`; they
are of the callers and stand for no lines of the library). The multicast server does not
honour the last of these; module Server shows what comes of it. `StartAlarmFails` is
`module_load` without a thread, which ends the process. `IInv` is `Sound`, with `TypeOK`
and `SlotOwned` among its conjuncts, and `AlarmFirst`. **MytbfProofs** proves
its theorems, **MCMytbf** is its instance for TLC.

**PacedCopy** is what the five programs paced by SIGALRM share: wait for a token, read a
piece, write all of it. **Slowcats** (`008slowcat.c`, `009slowcat2.c`, `010setitimerslowcat.c`)
and **SignalBuckets** (`signal/mytbf`, `signal/sigactionmytbf`) say which of its steps each
program has and what its handler does; the programs of one module share what is the same in
both files and differ in `NextLeaky`, `NextTimer`, `NextToken`, `NextSignal`, `NextSigaction`. Here there is one thread and a handler:

* The test of the token and `pause()` are two steps (`test`, `idle`, `pause`), so
  a SIGALRM between them is missed until the next one.
* `token -= n` in a library whose field is not volatile is a load and a store or a
  single instruction, as the compiler chooses; with the handler in between, one
  update is lost. `level` is a history of the tokens there should be.
* One bucket is made, as in the two `main`s; `job` and `alive` are its slot and
  its memory, so the steps of `mytbf_destory` and `module_unload` can be interrupted.
* Between `signal(SIGALRM, SIG_DFL)` and `alarm(0)` of `signal/mytbf/mytbf.c:46`
  the default action kills the process (`Killed`).

**ThreadBucket** is the library of the thread example in its two forms, `mytbf_mut`,
whose fetch looks again and again, and `mytbf_mutcond`, whose fetch sleeps, each with
its `main`. One bucket is made, so the refill of `job[]` is one step.

**Copies** has the copies that are not paced, with the same `Read` and `Write`: what a
signal interrupts is made again or is an error, and those on stdio cannot tell an
error from the end of the file and lose pieces in silence; they are asked not to write
one twice. **Stars** is the exercises on signal masks: a signal that is pending and
not blocked is handled before the program's next step, a standard signal that is
pending already is lost, a real-time one queues. **MCPaced** starts any of these and
maps the bucket of a paced program to TokenBucket: `Opened` says when it is open (in a
library while it is in `job[]`), `level` is its level, `Rate` and `Cap` what it was opened with.
A fetch of three instructions is one `Take`, at its store, a return one `GiveBack`.
**PacedProofs** proves all but the liveness.

### Semaphore and counters

**Semaphore** and **MySem** are the abstract and the real semaphore; `SubCall`,
`SubSleep`, `SubTake` are `mysem_sub`, `Add` is `mysem_add`. Callers give back no
more than was taken. **SemPrimer** is the program around it, `mysemaphore/main.c`: it
INSTANCEs `MySem` and adds main's loop (take a unit, create, join, destroy) and
the threads (`WorkerAdd`, `WorkerExit`); without a semaphore (`mysem_init` fails) main exits
at once.

**Counters** is the four programs that add one to the number in a file. The lock
(`guard`) is a mutex, `lockf`, a System V semaphore or none; `linebuf` is what each
adder read; an adder can only fail before it holds the lock (`fopen`, or `P`),
and a thread that calls `exit` ends all.
**MCSems** starts free callers of the semaphore, its program, or a counter;
**SemsProofs** proves its properties, the semaphore's also for any callers.

### Pools and turns

**TaskSlot** is what a pool promises, **PrimePool** is `009prime_cond.c`, **PoolBusy** is
`008prime_pool_busy.c`, where a thread that finds nothing to do gives the mutex up,
yields and looks again (a look that changes nothing is no step). The final
section of both locks the mutex main already holds; that is `MainRelock`, after which
main is `stuck` and `mut_num` stays held. **Primers** is the five programs without a pool: one
process, a process or thread for each number, one for each residue; `args` is the
structs handed to threads. **Procs** is the programs around fork, exec and wait: a
program is the list of its statements, each taken by the parent, the child or both,
and `buf` is what stdio holds back in each process. **MCPools** starts any of these.
**PoolsProofs** proves theorems about `PrimePool` and about the composition.

**RoundRobin** is abcdabcd...; **PrintCond** (`010printabcd_cond.c`) and
**PrintChain** (`007printabcd.c`) are its two implementations. SIGALRM after five
seconds is left out of both. **MyPipe** is `mypipe.c`: a peer that registers waits for
the other side, a reader waits for writers to leave, for `mypipe_write` has no body.
Any number of peers may do so in any order; the two conditions share `asleep`, as
every call broadcasts. **MCTurns** starts one of the three; **TurnsProofs**
proves its safety properties.

### Relays

**RelayFsm** is `fsm_driver`: each state is a function from a machine to the set of
machines it may become, for the kernel decides what `read` and `write` return. Byte
number k of a source is the number k, so a machine's buffer is an interval and its
output a sequence of numbers. **Relayer** is the engine: `Scan*`, `Drive12`,
`Drive21`, `Check` are the body of `thr_relayer`, `Add*` are the steps of
`rel_addjob`. `Opened` is the descriptors opened with `O_NONBLOCK`, as `relayer/main.c` opens its
second one: they are to keep it. Without a thread for `thr_relayer` the process ends
(`AddNoThread`).

**Relays** is the four programs with a loop of their own, over the same machines:
`Ask*` is what each asks for, `Select`, `Poll`, `EpollWait` what the call reports (after an
interruption the programs ask again; `poll`'s `revents` keep their value in a round without a call),
`fsm_driver_*` which machine is driven then. **MCRelayer** starts the engine
or a loop; **RelayerProofs** proves its properties but `NeverAborts` and `WatchesAll`, which are violated.

### Servers, daemons and the client

**Server** composes `server.c`, `medialib.c`, `thr_channel.c` and `thr_list.c` with an
INSTANCE of TokenBucket, which `mytbf.c` is proved to implement; the buckets'
shutdown is the server's own, for its exit is outside the assumptions of
`Mytbf`. A directory is a number, a bucket is named after its directory.

* `Options`, `daemonize` and `socketinit` are main's start; `Scan` is `mlib_getchnlist` and
  `pathtoentry`, with each way a directory can fail and what
  that failure leaves behind (an open bucket, a used id). If `glob` fails main
  goes on with a size it never set: it creates no channel, or crashes.
* `CHNNR` is the places of the tables and `CHNIDS` the values of `chnid_t` (200 and 256 in the
  code). The next id is never compared with `MAXCHINID`: past it `Enter` writes behind
  `channel[]`, which may crash the server or do nothing yet, and past `CHNIDS` (`Chnid`) an id
  comes round again and two channels share a context.
* `realloc(ptr, sizeof(*ptr))` (`medialib.c:181`) shrinks the list to one entry, so
  reading a later entry may crash; reading it while it survives is the other outcome.
* `ChannelCreate` keeps what the code stores: `chnid` 0 and the id in `tid`.
  `thr_channel_destroyall` therefore finds nobody to cancel.
* `Snder*` is `thr_channel_snder` inside `mlib_readchn`; `OpenNext` never opens file
  number 0 again. The sendto after `mlib_readchn` would be the location `send`; as the loop
  has no way out, no action leads to it. A thread without memory for its message calls `exit(1)`
  (`SnderNoMemory`), also when main is in `exit()` itself.
* `Sigterm` may come at any moment of main; without a list thread,
  `pthread_cancel(0)` is a crash. `UnloadDestroy` waits while a channel sleeps on the
  bucket's condition, as glibc's `pthread_cond_destroy` does; a channel that
  fetches from a freed bucket may do anything (`SnderLate`). `daemon_exit` may also have
  interrupted main inside `syslog`, whose lock `syslog` and `closelog` then wait for.

**Daemons** is `daemon.c` and `013siactiondeamon.c`: `from` is where main was when
SIGTERM came. Before `fopen` the handler closes NULL (crash), inside `syslog` its
`closelog` may wait for the lock main holds (stuck); in every other case it ends.

**StreamServers** is the servers under `STREAM` with their client. `holders` is the
processes that have a connection open: it ends for the client when all have closed it.
A child that nobody waits for counts as a process until the server ends; when there may
be no more (`PROCNUM`), `fork` fails and main exits. Of the dynamic pool only the start is there: it
maps its table for reading only, and the first write to it (`server.c:193`) kills it.

**Client** is `client.c`: `RecvList`, `Choose`, `RecvChannel`, `writen`. Its pipe holds
`PIPE_BUF` bytes; a write takes any part that fits. `raddr_len`, `ret` and `choseid` are
not set, so they are arbitrary at first. A `recvfrom` that fails after a message returns -1,
which the comparison with an unsigned size lets through; `writen` then fails and main exits
(`RecvFails`).

**MCServer** starts the server, a daemon, a stream server with its clients, or the
client; **ServerProofs** proves its safety properties.

Every module also holds, next to the definition it alters, the mutants of that
definition (marked "Mutant"): plausible bugs that show the properties can fail. They
are not part of the specification.

## 3. The runs

| run | instance | what it shows |
|---|---|---|
| `mytbf_safety` | 2 threads, 3 structs, 2 slots, rate 1, burst 2, requests to 2; 1.5 million states | no lost wakeup (`NoLostWakeup`), nothing freed is used (`NoUseAfterFree`), nothing leaks (`NoLeak`), exit releases everything (`ExitReleasesAll`), the inductive invariant of the proofs (`IInv`) |
| `mytbf_live` | 2 threads, 2 structs, 1 slot, fairness | a sleeper's bucket is served, exit ends, `Mytbf` implements `TokenBucket` |
| `sems` | 5 threads, 3 units, requests of 1 to 3; 4 adders | no sleeper misses a wakeup, `MySem` implements `Semaphore`; in the program units are conserved and destroy comes after the last user; the file counts exactly those that wrote, under each lock, whoever fails (`CountExact`); every main ends |
| `sem_primer_limit` | 2 units, 4 threads; module SemPrimer alone | **violated**: more than N threads exist |
| `prime_pool` | 3 workers, numbers 8..11, both pools, the five plain programs, the programs around fork; 10 thousand states, fairness | every task to one worker, no lost wakeup in either direction, every task but the last is taken, `TaskSlot` implemented; each number is looked at once and no struct is freed under a thread (`PrimesReported`); what is printed is written once (`WrittenOnce`); every wait returns |
| `prime_pool_last` | the same | **violated**: main locks the mutex it holds |
| `turns` | 4 threads or peers; 4 rounds, and 40 characters of the endless one; 26 thousand states | output in turn, nobody sleeps through its turn, one permission, nobody sleeps in the pipe through its peer's coming or going (`PipeAwake`), the output goes on and a reader reaches its end of file |
| `relayer` | 2 callers, 1 slot, buffer 2, 3 bytes, one descriptor of the four opened with `O_NONBLOCK`; the four loops; 4.7 million states | bytes faithful, flags restored, no blocking descriptor, no loop sleeps without asking for what a machine waits for or drives one on another's event (`EventsMatch`, which leaves out `fd2` of the epoll program: `MCRelayerWatch.cfg`), and a relay comes to its end only if both directions ended in the same visit (`EndsTogether`) |
| `relayer_abort` | 2 callers, 1 slot, buffer 1 | **violated**: a direction that ends first aborts the process |
| `paced` | rate 2, burst 3, buffer 4, 5 bytes, seven paced programs, seven copies; 3 rows of 2 stars, 4 signals; 36 thousand states, fairness | all bytes are written, the handler never meets a freed bucket, no blocked row is torn and no signal in `sigsuspend`'s way is missed, the copy ends; each bucket implements `TokenBucket` and no token is made (`KeepsPromise`) |
| `server` | 3 directories for a table of 2, 1 file of 1 byte, rate 1, burst 1; 3 clients of 2 children; 2 senders, pipe of 2, 3 messages; 200 thousand states, fairness | while the ids fit the table each listed channel has its own open bucket (`ListBacked`), the list outlives its reader, SIGTERM ends server and daemon but for the cases stated in `TermEnds` and `DaemonEnds` (which `server_releases` and `MCServerDaemon.cfg` show), a client of a stream server that stays is served as long as the process that was started runs (`ClientsServed`), the player is fed its channel whole (`PlayerFed`) |
| `server_releases` | 1 directory; module Server alone | **violated**: SIGTERM leaves the token buckets unreleased |

Beside the runs there are four configurations whose property the code violates too; they are run
by hand (`tlc -config MCRelayerWatch.cfg MCRelayer`), for the parts of a hazard that a
property of the runs has to leave out:

| configuration | module | what it shows |
|---|---|---|
| `MCRelayerWatch.cfg` | MCRelayer, 2 callers, 1 slot, buffer 1 | **violated** (`WatchesAll`): the epoll program sleeps without having asked for what `fd2` is to tell it, the part `EventsMatch` leaves out |
| `ServerIds.cfg` | Server, 3 directories for a table of 2 | **violated** (`ChnidInRange`): a channel gets an id past `MAXCHINID`, the part `ListBacked` leaves out |
| `MCServerDaemon.cfg` | MCServer, the daemon; the other programs as small as can be | **violated** (`SigtermNormal`): the daemon does not come to its `exit(0)`, the part `DaemonEnds` leaves out |
| `MCServerSends.cfg` | Server, 1 directory, 2 files of 2 bytes | **violated** (`ChannelSends`): a channel thread never sends |

Bounds. Two slots and three structs make the table full, let two inits race, a slot
change hands while the refill thread is between two slots, and two threads sleep on
one bucket; a burst of 2 makes the clamp act on refills and on returns. Requests of up to three
units from five threads are more than the least in which a signal instead of
a broadcast loses a wakeup. Three workers let two compete for a task while main
waits for the slot; four tasks let the last meet main's loop in every state of the
workers. The printing programs have their own sizes. A buffer of 2 and 3
bytes give a second fill, a short write and a rest; the relay was also run with two
slots (14.7 million states), without a new behaviour. In `paced` the source is longer
than a buffer and a buffer longer than a burst, as in the programs. The masks
need a signal in every row and twice in one. Of 8..11 one number is prime, and with
three residues one helper has two. In `server` three
directories let one fail beside two good ones, give the list the second entry that
`realloc` loses, and are one more than the table has room for, as 201 are in the code. With a
second file, the one `open_next` would open, the run is several times as large; `MCServerSends.cfg`
has two.
Three clients are one more than the children that can exist; a message of two bytes does not
fit a pipe that holds one already. The shell makes two rounds, the least in which what a
first round left in the buffer meets a second fork; four processes are as many as any
of the programs has.
Symmetry is used only for safety, over threads and over structs.

Fairness. A thread that can take a step under a mutex it can get does so
eventually: weak fairness of each thread's own step. For the token bucket,
`thr_alarm` and a call that has begun are fair, while a thread need not ever call
again. `SleeperServed` is about the bucket and not about one thread: mutexes
are not fair, so one of two competing fetchers may lose for ever. In `SemPrimer` main's
`MainTake` is fair by itself so that main does not wake spuriously for ever and never
look. In `PoolBusy` a mutex that is given up with `sched_yield` is eventually got by
another thread. In `paced` the process keeps running and an armed timer expires. In
`server` every thread is scheduled, a cancelled thread reaches its cancellation
point, and seconds pass for `thr_alarm`; SIGTERM need not come. `pthread_create` may
fail, after which the program ends. In `MCServer` the programs share their fairness
conditions: one program runs in a behaviour, so a condition on "the main step of the server
or of the stream server" is a condition on the one that is there. A peer that got into the
pipe is expected to leave it (what the library asks of its callers); nobody need
register. `Served` and `ClientsServed` are about clients that stay: `Leaves` is never fair. They say
nothing once the started process has ended: in `01basic` one client that is gone when its stamp
is sent ends it for all, in `02para` it is a `fork` that fails.
A connection's bytes arrive once it is closed; nothing is assumed of the multicast network.

`CHECK_DEADLOCK FALSE` is in the pools' configurations, where main really blocks for
ever; in that of `turns`, whose bound on the output stops the endless program and
whose other program ends; in `paced`, where the process ends; and in the
server's, where it ends, crashes or hangs in `module_unload`.

## 4. The proofs

The runs check small instances; the theorems hold for every value of the constants that
meets the assumptions below. Every safety invariant and action property of the passing runs is a
theorem, and so are the refinements. The proof modules about a composition EXTEND its MC module
and speak of the specification the run checks (`RelaySpec`, `TurnsSpec`, ...), so a theorem
and the property of a run are the same formula. The inductive invariants are called `IInv`
where they are in the component's module; TLC has checked each of them on the run's instance
first (`mytbf_safety` keeps the one of `Mytbf` among its properties).

Assumptions. Numbers of threads and slots, sizes and rates are positive or natural
(`SizesAssumption`, `UnitsAssumption`, `CountAssumption`, `BufferAssumption`,
`TableAssumption`, `LimitAssumption`, `ChildrenAssumption`); a null value is no object
(`NullAssumption`); the threads of `mysemaphore/main.c` are numbered and there is one
besides main (`ThreadAssumption`), which may ask for one unit (`CallsAssumption`); primes are
looked for above 4 (`RangeAssumption`, `PrimersAssumption`; the code starts at
30000000); what was on the stack is no sender's address (`SourceAssumption`); and two callers
of `rel_addjob` have no descriptor in common and none has a pair of one and the same
(`PairsAssumption`, `OwnAssumption`), as `relayer/main.c` does it: the flags of a shared
descriptor would not come back. What is opened with `O_NONBLOCK` is any set of descriptors
(`OpenedAssumption`); a channel table has a place at least and is smaller than the range of the
ids (`IdsAssumption`: 200 and 256 in the code). The number of directories is not bounded:
`ListBacked` itself says that it speaks of searches that have used up no more than `CHNNR` ids.

| module | theorems | the property alone is not inductive; needed as well |
|---|---|---|
| `MytbfProofs` | `Invariance`, `TypeCorrect`, `TokensSound`, `MemorySafe`, `NothingLeaked`, `RegistrySound`, `Refinement` | see below |
| `SemsProofs` | `TypeCorrect`, `NoLostWakeup`, `Refinement`; `NumberCounts`, `NoUnitLost`, `DestroyedLast`, `PrimerIsAUser`, `SemaphoreInUse` | for the refinement, *who is in `mysem_sub` asks for what it called with* (`RequestMade`). `LockHeld`: one adder at a time is between lock and unlock, and what it read is still in the file; without a lock, what was read counts only adders that wrote. `InOrder`: threads exist up to `created` and are gone up to `joined`, so the thread counted is the thread created |
| `PoolsProofs` | `Invariance`, `OneThreadPerTask`, `NoWakeupLost`, `MainWoken`, `Refinement`; `BusyIsAPool`, `BothPools`, `PrimesFound`, `WrittenAndHanded` | `DoneAtClose`, `SlotIsLatest`, `MainPlace`; `BehindReported`; `NothingToCopy`, `AllCounted`, `HandedOver` |
| `TurnsProofs` | `TurnNeverMissed`, `PermissionUnique`, `PipeSound`, `OutputInTurn` | `RoundsAgree`: the threads before `num` have printed once more than the others; `Opened`: the permission is in one of three places, and where it is tells the length of the output |
| `RelayerProofs` | `BytesPassedOn`, `OverWhenBothEnd`, `FlagsComeBack`, `NeverDrivenBlocking`, `WaitsForItsEvents`, `NeverEndsApart` | `FlagsExact`, `SavedExact`: `O_NONBLOCK` is on exactly the descriptors opened with it, in a job, or in a call that has set and not restored it, and what a call saved says which; `AskedFor`, `ReportedFor` for the loops |
| `PacedProofs` | `NoTokenMade`, `CopiedWhole`, `HandlersCorrect`, `BucketsKeepPromise` | `TokensThere`: what is in the register of an interrupted `token -= n` was in the bucket and still is, for the handler only adds; `BytesThere`, `BucketThere`, `TimerThere`; for the refinement, *while main copies, its bucket is open and a fetch has its one token at least* (`InUse`) |
| `ServerProofs` | `EntriesBacked`, `ListOutlivesReader`, `PlayerHearsItsChannel`, `StampsArrive` | `Entries`, `Apart`, `ListerOnce`; `InOrderFed`, `FromTheSender`; `StampToCome`: a client that reads is queued, served, or in the hands of a process that is to serve it |

Each invariant is proved by one lemma per action or group of actions, and a last theorem
(`RelaysInvariant`, `TurnsInvariant`, `SemsInvariant`, `PoolInvariant`, `PacedInvariant`,
`ServerInvariant`, `ClientInvariant`, `StreamInvariant`) joins the programs of a composition. What is
worth knowing of the arguments:

* `Mytbf`: that a fetcher never uses freed memory needs *its bucket is registered*
  (`UsersRegistered`); that destroying clears the right slot needs `SlotOwned`; that a
  freed struct is in nobody's hands needs *a struct about to be published or freed is
  not registered and has one owner* (`OwnersUnregistered`, `SoleOwner`); that nothing is
  lost at exit needs `NoLeak` with *the thread in `module_unload` is alone*
  (`ExitAlone`); the refinement needs *a bucket is published empty*
  (`PublishedEmpty`); that a process without `thr_alarm` has no bucket is `AlarmFirst`.
* The pools: that a signal for a task finds a taker needs *nobody has left before the slot is
  closed* (`DoneAtClose`): then either no thread waits and one is awake, or the only
  sleepers are workers, since main is the one that signals (`SignalFindsTaker`). That
  a task goes to one thread needs *the task in the slot is the latest, every taken one is
  older* (`SlotIsLatest`), and that main closes only after its loop needs `MainPlace`.
  Every step of the busy-waiting pool is a step of the other one in which nobody sleeps, so
  `BusyIsAPool` carries all four results over. `PrimerIsAUser` does the same for the
  semaphore and its program.
* The primes without a pool: a helper goes by strides from its first number and what is behind it is
  reported (`BehindReported`); that the strides cover every number once is arithmetic of quotient
  and remainder (`SameMultiple`, `NextMultiple`). The step in which main's wait ends
  needs that a loop to `i/2` finds a divisor of every composite number.
* The chain of mutexes never mentions whose turn it is; the proof that its output is abcd in
  turn (`OutputInTurn`) ties the place of the permission to the length of the output
  modulo the number of threads (`TurnPasses`).
* What the programs around fork print: what stdio holds back in a process is copied by fork and
  lost by exec. The invariant says for every text (but the shell's away from a terminal) where it is: written, held back by the one process
  that printed it, or not printed yet (`AllCounted`); that nothing is held back where a process is
  copied or replaced (`NothingToCopy`) is seen from the scripts; and where parent and child are
  tells which texts are written (`HandedOver`). The shell's rounds and the four processes are those of the
  model and not parameters.
* The buckets of the paced programs implement `TokenBucket` although a fetch is several instructions
  and a tick may fall between any two: the count of the code and the level of the bucket part
  (a tick is lost), but only one way, so what is in the register is covered by the level when
  it is stored (`TokensThere`). `Clamp` on a return of the thread's library is needed: between a fetch and
  its return refills may fill the bucket.
* The ends of a relay: a machine that has ended is driven to `abort()` in its next visit, so
  `EndsTogether` is kept by every step of scans, callers and loops (`ScanAlone`,
  `AddAlone`, `LoopAlone`). With the invariant that both machines of a relay that is over have ended
  it says when a relay can end well: when both directions end in one visit, and never otherwise.
* A relay's buffer is an interval of the numbers of its bytes, so that nothing is lost, doubled or
  reordered is an equation between start, position and the length of the output
  (`ChunkContinues`), which `DrivenFaithful` keeps for every outcome of `read` and `write`.
* `Passed`, what the client's player should hear, is defined by recursion over the messages
  accepted. The provers cannot do induction over them, so the invariant (`InOrderFed`) speaks of any
  function that satisfies the equation of `Passed`, and says that there is one; both follow
  from the same for one message less (`OnePassedMore`). The induction over the data is
  the one over the steps.

The proofs found one thing in the models: in the step in which main of a counter program goes on
to wait (`Create` of `Counters`), the quantifier over the adders reached over the
assignments too; it now has its parentheses.

Only model-checked:

* Liveness under fairness, which TLAPS does not reach: `SleeperServed`, `ExitEnds`,
  `MainEnds`, `AllTaken`, `PrintsOn`, `AllEnd`, `TermEndsAll`, and of `ClientsServed` the half
  that says a waiting client is served (the other half is `StampsArrive`).
* The eight properties that are violated, four of them in runs.

## 5. Findings

Shown by a run or by a configuration beside them:

* `mysemaphore/main.c:42`: a thread gives its unit back before it ends; more than
  N threads exist at a time, against lines 12 and 15 (`sem_primer_limit`).
* `009prime_cond.c:62`: main locks a mutex it holds unless the last task has been
  taken; the program hangs, against line 57 (`prime_pool_last`).
  `008prime_pool_busy.c:62` has the same lines.
* `relayer.c:106`: a job with one ended direction aborts the process at the next
  scan; `STATE_OVER` is reached only if both directions end in the same scan
  (`relayer_abort`).
* `medialib.c:197`: `mlib_readchn` has no way out of its loop, so no channel is ever
  sent, against `thr_channel.c:31` (`MCServerSends.cfg`).
* `medialib.c:173`: ids are handed out without a look at `MAXCHINID`, against `proto.h:21`; the
  201st channel is written behind `channel[]` (and `thr_channel[]`), the 257th id is 0 again
  (`ServerIds.cfg`).
* `mytbf.c:62`: SIGTERM is to release the token buckets (`mytbf.c:50-51`). If it interrupts main
  inside `syslog`, the handler's own `syslog` (`server.c:66`) waits for the lock; and since
  `thr_channel.c:72` overwrites the thread's id with the channel's, no channel is cancelled, so
  `pthread_cond_destroy` waits for one that sleeps in `mytbf_fetchtoken` (`server_releases`; the
  run stops at the first, and finds the second when `TermReleases` is asked of `main = "term"` alone).
* `013siactiondeamon.c:19`: SIGTERM before `fopen` closes NULL, and inside `syslog` `closelog`
  waits for the lock main holds; line 21 is not reached (`MCServerDaemon.cfg`).
* `004relay_epoll.c:159`: the events of `fd2` are computed and never passed to `epoll_ctl`, against
  line 169; the loop sleeps on with a machine that waits for `fd2` (`MCRelayerWatch.cfg`).

Seen while modelling, without a run (no text of the repository claims otherwise, or
the program does not get far enough):

* `009prime_cond.c:120`, `008prime_pool_busy.c:111` and the two programs with a thread for each
  number: `i < i/2` never holds; every number is said to be a prime.
* `signal/mytbf/mytbf.c:46-47`: a SIGALRM between the two lines kills the process.
* The thread and signal copies of the token bucket allocate the size of a pointer.
* `server.c` and `013siactiondeamon.c`: the signals handled are joined with `|`, which is
  SIGTERM alone.
* `medialib.c:181`: the list is shrunk to its first entry.
* `STREAM/04dynamicpool/server.c:193`: the table of servers is mapped `PROT_READ|PROT_READ`; the first
  write to it is a segmentation fault.
* `06anytimer/anytime.c:26`: `inited` starts at 1, so `module_load` never runs and no job
  ever fires.
* `02para/server.c`: no child is waited for, so they pile up until `fork` fails and main exits.
* `client.c`: `raddr_len` and `ret` are used before they are set, and main keeps the pipe's
  reading end, so it does not notice that the player has ended. The stream client prints
  the address of its stamp.
* `mypipe.c`: `mypipe_write` is empty and `next` is defined nowhere.
* `mycopy.c` and others: `O_TRUNC` is passed for the mode of `open`, so a target is not
  truncated; `mycopy_fread.c` writes one byte of each buffer it reads.
* `008mysh.c`: an empty line runs the command before it, or one never set; without a
  terminal the prompt is written by parent and child.
* `add_sem.c:25`: `errno != EINTR || errno != EAGAIN` always holds, so an interrupted P ends
  the child.

## 6. The plan

The map covers about a third of the implementation's lines; of the others two thirds are the notes
and tables under `Other/`.

Done: the server's token bucket with its proofs, the four other token buckets and the
slowcats, the semaphore and its program, the counters, both pools and the primes without one,
both printing programs, the thread pipe, the relay engine and the relays with a loop of
their own, the multicast server and client, the daemons, the stream servers, the copies, the
exercises on signal masks, and the programs around fork.

Proved: every safety invariant and action property of the passing runs, and the refinements
(section 4).

New programs join an existing run through its choosing module where they share its
state and properties, so that a run stays one question.

Not modelled, and why:

* The timer library: `inited` starts at 1, so the handler and the timer are never
  installed; what is left is a table of jobs that nothing reads.
* The dynamic server pool beyond its start, which kills it.
* The datagram and message queue examples and `005mmap.c`: single system calls around
  a kernel object, with no state of their own between two calls.
* The rest of `001IO` and `002FlieSystem`: sequences of system calls and formatting in
  one process (`008mydu.c`, `014mydate.c`, `006glob.c`); a model would restate them.
* `Other/`: a table of error codes and interview notes.
