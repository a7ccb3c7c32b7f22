# A verification of the Onyx runtime and its playground

This directory holds TLA+ models of the concurrent parts of Onyx (the fork of Crystal in this
repository), the TLC configurations that check them on small instances, and proofs, checked by
TLAPS, of their most important properties for every instance.  There are two families:

* the *runtime*: fibers, their scheduler and memory, channels, mutexes and futures;
* the *web pages* that come with the compiler: the playground, which edits, compiles and runs
  programs over a websocket, and the list of types beside the generated API documentation.

Paths below are relative to the root of the repository.

Read in this order: `Scheduler`, `Channel` (with `FifoChannel`), `Mutex`, `ChannelMutex`, `Future`,
`FiberStacks`; `PlaygroundSocket`, `Session`, `PlaygroundServer`, `Playground`; then `Inspector`,
`Pages` and `TypesList`, which stand alone; then the `*Proofs` modules.

## 1. Inventory

The repository is a compiler written in Crystal and Onyx, and the standard library its programs,
the compiler included, are linked with.  Most of the compiler is a sequence of passes over a syntax
tree: one thread of control, no failure to recover from, and a state (the program text) that no
finite instance covers.  What is hard to get right *and* hard to test is the runtime below it,
cooperative fibers over one thread and an event loop, and the primitives built on them; and the
event-driven tools above it, whose page, server and user programs run side by side.

| component | source | state | operations | interacts by |
|---|---|---|---|---|
| scheduler | `src/concurrent/scheduler.cr`, `src/fiber.cr`, `src/concurrent.cr` | run queue `@@runnables`, current fiber, pending events | `reschedule`, `enqueue`, `resume`, `spawn`, `sleep`, `yield`, end of `Fiber#run` | is called by everything that waits |
| fiber memory | `src/fiber.cr`, `src/kernel.cr` | stacks, `@@stack_pool`, list of fibers | `allocate_stack`, `stack_pool_collect`, link, unlink | the scheduler creates the loop fiber; the GC walks the list |
| channel | `src/concurrent/channel.cr` | `@closed`, `@senders`, `@receivers`, queue or value | `send`, `receive`, `receive?`, `close`, `select` | resumes fibers and enqueues them |
| mutex | `src/mutex.cr` | owner, lock count, queue | `lock`, `unlock` | enqueues the next owner |
| future | `src/concurrent/future.cr` | `@state`, `@value`, `@error`, a channel | `get`, `cancel`, `run_compute` | spawns, sleeps, closes its channel |
| event loop | `src/event.cr`, `src/event/lib_event2.cr` | libevent's | `add`, `free`, `run_loop` | its callbacks resume fibers |
| non-blocking IO | `src/io/file_descriptor.cr`, `src/socket.cr` | `@readers`, `@writers`, time-out flags | `wait_readable`, `resume_read`, `close` | events of the loop |
| signals, children | `src/event/signal_handler.cr`, `src/event/signal_child_handler.cr`, `src/process.cr` | `@pending`, `@waiting`, a pipe | `trigger`, `waitpid`, `after_fork` | a fiber, channels, lazy futures |
| process exit | `src/kernel.cr` | handlers, `@@running` | `at_exit`, `exit` | user code |
| code generation in parallel | `src/compiler/crystal/compiler.cr` | jobs, `wait_channel` | `codegen_many_units` | fibers, a buffered channel |
| type propagation | `src/compiler/crystal/semantic/bindings.cr` | types and dependencies of nodes | `bind_to`, `propagate` | observers |
| front ends, macros, semantics, code generation | `src/compiler/**` | syntax trees | passes | |
| playground page | `.../playground/public/session.js` | tag of the run, timers, buttons, indicator, output, values and errors shown | run, stop, edit, connect, every message of the server | a websocket to its server; several sessions share a page |
| playground server | `.../playground/server.cr`, `agent.cr` | tag, current process; fibers per pipe and per process | `run`, `stop`, `execute`, forward what agents send | websockets of the page and of the agent inside each program |
| inspector | `.../playground/public/session.js` | values of a line, common type, open table | `addMessage`, click, close | fed by the page |
| code and settings | `.../playground/public/application.js`, `settings.js` | `localStorage`, `sessionStorage` | load, edit, leave, settings | tabs share `localStorage` |
| types list | `.../doc/html/js/doc.js` | classes `open` and `hide`, `sessionStorage`, a timer | click, search, scroll | reloads of the page |
| collections | `src/deque.cr`, `src/hash.cr` | buffers | | used by all of the above |
| HTTP, WebSocket | `src/http/**` | connection, frame | | one fiber per connection |
| formats, text, time, crypto, bindings | the rest of `src/` | none shared | pure functions | |

(`src/` here is the standard library, `src/src/` in PROJECT.json, which counts from the directory
that holds the repository; `.../` is `src/compiler/crystal/tools/`.)

### What is hard

* *Interleaving.*  Between two switch points a fiber runs alone, so each piece of code between them
  is atomic; but every wait hands the processor to an arbitrary other fiber, and some operations
  (`Unbuffered#send`, `receive`, the callbacks of the loop) bypass the run queue and resume a fiber
  directly.
* *One resumption per suspension.*  Nothing in `Fiber#resume` says why a fiber is resumed.  A fiber
  that is in two places from which somebody will resume it wakes from the wrong wait.  The loops in
  `send` and `receive` tolerate that, `Mutex#lock`, `sleep`, and the last switch of an unbuffered
  `send` do not.  `Channel.select` is the one operation that puts a fiber in several places.
* *Order of the loop and the run queue.*  The event loop runs only when no fiber is runnable.
* *Life and death of fibers.*  A fiber gives its stack away while it still stands on it.
* *Late messages.*  The playground stops a program, starts the next and clears the page while
  output, values, exits and errors of earlier ones are still on their way, from several fibers of
  the server; numbers (`runTag`, `tag`) tell them apart.
* *Timers against events.*  A debounce, a blinking light and a delayed search are timers that may
  expire after what they were set for is over.
* *Two copies of one state.*  Storage shared by tabs against the storage of a tab; classes of
  elements against remembered ones; both against reloads and crashes of the browser.

What makes each component correct, in one line: the scheduler answers each suspension once and
forgets nobody; a channel is a FIFO queue that loses neither values nor wakeups; a mutex excludes
and is not lost in a hand-over; a future runs its block once and gives everybody the same answer; a
stack has one owner and the collector sees every live fiber; the playground shows what the last run
did and nothing else, its buttons tell whether that run is finished, and no program is left running
that cannot be stopped; the code of a page comes back; the list shows what the field asks for.

PROJECT.json lists the hazards, each at its line, with the properties that guard against it.

## 2. Modules

### Fibers as programs

The models of the runtime share one idea.  What the *user's* fibers do is data: each fiber executes a program, a
sequence of calls to the runtime, chosen by `Init` from the constant `Programs`.  `ip[f]` is the
call it is in, and `at[f]` the place inside that call: `"start"`, or one of the switch points of the
code.  Every operation of the runtime is then an action per path through it from one switch point
to the next: `Mutex#lock`, for example, is `LockFree`, `LockAgain` and `LockWaits`, and `Locked`
for what follows the return of `Scheduler.reschedule`.  A call `goto` closes a loop in the program
text.  A call that raises (`Raise`) goes on with the next call, if the program rescues, or goes to
the end of the program, where `Fiber#run` ends the fiber.

Histories (`sent`, `got`, `holds`, `runs`, `dropped`, `answers`) record what happened, are read by
no guard of an operation, and exist for the properties.

| module | models | notes |
|---|---|---|
| `Scheduler` | run queue, loop fiber, spawn, sleep, end of fibers and of the process | durations are abstracted: pending events fire in any order |
| `FiberStacks` | `Scheduler` with the memory behind each step | one record `heap`, transformed by the same pieces as the code: `Allocated`, `Linked`, `Pooled`, `Unlinked`, `Collected` |
| `FifoChannel` | the promise of a channel: bounded, FIFO, no acceptance once closed | abstract |
| `Channel` | both classes of channel and `select` | a wait loop is the label `"retry"`; values are named by the call that sent them |
| `Mutex` | the mutex | |
| `ChannelMutex` | both, used by the same fibers | composition |
| `Future` | futures over their channel | the user's block is: may sleep, then returns or raises |
| `PlaygroundSocket` | the socket between page and server: two queues, cut off anywhere when the connection is lost; the server's output buffer and the fibers that wait to write it | `write` is `Protocol#send`, `flush` the loop of `unbuffered_write`, `GoOn` the return of the longest waiting fiber |
| `Session` | a page: buttons, editor, timers, indicator, `onmessage` | one action per handler |
| `PlaygroundServer` | the server's session, the compiler's verdict, the programs and their agents | one action per step between two waits of a fiber |
| `Playground` | the two together, and the properties of both | composition |
| `Inspector` | the values of a line and the table of them | |
| `Pages` | where code and settings are kept, over tabs | |
| `TypesList` | the list of types | a text is what its words match |
| `SchedulerProofs`, `FiberStacksProofs`, `ChannelProofs`, `MutexProofs`, `FutureProofs`, `PlaygroundProofs`, `PagesProofs` (of `Pages` and of `Inspector`), `TypesListProofs` | theorems | section 4 |
| `MC*` | instances | |

Correspondence of names: variables have the names of the instance variables they model
(`mutex_fiber`, `lock_count`, `queue`, `closed`, `senders`, `receivers`, `runnables`, `current`);
`contents` of a channel is `@queue` of a buffered one and `@value`/`@has_value`/`@sender` of an
unbuffered one; `heap.first`, `heap.last`, `heap.next`, `heap.prev`, `heap.pool` are
`@@first_fiber`, `@@last_fiber`, `next_fiber`, `prev_fiber`, `@@stack_pool`.  The operators of the
pages have the names of the functions they model (`run`, `onmessage`, `_scheduleRun`,
`saveAsLastCode`, `turnError`).

### Pages as handlers

A page runs one handler at a time: the model has one action per handler, and timers, messages and
the user decide which comes next.  A handler that raises half-way has done what comes before.  What
is shown carries, in the field `by`, the execution (number and text) that really produced it; no
handler reads it, and the property `FreshDisplay` compares it with the execution that was asked for
last.  On the server a step is what a fiber does between two waits, and a send is one of these
waits.  Every message to the page, whoever sends it, is appended to the one buffer of the socket
(`outBuffer`), and its fiber writes all of the buffer; when the kernel's buffer is full
(`MaxUnderWay`), it waits in `writers` with what it has left, and other fibers go on: one that has
read a program's output may still wait while the exit is sent, and a second one writes again what the
first is still to write.  `Continue` is the return of a fiber to its write.  `serving` says that the
fiber which reads the page's messages has not ended.  `procs[e]` holds, for every
process ever started, what the server has not yet read from its pipes (`output`) and from its agent
(`agent`), so that the program's own pace need not be modelled apart.

### Abstractions one should know

* `Fire(f)` resumes `f` from inside the loop, in any order of the pending timers.  A timer of
  `sleep(0)` (`yield`) is a timer like any other.
* After `select` has left a fiber in the run queue twice, the second resumption may reach a fiber
  that has ended: its stack is in the pool, and what happens is undefined.  The models stop there
  (no action is enabled); every property that is checked with `select` is checked up to that point.
* Exceptions that a program does not rescue end the fiber (`Fiber#run` rescues them); for the main
  fiber they end the process, as does its return.
* `FiberStacks` assumes that mmap does not fail while the loop fiber is created; for `spawn` the
  failure is modelled (`SpawnFails`).
* A text of the playground is its number of lines, the lines that are not blank, what becomes of it
  in the compiler (`Outcomes`, the line of an error) and what its program may do (`Scripts`).  A
  program may run for ever, end with status 0 or not, and be killed; a killed one may still end with
  status 0.
* The messages of one socket are taken in the order in which they were written to it, each whole.
  Those of a lost connection are lost from some message on, in each direction.  Fibers that share the
  buffer can also cut or overwrite one another's frames: what arrives is then no frame, the browser
  fails the connection, and the model's `Lose` covers it.  That pieces fit together to another valid
  frame (messages of the same size that replace each other) is not modelled.
* `StopAnswers` and `NothingLeftRunning` take it that a program which is sent SIGTERM
  (`src/process.cr`, `Process#kill`) ends; one that ignores the signal would run on.
* A delayed future is one with a delay above zero: `delay(0)` makes an immediate one.
* A tab that the user duplicates is not modelled; a tab that the Gist button opens is.
* A search text of the types list is the set of types it matches; that the regular expression is
  built from the words of the text is not modelled, except that building it may raise (`Faulty`).
* The storage of a browser works, raises when written, or is absent, and stays so.
* A future's channel is only closed and waited on, so `Future` uses the variables of `Channel` and
  the steps of `close` and `receive?`, but lets no other fiber send on it.

## 3. What is checked

| run | instance | shows |
|---|---|---|
| `scheduler` | 4 fibers, all combinations of short texts with spawns, sleeps and loops | `OneWakeup`, `NoneLost`; `SleepersWake`, `RunnablesRun` |
| `stacks` | 6 fibers, 4 regions, collector, lazy loop fiber, failing mmap | `StackOwned`, `NoLeak`, `RootsFound`; `PoolDrains` |
| `channel_mutex` | 4 fibers on a channel of either class, on a mutex (recursion, wrong unlocks, endless loops, owners that end), or on both; no select | `Fifo`, `NoLostWakeup`, `Rendezvous`, `MutualExclusion`, `NoLostMutex`; `ClosedReleases`, `WaitersLock`, and the refinement `ImplementsFifo` |
| `select` | 4 fibers, two buffered channels and an unbuffered one, every pair of operations in a select | `NoMissedSelect` |
| `select_mutex` | the programs of `channel_mutex` with a select | violates `MutualExclusion` |
| `future` | 3 users, main and a computing fiber, each of four kinds of future | `BlockOnce`, `CancelDrops`, `NoCompilerBug`; `GetsAnswered` |
| `future_lazy` | the same with a lazy future whose block waits | violates `BlockOnce` |
| `playground` | a page with a debounce that runs at once, and a demo without; a text that runs and one that does not compile, shorter than the other | `FreshDisplay`, `ButtonsAgree`, `FailureShown`, `NoStrayProcess` |
| `playground_live` | the same with one short program, fair | `Converges`, `StopAnswers`, `NothingLeftRunning` |
| `inspector` | up to 4 values of a line, plain and with no, one or two named parts | `TypeOfAll`, `TableComplete`, `RowsInOrder` |
| `pages` | 2 tabs (symmetric), two codes and the empty one, three settings, all three kinds of storage | `BackAndForth`, `StillThere`, `SettingsKept` |
| `types_list` | 4 types nested up to three deep, texts that match some, all, none or are no regular expression | `ShowsWhatIsAsked`, `MatchesInSight`, `ReloadKeepsOpen`; `SearchSettles` |

`FutureTypeOK` (which contains the type invariants of `Channel` and `Scheduler`) and
`PlaygroundTypeOK` are checked in the runs of their modules; `PlaygroundTypeOK` says more than types,
namely that errors are shown on lines which the text still has.  `MutexTypeOK` and `TypesTypeOK` are
proved and not run again.

Bounds of the runtime.  Four fibers are the least with which a channel has a sender, two competing
receivers and somebody who closes it, and a mutex an owner, two waiters in order and an intruder.
Capacity 1 makes a buffered channel empty and full within two calls.  Two calls per text after the
spawns let a fiber leave one wait and enter another, which is what a stray resumption needs to be
seen; loops (`goto`) are there where starvation is the question.  No variable is bounded
artificially: the texts are finite, and loops return to states already seen.  `stacks` has fewer regions
than fibers that can live at once, so that mmap fails in some behaviours and a pooled region is
reused in others.

Bounds of the pages.  `MaxInputs` = 2 limits what the *user* does (edits, runs and stops; never what
the system does).  `Setups` bounds it per page: in the safety run one input where the page runs its
code by itself and two in a demo, so that two executions are under way at once, one ending while the
other is asked for, compiled or runs, and each input falls on every state of the other; in the liveness
run two inputs on either page, and so up to three executions.  `MaxUnderWay` = 2 limits the messages to
the page that are on their way, that is, the room in the kernel's buffer; the sender waits then.
`MaxWriters` = 2 fibers can wait at a time, enough for one with output and one with the exit that also
has that output to write.  (With 2 and 2 the run has 6.8 million states.)  A program prints twice, reports a value and a raise,
or raises without a text (`Scripts`), enough for output after the exit, two timers of the light,
and an error on a line that was removed.  The liveness run uses one program that prints once, room for one message and for one fiber
that waits.
`MaxMessages` = 4 values of a line are one before, two in, and one after a click or a row that fails.
`MaxKeys` = 3 keys let a search, its undoing and another one follow each other; clicks, pastes,
reloads and scrolling are not bounded.  Three levels of nesting distinguish "inside" from "directly
inside".  Two tabs are the least that share a storage.

`CHECK_DEADLOCK FALSE` for the runtime and the playground: a program may end, wait for ever (`sleep`
without a duration, a receive nobody answers), and so may the process; a page that was left, with
no program running, does nothing more.

Next to some definitions stands a *faulty variant* (`FirePersists` beside `Fire`): the same
operation with a plausible bug.  No specification uses them.  Substituting one for the definition
it varies must make the property named in PROJECT.json fail, which shows that the property can.

### Disagreements found

Two runs expect a violation; PROJECT.json has the details under "findings".

* `select_mutex`: `Channel.select` on two channels puts the fiber into both wait
  queues.  If both channels move before it runs (one fiber sends to each), it is enqueued twice;
  `unwait` removes it from wait queues, not from the run queue.  The second resumption ends a
  `Mutex#lock` without the mutex.  Without select the same property holds (`channel_mutex`).  In
  the same way an unbuffered send may return without a receiver, which is why `Rendezvous` is
  checked only in the runs without select.
* `future_lazy`: a lazy future's block that waits is run once per getter, since nothing moves the
  state of a lazy future on before its block runs.

### Known behaviours

Seen while modelling, kept in the models as the code has them, excepted by the properties where
they matter, and contradicting no text of the repository plainly enough to be called disagreements.

Runtime.
* `Channel#close` does not wake blocked senders; a value handed to an unbuffered channel that is then
  closed is lost and its sender stays blocked; a channel of capacity 0 blocks every send.
* A select does not notice that a channel was closed; a select to send and a select to receive on an
  unbuffered channel do not meet.
* A cancel of a running future is overwritten by its completion.  A future that is neither lazy nor
  delayed is Running before its fiber has started (`src/concurrent/future.cr:75-77`): canceled then, it
  calls its block all the same and ends Completed.  This is why `CancelDrops` is about lazy and
  delayed futures.  An error of the block is swallowed
  when the type of the future includes nil (`src/concurrent/future.cr:109`).
* Fibers that hand a mutex to each other without sleeping keep the run queue filled; the event loop
  never runs, and sleepers, IO and signals starve.

Playground.
* A run that does not compile stops nothing (`server.cr:57-66`): the program of the run before runs
  on, its messages are dropped, and the page shows the play button; only the next run that
  compiles, or leaving the page, stops it.
* The server has no `on_close`: when the connection is lost, the program runs on.
* `connectLostShown` belongs to all sessions of a page: when one loses its connection, the others
  silently do not run any more, though theirs is fine.
* Play while the socket is connecting raises after the display was cleared.
* A `runtime-exception` on a line that has meanwhile been removed or emptied raises in the handler,
  as one without a text does; it is not shown.
* `turnError` cancels the last blink timer only; earlier ones expire later and do nothing because of
  `isError`, which is what `FailureShown` is about.
* Fibers that send to the page share one buffer without a lock (`src/io/buffered.cr:253`).  Messages
  can be written twice, and output can follow the exit of its program: `turnOnWithBlink` then turns
  the red indicator grey, though `views/_about.html:57` promises "an exit status and a" red
  terminal icon for a program that is stopped.  It never turns teal, as for a program that ran well.
* `Session#send` rescues `IO::Error`.  A failed write raises `Errno`, which is none: it ends the fiber
  that sends.  For the fiber of the page's socket this means that a stop which was already on its
  way is never read; `NothingLeftRunning` excepts it (`~serving`).
* The Gist button without a token opens `/settings.html`, which the server does not serve (it serves
  `/settings`).  That tab has a copy of its opener's `sessionStorage`: when it goes to the main page
  later, it shows the code as it was at the click, though other code was typed since.  `BackAndForth`
  covers such a tab, `StillThere` is about tabs without a copy.
* The table of a line whose values have names in part only does not open; a value without names
  makes no row in an open table with columns.
* A handler of the change event whose storage raises saves nothing and schedules no run
  (`application.js:39`); the empty code is not restored (`application.js:18`); two settings pages
  that are open together overwrite each other.

Types list.
* A text that is pasted or cleared with the mouse starts no search; a text that is no regular
  expression leaves the list as it was; a search for nothing closes all types, also those which a
  reload will open again.

### Fairness

`FairSchedSpec` and its likes assume weak fairness of the next-state relation (the processor does
not stop while a fiber can run, or a timer is pending) and strong fairness of each `Fire(f)`.  The
second is what libevent gives: expired timers are served in the order of time, so a pending one is
passed over only by the finitely many that expire before it.  It is strong, and not weak, because
`Fire` is enabled only while the loop fiber runs.  Nothing is assumed of the order in which fibers
become runnable: that order is the run queue's.

`FairPlaygroundSpec` assumes weak fairness of `SystemStep` as a whole: as long as a timer of the page
is pending, a message is under way, the server has something to do or a killed program has not ended,
one of these happens.  Nothing is assumed of the user, of programs that are not killed, or of
the network, which may or may not fail.  That one weak condition suffices rests on each of these
steps using up something (a message, a timer, a line of a program) of which the bounded user makes
finitely much.  `FairTypesSpec` assumes that the browser runs an expired timer.  `Pages` and
`Inspector` claim no liveness.

## 4. What is proved

Every safety invariant that a run checks is also a theorem, and so is every action property and the
refinement.  The theorems hold for every set of fibers, channels, mutexes and futures and every
programs; for every set of texts, outcomes and scripts of the playground and any bound on inputs,
messages and waiting fibers; for any number of tabs, codes and settings; and for every tree of types.  They rest on the
assumptions named in the modules (`SchedulerAssumption`, `StackAssumption`, `ChannelAssumption`,
`MutexAssumption`, `FutureAssumption`: the main fiber is a fiber, the loop fiber is not, nil is
neither a fiber nor a region, calls name fibers, channels, mutexes and futures; `ComputeAssumption`:
only the one fiber that the constructor of a future spawns computes it, and does nothing else;
`SocketAssumption`, `SessionAssumption`, `ServerAssumption`, `InspectorAssumption`, `PagesAssumption`,
`TypesAssumption`: texts have lines, the names of a value are a sequence, the empty code is a code, a
field that was loaded loads the same again, what is around a type is around what is inside it).

Three theorems about channels, `ChannelRendezvous`, `ChannelOneWakeup` and `ChannelNoLostWakeup`,
have `NoSelect` as a hypothesis, that no program calls `Channel.select`.  It cannot be dropped: a
select leaves a fiber in the run queue after it has gone on (the finding of `select_mutex`), and
such a resumption ends the last wait of an unbuffered send, or resumes a fiber twice.
`ChannelNoLostWakeup` needs, too, that a buffered channel has room for one value: with
`Channel::Buffered.new(0)` a send finds the queue full and a receive finds it empty, and both wait
beside each other for ever.  `FutureBlockOnce` has the hypothesis that no lazy future has a block
that waits; `future_lazy` shows what happens otherwise.  All other theorems have none.

* `SchedulerProofs`.  `SchedInv` (types, `OneWakeup`, `NoneLost`, `LiveCurrent`) is inductive.
  `OneWakeup` alone is not: that the fiber which `Reschedule` takes is alive and not due a second
  time needs the absence of duplicates in the run queue, and the absence of duplicates needs that
  nobody who runs is queued.  The lemmas say what `Reschedule` and `Enqueue` do to the positions
  of a fiber in the run queue, and what `WakeAll` and `SwitchTo` keep of the invariant; the other
  modules reuse them.
* `FiberStacksProofs`.  `StackInv` is `StackOwned` and `NoLeak` together, over typed heaps.  Each
  piece of the code (`Allocated`, `Linked`, `Pooled`, `Unlinked`, `Rescheduled`, `Collected`) has a
  lemma: it turns a heap whose regions are owned by the fibers of a set L into one whose regions
  are owned by L with one fiber more or less.  The steps then only say who is live.  This covers
  the moment at which a fiber that ends creates the loop fiber on the stack it stands on.
  `RootsFound` says that a walk along `next_fiber` meets every live fiber; its invariant `ListInv`
  has the list as a whole: there is a sequence of the live fibers, each once, through which `first`,
  `last`, `next` and `prev` run both ways, and a fiber not yet created links to nothing.  Linking
  appends to that sequence, unlinking takes one out, at either end or in between; the walk along
  a finite such sequence then visits exactly its members.
* `ChannelProofs`, the values.  `Fifo` with types is inductive, for *every* use of a channel, select
  and stray resumptions included: whatever wakes a fiber, the guards of its next step protect the
  contents.  Refinement: every step of `ChanNext` is `Accept`, `Deliver`, `Shut` or a stutter of
  `FifoChannel`; the bound on what is in transit comes from `NoRoom`.
* `ChannelProofs`, waiting without select.  `ChanInv` says where everybody is.  Whoever is in a wait
  queue is in one only, once, and nothing else will resume it (`Parked`); a value in an unbuffered
  channel belongs to a fiber that waits until it is taken (`Handing`, from which `Rendezvous`
  follows).  On an unbuffered channel the two sides resume each other directly, past the run queue,
  which `Served` describes: a fiber inside a wait loop that is due to run was released by `close`, a
  running one finds what it waits for, and senders and receivers are queued together only while the
  one sender that was resumed serves the one receiver.  Without that, a fiber that comes back from
  its wait could wait again and be forgotten.
* `ChannelProofs`, waiting with select.  `Level` says that nobody waits at a buffered channel for
  what it has; `SelectInv`, that a fiber inside a select which nobody is going to resume is in the
  queue of each of its operations.  Both are inductive for every program, since a step takes a fiber
  from a queue only to resume it, or because that fiber itself leaves its select (`Deque#delete`,
  `WithoutIs`).  `NoMissedSelect` follows from them at rest, and `NoLostWakeup` from `Level` for the
  buffered channels and `Served` for the others.
* `MutexProofs`.  `MutexInv` strengthens mutual exclusion by `NoLostMutex` (a waiter is due to run
  exactly when it was made the owner, and queued exactly until then), by the distinctness of the
  queue, and by the fact that a mutex that was just handed over has no recursive locks.  Exclusion
  needs all of that, because `lock` trusts its resumption.  The scheduler's own steps are covered by
  one frame lemma.
* `FutureProofs`.  `FutureInv` adds to `CancelDrops` and `NoCompilerBug` which kinds of futures can be
  in which state (`Kinds`: only a lazy one is Idle, only a delayed one Delayed), and that a closed
  channel or a completed state comes with a value, an error or a cancel (`HasAnswer`), in whichever order
  cancel, the delay and the end of the block come.  `OnceInv`: a future that is not made, or is idle,
  and one whose fiber is still to call the block, has not run.
* `PlaygroundProofs`.  `FreshDisplay` needs to know what is under way: `FreshInv` adds types and
  `Provenance`, which says that every request, compilation, process and message is *known*: its
  execution has an earlier number than the page's, or is the one asked for last.  A run raises the
  number, so what was fresh becomes earlier and is dropped; a message passes `Current` only if it is
  that execution's.  `PlaygroundTypeOK` comes from the same invariant, `Bounded` giving the lines.
  `NoStrayProcess` is inductive given it.  What the server writes is treated as a set: `Due`, what is
  in the socket or left to a fiber that waits, is in `Messages`, which has the shared buffer too.
  `Flushed` says that a flush loses nothing of what it has left, `Written(new)` what a step that sends
  the messages `new` does: nothing that was due is lost, and nothing comes but `new` and what was in
  the buffer.  `ButtonsAgree` and `FailureShown` need that the run asked for last is at one stage
  (`OneStage`): its request is under way, or it is being compiled, or its program has not answered, or
  it is finished.  Only the first three exclude each other and an answer under way; of a finished run
  several copies of the answer may be, since fibers write one another's messages.  `FailureSeen` is
  what the page keeps from the first exit on, in whatever order output and further exits follow.
* `PagesProofs`, the pages.  `CodesInv`: a main page shows what was typed in its tab, a tab that has
  left it keeps that in its own storage, one opened by a page keeps what that page had saved, a new
  one keeps nothing, and what tabs share is
  what was typed or left last.  The two action properties follow from it at `OpenMain`.  `SettingsInv`:
  every open settings page *means* what was chosen, so that saving all of it does no harm; this needs
  that what a field makes of a stored value, it makes of it again (`PagesAssumption`).
* `PagesProofs`, the inspector.  `TypesInv` distinguishes "all types seen are equal" from "two differ",
  which a null alone does not.  `RowsInv` types the rows over the columns of the table.  `TableInv`: the
  columns of an open table of values with the same names are these names, although they were collected
  before the later values came; `LabelsAre` says what `dataLabels` collects from such values.
* `TypesListProofs`.  `ShowsWhatIsAsked` is inductive given types; `ReloadKeepsOpen` follows from
  `OpenIsStored`, the agreement of the class `open` and the storage until a search; `MatchesInSight`
  from the transitivity of "inside".

Four operators are recursive functions: the walk along the list of fibers (`Walk`), `Deque#delete`
(`Without`), and the collection of the columns (`Unseen`, `LabelsOf`).  The library's induction theorems
take an operator and cannot be instantiated here; the lemmas about these four take the least index at
which they would fail instead (`LeastOf`, `Least`, from the well-foundedness of `<`), and build the
function that solves the equations.  What they say is what the theorems need and no more: `LabelsAre`,
for example, is about values with the same names.

Only model-checked: all liveness (`SleepersWake`, `RunnablesRun`, `ClosedReleases`, `WaitersLock`,
`GetsAnswered`, `PoolDrains`, `Converges`, `StopAnswers`, `NothingLeftRunning`, `SearchSettles`), since
the prover does not handle fairness; and the composition `ChannelMutex`: the theorems are about
programs with channels or mutexes, the run `channel_mutex` also about fibers that use both.

## 5. Plan

Next, in this order.

1. Proofs: the composition `ChannelMutex` without select (the steps of one keep the queues of the other,
   as `ListsKeep` and the frame lemma of `MutexProofs` say of the scheduler).
2. `FileDescriptor`: readers, writers, time-outs and close over the scheduler, with the writers of
   `PlaygroundSocket` as an instance.
3. `ChildWait`: SIGCHLD, `Process#wait` and its lazy future over `Future` and `Channel`; the signal
   handler's pipe and fork.
4. `ManyUnits`: the compiler's parallel code generation as a program over `Channel`, with a
   generation that raises.
5. `DequeRing`: the ring buffer of `src/deque.cr`, which the modules above take for a sequence, as a
   refinement of one.
6. `AtExit`, `WebSocketStream`, and the propagation of types.

## 6. Not modelled

The parts of the plan above that have no module yet: `IO::FileDescriptor` (apart from the writers of
the playground's socket), signals and children,
`at_exit`, parallel code generation, `Deque`, the framing of websockets, type propagation.  Of the
playground: layout, dialogs, the rendering of text, the answer of github.com to a gist, the download of
a file, and the transformer that instruments programs, which is a transformation of syntax trees.

Neither modelled nor planned: front ends, macros and code generation of the compiler (sequential transformations of
unbounded data), formats and bindings (pure functions, foreign code), `Thread` (unused by the
runtime in this version).
