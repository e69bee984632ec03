# Verification of openpowerlink-py

openpowerlink-py runs an openPOWERLINK Managing Node (MN) inside a Python
process. A small C shim (`src/native/oplkwrap/oplkwrap.c`) wraps the
openPOWERLINK library, `src/src/openpowerlink/stack.py` starts, supervises and
stops it, and `api.py` gives an application named inputs and outputs. What is
hard about it is what happens between threads: the stack's own sync thread
exchanges the process image with the network once per cycle while Python
threads copy windows of it; the stack's event callback latches flags that
Python polls; and a supervisor thread, the application, failing calls and
KeyboardInterrupts meet in `start()` and `stop()`.

This directory models that, checks the models with TLC on small instances and
proves the main results with TLAPS for every instance.

## 1. Inventory

| Component | State it keeps | Operations | Talks to |
|---|---|---|---|
| Shim, process image (`oplkwrap.c`) | `pPiIn_l`, `pPiOut_l`, `piInSize_l`, `piOutSize_l`, the image memory, `ioMutex_l`, `mutexReady_l` | `plw_read_pi_out`, `plw_write_pi_in`, `plw_read_pi_in`, `plw_alloc_pi`, `processSync` | called by Python threads through ctypes (no GIL) and by the sync thread |
| Shim, lifecycle and events (`oplkwrap.c`) | `status_l`, `mutexReady_l`, the stack below | `plw_init`, `plw_load_cdc[_file]`, `plw_start`, `plw_process`, `plw_check_stack`, `plw_stop`, `plw_shutdown`, `processEvents`, `plw_status` | called by `PowerlinkStack`; calls `oplk_*`; called back in the stack's context |
| `PowerlinkStack` (`stack.py`) | `_started`, `_stop_evt`, `_thread`, `_lock` | `start`, `_supervise`, `wait_operational`, `stop`, raw and typed I/O | the shim; one daemon thread per session |
| `PowerlinkIO` (`api.py`) | channel tables | `read_di`, `write_do`, `write_do_all`, `read_ai`, `write_ao`, `status`, `is_alive` | `PowerlinkStack` |
| Codec and scaling (`stack.py`, `scaling.py`) | none | `_encode_int`, `_decode_int`, `Scaler` | pure |
| `xap.py` | none | `parse_xap` | pure, XML library |
| CDC tools (`scripts/fix_cdc.py`, `dump_cdc.py`) | none | `fix` | files |
| Command line tool (`cli.py`) | none of its own | `run`, `read`, `watch`, `do`, `ao`, `ifaces` | the API |
| Diagnosis scripts (`scripts/diag.py`, `scripts/cndiag.py`) | `reached_op`; the sniffer's counts; signal masks | `main`, `Sniffer.run` | `PowerlinkStack`, a raw socket |
| RT signal masks (`plw_block_rt_timer_signals`, `cndiag.py`) | the mask of each thread | block, inherit | the stack's timers |
| Loader (`_loader.py`) | search paths of the process | `platform_tag`, `load` | the files a wheel installed |
| Bindings (`_wrap.py`) | none | argument and field types | ctypes |
| Wheel builder (`scripts/build_wheels.py`) | the directory of native binaries, `dist/` | hide, build, restore, name | files, pip |
| openPOWERLINK (not in the repository) | NMT state machine, event queue, kernel part | `oplk_*` | network |

What makes each one correct, and where it is hard:

- **Process image.** Every read, write and cycle must look as if it happened at
  one instant: no torn read, no half-written output on the wire. The check of
  pointer and size is made *before* the mutex, so it must stay true until the
  copy ends. A cycle whose exchange fails must still release the mutex.
- **Lifecycle.** Never two supervisors, never a supervisor on a stack that is
  gone, never `_started` over a half-built stack, nothing native left when
  `_started` is given up. `wait_operational()` must not answer from an old
  session. Every method must return.
- **PowerlinkIO.** `write_do` is a read-modify-write of a byte by two calls;
  `read_di` reads a byte once per bit.
- **Codec.** Values at the edge of a width; signedness is known when decoding
  and not when encoding.
- **Programs.** Their I/O must fall between a complete `start()` and the
  `stop()`, Ctrl+C and failures included; the timer signals of the stack must
  not reach a Python thread; a verdict must be about what happened.
- **Wheels.** Binaries are moved out of the way and back around a build that may
  fail; what one run leaves, the next one finds.
- **Status.** A struct copied without a lock; a 32-bit heartbeat that wraps; one
  CN flag for all nodes.

`PROJECT.json` lists every hazard with its line under `hazards`.

## 2. Modules

```
ImageData ---- AtomicImage            what the shim promises of the image
    \               ^ implements
     \--- ImageExchange               how oplkwrap.c and stack.py do it
              ^ MCImageExchange       small instances
              ^ ImageExchange_proofs <- ImageRefinement_proofs

Lifecycle                             what stack.py promises of a native stack
^ implements OplkWrap ---- PowerlinkStack          stack.py over the shim's
lifecycle                     ^ PowerlinkStack_proofs                     ^
StackTools      cli.py, diag.py, cndiag.py over it
     ^ StackTools_proofs              uses PowerlinkStack_proofs

ChannelCodec, Xap ---- PowerlinkIO    api.py over the image, call by call
                            ^ MCPowerlinkIO     a small instance
                            ^ PowerlinkIO_proofs

StatusLatch                           status_l, its writers and its readers
     ^ StatusLatch_proofs

CdcTools                              fix_cdc.py, dump_cdc.py
     ^ CdcTools_proofs

Wheels                                build_wheels.py and _loader.py
     ^ Wheels_proofs
```

### ImageData, AtomicImage

The image is two byte buffers named as openPOWERLINK names them: `in` carries
the outputs of the MN to the CN (`pPiIn_l`), `out` the inputs (`pPiOut_l`). A
request is an operation with a window (offset, length); a read hands in a zeroed
buffer, as `_read_input` does. `AtomicImage` is the contract: a call is invoked,
takes effect at one instant (`Transfer`) or is refused (`Refuse`), and responds;
a cycle (`Exchange`) replaces the `out` image and puts the `in` image on the
wire at one instant, or fails half-way. An image is attached, and taken away in
two steps: `Detach`, never under a call but maybe under a cycle, and `Leave`,
after the last cycle. In between (`phase = "leaving"`) a cycle may send anything
(`Spoil`): nothing is promised of what it puts on the wire.

### ImageExchange

| State | Code |
|---|---|
| `ptr`, `size`, `mem`, `mutexReady`, `life` | `pPi*_l`, `pi*Size_l`, the stack's memory, `mutexReady_l`, the place of the set-up thread between `plw_init` and `plw_shutdown` |
| `img`, `wire`, `heartbeat` | image memory, what the CN was sent last, `status_l.heartbeat` |
| `pyOwner`, `ioOwner` | `PowerlinkStack._lock`, `ioMutex_l` |
| `pc`, `req`, `buf`, `pos`, `count` | each Python thread: its place in the call, its request, ctypes buffer, `memcpy` position and return value |
| `syncPc`, `syncPos`, `outcome`, `frame` | the sync thread in `processSync` |

Actions: `Call`, `TakePyLock`, `Check`, `Lock`, `CopyByte`, `Unlock`, `Return`
are the three I/O calls (`oplkwrap.c:349-377`, `stack.py:204-217`);
`SyncEvent` ... `SyncDone` are `processSync` (150-169); `PlwInit` ...
`DestroyMutex` are the parts of `plw_init`, `plw_alloc_pi` and `plw_shutdown`
that concern the image, one statement per step. `memcpy` and the exchange
functions move one byte per step.

The constant `Disciplined` says whether the application keeps its I/O calls and
`plw_shutdown` apart. The code does not do it: `plw_shutdown` takes no lock.
With `Disciplined = TRUE` no call is in progress when the image is freed and
none starts until the mutex is destroyed; with `FALSE` everything may overlap.
It is about calls only. A cycle may be anywhere when the image is freed
(`FreeImage`), under either value: `stop()` ignores the answer of `plw_stop` and
sleeps for 0.2 s, or less after Ctrl+C (`stack.py:179-183`). Only then does
`oplk_destroy` wait for the sync thread (`ClearPointers`), which is assumed of
it. A cycle on a freed image reads and writes memory that is no longer its own;
that this may also crash the process is not modelled.

### OplkWrap, PowerlinkStack

`OplkWrap` has the shim's lifecycle calls with every outcome they can have, the
event callback, and the stack below as an external environment: the MN obeys
posted NMT commands, reaches and leaves Operational, queues API events, and its
kernel part may die. `PowerlinkStack` is `stack.py`, one step per statement that
changes state or calls native code: `Start*` (93-130), `Stop*` (171-184),
`Wait*` (142-169), `Supervisor*` (132-140). `_check` (62-64) leaves `start()`
with nothing undone. `Interrupt` is a KeyboardInterrupt between any two
statements of the application thread; inside the `try` of `stop()` it leads to
the `finally`, elsewhere out of the method. `JoinMayTimeOut`, `CallsMayFail` and
`ThreadStartMayFail` switch the failures on.

`Lifecycle` is the contract: a native stack is built, promised (`_started`),
watched by a supervisor, unwatched, taken down and released, in this order and
no other. `PowerlinkStack` maps `native` to what of stack, image and mutex
exists (`Native`), `promised` to `_started` and `watched` to a living
supervisor. The contract has no interrupts and no failures, and the code must
keep it in spite of them: what a failed `start()` has built stays "partial" or
"up", unpromised; a `stop()` that an interrupt left may be repeated, and takes
down what is down already as a stutter.

Assumed of openPOWERLINK, whose sources are not in the repository: a stack that
was initialised and not shut down cannot be made again; `oplk_destroy` ends the
sync thread and the events; cycles come only after the image is linked; without
a created stack `oplk_checkKernelStack` may answer either way; API events arrive
in order.

### ChannelCodec, Xap, PowerlinkIO

`ChannelCodec` has the operators on bytes: `EncodeInt` and `DecodeInt`
(`stack.py:234-243`), the bit operations of `write_do`, and `VoltsToRaw`
(`scaling.py`), for bytes of `ByteBits` bits. Powers of two are a recursive
function, `TwoTo`, and `Magnitude` a sum by recursion, so that both can be
reasoned about; `Values(n)` is the number of values of n bytes. `Xap` is `parse_xap` as an
operator from the elements of a document to the channel lists; XML is left to
the library. Both are pure; `PowerlinkIO` composes them.

`PowerlinkIO` is `api.py` with its channel tables (`DiBits`, `DoBits`, `Ai`,
`Ao`). One call of the shim is one step, because `ImageExchange` implements
`AtomicImage`: the call takes effect at one instant. What the Python methods
make of several calls is modelled call by call: `write_do` is `ReadBack` and
`WriteBit` (109-115), `write_do_all` is a list of such pairs that an IndexError
may cut short (`RaiseIndexError`), and the readers take one call per *element*,
so `read_di` reads a byte once per bit (`ReadElement`). `Exchange`, `Attach` and
`Detach` are the contract's cycle, link and shutdown. `asked` is history: what
was last written to each output in this session.

Two things the code takes for granted are named. `Owners`: each output byte is
driven by one thread. Without this rule a `write_do` between another one's read
and write loses a bit; nothing in `api.py` prevents it. `LayoutAssumption`: a
digital output channel is at most a byte wide and output channels do not
overlap (comment at `api.py:55`); it also says of which type the channels of a
document are (`xap.py:28-40`). `ImageAssumption` and `ValuesAssumption` give the
types of the instance's images and of what callers pass.

### StatusLatch

`status_l`, a struct that nothing locks. `PlwInit` clears it, `SyncBeat` and
`SyncCount` are the two increments of `processSync`, `EventBegins` and
`EventStores` are `processEvents` store by store. A reader copies the struct
field by field, in any order (`CopyField`): once for `status()` (`CallStatus`),
twice with a sleep in between for `is_alive()` (`CallIsAlive`, `Asleep`,
`Awake`). A copy made for `is_alive()` keeps the heartbeat only. `cycles`,
`anew`, `clean` and `quiet` are history. Of openPOWERLINK it is assumed that
callbacks begin with `oplk_create` and end before `oplk_destroy` returns.

`plw_init` clears the struct unconditionally, and `PlwInit` has no guard: when an
interrupt ends `start()` between `plw_start` and `_started = True`, the next
`start()` clears it under the callbacks of the stack that runs. It may fall
between the load and the store of `heartbeat++` (`SyncLoad`, `SyncBeat`), which
then brings the old count back (`Overtaken`). The counters and flags may disagree
from there on to the end of the session, so `QuietSnapshotAgrees` is about
sessions whose `plw_init` found no stack (`clean`).

### StackTools

The programs that run a stack, one process each, over `PowerlinkStack` itself:
the subcommands of `pl`, and the scripts `diag.py` and `cndiag.py`. `MakeStack`
is the constructor; `EnterWith`, `Entered`, `LeaveWith` and `Left` are
`__enter__` and `__exit__` for `pl`, and the explicit `start()` and
`finally: stop()` of the scripts. `Body` lists the statements of each program,
`LoopFrom` says where its loop begins, and `TimeIsUp` ends the timed loops of the
scripts. A write may raise (`StatementRaises`); Ctrl+C may come in the body
(`CtrlCInBody`), in `start()` and `stop()` (`CtrlCInMethod`), and in the places
that no `try` covers (`CtrlCOutside`): before the `try` of a script, just before
the first statement of `stop()`, and after it.

- *Masks.* `open` is the set of Python threads that do not block the stack's
  timer signals. A thread inherits the mask of the one that starts it
  (`Inherited`); `cndiag` blocks them before it starts its sniffer
  (`BlockSignals`), the others when `plw_init` does (`MethodStep`).
- *Wire and sniffer.* `Frame` is a frame of the MN or of another station; the
  sniffer may count it (`ProvesCn`) or miss it, and a CN answers only what was
  sent. The sniffer ends when it is told to, or when its socket fails
  (`SnifferEnds`). `JoinSniffer` leaves open which release of CPython runs the
  script: see finding 4.
- *Verdict.* `Sampled` is `reached_op`; `Diagnosis` is what the script reports,
  from `reached_op`, the sniffer's counts and the NIC's own counter, which may
  have counted packets of others, and which is -1 when it cannot be read
  (`NicRose`).

`BodyOverImage` is the programs' side of the bargain that `Disciplined` stands
for. `pl ifaces` needs no stack and is left out, and so are the tallies the
scripts print.

### Wheels

`build_wheels.py` as it moves directories: `where` says of each directory of
`_native/` whether it is there, in the temporary directory, or lost, `built`
which of the two libraries (`Libs`: shim and stack) it holds, `pure` and
`dist` are the wheels in `dist/` before and after they are named for a platform;
pip names a wheel for its version, so that `pure` has one of each at most, and a
build overwrites it. `Latest` is the newest by modification time, which is the
one of the highest version: `NewVersion` only counts up, and a build of an old
version comes before any of a new one.
`RunScript`, `BeginOne`, `Refuse` and `MainReturns` are `main` and the checks of
`build_one`; `Hide` and `AllHidden` the moves before the `try`; `Build` and
`BuildFails` the build in it; `Restore` and `AllRestored` its `finally` and the
end of the `with`, which deletes the temporary directory; `Retag` is
`_retag_latest_wheel`. `HideCut` and `RestoreCut` are a move that fails or that
Ctrl+C cuts short, which may leave any part of a directory on either side, `Killed` a process that ends without its `finally`. The
script may be run again after each of them, also at a new version.

`_shared_files` is content with one library (`Present`), and the loader needs
both: `load()` tests for the shim's file, and the dynamic linker wants the stack
beside it (`Loads`). `LooksFor` is `platform_tag` of `_loader.py`. That pip
builds a wheel of what is in the tree, and installs a wheel on the machines its
tag names (`Admits`), is assumed.

### CdcTools

A file is the entry count of its header, the entries, and the bytes left over
(`fix_cdc.py:30-43`). `Fix` sets EXISTS, IS_CN and START_CN in each
NodeAssignment and makes the count right; `Refused` is the exit with status 2;
`NodesAsCn` is what `dump_cdc.py` lists, and `Replayed` what the stack replays.
`Next` runs `fix_cdc.py` in place, any number of times.

## 3. What the runs check

| Run | Instance | Shows | About |
|---|---|---|---|
| `image_calls` | 2 threads, `in` 2 bytes, `out` 1 byte, 2 byte values, windows <<0,2>> and <<0,1>>, fairness | `TypeOK`, `Exclusion`, `AccessOnlyLinked`, `AtomicSpec`, `MutexReleased` | 1 654 528 states, 185 s |
| `stack_lifecycle` | 2 sessions, 2 queued events, 2 polls, 2 interrupts, all failures, joins return, fairness | `TypeOK`, `SupervisionDiscipline`, `StartedMeansUp`, `WaitTrueIsFresh`, `FlagsTellTheMn`, `SupervisedUntilDeath`, `GivenUpMeansGone`, `LifecycleSpec`, `DeadKernelEndsSupervision`, `CallsEnd` | 435 426 states, 50 s |
| `io_outputs` | 2 threads, bytes of 2 bits, three digital outputs in two bytes, one signed analog output, inputs, a channel outside the image | `TypeOK`, `OutputsKept`, `OwnOutputsReadBack`, `OnlyThatBit` | 2 244 421 states, 60 s |
| `status_latch` | 1 reader, heartbeat modulo 2, 2 cycles, every event | `TypeOK`, `AliveCountsCycles`, `QuietSnapshotAgrees` | 11 909 588 states, 105 s |
| `cli_command` | each program, 1 queued event, 2 interrupts, all failures, joins return, fairness | `ToolTypeOK`, `BodyOverImage`, `LeavesNothing`, `OnlyTimersTick`, `VerdictSeen`, `BlamesRightly`, `CommandEnds` | 204 677 states, 25 s |
| `wheels` | 4 directories of `_native/`, one of them without a tag and another that may hold one library only; 2 runs, 2 versions, 2 named platforms | `TypeOK`, `BinariesKept`, `NoOtherTagged`, `ExitZeroDelivers`, `InstalledLoads` | 10 882 422 states, 100 s |
| `cdc_fix` | every file of up to 2 entries, counts up to 2, up to 1 byte left over | `TypeOK`, `FixedStartsEveryNode`, `FixChangesNothingElse` | 88 544 states, 1 s |
| `image_threadsafe` | as `image_calls`, `Disciplined = FALSE` | `ThreadSafeAccess` is violated | finding 1 |
| `stack_failed_start` | calls may fail | `StoppedMeansDown` is violated | finding 2 |
| `stack_dead_wait` | nothing fails but the kernel | `WaitNoticesDeath` is violated | finding 3 |
| `cndiag_report` | `cndiag` and the others, nothing fails, no interrupt | `CnDiagAnswers` is violated | finding 4 |
| `wheels_untagged` | 2 directories, one of them without a tag; 1 run | `OwnBinariesOnly` is violated | finding 5 |

**Bounds, and why they are enough.** Two bytes are the least that can be torn,
two byte values the least that can tell a torn read from a whole one, and two
threads plus the sync thread the least for two writers and a reader to meet. A
one-byte `out` image with a two-byte window makes a request that does not fit.
The heartbeat wraps at 2 so that wrapping happens. Two sessions are what a
restart needs; two queued events let one overtake a poll; two interrupts allow
one in `stop()` and another in the `stop()` that repairs it. `MaxSessions`
bounds the threads created (`start()` is not called once they are used up). The
programs start one session each. Two runs of the wheel builder at two versions
let a pure wheel that a failed build of the old version left meet the build of
the new one, and let a run that was killed be followed by another; three
platforms are one more than a run names, and the fourth directory is one that
`build_wrapper.sh` makes on an armv7l machine and the script has no tag for.
Bytes of two bits hold two channels, which is what a read-modify-write can
confuse, and make a signed value of one byte and an unsigned one differ.
`MaxCycles` is the modulus of the heartbeat, so that a reader can miss a whole
round; one reader is enough, as readers change nothing that others see. Two entries let a header count be too small, right and too
large. `MaxPolls` stands for the timeout of `wait_operational`, whose deadline
may pass at any poll. No run switches the deadlock check off.

**Fairness.** `CriticalFairness`: the thread that holds the cycle mutex, of which
there is one at most, goes on (`CriticalStep`); it executes `memcpy` or returns from a stack call and blocks on nothing. No
fairness is assumed of acquiring a lock or of the network. In `FairSpec` of
`PowerlinkStack`: a method that was called goes on, and so does each supervisor
(`plw_process` returns, `Event.wait` ends after its interval). `FairToolSpec`
says the same of the programs, whose bodies go from statement to statement; its
strong fairness of `TimeIsUp` says that a `while` on the clock that is reached
again and again ends (`diag.py:106`, `cndiag.py:165`). Nothing obliges the
application to call, the MN to reach Operational or the kernel to die.

### Findings

1. `image_threadsafe`: `oplkwrap.h:116-117` calls byte access thread-safe; a
   call that passed its check before `plw_shutdown` copies from or to memory
   that is freed, under a mutex that is destroyed.
2. `stack_failed_start`: when `start()` fails after `plw_init` (TLC's trace: the
   CDC does not load), `stop()` does not shut the stack down, because `_started`
   is still False. The stack stays created until the process ends: a second
   `start()` cannot create it again. `StoppedMeansDown` is about a created stack;
   when `oplk_create` itself refuses, the library stays initialized, too, and
   that is not held against `stop()`.
3. `stack_dead_wait`: `wait_operational()` reads the flags before it asks for
   the supervisor, and answers True from the flag that a dead stack left set.
4. `cndiag_report`: `Sniffer` is a `threading.Thread` and keeps an Event in
   `self._stop` (`cndiag.py:74`), the name of a method that `Thread.join()` of
   CPython up to 3.12 calls once the thread has ended. `sniffer.join()` raises a
   TypeError there, and neither summary nor verdict is printed.
5. `wheels_untagged`: "Each wheel must ship ONLY its own `_native/<platform>`"
   (`build_wheels.py:3`, `_native/README.md:12`), but a directory that is not in
   `PLATFORM_TAGS` is never hidden (line 59) and ships in every wheel.
   `build_wrapper.sh` makes one, `linux_armv7l`, when it is run on such a machine
   without a second argument. Of directories with a tag the sentence holds:
   `NoOtherTagged`.

Two more sentences are contradicted in the model's states, and no run is kept for
them. `diag.py` "always shuts the stack down on exit" (`diag.py:19-20`), but not
when Ctrl+C comes in `start()` (89) or before the `try` at line 105, nor after a
`start()` that failed (finding 2). `_nic_counters` is "kernel truth"
(`cndiag.py:118`), but answers -1 for a counter it cannot read: two such answers
differ by 0, line 195 takes that for a NIC that did not send, and with a sniffer
that missed the MN's frames `cndiag` reports a problem of the NIC although it
sent. `LeavesNothing` and `BlamesRightly` say what holds: the one is about
programs that got into their body, the other about counters that could be read.

Some behaviours no sentence of the repository speaks against are recorded here
without a run. In the lifecycle: `stop()` does not look at the outcome of
`join(timeout=2.0)`, and goes on to `plw_shutdown` with the supervisor still in
a native call that outlasts it. When `Thread.start()` raises, `_thread` names a
thread that cannot be joined: every later `stop()` raises and none reaches
`plw_shutdown`. When an interrupt falls between `plw_shutdown` and `_started =
False`, the next `start()` returns at once over a stack that is down; this is
why `StartedMeansUp` and `FlagsTellTheMn` are stated for runs without an
interrupt. The next `start()` after an interrupt between `plw_start` and
`_started = True` clears `status_l` under the callbacks of the stack that runs.
When `stop()` frees the image in the middle of a cycle, that cycle may send
anything. Two threads in `write_do` on bits of one byte can lose one of them. A
restart between the read and the write of a `write_do` puts the old byte into
the new image (`OnlyThatBit` is about writes within one session). A channel that
does not fit its image reads 0, and writes to it are dropped. A value from 32768
to 65535 is accepted for a signed 16-bit output and reads back negative. The
bits of one byte in a `read_di` may come from different cycles. `fix_cdc.py`
sets the CN bits in every NodeAssignment of 4 bytes, that of the MN itself
included, and leaves one of another size as it is. `pl
do` and `pl ao` write at once after `start()` and stop 0.2 s later, whether or
not the MN has reached Operational by then; the repository's README advises to
gate on `wait_operational()`.

In the scripts: a sniffer whose
socket fails ends without a word, and the verdict then says that no CN answers.
The docstring of
`diag.py` (10-11) is about other state codes than its code compares with, a text
no property is about. Threads that an application starts before `start()` are not covered by the mask
that `plw_init` sets.

In the wheel builder: a move that fails, or that Ctrl+C cuts short, deletes the
binaries that are in the temporary directory by then, and a process that is
killed leaves them there, so that a later run without arguments silently builds
fewer wheels. A directory with one of the two libraries is built like any other,
and its wheel does not load. A 32-bit Python on a 64-bit ARM
kernel is offered the armv7l wheel, and its loader looks for `linux_aarch64`.

## 4. What is proved

TLAPS checks these for every value of the constants.

| Theorem | States | Assumes |
|---|---|---|
| `TypeCorrect` | `Spec => []TypeOK` of the image | sizes and lengths positive, `Zero` a byte |
| `LocksExclude` | `[]Exclusion` | the same, also when calls overlap shutdown |
| `AccessIsSafe` | `[]AccessOnlyLinked` | `Disciplined` |
| `ImplementsAtomicImage` | `Spec => AtomicSpec`: the exchange implements the contract | `Disciplined` |
| `StackTypeCorrect` | `[]TypeOK` of the lifecycle | |
| `StartedIsUp` | `[]StartedMeansUp` | |
| `SupervisedWhileItLives` | `[]SupervisedUntilDeath` | |
| `TrueIsFresh` | `[]WaitTrueIsFresh` | |
| `FlagsFollowTheMn` | `[]FlagsTellTheMn` | |
| `OneSupervisor` | `[]SupervisionDiscipline` | joins do not time out |
| `NothingLeftBehind` | `GivenUpMeansGone` | joins do not time out |
| `ImplementsLifecycle` | `Spec => LifecycleSpec`: `stack.py` implements the contract | joins do not time out |
| `ToolsTypeCorrect` | `ToolSpec => []ToolTypeOK` of the programs | |
| `BodiesOverImage` | `[]BodyOverImage` | |
| `TimersAlone` | `[]OnlyTimersTick` | |
| `BlameIsRight` | `[]BlamesRightly` | |
| `NothingOutlivesTheTool` | `[]LeavesNothing` | joins do not time out |
| `VerdictsAreSeen` | `[]VerdictSeen` | joins do not time out |
| `LatchTypeCorrect` | `[]TypeOK` of the status struct | heartbeat range positive |
| `QuietSnapshotsAgree` | `[]QuietSnapshotAgrees` | the same |
| `AliveAnswersForCycles` | `[]AliveCountsCycles`, for a heartbeat of any range | the same |
| `WheelsTypeCorrect` | `[]TypeOK` of the wheel builder | finitely many directories |
| `BinariesAreKept` | `[]BinariesKept` | the same |
| `WheelsShipTheirOwn` | `[]NoOtherTagged` | the same |
| `ZeroMeansDelivered` | `[]ExitZeroDelivers` | the same |
| `LoaderFindsItsBinaries` | `[]InstalledLoads` | the same |
| `IoTypeCorrect` | `[]TypeOK` of `PowerlinkIO` | `LayoutAssumption`, one writer for each output byte |
| `OutputsAreKept` | `[]OutputsKept` | the same |
| `OwnOutputsAreReadBack` | `[]OwnOutputsReadBack` | the same |
| `OnlyThatBitChanges` | `OnlyThatBit` | the same |
| `DecodedRepresentable` | a value in the range of its channel's type comes back as itself | |
| `EncodedAgain` | what came back of any integer encodes to the same bytes | |
| `WrittenBit` | setting or clearing a bit changes no other bit of an integer | |
| `CdcTypeCorrect` | `[]TypeOK` of the CDC tools | no more entries than the count can say |
| `FixedFilesStartNodes` | `[]FixedStartsEveryNode` | the same |
| `FixingKeeps` | `FixChangesNothingElse` | the same |

"Joins do not time out" is `~JoinMayTimeOut`: no native call of the supervisor
outlasts `join(timeout=2.0)`. The code does not see to that, and TLC finds all
five statements violated without it. The theorems that do not assume it hold
whatever times out. All of them hold with failing calls, a failing
`Thread.start()` and any number of KeyboardInterrupts, as far as the property
itself does not speak of runs without one.

**The image.** The inductive invariant `Safe` is `TypeOK` with `InBounds` (a
window past its check lies in the image, without which `CopyByte` does not keep
the image's type), `IdleIsBlank` (an idle caller has no request), `Locks`
(`Exclusion`, and only writers wait for `_lock`) and `Lifetime`: what each stage
of the life means for pointers, sizes and memory (`Stages`), that a busy caller
has a real request, that no call is in progress while the image is taken down,
and that a cycle works on a linked image or on one that is being freed
(`Guarded`). The heart of `AccessIsSafe` is `UnsizedIsClosed`: with sizes 0
no window of positive length passes the check, so between `plw_init` and the
last line of `plw_alloc_pi` no call gets in although the pointers are set. This
is why `WindowsAssumption` asks for a positive length; a call of length 0 passes
the check of an unlinked image, and copies nothing.

**The refinement.** A call or a cycle takes effect when it takes the mutex. The
mapping counts the bytes that the holder has still to move as moved: `AbsIn` is
the `in` image with the rest of the holder's write, `AbsOut` the `out` image
with the rest of the received frame, `AbsWire` the wire with the rest of the
`in` image, `AbsBuf` the rest of a read. The proof has one lemma per step:
`Call`, a refusing `Check`, `Lock`, `Return`, `SyncLock`, `AllocImage`,
`LinkImage`, `FreeImage` (`Detach`) and `ClearPointers` (`Leave`) are steps of
`AtomicImage`, and so is every byte that a cycle moves to the wire after the
image was freed (`Spoil`), because it need not be the byte that `AbsWire` has
counted; all others stutter. The proof needs `Shape` on top of `Safe`: a caller before the mutex has moved nothing, and
a cycle pushes only if its exchange gets that far.

**The lifecycle.** `Progress` ties the program counters of `start()` and
`stop()` to what has been built and taken down by then; `Supervised` says that
whatever thread is alive is `_thread`, on a created stack, between the end of
`start()` and the end of the join; `Upright` and `Fresh` carry the state of a
session from `start()` to the properties. `Fresh` also follows the queue: a
queued Operational event belongs to this session. `Guarded` adds what
`SupervisedUntilDeath` needs and does not say: between `_stop_evt.clear()` and
the end of `start()` the event is not set and the thread is new, and afterwards
a supervisor that has ended has seen a dead kernel part, because nobody but
`stop()` sets the event.

*Flags.* That the flags tell the MN's state once the queue is empty is not
inductive: the queue has to say what the flags do not say yet. `Told` says that
the last NMT event in the queue announces the state the MN is in
(`LastAnnounces`), and that the flags show it when no NMT event is queued
(`FlagsShow`); `Quiet` is the stack before its first command. The proof has one
lemma for an event that is delivered and one for an event that is queued.

*The contract.* `ImplementsLifecycle` needs `Built` besides `StackInv`: there is an
image only on a created stack, none before `plw_alloc_pi` in `start()`, and
`stop()` gets beyond its test of `_started` only when it is set. There is one lemma for the steps of `start()`, one for
`stop()` and one for the supervisors; the native stack and
`wait_operational()` change nothing the contract sees.

**The programs.** A step of a program is a step of `PowerlinkStack`, a Ctrl+C
outside its methods, or neither (`ToolSteps`), so the invariants of the
lifecycle carry over (`StackBaseKept`, `SupervisedKept`). `Places` then says for
each place of a program what it may count on: nothing native and no interrupt
before `start()`; `Starting` and `Stopping` for the methods in progress; a stack
that is up, with a thread that was started, in the body; everything down after a
`stop()` that returned or was not cut short. `start()` calls move from `Starting`
to `Up` (`StartMoves`), `stop()` calls from `Up` to `Down` (`StopMoves`): this
is where the `try` of `stop()` is needed, and why `join()` cannot raise there.
`BodiesOverImage` is the precondition `Disciplined` of the image's theorems,
for the programs of the repository. `Masked` says that only the main thread ever
has the timer signals open, and for `cndiag` only before it blocks them;
`Counted` and `Sampling` are the invariants of the verdicts.

**The status struct.** `LatchInv` says how far the callback of an event may have
come (`Stage`) and that none is under way without a stack (`Ended`); that, in a
session that found no stack, the two counters differ only between their
increments (`Counted`) and each flag agrees with its NMT state but for the stores
that are due (`Latched`); that what a quiet copy holds so far is the struct as it
is now (`Copied`); and, in every session, that the heartbeat is the reader's `h0`
plus the cycles counted since, modulo its range (`Gone`), for which the value
that `heartbeat++` has loaded must still be there (`Fresh`). `AliveAnswersForCycles` then rests on an
arithmetic lemma, `WholeRounds`: `(h + c) % m = h` exactly when `c % m = 0`.

**The wheel builder.** `WheelsInv` has four parts besides the types (`Typed`).
`Aside`: what the run has hidden is in the temporary directory, each directory
once, and the platform it builds for is not among it. `Kept`: every other
directory is where the run found it, and the hidden ones were in place then.
`Packed`: nothing is left to hide when the build starts, and from there to the
naming the wheel just built is fit for its platform (`FitFor`: of the tagged
directories it holds that one's libraries, and all of them that are there).
`Pending`: a
platform that was asked for has its wheel or is still to come.
`WheelsShipTheirOwn` rests on `LatestIsNewest`: the wheel that
`_retag_latest_wheel` names is the one just built, although failed runs have
left others.

**The CDC tools.** The state is one file, and `Told` says that exit status 0 is
about a file that `Fix` has made, and 2 about one that it refuses; `FixedTwice`
says that fixing again is the identity. The lemmas are about the operators: what `Mended` does to an entry
(`MendedEntry`) and `Fixed` to a file (`FixedFile`).

**The channels.** The codec computes with powers of two and sums, that is, with
recursive functions, and the library's theorems on those take an operator as a
parameter. `PowerlinkIO_proofs` therefore begins with what it needs of them for
*sets*: every set of naturals has a least member (`WFMin` for `<`), hence
`Induction` on a set, hence `Recursion`: a recursion with a given step has a
solution. From it come `PowersMultiply`, `MagnitudeSums` and `FlattenKeeps` (a
channel table lists every bit once). On these rest the lemmas about integers:
division is unique and can be done in two steps (`DivisionUnique`,
`DivisionTwice`), a multiple of 2^n does not touch the bits below
(`HigherBitsApart`), the bytes of v add up to v modulo their values
(`EncodedMagnitude`), and what comes back differs from v by a multiple of them
(`DecodedIsCongruent`).

`OutputsKept` alone is not inductive: between the two calls of a `write_do` the
bits are in `current`. `IOInv` adds `Driven` (the thread of a `write_do` owns the
byte it is about to write), `ReadBackHolds` (the byte read back still shows what
was asked of each of its bits, and within one session it is the byte of the
image), `Holds` (`OutputsKept`, and for analog outputs the decoded value instead
of the bytes, which `OwnOutputsReadBack` needs), `Session` (nothing is
remembered while there is no image) and `ReadSoFar`. `ReadBackHolds` survives a
write of another thread because that thread owns another byte (`OneOwner`,
`TablesApart`), and what a thread has read back of its own outputs stays true for
the same reason: these are the places where one writer per byte is used. There is
one lemma for every action. `OnlyThatBitChanges` follows from
`ReadBackHolds`: in one session the byte that is written differs from the byte of
the image in one bit (`ModifiedByte`, `BitWritten`).

**Only model-checked.** Liveness under fairness is out of the prover's reach:
`MutexReleased`, `DeadKernelEndsSupervision`, `CallsEnd` and `CommandEnds`. Every
invariant and every action property of the runs is proved, and so are both
contracts.

## 5. What is not modelled

- `strncpy` of the device name, the openPOWERLINK init parameters,
  `plw_enum_ifaces`, `plw_version`: no state of ours depends on them.
- The real-time warning of `start()` (98-105) and the choice between CDC bytes
  and a CDC file: both calls hand the configuration to the stack or fail.
- Time: `time.sleep` is a step, a deadline may pass at any poll.
- `raw_to_volts`, a division of floats, and reading and writing XML.
- Memory ordering below the level of one `status_l` field.
- `_wrap.py`: the argument types of each function, and the fields of
  `plw_status_t` in their order; declarations without behaviour.
- `load()` beyond its test for the file: it extends the search path of the
  dynamic linker, on Windows anew at each call.
- `plk_sniff.py`, which counts frames as the sniffer of `cndiag` does, and
  `ctest.c`, `build_stack.sh`, `build_wrapper.sh`: no state outlives them.
- Delivery of a signal inside the stack, and the threads of other applications.

## 6. Plan

Done: the models, the proofs of every safety property of every component, and of
both contracts. What is left is out of the prover's reach, or outside the
repository:

1. The liveness properties listed above stay with TLC.
2. `Int16Max` is the default `full_scale_raw`; another full scale would be a
   constant of `ChannelCodec`.
3. The openPOWERLINK stack itself, of which the shim's calls are all that is
   modelled.
