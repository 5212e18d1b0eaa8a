# SelfDo: a TLA+ model of the app, its root server and the UUID library

SelfDo is an Android toolbox for set-top boxes. Three programs of the repository
do real work together:

* the **app** (`src/com/jhy/selfdo`), whose buttons send shell commands through
  `SocketClient` to
* **jconfigserver** (`configserver/jni/configserver.c`), a root daemon with a
  Unix and a TCP listener that runs what it is sent with `system()`, and
* **libyunosfwnative** (`configserver/jni/uuid`), which stores the UUID of a
  device, through one of sixteen backends, on whatever the vendor's chip offers.

(Paths in this file are relative to the repository's `src/`, which itself has a
`src/` for Java.) This directory holds TLA+ modules of these programs, TLC
configurations that check them on small instances, and TLAPS proofs of what
matters most for every size. `PROJECT.json` is the index: components, runs,
mutants, the lines each definition models, findings, hazards, theorems.

## 1. Inventory

| Component | State | Operations | Interacts with | What is hard | What makes it correct |
|---|---|---|---|---|---|
| **jconfigserver** `configserver.c` | two listening sockets, `ufds`/`revents` of the current round, the accepted socket, `msg` and `msg_load` (64 bytes each) | `start_unix_socket`, `start_tcp_socket`, the poll loop, `handle_set_fd` (accept, getsockopt, recv, system, send, close) | clients by sockets, the shell by `system()` | one thread serves all; one `recv()` per message; `revents` of one poll used after a long command; SIGPIPE; restart with a taken port, or next to a command that outlived the last server | no socket leak; a server runs commands one at a time, each at most once; "execute ok" after a run; no listener starves; it does not die of its clients |
| **SocketClient and the buttons** `SocketClient.java`, `MainActivity.java` 876-950 | a socket, its two streams, the thread's position; the app's process | `connect`, `writeMess`, `readNetResponseSync` (polls, then closes) | jconfigserver | several clicks at once, server absent or dying, an exception nobody catches, waiting for an answer that never comes | a thread that ends was answered and its command ran once; every click ends, unless its connection is closed unanswered |
| **Sockets and kernel** (external) | queues of pending connections, the two ends of each, the socket path, TIME_WAIT | connect, close, exit of a process, timers | both of the above | full backlog, inherited descriptors | assumed, section 6 |
| **UUID library, write-once backends** `emmc_amlogic.c`, `emmc_msd6a801.c` | fuses, the version byte, leaked descriptors, `OTP_init` | set, get | root tools that load the library | failing opens, short writes, power cuts on memory that cannot be erased | a chip holds one UUID for ever; TRUE only of the UUID it holds |
| **UUID library, rewritable backends** `emmc_rtd1815.c`, `emmc_dev_io.c`, `emmc_marvell_bg2_nand.c`, `emmc_samsung_exynos4x12.c`, `emmc_hi3716m.c` (and its twin `emmc_hisi3716cv200.c`), `emmc_hisi3718cv100.c`, `emmc_gs702.c`, `emmc_infotm.c` | a file, block device, OTP or environment; what of it is on the disk | set, get | the same | truncation before writing, unlooked-at results, saves that come after the write, kills and power cuts in between | a get after TRUE returns the UUID; TRUE survives a power cut where the code says so; no mixtures |
| **UUID library, `nvram_mt6589.c`** | a record whose other fields belong to other programs, the property `nvram_init` | a bounded wait, then read, change and write of the whole record | nvram daemon | lost updates, a record touched before it is Ready | others lose a field only if they wrote it in between |
| **UUID library, pass-through and debug backends** `emmc_wm8880.c`, `emmc_marvell3108.c`, `emmc_memory_debug.c`, `emmc_default.c` | a vendor's store, a static buffer, nothing | one call | vendor libraries | a serial number that is burnt only once, a buffer that dies with its process | the same promises as above |
| **UUID library, CRC** `emmc_hi3716m_crc32.c`, `emmc_hisi3716cv200_crc32.c` | a table | `init_crc32_table`, `CalcCRC32` | HiSilicon backends | tables, byte order, padding | it is the CRC-32 of its polynomial, and tells a whole record from a torn one |
| **MainActivity, shell commands** | child process and its pipes, services that the lines stop and start | `execSuArrayCommand`, `execSuCommand`, `execCommand`, `execCommandArray`; the buttons chmod, adb and mac, `getSystemInfo`, `cleanjob` | `su`, `sh` | `waitFor()` before the pipes are read, on the main thread; an app that ends half-way | whole results; nothing left down; calls end unless a pipe is full |
| **MainActivity, UI state** | the looper's queue, the router MAC threads, LED toggle, notifications, timers | click handlers, `Handler` messages, threads that never end | main looper | threads without an end, whose uncaught exception ends the app with all its calls | what is sent is shown; an app that ends cuts no more than the script that is being typed |
| **VideoSurface** `VideoSurface.java` | an activity, its surface, its MediaPlayer, what the player posted | `onCreate`, surface callbacks, `onPrepared`, `onInfo`, `onCompletion`, `onError`, `finish` | media framework | callbacks in any order, a player that nobody releases, several instances | a player starts once and takes its activity with it |
| **DeviceInfo** `DeviceInfo.java` | none | platform queries | platform | - | not modelled |
| AOSP headers, build files, resources | - | - | - | - | not modelled |

The hazards this list leads to are in `PROJECT.json`, each at its line and with
the properties that cover it.

## 2. The modules

```
            Sockets                    UuidChip                 UuidMedium
           /       \                  /        \      /       /          \        \
  ConfigServer   SocketClient   EfuseUuid  MstarUuid  UuidFiles UuidDrivers UuidSimple NvramUuid
           \       /                  \        /      \       \          /        /
            SelfDo ==> CommandService  UuidOnce ==> OnceStore   UuidRewrite ==> UuidRegister
              |                           |                      |      \
              |                           |                      |       \     Crc32
              |                           |                      |        \     /
          MCSelfDo                    MCUuidOnce         MCUuidRewrite   HisiOtp
                                                                           |
                                                                       MCHisiOtp
      ShellCommand
           |
      MainActivity ==> ScriptRunner           VideoSurface ==> Viewing
           |                                       |
      MCMainActivity                          MCVideoSurface

  Proofs:  SelfDoAnswerProofs <- SelfDoCalmProofs      UuidRewriteProofs <- HisiOtpProofs
                              <- SelfDoServiceProofs   UuidOnceProofs
           MainActivityProofs    VideoSurfaceProofs
```
`==>` is a refinement: the lower module INSTANCEs the abstract one with a mapping.

### App and server

* **Sockets** (external) is all that the two programs share. `queue[l]` are the
  connections a listener has not accepted; `conn[c]`, `open[c]` and `shut` are
  the two ends; `arrived[c]` counts the bytes of a client that reached the
  server; `reply[c]` is what was sent back. A message is a length: `FrameLength(c)`
  is the four bytes of `writeMess()`'s head plus the payload.
* **ConfigServer**: `pc` names the call the server is about to make. One action
  per call, in the code's order: `StartUnixSocket` (`socket()`,
  `unlink()`), `BindUnixSocket`, `StartTcpSocket`, `Poll`,
  `Accept`/`AcceptFails`, `GetsockoptSucceeds`/`GetsockoptFails`, `Recv`/
  `RecvNothing`/`RecvOverruns`, `SystemReturns`, `SendReply`/`SendSigpipe`.
  Every path through `handle_set_fd()` ends with the `close()` it makes and with
  the choice of the next listener of the round (`AfterHandle`).
  `text[c]` keeps of the string given to `system()` whether it is the whole
  message, a prefix (one `recv()` returned less), or more than was sent
  (`msg` full and no NUL). `ran`, `status` and `overtaken` are history.
* **SocketClient**: `cpc[c]` is the position of the thread of click `c`. A
  refused `connect()` leaves `os` null, and `WriteToNull` is the uncaught
  exception that ends the process with all its threads. A TCP peer has no code
  here; it connects, sends in pieces, shuts down or leaves at will.
* **SelfDo** composes them, with what may happen from outside: users, kills,
  restarts, a command that ends (or does not), and the kernel's timers.
* **CommandService** is what the pair promises: a server runs one command at a time,
  each at most once, answered after its run; commands may be lost, but then no answer
  is given; only TCP peers can be answered without a run, or told "failed execute".
  A command that is running when its server dies is not lost at once: the shell that
  `system()` started goes on (`orphaned`), and the next server, which does not know of
  it, may run others beside it. That is the only way in which two commands overlap.
  `Phase(c)` maps the sockets and program counters to it; a connection that is
  `orphaned` is one whose shell is still at work.

### UUID library

* **UuidChip**, **EfuseUuid**, **MstarUuid**, **UuidOnce**: a call of
  `UUID_setFormatEmmcUuid()` is at step `pc` with UUID `val`; `cell[p]` is the set
  of UUIDs that part `p` of the fuses was ever burnt with, so two elements are a
  part that is lost. `EfuseUuid` follows `emmc_amlogic.c` function by function
  (version, check, reopen, burn, verify) with the descriptors it leaks;
  `MstarUuid` follows the byte loop of `emmc_msd6a801.c`. `Killed` may come at
  any step.
* **OnceStore** is the promise: blank, then one value or spoilt for ever, and
  TRUE only of the stored value.
* **UuidMedium** is what the backends that may be set again share: `seen` is the
  medium as `read()` shows it and `disk` what the next boot finds; `told` is the
  UUID of which TRUE was returned last, and `cut` that something failed since.
  One backend, chosen by `Android.mk`, is the variable `backend`. **UuidFiles** has
  files and block devices, **UuidDrivers** what goes through a vendor's driver,
  **UuidSimple** the backends of one call, **NvramUuid** the record that is shared
  with other programs (`ready`, `tries`, `image`, `rest`), and **UuidRewrite**
  composes them. `Gets(m)` is the set of answers of `UUID_getFormatEmmcUuid()` on a
  medium `m`: a set, because uninitialised memory decides some of them
  (`emmc_rtd1815.c:107`, `emmc_dev_io.c:95`); it leaves out the gets whose own open
  or read fails, which return NULL and change nothing. Of a short file `emmc_dev_io.c`
  may return anything, the UUID it began with included; `emmc_wm8880.c` returns NULL as
  long as its variable was never set, `emmc_marvell3108.c` its buffer in any case.
  Between the save of `emmc_rtd1815.c` and its return lies a `sync`, hence two steps
  (`RtdSave`, `RtdReturn`) and a kill between them.
* **UuidRegister** is what callers may rely on, whichever of the thirteen backends
  they have: a register that is set in steps. What a get answers changes only during
  a set, when the memory behind it is lost (a buffer of the process that is killed) or
  guarded (a daemon that is not up yet), and after a power cut, to what had been
  saved; only what a get could see is ever saved; and TRUE stands for its UUID until
  then. `busy` is `pc # "idle"`, `answer` and `saved` are `Gets(seen)` and `Gets(disk)`,
  and `acked` is `Trusted`: the UUID of which TRUE was returned, unless the backend
  does not look at what its writes return and one of them failed.
* **Crc32** is the table-driven `CalcCRC32()` on bytes as sets of bits (so that an
  exclusive or is a symmetric difference) next to its definition, the remainder
  of a division of polynomials. **HisiOtp** puts it under `UuidRewrite`: the backend
  `hisi` there decides by `HisiGet()` what a get may answer of a torn record, and
  here the 32 bytes really burnt by 17 calls are compared.

### The app alone

* **ShellCommand**: a call of one of the four methods, with its child and the
  child's two pipes. `step[c]` is the call that its thread makes next: `exec`,
  then `wait` and `read` for `execCommand()` and `execCommandArray()`, or `write` and
  `read` for the two methods of a root shell. A child that has more to write than a
  pipe holds waits (`Jammed` if nobody reads that pipe). A root shell runs the lines
  it was sent one by one; lines stop and start a `service`.
* **MainActivity** runs these calls: `Script(job)` are the commands of a button, of
  `onCreate()` and of `cleanjob`, in the code's order; `queue` is the queue of the
  main looper, which handles nothing while the main thread is in a call. `mpc[t]`
  is the step of a thread of `getRouteWifiMacJob`. The manifest does not ask for the
  permission ACCESS_NETWORK_STATE, so `getNetworkInfo()` (540) throws a
  SecurityException that nobody catches: `MacDenied` ends the app. Only where there is
  no connectivity service does the thread send "no wifi ap!" every five seconds
  (`MacOffline`, `MacWakes`). What the code does for a connected router (552-565) cannot
  be reached as the manifest stands. `IllButton` and `StandbyLedButton` are the two
  buttons that always throw: a null reference, and a native method whose library is
  never loaded (84-87).
* **ScriptRunner** is what the callers of the four methods may take for granted, with
  no child, pipe or exception in it: a script is a list of commands, a command a list of
  lines that take effect one by one; a command ends with all of its lines done or none,
  and after that none of them happens any more; a result is news only of a script that
  came to its last command. The end of the app may cut a command, and what it left in
  the pipe may still take effect, but no other command begins. Of MainActivity, `up` is
  `app = "up"`, `job` is `doing`, `at` is `ip`, `ran` is `Ran` (what the children ran) and
  `news` is `News` (the callers whose result is in the looper's queue).
* **VideoSurface**: one action per callback of `VideoSurface.java`; `player[v]` is
  the documented state of a MediaPlayer, `posted` what players have sent to the
  main thread, so that a callback may come long after the state that caused it. A player may fail in any
  state, before it is prepared too: the media server may die.
* **Viewing** is what a viewer may rely on, without players, callbacks and queue: an
  activity plays its video once at most, not before it was seen, and is closed by the
  viewer who has it in front of him or because its video is over; one that is seen a
  second time, or when its video is over, ends the app. `shown` are the activities whose surface was created,
  `play` folds the nine states of MediaPlayer into waiting, playing and over, `up` is
  `~crashed`.

A definition whose comment starts with "A mutant" is not part of any
specification: it is a plausible bug, kept next to the definition it stands in
for. Each property of a passing run is violated when its mutant takes the place
of the original (`PROJECT.json`, "mutants").

## 3. The runs

| Run | Instance | What it shows |
|---|---|---|
| `app` | 2 clicks, every fault of server and app, backlog 0 | `NoSocketLeak`, `DoneMeansRan`, `NeverFailed`, `NoMutualWait`: `recv()` never blocks on a thread that waits for its answer; refinement of `CommandService` |
| `tcp` | 1 click and a TCP peer whose 80 bytes arrive in up to four pieces, every fault | type invariant, `DoneMeansRan`, refinement, next to messages that are cut, fill or overrun the buffer |
| `live` | 2 clicks, 1 TCP peer, backlog 0, listeners that may not start, failing `getsockopt()`, an app that may be ended, fairness | `BoundedBypass`: a waiting listener is overtaken at most twice; `NoCascade`: the server dies only of a thread that ended unanswered, and the app only if it was ended or a connect was refused; `ClickReturns`, `Served`: unless a command or a silent TCP peer blocks the server for ever, or it is dead, every click ends or was closed unanswered, and every waiting connection is taken |
| `uuid_once` | 2 backends, 3 UUIDs, 3 parts, 3 descriptors, every call but open may fail | `NeverReburnt`; `TrueIsBurnt`: a UUID of which TRUE was returned is in every part of the fuses; refinement of `OnceStore` |
| `uuid_rewrite` | 13 backends, 3 UUIDs, 3 parts, every fault, kills, power cuts, 2 changes by other programs | `SetIsRead`, `Durable`, `TrueMeansSome`, `NeverMixed`, `RestKept`, refinement of `UuidRegister` |
| `hisi_crc` | the backend `hisi` with its 17 calls of the driver, 2 UUIDs of 24 and of 6 bytes | `CrcIsCrc32`: the table-driven CRC is the one of its polynomial; `GetIsWholeOrNull`: a get returns a whole UUID or NULL, from any torn or twice burnt memory of the run; `TrueIsReadBack`: after TRUE, and if no other UUID was ever burnt, a get returns the very bytes |
| `buttons` | the main thread, one clean job, two MAC threads, pipes of one unit, fairness | `WholeResult`, `DownOnlyIfCut`, `CallsEnd`, `JobsAreShown`; refinement of `ScriptRunner`, in an app that is killed, or ended by a button or by a MAC thread that is denied the network state |
| `video` | 2 activities with a player each, fairness of the main thread | `CrashOnlyUnready`: the app ends only if a surface came back, its player had no source, or failed with its message still queued; `PlaysOnce`, `EndIsQueued` (the safety half of the next), `EndsWithPlayer`; refinement of `Viewing` |
| `reply_truthful` | 1 click, no fault | violated: see findings |
| `frame_honoured` | 1 TCP peer, one cut | violated: see findings |
| `uuid_reburnt` | Amlogic, 2 UUIDs, open may fail | violated: see findings |
| `uuid_checked` | `emmc_dev_io.c`, 1 UUID, write may fail | violated: see findings |

### Bounds, and why they are enough

* Each click and each TCP peer connects once, so runs end by themselves and no
  counter needs a bound of its own. Two clicks suffice for what happens between
  two threads of the app (one crashes, the other dies with it; one is served, the
  other waits). `BoundedBypass` needs a listener that is overtaken while it
  waits: two clicks overtake a TCP peer that waits, one after the poll that did not
  report it and one in the round that does.
* `MAXPENDING` is 0 instead of 8: Linux lets backlog + 1 connections wait, so
  the full queue and the blocked `connect()` are reached with two clients.
* `Payload` are lengths of commands of the app: 58 (the longest, 62 bytes with
  its head, two below the buffer) and 15 (the shortest); TCP peers send 24 bytes
  (fits) or 80 (overruns). `CutPoints` {3, 8, 64}: inside the head, inside the
  prefix `system`, and exactly the buffer.
* UUIDs are written in three parts: first, middle and last. No two UUIDs share a
  part, the case in which a mixture is always visible. Three descriptors are
  enough to run out in the middle of a call.
* `MAX_RETRY_COUNT` is 2 instead of 20: the property may become Ready before the
  first poll, between two, or too late. `CHANGES` = 2 lets another program write
  before and after the read of one call.
* `PIPE` is one unit, and a command writes nothing, as much to one stream as does
  not fit (`PIPE + 1`), or the same to the other: less than a pipe holds never
  blocks, however much it is, and differs in nothing from nothing. `MAXQUEUE` = 1
  bounds the user's clicks only, not what threads send; a MAC thread does not send
  again before its last message was handled (`MacWakes`): it sleeps five seconds
  after each. `Habits` are the sets of buttons that one user clicks; each set
  brings together what shares state (a job and the looper, two services, MAC
  threads that end the app and a script that is being typed, a crash and a job), and a
  habit is chosen once.
* Two instances of VideoSurface: callbacks of one come between those of the other,
  and a crash of one ends both. `MAXINFOS` = 2 bounds the "info" posts only.
* There is no symmetry set: liveness is checked, and clients differ by payload.

`CHECK_DEADLOCK FALSE` is set because these systems may stop: when every click has
been made, `poll()` blocks for ever and that is right; a killed app takes no step.
What must not stop is the subject of the liveness properties.

### Fairness

* `SelfDo`: weak fairness of `Server` (the steps of one running process) and of
  each thread of the app: both are scheduled by a kernel that does not starve a
  runnable thread, and no step of theirs is enabled on and off for ever by others.
  Nothing is assumed of a command (`SystemReturns`), of users, TCP peers, kills,
  restarts or timers. Hence both liveness properties have the disjunct
  `<>[]Stuck`: a command that never ends, a TCP peer that connects and is silent,
  and a server that nobody restarts do hang every button, and the model does not
  hide it. `ClickReturns` has one more exception, which is the code's too: of a
  connection that the server closed without an answer, because `getsockopt()` failed or
  the server died, the thread polls `available()` for ever. Not in the run is an
  `accept()` that fails: nothing says that it would ever succeed again, and `poll()`
  would report the same connection for ever.
* `MainActivity`: weak fairness of the looper, of each caller and of each child.
  The app's commands end by themselves if somebody reads what they write, which is
  why a child is fair here; it still waits for ever on a full pipe, and `CallsEnd`
  excepts exactly that (`Jammed`). Users, MAC threads and kills are not fair.
* `VideoSurface`: weak fairness of the main thread, which takes up what was posted.
  Nothing is assumed of users, surfaces, players or the garbage collector.

## 4. The proofs

TLAPS proves the following for any numbers of clients, payloads, segments,
backlogs, faults, parts, descriptors, UUIDs, jobs, threads and activities.

*App and server* (`SelfDoAnswerProofs`, `SelfDoCalmProofs`, `SelfDoServiceProofs`):

* `TypeCorrect`: `Spec => []TypeOK`.
* `NoLeak`: `NoSocketLeak`. The inductive invariant `OwnInv` says where a
  connection is: in exactly one queue, once, or in the hands of the one
  `handle_set_fd()` call (`cur`), and that a thread which has not connected has
  no connection. `NoSocketLeak` alone is not inductive: that the client taken
  out of a queue is nobody else's rests on the queues having no repetitions.
* `DoneHasRun` and `FailureUnread`: `DoneMeansRan` and `NeverFailed`. `AnswerInv`
  says for each stage of the server what has been done with the command of the
  app that it holds; it needs `OwnInv` for "it holds", and the assumption on
  command lengths (`CommandAssumption`) for 62 < 64: with a buffer of 60 bytes
  the theorem is false, which is the mutant of the run `app`.
* `NobodyWaitsForEachOther`: `NoMutualWait`. `WaitInv` says which end of a connection
  moves next: a thread that holds its end is before its write or its read, and before
  its read the whole message has arrived. What is needed beyond it is `OwnInv` (`cur` is
  the accepted connection) and that no message is empty. A server that waits in `recv()`
  for the app therefore waits for a thread that can run. The waits that are left are
  those of `Stuck`: a command that never ends and a silent TCP peer.
* `CascadeFree`: `NoCascade`. `CalmInv` adds that a connection that waits or is served
  still has its other end open, or belonged to a thread that ended with the app
  (`Attended`), so that `send()` finds it there or dies of that thread; and that threads
  end with the app only if it was ended from outside or a `connect()` was refused.
* `BypassBounded`: `BoundedBypass`. `BypassInv` bounds what each listener has been
  overtaken by what is left of the current round.
* `ServesCommands`: `Spec => ServiceSpec`, the refinement. `AnswerInv` speaks of the
  app's clicks only; `StoryInv` tells for every client, TCP peers included, what has
  been done with its command at each stage of the server. With it, each step is
  matched with one of `CommandService`: steps of clients and of the kernel stutter,
  submit or lose; a step of the server moves the command it holds; a death loses all
  that were on their way, and the one that runs becomes an orphan. That nobody else is in hand when a command starts
  is `StoryInv` again: only `cur` can be in one of those stages.

*Write-once UUIDs* (`UuidOnceProofs`). Whatever fails, `open()` included:

* `ChipTypes`, type correctness, and `TrueBurnt`: `TrueIsBurnt`. `BurntInv` follows the
  loop: while a call burns, its UUID is in every part before `at`; when it verifies, in
  every part. (With `EfuseBurnEarly`, a loop that ends one part early, the run finds the
  violation.) That no *other* UUID is in those parts needs more:

The rest holds under `StableOpens`: an `open()` of the Amlogic device fails only when the
process is out of descriptors. The run `uuid_reburnt` shows that this is needed for that
backend; of a library built with `emmc_msd6a801.c` nothing is assumed.

* `BurntOnce`: `NeverReburnt`. The invariant `ChipInv` must carry the strange way in which `emmc_amlogic.c` stays correct
  when descriptors run out: the check passes for blank, but then the burn cannot
  open the device either (`Exhausted`).
* `WritesOnce`: `Spec` implements `OnceStore`. Each step is shown to be quiet, to
  report, or to burn; quiet steps stutter, reports report what is whole, and a
  burn stores the value with its last part. A chip that is being burnt counts as
  blank until then, and a call that ends between two parts spoils it.

*Rewritable UUIDs* (`UuidRewriteProofs`), for all thirteen backends at once:

* `TypesOfRewrite`: type correctness, with `Fits` (a backend is only at steps that it
  has).
* `FileNeverMixed`: `NeverMixed`. `MixInv` says it of the disk too, since a power cut
  shows the disk, and that a file being written holds nothing but the UUID of the
  call.
* `RecordKept`: `RestKept`. `RestInv`: the record has the last change of the others,
  and so has the image in `barcode_struct` until it is written, unless another program
  wrote after the read.
* `TrueStoresSome`, `SetIsReadBack`, `SetIsDurable`: `TrueMeansSome`, `SetIsRead`,
  `Durable`. `Stored` says for each backend and step what of the UUID the medium
  already has, `DiskInv` the same of the disk. They are one invariant (`RewriteInv`),
  because what a save puts on the disk is what the write before it left.
* `KeepsRegister`: `Spec => RegisterSpec`, the refinement. Each step begins a set, goes
  on with it, ends it, saves, wakes the daemon, or leaves alone what a get rests on
  (`Moves`); each of these is a step or a stutter of `UuidRegister` (`MovesRefine`), kills
  and power cuts are steps of their own (`EndsRefine`). That TRUE stands for what a get
  answers is `SetIsRead` of the next state; that a call under way has told nobody
  anything is `Fits`.

*The OTP of HiSilicon, bit by bit* (`HisiOtpProofs`, on top of `RewriteInv`):

* `CrcOfEveryMessage`: for every sequence of bytes, `CalcCRC32` is `Remainder`. Both are
  recursive functions over the message, and the table is one over the bits of a byte.
  The induction is on sets of numbers (`NatSetInduction`, from the least element that
  well-foundedness gives), so that no rule with an operator for a parameter is needed;
  `RecursionExists` and `RecursionAgrees` say that the two `LET` functions do satisfy
  their equations. `Reversed` relates the reflected register of the code with the one
  of the definition, one bit (`BitTracks`), one byte (`ByteStep`), one message at a time.
  `CrcOfMemory`: hence `CrcIsCrc32`, in every state.
* `CompleteIsRead`: a memory in which each of the 17 calls burnt one UUID and no other, or
  had only zeros to burn, is read back as that UUID. `TrueReadBack`: `TrueIsReadBack`, from
  it and `Stored`.

*The app alone*:

* `MainActivityProofs`: `TypesOfApp`, `ResultsAreWhole` (`WholeResult`),
  `NothingLeftDown` (`DownOnlyIfCut`). `ButtonInv` has per caller how far the lines
  sent, the lines run and the child can be apart (`CallInv`), that its command is the
  one of its script (`ScriptInv`), and at which line of which button each service
  is down (`ServiceInv`).
* `RunsScripts`: `Spec => RunnerSpec`. The inductive invariants are those above: `CallInv`
  says that a child has run no more lines than it was sent, so that each line it runs is
  the next one of its command (`LineRuns`), and that when a method returns or throws its
  root shell ran all of them or none (`OverRuns`); `ScriptInv` that the command is that of the
  job. All other steps of a call are stutters (`CallRuns`). A command that the end of the app
  cuts is no exception to "all or none": its job is never finished. The theorem needs that the
  MAC threads are no callers (`MacJobsAssumption`), or their messages could pass for
  results.
* `VideoSurfaceProofs`: `VideoTypes`, `CrashesUnready` (`CrashOnlyUnready`),
  `StartsOnce` (`PlaysOnce`). `Course(v)` ties the state of a player to what its
  activity has been through; `PostedInv` says that of a player
  that was never prepared only an error can be posted. `EndStaysQueued` (`EndIsQueued`) follows each end of a
  player through the queue (`AnnouncedLonger`, `AnnouncedShorter`): what remains to be
  model-checked of `EndsWithPlayer` is that the main thread keeps taking messages.
* `ShowsAsPromised`: `Spec => ViewSpec`. Two invariants more are needed. `ToldInv`: only a
  player that has ended is announced as failed or played out, or a message that was
  long in the queue could close an activity whose video goes on. `SeenInv`: once its surface
  was there a player is past its source, or it would survive `prepareAsync()` when the
  surface comes back.

Only model-checked:

* liveness (`ClickReturns`, `Served`, `CallsEnd`, `JobsAreShown`, `EndsWithPlayer`): fairness
  and ENABLED are beyond the prover;
* `GetIsWholeOrNull`, the half that `CompleteIsRead` does not cover: that a blank, torn or
  twice burnt memory is *not* taken for a UUID. For arbitrary UUIDs it is false: 32 bits
  of CRC cannot tell all memories apart. What TLC shows is that no memory that the UUIDs
  of the run leave collides.

## 5. Findings

Each is a run that TLC violates, with the quoted line in `PROJECT.json`.

1. `ReplyTruthful`: the server answers "execute ok" whatever `system()` returned;
   `SocketClient.java` reads it as "success".
2. `FrameHonoured`: the length in the head is never used; a message that TCP cuts
   in two is run by its first piece.
3. `NeverReburnt`: `efuse_written_check()` returns "blank" when it cannot open the
   device, although its caller means to refuse on any error; if the next open
   succeeds a chip is burnt twice.
4. `CheckedIsStored`: the "check uuid" of `emmc_dev_io.c` compares with memory that
   a short `fread()` did not fill, and may pass.

Known to the properties, and visible in their premises: an app that
ends, by itself on a refused `connect()` or from outside, while its command runs kills
the server through SIGPIPE (`NoCascade` excepts just this); a connection closed
unanswered leaves its thread polling (`ClickReturns` excepts it); a command that
outlives a killed server runs beside those of the next (`orphaned`); a click on the
MAC button ends the app (`MacDenied`); a silent TCP peer stops every button (`Stuck`); a TCP listener that cannot bind
after a restart is never tried again (`Served` is about connections that wait).

## 6. What the models leave out or assume

Assumed:

* The kernel (`Sockets`) is modelled from Linux's behaviour as the calls rely on
  it: FIFO accept queues of backlog + 1, blocking `connect()` on a full queue,
  SIGPIPE on a closed peer, TIME_WAIT and inherited descriptors keeping a port.
  The app's one `write()` of head and text reaches the server whole on a Unix
  socket; on TCP it may be cut anywhere in `CutPoints`.
* External too: the child process with its pipes and its root shell, MediaPlayer
  (its documented states), the vendors' calls below the UUID backends, and the other
  programs that write the nvram record.
* `sprintf()` running beyond `msg_load` is a nondeterministic choice: the server
  dies or runs a longer text.
* UUID calls come from one process at a time. The page that holds a UUID is
  written back as one; a file and its directory entry reach the disk together.
* Other programs that write the nvram record write their own fields only; one that
  puts back a whole record it read earlier, with the UUID of that time, is excluded.
* The platform keeps its word on permissions: `getNetworkInfo()` throws without
  ACCESS_NETWORK_STATE. What the MAC threads would do to the static
  `mRouterWifiMac` if it did not is not modelled.
* The app ends at most once; its restart is a new behaviour of the model.

Abstracted: the text of commands (whole, prefix or overrun), what a command does
to the device except that it stops or starts a service, texts shown in views, and
the size of the picture. Malformed arguments of the UUID library are refused before
any state changes and are left out. The leaks of the error returns of
`nvram_mt6589.c` (113, 138) are not counted.

### Not modelled

* **DeviceInfo**: queries of the platform, without state.
* Of **MainActivity**: the countdown timers (`onTick` and `onFinish` only log, so that
  timers which overlap change nothing), the counter of notifications, the LED
  toggles (`rk_status` flips although the write of `/sys` may have failed: one
  assignment of the main thread that nothing else reads), the bitmap of
  `button_bkup` (recycled by the first click, used by the second), the queries of
  vendor id, SD card and dropbox, and the file `sevenup`. Each is one step of the
  main thread that no other step depends on, or code of the platform. Hence the
  component "UI state" is "partly".
* `emmc_amlogic.c:490` writes three bytes into one; no state of the model stands
  for the memory behind it.
* The vendored AOSP headers under `configserver/jni/{android_runtime, binder,
  cutils, log, utils}`: 15,171 of the 18,087 lines of C in the repository. None of
  their `.cpp` files is here, `Android.mk` compiles none of the classes they declare,
  and all that the programs of the repository take from them is logging, constants and
  `property_get()` (which is `ready` in NvramUuid): no behaviour of SelfDo is in them.
  Of the 2,916 lines of C that are its own, the map covers more than half, and
  of the Java the classes that keep state.
* Layouts, images, the rest of the manifest, the support library and prebuilt objects.

## 7. Plan

The order was by importance: what runs as root on commands first, then what cannot
be undone on a chip, then what may be rewritten, then the app alone.

| Step | Modules | Properties and theorems | State |
|---|---|---|---|
| 1 | Sockets, ConfigServer, SocketClient, SelfDo, CommandService | safety, refinement, liveness; `TypeCorrect`, `NoLeak`, `DoneHasRun`, `FailureUnread`, `NobodyWaitsForEachOther`, `CascadeFree`, `BypassBounded`, `ServesCommands` | done |
| 2 | UuidChip, EfuseUuid, MstarUuid, UuidOnce, OnceStore | write-once refinement and `TrueIsBurnt`, proved | done |
| 3 | UuidMedium, UuidFiles, UuidDrivers, UuidSimple, UuidRewrite, UuidRegister | `SetIsRead`, `Durable`, `TrueMeansSome`, `NeverMixed` and the refinement, checked and proved | done |
| 4 | NvramUuid | `RestKept`, checked and proved | done |
| 5 | ShellCommand, MainActivity, ScriptRunner | whole results, services and the refinement, with MAC threads that end the app, proved; calls end, checked | done |
| 6 | VideoSurface, Viewing | crash only unready, one start and the refinement, proved; ends with its player, checked | done |
| 7 | Crc32, HisiOtp | equality with the definition on every message, TRUE bit by bit, proved; torn and twice burnt memories, checked | done |
| 8 | the eight modules of proofs about steps 1 to 7 | as listed | done |

Every modelled component that keeps state has an abstract specification that it is proved to
implement, except the CRC, which is compared with its definition instead. What could
still be added: the platform queries of MainActivity, should they come to keep state, and
several root tools that load the UUID library at once.
