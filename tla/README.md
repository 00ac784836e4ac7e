# Perseus-II: a verification companion

TLA+ models, TLC runs and TLAPS proofs for the control program of the
Perseus-II underwater vehicle (`src/`), a C++ program of nine long-lived
POSIX threads, a worker thread per TCP connection, and three forked camera
processes. Paths below are relative to `src/src/` unless they start with `lib/`.

## 1. The system

`main.cpp` allocates eight global structures, gives each a mutex, sets their
first values, and creates the threads. Nothing else is shared: the threads
communicate only through those structures and their mutexes. There is no
condition variable; every consumer polls.

| Part | State it keeps | Operations | Talks to |
|---|---|---|---|
| Shared structures (`main.cpp`, `lib/perseus.h`) | thrust, orientation, desired and initial orientation, mode, PID values, position, depth, actuator; one mutex each | locked reads and writes | everyone |
| Mission control server (`mission_control/`) | one worker per connection | `/set_thrust`, `/set_mode`, `/set_orientation`, `/set_depth`, `/set_pid_values`, `/set_current_orientation`, `/set_la` | all structures |
| Diagnostics server (`diagnostics/`) | one worker per connection | `/thrust`, `/orientation`, `/position`, `/info`, constants | reads all structures |
| Yaw controller (`vehicle_control/vehicle_control.cpp`) | ring of 20 errors, previous error and time | loop: test mode, PID, store surge | mode, PID values, orientation, initial orientation, thrust |
| Depth controller (`vehicle_control/autonomous_depth.cpp`) | the same for depth | loop: test mode, PID, store heave_b | mode, PID values, depth, desired orientation, thrust |
| Thruster thread (`thruster_control/`) | last thrust formatted, descriptor | compare, format, remember, write, reopen | thrust, serial port |
| Actuator thread (`linear_actuator/`) | last leds/laser/la, descriptor | compare, format, remember, write, reopen | actuator structure, serial port |
| IMU thread and x-IMU decoder (`imu/`) | frame buffer, ready flags, descriptor | read a character, decode, publish, probe, reconnect | orientation |
| Depth sensor thread (`dst/`) | line buffer, descriptor | read a line, parse, publish | depth |
| GPS client (`init_gps_fix.cpp`) | socket | connect, poll, parse, publish | position |
| Camera feeds (`init_camera_feed.cpp`) | none | fork, run the grabber | process table |
| Frame grabber (`../framegrabberPub.c`) | V4L2 buffers | its own program | camera device |
| Helpers (`helpers.cpp`) | none | string and termios helpers | |

What makes each part correct, and what is hard about it:

* **Shared structures** - a reader sees one state of a structure, writers do
  not mix. Hard: each access is many loads and stores.
* **Thrust path** - the Arduino has the last thrust somebody was entitled to
  set, the vehicle stays still until told otherwise and comes to rest when
  disabled. Hard: every writer tests the mode in one critical section and
  writes in another; the thruster thread samples; writes fail; the cable is
  pulled; the program is restarted while the Arduino is not.
* **Actuator** - laser and position come from one command, and reach the
  Arduino. Hard: the two sides hold different mutexes.
* **Controllers** - the error drives the vehicle towards the target. Hard: the
  error window at start and on return to the mode, the sign of the turn.
* **Decoder and sensor links** - what is published is one sample; a lost device
  comes back. Hard: lost characters, restarts in mid-frame, reconnect paths.
* **Servers** - a command that was sent is read. Hard: TCP has no lines; accept,
  thread creation and writes fail; descriptors leak, here and in the GPS client.
* **Cameras** - one grabber each, which ends when told. Hard: the forked child
  returns into `main`; a Ctrl-C reaches some processes and not others.
* **Frame grabber** - as many frames as asked for, no buffer lost or freed too
  early, an end. Hard: unsigned counts, signals between test and wait, a driver
  that may refuse any call.

`PROJECT.json` lists the components with their status and every hazard at its
line.

## 2. Modules

| Module | Models |
|---|---|
| `AtomicStruct` | abstract: a structure whose calls take effect in one step |
| `SharedStruct` | a structure behind its mutex, one step per field access |
| `SerialPort` | a serial descriptor: opened, orphaned, reopened after a failed write |
| `ThrustControl` | mode, thrust, set_thrust, set_mode, both controllers' gates, the thruster thread, cable, restart |
| `LinearActuator` | set_la and the actuator thread, load by load |
| `YawControl` | the yaw controller's ring, PID and steering law, in closed loop with the vehicle |
| `ImuReceiver` | the x-IMU's stream, the decoder, publication and reconnection |
| `Process` | the descriptor table and the life that all threads share |
| `GpsFix` | the GPS client's socket |
| `DstLink` | the depth sensor's port and what is known of the depth |
| `CommandServer` | mission control and diagnostics: accept, workers, reads, answers |
| `Network` | the composition of these three in one process |
| `CameraFeeds` | the tree of camera processes, interrupts, the death of main and its restart |
| `FrameGrabber` | the program each camera process runs, and its V4L2 driver |
| `*_proofs` | theorems about the module they extend |
| `MC*` | the instances TLC checks |

`GpsFix`, `DstLink` and `CommandServer` extend `Process` and are composed by `Network`,
which extends all three; `CameraFeeds` assumes of a grabber what `FrameGrabber` shows
(`InterruptEnds`). `ThrustControl`, `LinearActuator` and `ImuReceiver` extend `SerialPort`. `YawControl`
is what `ThrustControl` abstracts to "some member of `YawOutput`" between `YawTest`
and `YawStore`; what `ImuReceiver` publishes is the heading it samples. `ThrustControl` writes
a critical section as one action; `SharedStruct => AtomicStruct` is the reason it
may (theorem `Implements`). `LinearActuator` cannot use it: its two sides hold
different mutexes, so it is written load by load.

### SharedStruct

`cell` is the memory, `owner` the mutex, `pc[t]` where a thread is, `local[t]` its
arguments or locals, `todo[t]` the fields it has still to access. `Call`, `Lock`,
`AccessField`, `Unlock` are entering the function, `pthread_mutex_lock`, one load or
store, and `pthread_mutex_unlock` with the return. Fields are accessed in any order,
since the compiler may reorder plain accesses between the two calls. The call takes
effect at the lock: `absVal` counts the fields a writer has still to store as stored,
`absBuf` those a reader has still to load as loaded.

### ThrustControl

| Action | Code |
|---|---|
| `SetThrust`, `StoreThrust` | `set_thrust`: mode test; the four stores |
| `SetMode` | `set_vehicle_mode`; any integer is accepted, the four modes stand for all (below 0 acts as 0, above 3 as 1) |
| `YawTest`, `YawStore` | `vehicle_control.cpp` 37-41; 109-112 |
| `DepthTest`, `DepthStore` | `autonomous_depth.cpp` 33-37; 82-84 |
| `ThrusterStart` | `connect_to_arduino` at thread start |
| `ThrusterCycle` | the loop body under `thrust_mutex`, when it finds a change |
| `MainStep` | the next of six steps of `main`: mode (`main.cpp` 76), thrust (102-106), and the creation of the mission control server, the thruster thread, the yaw and the depth controller (140-148) |
| `Replug` | external: the USB cable |
| `Restart` | the process ends and starts again |

`main` counts those steps in the order of `SetUp`, and a thread's actions wait for the step
that creates it (`Done`); until the thrust is set, the structure holds what `malloc` left
(`Garbage`). `Disabled` is a mode of 0 that somebody can have set: before `main` sets the
mode the global is 0 too.

A turn of a loop that finds the wrong mode or no change is a stutter. Between a test
and its store the controllers compute; that the outcome may be any member of
`YawOutput` or `DepthOutput` covers whatever they read meanwhile. A float is an
integer number of halves, so that `int()` drops something. Three variables are history
only: `sent` (what the port accepted last), `unsent` (the last write failed or there
has been none since the program started) and `commanded` (a worker has acted since).

The mode is `MODE_MANUAL` once `main` has set it, so an operator may move the vehicle at once. In
`MODE_DISABLED` every `/set_thrust` is dropped, *including one that asks for zero*: a
vehicle disabled while moving keeps its last thrust until it is enabled again.
`DisableQuiesces` says it comes to rest at a constant thrust, not at zero.

### LinearActuator

`SetLa`, `StoreLaser`, `StoreLa`, `ReleaseLa` are `set_la` under
`linear_actuator_mutex`; `Connect`, `CompareLaser`, `CompareLa`, `Format`, `Remember`,
`Write` the thread, one load of the shared memory each. `leds_on` is always 0. `raced`
is history: `la_on` changed between `Format` and `Remember`.

### YawControl

`Sample` is the mode test, the next slot and the copy of the heading; `Steer` reads
gains and target, records the error and stores the surge; `Turn` and `Coast` are the
50 ms of sleep, in which the vehicle turns one step away from the stronger thruster or
not yet. `Drive`, `SetMode`, `SetPidValues`, `SetCurrentOrientation` may come between
any two of them. Arithmetic is in integers: gains and thrusts in units of 1/2500 (0.18
is 450, 0.04/50 is 2, 30 is 75000), headings in degrees, multiples of `Step`. The sign
of cos(target) - cos(heading) is that of |heading| - |target| on -180..180, so the test
is exact. `yaw_errors` starts with any member of `Garbage`; `last` is history (the
errors by age); `s_yaw` and `sd_yaw` are dropped when dead. `last` shows that the ring
is a *window over samples*, not over time: errors from before a pause stay in it.

### ImuReceiver

The device sends a frame of `Chars(LEN[kind])` characters after another; `Store` and
`EndFrame` are a turn of `init_imu` that receives one, `Lose` is one that never comes,
for whatever reason, and needs no budget. The buffer is kept as far as decoding depends
on it: its index (an `unsigned char`, modulo 256), the header its first two cells spell
(`"garbled"`: any), and whether it holds the arriving frame in place. `lost` is history,
counted to 2. A frame decoded as a quaternion packet of 10 bytes publishes a `"sample"`
if it is one frame in place and a `"mixture"` otherwise.

### Process, GpsFix, DstLink, CommandServer, Network

`fds` says of each number of the descriptor table whose it is: `"free"`, a thread's, a
client's, or `"lost"` (open, and remembered by nobody). `Open` gives the lowest free
number, as `socket`, `open` and `accept` do, so that numbers are used again. `alive` is the
process: a `SIGPIPE` in any thread ends all. The descriptors that are opened once and
kept (the listening sockets, the serial ports of the thrusters, the actuator and the
IMU) are not counted in `Limit`.

| Action | Code |
|---|---|
| `GpsSocket`, `GpsConnect` | `init_gps_fix.cpp` 30-35; 36-53, whose two `continue` leave the socket open (`Forget`) |
| `GpsTurn` | 55-95: the first write to a host that has closed succeeds, the second is fatal; `read` returning 0 is no error |
| `HostResets` | 57-60 or 89-92, and 96: the one path that closes the socket |
| `connect_to_dst`, `DstLine` | `dst/init_dst.cpp` 60-73; 24-57. Nothing in it closes or reopens `dst_fd`; a line that lacks a field or is longer than its buffer may end the program |
| `Accept`, `AcceptFails` | `mission_control.cpp` 125-135, `diagnostics.cpp` 88-99: the kernel takes a number before it looks for a connection, so accept fails when the table is full whether or not somebody waits; mission control then starts a worker with -1 |
| `TurnAway` | the same lines when `clilen`, which nothing sets (`mission_control.cpp` 99, `diagnostics.cpp` 62), happens to be negative: accept takes each connection, fails with EINVAL and closes it. `negative` says at which server; a constant, `Garbage`, at which it may be |
| `Read`, `WorkerEnds` | the workers' loops; one `read` takes any number of the commands that have arrived, and the first is executed or answered, or ends the program (`atof` of a missing token, `strip_newline` on a line without one) |
| `AfterAnswer` | `send_response`: an answer to a client that has left |

`Connect`, `Send`, `Leave`, `HostCloses`, `WaterChanges`, `SensorPulled` and `SensorPlugged`
are external. An observer sends requests
that have an answer, and the answer's `write` returns: a client that never reads, so that
the worker blocks there, is not modelled. What a command does is in the module of what it changes. Worker
threads are neither joined nor detached, so each one, ended or not, counts in `threads`.
`GpsTurn` leaves out `vehicle_position`, a structure like those of `SharedStruct` on which
nothing else depends. A host that falls silent leaves the client in `read`.

### CameraFeeds

A process is named by the set of cameras whose forks lead to it; `main` is `{}`. `Fork`,
`ForkFails`, `Feed`, `GrabberEnds` are the paths of `init_camera_feed`. Its child has no
`exit` after `system()`, so that `{0}`, when its grabber ends, forks `{0, 1}` and `{0, 2}`
although `{1}` and `{2}` have these cameras. `JoinReturns` is the end of `main` in a child:
joining a thread that the process does not have is undefined, and either waits for ever
or returns. `system()` ignores SIGINT while it waits (`Shielded`), its grabber does not: an
`Interrupt` kills `main` and every child between two calls, and tells every grabber. `Listen`
may come before, between or after the forks (the server thread is created before them),
and decides which children inherit the listening socket; `Restart` is the next run's
`bind`, which fails if a process still holds the port (`"held"`) or, as SO_REUSEADDR is not
set, may fail while a connection of the last run is in TIME-WAIT (`"wait"`); the code looks
at neither. `interrupts` counts those that come when the grabbers told by the last one have
ended; more are allowed, and make no difference.

### FrameGrabber

`pc` follows `main`: open, init, alloc, queue, the loops of `grab_frames` (frame, check,
select, read, process, requeue), stop, uninit, close, linger. `mem` are the buffers mapped or
allocated; each is the program's (`held` or idle) or the driver's (`queued`, `filled`). An
`unsigned int` is counted modulo `W`. Every call of the driver may fail, which is `Exit`:
no clean-up, the kernel takes everything. The format is negotiated and the ZeroMQ socket
opened within the steps around them; a failure of the former is `DriverFails`, the latter
is not checked in the code. `Interrupt` wakes a `select` that waits; one that comes just
before `select` does not. `CloseZmq` and `Delivered` are `zmq_ctx_destroy`
(`framegrabberPub.c` 796), which waits without limit until the subscribers have taken
what was published or have left, or until a signal comes: the device is closed by then.

## 3. Runs

| Run | Question | Instance |
|---|---|---|
| `shared_struct` | Are locked structures atomic, and does every call return? | the thrust vector: an operator (4 fields), the yaw controller (2), diagnostics (4 reads); two values |
| `thrust_safety` | What can the thruster thread believe, and who may write when? | two interchangeable connections, cable pulls, restarts |
| `thrust_live` | What must eventually happen? | one connection, cable pulls |
| `lost_thrust` | *violation*: "thrust has changed, update Arduino command" | one connection, cable pulls |
| `linear_actuator` | Which interleavings lose an actuator command? | two connections, three positions, cable pulls |
| `la_race` | *violation*: the same claim for the actuator | one connection, the cable in place |
| `yaw_control` | Does the controller turn the right way, and where does the vehicle stand at last? | headings 60 degrees apart, a ring of 2, two sets of gains, memory full of -10000 |
| `yaw_target` | *violation*: "perform a PID loop on state -> desired_state" | headings 90 degrees apart, main's gains, zeroed memory |
| `imu_receiver` | What can be published after losses, and does it heal? | quaternion, inertial and battery packets, unbounded losses, cable pulls |
| `frame_grabber` | Who has which buffer, how many frames come out, and does it end? | the three methods; 3 buffers asked for, up to 4 granted; words of 4 values; -c of -1, 0, 1, 2; up to 2 timeouts |
| `camera_feeds` | What do interrupts make of the process tree? | three cameras, four interrupts, forks that fail, one restart |
| `network` | Whose is each descriptor, and who is still served? | five descriptors, two worker threads, an operator and an observer with two commands on the way |

What they show:

* `Snapshot`, `ImplementsAtomic`, `CallsReturn` - no torn read, each call is one step,
  no caller starves.
* `PrevIsSent` - the only ways for `prev` and the Arduino to part are a failed write
  and a restart. `ChangeDelivered` - a change seen on a live port is delivered.
  `Reconnects` - after a replug the port is reopened, but only because thrusts keep
  changing; `lost_thrust` shows what happens when they do not.
* `QuietStart` - a fresh program sends nothing before an operator acts, whatever `malloc`
  left and however far `main` has come, because it creates the threads after it has set
  mode and thrust; with the thruster thread created first it fails (the mutant). It also
  means that a *restarted* program does not stop an Arduino that is still thrusting.
* `SurgeFromOneWriter` - operator and yaw controller never share the surge pair.
* `LateWritesDrain`, `DisableQuiesces` - after `/set_mode 0`, threads already past
  their test write once more each, nobody joins them, and the thrust then stands.
  (Such a write does happen: `YawTest`, `SetMode`, `YawStore`, against the comment at
  `vehicle_control.cpp:37`, "not in autonomous mode, don't change anything".)
* `AutonSteers` - operators may write in `MODE_AUTON`; the controller overwrites them.
* `PairFromOneCommand`, `RememberedIsSent`, `LaReachesUnlessRaced` - the mutex keeps
  commands whole; a command is lost only by a store between the thread's two loads
  or a failed write; `la_race` shows the first.
* `LaserOnResends` - with the laser on, `laser_prev = leds_on` (`init_la.cpp:41`)
  makes the thread resend for ever, which repairs every loss. Its mutant is the
  obvious correction of that line: correcting it without the races loses commands.
* `RingIsWindow`, `ErrorNeverGrows`, `KeepsSide`, `Settles` - uninitialised memory is
  gone after as many samples as the ring has slots; from then on no turn that follows a
  fresh heading leads away from the target's distance from 0 or across 0; so a
  vehicle left alone settles at that distance, on the side where it is, or at 0.
  `yaw_target` is the other side of that: the mirror image of the target, and heading 0,
  count as arrived.
* `CompleteFramePublished`, `OneLossDetected`, `OrientationHeals` - one framing
  character puts the decoder in step, even after its index has wrapped; a single lost
  character (the framing one included) always shows in the size, two may not; what was
  published wrongly is replaced once losses stop. `ImuReconnects` holds without the
  provisos of `Reconnects`, because this thread probes the port in every turn.
* `BuffersOwned`, `FramesAsAsked` - no buffer is unmapped while the driver has it, none is
  lost on the way round, and a grabber that is not interrupted grabs `-c` frames, read as
  unsigned: `-c -1`, meant as "continuous", is 2^32-1. `InterruptEnds`, `SilenceEnds` - a
  signal ends it although `select` may miss it, because the timeouts of a silent camera
  are counted down over the whole run; the latter makes a *quiet* camera fatal too. Both
  stop at `Over`: nothing obliges the subscribers, and a grabber whose subscribers
  neither take what was published nor leave waits for them, or for the next signal.
* `InterruptsRetire`, `FeedsStop` - a Ctrl-C does not end the feeds but moves them one
  fork further from `main`: it takes as many as there are cameras to stop them. What is
  left meanwhile holds the cameras and, if it inherited the socket, the port
  (`HeldOnlyBefore`, the other half of `InterruptsRetire`).
* `DescriptorsOwned` - although numbers are used again and lost, no thread has another's,
  and the leaks are the two the code has: a failed connect, and a connection for which
  there is no thread. `ClientServed` - until the leaks leave too few descriptors, the
  threads run out or the program dies, whoever sends a command has one read, or the
  connection closed: commands that were joined are lost, and a server with a negative
  `clilen` turns everybody away, both within what it says.
  `DepthFollows` - the depth follows the water as long as the sensor is not pulled; after
  that it never does again, which is the proviso `~sensor` (`SensorPlugged` does not help a
  descriptor that is open).

**Bounds.** `interrupts` is bounded by one more than there are cameras, when nothing is left;
commands on the way to a worker by 2, enough to be taken together or not; worker threads by
2, so that both clients can have one, or one client both in turn, and a third finds none.
Five descriptors are one more than the clients and links need, so that one leak is harmless
and the next is not. `Garbage` is `{"mission"}` there: the server whose failed accept also
costs a thread, while the observer's always accepts, so that answers still occur with it;
the theorems cover both. In the grabber four buffers and words of four values leave room for a
count that wraps, a grant below and above the request, and a timeout left over. `lost` of
`ImuReceiver` is capped at 2, the number `OneLossDetected` speaks of. Every run is exhaustive. Two connections are
enough for one to overtake another between test and store, and their workers have no
other state. Two operator thrusts (zero and one with a half) and one output per
controller tell all writers apart in every field but `heave_a`, which only operators
write. Two field values show any mix of two writes. Three positions allow `0,1,0` and a
value in between. Seven headings give each side of 0 two distances to move between and
both names of 180; a ring of two has an oldest slot besides the newest, which is all
that recording and the derivative tell apart, and the theorem covers 20. The two gains
keep the PID value positive for every positive error and any earlier one. With a
derivative gain that outweighs the others it would not be (section 4 gives the exact
condition), and nothing in the code prevents an operator from setting one. The IMU run has the real
frame lengths and the real 256 cells; the three kinds are those the decoder tests for,
and the theorems cover the others.

**Fairness.** Weak fairness on each thread's own steps: the threads are infinite loops
with bounded sleeps and writes that return. `SharedStruct` assumes strong fairness of
`Lock`: a thread that keeps asking for a mutex gets it. Linux mutexes do not promise
that, and both controllers spin on `mode_mutex` without sleeping, but a spinning
thread releases the mutex between turns and is preempted; on that the liveness
results rest, and they say nothing about that hazard. `ThrustControl` assumes the same by
weak fairness of the critical sections. `YawControl` adds strong fairness of `Turn`: the vehicle does not refuse to turn for
ever under unequal thrusts, and no more than one step per sample (a vehicle that turns
further overshoots, which is not modelled). `ImuReceiver` adds a device that streams.
`FrameGrabber` assumes that the program runs on and the driver answers, never that it fills
a buffer; `CameraFeeds` that an interrupted grabber ends, hence that its subscribers take or leave; `Network` that a sensor that is
plugged in sends lines, that a worker whose connection has something runs, and that
accept takes every waiting client in turn (the backlogs hold 10 and 20).
Hosts and clients owe nothing.
Operators, cables, losses and restarts are never assumed fair. `Restart` is left
out of `thrust_live`, where nothing depends on it but `started`.

## 4. Proofs

For all values of the constants, from the assumptions named in each module:

* `SharedStruct_proofs` - invariant: types, `pc[t]` is "inside" exactly for the owner,
  `todo` is empty outside, and both halves of "what the holder has accessed stays as it
  was". The last two are not inductive without the mutex part. `Implements` adds
  that each action maps to the atomic action or to a stutter.
* `ThrustControl_proofs` - the four invariants plus `ArmedAsked` (what a worker
  carries came from an operator), without which `SurgeFromOneWriter` is lost at
  `StoreThrust`. `QuietStart` is what makes a controller's test imply `commanded`; it rests on
  `Created`: nobody acts before the step of `main` that creates its thread.
  `LateWritesDrain` follows from types alone, one case per action. `RestInSight` counts what
  is left of it: two for each thread past its test (a store and a send), one for a thrust
  that waits to be sent; with k connections no more than 2k + 5.
* `LinearActuator_proofs` - `StoredIsAsked` strengthens `PairFromOneCommand` to the
  inside of the critical section; `FormattedIsRemembered` follows `buf` through
  `Remember` and `Write` for `RememberedIsSent`. `ResentInNineSteps` and
  `SentInSixUnlessRaced` count the thread's steps to the write that sends la: the rest of
  this turn, and a whole turn more if this turn's write is wasted (on a port to be reopened,
  or on an older value). The first rests on `LaserForgotten`, the second on
  `FormattedIsRemembered` and `RememberedIsSent`.
* `YawControl_proofs` - `RingIsWindow` needs `WindowBehind`, its form between `Sample`
  (which moves the index) and `Steer` (which fills the slot). `SteersTowards` is the
  steering law alone: two distances that differ, differ by a step
  (`DistancesApart`), so a step towards the nearer one cannot pass it, provided the PID value
  is not negative. That it is not is the rest: `Total` is the sum of its parts
  (`PartialSums`, by `SetInduction`, which is derived from the well-foundedness of < since
  the library's induction theorem has an operator for a parameter); `HistoryOK` and
  `RingIsWindow` put the last two errors into a full ring, so that the sum is at least
  theirs (`TotalOfTwo`); and then the value is not negative if the gains prevail:

      (kp + ki + kd) * Step >= (kd - ki) * 180

  (`PidAtLeast`). The condition is an assumption of `ErrorNeverGrowsAlways` and
  `KeepsSideAlways`, on gains that the code lets an operator choose freely. It is met by
  main's gains whatever `Step` is (`MainGainsPrevail`), and it is the weakest there is: with
  any other gains the vehicle turns away (`OthersSteerAway`). With a margin every turn gains a step
  (`EveryTurnCounts`). `BlindToSide` and `SettledStays` say for all gains what `yaw_target`
  shows: the law does not know the target from its mirror image, nor leaves heading 0.
* `ImuReceiver_proofs` - `SizeOfFrame` is arithmetic. `InStep` (nothing lost: the buffer
  is the frame so far) gives `CompleteFramePublished`. `OneOff` (one lost: the
  buffer is one behind, or still has the frame before in front) with the table of
  lengths gives `OneLossDetected`: no length of `PacketLengths` less one, and no sum of
  two with a quaternion in front, has the size of a quaternion. `InStep` also gives
  `HealedStaysHealed`.
* `FrameGrabber_proofs` - invariant: types; `Memory` (which buffers exist at each `pc`);
  `Lent` (which of them the driver has, without which a step that dequeues could dequeue
  anything); `Tally` (frames done and frames to come make up the request, one side of the
  decrement or the other). `Exit` falsifies none of it, because it gives everything back.
  `Remaining` counts the program's steps to its end: what is left of the set-up, of this turn
  of the loop, of the turns that frames at hand and timeouts still allow, and of the
  clean-up. `EveryStepNearsEnd` says each step lowers it and that only a frame the camera
  delivers before a signal puts it up again; subscribers that take their messages are a
  step nearer the end which no one owes; `EndInSight` bounds it after a signal by
  14 + 3 * `MostBuffers`, whatever the camera and the driver do.
* `CameraFeeds_proofs` - `Retired` is `InterruptsRetire` with the children that are about to
  start a grabber, who would otherwise be counted too late; it needs `ForkedInTurn`
  (a process forks only for cameras beyond its own name), which makes a child's name one
  larger than its parent's. After N interrupts only the process with all N cameras in its
  name is left to feed, and it has been told: `NoFeedBegins`. After one more nobody is left to
  hold the port, which is `HeldOnlyBefore`.
* `Network_proofs` - `DescriptorsOwned` is inductive with types and `InTable`: whoever is
  connected has a number of the table. Equivalence, not implication, is what rules out that
  a number that is returned twice is still somebody's. It also makes owners and numbers
  a bijection, so that counting owners (for finitely many clients) counts numbers:
  `RoomUnlessShort`. That the shortage is for good is `LostForGood`.

Every safety property that a run checks is a theorem. Only model-checked: liveness under
fairness (`CallsReturn`, `ChangeDelivered`, `Reconnects`, `DisableQuiesces`, `AutonSteers`,
`LaserOnResends`, `LaReachesUnlessRaced`, `Settles`, `ImuReconnects`, `OrientationHeals`, `InterruptEnds`,
`SilenceEnds`, `FeedsStop`, `ClientServed`, `DepthFollows`), since the prover knows neither fairness nor
ENABLED. What several of them rest on is proved without either, as a measure that each
step of the threads lowers and nothing else raises, or as a region that is not left:

| Liveness | Proved of it |
|---|---|
| `DisableQuiesces` | `RestInSight`: 2k + 5 steps |
| `LaserOnResends` | `ResentInNineSteps` |
| `LaReachesUnlessRaced` | `SentInSixUnlessRaced` |
| `Settles` | `EveryTurnCounts`: a step a turn; `SettledStays` |
| `OrientationHeals` | `CompleteFrameAlwaysPublished`, `HealedStaysHealed` |
| `InterruptEnds`, `SilenceEnds` | `EveryStepNearsEnd`, `EndInSight`: 14 + 3 * `MostBuffers` steps |
| `FeedsStop` | `InterruptsRetireAlways`, `NoFeedBegins` |
| `ClientServed` | `RoomUnlessShort`, `LostForGood` |

That the steps are taken is the fairness of section 3, and that they can be taken is what
the runs check.

## 5. Assumptions and what is left out

* `int` and `float` loads and stores are single accesses, as on the vehicle's board.
* `set_thrust` and the other `char *` actions end without a `return`. That is undefined
  in C++; the models take a build where the call returns and its value is ignored,
  as every caller does. A recent `g++ -O2` need not do so.
* `arr_sum` adds to an uninitialised `sum`. The model takes 0, which is what `g++ -O2`
  (the build's default) compiles it to; the ring itself, in memory, is any of `Garbage`.
* The yaw controller is given the vehicle's present heading, and 50 ms between samples.
  The gains are read in `Steer` although the code reads them just before the heading: only
  the operator writes them, at any time. `SetCurrentOrientation` lets the target become any
  heading, more than the one that was current.
* `write` on a serial port either takes the whole short line or fails.
* The Arduino firmware is not part of the repository: `sent` is what the port
  accepted, not what the motors do.
* Linux: data that arrived before a connection is reset can still be read, `system()` ignores
  SIGINT in the caller, a new listener cannot bind a port that another process listens on.

Not modelled, and why:

* The text of commands, sentences and answers: a command is a value, which may be one that
  ends the program. What else a line without a newline or a split command may do (act
  with fields of an earlier one, write past a buffer and go on) is outside.
* A worker blocked in the `write` of an answer, and a camera that `select` keeps reporting
  as readable although a read gives EAGAIN: `Ready` is both select's view and the read's.
* `set_orientation` and `set_depth`: one store under one mutex each, by `SharedStruct`.
* The depth controller's arithmetic, but for its gate and its store (`ThrustControl`): the
  same ring and PID as `YawControl`'s, with a clamp on both sides. Neither controller under a
  clock that is set, whose infinities and NaN integers cannot give.
* The seven sections of `/info`, each read under its own lock: nothing relates them.
* The values in x-IMU packets and GPS sentences; termios set-up, logging, build files.

## 6. What could follow

1. `DepthControl` - the clamped depth law over the same ring; clock steps.
2. An abstract actuator link that `ThrustControl` and `LinearActuator` both implement;
   `ThrustControl` with `YawControl` inside.
3. `Network` with the serial ports' reopening, so that a full table also keeps the
   thrusters' and the IMU's ports closed.
4. The same measures for `ChangeDelivered`, `Reconnects` and `ImuReconnects`, and for the
   calls of `SharedStruct`.
