# TLA+ verification of the rm-engineer-robot firmware

The repository holds the firmware of several competition robots: RT-Thread
applications for STM32 boards that talk to each other, to the motors and to the
gyroscope over CAN. Each robot has two or three boards (gimbal, chassis,
ammunition); the drivers in `src/public` are shared by all of them. This
directory models the parts whose correctness depends on the order in which
threads, interrupts and frames meet, checks them with TLC and proves the main
results with TLAPS.

Line numbers are those of the files as they are in the repository (GB 2312,
CR LF); `PROJECT.json` names the lines each definition translates.

## 1. Inventory

### Threads and their priorities

A smaller number is more urgent; RT-Thread preempts at once, and slices time
among equals.

| priority | thread | created in |
|---|---|---|
| 1 | remote receiver, gimbal control, chassis control, strike loops | `drv_remote.c`, `drv_gimbal.c`, `drv_chassis.c`, `drv_strike.c` |
| 2 | CAN1 and CAN2 receive threads, heat control, claw | `drv_canthread.c`, `drv_strike.c`, `ammo.c` |
| 3 | palstance of the gimbal | `drv_gimbal.c` |
| 4 | the timer thread of RT-Thread | kernel |
| 5 | `main_task`, `trailer_task` of the engineer | `main_thread.c`, `trailer.c` |
| 6 | aimbot reader | `drv_aimbot.c` |
| 10 | `main()`; on infantry and sentry also the control loop | `main.c` |
| 25, 26 | watchdog monitor and alarm | `drv_monitor.c` |

No lock protects anything these threads share. Interrupts are only disabled
inside RT-Thread. A handler of a more urgent thread runs to its end before a
less urgent one continues, so it is atomic for the latter, never the other way
round. The projects are compiled without optimisation, so every `+=`, `|=` and
`&=` on shared memory is a load and a store that can be separated.

### Components

| component | state it keeps | operations | meets others through | what is hard | what makes it correct |
|---|---|---|---|---|---|
| Rescue trailer (engineer chassis: `trailer.c`, `can_receive.c`, `comm.c`, `main_thread.c`) | state byte, calibration, offset and set point of two arms; the command byte | `trailer_start`, `trailer_go`, the homing in `can1_rec`, `read_gimbal_data`, the position loop | command byte from CAN2, encoder from CAN1, both loops on the set point | five threads of control on two bytes and two floats | every request is applied once and moves its arm (the first holds, the second does not); homing only at rest, bounded and finite; arms start together; calibration holds the arm |
| DJI motor reader (`drv_motor.c`) | last angle, total, geared angle | `motor_readmsg`, `motor_angle_set`, `motor_init` | called by the CAN threads, read by control loops | mixed signed and unsigned arithmetic, zero crossing in both directions | laps are neither lost nor doubled |
| CAN reception (`drv_canthread.c` over RT-Thread's `can.c`) | message box, semaphore, the thread's message | interrupt, `rt_sem_take`, read, dispatch, `can1_init`, `can2_init` | interrupt to thread; dispatch calls `can1_rec` and `can2_rec` | full box, frames during set-up, copies with interrupts enabled | no node shared, no frame torn, lost or repeated except for a reason |
| Launcher (`drv_strike.c`) | status bits, tick of the last shot, set point of the feeder, heat | `strike_fire`, `heat_control`, the 1 ms and 10 ms tasks, `Gun_speed_set` | control loop and 10 ms task on the set point; heat thread (sentry only) | set point shared by two threads, a tick that wraps, a fold once in 10 ms | shots keep their distance, one feed per shot, the fold is not overtaken |
| Remote receiver (`drv_remote.c` over RT-Thread's `serial.c`) | the ring and the message queue; last frame, latched switch and key actions | `uart_isr`, `uart_input`, `serial_thread_entry`, `Change_from_middle`, `Change_to_middle`, `Key_action_read` | DMA and interrupt to serial thread; serial thread against readers | the end of the ring, lost messages, frames before the callback; read-modify-write of the latches, two switches sharing one byte | no byte lost or shifted, each frame processed by itself (not so if the line brings parts of one); only real movements reported |
| Gimbal control (`drv_gimbal.c`, the increments of `drv_aimbot.c`) | set points of two axes, error of the angle loop; increments and use counts of the vision computer | control thread, `gimbal_addangle_set`, `remote_ctrl`, `refresh_visual_data` | control thread and CAN2 thread against the board's loop | set points clamped, wrapped and added to in several statements, an error of sixteen bits | controlled by what was asked for, the shorter way; no frame used twice |
| Watchdog (`drv_monitor.c`) | list of watchdogs with their residue and flag | monitor, alarm, `swdg_create`, `feed` | none: no board creates a watchdog | | |
| Infantry link (gimbal `robocontrol.c`, chassis `main.c`) | last command frame and how often it was used | `remote_ctrl`, `ctldata`, `refresh_ctldata` | CAN2 | timeout against refresh | a silent gimbal stops the chassis |
| Engineer ammunition board | claw, magazine door | `ammo.c`, `magazine.c` | CAN2 | its control loop is not in the repository | |
| Sentry boards, chassis driver, PID, aimbot, referee and gyroscope links, board support | see `PROJECT.json` | | | mostly numeric or pure input and output | |

The hazards of each, with the line at which they bite, are listed in
`PROJECT.json` with the property that covers them or the reason none does yet.

## 2. What is modelled

### Trailer (`Trailer.tla`, `MCTrailer.tla`, `Trailer_proof.tla`)

Both arms of the rescue trailer with everything that touches them:

- `Boot` is `main()`: `TrailerInit`, `PidInit`, `StartLoop`, `gimbal_ctrl_init`
  and `main_thread_init`, in that order. The CAN threads already run, so a
  frame may come between any two of them. `main()` has priority 10 and runs
  only while the loops that already started are blocked (`LoopsBlocked`).
- `can1_rec` is one reading of an arm's encoder with its calibration and its
  homing, `read_gimbal_data` one command byte. Both run at priority 2 and are
  atomic for everything else.
- `trailer_tim_entry` is the position loop: `AngleLoad` passes the set point to
  `pid_output_motor`, `AngleStore` stores it back, `AngleFold` folds it into a
  turn. The three are separate because the CAN threads and the control loop may
  come between them.
- `main_thread_entry` is the control loop: `Check`, `Store` for the left and the
  right side, then `trailer_go` as `GoLoad`, `GoAdd`, `GoLatch` or `GoNothing`.
  Loads and stores of `ang.set += x` and `state |= bit` are apart.

Angles are in encoder ticks; `set` is the float `ang.set`. Its rounding, the
gear ratio and the velocity loop behind it are left out. `Prepare` and `Catch`
stand for the distances of `trailer.c`, `Limit` for 1000 and 4096, `Still` for
100. `CmdBytes` are bytes a gimbal board may send; the gimbal board in the
repository sends only 0 (see the findings), so the model takes the requests of
`trailer.h`. `accepted` and `moved` are history variables: the requests stored
into a side's state, and those `trailer_go` has applied. What becomes of an
applied move is in `set`, which `AngleStore` may overwrite.

### MotorAngle (`MotorAngle.tla`, `ShaftCounter.tla`, `MCMotorAngle.tla`, `MotorAngle_proof.tla`)

`motor_readmsg` with `motor_angle_adjsut`, driven by a rotor that turns by up to
`MaxStep` ticks between two frames. `Unsigned` is C's conversion to
`rt_uint32_t`: `old_angle - 2000` wraps around below 2000, and only the second
half of the test keeps that from counting a lap. `ShaftCounter` is the abstract
specification: after the first frame the total moves exactly as the rotor does.
`AlignedSpec` gives each frame a speed with the sign of the movement since the
last one.

### CanRx (`CanRx.tla`, `FrameBox.tla`, `MCCanRx.tla`, `CanRx_proof.tla`)

One bus, from the interrupt to `can1_rec`: the message box of RT-Thread's CAN
device (two lists of nodes), the callback that releases `can1_rx_sem`, the
thread that takes it, unlinks a node, copies it with interrupts enabled, gives
it back and dispatches the message, and `can1_init`, which opens the device
before the callback, the semaphore and the thread exist. A frame is its number
in the order of arrival. The projects define `RT_CAN_USING_HDR`, but no filter
is connected to a header and the thread asks for header -1, so the lists per
header stay empty and are left out. CAN2 is the same code. `FrameBox` is the
abstract specification: frames are given to the reader in the order of arrival,
each once, and only a box with a frame in every place gives up its oldest.

### InfantryLink (`InfantryLink.tla`, `MCInfantryLink.tla`, `InfantryLink_proof.tla`)

The infantry's gimbal board tells its chassis board in every period of 10 ms how
to move; the chassis board uses a command at most ten times, so that it stops
when the gimbal falls silent.

- `remote_ctrl` is one period of the gimbal's loop: a movement of S2 steps
  `sport_mode` on, the frame of the new mode gets onto the bus or is lost.
  `Disconnect` breaks the cable for ever.
- `refresh_ctldata` runs at priority 2 and `chassis_control` at priority 1; both
  are atomic for `main()`.
- `chassis_main` is `main()` at priority 10, access by access: `Test`, then
  `SetMode`, the two loads and two stores of `chassis_speed_set`, and the load
  and the store of `usetime++`; or `StopMode`, `StopSpin`, `StopSpeed`.

`uses` and `silent` are history variables, not part of the code: how many passes
of `main()` used the last command, and how many ended since it came. Both axes
of the linear speed are one value; the angle to follow is 0 in every frame and
left out. In the following mode the angular velocity comes from the angle loop,
and `Driven` shows it as 0 next to the mark `follow`.

### Remote (`Remote.tla`, `SwitchLatch.tla`, `MCRemote.tla`, `Remote_proof.tla`)

The latches of `drv_remote.c`. A frame is one action (`serial_thread_entry`,
priority 1) and may come between any two accesses of a call of
`Change_from_middle`, `Change_to_middle` or `Key_action_read`: `TestLatch`,
`TestFirst`, `TestSecond`, then `ClearSwitch` or the load and the store of the
mask. `Script` is the sequence of calls of a control loop. `moved` is a history
variable with the movements not yet reported. Sticks and mouse are left out, as
is the bit layout of a frame; a frame that `RemoteDataProcess` rejects leaves
everything as it was. `SwitchLatch` is the
abstract specification for the switches of which only movements out of the middle
are asked for: each is owed until it is reported or taken back.

### Launch (`Launch.tla`, `MCLaunch.tla`, `Launch_proof.tla`)

The launcher as the gimbal boards of engineer and infantry use it. `Tick` is the
time; `task_10ms_entry` runs before the tick after its timer has expired.
`strike_fire` is `TestSpeed`, then `StopLoad` and `StopStore` (the feeder is held
where it is), or `Gate`, `FeedLoad`, `FeedStore` and `Stamp`; time, the 10 ms task
and the feeder's frames may come between any two of them. `age` and `want` are
history variables: the ticks since the last shot, and where the shots since the
last stop should have brought the set point. The model starts after
`strike_init`; the mode never changes, as no board calls `Gun_mode_set`.

### SerialRx (`SerialRx.tla`, `ByteQueue.tla`, `MCSerialRx.tla`, `SerialRx_proof.tla`)

How a frame reaches `RemoteDataProcess`. `Line` is the DMA writing a piece of
the line, a frame or part of one, into the ring; `uart_isr` turns the DMA's
counter into an advance of the put index, which is negative where the DMA has
passed the end of the ring, and into a message; `serial_thread_entry` is `Recv`,
`Read` (RT-Thread's `_serial_dma_rx`, with interrupts disabled) and `Parse`.
`SetRxIndicate` and `Startup` are the rest of `remote_uart_init`, once the device
is open. Bytes are not copied: a byte is its number in the order of the line,
and `ends` holds where the pieces ended. `slow` is chosen at the start: a thread
that may be late by several frames, or one that has dealt with a frame before
the next ends; the line brings frames and parts of frames to both. `parts` is a
history variable that counts the parts. A read may give less than a frame, or
more: `taken - from` bytes, whatever `Parse` then makes of them. `ByteQueue` is the abstract specification: what is announced is
held until it is taken, and taken once.

### GimbalCtl (`GimbalCtl.tla`, `MCGimbalCtl.tla`, `GimbalCtl_proof.tla`)

The set points of yaw and pitch, on both boards that have a gimbal.
`gimbal_contral_thread` is one pass at priority 1: the count of passes, the
limits of the pitch, and in one of `Every` passes the error of both axes
(`Error`, with the width of `pid_output_motor`'s short). The board's loop is
interrupted anywhere: on the engineer `gimbal_addangle_set` (`AddYaw`,
`AddPitchLoad`, `AddPitch`), on the infantry the end of `remote_ctrl` with the
stick (`StickAdd`) or with the frames of the vision computer (`VisualAdd`, then
for each axis `CountUse`, `LoadAdd`, `ClearAdd`), then `SetPitch` and `SetYaw`;
on both `WrapYaw`, `WrapPitchLoad`, `WrapPitch`. A statement on the yaw is one
action, as no other thread stores it; one on the pitch, which the control thread
clamps, is a load and a store. `refresh_visual_data` is a frame of the vision
computer in the CAN2 thread. `Turn` is the gimbal: it turns towards the set
point the last angle loop read, and not beyond it before the next one. `want` and
`used` are history variables: the set points asked for, and how often each frame
moved each axis. The board is chosen at the start.

## 3. What the runs check

| run | checks | shows |
|---|---|---|
| `trailer` | `TypeOK`, `AppliedOnce`, `OffsetBounded`, `HomeAtRest`, `NewCommandOnlyWhenBothHome`, `OnlyResetsEnd`, `HomingCompletes` | `trailer_go` applies each request once although the latch is a non-atomic `\|=`; homing and the exchange of commands keep their order; states outside the reset sequence are never left; an arm sent home is declared home, once it rests |
| `trailer_moves` (violated) | `MovesKept` | the position loop stores the set point it was called with over a move just applied; the latch keeps the move from being made again |
| `trailer_calibration` (violated) | `CalibratedSetPoint` | a reading during start-up calibrates an arm whose set point is cleared afterwards |
| `motor_angle` | `TypeOK`, `Tracks`, `CounterSpec`, `GearedContinuous` | no lap is lost or doubled in any sequence of movements; the reader implements `ShaftCounter` |
| `can_rx` | `TypeOK`, `NodesOwnedOnce`, `SemAccounting`, `StaleOnlyAfterDrop`, `BoxSpec`, `Drains` | handler and thread share no node; the semaphore is wrong by exactly the early and the overwritten frames; the device implements `FrameBox`: frames are dispatched whole, in order and once, but for the oldest of a full box; the box is emptied |
| `can_rx_init` (violated) | `SemaphoreInitialised` | a frame between the installation of the callback and `rt_sem_init` fails RT-Thread's assertion |
| `infantry_link` | `TypeOK`, `UseLimited`, `StopsInTime`, `SilenceStops`, `ModeArrives` | a command is used at most `Limit` times even where `usetime++` races with its reset; a chassis without a gimbal is asked to stand still in time and does come to rest; a mode that is kept arrives although frames are lost |
| `infantry_stop` (violated) | `StoppingNeverSpins` | mode and speed are zeroed one after the other, so that stopping may start a spin for a period |
| `remote` | `TypeOK`, `NoPhantom`, `LatchSpec`, `EventuallyReported` | only real movements are reported; the latches implement `SwitchLatch`: a movement out of the middle is owed until it is reported, once, or taken back; a switch that is left out of the middle is reported |
| `launch` | `TypeOK`, `SetFolded`, `FeedExact`, `FireInterval` | shots keep their distance in time across the wrap of the tick; none is lost between `ang.set +=` and the fold; the fold is never overtaken by a second shot |
| `serial_rx` | `TypeOK`, `NoneLeft`, `PieceByPiece`, `OnePiece`, `QueueSpec` | the ring implements `ByteQueue` round every end of it; a lost message leaves nothing behind; no read of a thread that keeps up, nor of a late one to which the line brought only frames, ends inside a frame or a part of one; a thread that keeps up reads each piece of the line by itself |
| `gimbal` | `TypeOK`, `UsedOnce`, `Honest`, `ShortWay`, `Settles` | wherever the control thread interrupts a call, its error is that of the set points asked for; it takes the shorter way except between two statements; no frame of the vision computer moves an axis twice; the gimbal comes to stand where it was asked to |

### Bounds

- `Trailer`: a turn has 8 ticks, so that the thresholds (2 and 4 of 8 for 1000
  and 4096 of 8192), the reading on either side of zero (1 and 7 for the left
  arm, further apart than its threshold) and the fold of the set point all
  occur. `Still = 1` keeps the count of repetitions at two values below the
  limit. `MaxMoves` ends the taking of commands after three moves (each command
  moves up to two arms): a prepare and a reset command can be given to both
  arms one after the other, and mixed commands can be given to one each. The
  two runs that end in a violation allow one command, which is enough for it.
- `MotorAngle`: 8 ticks, half turn 4, slack 2, two turns each way, steps of up
  to 3 (less than half a turn, which is what the reader can tell apart at the
  motor's maximum speed and a frame per millisecond), 64 values of the unsigned
  type, so that negative totals wrap as they do in C.
- `CanRx`: three nodes and seven frames: the box fills, is overwritten while a
  node is in the thread's hand, and is gone through twice.
- `InfantryLink`: `Limit = 3` uses instead of 10 has the same three cases (first
  use, a use in the middle, the last). One speed besides 0 and one angular
  velocity suffice to tell a command from none and one mode from another. One
  frame under way at a time: the receive thread takes a frame out before the
  next period sends another. `uses` and `silent` stop counting one past the value
  that would violate the property that reads them.
- `Remote`: `Burst = 1`. A frame takes 14 ms, a call microseconds; with two frames
  in one call a movement that is taken back and repeated between the test of a
  switch and the clearing of its latch is lost, and TLC finds `LatchSpec` violated. `Script`
  asks for both switches out of the middle, as the boards do, and, as none of
  them does, for S2 to the middle and for one key.
- `Launch`: three shots to a turn of eight ticks, so that the fold comes within
  three shots; a rest of four and a period of two keep their order; a tick that
  wraps after ten passes its wrap between two shots. `age` stops counting at the
  rest.

- `SerialRx`: a ring of 16 and frames of 3 have no common divisor, so that frames
  meet the end of the ring at every offset, as 18 and 128 do in steps of two; a
  queue of 2 loses messages, which 21 in the code would only after 21 frames.
  `MaxLine` is nearly two rounds of the ring. `MaxParts = 3` parts of frames in a
  run: the line brings parts when the board or the transmitter is switched on,
  and three parts and two messages are what it takes to mislead a late thread.
  `MaxHeld < BufSz` is the
  assumption that the thread never falls behind by a whole ring (seven frames,
  98 ms): then, and only then, bytes are overwritten, which the code reports
  nowhere.
- `GimbalCtl`: a turn of 8 ticks in numbers of 32 = 4 turns (65536 are 8), so that a
  set point below zero, the fold and the short's overflow all occur. Yaw adds
  -1 or 3 and pitch 0 or 2, with limits a tick above and below the start: both
  limits, both directions and the way round zero occur from the nine angles the
  gimbal may start at. Two calls and one frame. `rested` says that the control
  thread has made a pass between two calls, which come every 10 or 20 ms.

### Fairness

- `Trailer!Fairness`: for each arm, the reading that repeats the last one keeps
  arriving. The motors send a thousand frames a second and the thread that
  handles them has priority 2; an arm that rests sends equal readings. Other
  readings may still come in between. Nothing is assumed of the loops.
- `CanRx!FairSpec`: weak fairness of the receive thread. It has priority 2, and
  the threads at priority 1 block after each period. Nothing is assumed of
  frames or of `can1_init`.
- `InfantryLink!Fairness`: weak fairness of `main()`, of the control thread and of
  the receive thread, which all block at the end of a period, and of a frame that
  gets onto the bus while the boards are connected: a CAN controller repeats a
  frame until it is acknowledged. Any number of frames may still be lost.
  The gimbal board may stop using S2; nothing is assumed of its movements.
- `Remote!FairSpec`: weak fairness of the control loop, which comes back after
  its period. Nothing is assumed of frames.
- `GimbalCtl!Fairness`: weak fairness of the control thread, which its timer
  releases every millisecond, of a call that has begun, which only threads that
  block interrupt, and of the motors. New calls and frames may stop or go on.
- `SerialRx` states none: its properties are safety.

## 4. What is proved

TLAPS proves, for all values of the constants that satisfy the assumptions named
in each module:

| module | theorem | property |
|---|---|---|
| `Trailer_proof` | `TypeCorrect`, `RequestsOnce`, `BoundedOffset` | `[]TypeOK`, `[]AppliedOnce`, `[]OffsetBounded` |
| `Trailer_proof` | `HomeOnlyAtRest` | the action property `HomeAtRest`, if `Still > 0` |
| `Trailer_proof` | `NoWayOut`, `CommandsTogether` | the action properties `OnlyResetsEnd`, `NewCommandOnlyWhenBothHome` |
| `MotorAngle_proof` | `TypeCorrect`, `Tracking`, `Counting`, `Smooth` | `[]TypeOK`, `[]Tracks`, `AlignedSpec => CounterSpec` (refinement), the action property `GearedContinuous` |
| `CanRx_proof` | `TypeCorrect`, `Ownership`, `Accounting`, `NoRepetition` | `[]TypeOK`, `[]NodesOwnedOnce`, `[]SemAccounting`, `[]StaleOnlyAfterDrop` |
| `CanRx_proof` | `ImplementsBox`, `Ordered` | `Spec => BoxSpec` (refinement), and that what is dispatched never descends |
| `InfantryLink_proof` | `TypeCorrect`, `LimitedUse`, `StopInTime` | `[]TypeOK`, `[]UseLimited`, `[]StopsInTime` |
| `Remote_proof` | `TypeCorrect`, `Genuine` | `[]TypeOK`, the action property `NoPhantom` |
| `Remote_proof` | `ImplementsLatch`, `KeptUntilReported` | `Spec => LatchSpec` (refinement), `[]FromMiddleKept`, if `Burst =< 1` |
| `Launch_proof` | `TypeCorrect`, `NeverOvertaken`, `NoShotLost`, `Interval` | `[]TypeOK`, `[]SetFolded`, `[]FeedExact`, the action property `FireInterval` |
| `SerialRx_proof` | `Typed`, `NothingLeft`, `ImplementsQueue` | `[]TypeOK`, `[]NoneLeft`, `Spec => QueueSpec` (refinement) |
| `SerialRx_proof` | `WholePieces`, `OneByOne` | `[]PieceByPiece`, `[]OnePiece`, if `2 =< MqMax` |
| `GimbalCtl_proof` | `TypeCorrect`, `FramesUsedOnce`, `Shorter` | `[]TypeOK`, `[]UsedOnce`, the action property `ShortWay` |
| `GimbalCtl_proof` | `HonestPass` | the action property `Honest`, if `PitchWithin` |

**Trailer.** `AppliedOnce` is not inductive alone: the step that latches a state
stores a value loaded earlier, and the step that starts a command adds to a
count. The invariant is strengthened with `Booting` (before the control loop
starts nothing has been requested and no state is a request) and `Control` (at
`latch` the register holds the state of the current side, which is a request;
at the two stores the states not yet stored are home). It follows that no
receive handler changes a state while the control loop holds a copy of it:
the handler only changes states in `Homing`, and the loop only copies requests.
That is why the non-atomic `|=` loses nothing. It says nothing of the set point:
the `+=` on it does lose moves, as `trailer_moves` shows. `HomeAtRest` needs `Uncounted`: an
arm not yet calibrated has counted no equal reading, so that the reading that
calibrates it never brings it home; this is where `Still > 0` is needed.

**MotorAngle.** The invariant relates `old_angle` to the encoder and the total
to the rotor, up to the one turn the first frame cannot know. A step shorter
than `Lap - Half` crosses zero exactly when `Crossing` says so; this uses
`Slack =< Half` and that the unsigned difference of a small angle exceeds every
angle. `GearedContinuous` adds `Behind`, that the angle is that of the total, and
three facts of arithmetic: whole turns do not change a difference of remainders
(`Difference`), two angles are no further apart than the totals they are of
(`Nearer`), and the quotient by the gear grows no faster than the total (`Slower`).
It uses that the gear does not turn faster than the rotor, `P =< Q`.

**CanRx.** `NodesOwnedOnce` gives that a full box still has a node in use (so
the interrupt always finds one). `Holding` says when the thread owns a node, and
`Setup` what cannot have happened before the thread starts. Since the lengths
of the lists add up to the size of the box and their elements cover it, no node
is in two places. `Order` adds what the order rests on: no node is twice in the
lists or in the hand, the frames to be read ascend from the front of their list,
and the frame dispatched, the one copied, the one being copied, those to be read
and the last to have arrived never descend. A full box gives up its oldest frame
and takes the newest, so that what remains ascends still, and the node that is
overwritten is never the one in the thread's hand. The refinement maps the list
to the frames in its nodes and the hand to the frame of the node being copied,
then to the message copied until it is dispatched. `Once` makes the order strict:
what was copied is older than what is to be read, and newer than what was
dispatched until it is dispatched itself. A frame is then seen to leave the box
when its node is unlinked, although the node is copied and given back later; a
read that finds nothing is a stutter; and the handler finds the lists full only
where `FrameBox` counts a frame in every place.

**InfantryLink.** `usetime` is not the number of uses: a reset between the load and
the store of `usetime++` is overwritten. `Counts` bounds each by the other at
every step of `main()`: the uses never exceed the value that is, or is about to
be, in `usetime`, and the passes since the frame came exceed it by at most the
one that was under way. `Stopping` says what the stop has zeroed at each of its
steps.

**Remote.** `LatchTells` says where a latched switch is, `LatchMoved` that what is
latched has moved unless its report has just been given, and `Within` what a
call still knows after its first test although frames come in between: from
there `NoPhantom` follows, and also that the non-atomic `&=` on `key_change`
never invents an action (it may lose one). `Kept` adds what is between a report and
the clearing of its latch (`Told`): the switch is out of the middle unless the
only frame that can come has come, so that no frame can then set the latch anew.
From there the latches implement `SwitchLatch`, for every switch that no call asks
for another movement of: a switch is owed while its latch says 1, but no longer
once a call has found where it is. The refinement is on the code's own variables;
that the history variable `moved`, which `EventuallyReported` reads, agrees with
them is `FromMiddleKept` of the proof module.

**Launch.** `Stamps`: while fewer ticks than the rest have passed since a shot, the
stamp is not older than the shot, also across the wrap of the tick. `Folding`: a
set point beyond the turn is as young as the task's period, so it is folded
before the next shot is due; this needs `Period < Sleep`. `Exact` says of the set
point that `strike_fire` has loaded what it says of the set point itself: modulo
the fold both are what was asked for, so that a fold the task stores between the
load and the store of a shot is overwritten without harm.

**SerialRx.** Three places on a ring: where the DMA writes, the put index, the get
index. `Places` says that the distances between them, round the end of the ring or
not, are the differences of the three counts (bytes on the line, announced,
read), and `Counts` that they add up to less than the ring. From there an
interrupt's length, of either sign, lands on the DMA's place (`Landing`), the
overrun test never holds, and `ByteQueue` is implemented. It uses `BufSz < 32768`
and `MaxHeld < BufSz`. `Due` says that the last message in the queue covers every
byte there was when it was accepted; earlier messages do not matter. For the
boundaries of the reads the two threads `slow` chooses between need different
invariants. Where it is late and the line has brought no parts, `Frames`: whatever
is announced, pending or read is a multiple of a frame. With parts nothing of the
kind holds, and the theorem excepts it: after pieces of 1, 1 and 2 bytes with
messages of 1 and 2, the second read ends in the middle of the third piece. Where it keeps up, `Keeping`: at most two messages are
outstanding, how far the announcements are and which piece each message brings,
stage by stage from the start-up, whose frames leave their messages queued or
lost, to the steady state, in which a frame finds nothing pending. `OnePiece` needs
room for two messages: with `MqMax = 1` the message of a frame is lost behind one from
before the start, the next read takes two pieces, and TLC finds it violated.

**GimbalCtl.** `Folded`: but for the statements between `+=` or the store and `%=`,
the yaw's set point is within a turn; the pitch is in its limits when the angle
loop reads it. `Half` is then arithmetic: the error of two angles of one turn,
corrected once, is half a turn at most. `Spent` and `Consumable` say that a
frame that was used is no longer in `visual_rev`, unless it is about to be
cleared, and that the next has another number. `Honest` rests on `Honesty`: at each
statement of a call the set point, what has been loaded from it and what is asked
for agree modulo a turn (`YawTrue`), and for the pitch they agree once clamped, and
exactly up to the addition of a call (`PitchTrue`). The pitch
needs `PitchWithin`: the limits lie on either side of the middle, no more than
half a turn apart, and no increment leads out of the turn from between them. The
limits are -410 and 590, or -540 and 650, of 8192 ticks around 4096
(`robodata.h`), and the stick asks for 44 ticks at most. Outside it the sum is
folded to the other end of the turn and clamped to the other limit, and TLC finds
`Honest` violated; a frame of the vision computer, whose increments nothing in the
code bounds, could ask for that.

Assumptions on constants are named in the modules (`TrailerAssumption`,
`SerialAssumption`, `GimbalAssumption` ...) and evaluated by TLC in every run.

Every safety and action property of the passing runs is proved. Only model-checked
are the liveness properties `HomingCompletes`, `Drains`, `SilenceStops`,
`ModeArrives`, `EventuallyReported` and `Settles`: liveness under fairness and
`ENABLED` are out of reach of the prover.

## 5. Disagreements between the code and what is said of it

`PROJECT.json` lists each with its lines. Four are shown by a run: the move the
position loop overwrites (`trailer_moves`), the cleared set point after an early
calibration (`trailer_calibration`), the callback that precedes its semaphore
(`can_rx_init`), and the stop that changes the mode before the speed
(`infantry_stop`). The others were met while reading or modelling:

- trailer: the initial command parks both arms for ever;
- motor reader: an encoder that flickers about zero at speed 0 is counted in one
  direction only; the geared angle of a negative total jumps;
- remote: the mouse latch is inverted; readers of keys and switches lose actions;
  what is read is processed as a frame, whatever its length, so that after part of a
  frame bytes of earlier reads are processed again, and a late thread processes an
  old frame twice;
- gimbal: the set point is reduced to a turn after it is stored, so that the
  control thread may turn the wrong way for a few milliseconds; the angle loop
  runs in one of six passes, not of ten; an encoder's origin is shifted by 8191;
  a frame of the vision computer may be erased unused;
- launcher: `strike_fire` clears the heat stop; the fold is one tick short of a turn;
- engineer: the ammunition board rejects the one frame addressed to it;
- sentry: its tasks run ten times slower than they are called; its speed loop uses
  the controller for angles; two bytes are joined by `||`;
- merge markers are left in three files.

## 6. What is not modelled

- Floating-point rounding, PID outputs and motor currents: numeric code without
  a decision that the properties depend on.
- The `SINGLE_CTRL` builds, which are not the configured ones.
- The chassis half of `main_thread_entry`, which shares no state with the trailer.
- Transmission on CAN; the drivers only pack and send.
- RT-Thread and the vendor libraries, except what the application relies on.
- The watchdog (`drv_monitor.c`): no board creates one, so that its two threads walk
  an empty list. Heat control and jam detection: no board that fires uses them.
- Modes and angle sources of the gimbal other than those of `gimbal_init`: the
  functions that would change them have no caller.
- The engineer's ammunition board: the file that holds its control loop is not in
  the repository, and the reader of its commands rejects them.
- The sentry: `slave_readmsg`, the patrol and the fire call have no caller; what
  runs are PID loops on set points that a single thread stores.
- Everything `PROJECT.json` lists as `not_modelled`, with its reason.

## 7. Plan

Done, in this order: `Trailer`, `MotorAngle`, `CanRx`, `InfantryLink`, `Remote`,
`Launch`, `SerialRx`, `GimbalCtl`, each with its MC module, its runs and its proof
module. Left:

1. Composition of `SerialRx` with `Remote`: a late thread as the source of the
   bursts that `Remote` bounds by `Burst`; and of `CanRx` with the homing of
   `Trailer`: a stale read is one more equal reading.
2. The ammunition board, once its control loop is there, and the sentry, once its
   patrol has a caller.
