# Verification of the construction robot firmware

The firmware under `src/project/applications` drives a mobile robot with an arm
(STM32, RT-Thread).  It follows a line, stops at special points (crossings),
picks an object from each of nine cells, drops it into the bin of its colour
and returns.  This directory holds TLA+ models of the parts that decide what
the robot does, TLC configurations that check them, and TLAPS proofs.
Everything outside `applications/` (RT-Thread, HAL, board code, packages) is
third-party; its mutexes, semaphores, scheduler and UART driver are modelled
only as the firmware uses them.

Paths below are relative to `src/project/applications`.

## 1. Inventory

| component | source | state | operations | correct when |
|---|---|---|---|---|
| robot manager | `robotManager/robotmanager.c` | `rbmg_mode`, `this_table`, `take_cnt`, `color_type`, static `ctrl` | `rbmg_handle`, `turn_actions`, `take_action`, `put_action`, `action_relative_movement_car`, two bus callbacks | nine objects are fetched, held and sorted; an action keeps the chassis to its end; the mission ends |
| path tables | `map/PathFinder.c` | an index per table | `Path_table_init`, `Path_get_next_dir` | no table is read past its end |
| line follower | `follow_line.c` | weighted sensor error | thread that publishes special points and errors | speeds are published in `LINE_MODE` only |
| colour link | `color_com.c` | `color[0]`, `color_flag` | UART interrupt | a letter belongs to the object at hand |
| stepper motor bus | `drv_stepper_motor.c`, `Emm_V5.c` | `stepper_motor_cmd_state`, `mutex_step`, `step_sem`, `cmp_sem`, receive buffer, angles, homing flags | sender thread, receiver thread, receive interrupt | commands and answers stay matched, nobody waits for ever, homing ends |
| message bus | `abus/*` | ring buffer per topic with indices `in`, `out` | `abus_public`, `afifo_in`, `afifo_out_data`, `afifo_add_out` | a command reaches the chassis once, unchanged, before the call returns |
| chassis | `chassis/*` | target, run status, odometry | command callback, control thread | the last command is executed |
| power switch | `aboard_power_switch.c` | output pins | `power_on`, `power_off` | (see the cargo properties) |
| gripper servo | `FasionStar/*` | `mutex`, `rx_sem`, receive buffer, package under construction | requests with and without an answer, `FSUS_RecvPackage`, `FSUS_Wait`, raw bursts, receive interrupt | an answer is matched with its request, calls return and give the mutex back |
| wheel motors | `motor*.c` | run mode and targets per motor, rotor angle, offset, turn counter, queue, currents | CAN interrupt, `motor_set_*`, `motor_handle`, driver | turns are counted exactly; the last command is the one the currents follow |
| state machine, vector | `statemachine/*` | current state, states and transitions; growable buffer | start, restart, update, addition; append, insert, remove | states are entered and left in pairs; the vector holds what was put into it (library code, no caller in the firmware) |
| receivers | `bsp_sbus.c`, `drv_action.c` | byte-wise frame assembly | UART interrupts | a frame is published when whole, and the receiver finds back after a fault |
| arm kinematics | `robotarm/*` | command queue, geometry | imported Arduino sketch | - |
| PID, semantic map, start-up | `apid*.c`, `map/SemanticMap.c`, `main.c` ... | - | - | numeric, unused, or without shared state |

Interaction.  `follow_line` (priority 25) publishes special points and errors;
the callbacks of the manager run in its thread, set `rbmg_mode = ACTION_MODE`
or publish a speed.  `rbmg_handle` (priority 7) wakes every 50 ms; in
`ACTION_MODE` it takes the next direction of the current path table, runs an
action, publishing positions on the same chassis topic through the same static
`ctrl`, and hands the robot back with `rbmg_mode = LINE_MODE`.  The chassis
callback runs inside `abus_public`.  The Raspberry Pi sends one letter (start,
or a colour) by UART.  `drv_stepper_motor` (priority 25) homes the arm and then
writes `rbmg_mode = LINE_MODE` as well.

What is hard here: two threads and an interrupt share `rbmg_mode`, `ctrl`,
`color` and `color_flag` without locks; the ring buffer has an empty lock;
mutex and semaphores of the stepper bus are released in different branches;
movements time out; a lost or made-up byte meets no time-out, or, on the servo's
line, one whose late answer is still delivered; mode and target of a motor are
two writes that the driver thread can come between; path tables and the object
counter are advanced in different functions.  `PROJECT.json` lists
these hazards line by line with the property that covers each of them.

## 2. Modules

### RobotManager

State: one variable per program variable (`rbmg_mode`, `this_table`, `index`,
`take_cnt`, `color`, `color_flag`, `color_type`, `ctrl`), the pump (`suction`),
the chassis (`run_status`, `target`, `pos`), the program counters `pc` of
`rbmg_handle` and `fl` of `follow_line`, the movements still to be made
(`moves`, `polls`), and history variables used by the properties only.

| code | action |
|---|---|
| `rbmg_handle`, `CAB_MODE` | `CabDelay`, `CabPoll`, `CabClear`, `CabLeave` (the letter is read and the flag cleared in two steps, since the interrupt can come between them) |
| `action_relative_movement_car` | `MoveStart`, `MovePoll`, `MoveReached`, `MoveTimeout` |
| `rbmg_handle`, `ACTION_MODE`, `turn_actions` | `BeginTurn`, `BeginTake`, `BeginPut`, `BeginBack`, `TurnEnd`, `BackEnd` |
| `take_action` | `TakeLatch`, `TakeLift`, `TakeEnd` |
| `put_action` | `PutSort`, `PutDrop`, `PutReturn`, `PutEnd` |
| `follow_line`, `rbmg_special_point_callback` | `FollowSample` |
| `rbmg_error_callback` | `FollowTest`, `FollowSend` (test and publication are separate steps) |
| chassis thread | `ChassisArrives` |
| last statement of homing | `StepperHome` |
| `uart_rx_ind` | `ColorLetter` |

`rbmg_handle` has the highest priority of these threads, so what it executes
between two delays is one action; in the calibration wait it spins without a
delay and no other thread runs (`Yields`).  Distances are the millimetres of the
source, turns are quarter turns, both relative to the start of the action.  A
movement is reached when position and target are equal, where the code accepts
an error below 0.01 m and 0.1 rad (`robotmanager.c:96`): `BackOnLine` is about the
sums of planned movements, not about the errors that add up.  A
speed that is read out of the union as a position is `SpeedAsPos`, a place no
action computes.  The gripper's servo calls change no state the properties see
and are part of the actions in which they are made.

### StepperBus

Both threads, one action per call that can block or be interrupted, the receive
interrupt (`Received`), and, external, the line and the motors: bytes arrive in
order, `MakeNoise` and `Lose` are the faults.  A byte is its place in an answer,
which is all that the identifier and function-code checks look at; a payload of
foreign bytes may decode to either value.  The sender has the lower priority
and runs only while the receiver is blocked (`ReceiverBlocked`).  Arms that are
not enabled are moved by hand (`Hand`).

### Abus, AtomicBus

`Abus` is `abus_public` on the chassis topic, one action per read or write of
`in`, `out`, the ring and `ctrl`, because `spin_lock_irqrestore` is empty.
Publications have one length and the buffer is a whole number of them, so ring
and indices are counted in messages; `Word` is where the unsigned indices wrap.
`AtomicBus` is what a publisher relies on: a command is asked for and executed,
nothing else.  `ImplementsAtomic` says that `Abus` implements it; the mapping
is `wants[p]` = the message of `p` until the chassis has obeyed.
`Publish` of `RobotManager` is the bus in that form.

### Servo

Two threads (`FSUS_process`, and the manager through `mypick` and `myup`), the
receive interrupt, and the line with the servo, external.

| code | action |
|---|---|
| `rt_mutex_take` with its time-out, `rt_mutex_release` | `Lock`, `LockTimeout`, `Unlock` |
| `FSUS_SendPackage`, `FSUS_UART_Send` | `SendStart`, `SendEnd` (the other thread may write in between; a package mixed with other bytes gets no answer) |
| `My_FSUS_up`, `My_FSUS_pick` | `Burst1`, `Rest`, `Burst2`, `WheelMoveTime`; at the end of a burst (`BurstEnd`) the servo answers any of the requests it holds |
| `FSUS_RecvPackage` | `ReadEmpty`, `Awake`, `Silence` (time-out), `ReadHeader`, `ReadCmd`, `ReadSize`, `ReadContent`, `ReadSum` |
| what each request does with its answer | `Judge`, `Return` |
| `FSUS_Wait` | `Ask`, `Return` |
| `FSUS_uart_receive_callback1` | `Received` |

A byte is its place in an answer and the request it answers; the outcomes of a
test of a byte that may have any value are both possible.  So is that of the
checksum test, because `FSUS_CalcChecksum` starts from an uninitialised
variable.  `FSUS_QueryServoAngleMTurn` returns without releasing the mutex when
the identifier is another servo's, as in the code.

The bursts are written without the mutex and nobody reads the answers to the
requests in them: the end of a `FSUS_CMD_READ_ANGLE` the burst before has begun, a
`FSUS_CMD_WRITE_BATCH_DATA` and a `FSUS_CMD_READ_BATCH_DATA`, whose answer is longer
(`LongAnswer`).  `stray` counts the bytes of these answers.  They are no fault:
`Matched` names the condition that there were none, since a query that comes after
them takes one of them for its own.  (The firmware's one query, the ping
`FSUS_process` begins with, is made before its first burst.)  A package of size 0 has no end but a pause of
the line; a thread that has written past the content (`Slots` bytes) is `"wild"` and
nothing is said of it any more.

### Wheels

A publisher stores target and status (`SetTarget`, `SetStatus`); the chassis
thread reads status and target and writes mode and target of each motor (`Wake`,
`Module`, `MotorSet`, one write per step); the CAN interrupt calibrates, counts
turns and queues the motor (`Report`: `Calibrate`, `Count`, `putchar_force`);
the driver thread computes the current of the motor at the head of the queue
and writes the frame for all (`Handle`, `WriteDone`, `WriteFails`).  The control
loops are floating point; a current is the mode and target it was computed for.
That the position loop stores its output in `tar_speed` is kept, because it can
undo a speed command.  Nothing is locked, so every shared write is a step.  One
read is coarser than the code: `Module` reads the target once, where
`chassis_module_mai.c:58-68` reads it in four formulas that a publisher can come
between; a pass with parts of two targets is followed 50 ms later by one with the
last, so that what the properties say of the last command is not affected.

### Receivers

`Data_Analyse` and the SBUS interrupt, byte by byte, with a sender that may lose
a byte or make one up.  The sender chooses the value of a payload byte when it
sends it, among those the receiver tells apart.  A stored byte keeps only its
frame and place, so that a property can say that what was published is one
frame's payload.  The two share nothing: a behaviour is about one of them (`dev`).

### CVector, StateMachine, Library

`CVector` has the operations of `cvector.c` as operators on a vector value, with
the outcomes of `realloc` as parameters.  Each names the slots it writes
(`Written`, `Shifted`), and `wild` is whether one of them is not in the buffer.
`StateMachine` is `statemachine.c` over these vectors, with every exported call
that changes state: `addState`, the four forms of `addTransition`,
`aState_addTransition`, which looks nothing up, `start`, `restart`, `update` and
`finish`, each for the default finish state too.  That state has no excution
(`statemachine.c:64` passes `NULL`, though `defaultFinishState_excution` is there and
returns `stateFinish`): `update` never finishes a machine in it.  `entered` is history: entries
less exits of each state.  `Library` adds an application that uses a vector of its
own with a list to compare it with.  Neither has a caller in the firmware: the
uses in `follow_line.c` are commented out.

`MC*` modules are the roots of the runs; `*Proofs` hold the theorems.

## 3. Runs

| run | shows |
|---|---|
| `mission` | tables stay in bounds, cargo is held, nine objects, colours belong to their object, actions end on the line and own the chassis, one publisher at a time; under fairness the mission ends whatever movements time out |
| `late_homing` (violation) | an arm homed during an action hands the chassis to the line follower in the middle of it |
| `stepper` | until a byte is lost or made up answers are whole and matched, nothing is left over, every command is answered, homing ends; the command state never changes under the receiver even then |
| `stepper_noise` (violation) | one byte of noise makes the receiver keep the mutex for ever |
| `abus_serial` | publications that do not overlap implement the atomic bus, and end |
| `abus_nested` (violation) | a publication inside another leaves a message in the ring for good |
| `servo` | as long as the servo answers no burst, answers in time reach the thread that asked; without a fault the content stays in its package and the mutex is given back, whosever answers are read; one thread reads at a time, no wake-up is lost and every call returns, with a byte lost or made up or another servo answering |
| `servo_late` (violation) | an answer after the time-out is returned as the answer to the next request |
| `wheels` | turns are counted exactly, no half of a command is undone, a failed write does not move the zero, and the last command ends up in the currents of every motor |
| `wheels_drift` (violation) | the total angle loses a step with every turn of the rotor |
| `receivers` | both receivers are in step again three frame ends after the last fault (that of the disturbed frame included); one fault never makes the position sensor publish a mixed pose, unless a payload has the byte `0d` |
| `library` | a vector holds what it should through growth, shrinking and lack of memory, and every slot it writes is in its buffer but on two kinds of insertion; a machine enters and leaves states in pairs, until a restart |

The violations are findings; `PROJECT.json` quotes the comment each contradicts.
`late_homing` depends on when a person brings the arm home: the passing run
states with `HomesDuring` that it is not during an action.

### Bounds

- `MaxPolls = 1` (1000 in the code): a movement can be reached at once, after a
  poll, or time out; more polls only repeat the same publication.  The proofs
  hold for every value.
- `Letters`: `r` starts, `r`, `y`, `b` are colours; a letter that is none of
  them only sets the flag, and is left out of the runs to keep the liveness check
  small; the proofs hold for every set of letters.  All nine rounds are run in
  full.
- `HomesDuring`: the modes in which homing may finish.
- `StepperBus`: `MaxFaults = 1`, since one fault is enough to stop the two
  threads; `MaxPending = 4` is what earlier commands left behind, after which the
  sender is not followed; a clean line never gets there.
- `Abus`: `Cap = 2`, `Word = 4` (64 and 2^28): the smallest ring in which a
  message can stay behind, and indices that wrap.  The proofs hold for every
  value with `Word` a multiple of `Cap`.
- `Servo`: a behaviour of `servo` has one fault, or one answer to a burst of either
  length (`MaxStray = 8`); both in one behaviour (`Mixed`) are too many states.  A
  call begins with at most `MaxPending` bytes under way (1 in `servo`, where the
  queries of `FSUS_Wait` and calls that overlap with a burst meet its answers; a whole
  answer in `servo_late`); `MaxSem = 1` (65535) is where the semaphore saturates,
  `WaitMax = 2` (10000) the turns of `FSUS_Wait`.  `TooBig = 4` and `Slots = 5` stand
  for 46 and 50.  `Overlap` is false: `FSUS_ReadData` and `FSUS_WriteData`, which take
  no mutex, have no caller, and are called only while nobody else uses the servo.
- `Wheels`: two motors of four, a turn of 4 angles (8192) with reports at most 1
  apart, one calibrating report (50), a queue of 2 (4096), one command after the
  initial one, one fault, and one rotor that moves a step either way across its
  zero.  That a report is less than half a
  turn away from the one before is assumed (`2 * MaxMove < Turn`): at the motors'
  top speed it is a few hundred angles of 8192.
- `Receivers`: payloads of 10 bytes (24) over all values a receiver tells apart,
  and two faults; the proofs hold for every size and number.  Frames that look
  like a header do not count towards `Enough`: with such payloads a receiver may
  stay out of step.  `Genuine` is about one fault and payloads without the byte
  `0d`: with two faults, or with such a byte, a shifted payload can end where a
  trailer is.
- `Library`: `MinLen = 2` (256), so that the buffer doubles twice and halves once
  within `MaxLen = 6`; two states and the finish state, three transitions in all,
  one restart; the two states are symmetric.
  `MaxLen` is at most 512 in the proofs too (see below).
- Deadlock is not checked in `stepper`, where the threads stop for good after a
  fault (the finding of `stepper_noise`), in the runs of the servo, which no call
  follows when more than `MaxPending` bytes are left over, and in those of the
  library, where nothing follows a write outside the buffer.

### Fairness

- `rbmg_handle` and `follow_line` are scheduled (weak fairness): the first has a
  delay in every loop but the calibration wait, where it polls.
- A robot on the line meets a special point, and the Raspberry Pi repeats its
  start letter until one is read before another overwrites it (strong
  fairness).  These are assumptions on the surroundings, not on the code; without
  them the robot waits, as it should.
- On the stepper bus both threads are scheduled and bytes on the wire arrive.
  The calibration wait, which has a higher priority than the sender and never
  sleeps, is assumed to end.
- In `Abus` a thread inside a publication is scheduled again.
- On the servo's line both threads go on with the call they are in (each sleeps
  between its calls, so that neither starves the other), and bytes arrive.
- The chassis thread and the driver run, a publisher ends its command, the motors
  report (every millisecond), and a CAN write ends in one way or the other.

## 4. Proofs

Every invariant and every safety action property that a passing run checks is
also a theorem, but for `ContentFits`.  TLC finds each inductive invariant true on the bounds of the runs
as well.

`RobotManagerProofs`, for all `Letters`, `MaxPolls` and `HomesDuring`.  The
invariants of the runs are not inductive: that a table is not overrun depends on
which table each phase belongs to, how far it was walked, and where it is
rewound.  `MissionInv` adds this: `TableInv` (phase and table), `IndexInv` (how
far), `CountInv` (objects), `CargoInv` (phase and cargo), `ColourInv` (colour and
report) and `MoveInv` (movements belong to actions).  From it follow
`TypeCorrect`, `TablesNeverOverrun`, `CargoNeverFalls`, `LoadedOnlyOnPut`,
`NineObjects`, `BinsAreReported` and `ColourIsLatched`.  Under the assumption that
the arm is not homed during an action (`"ACTION" \notin HomesDuring`),
`OwnerInv` gives `ActionsOwnChassis`, `PublishersNeverOverlap` and
`StandsWhenOver`; `late_homing` shows that the assumption is needed.  Under the
same assumption `ActionsEndOnLine`: where an action ends is the sum of movements
that three functions plan, so `LineInv` says for each phase where the movements
still to be made lead (`Destination`): to the cell of this object, the bin of
this colour, back to the line (`WayInv`); that a robot which is not moving is
where it was sent (`ArrivedInv`); and which action a phase belongs to (`ActInv`).

`AbusProofs`, for every capacity, index width and set of messages.
`BusTypeCorrect` needs no assumption.  If publications do not overlap
(`~Preempts`), `SerialInv` says what the one active publisher knows at each
step (`Knows`: where the indices are, what is in the slot, in its registers);
it gives `RingDrained`, `NeverHangs` and the refinement `BusIsAtomic`.

The two fit together: `PublishersNeverOverlap` is the reason why `~Preempts` may
be assumed of this program, and `BusIsAtomic` the reason why `RobotManager` may
publish in one step.

`StepperBusProofs`, for any bounds on faults and left-over bytes.  `TokenInv`: one
command at a time is with the sender, in `step_sem`, or with the receiver, which
decides who may hold the mutex.  `StateInv`: the command state is that of the
command that goes round.  These hold on any line and give `StepperTypeCorrect`
and `StateNeverPulledAway`.  As long as no byte was lost or made up, `CleanInv`
says where the bytes of the one answer are (`Silent`, `Coming`, `Here`) and that
`cmp_sem` is posted with the last of them; from it follow `MutexComesBack`,
`AnswersTakenWhole` and `NothingLeftBehind`.  `stepper_noise` shows that the mutex
does not come back without that hypothesis.

`ServoProofs`, for any bounds and number of faults.  `ServoTypeCorrect` holds on
any line.  If the calls that take no mutex do not overlap with others
(`~Overlap`; they have no caller), `LockInv` says where a call holds the mutex;
with it `OneThreadReads` and `NoByteSleptOn` hold on any line.  If moreover no
answer comes after its time-out (`~Late`), the line is clean and the servo has
answered no burst (`stray = 0`), `CleanInv` says
that bytes are under way only for a reader (`QuietInv`), that the reader has
the beginning of its answer and the rest is coming (`ReadInv`), keeps it to its
end (`ResultInv`), and that the mutex is held once (`HoldInv`): `OwnAnswer` and
`ServoMutexGivenBack`.  `servo_late` shows that `~Late` is needed.  The second is
proved with `stray = 0` too, because the invariant follows the bytes of one answer
at a time; `servo` checks it without.

`WheelsProofs`, for up to 128 motors, any turn, queue, and commands.  `RoundsExact`
is inductive with `CalInv` (the stored angle is the rotor's, and a motor that is
being calibrated has counted no turn): `TurnsCountedExactly`, from `2 * MaxMove <
Turn`.  `HandInv` says what the chassis thread has already written when it is
interrupted: `CommandsKept`.  `UseInv` says that currents are computed only when
all motors are calibrated, so that no zero in use is moved: `ZerosKept`.

`ReceiversProofs`, for payloads of any size and any number of faults.  `StepInv`
follows a receiver through the frames after a fault: in the second it ends
whatever it was at (`Ending`), in the third it is in step (`Synced`), and from then
on the last frame is the published one.  This gives `BackInStep`, from
`Enough >= 3`.  `GenuineInv` says that what the receiver has stored when a trailer
is due is one frame's payload: `PosesAreGenuine`.

`LibraryProofs`, for every `MIN_LEN`, any elements and states.  `VectorInv`: the
vector holds the elements of the list, no more than it has slots and at least
`MIN_LEN` slots, and its buffer has exactly these; so the slots of appends and
removals are in the buffer, and those of insertions are but for two cases:
`VectorHoldsItsElements`, `WritesInsideItsBuffer`.  For the machine, vectors hold
states only, and the counts of entries and exits agree with the current state:
`EntriesMatchExits`.

Two facts about recursive functions cannot be derived by the provers, which do
no induction over data.  They are assumptions that TLC evaluates in full on every
run: `SearchAssumption` (the search of a motor by its CAN identifier finds it,
for every list of up to 128 motors) and `DoublingAssumption` (doubling a buffer
ends above the index and not above twice the length it must have, for every index
below 512, hence `MaxLen <= 512`).

Only model-checked: liveness (`MissionEnds`, `AnswersAll`, `HomingEnds`,
`PublishEnds`, `CallsReturn`, `LastCommandWins`), since TLAPS does not do fairness,
`ContentFits`, and `MutexGivenBack` once a burst was answered (the proof would have to
follow several answers on the line), and the violations, which are single behaviours.

## 5. Not modelled

Floating-point control (PID, mecanum kinematics, sensor weighting, arm
geometry), logging and indicator pins, start-up code, the sudoku tables and
the semantic map (no caller), the homing-parameter commands of `Emm_V5.c` (no
caller), subscriber queues and the asynchronous list of the bus (never used),
the scaling of the remote control's channels, torque mode and `motor_stop` of the
motors (no caller; `motor_handle` clears the stop flag before it tests it),
`waitUntilServoIDLE` and `calcIntervalMs` (no caller), an overflow of the UARTs'
receive buffers (4096 bytes), and the command queue of
`robotarm`, part of an imported Arduino sketch.

## 6. Plan

Done, in this order because the mission is what the robot is for:
`RobotManager` and its proofs, `StepperBus`, `Abus` with `AtomicBus` and the
refinement proof, `Servo`, `Wheels`, `Receivers`, `Library`.

Proofs of the safety properties of all of them: done as well.

Next:
1. `afifo` in bytes, with messages of different lengths, refining the ring of
   messages;
2. the queue of `robotarm`.
