# Verification of the robot firmware in TLA+

The repository is the firmware of a competition robot: an STM32F427 with FreeRTOS (CMSIS-RTOS), four
driven wheels, a gimbal with two flywheels, a pneumatic lifting and shooting mechanism, an SBUS remote
control, a serial shell and a key-value store in flash. This directory models the parts of it whose
correctness depends on *when* things happen: tasks that read a record an interrupt replaces, counters
shared without a lock, a timer that frees a spinning task, frames that the bus loses, and writes to
flash that a power failure may separate. TLC checks the models on small instances; the TLA+ proof system
(`tlapm`) proves the central safety properties for every value of the constants.

Paths below are relative to the repository's root. `PROJECT.json` maps every definition to the lines
it models, lists the runs, the hazards, the mutants and the theorems.

## 1. Inventory

### 1.1 Tasks, interrupts and what they share

| Actor | Code | Reads | Writes |
|---|---|---|---|
| SBUS idle-line interrupt | `Hardware/bsp_sbus.c` | DMA buffer | the `rc` record, as a whole |
| CAN receive interrupt | `Hardware/bsp_can.c:81-139` | frame | `motor_measure_t` of every motor |
| TIM2 update interrupt | `Core/Src/main.c:294-315` | | `shot_flag` |
| USART6 receive interrupt | `Core/Src/usart.c:609-622` | one byte | the shell's `kfifo`, re-arms the receiver |
| UART7 receive interrupt | `Core/Src/usart.c:624-628` | one byte | the VESC packet parser, re-arms the receiver |
| chassis task | `Task/chassis_task.c`, `chassis_behaviour.c` | `rc`, motor records | set-points, CAN1 mailboxes |
| solenoid task | `Task/solenoid_task.c` | `rc`, `shot_flag` | valves, lifting servo, `shot_flag` |
| gimbal task | `Task/yutai_task.c` | `rc`, motor records | CAN2 mailboxes, VESC commands, **and** `total_angle`, `last_angle` of a motor record |
| boot, before the scheduler | `Core/Src/main.c:165-200` | the database | the database: defaults, a counter |
| shell task | `Middlewares/Third_Party/LetterShell` | the `kfifo` | USART6, tuned variables, the database |
| robot state, LED, test tasks | `Task/task.c`, `led_task.c`, `test_task.c` | | LEDs |

The gimbal task and the UART7 interrupt share the UART handle, whose lock (`__HAL_LOCK`) is not waited
for but answered with `HAL_BUSY`. No mutex protects `rc`, the motor records, `shot_flag` or the `kfifo`.
Everything rests on who writes what and in which order, which is what the modules look at.

### 1.2 Components: state, operations, what makes them correct

* **Byte ring** (`Control/kfifo.[ch]`). State: buffer, counters `in`, `out` that only grow and wrap.
  Operations: `kfifo_in`, `kfifo_out`, `kfifo_reset_out`. Correct when it is a bounded queue between
  one writer and one reader that take no lock, and a call never moves more than it was asked to.
* **Chassis task and behaviour.** State: mode, set velocities, wheel set-points. Operations: the
  control cycle: spin or set the mode, compute the velocities, compute the wheels, send.
  Correct when a cycle commands what the remote control asks for although `rc` may change between its
  up to eight reads, and when a released stick ends in standing wheels.
* **CAN driver, transmit side.** State: the controller's mailboxes. Correct when lost, refused and
  reordered frames do not leave a stale command in force.
* **CAN driver, motor feedback.** State: per motor the angle, the zero point, the count of turns, the
  total angle. Correct when the count follows the rotor and the total is the way from the zero point.
* **Solenoid task.** State: phase, flag, valves, servo. Operations: manual copy, three phases.
  Correct when it shoots only with the lift down, always gets out of its waits, heeds the switch.
* **Remote-control receiver.** State: DMA buffer, `rc`. Correct when a partial frame never reaches `rc`.
* **Gimbal task.** Sends speeds, positions and flywheel commands from the switches and the angle.
* **VESC packets** (`Hardware/vesc_uart`, `bsp_vesc.c`). State: the receive parser. Correct when every
  sent payload is received as sent and the parser recovers from noise.
* **Key-value database** (`Hardware/flashbd/Flashdb`) on the **flash abstraction layer** (`FAL`).
  State: sectors and records with status words in flash. Correct when a value that was set survives a
  power failure at any write, as the old or the new value, and the collector loses nothing.
* **Shell** with its port and the **variable registry** (`commend.c`). Correct when the receiver is
  always re-armed, and a registered variable is written with its own type.
* **PID controller**, **magnetic encoders**, **plotting link** (`vofa_lower.c`), **position sensor
  link**, **time-series database** (not initialised), **robot state** (task not created), **LED and test
  tasks**, **boot code**; **vendored**: FreeRTOS, HAL, CMSIS.

### 1.3 What is hard here

1. A reader overtaken by an interrupt: the chassis task reads `rc.ch9` in up to six places of one
   cycle; `get_total_angle` updates two fields the CAN interrupt updates too.
2. Sampling, then using: lengths in the `kfifo`, the flag tested after a delay in the solenoid task.
3. Time: TIM2 runs freely; whether the flag falls in a delay or in a wait depends on its phase.
4. A bus without retransmission that sends by identifier, not by age.
5. Initial values nothing ever sends (all switches 0) and a calibration that leaves a field behind.
6. Power failures between two writes to flash: while a value is replaced, while a sector is collected,
   in the recovery from an earlier failure.
7. A byte stream without acknowledgement or time-out: lost, spoilt and invented bytes, a parser started
   in the middle of a frame, a receiver that an unlucky interrupt leaves deaf.

`PROJECT.json` lists each such place with its line and the properties that watch it.

## 2. Modules

| Module | Models | Checked by | Proved in |
|---|---|---|---|
| `Kfifo` | `Control/kfifo.[ch]`, access by access | `MCKfifo.cfg`, `KfifoReread.cfg`, `KfifoOverrun.cfg` | `KfifoProofs` |
| `BoundedFifo` | the abstract queue `Kfifo` implements | as `FifoSpec` in `MCKfifo.cfg` | `KfifoProofs!Refinement` |
| `Chassis` | chassis task, behaviour, CAN transmission, receiver's effect | `MCChassis.cfg`, `ChassisZeroForce.cfg` | `ChassisProofs` |
| `Solenoid` | solenoid task and TIM2 | `Solenoid.cfg`, `SolenoidSkip.cfg` | `SolenoidProofs` |
| `MotorFeedback` | receive interrupt and `get_total_angle` | `MotorFeedback.cfg`, `MotorDoubleCount.cfg` | `MotorProofs` |
| `VescLink` | `vesc_uart/packet.c`, the UART7 interrupt, the handle's lock | `VescLink.cfg` | `VescProofs` |
| `LossyLink` | the abstract link `VescLink` implements | as `LinkSpec` in `VescLink.cfg` | `VescProofs!Refinement` |
| `Kvdb` | `flashbd/Flashdb/fdb_kvdb.c` with power failures | `MCKvdb` with `Kvdb.cfg`, `KvdbThirdCut.cfg` | `KvdbProofs`, `KvdbRoomProofs`, `KvdbMapProofs` |
| `DurableMap` | the abstract map `Kvdb` implements | as `MapSpec` in `Kvdb.cfg` | `KvdbMapProofs!MapForTwoCuts` |

Definitions headed by "Mutant:" are not part of a specification: each is the plausible bug that
replaces one definition to show that a property notices it (`PROJECT.json`, "mutants").

### 2.1 Kfifo

`in`, `out`, `buffer` are `struct kfifo`; `wpc`, `from`, `inLen`, `inAt` are `kfifo_in`'s position, its
argument, the sampled `len` and how far `memcpy` is; `rpc`, `need`, `outLen`, `to` the same for
`kfifo_out`, `got` what it last returned. `InSize`/`InResize` and `OutSize`/`OutResize` are the
evaluation of `min(...)`, once or twice: the macro of `kfifo.c:5` evaluates its arguments twice and one
of them reads the counter the other side moves. `MergedReads` says whether the build folds the two.
`InCopy` and `OutCopy` move one byte; the counter is stored last (`InAdvance`, `OutAdvance`).
A counter wraps at `W = Laps * Size`, for the program's 2^32; `Laps >= 2` is what distinguishes a full
ring from an empty one and is all the proofs need. The model takes memory as sequentially consistent,
which a single Cortex-M4 is for a task and its interrupts.

* `LengthsStayValid`: what a side sampled stays true until it moves its own counter. This is the claim
  of `kfifo.c:88` and `:120` that no lock is needed, and it holds with either reading of `min`.
* `UnreadNeverOverwritten`: a stored byte keeps its value and rank.
* `AtMostLen`: `kfifo_out` hands over no more than it was asked for. True with merged reads;
  `KfifoOverrun.cfg` shows it false with the reads as the source has them, for a writer of one byte a
  call, which is what the receive interrupt is (`usart.c:619`), and a reader that asks for one.
* `FifoSpec`: with merged reads the ring implements `BoundedFifo`, `queue` being the bytes between the
  counters: `kfifo_in` takes effect when it stores `in`, `kfifo_out` when it stores `out`.

### 2.2 Chassis

`rc` is replaced by `RcIsr` in one step. `pc` walks through one cycle with one step per read of `rc`:
`Head` tests the spin stick; `Spin` is `xuan`; `Probe(1..3)` are the tests of
`chassis_behaviour_mode_set`; `Control` and `ControlCh2` compute the velocities; `LoopRemote` and
`LoopLocating` are the two tests of `chassis_control_loop` with the kinematics; `Set_motor_A` and
`Set_motor_B` are the two calls of `Can_TxMessage`. Floating-point values are abstracted to "zero or
not" (`V`, `speed_set`) and to what produced a current (`load`). `commanded` is the last frame that
arrived per identifier; `steady` is a history variable: `rc` has not changed since the cycle began.
`Boot` may hang, as `chassis_location_init` does when the first wheel is not aligned.
The bus (`Deliver`, `Lose`) is external: it sends the lowest identifier first and tries once
(`can.c:50-52`).

* `SteadyCycleObeys`: a cycle during which `rc` did not change commands exactly what `rc` asks for,
  in spite of the mode, velocities and set-points that earlier cycles, spins included, left. It says
  nothing of cycles in which `rc` changes (`ZeroForceSendsZero` does), of full mailboxes
  (`StickReleaseStops` has them), or of the fourth wheel in a spin, which `xuan` leaves as it was.
* `ZeroForceSendsZero`: the switch moving between the mode's setting and its last test cannot put
  current on the wheels.
* `SilentUntilHeard`: nothing is sent before the first frame of the transmitter.
* `StickReleaseStops` (liveness): see 4.
* `ZeroForceUnpowered` (refuted): see 3.

### 2.3 Solenoid

Discrete time, a unit being the loop's 100 ms. `Tick` lets a unit pass while the task is in a delay or
spins with its writes done; a step of the task takes no time. `tim2` counts down to TIM2's update,
starting at any phase since the timer runs before the scheduler does. `Wake`, `Manual`, `Automatic`,
`Aimed`, `LoopBody`, `LoopExit` are the pieces of the task between its delays and loops. `touched`,
`lowered`, `unheeded` are history variables that the properties speak about.

* `ShootsLowered`: the shooting loop runs only with the servo down for the full delay.
* `ManualHeeded`: the switch to manual takes effect within a period of TIM2 and a loop's delay.
* `UntouchedShoots`: a shoot phase that ends without opening the valve had manual control between it
  and the lift phase. `EveryPassShoots`, without that exception, is refuted.
* `KeepsShooting` (liveness): see 4.

### 2.4 MotorFeedback

`turn` and `at` are the rotor, outside the program; `Rotate(d)` moves it between two frames that are
received, by less than half a turn. `Calibrate` and `Measure` are the interrupt; `Call` to `Return` are
`get_total_angle`, one action for each reading that the interrupt may come before. Two places are
coarser than the text: lines 217-225 name each angle several times and are taken to use one reading of
it, and for line 241, which names the angle again, `StoreLast` allows both the value at hand and a new
reading. `turn0` and `quiet` are history variables.
`TurnsTracked` says that the count from the jumps of the angle is the rotor's; `FrameRestoresAngle`
that each frame leaves the exact way in `total_angle`, so an error of `get_total_angle` lasts until the
next frame (that a raced call makes one is not excluded, it happens); `ReturnsAngle`, the comment's claim about what a call returns, is refuted.

### 2.5 VescLink

The device at the other end runs the same library, so `packet_send_packet` is the encoder of what
arrives: `Values(n, i)` are the values byte `i` of a frame of `n` payload bytes may have. `Start`,
`LengthHigh`, `LengthLow`, `Payload`, `Crc`, `Stop` are the cases of `packet_process_byte`, with
`rxState`, `payloadLength`, `rxDataPtr` its statics. The contents of the buffer are abstracted to
`holds`, the number of the frame whose bytes fill it in their places, 0 for a mixture; the CRC is taken
to tell two contents apart. That is an idealisation: a whole valid frame inside a payload, or one that
spoilt and invented bytes make up, is accepted by `packet.c:150-163` and never by the model, so `LinkSpec`
holds of payloads that contain no frame and of noise that does not form one. A byte of a payload may have any value, so that a parser out of step finds
start bytes anywhere. `RxCplt` is the whole interrupt: it parses, then re-arms the receiver, which
`HAL_UART_Receive_IT` refuses while the task holds the lock of the handle (`Lock` to `Unlock`, the
beginning of `HAL_UART_Transmit`); from then on bytes are `Unheard`. `Lose` and `Noise` are the faults
of the line; `Overrun` is one of the UART, which ends the reception (`HAL_UART_IRQHandler`), as nobody
begins another. The receiver may be switched on at any byte of a frame (`Init`). `whole`, `waited` and
`clean` are history variables.

* `RxInBounds`: no byte is stored outside `rx_buffer`, whatever arrives.
* `SwallowsOneFrame`: a parser out of step is idle again within the bytes of the longest frame. That is
  all the code has for falling back in step: `packet_timerfunc`, which would do it between two frames
  (`bldc_interface_uart.c:61` wants it called at 1 kHz), is called from nowhere. The property bounds each
  false start and not their number: a stream of similar frames may keep the parser out of step for ever.
* `WholeFrameReceived`: the parser undoes the encoder, for a frame that finds it idle. The exceptions,
  lengths 0 and 256 (`Carried`), are what the code does: both get a length byte of 0. The premise
  excludes that hazard, so no property watches it.
* `CleanLineLosesNothing`: without faults no frame is lost for ever, whatever the task transmits. The
  premise excludes the interrupt in the few instructions between `__HAL_LOCK` and `__HAL_UNLOCK`: it
  leaves the receiver disarmed, nothing arms it again, and the link is deaf until the next boot. That
  hazard occurs in the model and is not watched by this property.
* `LinkSpec`: the parser hands over payloads that were sent, in order, at most once (with the ideal CRC).

### 2.6 Kvdb

`flash` is the two sectors: whether the header's magic word is there, the two status words, the records.
A record is a slot; of its bytes is kept what `read_kv` tells apart. Each action writes flash at most
once, and `pc` names the next write or test of whichever function runs; `phase` says whether it runs for
the formatting, the defaults, the recovery's two passes or a call. One group of actions is one function:
`NewKv` is `new_kv` with `alloc_kv`; `FindOld`, `Get` are `find_kv` with the cache; `UpdateSecStatus` to
`CommitWrite` are `create_kv_blob` and the copy of `move_kv`; `PreDelete`, `Delete`, `MarkDirty` are
`del_kv`; `GcStart` to `GcDone` with `MoveAlloc` are the collector; `GcCheck` to `KvEnd` are
`_fdb_kv_load`. They are the same actions whoever calls them, with `gc.for`, `phase` and `req` for the
return address, as in the code. `PowerOff` may come between any two, and loses all of RAM; `PowerOn` is
`fdb_kvdb_init` up to the checks of the headers.

* `OneCurrent`, `ReadsAgree`: at most one record of a key is in force, none hides in a half-replaced
  record when it is looked for, and a cached address is that of the record in force.
* `RoomRemains`: no call fails for want of room while the live records fit, and the collector, which
  erases a sector even if a copy failed, always has room for the copy.
* `WriteOnce`: between two erasures nothing is programmed twice, which stm32 on-chip flash does not
  support (`fdb_utils.c:165-166`), with one exception, which the property names: when a collection was
  cut off, the recovery resumes it and `do_gc` (`fdb_kvdb.c:1075`) writes the mark GC of a sector that has
  it already (`Resumed`). One cut is enough for that. The value does not change, so that the state of the
  model does not show it; the property therefore speaks of the steps that program (`Programs`): each
  changes the flash, or is that one. `ForwardOnly`, the other half, says that records are appended, their
  contents written once and status words never move back.
* `MapSpec`: the database is a `DurableMap`, which opens with all the defaults of `main.c:182` unless a cut
  came while it was being created (`Provided`, `Cut`); after such a cut some may be missing for ever, as
  the code has it. A call takes effect in one step, when its record becomes
  `WRITE` or `DELETED`; a cut forgets the call but no value; an answered call survives both cuts.
* `RecoveredAll` (refuted with three cuts): an open database has no half-replaced record. `OneCurrent`,
  `ReadsAgree` and `MapSpec` fail with it; see 3.
* `HaltHeals`, `Reopens` (liveness): see 3 and 4.

## 3. Runs

| Run | Instance | Distinct states | Shows |
|---|---|---|---|
| `kfifo` | 4 slots, wrap after 2 laps, calls of 1-2 bytes, 2 interchangeable byte values, merged reads | 404 k | ring intact, at most `len`, implements the queue |
| `kfifo_reread` | 2 slots, double reads | 46 k | ring intact also with the text's double reads |
| `kfifo_overrun` | 4 slots, double reads, calls of 1 byte | (violation) | `kfifo_out` may copy more than it was asked for |
| `chassis` | 6 remote-control frames, 2 mailboxes | 510 k | the properties of 2.2, liveness included |
| `chassis_zero_force` | 2 frames, 2 mailboxes | (violation) | ZERO_FORCE leaves the last currents commanded |
| `solenoid` | the program's own times: 20 / 1 / 5 units | 47 k | the properties of 2.3 |
| `solenoid_skip` | the same | (violation) | a shoot phase may pass without shooting |
| `motor` | 6 counts a turn, steps of up to 2 | 2.3 M | the properties of 2.4 |
| `motor_double_count` | 4 counts a turn | (violation) | `get_total_angle` counts the last step twice |
| `vesc` | base 4 for 256, buffer of 8, lengths 0, 1, 4, 5, 8, 9, 3 frames, 2 faults | 548 k | the properties of 2.5 |
| `kvdb` | 2 keys, each with a default, 2 values, sectors of 6 records, up to 2 cuts | 458 k | the properties of 2.6 |
| `kvdb_third_cut` | sectors of 7 records, up to 3 cuts | (violation) | a start may open the database without a value |

Why the bounds are enough. *Kfifo*: four slots and calls of two bytes are the smallest ring on which
calls fill it exactly, are cut short, straddle the end of the buffer and carry a counter over the wrap
at once; bytes only need to be told apart. *Chassis*: the frames reach every branch of a cycle; two
mailboxes are the fewest in which the two frames of a command wait together and a third is refused;
more only let stale frames be older. *Solenoid*: the times are the program's, so nothing is scaled.
*MotorFeedback*: with a step of less than half a turn and a turn each way from the start, every
crossing occurs at every angle; `MaxTurn` and `MaxTotal` bound the numbers and appear in the guards.
*VescLink*: in base 4 the lengths 4 and 8 are the code's 256 and 512: the first that needs a second length
byte and is given one, and the limit; 9 is refused, 0 and 4 have a length byte 0. Three frames let a
false start in the first swallow the second and end in the third; two faults suffice to cut one frame
and splice it to another. *Kvdb*: six slots are what the assumption asks for with two keys, two cuts and
the reserve, so that sectors fill, the last empty one is spared, and collections follow each other; the
second cut strikes the recovery from the first. Cuts between calls, when nothing is under way, are not
counted. Two is a limit of the code and not only of the run: with a third cut `OneCurrent`, `ReadsAgree`
and `MapSpec` fail (point 5 below), while `RoomRemains` and `HaltHeals` hold (7 slots, 2.5 M states).
The theorems of section 5 depend on none of these values but the two cuts of `KvdbMapProofs`. No run disables the deadlock check,
symmetry is used only where a run checks no liveness.

What the five violations mean for the code:

1. `kfifo.c:125` with the macro of line 5 reads the fill level again when the first reading was below
   `len`. One byte arriving between the two brings it to `len` at most; two, stored by two receive
   interrupts, may exceed it: with `len` 1, the first reading is 0 and the second 2. The shell passes the address of a single `char`. The comment of
   line 117 says "at most". The compiler may fold the reads, and the run `kfifo` shows that the claim
   then holds.
2. `chassis_task.c:635`: with channel 9 at 1 nothing is sent, so the last currents stay; the comments
   of `chassis_behaviour.c:140` and `.h:45` say the chassis is then as if not powered.
3. `solenoid_task.c:207-208`: after an excursion to manual control TIM2 may clear the flag in the
   500 ms delay and the phase does not shoot.
4. `bsp_can.c:240`: `total_angle` is already complete when `get_total_angle` adds the last step to it;
   just after the calibration, which does not set `last_angle`, it adds the whole absolute angle.
5. `fdb_kvdb.c:1573`: the recovery ends at the first unfinished record, though the comment of line 1615
   says it checks all. A cut in `fdb_kv_set` behind the new record's data and one in the recovery's copy
   of the old record leave two unfinished records, and a start clears one. When a third cut strikes
   while the record in force, which lies behind the other, is half replaced, the next start opens the
   database without that value. A start in between that is not cut would have cleared the second
   record. Afterwards the value is copied by a start that reaches it, or by a collection; the collection
   of a call does not look for a newer value of the key, and may leave both in force.

One more defect is not a contradiction of a document and so not a violation run. When the power is cut
while the collector empties the second sector into the first, or in the middle of erasing the first, the
recovery's collection goes on past the last sector of its traversal and sets `oldest_addr` to
`FAILED_ADDR` (`fdb_kvdb.c:1091`); the next iterator then fails the assertion of line 401, and the
firmware hangs in `while(1)` before the scheduler starts. `Kvdb` has this (`Halt`); `HaltHeals` and
`Reopens` say what is true of it: only a cut leads there, the flash is in order then, and the next
power cycle opens the database.

## 4. Fairness

* `Chassis!Spec`: weak fairness of the task (it blocks only in `osDelay` and no task of higher priority
  runs for ever), weak fairness of the bus (the controller sends what is pending), and strong fairness of
  the delivery of each identifier: a bus that is busy infinitely often with an identifier does not lose
  that identifier's frames every time. Nothing assumes that frames of the remote control arrive.
  Under it `StickReleaseStops`: from some time on switch at 3 and sticks centred, the last drive frame
  on the bus is eventually, and for ever, one without movement. It is not trivial: stale frames of a
  spin wait in the mailboxes behind frames of a lower identifier.
* `Solenoid!Spec`: weak fairness of time, of TIM2's interrupt and of the task: it spins, at a priority
  other tasks share, and FreeRTOS time-slices equal priorities. Under it `KeepsShooting`.
* `Kvdb!Spec`: weak fairness of the program's steps while there is power, of the power coming back, and
  of somebody switching a robot off that hangs in the assertion. Cuts in the middle of an operation are
  bounded by `MaxCuts`. Under it `Reopens`: the recovery, which starts over after every collection, runs
  out of garbage, and the database opens infinitely often. It is not trivial: the recovery may be cut,
  and may hang once.
* `Kfifo`, `MotorFeedback` and `VescLink` have no liveness property: their callers are free not to call,
  and a deaf receiver stays deaf.

## 5. Proofs

Each proof module has an inductive invariant `IInv`, a lemma per conjunct (or per action) that
`[Next]_vars` preserves it, a theorem that it holds always, and the properties as its consequences.

| Theorem | From |
|---|---|
| `KfifoProofs!TypeCorrect`, `NoLockNeeded`, `NeverOverwritten` | `KfifoAssumption` alone |
| `KfifoProofs!OutputBounded`, `Refinement` | also `MergedReads` |
| `ChassisProofs!TypeCorrect`, `CycleObeys`, `SilentBefore`, `ZeroForce` | `ChassisAssumption`: frames carry no switch at 0, there is a mailbox |
| `SolenoidProofs!TypeCorrect`, `ShotIsLowered`, `SwitchIsHeeded`, `UntouchedPassShoots` | `SolenoidAssumption`: the two delays together are shorter than TIM2's period |
| `MotorProofs!TypeCorrect`, `CountCorrect`, `FrameCorrect` | `MotorAssumption`: an even number of counts, less than half a turn between frames |
| `KvdbProofs!TypeCorrect`, `FlashDiscipline` (`ForwardOnly`) | `KvdbAssumption`, of which only that there is a slot and the types are used |
| `KvdbRoomProofs!RoomInvariant`, `RoomForAll`, `HaltsHeal` | `KvdbAssumption`: a sector has room for a record of each key, one for each cut, one more and the reserve |
| `KvdbMapProofs!MapInvariant`, `OneCurrentForTwoCuts`, `ReadsAgreeForTwoCuts`, `RecoveredForTwoCuts`, `MapForTwoCuts`, `WriteOnceForTwoCuts` | the same, `MaxCuts <= 2`, and `RequestAssumption`: `None` is not a request |
| `VescProofs!TypeCorrect`, `BufferSafe`, `FalseStartEnds`, `RoundTrip`, `CleanLine`, `Refinement` | `VescAssumption`: the largest payload needs a second length byte and not a third |

* *Kfifo.* `LengthsStayValid` alone is not inductive: it needs that lengths are sampled before they are
  used and how far each copy is (`CallsWellFormed`), and the refinement needs what has been copied so
  far (`CopiedFaithfully`). The arithmetic is in lemmas: moving a counter moves its slot around the ring
  also when the counter wraps (`SlotAdd`), bytes less than a ring apart are in different slots
  (`PlaceInjective`), the writer's slot is never an unread one (`WriterSlot`).
* *Chassis.* `SteadyCycleObeys` speaks of one place of the cycle. `SwitchInv` says what the cycle has
  learned of its frame at each earlier place, `VelocityInv` what the velocities are there; the latter
  also holds the part that survives a new frame: at the tests of the control loop, ZERO_FORCE means no
  velocity. That the bus takes a mailbox that exists needs a least element of a set of numbers
  (`FirstOfMember`, from the library's well-founded induction).
* *Solenoid.* `ShotInv` carries the time since the TIM2 update that ended the lift phase through the
  loop's delay and the shot's delay, by a lower bound on `tim2`; `HeedInv` bounds at each place how long
  the switch has been on manual by what is left of the wait; `ServoInv` ties the delay to how long the
  servo has been down.
* *MotorFeedback.* `CountInv`: until the calibration is over nothing is counted, and from the first
  frame on the record holds the rotor's last report and the turns since the zero point. The step is
  `CrossingSeen`: a jump of more than half a turn is a crossing and tells its direction.

* *VescLink.* `ParserInv` is the parser by itself: index, length and state, whatever bytes came.
  `WaitInv` ties the bytes since the parser was idle to the index, which bounds them. `OrderInv` says
  that what the buffer holds of a frame was heard before the byte that is next on the line, and is newer
  than what was handed over, which gives the refinement. `WholeInv` places the parser, for a frame that
  found it idle, at the encoder's byte: the length read so far is the high digit, the index the payload
  byte. `CleanInv` adds that without disturbance the receiver is armed and the frame on the line is
  whole.

* *Kvdb.* `ForwardOnly` is about writes at addresses that were computed several steps, and several
  functions, earlier. `PhaseInv` says which steps belong to which phase and caller, so that a return goes
  where the call came from; `GcInv` that the collector knows its sector; `SrcInv` that the record under
  way is a whole one and is forgotten when it should be; `PutInv` that the room `alloc_kv` found is still
  there when the record is written, over the search for the old record and its marking. That `find_kv`
  and the collector's scan take a record that exists again needs a least element.

* *Kvdb, room and halt.* `RoomRemains` is about two numbers: how many records one sector holds and how
  many of all records the collector must copy. Neither is bounded by the number of keys, since a cut
  leaves a record behind, and the bound holds only for sectors in the right place of a collection. So
  `RoomInv` has three layers, each inductive only with the ones before it and `IInv`.
  `ShapeInv` is about the sectors: but for one that is being emptied, one sector is in use (`LayoutInv`);
  which sectors have a header and no record at each stage of a start (`FormatInv`); a sector is marked
  for collection while it is collected or until the recovery comes to it (`MarkedInv`); how far the
  collector's traversal is, and that it ends with a clean sector (`WalkInv`); the copy goes to the other
  sector (`AimInv`). `ContentInv` counts: of the records that are in force or about to be replaced, all
  but one for each key, and the one being replaced (`Extra`), were left by a cut (`LiveInv`); a clean
  sector has a record for each key with its value there, and what cuts left in it (`CleanInv`). What makes
  the count go through a collection is that a record is erased only after its copy is in force
  (`GatherInv`), and that the collection of a call, unlike the recovery's, starts with an empty sector
  (`CopyInv`), so that all it holds are copies; that a call's new record is the only one of its key
  (`KeyInv`) needs that the cache never leads to an unfinished record (`CacheInv`). `NoCutInv` says what
  cannot be before the first cut: the recovery finds nothing to do and only the oldest sector is in use;
  hence `HaltHeals`. The lemmas about sizes of sets (a record appended, a copy in place of a record, at
  most as many records as positions, `CopyCount`) rest on the library's theorems on finite sets. All of
  `RoomInv` was checked by TLC, on three instances of up to 2.5 million states, before it was proved.

* *Kvdb, the map.* `MapSpec` follows the value of each key through every way in which its record can be
  marked, copied and left behind; with a third cut that loses a value (section 3), so `MaxCuts <= 2` is
  part of the theorems, and the invariant `MapInv`, which stands on `IInv` and `RoomInv`, has to say what
  two cuts can do and a third cannot. `CutInv`: one cut leaves at most one unfinished record, and a start
  that ends clears it. `HiddenInv`: the half-replaced records lie before every unfinished one in the
  order in which the recovery visits them, which is what the third cut breaks, since it can half-replace
  a record behind one that the second had left. `ScanInv` then takes the recovery through both sectors:
  nothing of value is behind it, so that stopping at an unfinished record loses nothing. `AgeInv`: a key
  has one half-replaced record, older than the one in force. `ForceInv`: a record is created only when no
  other of its key is in force, which gives `OneCurrent`. `FoundInv`: a cached address is that of the
  record in force or of the one being replaced, which gives `ReadsAgree`. `ValueInv` ties the record
  being written to the call or to the record it is a copy of; `LifeInv` that a formatted sector is never
  lost; `HeldInv` that a record is deleted without a successor only when the caller asked for that.
  `StoredFacts` frees `Stored` of its CHOOSE: under the invariant there is only one record to choose.
  The refinement then goes step by step (`Steps`): each is a stutter, a cut, a request, its effect, its
  answer, a default, the end of the creation or the opening of the database. `DefaultsInv` counts the
  defaults: before the first cut each is in force, under way or still to come, and a start that finds a
  database under creation has had a cut. `WriteOnceForTwoCuts` adds to `ForwardOnly` that each step that
  programs finds something else there than it writes, but for the resumed collection: that only the
  recovery, and only after a cut, finds a sector marked already is in `RoomInv`, and that a record about
  to be replaced or deleted is not so marked yet in `MapInv`, hence the two cuts. All of `MapInv` was checked by TLC before it was
  proved.

Only model-checked: the liveness properties, which need fairness and ENABLED, out of the prover's
reach. Refuted, so neither: the five properties of the violation runs; of these `RecoveredAll` is proved
for up to two cuts, so that the three of its run are the fewest that break it.

## 6. Not modelled, and what comes next

Not modelled, with the reasons in `PROJECT.json`: the vendored kernel and drivers, generated boot code,
the time-series database (never initialised), the robot state machine (its task is not created), LED and
test tasks. Abstracted: floating-point values, speed, current and temperature of a motor, text handling
of the shell. Not looked at: the overflow of `total_angle` after 262144 turns, the remote control's silence (there is no code that reacts to it).

Not looked at either: an error of the flash driver (the collector ignores it; the driver reads back each
byte), records longer than a slot.

The vendored code (the kernel, the HAL, CMSIS with its examples and tables) is most of the repository's
lines. It is third-party code that this firmware configures and calls; what the models need of it is in
them (`HAL_UART_Receive_IT`'s lock, the mailboxes' order), and the rest is not modelled.

What is left of the plan, in order of what it would add:

1. *Shell*: `VescLink`'s lock and re-arming composed with `Kfifo`, for USART6. The lock is the same code
   and the ring is proved for every writer and reader, so the composition would show little that is new.
2. *Sbus*: DMA, idle line and decoding of a frame, refining `RcIsr` of `Chassis`.
3. *Gimbal*: the commands of the gimbal task by switch, composed with `MotorFeedback`.
4. *Registry*: the variables of `commend.c` and `vofa_lower.c`, edited from one task.
