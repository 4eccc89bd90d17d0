# cncpp: a verification project in TLA+

cncpp is a small CNC controller: it reads a G-code program, runs a finite state
machine with a fixed period, and commands setpoints to a simulated machine (an
FMU) through a MADS/ZeroMQ broker; Python and R bindings expose its blocks,
programs and machines. This directory holds TLA+ models of the controller, the
program, the blocks, the machine and its link, the timer and the bindings, TLC
configurations that check them on small instances, and TLAPS proofs for every
value of the constants. Paths below are relative to the repository.

## 1. Inventory

| Component | State | Operations | Hard because |
|---|---|---|---|
| Controller: `src/fsm.hpp`, `src/fsm_impl.hpp`, `src/main/cnc.cpp`; drawn in `src/fsm.dot` | `_state` (two last states), `stop_requested`, disposition of SIGINT, `FsmData` (`t_blk`, `t_tot`, `tq`, program, machine) | `run`, one `do_xxx` and one wrapper per state, the transition functions `reset`, `begin_rapid`, `end_rapid`, `begin_interp`, `end_interp` | SIGINT at any instruction; the next state is chosen before the transition function runs; exceptions caught in some states only; blocking keyboard read; exit conditions that depend on the FMU |
| Program: `src/program.*` | list of blocks, `_current`, `_done` | `load`, `operator<<`, `load_next`, `rewind`, `reset`, `current` | a block is in the list before it is parsed; blocks point to their predecessor; the end of the list is also the "before the first" position |
| Block and Point: `src/block.*`, `src/point.*` | number, type, target, displacement, arc, profile, `parsed` | `parse` (also again), `interpolate`, `lambda`, `walk`, modal copies | words inherited along the program; numbers in `size_t`; tolerance read from the running machine; divisions by length and speed; what an earlier parse left |
| Machine: `src/machine.*` | `_setpoint`, `_position`, `_error`, `_command`, the parameters and `_data`, the MADS client | `load` (three forms), `connect`, `sync`, `set_setpoint`, `reset`, `send_metrics`, `quantize` | lost, late, repeated and half-read messages; its own messages come back; exceptions half-way through `sync` and `load`; NaN errors; two configurations (with and without an agent) |
| FMU simulator and broker (external, `director.toml`, `mads.ini`) | command, position, messages on their way | moves to the command, publishes | asynchronous |
| Timer: `src/timer.hpp` | interval timer, SIGALRM handler, statistics | `start`, `stop`, `wait` | signals against sleeps |
| Bindings: `Python/src`, `R/src` | a cursor of their own over the program's list; shared handles of blocks and machines beside the raw pointers of the C++ objects | `load`, `append`, `load_next`, `current`, `blocks`, `parse`, `walk`, handles dropped by a garbage collector | the cursor and the list live apart; lifetimes; machines loaded again under parsed blocks |

The controller owns one program and one machine and calls both from one thread.
The program asks the machine for its zero, its tolerances and its *current
positioning error* while it parses; the machine exchanges messages with the FMU
in the middle of a controller step; signals (SIGINT, SIGALRM) interrupt all of
them.

What makes each part correct:

* Controller: `program->current()` is only dereferenced on a block of the
  right kind; a run starts at the first block and ends; a stop request is
  served, after at most one more setpoint; an interpolated block ends on its
  target and the path has no jump; a rapid ends where it was meant to; reports
  pair; the timer runs whenever it is waited for; the steps are those of
  `fsm.dot`.
* Program: only the last block may be unparsed, parsed targets are complete,
  numbers grow, a failed program stays closed until it is cleared, `load_next`
  gives every block before it says done.
* Block: setpoints advance to the end within the limits, an arc ends on its
  target the right way round, parsing again changes no path; the type is the G
  word's and arcs with different radii are refused (neither of these two is so,
  see section 6).
* Machine: the error belongs to the last setpoint and the last position
  received, whatever else comes in; a published command is the one that was
  asked for; no failure of an exchange ends the process.
* Timer: a cycle lasts the least whole number of periods above its work.
* Bindings: no pointer dangles except after a failed `load` of a program;
  copies are the program's blocks; walks end on their target.

## 2. Modules

| Module | Models |
|---|---|
| `Gcode` | one line of G-code and the block `Block::parse` leaves, with each of the ways parsing fails; pure operators |
| `Program` | the list, the iterator and the calls on them; extends `Gcode` |
| `Machine` | setpoint, position, error, one exchange with the broker, the FMU, each call a single step; extends `Program` |
| `FsmGraph` | abstract specification of the controller: the edges of `fsm.dot` and the SIGINT edges its generated code announces |
| `CncFsm` | the controller over `Machine`: the whole process, with SIGINT at any step; shown to implement `FsmGraph` |
| `MadsLink` | the machine's calls step by step against the broker, the agent's queue and the FMU; shown to implement `Machine` |
| `ProgramUse` | a `Program` under any sequence of public calls, as library clients and tests make them |
| `BindingCursor` | the same list under the Python and R bindings, which keep a cursor of their own and read ahead through copies |
| `MachineConfig` | what loading a JSON document, a TOML table or a file leaves of a machine's parameters; pure operators |
| `BindingBlocks` | blocks, machines and a program on one heap under the bindings' handles; extends `MachineConfig` |
| `Timer` | the interval timer, SIGALRM and `nanosleep` around a cycle of the loop |
| `MotionProfile` | the profile `compute` leaves, `quantize`, `lambda`, and the loops of `do_interp_motion` and `walk` over it, in exact integers |
| `BlockPath` | the circle and the sweep `calc_arc` finds, with the samples of `MotionProfile` along them, through any number of parsings; extends `MotionProfile` |
| `MC_*` | the instances for TLC (`MC_Lines`: the lines two of them share) |
| `*Proofs` | theorems and proofs (section 4) |

### State and actions

`blocks` is `std::list<Block>`; `current` is `_current`, an index or `End` (the
sentinel, 0). `load_next` from `End` goes to the first block, one past the last
is `End` again, hence `NextOf`.

The loop of `load()` over the lines is a step per line (`ReadLine`, the lines
left in `rest`). Nothing in the process acts between two of these steps except
SIGINT and the FMU, which the real loop allows too.

A line (`Line`) is a record of what the controller's behaviour depends on: the
N and G words and their order, the point the coordinates name, whether it names
all three, the block's duration in ticks, by how much the radii of an arc given
by I and J differ, whether an arc sweeps anything, and a word that cannot be
parsed. The coordinates themselves are model values. `ticks >= 1` excludes
blocks whose duration is infinite or NaN (no feed rate): there `quantize` casts
it to `size_t`, which is undefined behaviour. Blocks of no *length* are in.

`ParsedBlock` is the block as `Block::parse` leaves it, thrown or not: an
exception leaves the words read up to it.

`error` is `_error`, as an integer on each side of `max_error()` or `NaN`; a
comparison with NaN is false, as in C++. `Exchange` is what `sync()` meets:
whether the message arrives, and whether a new state, nothing (the last message
is parsed again, or parsing throws at once) or a half-read state comes back.
The FMU moves by its own action to its command, through `Elsewhere`.
A NaN setpoint becomes `null` in JSON: the FMU keeps its command or does
something else.

`CncFsm` cuts one turn of `run()` into the steps `body` (the `do_xxx`), `ret`
(the wrapper's filter and override, then `eval_state`), `trans` (the transition
function) and `wait` (the timing function), because SIGINT may come between any
two of them and `stop_requested` is read at two places: in `do_rapid_motion`
and in the wrapper. `IdlePrompt`/`IdleKey` are the two halves of `do_idle`
around `read_key`; reading a file goes through `load`. After the loop `exit` is
the second call of `do_stop`, which restores the default handler, and a SIGINT
then kills. `late` (setpoints commanded while a request is pending) and, in
`ProgramUse`, `seen` are history variables: nothing reads them but properties.

`MadsLink` takes the exchange apart. `sync()` is two steps: `Publish` (the
command goes out, or is lost, or `publish` throws and `receive` is skipped) and
`Receive` (the next message of the agent's queue, or after the timeout the last
one again); both end in `Settle`, the code after the handlers. `queue` holds at
most `HighWatermark` messages (the agent is built with a queue of one), `wire`
those on their way, and `Own` is the report that `send_metrics` published, which
the agent receives because it subscribes to the topic. Which call comes next is
what the controller can ask for: an interpolated setpoint, a reset, a report, or
the ticks of a rapid from `BeginRapid` to `EndRapid`. SIGINT is left to
`CncFsm`, which stops between calls only. `call` and `before` are history
variables: `before` is what the refinement shows of `setpoint` and `fmuCmd`
until the call under way returns, because `Machine` makes a call in one step.
`MachineRefined` is `Machine`'s own specification under that mapping, with the
program's variables constant.

`Timer` counts time in units (`Elapse`); each system call of `start` and `stop`
is a step, and time passes between any two. `SigInt` ends a sleep as the
alarm does. In `CncFsm` the timer is only on or off: what a wait returns is
logged and changes nothing else.

`MotionProfile` takes units in which the acceleration is 1, so that every time
of a trapezoid is an integer over its feedrate, and every time of a triangle
an integer if its length is a square; distances and speeds are integers over
`Grain` and `SpeedGrain`. Floating point is modelled where it decides
something: at an exact multiple of tq `quantize` may return the multiple or the
next one, and at the end of a block `walk`'s sum of ticks may be on either side
of the duration. `do_interp_motion` compares with a tolerance of a tenth of a
tick, which leaves rounding nothing to decide. `walked` and `speed` are the
last sample.

`BlockPath` adds the arc: `line` has the words, `arc` is `_r`, `_center` and
`_dtheta`. Its circle has one radius and is known by its points with integer
coordinates; an angle is the rank of a point in the order of `atan2`, which
keeps what `calc_arc` decides by: which way, more or less than half a turn, all
around. `Centres` is what the formula with the square root gives, up to whether
rounding makes the root of zero that of a negative number. `ParseAgain` is
`Block::parse` on a block that was parsed: `_r` keeps its value, and an arc by I
and J then takes the branch of the R word.

`BindingCursor` has the list of `Program` and, beside it, `cursor` and
`started` of `PyProgram` and `RProgram`. `Copies` are the blocks that
`make_parsed_block` builds from the lines each time. Clearing a list makes an
iterator into it `Dangling` and leaves `end()` valid; what a traversal does
with a dangling one is undefined, and `Moved` lets it end up anywhere. `failed`
and `seen` are history variables.

`MachineConfig` keeps the order in which `load` reads the parameters: a document
that is refused at one of them has assigned the ones before. JSON is stored in
`_data` before it is read and TOML after; JSON takes integers, TOML does not.

`BindingBlocks` is the object graph. `heap` maps addresses to live blocks and an
address is used again once its block is gone; `prev` and `mptr` are the raw
pointers of `cncpp::Block`, `previous` and `machine` the shared handles that the
wrappers keep beside them. `Release` is what reference counting leaves when the
client drops a handle, `list` the blocks a `Program` owns. A line names a point
or none, moves or not, parses or throws. `start` and `tq` are what a block's
path and profile were computed with; `EndsOnTarget` compares them with what
`start_point` and `walk` read now. `CopyOut` is `current`, `load_next` and
`blocks`: fresh copies of the program's blocks, each with a handle of the one
before. `failed` and `stale` are history variables.

## 3. Runs

| Run | Specification, instance | What it shows |
|---|---|---|
| `cnc_local` | `FairSpec`, no agent, 8 files | `CurrentDereferenceable`, `AbortOnlyOnStuckTail` (aborts only on the block a failed reload leaves), `TimerRunsAtWait`, `OneLateSetpoint`, `RunStartsAtFirst`, `PathContinuous`, `InterpEndsOnTarget`, `ZeroNeedsAgent`, refinement of the graph (`FollowsGraph`), `InterruptServed`, `ProgramEnds` |
| `cnc_lossy` | `FairSpec`, agent, lossy link, 8 files | `RapidReachesTarget`, `RapidMetricsPaired`; `ProgramEnds` and `ZeroReached` although messages are lost |
| `cnc_sigint_rapid` | violation | SIGINT in a rapid skips the block instead of stopping |
| `cnc_nan_setpoint` | violation | a G01 without motion commands NaN |
| `mads_link` | `FairSpec` of `MadsLink` | `PublishedIsOrdered`, `DiesOutsideSync`, refinement of `Machine` (`MachineRefined`), `MotionEnds` |
| `program_use` | any calls, 3 blocks | `ParsedTargetsComplete`, `OnlyTailUnparsed`, `NumbersIncrease`, `DoneAfterEveryBlock` |
| `program_type` | violation | the N word becomes the type |
| `program_arc` | violation | an arc off by more than `max_error()` is accepted |
| `timer` | maximum wait above and below the period | `LeastWholePeriods`; `ReportedCyclesWorked` (only work is reported as too long); `KilledInStartOnly` |
| `profile` | `BlockPath`, three feedrates, tq of two units, a circle of twelve points | `SetpointsAdvance`, `WithinLimits`, `SpeedMatchesPath`, `RestsAtEnd`; `ArcsAsGiven`, `SamePathAgain` |
| `binding_cursor` | any calls of a binding, 3 blocks | `DanglesAfterFailedLoad`, `CopiesAgree`, `EndAfterEveryBlock` |
| `binding_blocks` | any calls on blocks, machines and a program, 4 addresses, 2 machines | `NoDangling`, `WalksEndOnTarget`, `FreshWalks`, `TargetsStick`, types |

Each property of a passing run has a mutant in `PROJECT.json`: a variant of one
mapped definition, as a plausible bug would leave it, under which the run finds
the property violated. `TypeOK` of the other modules is proved, and so is
`DataTellsParameters`; the inductive invariants were checked before they were
proved. None of these is in a run.

### Bounds

* Two named points, the zero and another, with `Elsewhere` for all the others:
  the code compares points with targets only, so that two tell "arrived" from
  "still at the last one". `mads_link` has one and `Elsewhere`: it has no
  program, and the FMU may be at either.
* Files of at most three lines: enough for a block before, the block, and a
  block after; the eight files contain every block type, a number out of the
  list of types that ends a program early, a parse failure at each kind of
  block, an arc that misses its end, a block that does not move, and an empty
  file.
* Blocks last one or two ticks and `TickCap` is 4: `t_blk` is compared with
  the duration only and read at most one tick past it.
* Errors: one value on each side of `max_error()`.
* `SizeMod` is 64 (8 in the others) instead of 2^64: N-1 still wraps.
* `MaxBlocks` is 3 in `program_use` and `binding_cursor`.
* `WireCap` is 2 in `mads_link`: with the queue of one, a state can be two
  messages old when it is received, with a report before or between.
* `timer`: a period of 3, a maximum wait of 7, or of 2 so that `nanosleep` comes
  to its end, and work of at most 8 units between waits: one alarm can be lost
  in a cycle that is not reported, two in one that is.
* `profile`: lengths 1 to 24 at feedrates 1 to 3 with a tq of 2 units: ramps
  shorter than, as long as and longer than a tick, the length at which the two
  formulas meet, and durations that are multiples of tq or not. The circle of
  radius 5 has twelve integer points; arcs start at one of its corners and one
  of its sides and end at each of the twelve, by I and J, by both radii, and by
  one that is too short.
* `binding_blocks`: the constraint `Bounded` takes three blocks (four to copy a
  program of two), enough for a chain with a block on either side of the one
  that is dropped or parsed again; two machines, the second to move a block to;
  one file that throws half-way and one that sets everything back. Addresses are
  symmetric, and `View` leaves out what a freed machine was configured with.

The proofs have none of these bounds, except that `t_blk` saturates at
`TickCap`, which is above every duration, that a cycle of the timer works
for at most `MaxWork`, and that at most `WireCap` messages are on their way,
whatever these are.

### Fairness

`FairSpec` of `CncFsm` assumes weak fairness of the controller (a single thread;
no step of it waits for anybody but the user, whose keys are *not* fair), weak
fairness of the FMU reaching a setpoint that stays, and strong fairness of a
complete exchange while a rapid or a move to zero goes on: messages may be lost
for as long as one likes, not for ever. SIGINT is never fair. `cnc_local` has no
exchange and needs only the first.

`MadsLink` derives the last from weaker facts. The thread is weakly fair within
a rapid only (`InRapid`). The FMU reaches a command that stays (weak), and its
complete state gets through again and again (strong, of `FmuPublish(State)`: it
publishes periodically, and each message may be the half-read one or lost). A
setpoint that is sent every tick arrives at some time (strong, of `RapidTick`);
`receive` does not throw for ever (strong). Delivery is weakly fair: what is on
the wire and finds room is taken in. Nothing is assumed of the own reports,
which may fill the queue.

## 4. Proofs

Assumptions: the named `ASSUME`s of `Gcode`, `Machine`, `CncFsm`, `ProgramUse`,
`Timer`, `BindingCursor`, `MadsLink`, `BindingBlocks`, `MotionProfile` and
`BlockPath`; TLC evaluates them for the instances. Every invariant and every
action property the passing runs check is proved; what is left to TLC is
liveness.

* `ProgramProofs`: lemmas on what `Append`, `ParsedBlock` and each call do to
  types, the unparsed tail and the complete targets. The point of the last is
  `ModalTarget`: a line that names nothing takes its predecessor's target,
  which is complete because `operator<<` refuses to build on an unparsed block,
  or the machine's zero.
* `ProgramUseProofs`: types, `OnlyTailUnparsed`, `ParsedTargetsComplete`,
  `NumbersIncrease` for every sequence of calls; `StuckUntilCleared`;
  `DoneAfterEveryBlock`, from the auxiliary invariant `SeenUpToCurrent`.
* `CncFsmProofs`: `IInv` is inductive. `CurrentDereferenceable` alone is not:
  the state function is chosen in `body` and takes effect after `ret`, so
  `LoadedBlockMatches` says the iterator is already on a block of the chosen
  kind in between; that reloads cannot spoil it is `StepsInTheirStates` (the
  list changes in INIT and IDLE only); that only the tail aborts needs
  `OnlyTailUnparsed` and `ParsedTargetsComplete`; `OneLateSetpoint` needs
  `LateMeansStopping` (after the one setpoint the step left is the override).
  From `IInv`: type correctness, dereferences, aborts, the timer, the late
  setpoint, and that the controller implements `FsmGraph`.
  Further action properties each have an auxiliary invariant on top of `IInv`:
  `RunStartsAtFirst` (`FreshRun`), `InterpEndsOnTarget` (`EndCommanded`),
  `ZeroNeedsAgent` (`LocalZero`: the error stays NaN), `RapidMetricsPaired`
  (`OpenRapid`), and `RapidReachesTarget` (the error that ends a rapid is
  computed in the same step from the position received).
  `PathContinuous` relates the end of one block to the begin of the next, with
  `do_load_block`, a transition function and a wait in between: `Handover` says
  where on this way the setpoint is still the end of the last block, and that
  the iterator has moved one on by when `t_blk` is zero; the first block of a
  run needs `FreshRun`.
* `MadsLinkProofs`: `LinkInv` is inductive. `PublishedIsOrdered` alone is not:
  it needs `ClearBetweenCalls` (outside a call the command is empty, whichever
  exception ended the last one), and `DiesOutsideSync` needs `RapidHasGoal` (a
  rapid's setpoint is a complete point) and `ConnectsFirst`. `CallUnderWay` says
  that the FMU's command is the one of before the call or one that the call's
  setpoint may mean: with it a `Receive` maps to a whole call of `Machine`, the
  `Publish` before it to a stutter, a `Publish` that throws to a call whose
  message is lost, and the FMU's move to its move. So the link implements
  `Machine`, on which `CncFsm` is built.
* `TimerProofs`: `LeastWholePeriods` needs to know when the next alarm comes
  while the thread works: `AlarmPhase` says that if k alarms were lost then
  the time since the last one woken by and the time to the next add up to k+1
  periods, and that the handler is the default one only while the timer is off
  or being started. The other properties of the run follow from it, and that
  with a maximum wait above the period no signal is ever reported late.
* `BindingCursorProofs`: `CursorInv` adds to `DanglesAfterFailedLoad` that
  inside a `load` the cursor may dangle, and that an index is a natural number;
  `ListInv` adds the list's own invariant and `Fits` (the lines still to be read
  fit as well) and gives the types. `CopiesAgree` follows from `Reparses`: each
  block is the one its line leaves after the blocks before it, whichever calls
  failed in between, so that the copies made one after the other are the first
  blocks of the list (`CopiesAreBlocks`). `EndAfterEveryBlock` needs what a
  traversal has returned half-way, `SeenInv`, and `CopiesAgree` for whether the
  copy at the cursor is parsed.
* `BindingBlocksProofs`: `HeapInv` says of a block of the client that its raw
  pointers are those its handles keep alive, and of a block of the list that its
  predecessor is in the list and its machine the program's.
  What `Release` keeps is closed under `previous`, so that no block that stays
  points to one that goes. `DataIsTold` follows from what `LoadDocument` takes
  when it refuses nothing. With `TypeInv` it gives the types. `WalkInv` is about
  targets: every block is `Grounded`, that is, it follows a parsed block, starts
  on the target of that one (or where its machine was when it was parsed, if
  that was not loaded since) and has the target of its line. What keeps it is
  `Keeps`: in no step does a block change its predecessor or, once parsed, its
  target, because `modal` fills in only what is missing; and `NewMachine` is no
  machine a live block was parsed on. From it `WalksEndOnTarget`, `FreshWalks`
  and `TargetsStick`. The starts of copies are defined along the program
  (`CopyStarts`); that this is well defined is `CopyStartsFollow`.
* `BlockPathProofs`: the profile and the circle. `ProfilesShaped` says what
  `compute` may leave: whole phases, the deceleration no shorter than the
  acceleration because `quantize` never shortens a time (`QuantizedUp`), and an
  area that is the length. `UnitOfTime` is the trapezoid rule: in one unit of
  time a block walks the mean of the speeds at its two ends. Step by step
  (`StepByStep`) this gives the distance of a tick (`Distance`), the change of
  speed (`Change`) and what is left (`Remaining`), and from these and `SampleInv`
  (the last sample is that of a tick ago) `SetpointsAdvance`, `WithinLimits`,
  `SpeedMatchesPath` and `RestsAtEnd`, for every length, F word, radius and
  tick whose roots are exact. For arcs, `OneCentre` says that a chord, a radius
  and a side leave one centre, `CentreOfDiameter` that a chord of twice the
  radius has it on itself, and `NetTurn` that the side of the centre says whether
  the turn is more than half. `ArcInv` keeps what the words and an earlier parse
  may have left; with it `ArcsAsGiven` and `SamePathAgain`, for every radius
  whose circle has its integer points ranked by `CircleAssumption`.

Only model-checked: liveness (`ProgramEnds`, `ZeroReached`, `InterruptServed`,
`MotionEnds`), which like ENABLED is out of the prover's reach, and the four
properties the code violates.

Recursive operators are out of the prover's reach, and so are the library's
induction theorems: no module declares the first, a file is read in steps, and
what needs induction over numbers (`StepByStep`, `CopyStartsFollow`,
`CopiesAreBlocks`) takes the least counterexample of a set of numbers, which
`Least` derives from the well-foundedness of the naturals.

## 5. Not modelled

* Coordinates between the ends of a block, and z, which goes along linearly. In
  `CncFsm` a block has a duration and passes through its start, `Elsewhere` and
  its end; that it does so in order and within limits is `BlockPath`'s.
* Arcs by I and J whose end is off the circle: `Gcode` has the test that
  refuses them or not, `BlockPath` takes ends on the circle.
* Blocks without a feedrate, whose duration is infinite and is cast to
  `size_t`; blocks without length and short ones whose length is no square, in
  `MotionProfile`.
* A `tq` of zero, which `load` takes: `walk` then never ends and `quantize`
  divides by it.
* Commands that reach the FMU after a later one was published: they arrive at
  once or never.
* The bindings' wrappers of points, setpoints and positions set by a client, and
  the conversions to dictionaries and data frames. Both bindings call
  `Machine::position(Point)`, which `src/machine.hpp` has commented out, so they
  do not build as they are.
* `RcppExports` (generated), notebooks, build and broker configuration; unit
  tests are read as the documentation of intent only.
* `Timer`'s ENABLE_RT_SCHEDULER variant and its statistics.
* `t_tot`: only printed and published.
* Command-line options, printing, logging, the wording of error messages.
* `fsm.hpp`'s unused entry points (`evaluate` alone, a null timing function).

## 6. Findings

Four disagreements of code and documentation, one violation run each; the quoted
lines are in `PROJECT.json`: SIGINT in a rapid skips a block; NaN setpoints for
a block of length zero; `case 'N'` falls through to `case 'G'`; the tolerance of
arcs is the machine's current error.

Seen while modelling, and part of the models as the code has it:

* Moves to zero are not reported: no transition function is added for the edges
  of GO_TO_ZERO (`src/fsm.hpp:335`), although the comment of `end_rapid` counts
  the one to IDLE among its two (`src/fsm_impl.hpp:316`), and `src/fsm.dot:56`
  labels it.
* `walk` may miss the last sample of a block, when the sum of the ticks comes
  out above the duration (`src/block.cpp:208`); `RestsAtEnd` says what holds.
* An arc by I and J of half a turn or more changes its path when the block is
  parsed again, because `_r` is then set and the branch of the R word is taken;
  `SamePathAgain` names the arcs that keep theirs.
* A closed counterclockwise arc has no length, a closed clockwise one is a full
  turn.
* An R word too short for its chord gives a centre that is not a number, and
  no exception; half a turn by R may, by rounding.
* TOML refuses a parameter that is written as an integer, JSON does not.
* A document that is refused half-way leaves the parameters before the bad one
  changed; `DataTellsParameters` therefore excepts the loads that threw.

## 7. Plan

1. Done: `Gcode`, `Program`, `Machine`, `CncFsm` against `FsmGraph`,
   `ProgramUse`, `Timer`, `BindingCursor`, `MotionProfile`, their runs and
   proofs.
2. Done: `MadsLink` and its refinement of `Machine`; `MachineConfig` and
   `BindingBlocks`; `BlockPath`; their runs, and the proofs of the first three.
3. Done: proofs of `BlockPath`, of `PathContinuous`, and of what is left of
   `BindingCursor` and `BindingBlocks`.
4. Left: the real-time variant of `Timer`; an abstract specification of a
   traversal that `BindingCursor` implements.
