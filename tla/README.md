# Formal models of the vision sorter

TLA+ models of the vision sorter: a Franka FR3 arm that picks coloured cubes
from a table and sorts them into bins, with its real-robot drivers and its
Gazebo simulation. Every definition is translated from the C++ and Python
sources; `PROJECT.json` names, for each definition, the lines it stands for.

Run a model with `tlc -config X.cfg M`, check proofs with
`tlapm M_proofs.tla`.

## 1. The system

| Component | State it keeps | Operations | Interacts with | What is hard |
|---|---|---|---|---|
| **pick-and-place node** (`franka_pick_place/src/mtc`, `src/main.cpp`) | target pose and colour under `cube_mutex_`; flags `new_cube_available_`, `pipeline_executing_`; the MTC task's goals | `cubePoseCallback`, the MTC thread's loop, the end of `main` | vision (topic of depth one), MoveIt (planning scene, plan, execute) | three threads, a flag protocol, a read without the lock, shutdown |
| **vision node** (`src/vision/vision.cpp`) | latest point cloud, transform buffer | image and cloud callbacks, publication of detections | camera topics, pick-and-place node | image and cloud of different times, transform failures |
| **robot hardware interface** (`franka_hardware_interface.cpp`, `robot.cpp`; its start and end: see robot services) | claimed/running flags per interface type, first-update flags, command vectors, the active control and its flags | prepare/perform mode switch, read, write, (de)activation | controller manager, libfranka | side effects between types, starts that throw half way, stale targets |
| **robot services** (`franka_param_service_server`, `franka_action_server`, `franka_executor`) | two nodes, an executor with its own threads and a flag, `write_mutex_` | `on_init`, destruction; set stiffness, load, frames, collision behaviour; error recovery | `Robot`, next to the control loop; the resource manager; clients | construction and destruction around running callbacks, ROS shut down in between |
| **gripper action server** (`franka_gripper`) | cached gripper state under a mutex, goal handles, a detached thread and a future per goal | four actions, cancel, stop service, state timer | libfranka gripper, action clients | goals that overlap, cancel against result, shutdown |
| **simulated hardware** (`ign_system.cpp`) | control-method bits, commands and states per joint, mimic joints | mode switch, read, write | controller manager, Gazebo's entity component manager | bit masks, priority of modes, mimic joints |
| **simulation plugin** (`ign_ros2_control_plugin.cpp`) | controller manager, executor thread, last update time | Configure, PreUpdate, PostUpdate, destructor | Gazebo, ROS parameter server | early returns, blocking waits, order of write and read |
| **cube spawner** (`spawn_multiple_cubes.py`) | spawned positions and names | place with retries, spawn, report | Gazebo services | exhausted retries, name clashes |
| **pick pipeline stages** (`mtc.cpp`, `updatePlanningScene`) | the planning scene: object in the world or attached, allowed contacts; arm and fingers | fifteen stages, planned as a whole, executed one by one | MoveIt, the callback's scene updates, the next pipeline | failures half way, and what they leave to the next plan |
| launch files, configuration, messages, models, fake gripper, logger, KDL model | none, or declarative | | | not modelled |

What makes each part correct:

- pick-and-place node: only checked poses are approached; a cube goes to the
  bin of its colour; a detection is not worked on without end; a notification
  is answered; the process ends when interrupted.
- hardware interface: the robot's control is the one the flags name; vectors
  are sent as what they are; no stale target is sent; claims agree with the
  controllers.
- gripper server: reports are true and final; every goal's thread ends; one
  client's sequential goals never disturb each other.
- simulated hardware: a joint is commanded by the interface its controller
  holds, in every step, and stands still when nobody holds it; a prepared
  switch is performed.
- simulation plugin: what was started is stopped again; starting it ends.
- vision and the cell as a whole: a cube goes to the bin of a colour seen where
  it lies although images and clouds are not of the same time; the table is
  emptied.
- cube spawner: cubes keep apart, where it could learn their positions.
- robot services: callbacks only run on nodes and a robot that exist, an
  answer tells what the robot holds, the destruction ends.
- pick pipeline stages: whatever failed pipelines leave behind, the hand is
  never in a contact the scene forbids; a complete pipeline restores the scene;
  cubes go from the table to a bin; failures that end do not end the sorting.

## 2. Plan

Order of work, most important behaviour first. All of it is done.

1. `PickJobs`, `PickCycle`, `PickPlaceNode` and its proofs.
2. `OneMotionMode`, `FrankaHardware` and its proofs.
3. `GoalReports`, `GripperActionServer` and its proofs.
4. `IgnSystem` and `GazeboControl` with proofs, also of the tidy client;
   `SimStartup` with proofs.
5. `Vision`, and `SortingCell`, which composes it with `PickCycle`, a table of
   cubes and the spawner; its proofs.
6. `CubeTransport`, `PickStages` and its proofs.
7. `RobotServices` and its proofs.

## 3. Modules

| Module | Role |
|---|---|
| `PickJobs` | abstract: accept detections, one job at a time, at most two on one detection |
| `PickCycle` | abstract: the hand-over of a target from the callback to the MTC thread |
| `PickPlaceNode` | the node's three threads; implements `PickJobs` and `PickCycle` |
| `OneMotionMode` | abstract: at most one motion mode, fed only with its own commands |
| `FrankaHardware` | `FrankaHardwareInterface` over `Robot`; implements `OneMotionMode` under a careful operator |
| `GoalReports` | abstract: what the gripper's clients see, one report per goal that agrees with one command at most |
| `GripperActionServer` | the gripper server's executor, goal threads and command threads; implements `GoalReports` |
| `IgnSystem` | `IgnitionSystem`: mode bits, command components, mimic joints |
| `GazeboControl` | the plugin's loop of write, physics, read and update around `IgnSystem` |
| `SimStartup` | the plugin from Configure to its destructor |
| `Vision` | the vision node's two subscriptions and what it publishes |
| `SortingCell` | composes `Vision`, `PickCycle`, cubes, arm and spawner |
| `CubeTransport` | abstract: a cube goes from the table to a bin, and elsewhere only after a failure |
| `PickStages` | the pipeline's stages over the planning scene; implements `CubeTransport` and `PickCycle` |
| `RobotServices` | `on_init`, the executor's threads with services and error recovery, and the destruction |
| `*_proofs` | the theorems about the module of that name |
| `MC*` | small instances of these for TLC |

Operators marked "Mutant" are plausible bugs of the definition that follows
them; no specification uses them. `PROJECT.json` lists which property each of
them breaks.

### 3.1 PickPlaceNode

`executor`, `mtc` and `main` are program counters. A step of the model is a
piece of code between two accesses to shared state:

- the callback: take a message and test it (`CallbackIgnores`,
  `CallbackAccepts`), take the lock (`CallbackLocks`), store
  (`CallbackStores`), update the scene, raise the flag;
- the MTC thread: see the flag, copy under the lock, clear the flag, raise
  `pipeline_executing_`, set the two goals, plan, execute, lower it;
- main: join the executor, shut down ROS, return.

Returning from `main` ends the process wherever the MTC thread is. The
destructor, which would raise `shutdown_requested_` and join that thread, is
never run: `initializeMTC` hands `shared_from_this()` to the robot model loader
and the planners (`mtc.cpp:11`, `:84`), which live in the node's own
`mtc_task_`, so the node outlives main's pointer to it. The flag is therefore
no variable of the model: it is always down.

The inbox holds one message (the subscription's depth). Taking a message and
testing it are one step: nothing the test reads can change in between in a
way that taking the message later would not show. The colour read in
`setPlaceApproachStage` is done without the mutex; while the callback is in
its critical section the string may be half written, and any bin (or the
fallback) can be selected. A turn of the MTC loop that finds the flag down
only sleeps and is no step. MoveIt's calls return, with success or failure.

History variables (`copies`, `lateStores`, `disturbed`) are read by no guard.

Refinement: the copy under the lock is `Start`, the store is `Accept`,
lowering `pipeline_executing_` is `Finish`. "At most twice", because a copy
may overtake the notification of the store it copies.

The second abstraction, `PickCycle`, keeps the order of check, store,
notification, copy, clear, mark, the read of the bin and end, and forgets the
mutex, the goals, the scene and the shutdown. The bin is read from the target of
that moment, not from the copy, and is any bin while a callback may be writing. Three modules relate to it:
`PickPlaceNode` and `PickStages` implement it, `SortingCell` contains it. What
the cell's checks show of the hand-over therefore does not rest on a second,
hand-made copy of the node.

### 3.2 FrankaHardware

One step per block of `perform_command_mode_switch` and per call of `read`,
`write`, `prepare_command_mode_switch`, `on_activate`, `on_deactivate`. Types
of interfaces, not the single interfaces, are the data: a request names all
interfaces of a type, or some of them (`startPart`, `stopPart`), and the
latter makes `prepare` throw after the types before it took effect. A request
for all 45 interfaces is refused at once. Types that are not exported are
ignored. A start may throw (the second attempt after automatic recovery
failed), which leaves the remaining blocks undone.

The controller manager is external: its loop is read, update (with a pending
switch), write; it gives an interface to one controller at a time and, as in
ROS 2 Humble, completes a switch whose perform step reported an error.
`Robot::writeOnce`'s choice by flags and length is `SentAs`. Rate limiting,
filters and the values themselves are left out, but a value that is not finite
may be there at any write. A read or write that throws changes no state of
the model.

`CarefulSpec` is the same hardware under an operator who starts one complete
motion type at a time from rest; there the hardware implements
`OneMotionMode`.

### 3.3 GripperActionServer

`thread[g]` is the program counter of the detached thread of goal `g`,
`command[g]` its future, `state[g]` the goal handle of `rclcpp_action`,
`executor` whether the timer holds `gripper_state_mutex_` in `readOnce()`.
`executeCommand` and `executeGripperCommand` have the same control flow and
share their actions; the second also takes the mutex to report. `stop()` ends
every command that has reached the gripper, whoever's it is, and has no effect
on one that has not. An exception of `stop()` in a goal's thread is caught by
nobody (`terminated`); in the stop service it is. After shutdown nothing is
reported and the future's destructor waits for the command. `closes[g]` is the
choice between `move` and `grasp`, made by the cached width; a move ends at its
target, a grasp within `Epsilon` of it, homing anywhere. `max_width` is
constant. The constructor throws before any server exists, or ends in `Init`.

`GoalReports` is what remains for a client: created and moving commands are
both "running", a goal that ends without a command does so because of its
width, and shutdown only leaves goals unreported. `Allowed` are the goals whose
command may be started: all but those of `gripper_action` that ask for a width
the gripper does not have.

`SequentialSpec` adds a client that sends a goal only when every earlier one
was reported; it is used for a theorem only.

### 3.4 IgnSystem and GazeboControl

`bits[j]` is `joint_control_method`, `cmd[j]` the three command values, of
which the model keeps the controller that set them, `velCmd` and `forceCmd`
the components `write()` leaves for the physics. The physics zeroes what it
applies, so a component says whether it was set in this step. A paused step
calls the plugin but runs no physics and no time. A gravity term that fails
makes `write()` return before any command. The three masks of
`perform_command_mode_switch` are zero (`VELOCITY & EFFORT` and so on), so a
stop clears every bit.

The controller manager is external: it runs the active controllers in
`update`, then performs the one switch a service thread prepared; an interface
belongs to one controller at a time. `Period` is the control period in
simulation steps. `TidySpec` is a client that lets one controller hold a joint
by one interface.

Joint positions, velocities and forces have no numbers. The model starts with
a description `initSim` accepts.

### 3.5 SimStartup

`configure` is the place in `Configure` and `getURDF`, `thread` the thread of
the executor, `reply` the future of the parameter request. The description's
node comes and goes, and ROS may be shut down at any time. A request whose
server goes down is lost, and its future never ready; `f.wait()` has no
timeout. `cancel()` before `spin()` would be lost; `UnloadIsSafe` says why it
is not: a controller manager exists only after a description was delivered by
the spinning executor. An exception nobody catches ends the process (`terminated`).

### 3.6 Vision and SortingCell

A view is what the camera sees of each spot of the table: as an image it
gives the colours, as a cloud the heights. `imageCallback` pairs the image at
the head of its queue with `latest_pointcloud_`, which may be older or newer.
A point on the arm is above the table's box, a point on the empty table on its
lower border, where either outcome is possible. Without a cloud, or with one
whose transform fails, nothing is on the table: the camera is 1.2 m above it
and the camera-frame pose is outside the box. Of an array only the first
detection matters to the receiver; its order is that of the colours, and any
order among the contours of a colour.

In `SortingCell` the pick-and-place node is `PickCycle` itself (`Node`): the
cell's actions conjoin its steps with the inbox, the table and the arm. Its
finer interleavings, scene and shutdown are `PickPlaceNode`'s, which
implements the same cycle. The arm may hide spots while it works and
hides none at rest. A job that succeeds brings its cube to the bin the node has
read (`place`); a job on an empty spot, one without a plan and one that
closes beside the cube change nothing; a carried cube may fall, on the table
or beside it. The spawner plans once, with the positions it could get, and
then spawns what it planned. A cube whose query failed may get another one on
top of it: then both may lie on one spot, be pushed to others or fall off, and
vision sees one of them.

Two histories are read by no guard. `lain` holds for each spot the cubes that
have lain there, since an old image may still show them. `mixed` holds from a
store, made or under way, that comes between the copy of a target and the read
of its bin, until that job ends: then the bin the code selects has nothing to do
with the cube it carries (finding `pick_place_tracking`), and `CubesSorted`
says nothing. In all other jobs it says where the cube goes.

### 3.7 PickStages

`scene` is what the pipeline changes: the object in the world (absent, on the
table, where the hand let it go), the attached one, the allowed contacts, the
place of the arm, the fingers. `After(k, s)` is stage `k` of `initializeMTC`;
`Planned` runs all of them on a copy, as `task.plan` does, and `Feasible` says
whether MoveIt finds no forbidden contact on the way. Where MoveIt's geometry
decides (an object in the world where the attached one passes), planning may
succeed or fail. A stage that fails leaves the scene before it, after it, or
the arm in between (`Partly`); `planAndExecute` only logs and the next job
starts from there.

The callback is three steps, its test, its store and its scene update with the
flag, and the MTC thread takes a job in four, the copy (`CopyTarget`), the
clearing of the flag, the mark and the setting of the goals, which reads the
bin, so that each may come between the other's;
with these steps the module implements `PickCycle` too. `updatePlanningScene` puts the
object back into the world, or fails. `table`, `held`, `bin` are the real
cubes, which the stages do not know: `good` says which copies of a pose
(callback, target, job) name a cube that is still there. `trouble` and
`result` are histories. Poses, speeds, distances and the colour are left out;
`addRotateGripperStage` and `getCurrentEndEffectorPose` have no caller. MoveIt and the cubes are external.

### 3.8 RobotServices

`main` is the place in `on_init` (connect, service node, executor and its
wait, `add_node`, action node, `add_node`) and, after it, in the reverse
destruction of the members. An exception that leaves `on_init` takes down what
was built, in the same order. `thread` and `spinning` are the executor's
thread and its flag; the constructor polls the flag, the destructor cancels
and joins. A node runs one callback at a time, the two nodes run theirs
together. `at` is the place of the service node's callback: `setGenericRobotParam`
with the lock of `write_mutex_` inside the setter, and one of three answers.
The mutex is never contended, because only the service node takes it and it
runs one callback at a time; recovery goes without it. `errorRecoveryAction`
accepts, recovers and reports in one callback. Setters throw what libfranka
documents, `CommandException` and `NetworkException`; after the second the
robot may hold the new value or not. A parameter's value is the number of the
call that set it. The control loop shares only `~Robot` with these threads; its
side is `FrankaHardware`. ROS may be shut down at any time.

## 4. Runs

| Run | Shows | Bounds, and why they are enough |
|---|---|---|
| `pick_place` | all invariants of the node, `PickJobs`, `PickCycle`, answers and the end of the process | two poses on the table, one off, an empty message, one with a hidden second cube; colours with a bin, without one, and the empty string: every branch of the callback and of the bin lookup, and two different targets for every race |
| `pick_place_tracking` | finding: the target changes while the pipeline executes | same |
| `hardware` | consistency under any controller manager | one joint type and both Cartesian types exported (velocity and effort are not, so requests for them are ignored); requests of one type, of an elbow with its Cartesian type, of two motion types; at most one type named in part |
| `hardware_careful` | `WritesMatch`, `OneMotionMode` | all types exported; starts of up to two, stops of up to three types |
| `gripper` | reports, `GoalReports`, threads, liveness | three goals, in and out of range, of both kinds: two commands and a refused goal overlap, one of them a move or a grasp by the width it finds; widths 0 to 2 |
| `simulation` | joints are commanded in every step, by held interfaces only; switches are performed | an arm joint, a finger and its mimic; three controllers that share both joints by different interfaces; a period of two steps, so that there is a step without an update |
| `simulation_tidy` | the holder's command is applied; mimic joints follow | the same joints, velocity as the first state interface, a fourth controller that commands the mimic joint |
| `simulation_stop` | finding: a stop clears another controller's mode | as `simulation` |
| `sim_startup` | a plugin with a controller manager is unloaded safely and completely, Configure ends | none: the state space is finite |
| `sorting_cell` | bins, the table is emptied | two spots, a green cube on the near one and a red one that the spawner may bring to either, also onto the green one; queues of one (the code has ten; one is enough for an image and a cloud of different times and for one more in the callback); two pairs of a cube and a spot over time (`MaxPlacings`): the red cube beside the green one, on it, or the green one fallen to the far spot; the working arm hides the near spot and leaves the far one visible, so that images are part new, part hidden |
| `pick_stages` | contact, restoration, `CubeTransport`, the table is emptied | three cubes, so that a copy of a pose may outlive its cube and another may still be there; three failures (`MaxFaults`), of plans, stages or scene updates: one that leaves the hand full, one on the way to repair it, one more |
| `robot_services` | life times, answers, teardown, liveness | three calls of two services that write one parameter (set, set again, fail), two recovery goals |

`MaxPlacings`, `MaxFaults`, `MaxRequests` and `MaxGoals` bound a run, not the
theorems: they hold for any value.

The type invariant of a module is the first conjunct of its `IInv`. `IInv`
itself, and `ImplementsPickCycle` of `PickStages`, are no properties of the
runs: they were checked by TLC on the runs' instances before they were proved,
and the proofs (section 5) hold for every instance. The runs keep what they
are about.

Fairness. `PickPlaceNode`: each thread is scheduled (weak fairness), and the
MTC thread gets the mutex (strong fairness), which the callback holds for two
assignments; MoveIt's calls return. Nothing makes vision publish or a user
interrupt. `GripperActionServer`: commands and reads end, since libfranka
bounds them (weak fairness); a goal's thread gets the mutex that the timer
releases thirty times a second (strong fairness). `GazeboControl`: the
simulation goes on stepping; that it does not stay paused for ever is a
premise of `SwitchIsPerformed`. `SimStartup`: the plugin's threads run; that
the environment settles is a premise of `ConfigureEnds`. `SortingCell`: the
threads run, the camera sends, both subscriptions are served, and a job tried
on a cube again and again succeeds at last (strong fairness for each cube: a
statement about MoveIt and the gripper, without which no table is emptied).
`PickStages`: vision goes on publishing what lies on the table, both threads
run, MoveIt's calls return, failures come to an end (`MaxFaults`).
`RobotServices`: the threads run and a call of the robot returns or throws;
nobody has to destroy the interface or to shut ROS down.

## 5. Proofs

Eight modules of proofs. For every value of the constants, under the modules'
named assumptions:

- `PickPlaceNode_proofs`: type correctness, `GoalOnTable`,
  `AtMostOneLateStore`, `AtMostTwoRuns`, `PlacedByItsColor`, and the two refinements `Spec => Jobs!Spec`
  (`Refinement`) and `Spec => Cycle!Spec` (`CycleRefinement`). The invariant
  `IInv` says what each program counter guarantees: a pose that is in the
  callback past its check, in the target or in the copy is on the table
  (`PosesInv`); a callback before its store uses up the one late store
  (`LateInv`); the second copy of a target needs the notification its callback
  has not raised yet (`CopiesInv`); what was copied is what was stored unless
  disturbed (`MatchInv`). The refinements need it where a step of the code is
  only correct in its context: a check is a step of `PickCycle` because no
  pipeline runs while its flag is down, a copy because a raised flag means a
  stored target, the read of the bin because the colour of the target has one
  and only a callback that holds a checked detection can be writing it. Of shutdown: `ShutdownSafety` and `ShutdownBounded` (below).
- `FrankaHardware_proofs`: type correctness, `FlagsFollowControl`,
  `ControlIsRunning`, `ElbowNeedsCartesian`, `ClaimsFollowOwners`,
  `NoStaleTarget`; under `CarefulSpec` also `WritesMatch` and
  `CarefulSpec => Mode!Spec`. `IInv` adds that a running target type is either
  waiting for its read or fresh, and that during a switch the claims are those
  of the pending owners; `CarefulInv` that at most one motion type is claimed
  or running and that a block behind the loop is settled.
- `GripperActionServer_proofs`: type correctness, `ReportedIsOver`,
  `ReportsMatch`, `OneCommandAtATime` for the sequential client,
  `Spec => Reports!Spec` (`ReportRefinement`) and that no report ever changes
  (`FinalSafety`). `ThreadInv` ties the place of a goal's thread to its command
  and its handle: a thread that joins has called `stop()` on a canceling goal,
  one that reports has a command that is over while ROS is up, a reported goal
  has no thread. A `stop()` is one abstract step for all the commands it ends
  (`StopLoses`). Of shutdown: `ShutdownSafety`, `ShutdownBounded`.
- `GazeboControl_proofs`: type correctness, `BitsAreHeld`,
  `CommandedEveryStep`, `ReleasedStandStill`. `MethodInv` says that a command
  left over by a paused step belongs to the method the joint still has;
  `StepInv` why: a switch is performed only after a step of the physics. For
  the tidy client also `HolderCommands` and `HeldBitsStay`: `TidyInv` adds that
  the active set and a pending switch never hold two controllers of one joint,
  and that the bits of a held joint are its interface, next to the effort bit
  every joint is born with at most. `HeldBitsStay` is what run
  `simulation_stop` refutes for a client that is not tidy; the theorem says
  that it takes two interfaces of one joint, held at the same time, to meet
  that bug. `MimicsFollow` for
  mimics that follow a position, or follow a velocity and have no effort
  interface (`Driven`); what else can happen is in section 6.
- `SimStartup_proofs`: type correctness and `UnloadIsSafe`. `IInv` adds that a
  reply or a description in hand was delivered by a spinning executor, and
  that a thread that is not joinable is over or never was.
- `SortingCell_proofs`: type correctness, `CubesSorted`, for any table, cubes
  and bins, queues of any depth and an arm that hides what it likes, and
  `Spec => Node!Spec` (`NodeInCell`). `HonestInv` says of the job, the target,
  the inbox and every queued image that its colours are those of cubes which
  have lain where it shows them; no step makes such a view dishonest, because
  a spot keeps what has lain on it (`HonestStays`). `BinInv` ties the bin to the
  job: from the copy to the read target and job are the same, and after the read
  the bin is that of the job's colour, unless `mixed`. `NodeInCell` says that the
  cell adds no step to its node; with `CycleRefinement` both sides of the
  composition meet in `PickCycle`.
- `PickStages_proofs`: type correctness, `NoForbiddenContact`,
  `SuccessRestores`, `Spec => Transport!Spec` and `Spec => Cycle!Spec`. `IInv`
  says what the stage about to run finds when the ones before it succeeded: the
  object in the world or attached (`StageInv`), the place of the arm
  (`ArmInv`), the fingers (`FingersInv`), the allowed contacts (`ContactInv`);
  for wherever a pipeline stopped, what it can have left (`LeftoverInv`) and
  where the cubes can be (`CubesInv`); and which flags are up while a target is
  handed over (`HandOverInv`).
- `RobotServices_proofs`: type correctness, `AliveWhileServing`,
  `AnswersAreTrue`, `JoinReturns`. `LifeInv` orders what exists by the place of
  the main thread, `ThreadInv` says that the executor's thread is not there
  before the executor and is over when nodes are dropped, `CallbackInv` that a
  callback runs only on a node added to a spinning executor, `ParamInv` what
  the robot holds when an answer is about to be given, and `SpinInv` that past
  the executor's constructor no start of `spin()` is still to come.

Liveness is only model-checked: the prover knows neither fairness nor ENABLED.
For four of the properties a safety half is proved for every instance:

- `ProcessEnds`: after an interrupt every step of any thread lowers a
  natural number (`ShutdownDescends`), which is 17 at most and zero exactly
  when `main` has returned (`ShutdownBound`). What TLC adds is that a step
  is possible until then.
- `ThreadsEnd` after shutdown: the same for each goal of the gripper server,
  with at most eight steps. Before shutdown a goal's loop may turn any number
  of times, and its end rests on fairness alone.
- `TeardownEnds`: `JoinReturns`, the deadlock it excludes. At the join the
  executor's thread has ended or has been cancelled while it spins.
- `UnloadEnds`: `UnloadIsSafe`, the same for the simulation's plugin.

`FlagIsAnswered`, `ConfigureEnds`, `SwitchIsPerformed`, `RequestsAreAnswered`,
`SortingEnds` and `TableIsEmptied` rest on fairness or on premises about the
environment throughout, and have no such half. Findings are violations TLC
exhibits.

## 6. Findings

`PROJECT.json`, "findings", lists two, each with the line it contradicts and
the run that shows it:

- `pick_place_tracking`: the target is replaced while "cube tracking" is
  "disabled", and the place goal then takes the colour of the new one.
- `simulation_stop`: stopping one interface of a joint clears the mode of the
  controller that holds another.

Seen in the code while modelling it, without a run of their own:

- `franka_pick_and_place.hpp:35`: the destructor never runs. `mtc.cpp:11` and the
  planners (`mtc.cpp:84`) keep `shared_from_this()` in the node's own
  `mtc_task_`, so `main` returns beside an MTC thread that may be planning or
  executing.
- `mtc.cpp:255`: a store that comes late changes the colour, and the cube that is
  carried goes to the other cube's bin; `PlacedByItsColor` and `CubesSorted`
  exclude exactly this.
- `spawn_multiple_cubes.py:129`: a cube whose pose query fails is not kept away
  from; a new one may be created inside it.
- `cube_tracking.cpp:103`: an unmoved cube is notified again after every
  pipeline; `cubePoseChanged` and the replan tolerance the README names
  (`README.md:252`) are not used.
- `franka_hardware_interface.cpp:380`: a swap of motion types in one request
  starts the new control and then stops it, so the next write finds none.
- `franka_hardware_interface.cpp:176`: deactivation stops the robot and leaves the
  interface's claimed and running flags; after the next activation a write
  finds them up and no control open.
- `robot.cpp:117`: "This part should not be reached" is reached when two
  interface types run and the flags do not fit the vector.
- `gripper_action_server.cpp:180`: "already there" is decided on the width of
  the last timer tick, which another command may have changed.
- `gripper_action_server.cpp:190`: so is the choice between move and grasp: a
  stale width lets the fingers close without force.
- `mtc.cpp:406`: after a failed execution nothing detaches the cube; MoveIt,
  which then sees it in the hand and on the table, may refuse every later
  plan.
- `mtc.cpp:256`: the distance above the bin is `approach_distance`; the
  parameter `place_approach_distance` is read
  (`franka_pick_and_place.cpp:15`) and not used.
- `franka_executor.cpp:21`: when ROS is shut down before the constructor has
  seen the executor spin, it polls for ever.
- `ign_system.cpp:301`: a mimicked joint whose first state interface is effort
  is mimicked in nothing; `ign_system.cpp:221`, `:742`: a joint skipped at
  start is later used as a mimicked one, through a null component.
- `ign_ros2_control_plugin.cpp:181`: `return 0` from a function that returns
  `std::string` throws; `:230`: a Configure that returned early leaves its
  thread joinable.

## 7. Not modelled

- Launch files, configuration, message definitions, models and worlds are
  declarative; there is no state to explore.
- The KDL model and the logger forward to libraries, the fake gripper
  publishes a constant: no state, no decision.
- The planning scene loader reads a file once; the test utilities are manual.
- Of the simulated hardware, `read()` and the IMU sensors (numbers that no
  decision depends on) and the export of interfaces.
- MoveIt's planning, Gazebo's physics and libfranka are external: what they
  answer is an outcome of the action that calls them.
- Numbers (poses, efforts, filters, rate limits) are abstracted to what the
  properties distinguish. Uninitialised or torn values appear only where the
  code can read them.
- Goal threads of the gripper server that outlive the node: the model ends
  with the threads.

The rest of the repository's own code is numerical, declarative or without
state: no order of events changes what it does, so there is nothing in it for
a model checker.
