---------------------------- MODULE RobotManager ----------------------------
(***************************************************************************)
(* The mission of the robot: the thread rbmg_handle of                     *)
(* robotManager/robotmanager.c, the path tables it walks, and everything   *)
(* that shares rbmg_mode, ctrl and the colour letter with it:              *)
(*   - the follow_line thread, whose publications run the callbacks        *)
(*     rbmg_special_point_callback and rbmg_error_callback,                *)
(*   - the colour UART interrupt uart_rx_ind,                              *)
(*   - the drv_stepper_motor thread, which writes rbmg_mode once,          *)
(*   - the chassis, which executes the last command it was handed.         *)
(* rbmg_handle has priority 7 and the other threads 22 and 25, so they run *)
(* only while it sleeps: one action of rbmg_handle is what it executes     *)
(* from one rt_thread_mdelay to the next.  Distances are millimetres and   *)
(* turns are quarter turns; both are relative to where the current action  *)
(* began.                                                                  *)
(***************************************************************************)
EXTENDS Integers, Sequences

CONSTANTS
  Letters,       \* the letters the Raspberry Pi may send: r, y, b, x, other
  MaxPolls,      \* bound on the 50 ms polls of one movement (1000 in the code)
  HomesDuring    \* the modes in which the arm may reach its home position

Modes == {"CAB", "LINE", "ACTION"}
AllLetters == {"r", "y", "b", "x", "other"}

ASSUME LettersAssumption == Letters \subseteq AllLetters
ASSUME MaxPollsAssumption == MaxPolls \in Nat \ {0}
ASSUME HomesDuringAssumption == HomesDuring \subseteq Modes

VARIABLES
  rbmg_mode,   \* who drives the chassis: nobody, the line, an action
  pc,          \* where rbmg_handle sleeps or spins
  this_table,  \* the path table being walked
  index,       \* [table -> entries already consumed]
  take_cnt,    \* number of the next cell to pick from, 1..10
  color,       \* color[0], the last letter received
  color_flag,  \* a letter arrived since the flag was cleared
  color_type,  \* the colour latched for the cargo
  suction,     \* SWITCH_24V_4 powers the suction pump
  moves,       \* movements the current phase has still to make
  polls,       \* polls of the movement in progress, 0 when none is
  ctrl,        \* the static chassis_ctrl_t both publishers share
  run_status,  \* whether the chassis executes nothing, a speed or a position
  target,      \* the position it was last sent to
  pos,         \* its present position
  fl,          \* where the follow_line thread is
  homed,       \* drv_stepper_motor has left its homing loop
  (* history, not in the program *)
  cargo,       \* an object hangs on the suction cup
  act,         \* the action in progress, or the last one completed
  slip,        \* a movement of that action timed out
  reported,    \* color_type was read from a letter in the latest take
  putOnce      \* a put has been completed

mission == <<pc, this_table, index, take_cnt, suction>>
colours == <<color, color_flag, color_type>>
chassis == <<run_status, target, pos>>
motion  == <<moves, polls, ctrl, chassis>>
history == <<cargo, act, slip, reported, putOnce>>
vars == <<rbmg_mode, mission, colours, motion, fl, homed, history>>

-----------------------------------------------------------------------------
(* Path tables: PathFinder.c and the tables of robotmanager.c.             *)

Tables ==
  [init |-> <<"FORWARD", "FORWARD", "END", "END">>,
   put  |-> <<"RIGHT", "END", "END">>,
   take |-> <<"RIGHT", "END", "END">>,
   back |-> <<"LEFT", "END", "END">>]

TableNames == {"init", "put", "take", "back"}

Path_get_next_dir == Tables[this_table][index[this_table] + 1]
Path_table_init(t) == [index EXCEPT ![t] = 0]

-----------------------------------------------------------------------------
(* Movements: what take_action, put_action and turn_actions ask for.       *)

At(x, y, z) == [x |-> x, y |-> y, z |-> z]
Still == At(0, 0, 0)
Plus(p, d) == At(p.x + d.x, p.y + d.y, p.z + d.z)

LeftCells  == {2, 5, 8}
RightCells == {3, 6, 9}

Ahead(n) == IF n > 6 THEN 385 ELSE IF n > 3 THEN 185 ELSE 0

TakeOut(n) ==
  << At(0, Ahead(n), 0) >> \o
  CASE n \in LeftCells  -> << At(0, -60, 0), At(182, 0, 0), At(0, 68, 0) >>
    [] n \in RightCells -> << At(0, -45, 0), At(-215, 0, 0), At(0, 43, 0) >>
    [] OTHER -> << Still >>

\* Mutated form: the way back from a cell repeats the way out.
TakeBack_SameSide(n) ==
  << At(IF n \in LeftCells THEN 182 ELSE -215, 0, 0), At(0, -300, 0) >>

TakeBack(n) ==
  (CASE n \in LeftCells  -> << At(-182, 0, 0) >>
     [] n \in RightCells -> << At(215, 0, 0) >>
     [] OTHER -> << >>) \o
  (IF n > 6 THEN << At(0, -400, 0) >>
   ELSE IF n > 3 THEN << At(0, -200, 0) >> ELSE << >>) \o
  << At(0, -300, 0) >>

Aside(c) == CASE c = "RED" -> 600 [] c = "YELLOW" -> -600 [] OTHER -> 0
Reach(c) == IF c \in {"RED", "BLUE", "YELLOW"} THEN 180 ELSE 0

PutOut(c) == << At(Aside(c), 0, 0), At(0, Reach(c), 0) >>

PutBack(c) == << At(0, -Reach(c), 0), At(-Aside(c), 0, 0), At(0, 0, 2) >>

DeltaAngle(dir) ==
  CASE dir = "RIGHT" -> -1 [] dir = "LEFT" -> 1 [] dir = "BACKWARD" -> 2 [] OTHER -> 0

Turn(dir) == << At(0, 90, 0), At(0, 0, DeltaAngle(dir)) >>

\* A speed written into the union of chassis_ctrl_t and read as a position:
\* a place no action computed.
SpeedAsPos == At(-9999, -9999, -9999)

ColorOf(l) ==
  CASE l = "r" -> "RED" [] l = "y" -> "YELLOW" [] l = "b" -> "BLUE" [] OTHER -> "NONE"

-----------------------------------------------------------------------------
Init ==
  /\ rbmg_mode = "CAB" /\ pc = "cab_delay"
  /\ this_table = "init" /\ index = [t \in TableNames |-> 0]
  /\ take_cnt = 1 /\ suction = FALSE
  /\ color = "other" /\ color_flag = FALSE /\ color_type = "RED"
  /\ moves = << >> /\ polls = 0
  /\ ctrl = [type |-> 0, tgt |-> Still]
  /\ run_status = "IDLE" /\ target = Still /\ pos = Still
  /\ fl = "sample" /\ homed = FALSE
  /\ cargo = FALSE /\ act = "none" /\ slip = FALSE
  /\ reported = FALSE /\ putOnce = FALSE

-----------------------------------------------------------------------------
(* rbmg_handle in CAB_MODE: wait eight seconds, raise the arm, then spin   *)
(* until a start letter came or rbmg_mode is LINE_MODE.  The loop after it *)
(* ends at its first test, because nothing leaves LINE_MODE in between.    *)

CabDelay ==
  /\ pc = "cab_delay"
  /\ pc' = "cab_poll"
  /\ UNCHANGED <<rbmg_mode, this_table, index, take_cnt, suction, colours, motion,
                 fl, homed, history>>

CabPoll ==
  /\ pc = "cab_poll"
  /\ color_flag
  /\ pc' = "cab_clear"
  /\ rbmg_mode' = IF color = "r" THEN "LINE" ELSE rbmg_mode
  /\ UNCHANGED <<this_table, index, take_cnt, suction, colours, motion, fl, homed,
                 cargo, act, slip, reported, putOnce>>

CabClear ==
  /\ pc = "cab_clear"
  /\ color_flag' = FALSE
  /\ pc' = IF rbmg_mode = "LINE" THEN "loop" ELSE "cab_poll"
  /\ UNCHANGED <<rbmg_mode, this_table, index, take_cnt, suction, color, color_type,
                 motion, fl, homed, history>>

CabLeave ==
  /\ pc = "cab_poll"
  /\ ~color_flag
  /\ rbmg_mode = "LINE"
  /\ pc' = "loop"
  /\ UNCHANGED <<rbmg_mode, this_table, index, take_cnt, suction, colours, motion,
                 fl, homed, history>>

-----------------------------------------------------------------------------
(* action_relative_movement_car                                            *)

\* Mutated form: a position does not end the speed control.
Publish_KeepsStatus(c) ==
  /\ ctrl' = c
  /\ run_status' = IF c.type = 0 THEN "SPEED" ELSE run_status
  /\ target' = IF c.type = 0 THEN target ELSE c.tgt

\* abus_public on the chassis topic: chassis_sub_callback runs at once.
Publish(c) ==
  /\ ctrl' = c
  /\ run_status' = IF c.type = 0 THEN "SPEED" ELSE "POS"
  /\ target' = IF c.type = 0 THEN target ELSE c.tgt

\* Start the first of the movements of a plan: its target is computed from the
\* present position and published; a null movement is reached at once.
Launch(from, plan) ==
  /\ Publish([type |-> 1, tgt |-> Plus(from, Head(plan))])
  /\ IF Head(plan) = Still
       THEN moves' = Tail(plan) /\ polls' = 0
       ELSE moves' = plan /\ polls' = 1

MoveStart ==
  /\ moves # << >> /\ polls = 0
  /\ Launch(pos, moves)
  /\ UNCHANGED <<rbmg_mode, mission, colours, pos, fl, homed, history>>

\* chassis_pos_clean makes the present position the commanded one.  Positions are
\* planned ones: the code accepts an error below 0.01 m and 0.1 rad, here it is 0.
MoveReached ==
  /\ polls \in 1 .. MaxPolls
  /\ pos = ctrl.tgt
  /\ pos' = target
  /\ polls' = 0 /\ moves' = Tail(moves)
  /\ UNCHANGED <<rbmg_mode, mission, colours, ctrl, run_status, target, fl, homed,
                 history>>

\* Mutated form: the counter of the polls is not advanced.
MovePoll_NoCount ==
  /\ polls \in 1 .. MaxPolls
  /\ pos # ctrl.tgt
  /\ Publish([ctrl EXCEPT !.type = 1])
  /\ UNCHANGED <<rbmg_mode, mission, colours, moves, polls, pos, fl, homed, history>>

MovePoll ==
  /\ polls \in 1 .. MaxPolls
  /\ pos # ctrl.tgt
  /\ Publish([ctrl EXCEPT !.type = 1])
  /\ polls' = polls + 1
  /\ UNCHANGED <<rbmg_mode, mission, colours, moves, pos, fl, homed, history>>

MoveTimeout ==
  /\ polls > MaxPolls
  /\ polls' = 0 /\ moves' = Tail(moves)
  /\ slip' = TRUE
  /\ UNCHANGED <<rbmg_mode, mission, colours, ctrl, chassis, fl, homed,
                 cargo, act, reported, putOnce>>

-----------------------------------------------------------------------------
(* rbmg_handle in ACTION_MODE: take the next direction from the table and  *)
(* run turn_actions.                                                       *)

\* The manager wakes in ACTION_MODE and has an entry of its table to obey.
Called == pc = "loop" /\ rbmg_mode = "ACTION"

\* What every action begins with: one table entry is consumed and the first
\* movement started; positions are counted from here.
Begin(kind, phase, plan) ==
  /\ index' = [index EXCEPT ![this_table] = @ + 1]
  /\ pc' = phase
  /\ Launch(Still, plan) /\ pos' = Still
  /\ act' = kind /\ slip' = FALSE
  /\ UNCHANGED <<rbmg_mode, this_table, take_cnt, colours, fl, homed,
                 cargo, reported, putOnce>>

BeginTurn ==
  /\ Called /\ Path_get_next_dir # "END"
  /\ Begin("turn", "turn", Turn(Path_get_next_dir))
  /\ UNCHANGED suction

BeginTake ==
  /\ Called /\ Path_get_next_dir = "END" /\ this_table \in {"init", "take"}
  /\ Begin("take", "take_out", TakeOut(take_cnt))
  /\ suction' = TRUE

BeginPut ==
  /\ Called /\ Path_get_next_dir = "END" /\ this_table = "put"
  /\ Begin("put", "put_sort", << Still >>)
  /\ UNCHANGED suction

BeginBack ==
  /\ Called /\ Path_get_next_dir = "END" /\ this_table = "back"
  /\ Begin("back", "back", << At(0, 400, 0) >>)
  /\ UNCHANGED suction

\* The movements of phase p are all made.
Done(p) == pc = p /\ moves = << >>

TurnEnd ==
  /\ Done("turn")
  /\ rbmg_mode' = "LINE" /\ pc' = "loop"
  /\ UNCHANGED <<this_table, index, take_cnt, suction, colours, motion, fl, homed,
                 history>>

-----------------------------------------------------------------------------
(* take_action *)

\* Latch the colour if a letter came, and lower the cup on the object.
TakeLatch ==
  /\ Done("take_out")
  /\ color_type' = IF color_flag THEN ColorOf(color) ELSE color_type
  /\ suction' = TRUE /\ cargo' = TRUE /\ reported' = color_flag
  /\ pc' = "take_pick"
  /\ UNCHANGED <<rbmg_mode, this_table, index, take_cnt, color, color_flag, motion,
                 fl, homed, act, slip, putOnce>>

TakeLift ==
  /\ Done("take_pick")
  /\ moves' = TakeBack(take_cnt)
  /\ pc' = "take_back"
  /\ UNCHANGED <<rbmg_mode, this_table, index, take_cnt, suction, colours, polls,
                 ctrl, chassis, fl, homed, history>>

\* Mutated form: the put table is not rewound.
TakeEnd_NoRewind ==
  /\ Done("take_back")
  /\ take_cnt' = take_cnt + 1
  /\ rbmg_mode' = "LINE" /\ this_table' = "put" /\ pc' = "loop"
  /\ UNCHANGED <<index, suction, colours, motion, fl, homed, history>>

\* Mutated form: the manager keeps walking the table it was on.
TakeEnd_KeepsTable ==
  /\ Done("take_back")
  /\ take_cnt' = take_cnt + 1
  /\ index' = Path_table_init(this_table)
  /\ rbmg_mode' = "LINE" /\ pc' = "loop"
  /\ UNCHANGED <<this_table, suction, colours, motion, fl, homed, history>>

TakeEnd ==
  /\ Done("take_back")
  /\ take_cnt' = take_cnt + 1
  /\ index' = Path_table_init("put") /\ this_table' = "put"
  /\ rbmg_mode' = "LINE" /\ pc' = "loop"
  /\ UNCHANGED <<suction, colours, motion, fl, homed, history>>

-----------------------------------------------------------------------------
(* put_action *)

\* Mutated form: the pump is switched off before the robot stands at the bin.
PutSort_OffFirst ==
  /\ Done("put_sort")
  /\ moves' = PutOut(color_type)
  /\ pc' = "put_out" /\ suction' = FALSE
  /\ UNCHANGED <<rbmg_mode, this_table, index, take_cnt, colours, polls,
                 ctrl, chassis, fl, homed, history>>

PutSort ==
  /\ Done("put_sort")
  /\ moves' = PutOut(color_type)
  /\ pc' = "put_out"
  /\ UNCHANGED <<rbmg_mode, this_table, index, take_cnt, suction, colours, polls,
                 ctrl, chassis, fl, homed, history>>

PutDrop ==
  /\ Done("put_out")
  /\ suction' = FALSE /\ cargo' = FALSE
  /\ pc' = "put_drop"
  /\ UNCHANGED <<rbmg_mode, this_table, index, take_cnt, colours, motion, fl, homed,
                 act, slip, reported, putOnce>>

PutReturn ==
  /\ Done("put_drop")
  /\ moves' = PutBack(color_type)
  /\ pc' = "put_back"
  /\ UNCHANGED <<rbmg_mode, this_table, index, take_cnt, suction, colours, polls,
                 ctrl, chassis, fl, homed, history>>

\* PutEnd with the number of objects to fetch and the colour left behind as
\* parameters, for the mutated forms below it.
PutEndWith(objects, colour) ==
  /\ Done("put_back")
  /\ color_type' = colour /\ color_flag' = FALSE
  /\ index' = Path_table_init("take")
  /\ this_table' = IF take_cnt < objects + 1 THEN "take" ELSE "back"
  /\ rbmg_mode' = "LINE" /\ pc' = "loop"
  /\ putOnce' = TRUE
  /\ UNCHANGED <<take_cnt, suction, color, motion, fl, homed,
                 cargo, act, slip, reported>>

\* Mutated forms: one object too few, one too many, the colour not reset.
PutEnd_Eight == PutEndWith(8, "IDLE")
PutEnd_Ten == PutEndWith(10, "IDLE")
PutEnd_KeepsColour == PutEndWith(9, color_type)

PutEnd == PutEndWith(9, "IDLE")

\* The branch of the back table ends in an endless loop that only logs.
\* Mutated form: the manager hands the robot back to the line.
BackEnd_ToLine ==
  /\ Done("back")
  /\ index' = Path_table_init("back") /\ this_table' = "put"
  /\ pc' = "over" /\ rbmg_mode' = "LINE"
  /\ UNCHANGED <<take_cnt, suction, colours, motion, fl, homed, history>>

BackEnd ==
  /\ Done("back")
  /\ index' = Path_table_init("back") /\ this_table' = "put"
  /\ pc' = "over"
  /\ UNCHANGED <<rbmg_mode, take_cnt, suction, colours, motion, fl, homed, history>>

Rbmg ==
  \/ CabDelay \/ CabPoll \/ CabClear \/ CabLeave
  \/ MoveStart \/ MoveReached \/ MovePoll \/ MoveTimeout
  \/ BeginTurn \/ BeginTake \/ BeginPut \/ BeginBack \/ TurnEnd
  \/ TakeLatch \/ TakeLift \/ TakeEnd
  \/ PutSort \/ PutDrop \/ PutReturn \/ PutEnd \/ BackEnd

-----------------------------------------------------------------------------
(* The threads below rbmg_handle: they run unless it spins.                *)

Yields == pc \notin {"cab_poll", "cab_clear"}

\* follow_line takes a sample; at a special point it publishes it, and
\* rbmg_special_point_callback hands the robot to the action.
FollowSample(special) ==
  /\ Yields /\ fl = "sample"
  /\ rbmg_mode' = IF special /\ rbmg_mode # "CAB" THEN "ACTION" ELSE rbmg_mode
  /\ fl' = "error"
  /\ UNCHANGED <<mission, colours, motion, homed, history>>

\* rbmg_error_callback tests the mode ...
\* Mutated form: the callback is active in every mode but CAB_MODE.
FollowTest_AnyMode ==
  /\ Yields /\ fl = "error"
  /\ fl' = IF rbmg_mode # "CAB" THEN "send" ELSE "sample"
  /\ UNCHANGED <<rbmg_mode, mission, colours, motion, homed, history>>

FollowTest ==
  /\ Yields /\ fl = "error"
  /\ fl' = IF rbmg_mode = "LINE" THEN "send" ELSE "sample"
  /\ UNCHANGED <<rbmg_mode, mission, colours, motion, homed, history>>

\* ... and publishes a speed through the ctrl it shares with the actions.
FollowSend ==
  /\ Yields /\ fl = "send"
  /\ Publish([type |-> 0, tgt |-> SpeedAsPos])
  /\ fl' = "sample"
  /\ UNCHANGED <<rbmg_mode, mission, colours, moves, polls, pos, homed, history>>

\* The chassis thread brings the robot to a commanded position.
ChassisArrives ==
  /\ Yields /\ run_status = "POS" /\ pos # target
  /\ pos' = target
  /\ UNCHANGED <<rbmg_mode, mission, colours, moves, polls, ctrl, run_status,
                 target, fl, homed, history>>

\* drv_stepper_motor leaves its homing loop and writes LINE_MODE.
StepperHome ==
  /\ Yields /\ ~homed /\ rbmg_mode \in HomesDuring
  /\ homed' = TRUE
  /\ rbmg_mode' = "LINE"
  /\ UNCHANGED <<mission, colours, motion, fl, history>>

\* uart_rx_ind, an interrupt: possible at any time.
\* Mutated form: the interrupt sets the colour itself.
ColorLetter_SetsType(l) ==
  /\ color' = l /\ color_flag' = TRUE /\ color_type' = ColorOf(l)
  /\ UNCHANGED <<rbmg_mode, mission, motion, fl, homed, history>>

ColorLetter(l) ==
  /\ color' = l /\ color_flag' = TRUE
  /\ UNCHANGED <<rbmg_mode, mission, color_type, motion, fl, homed, history>>

Others ==
  \/ \E special \in BOOLEAN : FollowSample(special)
  \/ FollowTest \/ FollowSend \/ ChassisArrives \/ StepperHome
  \/ \E l \in Letters : ColorLetter(l)

Next == Rbmg \/ Others

Spec == Init /\ [][Next]_vars

-----------------------------------------------------------------------------
(* Properties *)

Phases ==
  {"cab_delay", "cab_poll", "cab_clear", "loop", "turn", "take_out", "take_pick",
   "take_back", "put_sort", "put_out", "put_drop", "put_back", "back", "over"}
Bins == {"RED", "BLUE", "YELLOW"}
Position == [x : Int, y : Int, z : Int]
\* rbmg_handle is inside turn_actions.
Acting == pc \notin {"cab_delay", "cab_poll", "cab_clear", "loop", "over"}

\* Every variable keeps its type; take_cnt stays a uint8_t and an index stays
\* within one past the entries of its table.
TypeOK ==
  /\ rbmg_mode \in Modes /\ pc \in Phases
  /\ this_table \in TableNames /\ index \in [TableNames -> 0 .. 4]
  /\ take_cnt \in 1 .. 10 /\ suction \in BOOLEAN
  /\ color \in AllLetters /\ color_flag \in BOOLEAN
  /\ color_type \in Bins \cup {"NONE", "IDLE"}
  /\ moves \in Seq(Position) /\ polls \in 0 .. MaxPolls + 1
  /\ ctrl \in [type : {0, 1}, tgt : Position]
  /\ run_status \in {"IDLE", "SPEED", "POS"} /\ target \in Position /\ pos \in Position
  /\ fl \in {"sample", "error", "send"} /\ homed \in BOOLEAN
  /\ cargo \in BOOLEAN /\ slip \in BOOLEAN /\ reported \in BOOLEAN
  /\ act \in {"none", "turn", "take", "put", "back"}
  /\ putOnce \in BOOLEAN

\* Path_get_next_dir never reads past the end of a table: whenever the manager
\* may consume an entry there is one, although the function itself does not
\* look, and although tables are rewound only in some branches.
PathInBounds ==
  pc = "loop" => index[this_table] < Len(Tables[this_table])

\* From the pick to the drop the suction pump is powered: no path of
\* take_action, put_action or a turn between them lets the cargo fall.
CargoHeld == cargo => suction

\* Between actions the robot carries an object exactly when it walks the put
\* table: it never drives to the bins empty or to the cells loaded.
LoadedMeansPut == pc = "loop" => (cargo <=> this_table = "put")

\* The robot starts home only after the ninth object, and never before.
HomeAfterNine == this_table = "back" \/ pc = "over" => take_cnt = 10

\* After the first round a coloured bin receives an object only if a letter
\* arrived between the previous put and its pick: put_action resets both the
\* colour and the flag.
BinHasReport == putOnce /\ cargo /\ color_type \in Bins => reported

\* An action without timeouts ends on the line: put_action undoes its own
\* movements up to the half turn, take_action ends 300 mm behind the cell
\* line within 17 mm and with no sideways offset.
BackOnLine ==
  pc = "loop" /\ ~slip =>
    /\ act = "take" => pos.x = 0 /\ pos.y \in -317 .. -292 /\ pos.z = 0
    /\ act = "put"  => pos = At(0, 0, 2)

\* While an action moves the robot, the shared ctrl and the chassis hold the
\* action's own target: no line-following speed gets in between.
ActionOwnsChassis ==
  Acting /\ polls > 0 =>
    ctrl.type = 1 /\ run_status = "POS" /\ target = ctrl.tgt

\* No two threads publish chassis commands at the same time: while follow_line
\* is about to publish a speed, rbmg_handle neither is in an action nor begins
\* one.  The bus needs this (see Abus).
OnePublisher == fl = "send" => ~Acting /\ ~Called

\* When the mission is over the robot stands still for ever.
StandsAtEnd == pc = "over" => run_status = "POS"

\* The colour is latched once: while an object is carried no letter, whenever it
\* arrives, changes the bin the object goes to.
ColourLatchedOnce == [][cargo /\ cargo' => color_type' = color_type]_vars

\* The mission comes to its end: the robot picks nine objects and returns.
MissionEnds == <>(pc = "over")

-----------------------------------------------------------------------------
\* Fairness.  rbmg_handle and follow_line are scheduled.  A robot on the line
\* meets a special point.  The Raspberry Pi keeps sending its start letter,
\* and one of them is not overwritten before the spinning loop reads it.
Fairness ==
  /\ WF_vars(Rbmg)
  /\ WF_vars(FollowTest \/ FollowSend)
  /\ SF_vars(rbmg_mode = "LINE" /\ FollowSample(TRUE))
  /\ SF_vars(pc = "cab_poll" /\ ColorLetter("r"))
  /\ SF_vars(color = "r" /\ CabPoll)

FairSpec == Spec /\ Fairness
=============================================================================
