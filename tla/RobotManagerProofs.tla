------------------------- MODULE RobotManagerProofs -------------------------
(***************************************************************************)
(* Proofs about RobotManager for every set of letters, every bound on the  *)
(* polls and every time of homing.  Three inductive invariants: MissionInv *)
(* relates the program counter to the path tables, the object counter, the *)
(* cargo and the colour; OwnerInv relates it to the mode and the chassis;  *)
(* LineInv says where the movements of each phase lead.                    *)
(***************************************************************************)
EXTENDS RobotManager, SequenceTheorems, TLAPS

Cab == {"cab_delay", "cab_poll", "cab_clear"}
TakePhases == {"take_out", "take_pick", "take_back"}
PutPhases == {"put_sort", "put_out", "put_drop", "put_back"}

\* Number of directions before the first END of a table.
Turns(t) == IF t = "init" THEN 2 ELSE 1

\* Which table an action belongs to.
TableInv ==
  /\ pc \in Cab => this_table = "init"
  /\ pc \in TakePhases => this_table \in {"init", "take"}
  /\ pc \in PutPhases \cup {"over"} => this_table = "put"
  /\ pc = "back" => this_table = "back"

\* How far a table has been walked.
IndexInv ==
  /\ pc \in Cab \cup {"loop", "turn"} => index[this_table] <= Turns(this_table)
  /\ this_table # "back" => index["back"] = 0

\* How many objects have been taken.
CountInv ==
  /\ this_table \in {"init", "take"} => take_cnt <= 9
  /\ this_table = "back" \/ pc = "over" => take_cnt = 10

\* When an object hangs on the cup.
CargoInv ==
  /\ cargo => suction
  /\ pc \in {"loop", "turn"} => (cargo <=> this_table = "put")
  /\ pc \in {"take_pick", "take_back", "put_sort", "put_out"} => cargo
  /\ pc \in Cab \cup {"take_out", "put_drop", "put_back", "back", "over"} => ~cargo

\* Where the colour of the object comes from.
ColourInv ==
  /\ putOnce /\ ~cargo /\ pc \notin {"put_drop", "put_back"} => color_type = "IDLE"
  /\ putOnce /\ cargo /\ color_type \in Bins => reported

\* Movements are made by actions only.
MoveInv ==
  /\ polls > 0 => moves # << >>
  /\ moves # << >> => Acting

MissionInv ==
  TypeOK /\ TableInv /\ IndexInv /\ CountInv /\ CargoInv /\ ColourInv /\ MoveInv

\* Who drives the chassis.
OwnerInv ==
  /\ Acting \/ pc = "over" =>
       rbmg_mode = "ACTION" /\ run_status = "POS" /\ ctrl.type = 1
  /\ Acting => target = ctrl.tgt
  /\ fl = "send" => rbmg_mode = "LINE"

-----------------------------------------------------------------------------
(* The operators *)

\* A table of the manager holds its directions, then END, and is longer than both.
LEMMA TableShape ==
  ASSUME NEW t \in TableNames, NEW i \in 0 .. Turns(t)
  PROVE  /\ i < Len(Tables[t])
         /\ Tables[t][i + 1] = "END" <=> i = Turns(t)
<1>1. CASE t = "init"
  <2>1. i = 0 \/ i = 1 \/ i = 2
    BY <1>1 DEF Turns
  <2> QED
    BY <1>1, <2>1 DEF Turns, Tables
<1>2. CASE t \in {"put", "take", "back"}
  <2>1. i = 0 \/ i = 1
    BY <1>2 DEF Turns
  <2> QED
    BY <1>2, <2>1 DEF Turns, Tables
<1> QED
  BY <1>1, <1>2 DEF TableNames

\* Sums of positions are positions.
LEMMA PlusType ==
  ASSUME NEW p \in Position, NEW d \in Position
  PROVE  Plus(p, d) \in Position
BY DEF Plus, At, Position

\* Every plan is a non-empty sequence of positions.
LEMMA PlanTypes ==
  ASSUME NEW n \in 1 .. 10, NEW c, NEW dir
  PROVE  /\ TakeOut(n) \in Seq(Position) /\ TakeOut(n) # << >>
         /\ TakeBack(n) \in Seq(Position)
         /\ PutOut(c) \in Seq(Position) /\ PutBack(c) \in Seq(Position)
         /\ Turn(dir) \in Seq(Position) /\ Turn(dir) # << >>
<1>1. /\ Ahead(n) \in Int /\ Aside(c) \in Int /\ Reach(c) \in Int
      /\ DeltaAngle(dir) \in Int
  BY DEF Ahead, Aside, Reach, DeltaAngle
<1>2. \A x, y, z \in Int : At(x, y, z) \in Position
  BY DEF At, Position
<1>3. TakeOut(n) \in Seq(Position) /\ TakeOut(n) # << >>
  <2> DEFINE side == CASE n \in LeftCells  -> << At(0, -60, 0), At(182, 0, 0), At(0, 68, 0) >>
                       [] n \in RightCells -> << At(0, -45, 0), At(-215, 0, 0), At(0, 43, 0) >>
                       [] OTHER -> << Still >>
  <2>1. side \in Seq(Position)
    <3>1. CASE n \in LeftCells
      <4>1. n \notin RightCells
        BY <3>1 DEF LeftCells, RightCells
      <4>2. side = << At(0, -60, 0), At(182, 0, 0), At(0, 68, 0) >>
        BY <3>1, <4>1
      <4>3. << At(0, -60, 0), At(182, 0, 0), At(0, 68, 0) >> \in Seq(Position)
        BY <1>2
      <4> QED
        BY <4>2, <4>3
    <3>2. CASE n \in RightCells
      <4>1. n \notin LeftCells
        BY <3>2 DEF LeftCells, RightCells
      <4>2. side = << At(0, -45, 0), At(-215, 0, 0), At(0, 43, 0) >>
        BY <3>2, <4>1
      <4>3. << At(0, -45, 0), At(-215, 0, 0), At(0, 43, 0) >> \in Seq(Position)
        BY <1>2
      <4> QED
        BY <4>2, <4>3
    <3>3. CASE n \notin LeftCells /\ n \notin RightCells
      <4>1. side = << Still >>
        BY <3>3
      <4>2. << Still >> \in Seq(Position)
        BY <1>2 DEF Still
      <4> QED
        BY <4>1, <4>2
    <3> QED
      BY <3>1, <3>2, <3>3
  <2>2. << At(0, Ahead(n), 0) >> \in Seq(Position)
    BY <1>1, <1>2
  <2>3. TakeOut(n) = << At(0, Ahead(n), 0) >> \o side
    BY DEF TakeOut
  <2> HIDE DEF side
  <2> QED
    BY <2>1, <2>2, <2>3
<1>4. TakeBack(n) \in Seq(Position)
  <2> DEFINE side == CASE n \in LeftCells  -> << At(-182, 0, 0) >>
                       [] n \in RightCells -> << At(215, 0, 0) >>
                       [] OTHER -> << >>
             back == IF n > 6 THEN << At(0, -400, 0) >>
                     ELSE IF n > 3 THEN << At(0, -200, 0) >> ELSE << >>
  <2>1. side \in Seq(Position)
    <3>1. CASE n \in LeftCells
      <4>1. n \notin RightCells
        BY <3>1 DEF LeftCells, RightCells
      <4>2. side = << At(-182, 0, 0) >>
        BY <3>1, <4>1
      <4>3. << At(-182, 0, 0) >> \in Seq(Position)
        BY <1>2
      <4> QED
        BY <4>2, <4>3
    <3>2. CASE n \in RightCells
      <4>1. n \notin LeftCells
        BY <3>2 DEF LeftCells, RightCells
      <4>2. side = << At(215, 0, 0) >>
        BY <3>2, <4>1
      <4>3. << At(215, 0, 0) >> \in Seq(Position)
        BY <1>2
      <4> QED
        BY <4>2, <4>3
    <3>3. CASE n \notin LeftCells /\ n \notin RightCells
      BY <1>2, <3>3
    <3> QED
      BY <3>1, <3>2, <3>3
  <2>2. back \in Seq(Position) /\ << At(0, -300, 0) >> \in Seq(Position)
    BY <1>2
  <2>3. TakeBack(n) = side \o back \o << At(0, -300, 0) >>
    BY DEF TakeBack
  <2> HIDE DEF side, back
  <2> QED
    BY <2>1, <2>2, <2>3
<1>5. PutOut(c) \in Seq(Position) /\ PutBack(c) \in Seq(Position)
  BY <1>1, <1>2 DEF PutOut, PutBack
<1>6. Turn(dir) \in Seq(Position) /\ Turn(dir) # << >>
  BY <1>1, <1>2 DEF Turn
<1> QED
  BY <1>3, <1>4, <1>5, <1>6

-----------------------------------------------------------------------------
(* The mission *)

\* What starting a movement leaves behind.
LEMMA LaunchEffect ==
  ASSUME TypeOK, NEW from \in Position, NEW plan \in Seq(Position), plan # << >>,
         Launch(from, plan)
  PROVE  /\ ctrl' \in [type : {0, 1}, tgt : Position] /\ ctrl'.type = 1
         /\ run_status' = "POS" /\ target' = ctrl'.tgt
         /\ moves' \in Seq(Position) /\ polls' \in 0 .. MaxPolls + 1
         /\ polls' > 0 => moves' # << >>
<1>1. Head(plan) \in Position /\ Tail(plan) \in Seq(Position)
  OBVIOUS
<1>2. Plus(from, Head(plan)) \in Position
  BY <1>1, PlusType
<1>3. ctrl' = [type |-> 1, tgt |-> Plus(from, Head(plan))]
  BY DEF Launch, Publish
<1>4. run_status' = "POS" /\ target' = ctrl'.tgt
  BY <1>3 DEF Launch, Publish
<1>5. (moves' = Tail(plan) /\ polls' = 0) \/ (moves' = plan /\ polls' = 1)
  BY DEF Launch
<1> QED
  BY <1>1, <1>2, <1>3, <1>4, <1>5, MaxPollsAssumption

\* The initial state.
LEMMA MissionInit == Init => MissionInv /\ OwnerInv
<1> SUFFICES ASSUME Init PROVE MissionInv /\ OwnerInv
  OBVIOUS
<1>1. TypeOK
  <2>1. Still \in Position
    BY DEF Still, At, Position
  <2>2. ctrl \in [type : {0, 1}, tgt : Position] /\ moves \in Seq(Position)
    BY <2>1 DEF Init
  <2>3. index \in [TableNames -> 0 .. 4]
    BY DEF Init
  <2>4. polls \in 0 .. MaxPolls + 1
    BY MaxPollsAssumption DEF Init
  <2>5. rbmg_mode \in Modes /\ pc \in Phases /\ this_table \in TableNames
    BY DEF Init, Modes, Phases, TableNames
  <2>6. color \in AllLetters /\ color_type \in Bins \cup {"NONE", "IDLE"}
    BY DEF Init, AllLetters, Bins
  <2>7. /\ suction \in BOOLEAN /\ color_flag \in BOOLEAN /\ homed \in BOOLEAN
        /\ cargo \in BOOLEAN /\ slip \in BOOLEAN /\ reported \in BOOLEAN
        /\ putOnce \in BOOLEAN
    BY DEF Init
  <2> QED
    BY <2>1, <2>2, <2>3, <2>4, <2>5, <2>6, <2>7 DEF Init, TypeOK
<1>2. TableInv /\ IndexInv /\ CountInv /\ CargoInv /\ ColourInv /\ MoveInv
  BY DEF Init, TableInv, IndexInv, CountInv, CargoInv, ColourInv, MoveInv, Cab,
         TakePhases, PutPhases, Turns, TableNames, Bins
<1>3. OwnerInv
  BY DEF Init, OwnerInv, Acting
<1> QED
  BY <1>1, <1>2, <1>3 DEF MissionInv


\* Every step of the manager and of what surrounds it keeps the invariant.
LEMMA MissionStep == MissionInv /\ [Next]_vars => MissionInv'
<1> SUFFICES ASSUME MissionInv, [Next]_vars PROVE MissionInv'
  OBVIOUS
<1> USE DEF MissionInv
<1>0. TypeOK /\ TableInv /\ IndexInv /\ CountInv /\ CargoInv /\ ColourInv /\ MoveInv
  OBVIOUS
<1>1. CASE CabDelay
  <2>1. TypeOK'
    BY <1>1, <1>0
    DEF TypeOK, Modes, Phases, TableNames, AllLetters, Bins, CabDelay, mission,
        colours, motion, chassis, history
  <2>2. TableInv' /\ IndexInv' /\ CountInv' /\ CargoInv' /\ ColourInv' /\ MoveInv'
    BY <1>1, <1>0
    DEF TypeOK, TableInv, IndexInv, CountInv, CargoInv, ColourInv, MoveInv,
       Cab, TakePhases, PutPhases, Turns, Bins, Acting, TableNames, CabDelay, mission,
       colours, motion, chassis, history
  <2> QED
    BY <2>1, <2>2
<1>2. CASE CabPoll
  <2>1. TypeOK'
    BY <1>2, <1>0
    DEF TypeOK, Modes, Phases, TableNames, AllLetters, Bins, CabPoll, mission,
        colours, motion, chassis, history
  <2>2. TableInv' /\ IndexInv' /\ CountInv' /\ CargoInv' /\ ColourInv' /\ MoveInv'
    BY <1>2, <1>0
    DEF TypeOK, TableInv, IndexInv, CountInv, CargoInv, ColourInv, MoveInv,
       Cab, TakePhases, PutPhases, Turns, Bins, Acting, TableNames, CabPoll, mission,
       colours, motion, chassis, history
  <2> QED
    BY <2>1, <2>2
<1>3. CASE CabClear
  <2>1. TypeOK'
    <3>1. pc' \in Phases /\ color_flag' \in BOOLEAN
      BY <1>3, <1>0 DEF TypeOK, Modes, Phases, TableNames, CabClear
    <3> QED
      BY <1>3, <1>0, <3>1
      DEF TypeOK, CabClear, mission, colours, motion, chassis, history
  <2>2. TableInv' /\ IndexInv' /\ CountInv' /\ CargoInv' /\ ColourInv' /\ MoveInv'
    BY <1>3, <1>0
    DEF TypeOK, TableInv, IndexInv, CountInv, CargoInv, ColourInv, MoveInv,
       Cab, TakePhases, PutPhases, Turns, Bins, Acting, TableNames, CabClear, mission,
       colours, motion, chassis, history
  <2> QED
    BY <2>1, <2>2
<1>4. CASE CabLeave
  <2>1. TypeOK'
    BY <1>4, <1>0
    DEF TypeOK, Modes, Phases, TableNames, AllLetters, Bins, CabLeave, mission,
        colours, motion, chassis, history
  <2>2. TableInv' /\ IndexInv' /\ CountInv' /\ CargoInv' /\ ColourInv' /\ MoveInv'
    BY <1>4, <1>0
    DEF TypeOK, TableInv, IndexInv, CountInv, CargoInv, ColourInv, MoveInv,
       Cab, TakePhases, PutPhases, Turns, Bins, Acting, TableNames, CabLeave, mission,
       colours, motion, chassis, history
  <2> QED
    BY <2>1, <2>2
<1>5. CASE MoveStart
  <2>1. moves \in Seq(Position) /\ moves # << >> /\ pos \in Position
    BY <1>5, <1>0 DEF TypeOK, MoveStart
  <2>2. Launch(pos, moves)
    BY <1>5 DEF MoveStart
  <2>3. /\ ctrl' \in [type : {0, 1}, tgt : Position] /\ run_status' = "POS"
        /\ target' = ctrl'.tgt /\ moves' \in Seq(Position)
        /\ polls' \in 0 .. MaxPolls + 1 /\ (polls' > 0 => moves' # << >>)
    BY <1>0, <2>1, <2>2, LaunchEffect
  <2>4. UNCHANGED <<rbmg_mode, mission, colours, pos, fl, homed, history>>
    BY <1>5 DEF MoveStart
  <2>5. TypeOK'
    BY <1>0, <2>3, <2>4 DEF TypeOK, mission, colours, history
  <2>6. TableInv' /\ IndexInv' /\ CountInv' /\ CargoInv' /\ ColourInv' /\ MoveInv'
    BY <1>0, <2>1, <2>3, <2>4 DEF TableInv, IndexInv, CountInv, CargoInv, ColourInv,
       MoveInv, Acting, Turns, mission, colours, history
  <2> QED
    BY <2>5, <2>6
<1>6. CASE MoveReached
  <2>1. moves # << >> /\ Tail(moves) \in Seq(Position)
    BY <1>6, <1>0, MaxPollsAssumption DEF TypeOK, MoveInv, MoveReached
  <2>2. TypeOK'
    BY <1>6, <1>0, <2>1, MaxPollsAssumption
    DEF TypeOK, MoveReached, mission, colours, motion, chassis, history
  <2>3. TableInv' /\ IndexInv' /\ CountInv' /\ CargoInv' /\ ColourInv' /\ MoveInv'
    BY <1>6, <1>0, <2>1, MaxPollsAssumption
    DEF TypeOK, TableInv, IndexInv, CountInv, CargoInv, ColourInv, MoveInv,
       Acting, Turns, MoveReached, mission, colours, motion, chassis, history
  <2> QED
    BY <2>2, <2>3
<1>7. CASE MovePoll
  <2>1. moves # << >> /\ Tail(moves) \in Seq(Position)
    BY <1>7, <1>0, MaxPollsAssumption DEF TypeOK, MoveInv, MovePoll
  <2>2. TypeOK'
    BY <1>7, <1>0, <2>1, MaxPollsAssumption
    DEF TypeOK, MovePoll, mission, colours, motion, chassis, history, Publish
  <2>3. TableInv' /\ IndexInv' /\ CountInv' /\ CargoInv' /\ ColourInv' /\ MoveInv'
    BY <1>7, <1>0, <2>1, MaxPollsAssumption
    DEF TypeOK, TableInv, IndexInv, CountInv, CargoInv, ColourInv, MoveInv,
       Acting, Turns, MovePoll, mission, colours, motion, chassis, history, Publish
  <2> QED
    BY <2>2, <2>3
<1>8. CASE MoveTimeout
  <2>1. moves # << >> /\ Tail(moves) \in Seq(Position)
    BY <1>8, <1>0, MaxPollsAssumption DEF TypeOK, MoveInv, MoveTimeout
  <2>2. TypeOK'
    BY <1>8, <1>0, <2>1, MaxPollsAssumption
    DEF TypeOK, MoveTimeout, mission, colours, motion, chassis, history
  <2>3. TableInv' /\ IndexInv' /\ CountInv' /\ CargoInv' /\ ColourInv' /\ MoveInv'
    BY <1>8, <1>0, <2>1, MaxPollsAssumption
    DEF TypeOK, TableInv, IndexInv, CountInv, CargoInv, ColourInv, MoveInv,
       Acting, Turns, MoveTimeout, mission, colours, motion, chassis, history
  <2> QED
    BY <2>2, <2>3
<1>9. CASE BeginTurn
  <2>1. pc = "loop" /\ index[this_table] \in 0 .. Turns(this_table) /\ this_table \in TableNames
    BY <1>9, <1>0 DEF TypeOK, IndexInv, BeginTurn, Called, Turns
  <2>2. Begin("turn", "turn", Turn(Path_get_next_dir))
    BY <1>9 DEF BeginTurn
  <2>3. /\ Turn(Path_get_next_dir) \in Seq(Position) /\ Turn(Path_get_next_dir) # << >>
        /\ Still \in Position
    <3>1. Still \in Position
      BY DEF Still, At, Position
    <3> QED
      BY <1>0, <3>1, PlanTypes DEF TypeOK
  <2>4. /\ ctrl' \in [type : {0, 1}, tgt : Position] /\ run_status' = "POS"
        /\ target' = ctrl'.tgt /\ moves' \in Seq(Position)
        /\ polls' \in 0 .. MaxPolls + 1 /\ (polls' > 0 => moves' # << >>)
    <3>1. Launch(Still, Turn(Path_get_next_dir))
      BY <2>2 DEF Begin
    <3> DEFINE plan == Turn(Path_get_next_dir)
    <3>2. Launch(Still, plan) /\ plan \in Seq(Position) /\ plan # << >>
      BY <2>3, <3>1
    <3> HIDE DEF plan
    <3> QED
      BY <1>0, <2>3, <3>2, LaunchEffect
  <2>5. index[this_table] < Turns(this_table)
    <3>1. Tables[this_table][index[this_table] + 1] = "END"
            <=> index[this_table] = Turns(this_table)
      BY <2>1, TableShape
    <3> QED
      BY <1>9, <2>1, <3>1 DEF BeginTurn, Path_get_next_dir, Turns
  <2>6. index' = [index EXCEPT ![this_table] = index[this_table] + 1]
    BY <2>2 DEF Begin
  <2>7. TypeOK'
    <3>1. index' \in [TableNames -> 0 .. 4]
      BY <1>0, <2>1, <2>6 DEF TypeOK, Turns
    <3>2. pc' \in Phases /\ pos' \in Position
      BY <2>2, <2>3 DEF Begin, Phases
    <3> QED
      BY <1>9, <1>0, <2>2, <2>4, <3>1, <3>2 DEF TypeOK, Begin, BeginTurn, colours
  <2>8. TableInv' /\ IndexInv' /\ CountInv' /\ CargoInv' /\ ColourInv' /\ MoveInv'
    BY <1>9, <1>0, <2>1, <2>2, <2>4, <2>5, <2>6
    DEF TypeOK, TableInv, IndexInv, CountInv, CargoInv, ColourInv, MoveInv,
        Cab, TakePhases, PutPhases, Turns, Bins, Acting, TableNames, Begin, BeginTurn,
        colours
  <2> QED
    BY <2>7, <2>8
<1>10. CASE BeginTake
  <2>1. pc = "loop" /\ index[this_table] \in 0 .. Turns(this_table) /\ this_table \in TableNames
    BY <1>10, <1>0 DEF TypeOK, IndexInv, BeginTake, Called, Turns
  <2>2. Begin("take", "take_out", TakeOut(take_cnt))
    BY <1>10 DEF BeginTake
  <2>3. TakeOut(take_cnt) \in Seq(Position) /\ TakeOut(take_cnt) # << >> /\ Still \in Position
    <3>1. Still \in Position
      BY DEF Still, At, Position
    <3> QED
      BY <1>0, <3>1, PlanTypes DEF TypeOK
  <2>4. /\ ctrl' \in [type : {0, 1}, tgt : Position] /\ run_status' = "POS"
        /\ target' = ctrl'.tgt /\ moves' \in Seq(Position)
        /\ polls' \in 0 .. MaxPolls + 1 /\ (polls' > 0 => moves' # << >>)
    <3>1. Launch(Still, TakeOut(take_cnt))
      BY <2>2 DEF Begin
    <3> DEFINE plan == TakeOut(take_cnt)
    <3>2. Launch(Still, plan) /\ plan \in Seq(Position) /\ plan # << >>
      BY <2>3, <3>1
    <3> HIDE DEF plan
    <3> QED
      BY <1>0, <2>3, <3>2, LaunchEffect
  <2>5. index[this_table] = Turns(this_table)
    <3>1. Tables[this_table][index[this_table] + 1] = "END"
            <=> index[this_table] = Turns(this_table)
      BY <2>1, TableShape
    <3> QED
      BY <1>10, <2>1, <3>1 DEF BeginTake, Path_get_next_dir, Turns
  <2>6. index' = [index EXCEPT ![this_table] = index[this_table] + 1]
    BY <2>2 DEF Begin
  <2>7. TypeOK'
    <3>1. index' \in [TableNames -> 0 .. 4]
      BY <1>0, <2>1, <2>6 DEF TypeOK, Turns
    <3>2. pc' \in Phases /\ pos' \in Position
      BY <2>2, <2>3 DEF Begin, Phases
    <3> QED
      BY <1>10, <1>0, <2>2, <2>4, <3>1, <3>2 DEF TypeOK, Begin, BeginTake, colours
  <2>8. TableInv' /\ IndexInv' /\ CountInv' /\ CargoInv' /\ ColourInv' /\ MoveInv'
    BY <1>10, <1>0, <2>1, <2>2, <2>4, <2>5, <2>6
    DEF TypeOK, TableInv, IndexInv, CountInv, CargoInv, ColourInv, MoveInv,
        Cab, TakePhases, PutPhases, Turns, Bins, Acting, TableNames, Begin, BeginTake,
        colours
  <2> QED
    BY <2>7, <2>8
<1>11. CASE BeginPut
  <2>1. pc = "loop" /\ index[this_table] \in 0 .. Turns(this_table) /\ this_table \in TableNames
    BY <1>11, <1>0 DEF TypeOK, IndexInv, BeginPut, Called, Turns
  <2>2. Begin("put", "put_sort", << Still >>)
    BY <1>11 DEF BeginPut
  <2>3. << Still >> \in Seq(Position) /\ << Still >> # << >> /\ Still \in Position
    BY DEF Still, At, Position
  <2>4. /\ ctrl' \in [type : {0, 1}, tgt : Position] /\ run_status' = "POS"
        /\ target' = ctrl'.tgt /\ moves' \in Seq(Position)
        /\ polls' \in 0 .. MaxPolls + 1 /\ (polls' > 0 => moves' # << >>)
    <3>1. Launch(Still, << Still >>)
      BY <2>2 DEF Begin
    <3> DEFINE plan == << Still >>
    <3>2. Launch(Still, plan) /\ plan \in Seq(Position) /\ plan # << >>
      BY <2>3, <3>1
    <3> HIDE DEF plan
    <3> QED
      BY <1>0, <2>3, <3>2, LaunchEffect
  <2>5. index[this_table] = Turns(this_table)
    <3>1. Tables[this_table][index[this_table] + 1] = "END"
            <=> index[this_table] = Turns(this_table)
      BY <2>1, TableShape
    <3> QED
      BY <1>11, <2>1, <3>1 DEF BeginPut, Path_get_next_dir, Turns
  <2>6. index' = [index EXCEPT ![this_table] = index[this_table] + 1]
    BY <2>2 DEF Begin
  <2>7. TypeOK'
    <3>1. index' \in [TableNames -> 0 .. 4]
      BY <1>0, <2>1, <2>6 DEF TypeOK, Turns
    <3>2. pc' \in Phases /\ pos' \in Position
      BY <2>2, <2>3 DEF Begin, Phases
    <3> QED
      BY <1>11, <1>0, <2>2, <2>4, <3>1, <3>2 DEF TypeOK, Begin, BeginPut, colours
  <2>8. TableInv' /\ IndexInv' /\ CountInv' /\ CargoInv' /\ ColourInv' /\ MoveInv'
    BY <1>11, <1>0, <2>1, <2>2, <2>4, <2>5, <2>6
    DEF TypeOK, TableInv, IndexInv, CountInv, CargoInv, ColourInv, MoveInv,
        Cab, TakePhases, PutPhases, Turns, Bins, Acting, TableNames, Begin, BeginPut,
        colours
  <2> QED
    BY <2>7, <2>8
<1>12. CASE BeginBack
  <2>1. pc = "loop" /\ index[this_table] \in 0 .. Turns(this_table) /\ this_table \in TableNames
    BY <1>12, <1>0 DEF TypeOK, IndexInv, BeginBack, Called, Turns
  <2>2. Begin("back", "back", << At(0, 400, 0) >>)
    BY <1>12 DEF BeginBack
  <2>3. /\ << At(0, 400, 0) >> \in Seq(Position) /\ << At(0, 400, 0) >> # << >>
        /\ Still \in Position
    BY DEF Still, At, Position
  <2>4. /\ ctrl' \in [type : {0, 1}, tgt : Position] /\ run_status' = "POS"
        /\ target' = ctrl'.tgt /\ moves' \in Seq(Position)
        /\ polls' \in 0 .. MaxPolls + 1 /\ (polls' > 0 => moves' # << >>)
    <3>1. Launch(Still, << At(0, 400, 0) >>)
      BY <2>2 DEF Begin
    <3> DEFINE plan == << At(0, 400, 0) >>
    <3>2. Launch(Still, plan) /\ plan \in Seq(Position) /\ plan # << >>
      BY <2>3, <3>1
    <3> HIDE DEF plan
    <3> QED
      BY <1>0, <2>3, <3>2, LaunchEffect
  <2>5. index[this_table] = Turns(this_table)
    <3>1. Tables[this_table][index[this_table] + 1] = "END"
            <=> index[this_table] = Turns(this_table)
      BY <2>1, TableShape
    <3> QED
      BY <1>12, <2>1, <3>1 DEF BeginBack, Path_get_next_dir, Turns
  <2>6. index' = [index EXCEPT ![this_table] = index[this_table] + 1]
    BY <2>2 DEF Begin
  <2>7. TypeOK'
    <3>1. index' \in [TableNames -> 0 .. 4]
      BY <1>0, <2>1, <2>6 DEF TypeOK, Turns
    <3>2. pc' \in Phases /\ pos' \in Position
      BY <2>2, <2>3 DEF Begin, Phases
    <3> QED
      BY <1>12, <1>0, <2>2, <2>4, <3>1, <3>2 DEF TypeOK, Begin, BeginBack, colours
  <2>8. TableInv' /\ IndexInv' /\ CountInv' /\ CargoInv' /\ ColourInv' /\ MoveInv'
    BY <1>12, <1>0, <2>1, <2>2, <2>4, <2>5, <2>6
    DEF TypeOK, TableInv, IndexInv, CountInv, CargoInv, ColourInv, MoveInv,
        Cab, TakePhases, PutPhases, Turns, Bins, Acting, TableNames, Begin, BeginBack,
        colours
  <2> QED
    BY <2>7, <2>8
<1>13. CASE TurnEnd
  <2>1. TypeOK'
    BY <1>13, <1>0
    DEF TypeOK, Modes, Phases, TableNames, AllLetters, Bins, TurnEnd, Done, mission,
        colours, motion, chassis, history
  <2>2. TableInv' /\ IndexInv' /\ CountInv' /\ CargoInv' /\ ColourInv' /\ MoveInv'
    BY <1>13, <1>0
    DEF TypeOK, TableInv, IndexInv, CountInv, CargoInv, ColourInv, MoveInv,
       Cab, TakePhases, PutPhases, Turns, Bins, Acting, TableNames, TurnEnd, Done,
       mission, colours, motion, chassis, history
  <2> QED
    BY <2>1, <2>2
<1>14. CASE TakeLatch
  <2>1. TypeOK'
    BY <1>14, <1>0
    DEF TypeOK, Modes, Phases, TableNames, AllLetters, Bins, TakeLatch, Done, ColorOf,
        mission, colours, motion, chassis, history
  <2>2. TableInv' /\ IndexInv' /\ CountInv' /\ CargoInv' /\ ColourInv' /\ MoveInv'
    BY <1>14, <1>0
    DEF TypeOK, TableInv, IndexInv, CountInv, CargoInv, ColourInv, MoveInv,
       Cab, TakePhases, PutPhases, Turns, Bins, Acting, TableNames, TakeLatch, Done,
       ColorOf, mission, colours, motion, chassis, history
  <2> QED
    BY <2>1, <2>2
<1>15. CASE TakeLift
  <2>1. TakeBack(take_cnt) \in Seq(Position)
    BY <1>0, PlanTypes DEF TypeOK
  <2>2. TypeOK'
    BY <1>15, <1>0, <2>1 DEF TypeOK, TakeLift, Done, Phases, colours, chassis, history
  <2>3. TableInv' /\ IndexInv' /\ CountInv' /\ CargoInv' /\ ColourInv' /\ MoveInv'
    BY <1>15, <1>0
    DEF TypeOK, TableInv, IndexInv, CountInv, CargoInv, ColourInv, MoveInv,
       Cab, TakePhases, PutPhases, Turns, Bins, Acting, TableNames, TakeLift, Done,
       colours, chassis, history
  <2> QED
    BY <2>2, <2>3
<1>16. CASE TakeEnd
  <2>1. TypeOK'
    <3>1. take_cnt' \in 1 .. 10
      BY <1>16, <1>0
      DEF TypeOK, Modes, Phases, TableNames, TakeEnd, Done, Path_table_init, TableInv,
          CountInv, TakePhases
    <3>2. index' \in [TableNames -> 0 .. 4]
      BY <1>16, <1>0
      DEF TypeOK, Modes, Phases, TableNames, TakeEnd, Done, Path_table_init, TableInv,
          CountInv, TakePhases
    <3>3. pc' \in Phases /\ rbmg_mode' \in Modes /\ this_table' \in TableNames
      BY <1>16, <1>0
      DEF TypeOK, Modes, Phases, TableNames, TakeEnd, Done, Path_table_init, TableInv,
          CountInv, TakePhases
    <3> QED
      BY <1>16, <1>0, <3>1, <3>2, <3>3
      DEF TypeOK, TakeEnd, Done, Path_table_init, mission, colours, motion, chassis,
          history
  <2>2. TableInv' /\ IndexInv' /\ CountInv' /\ CargoInv' /\ ColourInv' /\ MoveInv'
    BY <1>16, <1>0
    DEF TypeOK, TableInv, IndexInv, CountInv, CargoInv, ColourInv, MoveInv,
       Cab, TakePhases, PutPhases, Turns, Bins, Acting, TableNames, TakeEnd, Done,
       Path_table_init, mission, colours, motion, chassis, history
  <2> QED
    BY <2>1, <2>2
<1>17. CASE PutSort
  <2>1. PutOut(color_type) \in Seq(Position)
    BY <1>0, PlanTypes DEF TypeOK
  <2>2. TypeOK'
    BY <1>17, <1>0, <2>1 DEF TypeOK, PutSort, Done, Phases, colours, chassis, history
  <2>3. TableInv' /\ IndexInv' /\ CountInv' /\ CargoInv' /\ ColourInv' /\ MoveInv'
    BY <1>17, <1>0
    DEF TypeOK, TableInv, IndexInv, CountInv, CargoInv, ColourInv, MoveInv,
       Cab, TakePhases, PutPhases, Turns, Bins, Acting, TableNames, PutSort, Done,
       colours, chassis, history
  <2> QED
    BY <2>2, <2>3
<1>18. CASE PutDrop
  <2>1. TypeOK'
    <3>1. pc' \in Phases
      BY <1>18, <1>0 DEF TypeOK, Modes, Phases, TableNames, PutDrop, Done
    <3>2. suction' \in BOOLEAN /\ cargo' \in BOOLEAN
      BY <1>18, <1>0 DEF TypeOK, Modes, Phases, TableNames, PutDrop, Done
    <3> QED
      BY <1>18, <1>0, <3>1, <3>2
      DEF TypeOK, PutDrop, Done, mission, colours, motion, chassis, history
  <2>2. TableInv' /\ IndexInv' /\ CountInv' /\ CargoInv' /\ ColourInv' /\ MoveInv'
    BY <1>18, <1>0
    DEF TypeOK, TableInv, IndexInv, CountInv, CargoInv, ColourInv, MoveInv,
       Cab, TakePhases, PutPhases, Turns, Bins, Acting, TableNames, PutDrop, Done,
       mission, colours, motion, chassis, history
  <2> QED
    BY <2>1, <2>2
<1>19. CASE PutReturn
  <2>1. PutBack(color_type) \in Seq(Position)
    BY <1>0, PlanTypes DEF TypeOK
  <2>2. TypeOK'
    BY <1>19, <1>0, <2>1 DEF TypeOK, PutReturn, Done, Phases, colours, chassis, history
  <2>3. TableInv' /\ IndexInv' /\ CountInv' /\ CargoInv' /\ ColourInv' /\ MoveInv'
    BY <1>19, <1>0
    DEF TypeOK, TableInv, IndexInv, CountInv, CargoInv, ColourInv, MoveInv,
       Cab, TakePhases, PutPhases, Turns, Bins, Acting, TableNames, PutReturn, Done,
       colours, chassis, history
  <2> QED
    BY <2>2, <2>3
<1>20. CASE PutEnd
  <2>1. TypeOK'
    <3>1. index' \in [TableNames -> 0 .. 4]
      BY <1>20, <1>0
      DEF TypeOK, Modes, Phases, TableNames, PutEnd, PutEndWith, Done, Path_table_init
    <3>2. pc' \in Phases /\ rbmg_mode' \in Modes
      BY <1>20, <1>0
      DEF TypeOK, Modes, Phases, TableNames, PutEnd, PutEndWith, Done, Path_table_init
    <3>3. this_table' \in TableNames
      BY <1>20, <1>0
      DEF TypeOK, Modes, Phases, TableNames, PutEnd, PutEndWith, Done, Path_table_init
    <3>4. color_type' \in Bins \cup {"NONE", "IDLE"}
      BY <1>20, <1>0
      DEF TypeOK, Modes, Phases, TableNames, PutEnd, PutEndWith, Done, Path_table_init
    <3>5. color_flag' \in BOOLEAN /\ putOnce' \in BOOLEAN
      BY <1>20, <1>0
      DEF TypeOK, Modes, Phases, TableNames, PutEnd, PutEndWith, Done, Path_table_init
    <3> QED
      BY <1>20, <1>0, <3>1, <3>2, <3>3, <3>4, <3>5
      DEF TypeOK, PutEnd, PutEndWith, Done, Path_table_init, mission, colours, motion,
          chassis, history
  <2>2. TableInv' /\ IndexInv' /\ CountInv' /\ CargoInv' /\ ColourInv' /\ MoveInv'
    BY <1>20, <1>0
    DEF TypeOK, TableInv, IndexInv, CountInv, CargoInv, ColourInv, MoveInv,
       Cab, TakePhases, PutPhases, Turns, Bins, Acting, TableNames, PutEnd,
       PutEndWith, Done, Path_table_init, mission, colours, motion, chassis, history
  <2> QED
    BY <2>1, <2>2
<1>21. CASE BackEnd
  <2>1. TypeOK'
    <3>1. index' \in [TableNames -> 0 .. 4]
      BY <1>21, <1>0
      DEF TypeOK, Modes, Phases, TableNames, BackEnd, Done, Path_table_init
    <3>2. pc' \in Phases /\ this_table' \in TableNames
      BY <1>21, <1>0
      DEF TypeOK, Modes, Phases, TableNames, BackEnd, Done, Path_table_init
    <3> QED
      BY <1>21, <1>0, <3>1, <3>2
      DEF TypeOK, BackEnd, Done, Path_table_init, mission, colours, motion, chassis,
          history
  <2>2. TableInv' /\ IndexInv' /\ CountInv' /\ CargoInv' /\ ColourInv' /\ MoveInv'
    BY <1>21, <1>0
    DEF TypeOK, TableInv, IndexInv, CountInv, CargoInv, ColourInv, MoveInv,
       Cab, TakePhases, PutPhases, Turns, Bins, Acting, TableNames, BackEnd, Done,
       Path_table_init, mission, colours, motion, chassis, history
  <2> QED
    BY <2>1, <2>2
<1>22. CASE \E special \in BOOLEAN : FollowSample(special)
  <2>1. TypeOK'
    BY <1>22, <1>0
    DEF TypeOK, Modes, FollowSample, mission, colours, motion, chassis, history
  <2>2. TableInv' /\ IndexInv' /\ CountInv' /\ CargoInv' /\ ColourInv' /\ MoveInv'
    BY <1>22, <1>0
    DEF TableInv, IndexInv, CountInv, CargoInv, ColourInv, MoveInv, Acting,
       Turns, FollowSample, mission, colours, motion, history
  <2> QED
    BY <2>1, <2>2
<1>23. CASE FollowTest
  <2>1. TypeOK'
    BY <1>23, <1>0
    DEF TypeOK, Modes, FollowTest, mission, colours, motion, chassis, history
  <2>2. TableInv' /\ IndexInv' /\ CountInv' /\ CargoInv' /\ ColourInv' /\ MoveInv'
    BY <1>23, <1>0
    DEF TableInv, IndexInv, CountInv, CargoInv, ColourInv, MoveInv, Acting,
       Turns, FollowTest, mission, colours, motion, history
  <2> QED
    BY <2>1, <2>2
<1>24. CASE FollowSend
  <2>1. TypeOK'
    BY <1>24, <1>0
    DEF TypeOK, Modes, FollowSend, mission, colours, motion, chassis, history,
        Publish, SpeedAsPos, At, Position
  <2>2. TableInv' /\ IndexInv' /\ CountInv' /\ CargoInv' /\ ColourInv' /\ MoveInv'
    BY <1>24, <1>0
    DEF TableInv, IndexInv, CountInv, CargoInv, ColourInv, MoveInv, Acting,
       Turns, FollowSend, mission, colours, motion, history
  <2> QED
    BY <2>1, <2>2
<1>25. CASE ChassisArrives
  <2>1. TypeOK'
    BY <1>25, <1>0
    DEF TypeOK, Modes, ChassisArrives, mission, colours, motion, chassis, history
  <2>2. TableInv' /\ IndexInv' /\ CountInv' /\ CargoInv' /\ ColourInv' /\ MoveInv'
    BY <1>25, <1>0
    DEF TableInv, IndexInv, CountInv, CargoInv, ColourInv, MoveInv, Acting,
       Turns, ChassisArrives, mission, colours, motion, history
  <2> QED
    BY <2>1, <2>2
<1>26. CASE StepperHome
  <2>1. TypeOK'
    BY <1>26, <1>0
    DEF TypeOK, Modes, StepperHome, mission, colours, motion, chassis, history
  <2>2. TableInv' /\ IndexInv' /\ CountInv' /\ CargoInv' /\ ColourInv' /\ MoveInv'
    BY <1>26, <1>0
    DEF TableInv, IndexInv, CountInv, CargoInv, ColourInv, MoveInv, Acting,
       Turns, StepperHome, mission, colours, motion, history
  <2> QED
    BY <2>1, <2>2
<1>27. CASE \E l \in Letters : ColorLetter(l)
  <2>1. TypeOK'
    BY <1>27, <1>0, LettersAssumption
    DEF TypeOK, ColorLetter, mission, motion, chassis, history
  <2>2. TableInv' /\ IndexInv' /\ CountInv' /\ CargoInv' /\ ColourInv' /\ MoveInv'
    BY <1>27, <1>0
    DEF TableInv, IndexInv, CountInv, CargoInv, ColourInv, MoveInv, Acting,
       Turns, ColorLetter, mission, motion, history
  <2> QED
    BY <2>1, <2>2
<1>28. CASE UNCHANGED vars
  <2>1. TypeOK'
    BY <1>28, <1>0 DEF TypeOK, vars, mission, colours, motion, chassis, history
  <2>2. TableInv' /\ IndexInv' /\ CountInv' /\ CargoInv' /\ ColourInv' /\ MoveInv'
    BY <1>28, <1>0
    DEF TableInv, IndexInv, CountInv, CargoInv, ColourInv, MoveInv, Acting,
       Turns, vars, mission, colours, motion, history
  <2> QED
    BY <2>1, <2>2
<1> QED
  BY <1>1, <1>2, <1>3, <1>4, <1>5, <1>6, <1>7, <1>8, <1>9, <1>10, <1>11,
     <1>12, <1>13, <1>14, <1>15, <1>16, <1>17, <1>18, <1>19, <1>20, <1>21,
     <1>22, <1>23, <1>24, <1>25, <1>26, <1>27, <1>28 DEF Next, Rbmg, Others

-----------------------------------------------------------------------------
(* The chassis *)

\* As long as the arm does not reach its home position during an action, every
\* step leaves the chassis to the one who drives it.
LEMMA OwnerStep ==
  ASSUME "ACTION" \notin HomesDuring
  PROVE  MissionInv /\ OwnerInv /\ [Next]_vars => OwnerInv'
<1> SUFFICES ASSUME MissionInv, OwnerInv, [Next]_vars PROVE OwnerInv'
  OBVIOUS
<1>0. TypeOK /\ MoveInv
  BY DEF MissionInv
<1>1. CASE CabDelay
  BY <1>1, <1>0
  DEF OwnerInv, Acting, CabDelay, mission, colours, motion, chassis, history
<1>2. CASE CabPoll
  BY <1>2, <1>0
  DEF OwnerInv, Acting, CabPoll, mission, colours, motion, chassis, history
<1>3. CASE CabClear
  BY <1>3, <1>0
  DEF OwnerInv, Acting, CabClear, mission, colours, motion, chassis, history
<1>4. CASE CabLeave
  BY <1>4, <1>0
  DEF OwnerInv, Acting, CabLeave, mission, colours, motion, chassis, history
<1>5. CASE MoveStart
  <2>1. ctrl'.type = 1 /\ run_status' = "POS" /\ target' = ctrl'.tgt
    BY <1>5 DEF MoveStart, Launch, Publish
  <2>2. UNCHANGED <<rbmg_mode, pc, fl>>
    BY <1>5 DEF MoveStart, mission
  <2> QED
    BY <2>1, <2>2 DEF OwnerInv, Acting
<1>6. CASE MoveReached
  BY <1>6, <1>0
  DEF OwnerInv, Acting, MoveReached, mission, colours, motion, chassis, history
<1>7. CASE MovePoll
  <2>1. ctrl'.type = 1 /\ run_status' = "POS" /\ target' = ctrl'.tgt
    BY <1>7, <1>0 DEF TypeOK, MovePoll, Publish
  <2>2. UNCHANGED <<rbmg_mode, pc, fl>>
    BY <1>7 DEF MovePoll, mission
  <2> QED
    BY <2>1, <2>2 DEF OwnerInv, Acting
<1>8. CASE MoveTimeout
  BY <1>8, <1>0
  DEF OwnerInv, Acting, MoveTimeout, mission, colours, motion, chassis, history
<1>9. CASE BeginTurn
  <2>1. pc = "loop" /\ rbmg_mode = "ACTION" /\ Begin("turn", "turn", Turn(Path_get_next_dir))
    BY <1>9 DEF BeginTurn, Called
  <2>2. ctrl'.type = 1 /\ run_status' = "POS" /\ target' = ctrl'.tgt
    BY <2>1 DEF Begin, Launch, Publish
  <2>3. pc' = "turn" /\ rbmg_mode' = rbmg_mode /\ fl' = fl
    BY <2>1 DEF Begin
  <2> QED
    BY <2>1, <2>2, <2>3 DEF OwnerInv, Acting
<1>10. CASE BeginTake
  <2>1. pc = "loop" /\ rbmg_mode = "ACTION" /\ Begin("take", "take_out", TakeOut(take_cnt))
    BY <1>10 DEF BeginTake, Called
  <2>2. ctrl'.type = 1 /\ run_status' = "POS" /\ target' = ctrl'.tgt
    BY <2>1 DEF Begin, Launch, Publish
  <2>3. pc' = "take_out" /\ rbmg_mode' = rbmg_mode /\ fl' = fl
    BY <2>1 DEF Begin
  <2> QED
    BY <2>1, <2>2, <2>3 DEF OwnerInv, Acting
<1>11. CASE BeginPut
  <2>1. pc = "loop" /\ rbmg_mode = "ACTION" /\ Begin("put", "put_sort", << Still >>)
    BY <1>11 DEF BeginPut, Called
  <2>2. ctrl'.type = 1 /\ run_status' = "POS" /\ target' = ctrl'.tgt
    BY <2>1 DEF Begin, Launch, Publish
  <2>3. pc' = "put_sort" /\ rbmg_mode' = rbmg_mode /\ fl' = fl
    BY <2>1 DEF Begin
  <2> QED
    BY <2>1, <2>2, <2>3 DEF OwnerInv, Acting
<1>12. CASE BeginBack
  <2>1. pc = "loop" /\ rbmg_mode = "ACTION" /\ Begin("back", "back", << At(0, 400, 0) >>)
    BY <1>12 DEF BeginBack, Called
  <2>2. ctrl'.type = 1 /\ run_status' = "POS" /\ target' = ctrl'.tgt
    BY <2>1 DEF Begin, Launch, Publish
  <2>3. pc' = "back" /\ rbmg_mode' = rbmg_mode /\ fl' = fl
    BY <2>1 DEF Begin
  <2> QED
    BY <2>1, <2>2, <2>3 DEF OwnerInv, Acting
<1>13. CASE TurnEnd
  BY <1>13, <1>0
  DEF OwnerInv, Acting, Done, TurnEnd, mission, colours, motion, chassis, history
<1>14. CASE TakeLatch
  BY <1>14, <1>0
  DEF OwnerInv, Acting, Done, TakeLatch, mission, colours, motion, chassis, history
<1>15. CASE TakeLift
  BY <1>15, <1>0
  DEF OwnerInv, Acting, Done, TakeLift, mission, colours, motion, chassis, history
<1>16. CASE TakeEnd
  BY <1>16, <1>0
  DEF OwnerInv, Acting, Done, TakeEnd, mission, colours, motion, chassis, history
<1>17. CASE PutSort
  BY <1>17, <1>0
  DEF OwnerInv, Acting, Done, PutSort, mission, colours, motion, chassis, history
<1>18. CASE PutDrop
  BY <1>18, <1>0
  DEF OwnerInv, Acting, Done, PutDrop, mission, colours, motion, chassis, history
<1>19. CASE PutReturn
  BY <1>19, <1>0
  DEF OwnerInv, Acting, Done, PutReturn, mission, colours, motion, chassis, history
<1>20. CASE PutEnd
  BY <1>20, <1>0
  DEF OwnerInv, Acting, Done, PutEnd, PutEndWith, mission, colours, motion, chassis,
      history
<1>21. CASE BackEnd
  BY <1>21, <1>0
  DEF OwnerInv, Acting, Done, BackEnd, mission, colours, motion, chassis, history
<1>22. CASE \E special \in BOOLEAN : FollowSample(special)
  BY <1>22, <1>0
  DEF OwnerInv, Acting, FollowSample, mission, colours, motion, chassis, history
<1>23. CASE FollowTest
  BY <1>23, <1>0
  DEF OwnerInv, Acting, FollowTest, mission, colours, motion, chassis, history
<1>24. CASE FollowSend
  <2>1. rbmg_mode = "LINE" /\ rbmg_mode' = "LINE" /\ fl' = "sample" /\ pc' = pc
    BY <1>24 DEF OwnerInv, FollowSend, mission
  <2>2. ~ Acting /\ pc # "over"
    BY <2>1 DEF OwnerInv
  <2> QED
    BY <2>1, <2>2 DEF OwnerInv, Acting
<1>25. CASE ChassisArrives
  BY <1>25, <1>0
  DEF OwnerInv, Acting, ChassisArrives, mission, colours, motion, chassis, history
<1>26. CASE StepperHome
  <2>1. rbmg_mode # "ACTION" /\ rbmg_mode' = "LINE" /\ pc' = pc
    BY <1>26 DEF StepperHome, mission
  <2>2. ~ Acting /\ pc # "over"
    BY <2>1 DEF OwnerInv
  <2> QED
    BY <2>1, <2>2 DEF OwnerInv, Acting
<1>27. CASE \E l \in Letters : ColorLetter(l)
  BY <1>27, <1>0
  DEF OwnerInv, Acting, ColorLetter, mission, colours, motion, chassis, history
<1>28. CASE UNCHANGED vars
  BY <1>28, <1>0 DEF OwnerInv, Acting, vars, mission, colours, motion, chassis, history
<1> QED
  BY <1>1, <1>2, <1>3, <1>4, <1>5, <1>6, <1>7, <1>8, <1>9, <1>10, <1>11,
     <1>12, <1>13, <1>14, <1>15, <1>16, <1>17, <1>18, <1>19, <1>20, <1>21, <1>22, <1>23,
     <1>24, <1>25, <1>26, <1>27, <1>28
  DEF Next, Rbmg, Others

-----------------------------------------------------------------------------
(* The way of an action *)

\* The i-th of the movements still to be made.
Leg(m, i) == IF i <= Len(m) THEN m[i] ELSE Still

\* All of them together: no plan has more than four.
Rest(m) == Plus(Plus(Leg(m, 1), Leg(m, 2)), Plus(Leg(m, 3), Leg(m, 4)))

\* Where the phase will end if no movement times out.
Destination ==
  IF polls > 0 THEN Plus(ctrl.tgt, Rest(Tail(moves))) ELSE Plus(pos, Rest(moves))

\* Where the robot stands to pick from cell n, and to drop into the bin of c.
Cell(n) ==
  IF n \in LeftCells THEN At(182, Ahead(n) + 8, 0)
  ELSE IF n \in RightCells THEN At(-215, Ahead(n) - 2, 0)
  ELSE At(0, Ahead(n), 0)
Bin(c) == At(Aside(c), Reach(c), 0)

OnLine(p) == p.x = 0 /\ p.y \in -317 .. -292 /\ p.z = 0

\* Which action a phase belongs to.
ActInv ==
  /\ pc \in Cab => act = "none"
  /\ pc = "turn" => act = "turn"
  /\ pc \in TakePhases => act = "take"
  /\ pc \in PutPhases => act = "put"

\* Where each phase leads.
WayInv ==
  /\ pc \in {"take_out", "take_pick"} => Destination = Cell(take_cnt)
  /\ pc = "take_back" => OnLine(Destination)
  /\ pc = "put_sort" => Destination = Still
  /\ pc \in {"put_out", "put_drop"} => Destination = Bin(color_type)
  /\ pc = "put_back" => Destination = At(0, 0, 2)

\* Unless a movement has timed out, a robot that is not moving is where it was sent.
ArrivedInv == polls = 0 /\ run_status = "POS" => target = pos

LineInv ==
  /\ Len(moves) <= 4 /\ ActInv
  /\ ~slip => ArrivedInv /\ WayInv /\ BackOnLine

\* A null movement changes nothing.
LEMMA PlusStill ==
  ASSUME NEW p \in Position
  PROVE  Plus(p, Still) = p /\ Plus(Still, p) = p
BY DEF Plus, Still, At, Position

\* What is left of a way is a displacement.
LEMMA RestType ==
  ASSUME NEW m \in Seq(Position)
  PROVE  Rest(m) \in Position
<1>1. Still \in Position
  BY DEF Still, At, Position
<1>2. \A i \in 1 .. 4 : Leg(m, i) \in Position
  BY <1>1 DEF Leg
<1> QED
  BY <1>2, PlusType DEF Rest

\* Nothing is left of an empty plan.
LEMMA RestEmpty ==
  ASSUME NEW p \in Position
  PROVE  Plus(p, Rest(<< >>)) = p
<1>1. \A i \in 1 .. 4 : Leg(<< >>, i) = Still
  BY DEF Leg
<1>2. Still \in Position /\ Plus(Still, Still) = Still
  BY DEF Still, At, Position, Plus
<1>3. Rest(<< >>) = Still
  BY <1>1, <1>2 DEF Rest
<1> QED
  BY <1>3, PlusStill

\* Making the first movement leaves the rest of the way.
LEMMA RestTail ==
  ASSUME NEW m \in Seq(Position), m # << >>, Len(m) <= 4, NEW p \in Position
  PROVE  /\ Plus(Plus(p, Head(m)), Rest(Tail(m))) = Plus(p, Rest(m))
         /\ Tail(m) \in Seq(Position) /\ Len(Tail(m)) <= 4
<1>0. Len(m) \in Nat /\ Len(m) # 0
  OBVIOUS
<1>1. /\ Tail(m) \in Seq(Position) /\ Len(Tail(m)) = Len(m) - 1 /\ Len(m) \in 1 .. 4
      /\ \A i \in 1 .. Len(m) - 1 : Tail(m)[i] = m[i + 1]
  <2>0. \A k \in Nat : k # 0 /\ k <= 4 => k \in 1 .. 4
    OBVIOUS
  <2>1. Len(m) \in 1 .. 4
    BY <1>0, <2>0, Zenon
  <2>2. Tail(m) \in Seq(Position) /\ Len(Tail(m)) = Len(m) - 1
    BY HeadTailProperties, Zenon
  <2>3. \A i \in 1 .. Len(Tail(m)) : Tail(m)[i] = m[i + 1]
    BY HeadTailProperties, Zenon
  <2> QED
    BY <2>1, <2>2, <2>3
<1>2. Head(m) = Leg(m, 1)
  BY <1>1 DEF Leg
<1>3. /\ Leg(Tail(m), 1) = Leg(m, 2) /\ Leg(Tail(m), 2) = Leg(m, 3)
      /\ Leg(Tail(m), 3) = Leg(m, 4) /\ Leg(Tail(m), 4) = Still
  <2> DEFINE t == Tail(m)
  <2> HIDE DEF t
  <2>1. Len(t) = Len(m) - 1 /\ \A i \in 1 .. Len(m) - 1 : t[i] = m[i + 1]
    BY <1>1 DEF t
  <2> QED
    BY <1>1, <2>1 DEF Leg, t
<1>4. Still \in Position /\ \A i \in 1 .. 4 : Leg(m, i) \in Position
  <2>1. Still \in Position
    BY DEF Still, At, Position
  <2> QED
    BY <1>1, <2>1 DEF Leg
<1> DEFINE a == Leg(m, 1)
           b == Leg(m, 2)
           c == Leg(m, 3)
           d == Leg(m, 4)
<1>5. Rest(Tail(m)) = Plus(Plus(b, c), Plus(d, Still)) /\ Rest(m) = Plus(Plus(a, b), Plus(c, d))
  BY <1>3 DEF Rest
<1>6. a \in Position /\ b \in Position /\ c \in Position /\ d \in Position
  BY <1>4
<1> HIDE DEF a, b, c, d
<1>7. Plus(Plus(p, a), Plus(Plus(b, c), Plus(d, Still))) = Plus(p, Plus(Plus(a, b), Plus(c, d)))
  <2> DEFINE L(u, v, w, s, e) == (u + v) + ((w + s) + (e + 0))
             R(u, v, w, s, e) == u + ((v + w) + (s + e))
  <2>1. L(p.x, a.x, b.x, c.x, d.x) = R(p.x, a.x, b.x, c.x, d.x)
    <3> DEFINE u == p.x
               v == a.x
               w == b.x
               s == c.x
               e == d.x
    <3>1. u \in Int /\ v \in Int /\ w \in Int /\ s \in Int /\ e \in Int
      BY <1>6 DEF Position
    <3> HIDE DEF u, v, w, s, e
    <3>2. L(u, v, w, s, e) = R(u, v, w, s, e)
      BY <3>1
    <3> QED
      BY <3>2 DEF u, v, w, s, e
  <2>2. L(p.y, a.y, b.y, c.y, d.y) = R(p.y, a.y, b.y, c.y, d.y)
    <3> DEFINE u == p.y
               v == a.y
               w == b.y
               s == c.y
               e == d.y
    <3>1. u \in Int /\ v \in Int /\ w \in Int /\ s \in Int /\ e \in Int
      BY <1>6 DEF Position
    <3> HIDE DEF u, v, w, s, e
    <3>2. L(u, v, w, s, e) = R(u, v, w, s, e)
      BY <3>1
    <3> QED
      BY <3>2 DEF u, v, w, s, e
  <2>3. L(p.z, a.z, b.z, c.z, d.z) = R(p.z, a.z, b.z, c.z, d.z)
    <3> DEFINE u == p.z
               v == a.z
               w == b.z
               s == c.z
               e == d.z
    <3>1. u \in Int /\ v \in Int /\ w \in Int /\ s \in Int /\ e \in Int
      BY <1>6 DEF Position
    <3> HIDE DEF u, v, w, s, e
    <3>2. L(u, v, w, s, e) = R(u, v, w, s, e)
      BY <3>1
    <3> QED
      BY <3>2 DEF u, v, w, s, e
  <2> HIDE DEF L, R
  <2>4. Plus(Plus(p, a), Plus(Plus(b, c), Plus(d, Still)))
          = At(L(p.x, a.x, b.x, c.x, d.x), L(p.y, a.y, b.y, c.y, d.y), L(p.z, a.z, b.z, c.z, d.z))
    BY DEF Plus, Still, At, L
  <2>5. Plus(p, Plus(Plus(a, b), Plus(c, d)))
          = At(R(p.x, a.x, b.x, c.x, d.x), R(p.y, a.y, b.y, c.y, d.y), R(p.z, a.z, b.z, c.z, d.z))
    BY DEF Plus, At, R
  <2> QED
    BY <2>1, <2>2, <2>3, <2>4, <2>5, Zenon
<1> QED
  BY <1>1, <1>2, <1>5, <1>7 DEF a

\* Ways of two and of three movements, spelled out.
LEMMA TwoLegs ==
  \A a, b \in Position : Rest(<<a, b>>) = Plus(a, b) /\ Len(<<a, b>>) = 2
<1> TAKE a, b \in Position
<1>1. Plus(Still, Still) = Still /\ Plus(a, b) \in Position
  BY PlusType DEF Still, At, Plus
<1>2. Rest(<<a, b>>) = Plus(Plus(a, b), Plus(Still, Still)) /\ Len(<<a, b>>) = 2
  BY DEF Rest, Leg
<1> QED
  BY <1>1, <1>2, PlusStill

\* A way of three movements, spelled out.
LEMMA PutLegs ==
  \A a, b, c \in Position : Rest(<<a, b, c>>) = Plus(Plus(a, b), c) /\ Len(<<a, b, c>>) = 3
<1> TAKE a, b, c \in Position
<1>1. Rest(<<a, b, c>>) = Plus(Plus(a, b), Plus(c, Still)) /\ Len(<<a, b, c>>) = 3
  BY DEF Rest, Leg
<1> QED
  BY <1>1, PlusStill

\* A first movement and another one.
LEMMA Joined2 ==
  ASSUME NEW a \in Position, NEW b \in Position
  PROVE  <<a>> \o <<b>> = <<a, b>>
<1> DEFINE s == <<a>> \o <<b>>
           q == <<a, b>>
<1>0. <<a>> \in Seq(Position) /\ <<b>> \in Seq(Position)
  OBVIOUS
<1>1. /\ s \in Seq(Position) /\ Len(s) = Len(<<a>>) + Len(<<b>>)
      /\ \A i \in 1 .. Len(<<a>>) + Len(<<b>>) :
           s[i] = IF i <= Len(<<a>>) THEN <<a>>[i] ELSE <<b>>[i - Len(<<a>>)]
  BY <1>0, ConcatProperties, Zenon
<1> HIDE DEF s
<1>2. Len(s) = 2 /\ s[1] = a /\ s[2] = b
  BY <1>1
<1>3. q \in Seq(Position) /\ Len(s) = Len(q) /\ \A i \in 1 .. Len(s) : s[i] = q[i]
  BY <1>2
<1> HIDE DEF q
<1>4. s = q
  BY <1>1, <1>3, SeqEqual, Zenon
<1> QED
  BY <1>4 DEF s, q

\* A first movement and three others.
LEMMA Joined4 ==
  ASSUME NEW a \in Position, NEW b \in Position, NEW c \in Position, NEW d \in Position
  PROVE  <<a>> \o <<b, c, d>> = <<a, b, c, d>>
<1> DEFINE s == <<a>> \o <<b, c, d>>
           q == <<a, b, c, d>>
<1>0. <<a>> \in Seq(Position) /\ <<b, c, d>> \in Seq(Position)
  OBVIOUS
<1>1. /\ s \in Seq(Position) /\ Len(s) = Len(<<a>>) + Len(<<b, c, d>>)
      /\ \A i \in 1 .. Len(<<a>>) + Len(<<b, c, d>>) :
           s[i] = IF i <= Len(<<a>>) THEN <<a>>[i] ELSE <<b, c, d>>[i - Len(<<a>>)]
  BY <1>0, ConcatProperties, Zenon
<1> HIDE DEF s
<1>2. Len(s) = 4 /\ s[1] = a /\ s[2] = b /\ s[3] = c /\ s[4] = d
  BY <1>1
<1>3. q \in Seq(Position) /\ Len(s) = Len(q) /\ \A i \in 1 .. Len(s) : s[i] = q[i]
  BY <1>2
<1> HIDE DEF q
<1>4. s = q
  BY <1>1, <1>3, SeqEqual, Zenon
<1> QED
  BY <1>4 DEF s, q

\* The four movements of a way out to a cell on the side.
LEMMA FourLegs ==
  \A a, b, c, d \in Position :
    /\ Rest(<<a>> \o <<b, c, d>>) = Plus(Plus(a, b), Plus(c, d))
    /\ Len(<<a>> \o <<b, c, d>>) = 4
<1> TAKE a, b, c, d \in Position
<1>1. <<a>> \o <<b, c, d>> = <<a, b, c, d>>
  BY Joined4
<1>2. Rest(<<a, b, c, d>>) = Plus(Plus(a, b), Plus(c, d))
  BY DEF Rest, Leg
<1>3. Len(<<a, b, c, d>>) = 4
  OBVIOUS
<1> QED
  BY <1>1, <1>2, <1>3, Zenon

\* The way out of take_action leads to the cell, and has a first movement.
LEMMA TakeOutWay ==
  ASSUME NEW n \in 1 .. 10
  PROVE  Rest(TakeOut(n)) = Cell(n) /\ Len(TakeOut(n)) <= 4
<1> DEFINE a == At(0, Ahead(n), 0)
<1>1. Ahead(n) \in Int
  BY DEF Ahead
<1>2. \A x, y, z \in Int : At(x, y, z) \in Position
  BY DEF At, Position
<1>3. a \in Position /\ Still \in Position
  BY <1>1, <1>2 DEF Still
<1>4. CASE n \in LeftCells
  <2> DEFINE b == At(0, -60, 0)
             c == At(182, 0, 0)
             d == At(0, 68, 0)
  <2>1. n \notin RightCells
    BY <1>4 DEF LeftCells, RightCells
  <2>2. TakeOut(n) = <<a>> \o <<b, c, d>>
    BY <1>4, <2>1 DEF TakeOut
  <2>3. b \in Position /\ c \in Position /\ d \in Position
    BY <1>2
  <2>4. Plus(Plus(a, b), Plus(c, d)) = Cell(n)
    BY <1>1, <1>4 DEF Plus, At, Cell
  <2> HIDE DEF a, b, c, d
  <2>5. a \in Position
    BY <1>3
  <2>6. /\ Rest(<<a>> \o <<b, c, d>>) = Plus(Plus(a, b), Plus(c, d))
        /\ Len(<<a>> \o <<b, c, d>>) = 4
    BY <2>3, <2>5, FourLegs, Zenon
  <2>7. 4 <= 4
    OBVIOUS
  <2> QED
    BY <2>2, <2>4, <2>6, <2>7, Zenon
<1>5. CASE n \in RightCells
  <2> DEFINE b == At(0, -45, 0)
             c == At(-215, 0, 0)
             d == At(0, 43, 0)
  <2>1. n \notin LeftCells
    BY <1>5 DEF LeftCells, RightCells
  <2>2. TakeOut(n) = <<a>> \o <<b, c, d>>
    BY <1>5, <2>1 DEF TakeOut
  <2>3. b \in Position /\ c \in Position /\ d \in Position
    BY <1>2
  <2>4. Plus(Plus(a, b), Plus(c, d)) = Cell(n)
    BY <1>1, <1>5, <2>1 DEF Plus, At, Cell
  <2> HIDE DEF a, b, c, d
  <2>5. a \in Position
    BY <1>3
  <2>6. /\ Rest(<<a>> \o <<b, c, d>>) = Plus(Plus(a, b), Plus(c, d))
        /\ Len(<<a>> \o <<b, c, d>>) = 4
    BY <2>3, <2>5, FourLegs, Zenon
  <2>7. 4 <= 4
    OBVIOUS
  <2> QED
    BY <2>2, <2>4, <2>6, <2>7, Zenon
<1>6. CASE n \notin LeftCells /\ n \notin RightCells
  <2>1. TakeOut(n) = <<a>> \o <<Still>>
    BY <1>6 DEF TakeOut
  <2>2. Cell(n) = a /\ Plus(a, Still) = a
    BY <1>3, <1>6, PlusStill DEF Cell
  <2> HIDE DEF a
  <2>3. TakeOut(n) = <<a, Still>>
    BY <1>3, <2>1, Joined2, Zenon
  <2>4. Rest(<<a, Still>>) = Cell(n)
    BY <1>3, <2>2, TwoLegs, Zenon
  <2>5. Len(<<a, Still>>) <= 4
    OBVIOUS
  <2> QED
    BY <2>3, <2>4, <2>5, Zenon
<1> QED
  BY <1>4, <1>5, <1>6

\* At most one movement, then at most one, then h.
LEMMA ThreeLegs ==
  ASSUME NEW s \in Seq(Position), NEW t \in Seq(Position), NEW h \in Position,
         Len(s) <= 1, Len(t) <= 1
  PROVE  /\ Rest(s \o t \o <<h>>) = Plus(Plus(Leg(s, 1), Leg(t, 1)), h)
         /\ Len(s \o t \o <<h>>) <= 4
<1> DEFINE c == s \o t
           d == c \o <<h>>
<1>1. <<h>> \in Seq(Position) /\ Len(<<h>>) = 1 /\ <<h>>[1] = h
  OBVIOUS
<1>2. Len(s) \in Nat /\ Len(t) \in Nat
  OBVIOUS
<1>3. /\ c \in Seq(Position) /\ Len(c) = Len(s) + Len(t)
      /\ \A i \in 1 .. Len(s) + Len(t) : c[i] = IF i <= Len(s) THEN s[i] ELSE t[i - Len(s)]
  BY ConcatProperties, Zenon
<1>4. /\ d \in Seq(Position) /\ Len(d) = Len(c) + Len(<<h>>)
      /\ \A i \in 1 .. Len(c) + Len(<<h>>) :
           d[i] = IF i <= Len(c) THEN c[i] ELSE <<h>>[i - Len(c)]
  BY <1>1, <1>3, ConcatProperties, Zenon
<1> HIDE DEF c, d
<1>5. Len(d) = Len(s) + Len(t) + 1 /\ d[Len(s) + Len(t) + 1] = h
  BY <1>1, <1>2, <1>3, <1>4
<1>6. Len(s) = 1 => d[1] = s[1]
  BY <1>1, <1>2, <1>3, <1>4
<1>7. Len(t) = 1 => d[Len(s) + 1] = t[1]
  BY <1>1, <1>2, <1>3, <1>4
<1>8. Still \in Position /\ Leg(s, 1) \in Position /\ Leg(t, 1) \in Position
  <2>1. Still \in Position
    BY DEF Still, At, Position
  <2> QED
    BY <1>2, <2>1 DEF Leg
<1>9. /\ Plus(Still, Still) = Still /\ Plus(h, Still) = h /\ Plus(Still, h) = h
      /\ Plus(Leg(s, 1), Still) = Leg(s, 1) /\ Plus(Still, Leg(t, 1)) = Leg(t, 1)
  BY <1>8, PlusStill
<1>10. CASE Len(s) = 0 /\ Len(t) = 0
  <2>1. Leg(d, 1) = h /\ Leg(d, 2) = Still /\ Leg(d, 3) = Still /\ Leg(d, 4) = Still
    BY <1>5, <1>10 DEF Leg
  <2>2. Leg(s, 1) = Still /\ Leg(t, 1) = Still
    BY <1>10 DEF Leg
  <2>3. Rest(d) = Plus(Plus(Leg(s, 1), Leg(t, 1)), h)
    BY <1>9, <2>1, <2>2 DEF Rest
  <2> QED
    BY <1>5, <1>10, <2>3 DEF c, d
<1>11. CASE Len(s) = 0 /\ Len(t) = 1
  <2>1. Leg(d, 1) = Leg(t, 1) /\ Leg(d, 2) = h /\ Leg(d, 3) = Still /\ Leg(d, 4) = Still
    BY <1>5, <1>7, <1>11 DEF Leg
  <2>2. Leg(s, 1) = Still
    BY <1>11 DEF Leg
  <2>3. Plus(Leg(t, 1), h) \in Position
    BY <1>8, PlusType
  <2>4. Rest(d) = Plus(Plus(Leg(s, 1), Leg(t, 1)), h)
    BY <1>9, <2>1, <2>2, <2>3, PlusStill DEF Rest
  <2> QED
    BY <1>5, <1>11, <2>4 DEF c, d
<1>12. CASE Len(s) = 1 /\ Len(t) = 0
  <2>1. Leg(d, 1) = Leg(s, 1) /\ Leg(d, 2) = h /\ Leg(d, 3) = Still /\ Leg(d, 4) = Still
    BY <1>5, <1>6, <1>12 DEF Leg
  <2>2. Leg(t, 1) = Still
    BY <1>12 DEF Leg
  <2>3. Plus(Leg(s, 1), h) \in Position
    BY <1>8, PlusType
  <2>4. Rest(d) = Plus(Plus(Leg(s, 1), Leg(t, 1)), h)
    BY <1>9, <2>1, <2>2, <2>3, PlusStill DEF Rest
  <2> QED
    BY <1>5, <1>12, <2>4 DEF c, d
<1>13. CASE Len(s) = 1 /\ Len(t) = 1
  <2>1. /\ Leg(d, 1) = Leg(s, 1) /\ Leg(d, 2) = Leg(t, 1) /\ Leg(d, 3) = h /\ Leg(d, 4) = Still
    BY <1>5, <1>6, <1>7, <1>13 DEF Leg
  <2>2. Rest(d) = Plus(Plus(Leg(s, 1), Leg(t, 1)), h)
    BY <1>9, <2>1 DEF Rest
  <2> QED
    BY <1>5, <1>13, <2>2 DEF c, d
<1> QED
  BY <1>2, <1>10, <1>11, <1>12, <1>13

\* From the cell, the way back of take_action ends behind the cells, on the line.
LEMMA TakeBackWay ==
  ASSUME NEW n \in 1 .. 10
  PROVE  OnLine(Plus(Cell(n), Rest(TakeBack(n)))) /\ Len(TakeBack(n)) <= 4
<1> DEFINE side == CASE n \in LeftCells  -> << At(-182, 0, 0) >>
                     [] n \in RightCells -> << At(215, 0, 0) >>
                     [] OTHER -> << >>
           back == IF n > 6 THEN << At(0, -400, 0) >>
                   ELSE IF n > 3 THEN << At(0, -200, 0) >> ELSE << >>
           h == At(0, -300, 0)
           aside == IF n \in LeftCells THEN -182 ELSE IF n \in RightCells THEN 215 ELSE 0
           down == IF n > 6 THEN -400 ELSE IF n > 3 THEN -200 ELSE 0
<1>1. \A x, y, z \in Int : At(x, y, z) \in Position
  BY DEF At, Position
<1>2. side \in Seq(Position) /\ Len(side) <= 1 /\ Leg(side, 1) = At(aside, 0, 0)
  <2>1. CASE n \in LeftCells
    <3>1. side = << At(-182, 0, 0) >> /\ aside = -182
      BY <2>1 DEF LeftCells, RightCells
    <3>2. << At(-182, 0, 0) >> \in Seq(Position)
      BY <1>1
    <3> QED
      BY <3>1, <3>2 DEF Leg
  <2>2. CASE n \in RightCells
    <3>1. side = << At(215, 0, 0) >> /\ aside = 215
      BY <2>2 DEF LeftCells, RightCells
    <3>2. << At(215, 0, 0) >> \in Seq(Position)
      BY <1>1
    <3> QED
      BY <3>1, <3>2 DEF Leg
  <2>3. CASE n \notin LeftCells /\ n \notin RightCells
    <3>1. side = << >> /\ aside = 0
      BY <2>3
    <3> QED
      BY <3>1 DEF Leg, Still
  <2> QED
    BY <2>1, <2>2, <2>3
<1>3. back \in Seq(Position) /\ Len(back) <= 1 /\ Leg(back, 1) = At(0, down, 0)
  <2>1. CASE n > 6
    <3>1. back = << At(0, -400, 0) >> /\ down = -400
      BY <2>1
    <3>2. << At(0, -400, 0) >> \in Seq(Position)
      BY <1>1
    <3> QED
      BY <3>1, <3>2 DEF Leg
  <2>2. CASE ~(n > 6) /\ n > 3
    <3>1. back = << At(0, -200, 0) >> /\ down = -200
      BY <2>2
    <3>2. << At(0, -200, 0) >> \in Seq(Position)
      BY <1>1
    <3> QED
      BY <3>1, <3>2 DEF Leg
  <2>3. CASE ~(n > 6) /\ ~(n > 3)
    <3>1. back = << >> /\ down = 0
      BY <2>3
    <3> QED
      BY <3>1 DEF Leg, Still
  <2> QED
    BY <2>1, <2>2, <2>3
<1>4. TakeBack(n) = side \o back \o <<h>>
  BY Zenon DEF TakeBack
<1>5. h \in Position
  BY <1>1
<1> HIDE DEF side, back, h
<1>6. /\ Rest(TakeBack(n)) = Plus(Plus(At(aside, 0, 0), At(0, down, 0)), h)
      /\ Len(TakeBack(n)) <= 4
  <2>1. /\ Rest(side \o back \o <<h>>) = Plus(Plus(Leg(side, 1), Leg(back, 1)), h)
        /\ Len(side \o back \o <<h>>) <= 4
    BY <1>2, <1>3, <1>5, ThreeLegs, Zenon
  <2> QED
    BY <1>2, <1>3, <1>4, <2>1, Zenon
<1>7. Ahead(n) \in Int /\ Ahead(n) + down \in {0, -15}
  BY DEF Ahead
<1>8. aside \in Int /\ down \in Int
  OBVIOUS
<1>9. \E o \in {8, -2, 0} : Cell(n) = At(0 - aside, Ahead(n) + o, 0)
  <2>1. CASE n \in LeftCells
    BY <1>7, <2>1 DEF Cell
  <2>2. CASE n \in RightCells
    <3>1. n \notin LeftCells
      BY <2>2 DEF LeftCells, RightCells
    <3>2. Cell(n) = At(-215, Ahead(n) - 2, 0) /\ 0 - aside = -215 /\ Ahead(n) - 2 = Ahead(n) + -2
      BY <1>7, <2>2, <3>1 DEF Cell
    <3> QED
      BY <3>2
  <2>3. CASE n \notin LeftCells /\ n \notin RightCells
    <3>1. Cell(n) = At(0, Ahead(n), 0)
      BY <2>3, Zenon DEF Cell
    <3>2. aside = 0
      BY <2>3
    <3> HIDE DEF aside
    <3>3. 0 - aside = 0
      BY <3>2
    <3>4. Ahead(n) = Ahead(n) + 0
      <4>1. \A y \in Int : y = y + 0
        OBVIOUS
      <4> QED
        BY <1>7, <4>1, Zenon
    <3>5. Cell(n) = At(0 - aside, Ahead(n) + 0, 0)
      BY <3>1, <3>3, <3>4, Zenon
    <3> QED
      BY <3>5
  <2> QED
    BY <2>1, <2>2, <2>3
<1>10. PICK o \in {8, -2, 0} : Cell(n) = At(0 - aside, Ahead(n) + o, 0)
  BY <1>9
<1> HIDE DEF aside, down
<1> DEFINE q == Plus(At(0 - aside, Ahead(n) + o, 0), Plus(Plus(At(aside, 0, 0), At(0, down, 0)), h))
<1>11. /\ q.x = (0 - aside) + ((aside + 0) + 0) /\ q.y = (Ahead(n) + o) + ((0 + down) + -300)
       /\ q.z = 0 + ((0 + 0) + 0)
  BY DEF Plus, At, h
<1> HIDE DEF q
<1>12. OnLine(q)
  BY <1>7, <1>8, <1>11 DEF OnLine
<1> QED
  BY <1>6, <1>10, <1>12, Zenon DEF q

\* put_action goes to the bin, and back to where it began, turned round.
LEMMA PutWays ==
  ASSUME NEW c
  PROVE  /\ Plus(Still, Rest(PutOut(c))) = Bin(c) /\ Len(PutOut(c)) <= 4
         /\ Plus(Bin(c), Rest(PutBack(c))) = At(0, 0, 2) /\ Len(PutBack(c)) <= 4
<1> DEFINE s == Aside(c)
           r == Reach(c)
<1>1. s \in Int /\ r \in Int
  BY DEF Aside, Reach
<1>2. /\ PutOut(c) = << At(s, 0, 0), At(0, r, 0) >>
      /\ PutBack(c) = << At(0, -r, 0), At(-s, 0, 0), At(0, 0, 2) >>
      /\ Bin(c) = At(s, r, 0)
  BY DEF PutOut, PutBack, Bin
<1> HIDE DEF s, r
<1>3. At(s, 0, 0) \in Position /\ At(0, r, 0) \in Position
  BY <1>1 DEF At, Position
<1>4. Rest(PutOut(c)) = Plus(At(s, 0, 0), At(0, r, 0)) /\ Len(PutOut(c)) = 2
  BY <1>2, <1>3, TwoLegs, Zenon
<1>5. /\ Rest(PutBack(c)) = Plus(Plus(At(0, -r, 0), At(-s, 0, 0)), At(0, 0, 2))
      /\ Len(PutBack(c)) = 3
  <2> DEFINE a == At(0, -r, 0)
             b == At(-s, 0, 0)
             e == At(0, 0, 2)
  <2>1. a \in Position /\ b \in Position /\ e \in Position
    BY <1>1 DEF At, Position
  <2>2. PutBack(c) = <<a, b, e>>
    BY <1>2
  <2> HIDE DEF a, b, e
  <2>3. Rest(<<a, b, e>>) = Plus(Plus(a, b), e) /\ Len(<<a, b, e>>) = 3
    BY <2>1, PutLegs, Zenon
  <2>4. Rest(PutBack(c)) = Plus(Plus(a, b), e) /\ Len(PutBack(c)) = 3
    BY <2>2, <2>3, Zenon
  <2> QED
    BY <2>4 DEF a, b, e
<1>6. Plus(Still, Plus(At(s, 0, 0), At(0, r, 0))) = At(s, r, 0)
  BY <1>1 DEF Plus, At, Still
<1>7. Plus(At(s, r, 0), Plus(Plus(At(0, -r, 0), At(-s, 0, 0)), At(0, 0, 2))) = At(0, 0, 2)
  BY <1>1 DEF Plus, At
<1> QED
  BY <1>2, <1>4, <1>5, <1>6, <1>7

\* A movement that is started does not change where the way leads.
LEMMA LaunchWay ==
  ASSUME NEW from \in Position, NEW plan \in Seq(Position), plan # << >>, Len(plan) <= 4,
         Launch(from, plan), pos' = from
  PROVE  Destination' = Plus(from, Rest(plan)) /\ Len(moves') <= 4 /\ ArrivedInv'
<1>1. ctrl' = [type |-> 1, tgt |-> Plus(from, Head(plan))] /\ target' = ctrl'.tgt
  BY DEF Launch, Publish
<1>2. ctrl'.tgt = Plus(from, Head(plan))
  BY <1>1
<1>3. /\ Plus(Plus(from, Head(plan)), Rest(Tail(plan))) = Plus(from, Rest(plan))
      /\ Len(Tail(plan)) <= 4
  BY RestTail
<1>4. CASE Head(plan) = Still
  <2>1. moves' = Tail(plan) /\ polls' = 0
    BY <1>4 DEF Launch
  <2>2. Plus(from, Head(plan)) = from
    BY <1>4, PlusStill
  <2>3. Destination' = Plus(pos', Rest(moves'))
    BY <2>1 DEF Destination, Rest, Leg
  <2>4. Destination' = Plus(from, Rest(plan))
    BY <1>3, <2>1, <2>2, <2>3
  <2>5. target' = pos'
    BY <1>1, <1>2, <2>2
  <2> QED
    BY <1>3, <2>1, <2>4, <2>5 DEF ArrivedInv
<1>5. CASE Head(plan) # Still
  <2>1. moves' = plan /\ polls' = 1
    BY <1>5 DEF Launch
  <2>2. Destination' = Plus(ctrl'.tgt, Rest(Tail(moves')))
    BY <2>1 DEF Destination, Rest, Leg
  <2>3. Destination' = Plus(from, Rest(plan))
    BY <1>2, <1>3, <2>1, <2>2
  <2> QED
    BY <2>1, <2>3 DEF ArrivedInv
<1> QED
  BY <1>4, <1>5

\* When all movements are made the robot has arrived.
LEMMA AtDestination ==
  ASSUME TypeOK, MoveInv, moves = << >>
  PROVE  polls = 0 /\ Destination = pos
<1>1. polls = 0 /\ pos \in Position
  BY MaxPollsAssumption DEF TypeOK, MoveInv
<1>2. Destination = Plus(pos, Rest(<< >>))
  BY <1>1 DEF Destination
<1> QED
  BY <1>1, <1>2, RestEmpty

\* Before the first action there is nothing to say.
LEMMA LineInit == Init => LineInv
BY DEF Init, LineInv, ActInv, ArrivedInv, WayInv, BackOnLine, Cab, TakePhases, PutPhases

\* A new plan of a robot that has arrived.
LEMMA PlanWay ==
  ASSUME TypeOK, MoveInv, moves = << >>, NEW plan, moves' = plan, UNCHANGED <<polls, ctrl, chassis>>
  PROVE  Destination' = Plus(pos, Rest(plan))
<1>1. polls' = 0 /\ pos' = pos
  BY AtDestination DEF chassis
<1> QED
  BY <1>1 DEF Destination, Rest, Leg

\* Every step keeps the robot on its way.
LEMMA LineStep ==
  ASSUME MissionInv, OwnerInv, LineInv, [Next]_vars
  PROVE  LineInv'
<1>0. TypeOK /\ MoveInv
  BY DEF MissionInv
<1>a. /\ moves \in Seq(Position) /\ pos \in Position /\ polls \in 0 .. MaxPolls + 1
      /\ take_cnt \in 1 .. 10 /\ Still \in Position
  BY <1>0 DEF TypeOK, Still, At, Position
<1>b. Len(moves) <= 4 /\ ActInv /\ (~slip => ArrivedInv /\ WayInv /\ BackOnLine)
  BY DEF LineInv
<1> DEFINE way == <<moves, polls, ctrl, pos>>
<1>c. UNCHANGED way => Destination' = Destination
  BY DEF Destination, Rest, Leg
<1> HIDE DEF way
<1>1. CASE CabDelay \/ CabPoll \/ CabClear \/ CabLeave
  <2>1. /\ pc \in Cab /\ pc' \in Cab \cup {"loop"} /\ UNCHANGED <<act, slip, motion>>
    BY <1>1 DEF CabDelay, CabPoll, CabClear, CabLeave, Cab, history
  <2>2. act' = "none"
    BY <1>b, <2>1 DEF ActInv
  <2> QED
    BY <1>b, <2>1, <2>2 DEF LineInv, ActInv, ArrivedInv, WayInv, BackOnLine, Cab, TakePhases,
       PutPhases, motion, chassis
<1>2. CASE MoveStart
  <2>1. /\ moves # << >> /\ polls = 0 /\ Launch(pos, moves)
        /\ pos' = pos /\ UNCHANGED <<pc, take_cnt, color_type, act, slip>>
    BY <1>2 DEF MoveStart, mission, colours, history
  <2>2. Destination' = Plus(pos, Rest(moves)) /\ Len(moves') <= 4 /\ ArrivedInv'
    BY <1>a, <1>b, <2>1, LaunchWay
  <2>3. Destination' = Destination
    BY <2>1, <2>2 DEF Destination
  <2>4. pc # "loop"
    BY <1>0, <2>1 DEF MoveInv, Acting
  <2>5. ActInv' /\ (~slip' => WayInv')
    BY <1>b, <2>1, <2>3 DEF ActInv, WayInv, OnLine
  <2>6. BackOnLine'
    BY <2>1, <2>4 DEF BackOnLine
  <2> QED
    BY <2>2, <2>5, <2>6 DEF LineInv
<1>3. CASE MoveReached
  <2>1. /\ polls > 0 /\ pos' = target /\ polls' = 0 /\ moves' = Tail(moves)
        /\ UNCHANGED <<pc, take_cnt, color_type, act, slip, ctrl, target>>
    BY <1>3, <1>a, MaxPollsAssumption DEF MoveReached, mission, colours, history
  <2>2. moves # << >> /\ Acting
    BY <1>0, <2>1 DEF MoveInv
  <2>3. target = ctrl.tgt /\ pc # "loop"
    BY <2>2 DEF OwnerInv, Acting
  <2>4. Len(Tail(moves)) <= 4
    BY <1>a, <1>b, <2>2, RestTail
  <2>5. Destination' = Plus(pos', Rest(moves'))
    BY <2>1 DEF Destination, Rest, Leg
  <2>6. Destination = Plus(ctrl.tgt, Rest(Tail(moves)))
    BY <2>1 DEF Destination
  <2>7. Destination' = Destination
    BY <2>1, <2>3, <2>5, <2>6
  <2>8. ActInv' /\ (~slip' => WayInv')
    BY <1>b, <2>1, <2>7 DEF ActInv, WayInv, OnLine
  <2>9. BackOnLine' /\ ArrivedInv'
    BY <2>1, <2>3 DEF BackOnLine, ArrivedInv
  <2> QED
    BY <2>1, <2>4, <2>8, <2>9 DEF LineInv
<1>4. CASE MovePoll
  <2>1. /\ polls > 0 /\ polls' > 0 /\ ctrl'.tgt = ctrl.tgt
        /\ UNCHANGED <<pc, take_cnt, color_type, act, slip, moves, pos>>
    BY <1>0, <1>4, <1>a, MaxPollsAssumption
    DEF TypeOK, MovePoll, Publish, mission, colours, history
  <2>2. pc # "loop"
    BY <1>0, <2>1 DEF MoveInv, Acting
  <2>3. Destination' = Plus(ctrl'.tgt, Rest(Tail(moves')))
    BY <2>1 DEF Destination, Rest, Leg
  <2>4. Destination' = Destination
    BY <2>1, <2>3 DEF Destination
  <2>5. ActInv' /\ (~slip' => WayInv')
    BY <1>b, <2>1, <2>4 DEF ActInv, WayInv, OnLine
  <2>6. BackOnLine' /\ ArrivedInv'
    BY <2>1, <2>2 DEF BackOnLine, ArrivedInv
  <2> QED
    BY <1>b, <2>1, <2>5, <2>6 DEF LineInv
<1>5. CASE MoveTimeout
  <2>1. polls > 0 /\ moves' = Tail(moves) /\ slip' = TRUE /\ UNCHANGED <<pc, act>>
    BY <1>5, <1>a, MaxPollsAssumption DEF MoveTimeout, mission
  <2>2. moves # << >>
    BY <1>0, <2>1 DEF MoveInv
  <2>3. Len(moves') <= 4
    BY <1>a, <1>b, <2>1, <2>2, RestTail
  <2> QED
    BY <1>b, <2>1, <2>3 DEF LineInv, ActInv
<1>6. ASSUME NEW kind, NEW phase, NEW plan \in Seq(Position), plan # << >>, Len(plan) <= 4,
             Begin(kind, phase, plan), phase # "loop"
      PROVE  /\ Destination' = Plus(Still, Rest(plan)) /\ Len(moves') <= 4 /\ ArrivedInv'
             /\ pc' = phase /\ act' = kind /\ take_cnt' = take_cnt /\ BackOnLine'
  <2>1. /\ pc' = phase /\ act' = kind /\ Launch(Still, plan) /\ pos' = Still
        /\ take_cnt' = take_cnt
    BY <1>6 DEF Begin
  <2>2. BackOnLine'
    BY <1>6, <2>1 DEF BackOnLine
  <2> QED
    BY <1>6, <1>a, <2>1, <2>2, LaunchWay
<1>7. CASE BeginTurn
  <2> DEFINE plan == Turn(Path_get_next_dir)
  <2>1. plan \in Seq(Position) /\ plan # << >>
    BY <1>a, PlanTypes
  <2>2. Len(plan) <= 4
    BY DEF Turn
  <2>3. Begin("turn", "turn", plan)
    BY <1>7 DEF BeginTurn
  <2> HIDE DEF plan
  <2>4. /\ Len(moves') <= 4 /\ ArrivedInv' /\ pc' = "turn" /\ act' = "turn" /\ BackOnLine'
    BY <1>6, <2>1, <2>2, <2>3
  <2> QED
    BY <2>4 DEF LineInv, ActInv, WayInv, Cab, TakePhases, PutPhases
<1>8. CASE BeginTake
  <2> DEFINE plan == TakeOut(take_cnt)
  <2>1. plan \in Seq(Position) /\ plan # << >>
    BY <1>a, PlanTypes
  <2>2. Len(plan) <= 4 /\ Rest(plan) = Cell(take_cnt)
    BY <1>a, TakeOutWay
  <2>3. Begin("take", "take_out", plan)
    BY <1>8 DEF BeginTake
  <2> HIDE DEF plan
  <2>4. /\ Destination' = Plus(Still, Rest(plan)) /\ Len(moves') <= 4 /\ ArrivedInv'
        /\ pc' = "take_out" /\ act' = "take" /\ take_cnt' = take_cnt /\ BackOnLine'
    BY <1>6, <2>1, <2>2, <2>3
  <2>5. Plus(Still, Rest(plan)) = Rest(plan)
    BY <2>1, RestType, PlusStill
  <2>6. Destination' = Cell(take_cnt)'
    BY <2>2, <2>4, <2>5
  <2> QED
    BY <2>4, <2>6 DEF LineInv, ActInv, WayInv, Cab, TakePhases, PutPhases
<1>9. CASE BeginPut
  <2> DEFINE plan == << Still >>
  <2>1. plan \in Seq(Position) /\ plan # << >> /\ Len(plan) <= 4
    BY <1>a
  <2>2. Plus(Still, Rest(plan)) = Still
    <3>1. Rest(plan) = Plus(Plus(Still, Still), Plus(Still, Still))
      BY DEF Rest, Leg
    <3>2. Plus(Still, Still) = Still
      BY <1>a, PlusStill
    <3> QED
      BY <3>1, <3>2
  <2>3. Begin("put", "put_sort", plan)
    BY <1>9 DEF BeginPut
  <2> HIDE DEF plan
  <2>4. /\ Destination' = Still /\ Len(moves') <= 4 /\ ArrivedInv'
        /\ pc' = "put_sort" /\ act' = "put" /\ BackOnLine'
    BY <1>6, <2>1, <2>2, <2>3
  <2> QED
    BY <2>4 DEF LineInv, ActInv, WayInv, Cab, TakePhases, PutPhases
<1>10. CASE BeginBack
  <2> DEFINE plan == << At(0, 400, 0) >>
  <2>1. At(0, 400, 0) \in Position
    BY DEF At, Position
  <2>2. plan \in Seq(Position) /\ plan # << >> /\ Len(plan) <= 4
    BY <2>1
  <2>3. Begin("back", "back", plan)
    BY <1>10 DEF BeginBack
  <2> HIDE DEF plan
  <2>4. Len(moves') <= 4 /\ ArrivedInv' /\ pc' = "back" /\ act' = "back" /\ BackOnLine'
    BY <1>6, <2>2, <2>3
  <2> QED
    BY <2>4 DEF LineInv, ActInv, WayInv, Cab, TakePhases, PutPhases
<1>11. CASE TurnEnd
  <2>1. pc = "turn" /\ pc' = "loop" /\ UNCHANGED <<act, slip, motion>>
    BY <1>11 DEF TurnEnd, Done, history
  <2>2. act' = "turn"
    BY <1>b, <2>1 DEF ActInv
  <2> QED
    BY <1>b, <2>1, <2>2 DEF LineInv, ActInv, ArrivedInv, WayInv, BackOnLine, Cab, TakePhases,
       PutPhases, motion, chassis
<1>12. CASE TakeLatch
  <2>1. pc = "take_out" /\ pc' = "take_pick" /\ UNCHANGED <<act, slip, motion, take_cnt>>
    BY <1>12 DEF TakeLatch, Done
  <2>2. Destination' = Destination
    BY <1>c, <2>1 DEF way, motion, chassis
  <2>3. ActInv' /\ (~slip' => WayInv')
    BY <1>b, <2>1, <2>2 DEF ActInv, WayInv, Cab, TakePhases, PutPhases
  <2>4. Len(moves') <= 4 /\ BackOnLine' /\ (~slip' => ArrivedInv')
    BY <1>b, <2>1 DEF BackOnLine, ArrivedInv, motion, chassis
  <2> QED
    BY <2>3, <2>4 DEF LineInv
<1>13. CASE TakeLift
  <2>1. /\ pc = "take_pick" /\ moves = << >> /\ pc' = "take_back" /\ moves' = TakeBack(take_cnt)
        /\ UNCHANGED <<act, slip, polls, ctrl, chassis>>
    BY <1>13 DEF TakeLift, Done, history
  <2>2. Destination = pos /\ Destination' = Plus(pos, Rest(TakeBack(take_cnt)))
    BY <1>0, <2>1, AtDestination, PlanWay
  <2>3. OnLine(Plus(Cell(take_cnt), Rest(TakeBack(take_cnt)))) /\ Len(TakeBack(take_cnt)) <= 4
    BY <1>a, TakeBackWay
  <2>4. ~slip => OnLine(Destination')
    BY <1>b, <2>1, <2>2, <2>3 DEF WayInv
  <2>5. ActInv' /\ (~slip' => WayInv')
    BY <1>b, <2>1, <2>4 DEF ActInv, WayInv, OnLine, Cab, TakePhases, PutPhases
  <2>6. Len(moves') <= 4 /\ BackOnLine' /\ (~slip' => ArrivedInv')
    BY <1>b, <2>1, <2>3 DEF BackOnLine, ArrivedInv, chassis
  <2> QED
    BY <2>5, <2>6 DEF LineInv
<1>14. CASE TakeEnd
  <2>1. pc = "take_back" /\ moves = << >> /\ pc' = "loop" /\ UNCHANGED <<act, slip, motion>>
    BY <1>14 DEF TakeEnd, Done, history
  <2>2. Destination = pos
    BY <1>0, <2>1, AtDestination
  <2>3. act = "take" /\ (~slip => OnLine(pos))
    BY <1>b, <2>1, <2>2 DEF ActInv, WayInv, TakePhases
  <2>4. ~slip' => BackOnLine'
    BY <2>1, <2>3 DEF BackOnLine, OnLine, motion, chassis
  <2> QED
    BY <1>b, <2>1, <2>4 DEF LineInv, ActInv, ArrivedInv, WayInv, Cab, TakePhases, PutPhases,
       motion, chassis
<1>15. CASE PutSort
  <2>1. /\ pc = "put_sort" /\ moves = << >> /\ pc' = "put_out" /\ moves' = PutOut(color_type)
        /\ color_type' = color_type /\ UNCHANGED <<act, slip, polls, ctrl, chassis>>
    BY <1>15 DEF PutSort, Done, history, colours
  <2>2. Destination = pos /\ Destination' = Plus(pos, Rest(PutOut(color_type)))
    BY <1>0, <2>1, AtDestination, PlanWay
  <2>3. Plus(Still, Rest(PutOut(color_type))) = Bin(color_type) /\ Len(PutOut(color_type)) <= 4
    BY PutWays
  <2>4. ~slip => Destination' = Bin(color_type)
    BY <1>b, <2>1, <2>2, <2>3 DEF WayInv
  <2>5. ActInv' /\ (~slip' => WayInv')
    BY <1>b, <2>1, <2>4 DEF ActInv, WayInv, Cab, TakePhases, PutPhases
  <2>6. Len(moves') <= 4 /\ BackOnLine' /\ (~slip' => ArrivedInv')
    BY <1>b, <2>1, <2>3 DEF BackOnLine, ArrivedInv, chassis
  <2> QED
    BY <2>5, <2>6 DEF LineInv
<1>16. CASE PutDrop
  <2>1. pc = "put_out" /\ pc' = "put_drop" /\ UNCHANGED <<act, slip, motion, color_type>>
    BY <1>16 DEF PutDrop, Done, colours
  <2>2. Destination' = Destination
    BY <1>c, <2>1 DEF way, motion, chassis
  <2>3. ActInv' /\ (~slip' => WayInv')
    BY <1>b, <2>1, <2>2 DEF ActInv, WayInv, Cab, TakePhases, PutPhases
  <2>4. Len(moves') <= 4 /\ BackOnLine' /\ (~slip' => ArrivedInv')
    BY <1>b, <2>1 DEF BackOnLine, ArrivedInv, motion, chassis
  <2> QED
    BY <2>3, <2>4 DEF LineInv
<1>17. CASE PutReturn
  <2>1. /\ pc = "put_drop" /\ moves = << >> /\ pc' = "put_back" /\ moves' = PutBack(color_type)
        /\ UNCHANGED <<act, slip, polls, ctrl, chassis>>
    BY <1>17 DEF PutReturn, Done, history
  <2>2. Destination = pos /\ Destination' = Plus(pos, Rest(PutBack(color_type)))
    BY <1>0, <2>1, AtDestination, PlanWay
  <2>3. Plus(Bin(color_type), Rest(PutBack(color_type))) = At(0, 0, 2) /\ Len(PutBack(color_type)) <= 4
    BY PutWays
  <2>4. ~slip => Destination' = At(0, 0, 2)
    BY <1>b, <2>1, <2>2, <2>3 DEF WayInv
  <2>5. ActInv' /\ (~slip' => WayInv')
    BY <1>b, <2>1, <2>4 DEF ActInv, WayInv, Cab, TakePhases, PutPhases
  <2>6. Len(moves') <= 4 /\ BackOnLine' /\ (~slip' => ArrivedInv')
    BY <1>b, <2>1, <2>3 DEF BackOnLine, ArrivedInv, chassis
  <2> QED
    BY <2>5, <2>6 DEF LineInv
<1>18. CASE PutEnd
  <2>1. pc = "put_back" /\ moves = << >> /\ pc' = "loop" /\ UNCHANGED <<act, slip, motion>>
    BY <1>18 DEF PutEnd, PutEndWith, Done
  <2>2. Destination = pos
    BY <1>0, <2>1, AtDestination
  <2>3. act = "put" /\ (~slip => pos = At(0, 0, 2))
    BY <1>b, <2>1, <2>2 DEF ActInv, WayInv, PutPhases
  <2>4. ~slip' => BackOnLine'
    BY <2>1, <2>3 DEF BackOnLine, motion, chassis
  <2> QED
    BY <1>b, <2>1, <2>4 DEF LineInv, ActInv, ArrivedInv, WayInv, Cab, TakePhases, PutPhases,
       motion, chassis
<1>19. CASE BackEnd
  <2>1. pc' = "over" /\ UNCHANGED <<act, slip, motion>>
    BY <1>19 DEF BackEnd, history
  <2> QED
    BY <1>b, <2>1 DEF LineInv, ActInv, ArrivedInv, WayInv, BackOnLine, Cab, TakePhases, PutPhases,
       motion, chassis
<1>20. CASE FollowSend
  <2>1. /\ fl = "send" /\ run_status' = "SPEED"
        /\ UNCHANGED <<pc, act, slip, moves, pos>>
    BY <1>20 DEF FollowSend, Publish, mission, history
  <2>2. ~Acting
    BY <2>1 DEF OwnerInv
  <2>3. ActInv' /\ WayInv'
    BY <1>b, <2>1, <2>2 DEF ActInv, WayInv, Acting
  <2>4. ArrivedInv' /\ (~slip' => BackOnLine')
    BY <1>b, <2>1 DEF ArrivedInv, BackOnLine
  <2> QED
    BY <1>b, <2>1, <2>3, <2>4 DEF LineInv
<1>21. CASE ChassisArrives
  <2>1. /\ run_status = "POS" /\ pos # target /\ pos' = target
        /\ UNCHANGED <<pc, act, slip, moves, polls, ctrl, take_cnt, color_type>>
    BY <1>21 DEF ChassisArrives, mission, colours, history
  <2>2. CASE slip
    BY <1>b, <2>1, <2>2 DEF LineInv, ActInv
  <2>3. CASE ~slip
    <3>1. polls # 0
      BY <1>b, <2>1, <2>3 DEF ArrivedInv
    <3>2. polls > 0
      BY <1>a, <3>1, MaxPollsAssumption
    <3>3. pc # "loop"
      BY <1>0, <3>2 DEF MoveInv, Acting
    <3>4. Destination' = Destination
      BY <2>1, <3>2 DEF Destination, Rest, Leg
    <3>5. ActInv' /\ WayInv'
      BY <1>b, <2>1, <2>3, <3>4 DEF ActInv, WayInv, OnLine
    <3>6. ArrivedInv' /\ BackOnLine'
      BY <2>1, <3>1, <3>3 DEF ArrivedInv, BackOnLine
    <3> QED
      BY <1>b, <2>1, <3>5, <3>6 DEF LineInv
  <2> QED
    BY <2>2, <2>3
<1>22. CASE \/ \E special \in BOOLEAN : FollowSample(special)
            \/ FollowTest \/ StepperHome
            \/ \E l \in Letters : ColorLetter(l)
            \/ UNCHANGED vars
  <2>1. UNCHANGED <<pc, act, slip, motion, take_cnt, color_type>>
    BY <1>22 DEF FollowSample, FollowTest, StepperHome, ColorLetter, vars, mission, colours,
       history
  <2>2. Destination' = Destination
    BY <1>c, <2>1 DEF way, motion, chassis
  <2>3. ActInv' /\ (~slip' => WayInv')
    BY <1>b, <2>1, <2>2 DEF ActInv, WayInv, OnLine
  <2>4. Len(moves') <= 4 /\ (~slip' => BackOnLine' /\ ArrivedInv')
    BY <1>b, <2>1 DEF BackOnLine, ArrivedInv, motion, chassis
  <2> QED
    BY <2>3, <2>4 DEF LineInv
<1> QED
  BY <1>1, <1>2, <1>3, <1>4, <1>5, <1>7, <1>8, <1>9, <1>10, <1>11, <1>12, <1>13, <1>14,
     <1>15, <1>16, <1>17, <1>18, <1>19, <1>20, <1>21, <1>22
  DEF Next, Rbmg, Others

-----------------------------------------------------------------------------
(* Theorems *)

\* The invariant of the mission holds in every reachable state.
LEMMA MissionInvariant == Spec => []MissionInv
BY MissionInit, MissionStep, PTL DEF Spec

\* Every variable keeps its type: in particular take_cnt never overflows and no
\* index leaves its table by more than the entry being obeyed.
THEOREM TypeCorrect == Spec => []TypeOK
<1>1. MissionInv => TypeOK
  BY DEF MissionInv
<1> QED
  BY <1>1, MissionInvariant, PTL

\* Path_get_next_dir never reads past the end of a table.
THEOREM TablesNeverOverrun == Spec => []PathInBounds
<1>1. MissionInv => PathInBounds
  <2> SUFFICES ASSUME MissionInv, pc = "loop" PROVE index[this_table] < Len(Tables[this_table])
    BY DEF PathInBounds
  <2>1. this_table \in TableNames /\ index[this_table] \in 0 .. Turns(this_table)
    BY DEF MissionInv, TypeOK, IndexInv, Turns
  <2> QED
    BY <2>1, TableShape
<1> QED
  BY <1>1, MissionInvariant, PTL

\* No path of take_action and put_action lets an object fall.
THEOREM CargoNeverFalls == Spec => []CargoHeld
<1>1. MissionInv => CargoHeld
  BY DEF MissionInv, CargoInv, CargoHeld
<1> QED
  BY <1>1, MissionInvariant, PTL

\* The robot carries an object exactly on its way to the bins.
THEOREM LoadedOnlyOnPut == Spec => []LoadedMeansPut
<1>1. MissionInv => LoadedMeansPut
  BY DEF MissionInv, CargoInv, LoadedMeansPut
<1> QED
  BY <1>1, MissionInvariant, PTL

\* The robot goes home after nine objects and not before.
THEOREM NineObjects == Spec => []HomeAfterNine
<1>1. MissionInv => HomeAfterNine
  BY DEF MissionInv, CountInv, HomeAfterNine
<1> QED
  BY <1>1, MissionInvariant, PTL

\* After the first put a coloured bin is chosen only on the word of the camera.
THEOREM BinsAreReported == Spec => []BinHasReport
<1>1. MissionInv => BinHasReport
  BY DEF MissionInv, ColourInv, BinHasReport
<1> QED
  BY <1>1, MissionInvariant, PTL

\* While an object is carried nothing changes the bin it goes to.
THEOREM ColourIsLatched == Spec => ColourLatchedOnce
<1>1. MissionInv /\ [Next]_vars => [cargo /\ cargo' => color_type' = color_type]_vars
  <2> SUFFICES ASSUME MissionInv, [Next]_vars, cargo, cargo'
               PROVE  color_type' = color_type
    OBVIOUS
  <2>0. CargoInv
    BY DEF MissionInv
  <2>1. CASE TakeLatch
    BY <2>0, <2>1 DEF CargoInv, Cab, TakeLatch, Done
  <2>2. CASE PutEnd
    BY <2>0, <2>2 DEF CargoInv, Cab, PutEnd, PutEndWith, Done
  <2>3. CASE ~TakeLatch /\ ~PutEnd
    BY <2>3 DEF Next, Rbmg, Others, CabDelay, CabPoll, CabClear, CabLeave, MoveStart,
       MoveReached, MovePoll, MoveTimeout, BeginTurn, BeginTake, BeginPut, BeginBack, Begin,
       TurnEnd, TakeLift, TakeEnd, PutSort, PutDrop, PutReturn, BackEnd, FollowSample,
       FollowTest, FollowSend, ChassisArrives, StepperHome, ColorLetter, vars, colours
  <2> QED
    BY <2>1, <2>2, <2>3
<1> QED
  BY <1>1, MissionInvariant, PTL DEF Spec, ColourLatchedOnce

\* The owner of the chassis never changes during an action.
LEMMA OwnerInvariant ==
  ASSUME "ACTION" \notin HomesDuring
  PROVE  Spec => []OwnerInv
<1>1. Init => OwnerInv
  BY MissionInit
<1>2. MissionInv /\ OwnerInv /\ [Next]_vars => OwnerInv'
  BY OwnerStep
<1> QED
  BY <1>1, <1>2, MissionInvariant, PTL DEF Spec

\* If the arm is homed outside actions, no speed of the line follower reaches the
\* chassis while an action moves the robot.
THEOREM ActionsOwnChassis ==
  ASSUME "ACTION" \notin HomesDuring
  PROVE  Spec => []ActionOwnsChassis
<1>1. OwnerInv => ActionOwnsChassis
  BY DEF OwnerInv, ActionOwnsChassis
<1> QED
  BY <1>1, OwnerInvariant, PTL

\* If the arm is homed outside actions, the bus never has two publishers at a time.
THEOREM PublishersNeverOverlap ==
  ASSUME "ACTION" \notin HomesDuring
  PROVE  Spec => []OnePublisher
<1>1. OwnerInv => OnePublisher
  BY DEF OwnerInv, OnePublisher, Called
<1> QED
  BY <1>1, OwnerInvariant, PTL

\* If the arm is homed outside actions, the robot stands when its mission is over.
THEOREM StandsWhenOver ==
  ASSUME "ACTION" \notin HomesDuring
  PROVE  Spec => []StandsAtEnd
<1>1. OwnerInv => StandsAtEnd
  BY DEF OwnerInv, StandsAtEnd
<1> QED
  BY <1>1, OwnerInvariant, PTL

\* BackOnLine: if the arm is homed outside actions, an action without timeouts ends on
\* the line, whichever cell it picked from and whichever bin it dropped into
\* (take_action, put_action).
THEOREM ActionsEndOnLine ==
  ASSUME "ACTION" \notin HomesDuring
  PROVE  Spec => []BackOnLine
<1>1. MissionInv /\ OwnerInv /\ LineInv /\ [Next]_vars => LineInv'
  BY LineStep
<1>2. LineInv => BackOnLine
  BY DEF LineInv, BackOnLine
<1> QED
  BY <1>1, <1>2, LineInit, MissionInvariant, OwnerInvariant, PTL DEF Spec
=============================================================================
