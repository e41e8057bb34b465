---------------------------- MODULE WheelsProofs ----------------------------
(***************************************************************************)
(* For any number of motors, any turn and any commands: the turn counter   *)
(* and the angle give the way of every rotor exactly, a motor keeps the    *)
(* command it was given however the driver interrupts the chassis thread,  *)
(* and a zero in use is not moved.                                         *)
(***************************************************************************)
EXTENDS Wheels, TLAPS

\* The angle is the rotor's, and a motor that is still calibrated has not turned.
CalInv ==
  \A m \in Motors :
    /\ angle[m] = place[m] % Turn
    /\ msg_cnt[m] < CalFrames => round_cnt[m] = 0

\* While the chassis thread hands data over, it has a mode and motor cm has it.
HandInv ==
  /\ cpc \in {"module", "flag", "target"} => data.mode \in Modes
  /\ cpc = "target" => mode[cm] = data.mode

\* Currents are computed and sent only after every motor has been calibrated.
UseInv ==
  (writing \/ \E m \in Motors : iq1_low[m] # NoCurrent \/ sent[m] # NoCurrent)
    => \A i \in Motors : msg_cnt[i] >= CalFrames

-----------------------------------------------------------------------------
(* Arithmetic of a turn *)

\* Quotient and remainder of the angle.
LEMMA Division ==
  ASSUME NEW T \in Nat \ {0}, NEW x \in Int
  PROVE  /\ x % T \in 0 .. T - 1
         /\ x \div T \in Int
         /\ x = T * (x \div T) + (x % T)
OBVIOUS

\* The remainder of a number between two multiples of T.
LEMMA Remainder ==
  ASSUME NEW T \in Nat \ {0}, NEW q \in Int, NEW r \in 0 .. T - 1
  PROVE  (T * q + r) % T = r
OBVIOUS

\* A report d further than the last changes the angle by d, or by d and a turn.
LEMMA Jump ==
  ASSUME NEW T \in Nat \ {0}, NEW x \in Int, NEW d \in Int, d < T, -d < T
  PROVE  \E k \in {-1, 0, 1} : ((x + d) % T) - (x % T) = d - (k * T)
<1> DEFINE q == x \div T
           r == x % T
<1>1. r \in 0 .. T - 1 /\ q \in Int /\ x = T * q + r
  BY Division
<1> HIDE DEF q, r
<1>2. CASE r + d \in 0 .. T - 1
  <2>1. (T * q + (r + d)) % T = r + d
    BY <1>1, <1>2, Remainder
  <2>2. x + d = T * q + (r + d)
    BY <1>1
  <2> QED
    BY <1>1, <2>1, <2>2 DEF r
<1>3. CASE r + d >= T
  <2>0. q + 1 \in Int /\ r + d - T \in 0 .. T - 1
    BY <1>1, <1>3
  <2>1. (T * (q + 1) + (r + d - T)) % T = r + d - T
    BY <2>0, Remainder
  <2>2. x + d = T * (q + 1) + (r + d - T)
    BY <1>1
  <2> QED
    BY <1>1, <2>1, <2>2 DEF r
<1>4. CASE r + d < 0
  <2>0. q - 1 \in Int /\ r + d + T \in 0 .. T - 1
    BY <1>1, <1>4
  <2>1. (T * (q - 1) + (r + d + T)) % T = r + d + T
    BY <2>0, Remainder
  <2>2. x + d = T * (q - 1) + (r + d + T)
    BY <1>1
  <2> QED
    BY <1>1, <2>1, <2>2 DEF r
<1> QED
  BY <1>1, <1>2, <1>3, <1>4

\* What the callback makes of it: a jump of more than half a turn is a turn.
LEMMA Counted ==
  ASSUME NEW x \in Int, NEW d \in -MaxMove .. MaxMove
  PROVE  LET j == ((x + d) % Turn) - (x % Turn)
             k == CASE j > Turn \div 2 -> -1
                    [] j < -(Turn \div 2) -> 1
                    [] OTHER -> 0
         IN  k * Turn + j = d
<1>1. /\ Turn \in Nat \ {0} /\ MaxMove \in Nat /\ 2 * MaxMove < Turn
      /\ d \in Int /\ d <= MaxMove /\ -d <= MaxMove
  BY WheelsAssumption
<1> DEFINE j == ((x + d) % Turn) - (x % Turn)
           half == Turn \div 2
<1>2. PICK k \in {-1, 0, 1} : j = d - (k * Turn)
  <2>1. d < Turn /\ -d < Turn
    BY <1>1
  <2> QED
    BY <1>1, <2>1, Jump
<1>3. half \in Nat /\ 2 * half <= Turn /\ Turn <= 2 * half + 1
  BY <1>1
<1> HIDE DEF j, half
<1>4. CASE k = -1
  <2>1. j > half
    BY <1>1, <1>2, <1>3, <1>4
  <2> QED
    BY <1>1, <1>2, <1>3, <1>4, <2>1 DEF j, half
<1>5. CASE k = 0
  <2>1. ~(j > half) /\ ~(j < -half)
    BY <1>1, <1>2, <1>3, <1>5
  <2> QED
    BY <1>1, <1>2, <1>3, <1>5, <2>1 DEF j, half
<1>6. CASE k = 1
  <2>1. ~(j > half) /\ j < -half
    BY <1>1, <1>2, <1>3, <1>6
  <2> QED
    BY <1>1, <1>2, <1>3, <1>6, <2>1 DEF j, half
<1> QED
  BY <1>4, <1>5, <1>6

\* The motor a report is for is the one that the search finds.
LEMMA Found == \A m \in Motors : motor_get_by_canid(N, CanId(m)) = m
BY WheelsAssumption, SearchAssumption DEF Motors

-----------------------------------------------------------------------------
(* Type correctness *)

\* The parts of TypeOK, by the variables that change together.
ChassisType ==
  /\ run_status \in Modes \cup {"IDLE"} /\ tgt \in [Modes -> Nat]
  /\ pub \in Modes \cup {"none"} /\ commands \in 0 .. MaxCommands
  /\ cpc \in {"start", "sleep", "module", "flag", "target"} /\ cm \in Motors
  /\ data \in Currents
TargetType ==
  /\ mode \in [Motors -> Modes \cup {"IDLE"}]
  /\ tar \in [Motors -> [Modes -> Nat \cup {Pid}]] /\ given \in [Motors -> Currents]
MeasureType ==
  /\ angle \in [Motors -> 0 .. Turn - 1] /\ offset \in [Motors -> 0 .. Turn - 1]
  /\ round_cnt \in [Motors -> Int] /\ total_angle \in [Motors -> Int]
  /\ msg_cnt \in [Motors -> 0 .. CalFrames \cup {255}]
  /\ place \in [Motors -> Int] /\ zero \in [Motors -> Int]
DriverType ==
  /\ fifo \in Seq(Motors) /\ Len(fifo) <= Cap
  /\ iq1_low \in [Motors -> Currents] /\ writing \in BOOLEAN /\ faults \in 0 .. MaxFaults
  /\ sent \in [Motors -> Currents]

\* The type invariant by groups of variables.
LEMMA TypeParts ==
  /\ TypeOK <=> ChassisType /\ TargetType /\ MeasureType /\ DriverType
  /\ TypeOK' <=> ChassisType' /\ TargetType' /\ MeasureType' /\ DriverType'
BY DEF TypeOK, ChassisType, TargetType, MeasureType, DriverType

\* A list of motors without its first element.
LEMMA TailOfSeq ==
  ASSUME NEW s \in Seq(Motors), s # << >>
  PROVE  Tail(s) \in Seq(Motors) /\ Len(Tail(s)) = Len(s) - 1 /\ Head(s) \in Motors
OBVIOUS

\* The ring keeps the latest reports and stays within its size.
LEMMA RingStep ==
  ASSUME TypeOK, NEW m \in Motors, putchar_force(m)
  PROVE  fifo' \in Seq(Motors) /\ Len(fifo') <= Cap
<1>1. Cap \in Nat \ {0} /\ fifo \in Seq(Motors) /\ Len(fifo) <= Cap /\ Len(fifo) \in Nat
  BY WheelsAssumption DEF TypeOK
<1>2. CASE Len(fifo) = Cap
  <2>1. Tail(fifo) \in Seq(Motors) /\ Len(Tail(fifo)) = Cap - 1
    BY <1>1, <1>2, fifo # << >>, TailOfSeq
  <2> QED
    BY <1>1, <1>2, <2>1 DEF putchar_force
<1>3. CASE Len(fifo) # Cap
  BY <1>1, <1>3 DEF putchar_force
<1> QED
  BY <1>2, <1>3

\* The initial state is well typed.
LEMMA TypeInit == Init => TypeOK
<1> SUFFICES ASSUME Init PROVE TypeOK
  OBVIOUS
<1>1. 0 \in Motors /\ 0 \in 0 .. Turn - 1 /\ 0 \in 0 .. CalFrames
  BY WheelsAssumption DEF Motors
<1>2. NoCurrent \in Currents
  BY DEF NoCurrent, Currents, Modes
<1>3. ChassisType
  BY <1>1, <1>2, WheelsAssumption DEF Init, ChassisType, Modes
<1>4. TargetType
  BY <1>2 DEF Init, TargetType
<1>5. MeasureType
  BY <1>1 DEF Init, MeasureType
<1>6. DriverType
  <2>1. fifo = << >> /\ iq1_low = [m \in Motors |-> NoCurrent] /\ sent = iq1_low
    BY DEF Init
  <2>2. writing \in BOOLEAN
    BY DEF Init
  <2>3. faults \in 0 .. MaxFaults
    BY WheelsAssumption DEF Init
  <2> QED
    BY <1>2, <2>1, <2>2, <2>3, WheelsAssumption DEF DriverType
<1> QED
  BY <1>3, <1>4, <1>5, <1>6, TypeParts


\* Variables that do not change keep their types.
LEMMA TypeFrame ==
  ASSUME TypeOK
  PROVE  /\ UNCHANGED chassis => ChassisType'
         /\ UNCHANGED targets => TargetType'
         /\ UNCHANGED <<measure, rotors>> => MeasureType'
         /\ UNCHANGED <<fifo, iq1_low, writing, faults, sent>> => DriverType'
<1>0. ChassisType /\ TargetType /\ MeasureType /\ DriverType
  BY TypeParts
<1>1. UNCHANGED chassis => ChassisType'
  BY <1>0 DEF ChassisType, chassis
<1>2. UNCHANGED targets => TargetType'
  BY <1>0 DEF TargetType, targets
<1>3. UNCHANGED <<measure, rotors>> => MeasureType'
  BY <1>0 DEF MeasureType, measure, rotors
<1>4. UNCHANGED <<fifo, iq1_low, writing, faults, sent>> => DriverType'
  BY <1>0 DEF DriverType
<1> QED
  BY <1>1, <1>2, <1>3, <1>4

\* The chassis thread and the publishers.
LEMMA ChassisStep ==
  ASSUME TypeOK, HandInv,
         (\E c \in Commands : SetTarget(c)) \/ SetStatus \/ Start \/ Wake \/ Module \/ MotorSet
  PROVE  ChassisType' /\ TargetType'
<1> USE DEF ChassisType
<1>0. ChassisType /\ TargetType
  BY TypeParts
<1>1. ASSUME NEW c \in Commands, SetTarget(c) PROVE ChassisType' /\ TargetType'
  <2>1. c.mode \in Modes /\ c.val \in Nat
    BY WheelsAssumption
  <2> QED
    BY <1>0, <1>1, <2>1, WheelsAssumption, TypeFrame DEF SetTarget
<1>2. CASE SetStatus
  BY <1>0, <1>2, TypeFrame DEF SetStatus
<1>3. CASE Start
  BY <1>0, <1>3, TypeFrame DEF Start, motorvars, Modes
<1>4. CASE Wake
  BY <1>0, <1>4, TypeFrame DEF Wake, motorvars, Currents
<1>5. CASE Module
  <2>1. data.mode \in Modes
    BY <1>5 DEF HandInv, Module
  <2>2. 0 \in Motors
    BY WheelsAssumption DEF Motors
  <2> QED
    BY <1>0, <1>5, <2>1, <2>2, TypeFrame DEF Module, motorvars, Currents
<1>6. CASE MotorSet
  <2>1. data.mode \in Modes /\ data.val \in Nat \cup {Pid}
    BY <1>0, <1>6 DEF HandInv, MotorSet, Currents
  <2>2. CASE cpc = "flag" /\ cpc' = "target" /\ WriteMode /\ UNCHANGED <<tar, given, cm>>
    BY <1>0, <1>6, <2>1, <2>2 DEF MotorSet, WriteMode, TargetType
  <2>3. CASE cpc = "target" /\ WriteTarget /\ NextMotor /\ UNCHANGED mode
    <3>1. cpc' \in {"flag", "sleep"} /\ cm' \in Motors
      BY <1>0, <2>3, WheelsAssumption DEF NextMotor, Motors
    <3>2. TargetType'
      BY <1>0, <2>1, <2>3 DEF WriteTarget, NextMotor, TargetType
    <3> QED
      BY <1>0, <1>6, <3>1, <3>2 DEF MotorSet
  <2> QED
    BY <1>6, <2>2, <2>3 DEF MotorSet
<1> QED
  BY <1>1, <1>2, <1>3, <1>4, <1>5, <1>6

\* A report.
LEMMA ReportStep ==
  ASSUME TypeOK, NEW m \in Motors, NEW d \in -MaxMove .. MaxMove, Report(m, d)
  PROVE  /\ TypeOK'
         /\ place' = [place EXCEPT ![m] = place[m] + d] /\ place[m] + d \in Int
         /\ \/ Calibrate(m, place'[m] % Turn) /\ msg_cnt[m] < CalFrames
            \/ Count(m, place'[m] % Turn) /\ ~(msg_cnt[m] < CalFrames)
<1>0. MeasureType /\ DriverType
  BY TypeParts
<1>1. place' = [place EXCEPT ![m] = place[m] + d] /\ place[m] + d \in Int
  <2>1. place[m] \in Int /\ d \in Int
    BY <1>0, WheelsAssumption DEF MeasureType
  <2> QED
    BY <2>1 DEF Report
<1>2. (place'[m] % Turn) \in 0 .. Turn - 1 /\ place' \in [Motors -> Int]
  <2>1. place'[m] = place[m] + d /\ place' \in [Motors -> Int]
    BY <1>0, <1>1 DEF MeasureType
  <2> QED
    BY <1>1, <2>1, WheelsAssumption, Division
<1>3. /\ putchar_force(m)
      /\ IF msg_cnt[m] < CalFrames THEN Calibrate(m, place'[m] % Turn)
                                   ELSE Count(m, place'[m] % Turn)
  BY Found DEF Report
<1>4. MeasureType'
  <2> DEFINE a == place'[m] % Turn
  <2> HIDE DEF a
  <2>1. a \in 0 .. Turn - 1 /\ a \in Int
    BY <1>2, WheelsAssumption DEF a
  <2>2. CASE Calibrate(m, a) /\ msg_cnt[m] < CalFrames
    <3>1. msg_cnt[m] + 1 \in 0 .. CalFrames
      BY <1>0, <2>2, WheelsAssumption DEF MeasureType
    <3> QED
      BY <1>0, <1>2, <2>1, <2>2, <3>1 DEF Calibrate, MeasureType
  <2>3. CASE Count(m, a)
    <3>1. round_cnt' \in [Motors -> Int]
      BY <1>0, <2>3 DEF Count, MeasureType
    <3>2. round_cnt'[m] * (Turn - 1) + a - offset[m] \in Int
      BY <1>0, <2>1, <3>1, WheelsAssumption DEF MeasureType
    <3> QED
      BY <1>0, <1>2, <2>1, <2>3, <3>1, <3>2 DEF Count, MeasureType
  <2> QED
    BY <1>3, <2>2, <2>3 DEF a
<1>5. DriverType'
  <2>1. fifo' \in Seq(Motors) /\ Len(fifo') <= Cap
    BY <1>3, RingStep
  <2>2. faults' \in 0 .. MaxFaults
    BY <1>0, WheelsAssumption DEF Report, DriverType
  <2> QED
    BY <1>0, <2>1, <2>2 DEF Report, DriverType
<1> QED
  BY <1>1, <1>3, <1>4, <1>5, TypeParts, TypeFrame DEF Report

\* The driver handles a motor.
LEMMA HandleStep ==
  ASSUME TypeOK, NEW m \in Motors, Handle(m)
  PROVE  TypeOK'
<1>0. TargetType /\ DriverType
  BY TypeParts
<1>1. fifo' \in Seq(Motors) /\ Len(fifo') <= Cap
  <2>1. fifo \in Seq(Motors) /\ fifo # << >> /\ fifo' = Tail(fifo) /\ Len(fifo) <= Cap
    BY <1>0 DEF Handle, DriverType
  <2> QED
    BY <2>1, TailOfSeq, WheelsAssumption
<1>2. TargetType'
  BY <1>0 DEF Handle, Behave, TargetType, Modes
<1>3. Current(m) \in Currents
  BY <1>0 DEF Current, TargetType, DriverType, Currents
<1>4. iq1_low' \in [Motors -> Currents]
  BY <1>0, <1>3 DEF Handle, DriverType
<1>5. writing' \in BOOLEAN /\ UNCHANGED <<faults, sent>>
  BY <1>0 DEF Handle, DriverType
<1>6. DriverType'
  BY <1>0, <1>1, <1>4, <1>5 DEF DriverType
<1> QED
  BY <1>2, <1>6, TypeParts, TypeFrame DEF Handle

\* Every step keeps the types.
LEMMA TypeStep == TypeOK /\ HandInv /\ [Next]_vars => TypeOK'
<1> SUFFICES ASSUME TypeOK, HandInv, [Next]_vars PROVE TypeOK'
  OBVIOUS
<1>1. CASE (\E c \in Commands : SetTarget(c)) \/ SetStatus \/ ChassisThread
  <2>1. ChassisType' /\ TargetType'
    BY <1>1, ChassisStep DEF ChassisThread
  <2>2. UNCHANGED <<measure, rotors>> /\ UNCHANGED <<fifo, iq1_low, writing, faults, sent>>
    BY <1>1 DEF ChassisThread, SetTarget, SetStatus, Start, Wake, Module, MotorSet, motorvars
  <2> QED
    BY <2>1, <2>2, TypeParts, TypeFrame
<1>2. ASSUME NEW m \in Motors, NEW d \in -MaxMove .. MaxMove, Report(m, d) PROVE TypeOK'
  BY <1>2, ReportStep
<1>3. ASSUME NEW m \in Motors, Handle(m) PROVE TypeOK'
  BY <1>3, HandleStep
<1>4. CASE WriteDone
  <2>1. sent' \in [Motors -> Currents] /\ UNCHANGED <<fifo, iq1_low, faults>>
    BY <1>4, TypeParts DEF WriteDone, DriverType
  <2>2. writing' \in BOOLEAN
    BY <1>4 DEF WriteDone
  <2>3. DriverType'
    BY <2>1, <2>2, TypeParts DEF DriverType
  <2> QED
    BY <1>4, <2>3, TypeParts, TypeFrame DEF WriteDone
<1>5. CASE WriteFails
  <2>1. DriverType'
    <3>1. writing' \in BOOLEAN
      BY <1>5 DEF WriteFails
    <3>2. faults' \in 0 .. MaxFaults
      BY <1>5, TypeParts, WheelsAssumption DEF WriteFails, DriverType
    <3> QED
      BY <1>5, <3>1, <3>2, TypeParts DEF WriteFails, DriverType
  <2>2. MeasureType'
    BY <1>5, TypeParts, WheelsAssumption DEF WriteFails, MeasureType, rotors
  <2> QED
    BY <1>5, <2>1, <2>2, TypeParts, TypeFrame DEF WriteFails
<1>6. CASE UNCHANGED vars
  BY <1>6, TypeParts, TypeFrame DEF vars
<1> QED
  BY <1>1, <1>2, <1>3, <1>4, <1>5, <1>6 DEF Next, Reports


-----------------------------------------------------------------------------
(* The chassis thread and the driver share a motor's mode and target       *)

\* The chassis thread writes nothing but the command it has read.
LEMMA HandStep == TypeOK /\ HandInv /\ KeepsCommand /\ [Next]_vars => HandInv' /\ KeepsCommand'
<1> SUFFICES ASSUME TypeOK, HandInv, KeepsCommand, [Next]_vars
             PROVE  HandInv' /\ KeepsCommand'
  OBVIOUS
<1>0. ChassisType /\ TargetType
  BY TypeParts
<1>1. ASSUME UNCHANGED <<cpc, cm, data, targets>> PROVE HandInv' /\ KeepsCommand'
  BY <1>1 DEF HandInv, KeepsCommand, targets
<1>2. CASE Start \/ Wake \/ Module
  <2>1. UNCHANGED targets /\ cpc # "target" /\ cpc' # "target"
    BY <1>2 DEF Start, Wake, Module, motorvars
  <2>2. KeepsCommand'
    BY <2>1 DEF KeepsCommand, targets
  <2>3. HandInv'
    BY <1>0, <1>2, <2>1 DEF HandInv, Start, Wake, Module, ChassisType, Currents
  <2> QED
    BY <2>2, <2>3
<1>3. CASE MotorSet
  <2>1. data' = data /\ data.mode \in Modes /\ cm \in Motors
    BY <1>0, <1>3 DEF MotorSet, HandInv, ChassisType
  <2>2. CASE cpc = "flag" /\ cpc' = "target" /\ WriteMode /\ UNCHANGED <<tar, given, cm>>
    <3>1. HandInv'
      BY <1>0, <2>1, <2>2 DEF HandInv, WriteMode, TargetType
    <3>2. KeepsCommand'
      BY <1>0, <2>1, <2>2 DEF KeepsCommand, WriteMode, TargetType
    <3> QED
      BY <3>1, <3>2
  <2>3. CASE cpc = "target" /\ WriteTarget /\ NextMotor /\ UNCHANGED mode
    <3>1. HandInv'
      BY <2>1, <2>3 DEF HandInv, NextMotor
    <3>2. mode'[cm] = data.mode /\ given'[cm] = data /\ tar'[cm][data.mode] = data.val
      BY <1>0, <2>1, <2>3 DEF HandInv, WriteTarget, NextMotor, TargetType
    <3>3. \A m \in Motors \ {cm} : /\ mode'[m] = mode[m] /\ given'[m] = given[m]
                                   /\ tar'[m] = tar[m]
      BY <1>0, <2>1, <2>3 DEF WriteTarget, NextMotor, TargetType
    <3>4. KeepsCommand'
      BY <2>1, <2>3, <3>2, <3>3 DEF KeepsCommand
    <3> QED
      BY <3>1, <3>4
  <2> QED
    BY <1>3, <2>2, <2>3 DEF MotorSet
<1>4. ASSUME NEW m \in Motors, Handle(m) PROVE HandInv' /\ KeepsCommand'
  \* The position loop writes the target of the mode that is not in force.
  <2>1. UNCHANGED <<cpc, cm, data, mode, given>>
    BY <1>4 DEF Handle, chassis
  <2>2. \A i \in Motors : tar'[i][mode[i]] = tar[i][mode[i]]
    BY <1>0, <1>4 DEF Handle, Behave, TargetType, Modes
  <2> QED
    BY <2>1, <2>2 DEF HandInv, KeepsCommand
<1>5. CASE UNCHANGED vars
  BY <1>1, <1>5 DEF vars, chassis
<1>6. CASE (\E c \in Commands : SetTarget(c)) \/ SetStatus
  BY <1>1, <1>6 DEF SetTarget, SetStatus
<1>7. CASE (\E m \in Motors : Reports(m)) \/ WriteDone \/ WriteFails
  BY <1>1, <1>7 DEF Reports, Report, WriteDone, WriteFails, chassis
<1> QED
  BY <1>2, <1>3, <1>4, <1>5, <1>6, <1>7 DEF Next, ChassisThread

-----------------------------------------------------------------------------
(* Counting turns *)

\* Calibration and counting keep the turns exact.
LEMMA CalStep == TypeOK /\ CalInv /\ RoundsExact /\ [Next]_vars => CalInv' /\ RoundsExact'
<1> SUFFICES ASSUME TypeOK, CalInv, RoundsExact, [Next]_vars
             PROVE  CalInv' /\ RoundsExact'
  OBVIOUS
<1>1. ASSUME UNCHANGED <<measure, rotors>> PROVE CalInv' /\ RoundsExact'
  BY <1>1 DEF CalInv, RoundsExact, measure, rotors
<1>2. ASSUME NEW m \in Motors, NEW d \in -MaxMove .. MaxMove, Report(m, d)
      PROVE  CalInv' /\ RoundsExact'
  <2> DEFINE a == place'[m] % Turn
  <2>0. MeasureType /\ d \in Int /\ Turn \in Nat \ {0}
    BY TypeParts, WheelsAssumption
  <2>1. /\ place' = [place EXCEPT ![m] = place[m] + d] /\ place'[m] = place[m] + d
        /\ a = (place[m] + d) % Turn /\ a \in 0 .. Turn - 1 /\ a \in Int
        /\ \/ Calibrate(m, a) /\ msg_cnt[m] < CalFrames
           \/ Count(m, a) /\ ~(msg_cnt[m] < CalFrames)
    <3>1. place' = [place EXCEPT ![m] = place[m] + d] /\ place[m] + d \in Int
      BY <1>2, ReportStep
    <3>2. place'[m] = place[m] + d
      BY <2>0, <3>1 DEF MeasureType
    <3>3. a \in 0 .. Turn - 1 /\ a \in Int
      BY <2>0, <3>1, <3>2, Division
    <3> QED
      BY <1>2, <3>1, <3>2, <3>3, ReportStep
  <2> HIDE DEF a
  <2>2. \A i \in Motors \ {m} : /\ angle'[i] = angle[i] /\ place'[i] = place[i]
                                /\ msg_cnt'[i] = msg_cnt[i] /\ zero'[i] = zero[i]
                                /\ round_cnt'[i] = round_cnt[i] /\ offset'[i] = offset[i]
    BY <2>0, <2>1 DEF Calibrate, Count, MeasureType
  <2>3. angle'[m] = place'[m] % Turn
    BY <2>0, <2>1 DEF Calibrate, Count, MeasureType, a
  <2>4. CASE Calibrate(m, a) /\ msg_cnt[m] < CalFrames
    <3>1. /\ round_cnt'[m] = 0 /\ angle'[m] = a /\ offset'[m] = a /\ zero'[m] = place'[m]
      BY <2>0, <2>4 DEF Calibrate, CalInv, MeasureType
    <3>2. round_cnt'[m] * Turn + angle'[m] - offset'[m] = place'[m] - zero'[m]
      BY <2>0, <2>1, <3>1 DEF MeasureType
    <3> QED
      BY <2>2, <2>3, <3>1, <3>2 DEF CalInv, RoundsExact
  <2>5. CASE Count(m, a)
    <3> DEFINE j == a - angle[m]
               k == CASE j > Turn \div 2 -> -1
                      [] j < -(Turn \div 2) -> 1
                      [] OTHER -> 0
    <3>1. k * Turn + j = d /\ k \in Int /\ j \in Int
      <4>1. angle[m] = place[m] % Turn /\ place[m] \in Int
        BY <2>0 DEF CalInv, MeasureType
      <4>2. j = ((place[m] + d) % Turn) - (place[m] % Turn) /\ j \in Int
        BY <2>0, <2>1, <4>1, Division
      <4>3. k \in Int
        OBVIOUS
      <4>4. k * Turn + j = d
        BY <4>1, <4>2, Counted, Zenon
      <4> QED
        BY <4>2, <4>3, <4>4
    <3>2. round_cnt'[m] = round_cnt[m] + k
      BY <2>0, <2>1, <2>5 DEF Count, MeasureType
    <3>3. /\ angle'[m] = a /\ offset'[m] = offset[m] /\ zero'[m] = zero[m]
          /\ msg_cnt'[m] = 255
      BY <2>0, <2>5 DEF Count, MeasureType
    <3> HIDE DEF j, k
    <3>4. (round_cnt[m] + k) * Turn = round_cnt[m] * Turn + k * Turn
      BY <2>0, <3>1 DEF MeasureType
    <3>5. round_cnt'[m] * Turn + angle'[m] - offset'[m] = place'[m] - zero'[m]
      <4>1. round_cnt[m] * Turn + angle[m] - offset[m] = place[m] - zero[m]
        BY DEF RoundsExact
      <4>2. a = angle[m] + j
        BY <2>0, <2>1 DEF j, MeasureType
      <4> DEFINE w == round_cnt[m] * Turn
                 u == k * Turn
      <4>3. w \in Int /\ u \in Int
        BY <2>0, <3>1 DEF MeasureType
      <4>4. w + u + a - offset[m] = place[m] + d - zero[m]
        <5>1. w + angle[m] - offset[m] = place[m] - zero[m] /\ u + j = d
          BY <3>1, <4>1
        <5> HIDE DEF w, u
        <5> QED
          BY <2>0, <3>1, <4>2, <4>3, <5>1 DEF MeasureType
      <4>5. round_cnt'[m] * Turn = w + u
        BY <3>2, <3>4
      <4> HIDE DEF w, u
      <4> QED
        BY <2>0, <2>1, <3>3, <4>3, <4>4, <4>5 DEF MeasureType
    <3> QED
      BY <2>2, <2>3, <3>3, <3>5, WheelsAssumption DEF CalInv, RoundsExact
  <2> QED
    BY <2>1, <2>4, <2>5
<1>3. CASE WriteFails
  <2>1. /\ UNCHANGED <<angle, offset, round_cnt, rotors>>
        /\ \A m \in Motors : msg_cnt'[m] = CalFrames
    BY <1>3 DEF WriteFails
  <2> QED
    BY <2>1, WheelsAssumption DEF CalInv, RoundsExact, rotors
<1>4. CASE (\E c \in Commands : SetTarget(c)) \/ SetStatus \/ ChassisThread
  BY <1>1, <1>4
     DEF ChassisThread, SetTarget, SetStatus, Start, Wake, Module, MotorSet, motorvars
<1>5. CASE (\E m \in Motors : Handle(m)) \/ WriteDone \/ UNCHANGED vars
  BY <1>1, <1>5 DEF Handle, WriteDone, vars
<1> QED
  BY <1>2, <1>3, <1>4, <1>5 DEF Next, Reports


-----------------------------------------------------------------------------
(* A zero in use *)

\* Only a motor that is still calibrated changes its offset.
LEMMA OffsetStep ==
  ASSUME TypeOK, [Next]_vars, NEW m \in Motors, msg_cnt[m] >= CalFrames
  PROVE  offset'[m] = offset[m] /\ msg_cnt'[m] >= CalFrames
<1>0. /\ MeasureType /\ CalFrames \in 1 .. 254
      /\ msg_cnt[m] \in Nat /\ ~(msg_cnt[m] < CalFrames)
  BY TypeParts, WheelsAssumption DEF MeasureType
<1>1. ASSUME UNCHANGED measure PROVE offset'[m] = offset[m] /\ msg_cnt'[m] >= CalFrames
  BY <1>1 DEF measure
<1>2. ASSUME NEW i \in Motors, NEW d \in -MaxMove .. MaxMove, Report(i, d)
      PROVE  offset'[m] = offset[m] /\ msg_cnt'[m] >= CalFrames
  <2> DEFINE a == place'[i] % Turn
  <2>1. \/ Calibrate(i, a) /\ msg_cnt[i] < CalFrames
        \/ Count(i, a)
    BY <1>2, ReportStep
  <2> HIDE DEF a
  <2>2. CASE Calibrate(i, a) /\ msg_cnt[i] < CalFrames
    BY <1>0, <2>2 DEF Calibrate, MeasureType
  <2>3. CASE Count(i, a)
    BY <1>0, <2>3 DEF Count, MeasureType
  <2> QED
    BY <2>1, <2>2, <2>3
<1>3. CASE WriteFails
  BY <1>0, <1>3 DEF WriteFails
<1>4. CASE (\E c \in Commands : SetTarget(c)) \/ SetStatus \/ ChassisThread
  BY <1>1, <1>4
     DEF ChassisThread, SetTarget, SetStatus, Start, Wake, Module, MotorSet, motorvars
<1>5. CASE (\E i \in Motors : Handle(i)) \/ WriteDone \/ UNCHANGED vars
  BY <1>1, <1>5 DEF Handle, WriteDone, vars
<1> QED
  BY <1>2, <1>3, <1>4, <1>5 DEF Next, Reports

\* A zero that is in use stays.
LEMMA UseStep == TypeOK /\ UseInv /\ [Next]_vars => UseInv'
<1> SUFFICES ASSUME TypeOK, UseInv, [Next]_vars PROVE UseInv'
  OBVIOUS
<1>1. ASSUME UNCHANGED <<iq1_low, writing, sent>> PROVE UseInv'
  BY <1>1, OffsetStep DEF UseInv
<1>2. ASSUME NEW m \in Motors, Handle(m) PROVE UseInv'
  <2>1. CASE \A i \in Motors : msg_cnt[i] = 255
    <3>1. \A i \in Motors : msg_cnt'[i] >= CalFrames
      BY <1>2, <2>1, WheelsAssumption DEF Handle, measure
    <3> QED
      BY <3>1 DEF UseInv
  <2>2. CASE ~\A i \in Motors : msg_cnt[i] = 255
    BY <1>1, <1>2, <2>2 DEF Handle
  <2> QED
    BY <2>1, <2>2
<1>3. CASE WriteDone
  BY <1>3, OffsetStep DEF WriteDone, UseInv
<1>4. CASE WriteFails
  BY <1>4, OffsetStep DEF WriteFails, UseInv
<1>5. CASE (\E c \in Commands : SetTarget(c)) \/ SetStatus \/ ChassisThread
  BY <1>1, <1>5
     DEF ChassisThread, SetTarget, SetStatus, Start, Wake, Module, MotorSet, motorvars
<1>6. CASE (\E m \in Motors : Reports(m)) \/ UNCHANGED vars
  BY <1>1, <1>6 DEF Reports, Report, vars
<1> QED
  BY <1>2, <1>3, <1>4, <1>5, <1>6 DEF Next

-----------------------------------------------------------------------------
WheelsInv == TypeOK /\ HandInv /\ KeepsCommand /\ CalInv /\ RoundsExact /\ UseInv

\* The invariant holds in every reachable state.
LEMMA WheelsInvariant == Spec => []WheelsInv
<1>1. Init => WheelsInv
  <2> SUFFICES ASSUME Init PROVE WheelsInv
    OBVIOUS
  <2>1. HandInv /\ KeepsCommand
    BY DEF Init, HandInv, KeepsCommand
  <2>2. Turn \in Nat \ {0} /\ 0 % Turn = 0
    BY WheelsAssumption
  <2>3. CalInv /\ RoundsExact
    BY <2>2 DEF Init, CalInv, RoundsExact
  <2>4. UseInv
    BY DEF Init, UseInv
  <2> QED
    BY <2>1, <2>3, <2>4, TypeInit DEF WheelsInv
<1>2. WheelsInv /\ [Next]_vars => WheelsInv'
  BY TypeStep, HandStep, CalStep, UseStep DEF WheelsInv
<1> QED
  BY <1>1, <1>2, PTL DEF Spec

\* Every variable keeps its type: angles stay within a turn, and the queue that the
\* interrupt fills and m_dj_driver empties within its ring.
THEOREM WheelsTypeCorrect == Spec => []TypeOK
<1>1. WheelsInv => TypeOK
  BY DEF WheelsInv
<1> QED
  BY <1>1, WheelsInvariant, PTL

\* ind_dj_can_motor_callback counts turns exactly, for every number of motors, every
\* turn, any way of the rotors and any failed writes, as long as two reports that
\* are received are less than half a turn apart.
THEOREM TurnsCountedExactly == Spec => []RoundsExact
<1>1. WheelsInv => RoundsExact
  BY DEF WheelsInv
<1> QED
  BY <1>1, WheelsInvariant, PTL

\* The driver, which interrupts the chassis thread between its two writes to a
\* motor and writes a target itself, never undoes a command.
THEOREM CommandsKept == Spec => []KeepsCommand
<1>1. WheelsInv => KeepsCommand
  BY DEF WheelsInv
<1> QED
  BY <1>1, WheelsInvariant, PTL

\* A motor that has been sent a current is not calibrated again, whatever CAN
\* writes fail.
THEOREM ZerosKept == Spec => ZeroKept
<1>1. WheelsInv /\ [Next]_vars
        => [\A m \in Motors : sent[m] # NoCurrent => offset'[m] = offset[m]]_vars
  BY OffsetStep DEF WheelsInv, UseInv
<1> QED
  BY <1>1, WheelsInvariant, PTL DEF Spec, ZeroKept
=============================================================================
