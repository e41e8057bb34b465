------------------------------- MODULE Wheels -------------------------------
(***************************************************************************)
(* From a chassis command to the currents of the wheel motors, and from    *)
(* their angle reports to the odometry (chassis/chassis.c, motor.c,        *)
(* motor_dj_rm_driver.c).  A publisher stores the target; the chassis      *)
(* thread (priority 22) hands it to every motor each 50 ms, in two writes  *)
(* per motor; the interrupt ind_dj_can_motor_callback counts turns and     *)
(* queues the motor; the thread m_dj_driver (priority 3) computes the      *)
(* motor's current and sends those of all motors in one frame.  Nothing is *)
(* locked.  The control loops are floating point: a current is the mode    *)
(* and the target it was computed for.                                     *)
(***************************************************************************)
EXTENDS Integers, Sequences

CONSTANTS
  N,          \* DJ_M_NUM
  Turn,       \* angles in a turn of the rotor, 8192
  MaxMove,    \* bound on the angle between two reports that are received
  CalFrames,  \* reports that only set the offset, 50
  Cap,        \* size of dj_m_ringfifo, 4096
  Travel,     \* [motor -> bound on its rotor's way]
  Commands,   \* the chassis commands that may be published
  MaxCommands, \* bound on the commands
  MaxFaults    \* bound on failed CAN writes and on reports that come before the
               \* driver has handled the motor's last one

Motors == 0 .. N - 1
Modes == {"SPEED", "POS"}

ASSUME WheelsAssumption ==
  /\ N \in 1 .. 128 /\ Turn \in Nat /\ MaxMove \in Nat /\ 2 * MaxMove < Turn
  /\ CalFrames \in 1 .. 254 /\ Cap \in Nat \ {0} /\ Travel \in [Motors -> Nat]
  /\ Commands \subseteq [mode : Modes, val : Nat]
  /\ MaxCommands \in Nat /\ MaxFaults \in Nat

VARIABLES
  (* the chassis *)
  run_status,  \* chassis->run_status
  tgt,         \* [mode -> chassis->target]
  pub,         \* the mode of a command whose target alone is stored
  commands,    \* commands so far
  cpc,         \* where chassis_port_handle is
  cm,          \* the motor it is at
  data,        \* ops->date: the mode and targets of this pass
  (* [motor -> ...] of motor_list *)
  mode,        \* flag_run_mode
  tar,         \* tar_speed and tar_pos
  given,       \* the command last handed over completely (history)
  (* [motor -> ...] of dj_motors *)
  angle, offset, round_cnt, total_angle, msg_cnt,
  (* the driver *)
  fifo,        \* dj_m_ringfifo
  iq1_low,     \* [motor -> the current to send]
  writing,     \* m_dj_driver is in rt_device_write
  faults,      \* faults so far
  (* the motors, external *)
  place,       \* [motor -> the way of its rotor, in angles]
  zero,        \* [motor -> place at its last calibrating report] (history)
  sent         \* [motor -> the current of the last frame]

chassis == <<run_status, tgt, pub, commands, cpc, cm, data>>
targets == <<mode, tar, given>>
measure == <<angle, offset, round_cnt, total_angle, msg_cnt>>
rotors  == <<place, zero>>
vars == <<chassis, targets, measure, fifo, iq1_low, writing, faults, rotors, sent>>

\* The target a position loop computes for the speed loop.
Pid == -1
NoCurrent == [mode |-> "IDLE", val |-> 0]

Init ==
  /\ run_status = "IDLE" /\ tgt = [c \in Modes |-> 0] /\ pub = "none" /\ commands = 0
  /\ cpc = "start" /\ cm = 0 /\ data = NoCurrent
  /\ mode = [m \in Motors |-> "IDLE"] /\ tar = [m \in Motors |-> [c \in Modes |-> 0]]
  /\ given = [m \in Motors |-> NoCurrent]
  /\ angle = [m \in Motors |-> 0] /\ offset = angle /\ round_cnt = angle
  /\ total_angle = angle /\ msg_cnt = angle
  /\ fifo = << >> /\ iq1_low = [m \in Motors |-> NoCurrent] /\ writing = FALSE
  /\ faults = 0
  /\ place = angle /\ zero = place /\ sent = iq1_low

-----------------------------------------------------------------------------
(* chassis_set_speed and chassis_set_pos, called by the publisher          *)

SetTarget(c) ==
  /\ pub = "none" /\ commands < MaxCommands
  /\ tgt' = [tgt EXCEPT ![c.mode] = c.val]
  /\ pub' = c.mode /\ commands' = commands + 1
  /\ UNCHANGED <<run_status, cpc, cm, data, targets, measure, fifo, iq1_low, writing,
                 faults, rotors, sent>>

SetStatus ==
  /\ pub # "none"
  /\ run_status' = pub /\ pub' = "none"
  /\ UNCHANGED <<tgt, commands, cpc, cm, data, targets, measure, fifo, iq1_low, writing,
                 faults, rotors, sent>>

-----------------------------------------------------------------------------
(* The chassis thread                                                      *)

motorvars == <<targets, measure, fifo, iq1_low, writing, faults, rotors, sent>>

\* chassis_port_handle begins by standing where it is.
Start ==
  /\ cpc = "start" /\ cpc' = "sleep"
  /\ tgt' = [tgt EXCEPT !["POS"] = 0] /\ run_status' = "POS"
  /\ UNCHANGED <<pub, commands, cm, data, motorvars>>

\* chassis_handle reads the status ...
Wake ==
  /\ cpc = "sleep" /\ run_status # "IDLE"
  /\ cpc' = "module" /\ data' = [mode |-> run_status, val |-> 0]
  /\ UNCHANGED <<run_status, tgt, pub, commands, cm, motorvars>>

\* ... and module_mai the target.  (The four formulas read it one after the other, so
\* a publisher between them makes one pass with parts of two targets; the next pass
\* reads it again.  Here it is read once.)
Module ==
  /\ cpc = "module" /\ cpc' = "flag" /\ cm' = 0
  /\ data' = [data EXCEPT !.val = tgt[data.mode]]
  /\ UNCHANGED <<run_status, tgt, pub, commands, motorvars>>

\* motor_set_speed and motor_set_pos write the mode, then the target.
WriteMode == mode' = [mode EXCEPT ![cm] = data.mode]
WriteTarget == tar' = [tar EXCEPT ![cm][data.mode] = data.val]

\* Mutated form: the loop goes on to a motor behind the last.
NextMotor_OneMore ==
  /\ given' = [given EXCEPT ![cm] = data]
  /\ IF cm < N THEN cpc' = "flag" /\ cm' = cm + 1
               ELSE cpc' = "sleep" /\ cm' = 0

\* Mutated form: the last motor is left out.
NextMotor_SkipsLast ==
  /\ given' = [given EXCEPT ![cm] = data]
  /\ IF cm + 2 < N THEN cpc' = "flag" /\ cm' = cm + 1
                   ELSE cpc' = "sleep" /\ cm' = 0

NextMotor ==
  /\ given' = [given EXCEPT ![cm] = data]
  /\ IF cm + 1 < N THEN cpc' = "flag" /\ cm' = cm + 1
                   ELSE cpc' = "sleep" /\ cm' = 0

\* Mutated form: the target, then the mode.
MotorSet_TargetFirst ==
  /\ \/ cpc = "flag" /\ cpc' = "target" /\ WriteTarget /\ UNCHANGED <<mode, given, cm>>
     \/ cpc = "target" /\ WriteMode /\ NextMotor /\ UNCHANGED tar
  /\ UNCHANGED <<run_status, tgt, pub, commands, data, measure, fifo, iq1_low, writing,
                 faults, rotors, sent>>

\* One of the two writes for motor cm.
MotorSet ==
  /\ \/ cpc = "flag" /\ cpc' = "target" /\ WriteMode /\ UNCHANGED <<tar, given, cm>>
     \/ cpc = "target" /\ WriteTarget /\ NextMotor /\ UNCHANGED mode
  /\ UNCHANGED <<run_status, tgt, pub, commands, data, measure, fifo, iq1_low, writing,
                 faults, rotors, sent>>

-----------------------------------------------------------------------------
(* ind_dj_can_motor_callback                                               *)

CanId(m) == 513 + m

\* motor_get_by_canid: binary search in dj_motors, which has n motors, with unsigned
\* 8-bit bounds.
motor_get_by_canid(n, id) ==
  LET find[left \in 0 .. 255, right \in 0 .. 255] ==
        LET mid == (left + right) \div 2 IN
        CASE left > right     -> n
          [] CanId(mid) = id  -> mid
          [] CanId(mid) < id  -> find[(mid + 1) % 256, right]
          [] OTHER            -> find[left, (mid - 1) % 256]
  IN find[0, n - 1]

\* The search finds every motor, in a list of any length whose middle fits 8 bits.
ASSUME SearchAssumption ==
  \A n \in 1 .. 128 : \A m \in 0 .. n - 1 : motor_get_by_canid(n, CanId(m)) = m

\* rt_ringbuffer_putchar_force drops the oldest of a full buffer.
putchar_force(m) == fifo' = Append(IF Len(fifo) = Cap THEN Tail(fifo) ELSE fifo, m)

\* One of the first CalFrames reports of motor m, with angle a.
Calibrate(m, a) ==
  /\ msg_cnt' = [msg_cnt EXCEPT ![m] = @ + 1]
  /\ angle' = [angle EXCEPT ![m] = a] /\ offset' = [offset EXCEPT ![m] = a]
  /\ zero' = [zero EXCEPT ![m] = place'[m]]
  /\ UNCHANGED <<round_cnt, total_angle>>

\* Mutated form: a jump up counts as a turn forward.
Count_Swapped(m, a) ==
  /\ angle' = [angle EXCEPT ![m] = a]
  /\ round_cnt' = [round_cnt EXCEPT ![m] =
       CASE a - angle[m] > Turn \div 2    -> @ + 1
         [] a - angle[m] < -(Turn \div 2) -> @ - 1
         [] OTHER -> @]
  /\ msg_cnt' = [msg_cnt EXCEPT ![m] = 255]
  /\ total_angle' = [total_angle EXCEPT ![m] =
       round_cnt'[m] * (Turn - 1) + a - offset[m]]
  /\ UNCHANGED <<offset, zero>>

\* A later report: a jump over half a turn is a turn the other way.
Count(m, a) ==
  /\ angle' = [angle EXCEPT ![m] = a]
  /\ round_cnt' = [round_cnt EXCEPT ![m] =
       CASE a - angle[m] > Turn \div 2    -> @ - 1
         [] a - angle[m] < -(Turn \div 2) -> @ + 1
         [] OTHER -> @]
  /\ msg_cnt' = [msg_cnt EXCEPT ![m] = 255]
  /\ total_angle' = [total_angle EXCEPT ![m] =
       round_cnt'[m] * (Turn - 1) + a - offset[m]]
  /\ UNCHANGED <<offset, zero>>

\* A report of motor m, d further than the last one received (reports between the
\* two may have been lost).
Report(m, d) ==
  /\ place[m] + d \in -Travel[m] .. Travel[m]
  /\ place' = [place EXCEPT ![m] = @ + d]
  /\ IF \E k \in DOMAIN fifo : fifo[k] = m
       THEN faults < MaxFaults /\ faults' = faults + 1
       ELSE UNCHANGED faults
  /\ LET i == motor_get_by_canid(N, CanId(m))
         a == place'[m] % Turn IN
       /\ IF msg_cnt[i] < CalFrames THEN Calibrate(i, a) ELSE Count(i, a)
       /\ putchar_force(i)
  /\ UNCHANGED <<chassis, targets, iq1_low, writing, sent>>

-----------------------------------------------------------------------------
(* The thread m_dj_driver: can_rx_thread                                   *)

\* motor_behiver_2: the current for motor m, from its mode; the position loop
\* stores its output as the target of the speed loop.
Current(m) ==
  IF mode[m] = "IDLE" THEN iq1_low[m] ELSE [mode |-> mode[m], val |-> tar[m][mode[m]]]
Behave(m) ==
  tar' = IF mode[m] = "POS" THEN [tar EXCEPT ![m]["SPEED"] = Pid] ELSE tar

\* motor_handle and motor_dj_driver for the motor at the head of the queue; the
\* driver writes only when every motor has reported since the last failure.
Handle(m) ==
  /\ ~writing /\ fifo # << >> /\ Head(fifo) = m
  /\ fifo' = Tail(fifo)
  /\ Behave(m)
  /\ IF \A i \in Motors : msg_cnt[i] = 255
       THEN iq1_low' = [iq1_low EXCEPT ![m] = Current(m)] /\ writing' = TRUE
       ELSE UNCHANGED <<iq1_low, writing>>
  /\ UNCHANGED <<chassis, mode, given, measure, faults, rotors, sent>>

WriteDone ==
  /\ writing /\ writing' = FALSE
  /\ sent' = iq1_low
  /\ UNCHANGED <<chassis, targets, measure, fifo, iq1_low, faults, rotors>>

\* Mutated form: a failed write takes the place of every motor for its zero.
WriteFails_BackToZero ==
  /\ writing /\ writing' = FALSE
  /\ faults < MaxFaults /\ faults' = faults + 1
  /\ msg_cnt' = [m \in Motors |-> CalFrames]
  /\ offset' = angle /\ round_cnt' = [m \in Motors |-> 0] /\ zero' = place
  /\ UNCHANGED <<chassis, targets, angle, total_angle, fifo, iq1_low, place, sent>>

WriteFails ==
  /\ writing /\ writing' = FALSE
  /\ faults < MaxFaults /\ faults' = faults + 1
  /\ msg_cnt' = [m \in Motors |-> CalFrames]
  /\ UNCHANGED <<chassis, targets, angle, offset, round_cnt, total_angle, fifo, iq1_low,
                 rotors, sent>>

-----------------------------------------------------------------------------
ChassisThread == Start \/ Wake \/ Module \/ MotorSet
Reports(m) == \E d \in -MaxMove .. MaxMove : Report(m, d)

Next ==
  \/ \E c \in Commands : SetTarget(c)
  \/ SetStatus
  \/ ChassisThread
  \/ \E m \in Motors : Reports(m) \/ Handle(m)
  \/ WriteDone \/ WriteFails

Spec == Init /\ [][Next]_vars

\* Every thread runs, the motors report each millisecond, the CAN controller ends a
\* write, and the driver, whose priority is the highest, mostly keeps up.
FairSpec ==
  /\ Spec
  /\ WF_vars(SetStatus) /\ WF_vars(ChassisThread)
  /\ WF_vars(WriteDone \/ WriteFails)
  /\ \A m \in Motors : WF_vars(Reports(m)) /\ WF_vars(Handle(m))

-----------------------------------------------------------------------------
Currents == [mode : Modes \cup {"IDLE"}, val : Nat \cup {Pid}]

\* The chassis thread writes to motors of motor_list only, the queue of motors to
\* handle stays within its ring, and angles within a turn.
TypeOK ==
  /\ run_status \in Modes \cup {"IDLE"} /\ tgt \in [Modes -> Nat]
  /\ pub \in Modes \cup {"none"} /\ commands \in 0 .. MaxCommands
  /\ cpc \in {"start", "sleep", "module", "flag", "target"} /\ cm \in Motors
  /\ data \in Currents
  /\ mode \in [Motors -> Modes \cup {"IDLE"}]
  /\ tar \in [Motors -> [Modes -> Nat \cup {Pid}]] /\ given \in [Motors -> Currents]
  /\ angle \in [Motors -> 0 .. Turn - 1] /\ offset \in [Motors -> 0 .. Turn - 1]
  /\ round_cnt \in [Motors -> Int] /\ total_angle \in [Motors -> Int]
  /\ msg_cnt \in [Motors -> 0 .. CalFrames \cup {255}]
  /\ fifo \in Seq(Motors) /\ Len(fifo) <= Cap
  /\ iq1_low \in [Motors -> Currents] /\ writing \in BOOLEAN /\ faults \in 0 .. MaxFaults
  /\ place \in [Motors -> Int] /\ zero \in [Motors -> Int] /\ sent \in [Motors -> Currents]

\* The turn counter and the angle give the way of the rotor since calibration
\* exactly, through turns in both directions, lost reports, failed writes and
\* however the calibration was interleaved with motion.
RoundsExact ==
  \A m \in Motors :
    round_cnt[m] * Turn + angle[m] - offset[m] = place[m] - zero[m]

\* Once currents have been sent, a motor's zero stays where it is: the driver makes
\* all motors report again after a failed write, and does not calibrate them again.
ZeroKept ==
  [][\A m \in Motors : sent[m] # NoCurrent => offset'[m] = offset[m]]_vars

\* Between two passes of the chassis thread over it, a motor keeps the mode and the
\* target it was given: the position loop, which writes tar_speed, does not undo a
\* speed command that m_dj_driver interrupts between its two writes.
KeepsCommand ==
  \A m \in Motors :
    (given[m] # NoCurrent /\ ~(cpc = "target" /\ cm = m))
      => mode[m] = given[m].mode /\ tar[m][mode[m]] = given[m].val

\* When no more commands come, the frames on the bus end up carrying the current
\* for the last command to every motor, whatever was overtaken on the way.
LastCommandWins ==
  <>[](/\ run_status \in Modes
       /\ \A m \in Motors : sent[m] = [mode |-> run_status, val |-> tgt[run_status]])

\* The way that odometry and the position loops use is the rotor's own.
TotalAngleTrue ==
  \A m \in Motors : msg_cnt[m] = 255 => total_angle[m] = place[m] - zero[m]

=============================================================================
