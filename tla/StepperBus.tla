----------------------------- MODULE StepperBus -----------------------------
(***************************************************************************)
(* The two closed-loop stepper motors of the arm on one UART (Emm_V5.c,    *)
(* drv_stepper_motor.c).  The thread drv_stepper_motor (priority 25) sends *)
(* commands; the thread drv_process_steppermotor (priority 6) takes their  *)
(* answers; the interrupt Emm_uart_receive_callback counts the bytes that  *)
(* arrive.  They meet at one mutex, two semaphores and the global          *)
(* stepper_motor_cmd_state.  Priorities matter: the sender runs only while *)
(* the receiver is blocked.                                                *)
(***************************************************************************)
EXTENDS Integers, Sequences

CONSTANTS
  MaxFaults,  \* bound on the bytes the line makes up or loses
  MaxPending  \* bound on the bytes and counts of cmp_sem left over from earlier
              \* commands: after a fault both may pile up, and the model does
              \* not follow the sender further

ASSUME FaultsAssumption == MaxFaults \in Nat /\ MaxPending \in Nat

VARIABLES
  phase,      \* where drv_stepper_motor is between its batches of commands
  todo,       \* commands left of the batch
  spc,        \* where it is within one command
  rpc,        \* where drv_process_steppermotor is
  state,      \* stepper_motor_cmd_state
  owner,      \* the holder of mutex_step
  step_sem,   \* value of step_sem: commands sent
  cmp_sem,    \* value of cmp_sem: answers complete
  rxCount,    \* bytes waiting, as the interrupt last saw them
  buf,        \* the receive buffer of the UART
  rxCmd,      \* the first bytes of the answer taken out of it
  angle,      \* [motor -> stepper_motor_angle], at home or away from it
  init_flag,  \* [motor -> big_arm_init_flag, small_arm_init_flag]
  (* the line and the motors, external *)
  reply,      \* the answer to the last command
  wire,       \* bytes the motors have still to deliver
  place,      \* [motor -> where the arm is]
  faults      \* bytes made up or lost so far

sender   == <<phase, todo, spc, init_flag>>
receiver == <<rpc, rxCmd, angle>>
shared   == <<state, owner, step_sem, cmp_sem>>
uart     == <<rxCount, buf>>
line     == <<reply, wire>>
vars == <<sender, receiver, shared, uart, line, place, faults>>

-----------------------------------------------------------------------------
(* Commands and answers *)

Motors == {1, 3}
Places == {"home", "away"}

Command(m, k) == [motor |-> m, kind |-> k]
En_Control(m) == Command(m, "Ans")
Pos_Control(m) == Command(m, "Ans")
Reset_CurPos_To_Zero(m) == Command(m, "Ans")
Read_Sys_Params(m, s) == Command(m, s)

\* The answers that are read as a frame of a fixed length ...
Framed == {"CPHA", "VEL", "CPOS", "PERR", "FLAG", "ORG"}
Kinds == Framed \cup {"Ans"}
\* ... and those whose function code is looked at.
Coded == {"CPHA", "VEL", "CPOS"}

\* Bytes an answer needs before the receiver is told of it.
Need(k) ==
  CASE k = "CPHA" -> 5
    [] k = "VEL" -> 6
    [] k \in {"CPOS", "PERR"} -> 8
    [] OTHER -> 4

\* A byte is its place in the answer it belongs to.
Byte(r, i) == [of |-> r, at |-> i]
Nobody == [motor |-> 0, kind |-> "noise", val |-> "away"]
Noise == Byte(Nobody, 0)
Answer(r) == [i \in 1 .. Need(r.kind) |-> Byte(r, i)]
Replies == [motor : Motors, kind : Kinds, val : Places] \cup {Nobody}

-----------------------------------------------------------------------------
Init ==
  /\ phase = "disarm" /\ spc = "take"
  /\ todo = << En_Control(1), En_Control(3) >>
  /\ rpc = "step" /\ state = "IDLE" /\ owner = "none"
  /\ step_sem = 0 /\ cmp_sem = 0 /\ rxCount = 0 /\ buf = << >>
  /\ rxCmd = [i \in 1 .. 8 |-> Noise]
  /\ angle = [m \in Motors |-> "away"] /\ init_flag = [m \in Motors |-> FALSE]
  /\ reply = Nobody /\ wire = << >>
  /\ place \in [Motors -> Places]
  /\ faults = 0

-----------------------------------------------------------------------------
(* One command: take the mutex, set the state, transmit, give the mutex    *)
(* back, post the receiver.                                                *)

\* The receiver waits: only then does a thread of lower priority run.
ReceiverBlocked ==
  \/ rpc = "step" /\ step_sem = 0
  \/ rpc = "mutex" /\ owner = "sender"
  \/ rpc = "cmp" /\ cmp_sem = 0

\* Mutated form: the sender does not wait for the mutex.
SendTake_NoWait ==
  /\ ReceiverBlocked
  /\ spc = "take" /\ todo # << >>
  /\ cmp_sem + Len(wire) <= MaxPending
  /\ owner' = "sender" /\ spc' = "set"
  /\ UNCHANGED <<phase, todo, init_flag, receiver, state, step_sem, cmp_sem, uart,
                 line, place, faults>>

SendTake ==
  /\ ReceiverBlocked
  /\ spc = "take" /\ todo # << >> /\ owner = "none"
  /\ cmp_sem + Len(wire) <= MaxPending
  /\ owner' = "sender" /\ spc' = "set"
  /\ UNCHANGED <<phase, todo, init_flag, receiver, state, step_sem, cmp_sem, uart,
                 line, place, faults>>

SendState ==
  /\ ReceiverBlocked
  /\ spc = "set"
  /\ state' = Head(todo).kind /\ spc' = "transmit"
  /\ UNCHANGED <<phase, todo, init_flag, receiver, owner, step_sem, cmp_sem, uart,
                 line, place, faults>>

\* The motor begins to answer.
SendTransmit ==
  /\ ReceiverBlocked
  /\ spc = "transmit"
  /\ reply' = [motor |-> Head(todo).motor, kind |-> Head(todo).kind,
               val |-> place[Head(todo).motor]]
  /\ wire' = wire \o Answer(reply')
  /\ spc' = "release"
  /\ UNCHANGED <<phase, todo, init_flag, receiver, shared, uart, place, faults>>

SendRelease ==
  /\ ReceiverBlocked
  /\ spc = "release"
  /\ owner' = "none" /\ spc' = "post"
  /\ UNCHANGED <<phase, todo, init_flag, receiver, state, step_sem, cmp_sem, uart,
                 line, place, faults>>

\* Mutated form: the receiver is posted twice.
SendPost_Twice ==
  /\ ReceiverBlocked
  /\ spc = "post"
  /\ step_sem' = step_sem + 2
  /\ todo' = Tail(todo) /\ spc' = "take"
  /\ UNCHANGED <<phase, init_flag, receiver, state, owner, cmp_sem, uart, line, place,
                 faults>>

SendPost ==
  /\ ReceiverBlocked
  /\ spc = "post"
  /\ step_sem' = step_sem + 1
  /\ todo' = Tail(todo) /\ spc' = "take"
  /\ UNCHANGED <<phase, init_flag, receiver, state, owner, cmp_sem, uart, line, place,
                 faults>>

-----------------------------------------------------------------------------
(* drv_stepper_motor between commands *)

\* The sender has sent the batch of phase p and goes on with another.
Between(p, q, batch) ==
  /\ ReceiverBlocked
  /\ spc = "take" /\ todo = << >> /\ phase = p
  /\ phase' = q /\ todo' = batch
  /\ UNCHANGED <<spc, receiver, shared, uart, line, place, faults>>

\* Each turn of the homing loop asks both arms where they are ...
HomeRead ==
  /\ Between("disarm", "read", << Read_Sys_Params(1, "CPOS"), Read_Sys_Params(3, "CPOS") >>)
  /\ UNCHANGED init_flag

\* ... and enables an arm that is seen at home, the big one, then the small one.
HomeArm(p, q, m) ==
  LET seen == angle[m] = "home" /\ ~init_flag[m]
  IN /\ Between(p, q, IF seen THEN << En_Control(m) >> ELSE << >>)
     /\ init_flag' = [init_flag EXCEPT ![m] = @ \/ seen]

HomeBig == HomeArm("read", "big", 1)
\* Mutated form: the test of the big arm is repeated.
HomeSmall_Copy == HomeArm("big", "small", 1)

HomeSmall == HomeArm("big", "small", 3)

HomeAgain ==
  /\ \E m \in Motors : ~init_flag[m]
  /\ Between("small", "disarm", << >>)
  /\ UNCHANGED init_flag

HomeZero ==
  /\ \A m \in Motors : init_flag[m]
  /\ Between("small", "zero", << Reset_CurPos_To_Zero(1), Reset_CurPos_To_Zero(3) >>)
  /\ UNCHANGED init_flag

Readings(m) ==
  << Read_Sys_Params(m, "CPOS"), Read_Sys_Params(m, "VEL"), Read_Sys_Params(m, "PERR"),
     Read_Sys_Params(m, "FLAG"), Read_Sys_Params(m, "ORG"), Read_Sys_Params(m, "CPHA") >>

\* Homing is over, rbmg_mode is LINE_MODE; from now on the arm is driven and read.
Run(p) ==
  /\ Between(p, "run", << Pos_Control(1), Pos_Control(3) >> \o Readings(1) \o Readings(3))
  /\ UNCHANGED init_flag

RunFirst == Run("zero")
RunAgain == Run("run")

Sender ==
  \/ SendTake \/ SendState \/ SendTransmit \/ SendRelease \/ SendPost
  \/ HomeRead \/ HomeBig \/ HomeSmall \/ HomeAgain \/ HomeZero \/ RunFirst \/ RunAgain

-----------------------------------------------------------------------------
(* drv_process_steppermotor *)

RecvStep ==
  /\ rpc = "step" /\ step_sem > 0
  /\ step_sem' = step_sem - 1 /\ rpc' = "mutex"
  /\ UNCHANGED <<sender, rxCmd, angle, state, owner, cmp_sem, uart, line, place, faults>>

\* An RT-Thread mutex may be taken again by its holder.  That never happens here:
\* step_sem is posted only by a sender that had the mutex.
RecvMutex ==
  /\ rpc = "mutex" /\ owner # "sender"
  /\ owner' = "receiver" /\ rpc' = "cmp"
  /\ UNCHANGED <<sender, rxCmd, angle, state, step_sem, cmp_sem, uart, line, place, faults>>

RecvCmp ==
  /\ rpc = "cmp" /\ cmp_sem > 0
  /\ cmp_sem' = cmp_sem - 1 /\ rpc' = "handle"
  /\ UNCHANGED <<sender, rxCmd, angle, state, owner, step_sem, uart, line, place, faults>>

\* Mutated form: the bytes of the answer stay in the buffer.
RecvAnswer_LeavesBytes ==
  /\ rpc = "handle" /\ state = "Ans"
  /\ state' = "IDLE" /\ owner' = "none" /\ rpc' = "step"
  /\ UNCHANGED <<sender, rxCmd, angle, step_sem, cmp_sem, uart, line, place, faults>>

\* The answer to a control command: the buffer is emptied, whatever it holds.
RecvAnswer ==
  /\ rpc = "handle" /\ state = "Ans"
  /\ buf' = << >> /\ state' = "IDLE" /\ owner' = "none" /\ rpc' = "step"
  /\ UNCHANGED <<sender, rxCmd, angle, step_sem, cmp_sem, rxCount, line, place, faults>>

\* Mutated form: the check byte is not taken out.
RecvFrame_OneShort ==
  /\ rpc = "handle" /\ state \in Framed /\ rxCount >= Need(state)
  /\ rxCmd' = [i \in 1 .. 8 |->
                 IF i < Need(state) /\ i <= Len(buf) THEN buf[i] ELSE rxCmd[i]]
  /\ buf' = SubSeq(buf, Need(state), Len(buf))
  /\ rpc' = "judge"
  /\ UNCHANGED <<sender, angle, shared, rxCount, line, place, faults>>

\* Emm_V5_Receive takes the bytes of a frame out of the buffer.
RecvFrame ==
  /\ rpc = "handle" /\ state \in Framed /\ rxCount >= Need(state)
  /\ rxCmd' = [i \in 1 .. 8 |->
                 IF i <= Need(state) /\ i <= Len(buf) THEN buf[i] ELSE rxCmd[i]]
  /\ buf' = SubSeq(buf, Need(state) + 1, Len(buf))
  /\ rpc' = "judge"
  /\ UNCHANGED <<sender, angle, shared, rxCount, line, place, faults>>

\* Too few bytes, or no command at all: the buffer is emptied and nothing else is
\* done; the mutex is kept.
RecvDiscard ==
  /\ rpc = "handle"
  /\ state = "IDLE" \/ (state \in Framed /\ rxCount < Need(state))
  /\ buf' = << >> /\ rpc' = "step"
  /\ UNCHANGED <<sender, rxCmd, angle, shared, rxCount, line, place, faults>>

\* Emm_V5_ID_judge and, for some kinds, the function code.
Fits ==
  /\ rxCmd[1].at = 1 /\ rxCmd[1].of.motor \in Motors
  /\ state \in Coded => rxCmd[2].at = 2 /\ rxCmd[2].of.kind = state

\* Mutated form: the mutex is not given back.
RecvStore_KeepsMutex ==
  /\ rpc = "judge" /\ Fits
  /\ \E v \in Places :
       /\ (\A i \in 3 .. 7 : rxCmd[i] = Byte(rxCmd[1].of, i)) => v = rxCmd[1].of.val
       /\ angle' = IF state = "CPOS" THEN [angle EXCEPT ![rxCmd[1].of.motor] = v] ELSE angle
  /\ state' = "IDLE" /\ rpc' = "step"
  /\ UNCHANGED <<sender, rxCmd, owner, step_sem, cmp_sem, uart, line, place, faults>>

\* The payload is the motor's when all its bytes are; other bytes may decode to
\* any value.
RecvStore ==
  /\ rpc = "judge" /\ Fits
  /\ \E v \in Places :
       /\ (\A i \in 3 .. 7 : rxCmd[i] = Byte(rxCmd[1].of, i)) => v = rxCmd[1].of.val
       /\ angle' = IF state = "CPOS" THEN [angle EXCEPT ![rxCmd[1].of.motor] = v] ELSE angle
  /\ state' = "IDLE" /\ owner' = "none" /\ rpc' = "step"
  /\ UNCHANGED <<sender, rxCmd, step_sem, cmp_sem, uart, line, place, faults>>

\* A frame that does not fit is dropped; the mutex is kept.
RecvReject ==
  /\ rpc = "judge" /\ ~Fits
  /\ rpc' = "step"
  /\ UNCHANGED <<sender, rxCmd, angle, shared, uart, line, place, faults>>

Receiver ==
  \/ RecvStep \/ RecvMutex \/ RecvCmp \/ RecvAnswer \/ RecvFrame \/ RecvDiscard
  \/ RecvStore \/ RecvReject

-----------------------------------------------------------------------------
(* Emm_uart_receive_callback, the line and the hand that moves the arms    *)

\* Mutated form: the callback waits for one byte too many.
Received_OneMore(b) ==
  /\ buf' = Append(buf, b)
  /\ rxCount' = Len(buf) + 1
  /\ cmp_sem' = IF state = "IDLE" \/ Len(buf) + 1 > Need(state) THEN cmp_sem + 1 ELSE cmp_sem
  /\ UNCHANGED <<sender, receiver, state, owner, step_sem, place>>

\* A byte reaches the buffer; the callback is called with the bytes waiting.
Received(b) ==
  /\ buf' = Append(buf, b)
  /\ rxCount' = Len(buf) + 1
  /\ cmp_sem' = IF state = "IDLE" \/ Len(buf) + 1 >= Need(state) THEN cmp_sem + 1 ELSE cmp_sem
  /\ UNCHANGED <<sender, receiver, state, owner, step_sem, place>>

Arrive ==
  /\ wire # << >>
  /\ Received(Head(wire))
  /\ wire' = Tail(wire)
  /\ UNCHANGED <<reply, faults>>

MakeNoise ==
  /\ faults < MaxFaults
  /\ Received(Noise)
  /\ faults' = faults + 1
  /\ UNCHANGED line

Lose ==
  /\ faults < MaxFaults
  /\ wire # << >>
  /\ wire' = Tail(wire) /\ faults' = faults + 1
  /\ UNCHANGED <<sender, receiver, shared, uart, reply, place>>

\* An arm that is not enabled is moved by hand.
Hand(m) ==
  /\ ~init_flag[m]
  /\ \E p \in Places \ {place[m]} : place' = [place EXCEPT ![m] = p]
  /\ UNCHANGED <<sender, receiver, shared, uart, line, faults>>

Next == Sender \/ Receiver \/ Arrive \/ MakeNoise \/ Lose \/ \E m \in Motors : Hand(m)

Spec == Init /\ [][Next]_vars
FairSpec == Spec /\ WF_vars(Sender) /\ WF_vars(Receiver) /\ WF_vars(Arrive)

-----------------------------------------------------------------------------
(* Properties *)

\* Every variable keeps its type.  step_sem never counts more than one command: the
\* next one cannot be posted before the receiver has taken this one.  cmp_sem, which
\* noise can release without bound, is a natural number only.
TypeOK ==
  /\ phase \in {"disarm", "read", "big", "small", "zero", "run"}
  /\ todo \in Seq([motor : Motors, kind : Kinds])
  /\ spc \in {"take", "set", "transmit", "release", "post"}
  /\ rpc \in {"step", "mutex", "cmp", "handle", "judge"}
  /\ state \in Kinds \cup {"IDLE"} /\ owner \in {"none", "sender", "receiver"}
  /\ step_sem \in 0 .. 1 /\ cmp_sem \in Nat /\ rxCount \in Nat
  /\ buf \in Seq([of : Replies, at : 0 .. 8])
  /\ rxCmd \in [1 .. 8 -> [of : Replies, at : 0 .. 8]]
  /\ angle \in [Motors -> Places] /\ init_flag \in [Motors -> BOOLEAN]
  /\ reply \in Replies /\ wire \in Seq([of : Replies, at : 0 .. 8])
  /\ place \in [Motors -> Places] /\ faults \in 0 .. MaxFaults

\* While the receiver works on an answer, stepper_motor_cmd_state is that of the
\* command it was posted for: no later command of the sender changes it under
\* the receiver's feet, whatever the line does.
StateFixed ==
  rpc \in {"cmp", "handle", "judge"} => owner = "receiver" /\ state = reply.kind

\* drv_process_steppermotor runs to its end: when it waits for the next command it
\* has given the mutex back, so that the sender can go on.
GivesBack == rpc = "step" => owner # "receiver"

\* It does so as long as the line has made up and lost no byte.
GivesBackOnCleanLine == faults = 0 => GivesBack

\* As long as the line is clean, the frame that is judged is the whole answer to
\* the command in hand and no byte of it belongs to another.
WholeAnswer ==
  faults = 0 /\ rpc = "judge" => \A i \in 1 .. Need(state) : rxCmd[i] = Byte(reply, i)

\* As long as the line is clean, nothing is left over between two commands: no byte
\* in the buffer, no count in cmp_sem that would let the receiver take the next
\* answer before it came.
CleanBetween == faults = 0 /\ state = "IDLE" => buf = << >> /\ cmp_sem = 0

\* On a clean line every command is answered: the sender and the receiver never
\* wait for each other for ever.
AnswersAll == state # "IDLE" ~> state = "IDLE" \/ faults > 0

\* Homing ends if both arms are brought home and held there, on a clean line.
HomingEnds ==
  <>[](\A m \in Motors : place[m] = "home") => <>(phase = "run" \/ faults > 0)
=============================================================================
