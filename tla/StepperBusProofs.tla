-------------------------- MODULE StepperBusProofs --------------------------
(***************************************************************************)
(* The two threads of the stepper motors, for any bounds on faults and on  *)
(* bytes left over: a command's state is not changed under the receiver    *)
(* whatever the line does; and as long as the line has made up and lost no *)
(* byte, every answer is taken whole, nothing stays behind, and the mutex  *)
(* is given back.                                                          *)
(***************************************************************************)
EXTENDS StepperBus, TLAPS

Commands == [motor : Motors, kind : Kinds]
LineBytes == [of : Replies, at : 0 .. 8]

\* Where the sender is between taking the mutex and posting the receiver ...
Sending == {"set", "transmit", "release", "post"}
\* ... and where the receiver has the command.
Working == {"cmp", "handle", "judge"}

\* One command at a time goes round: it is with the sender, in step_sem, or with the
\* receiver.
TokenInv ==
  /\ spc \in Sending => rpc = "step" /\ step_sem = 0 /\ todo # << >>
  /\ spc \in {"set", "transmit", "release"} <=> owner = "sender"
  /\ spc = "post" => owner = "none"
  /\ step_sem > 0 => rpc = "step" /\ owner = "none"
  /\ rpc = "mutex" => owner = "none" /\ step_sem = 0
  /\ rpc \in Working => owner = "receiver" /\ step_sem = 0

\* The command has been transmitted and not yet been dealt with.
Transmitted == spc \in {"release", "post"} \/ step_sem > 0 \/ rpc # "step"

\* The state is that of the command that goes round.
StateInv ==
  /\ spc = "transmit" => state = Head(todo).kind
  /\ Transmitted => state = reply.kind /\ reply # Nobody

-----------------------------------------------------------------------------
(* A line that has made up and lost no byte *)

\* Nothing is on the line, in the buffer or in cmp_sem.
Silent == wire = << >> /\ buf = << >> /\ cmp_sem = 0

\* The answer is on its way: its first bytes are in the buffer, the others on the
\* wire, and cmp_sem is posted with the last.
Coming ==
  /\ Len(buf) + Len(wire) = Need(state)
  /\ \A i \in 1 .. Len(buf) : buf[i] = Byte(reply, i)
  /\ \A i \in 1 .. Len(wire) : wire[i] = Byte(reply, Len(buf) + i)
  /\ buf # << >> => rxCount = Len(buf)
  /\ cmp_sem = IF wire = << >> THEN 1 ELSE 0

\* The answer is in the buffer, and cmp_sem has been taken.
Here ==
  /\ wire = << >> /\ cmp_sem = 0
  /\ rxCount = Need(state) /\ Len(buf) = Need(state)
  /\ \A i \in 1 .. Len(buf) : buf[i] = Byte(reply, i)

CleanInv ==
  /\ owner = "receiver" => rpc \in Working
  /\ ~Transmitted => Silent /\ (spc = "transmit" \/ state = "IDLE")
  /\ Transmitted /\ rpc \notin {"handle", "judge"} => Coming
  /\ rpc = "handle" => Here
  /\ rpc = "judge" => /\ Silent /\ state \in Framed
                      /\ \A i \in 1 .. Need(state) : rxCmd[i] = Byte(reply, i)

StepperInv == TypeOK /\ TokenInv /\ StateInv /\ (faults = 0 => CleanInv)

-----------------------------------------------------------------------------
(* Commands, answers and batches *)

\* An answer has four to eight bytes.
LEMMA NeedRange == \A k \in Kinds \cup {"IDLE"} : Need(k) \in 4 .. 8
BY DEF Need, Kinds, Framed

\* What a call of the driver sends.
LEMMA CommandType ==
  ASSUME NEW m \in Motors, NEW k \in Kinds
  PROVE  Command(m, k) \in Commands
BY DEF Command, Commands

\* The answer to a command.
LEMMA AnswerType ==
  ASSUME NEW r \in Replies, r.kind \in Kinds
  PROVE  /\ Answer(r) \in Seq(LineBytes) /\ Len(Answer(r)) = Need(r.kind)
         /\ \A i \in 1 .. Need(r.kind) : Answer(r)[i] = Byte(r, i)
<1>1. Need(r.kind) \in 4 .. 8
  BY NeedRange
<1>2. \A i \in 1 .. Need(r.kind) : Byte(r, i) \in LineBytes
  BY <1>1 DEF Byte, LineBytes
<1> QED
  BY <1>1, <1>2 DEF Answer

\* Noise is a byte, and nobody has sent it.
LEMMA NoiseType == Noise \in LineBytes /\ Nobody \in Replies
BY DEF Noise, Nobody, Byte, LineBytes, Replies

\* What the sender has in hand between two batches is a list of commands.
LEMMA BatchType ==
  /\ << >> \in Seq(Commands)
  /\ \A m \in Motors : << En_Control(m) >> \in Seq(Commands)
  /\ << En_Control(1), En_Control(3) >> \in Seq(Commands)
  /\ << Read_Sys_Params(1, "CPOS"), Read_Sys_Params(3, "CPOS") >> \in Seq(Commands)
  /\ << Reset_CurPos_To_Zero(1), Reset_CurPos_To_Zero(3) >> \in Seq(Commands)
  /\ << Pos_Control(1), Pos_Control(3) >> \o Readings(1) \o Readings(3) \in Seq(Commands)
<1>1. /\ \A m \in Motors : /\ En_Control(m) \in Commands /\ Pos_Control(m) \in Commands
                           /\ Reset_CurPos_To_Zero(m) \in Commands
      /\ \A m \in Motors, k \in Framed : Read_Sys_Params(m, k) \in Commands
  BY CommandType
     DEF En_Control, Pos_Control, Reset_CurPos_To_Zero, Read_Sys_Params, Kinds
<1>2. 1 \in Motors /\ 3 \in Motors /\ "CPOS" \in Framed
  BY DEF Motors, Framed
<1>3. ASSUME NEW m \in Motors PROVE Readings(m) \in Seq(Commands)
  <2>1. \A k \in {"CPOS", "VEL", "PERR", "FLAG", "ORG", "CPHA"} :
           Read_Sys_Params(m, k) \in Commands
    BY <1>1 DEF Framed
  <2> QED
    BY <2>1 DEF Readings
<1>4. << Pos_Control(1), Pos_Control(3) >> \in Seq(Commands)
  BY <1>1, <1>2
<1>5. << Pos_Control(1), Pos_Control(3) >> \o Readings(1) \o Readings(3) \in Seq(Commands)
  BY <1>2, <1>3, <1>4
<1> QED
  BY <1>1, <1>2, <1>5

-----------------------------------------------------------------------------
(* Type correctness *)

SenderType ==
  /\ phase \in {"disarm", "read", "big", "small", "zero", "run"}
  /\ todo \in Seq(Commands) /\ spc \in {"take", "set", "transmit", "release", "post"}
  /\ init_flag \in [Motors -> BOOLEAN]
ReceiverType ==
  /\ rpc \in {"step", "mutex", "cmp", "handle", "judge"}
  /\ rxCmd \in [1 .. 8 -> LineBytes] /\ angle \in [Motors -> Places]
SharedType ==
  /\ state \in Kinds \cup {"IDLE"} /\ owner \in {"none", "sender", "receiver"}
  /\ step_sem \in 0 .. 1
LineType ==
  /\ rxCount \in Nat /\ cmp_sem \in Nat
  /\ buf \in Seq(LineBytes) /\ wire \in Seq(LineBytes) /\ reply \in Replies
  /\ place \in [Motors -> Places] /\ faults \in 0 .. MaxFaults

\* The type invariant by groups of variables.
LEMMA TypeParts ==
  /\ TypeOK <=> SenderType /\ ReceiverType /\ SharedType /\ LineType
  /\ TypeOK' <=> SenderType' /\ ReceiverType' /\ SharedType' /\ LineType'
BY DEF TypeOK, SenderType, ReceiverType, SharedType, LineType, Commands, LineBytes

\* The initial state is well typed.
LEMMA TypeInit == Init => TypeOK
<1> SUFFICES ASSUME Init PROVE TypeOK
  OBVIOUS
<1>1. SenderType
  BY BatchType DEF Init, SenderType
<1>2. ReceiverType
  BY NoiseType DEF Init, ReceiverType, Places
<1>3. SharedType
  BY DEF Init, SharedType
<1>4. LineType
  BY NoiseType, FaultsAssumption DEF Init, LineType
<1> QED
  BY <1>1, <1>2, <1>3, <1>4, TypeParts

\* Variables that do not change keep their types.
LEMMA TypeFrame ==
  ASSUME TypeOK
  PROVE  /\ UNCHANGED sender => SenderType'
         /\ UNCHANGED receiver => ReceiverType'
         /\ UNCHANGED <<state, owner, step_sem>> => SharedType'
         /\ UNCHANGED <<cmp_sem, uart, line, place, faults>> => LineType'
<1>0. SenderType /\ ReceiverType /\ SharedType /\ LineType
  BY TypeParts
<1>1. UNCHANGED sender => SenderType'
  BY <1>0 DEF SenderType, sender
<1>2. UNCHANGED receiver => ReceiverType'
  BY <1>0 DEF ReceiverType, receiver
<1>3. UNCHANGED <<state, owner, step_sem>> => SharedType'
  BY <1>0 DEF SharedType
<1>4. UNCHANGED <<cmp_sem, uart, line, place, faults>> => LineType'
  BY <1>0 DEF LineType, uart, line
<1> QED
  BY <1>1, <1>2, <1>3, <1>4

\* The command the sender is at.
LEMMA HeadType ==
  ASSUME TypeOK, TokenInv, spc \in Sending
  PROVE  /\ Head(todo) \in Commands /\ Tail(todo) \in Seq(Commands)
         /\ Head(todo).motor \in Motors /\ Head(todo).kind \in Kinds
<1>1. todo \in Seq(Commands) /\ todo # << >>
  BY TypeParts DEF SenderType, TokenInv
<1>2. Head(todo) \in Commands /\ Tail(todo) \in Seq(Commands)
  BY <1>1
<1> QED
  BY <1>2 DEF Commands

\* The steps of the sender within a command.
Sends == SendTake \/ SendState \/ SendTransmit \/ SendRelease \/ SendPost
\* Its steps between two batches.
Batches == HomeRead \/ HomeBig \/ HomeSmall \/ HomeAgain \/ HomeZero \/ RunFirst \/ RunAgain

\* The sender keeps the types.
LEMMA SendType ==
  ASSUME TypeOK, TokenInv, Sends
  PROVE  TypeOK'
<1>0. SenderType /\ ReceiverType /\ SharedType /\ LineType
  BY TypeParts
<1>1. CASE SendTake
  <2>1. SenderType'
    BY <1>0, <1>1 DEF SendTake, SenderType
  <2>2. SharedType'
    BY <1>0, <1>1 DEF SendTake, SharedType
  <2> QED
    BY <1>1, <2>1, <2>2, TypeParts, TypeFrame DEF SendTake
<1>2. CASE SendState
  <2>0. Head(todo).kind \in Kinds
    BY <1>2, HeadType DEF SendState, Sending
  <2>1. SenderType'
    BY <1>0, <1>2 DEF SendState, SenderType
  <2>2. SharedType'
    BY <1>0, <1>2, <2>0 DEF SendState, SharedType
  <2> QED
    BY <1>2, <2>1, <2>2, TypeParts, TypeFrame DEF SendState
<1>3. CASE SendTransmit
  <2>1. SenderType'
    BY <1>0, <1>3 DEF SendTransmit, SenderType
  <2>2. reply' \in Replies /\ reply'.kind \in Kinds
    <3>1. Head(todo).kind \in Kinds /\ Head(todo).motor \in Motors
      BY <1>3, HeadType DEF SendTransmit, Sending
    <3>2. place[Head(todo).motor] \in Places
      BY <1>0, <3>1 DEF LineType
    <3> QED
      BY <1>3, <3>1, <3>2 DEF SendTransmit, Replies
  <2>3. wire' \in Seq(LineBytes)
    <3>1. Answer(reply') \in Seq(LineBytes)
      BY <2>2, AnswerType
    <3> QED
      BY <1>0, <1>3, <3>1 DEF SendTransmit, LineType
  <2>4. LineType'
    BY <1>0, <1>3, <2>2, <2>3 DEF SendTransmit, LineType, shared, uart
  <2> QED
    BY <1>3, <2>1, <2>4, TypeParts, TypeFrame DEF SendTransmit, shared
<1>4. CASE SendRelease
  <2>1. SenderType'
    BY <1>0, <1>4 DEF SendRelease, SenderType
  <2>2. SharedType'
    BY <1>0, <1>4 DEF SendRelease, SharedType
  <2> QED
    BY <1>4, <2>1, <2>2, TypeParts, TypeFrame DEF SendRelease
<1>5. CASE SendPost
  <2>1. SenderType'
    BY <1>0, <1>5, HeadType DEF SendPost, SenderType, Sending
  <2>2. SharedType'
    BY <1>0, <1>5 DEF SendPost, SharedType, TokenInv, Sending
  <2> QED
    BY <1>5, <2>1, <2>2, TypeParts, TypeFrame DEF SendPost
<1> QED
  BY <1>1, <1>2, <1>3, <1>4, <1>5 DEF Sends

\* Between two batches only the sender's own variables change.
LEMMA BatchStep ==
  ASSUME TypeOK, Batches
  PROVE  /\ SenderType' /\ spc = "take" /\ spc' = "take"
         /\ UNCHANGED <<receiver, shared, uart, line, place, faults>>
<1>0. SenderType
  BY TypeParts
<1>1. ASSUME NEW p, NEW q \in {"disarm", "read", "big", "small", "zero", "run"},
             NEW b \in Seq(Commands), Between(p, q, b), init_flag' \in [Motors -> BOOLEAN]
      PROVE  /\ SenderType' /\ spc = "take" /\ spc' = "take"
             /\ UNCHANGED <<receiver, shared, uart, line, place, faults>>
  BY <1>0, <1>1 DEF Between, SenderType
<1>2. CASE HomeRead \/ HomeAgain \/ HomeZero \/ RunFirst \/ RunAgain
  <2>1. init_flag' \in [Motors -> BOOLEAN]
    BY <1>0, <1>2 DEF HomeRead, HomeAgain, HomeZero, RunFirst, RunAgain, Run, SenderType
  <2> QED
    BY <1>1, <1>2, <2>1, BatchType DEF HomeRead, HomeAgain, HomeZero, RunFirst, RunAgain, Run
<1>3. ASSUME NEW p, NEW q \in {"big", "small"}, NEW m \in Motors, HomeArm(p, q, m)
      PROVE  /\ SenderType' /\ spc = "take" /\ spc' = "take"
             /\ UNCHANGED <<receiver, shared, uart, line, place, faults>>
  <2> DEFINE seen == angle[m] = "home" /\ ~init_flag[m]
             b == IF seen THEN << En_Control(m) >> ELSE << >>
  <2>1. Between(p, q, b) /\ init_flag' = [init_flag EXCEPT ![m] = init_flag[m] \/ seen]
    BY <1>3 DEF HomeArm
  <2>2. b \in Seq(Commands)
    BY BatchType
  <2>3. init_flag' \in [Motors -> BOOLEAN]
    BY <1>0, <2>1 DEF SenderType
  <2> QED
    BY <1>1, <2>1, <2>2, <2>3
<1> QED
  BY <1>2, <1>3 DEF Batches, HomeBig, HomeSmall, Motors


\* The receiver keeps the types.
LEMMA ReceiverStepType ==
  ASSUME TypeOK, Receiver
  PROVE  TypeOK'
<1>0. SenderType /\ ReceiverType /\ SharedType /\ LineType
  BY TypeParts
<1>1. CASE RecvStep \/ RecvMutex \/ RecvCmp
  <2>1. ReceiverType'
    BY <1>0, <1>1 DEF RecvStep, RecvMutex, RecvCmp, ReceiverType
  <2>2. SharedType'
    BY <1>0, <1>1 DEF RecvStep, RecvMutex, RecvCmp, SharedType
  <2>3. LineType'
    <3>1. cmp_sem' \in Nat
      BY <1>0, <1>1 DEF RecvStep, RecvMutex, RecvCmp, LineType
    <3>2. UNCHANGED <<rxCount, buf, wire, reply, place, faults>>
      BY <1>1 DEF RecvStep, RecvMutex, RecvCmp, uart, line
    <3> QED
      BY <1>0, <3>1, <3>2 DEF LineType
  <2>4. UNCHANGED sender
    BY <1>1 DEF RecvStep, RecvMutex, RecvCmp
  <2> QED
    BY <2>1, <2>2, <2>3, <2>4, TypeParts, TypeFrame
<1>2. CASE RecvAnswer \/ RecvDiscard \/ RecvReject
  <2>1. ReceiverType'
    BY <1>0, <1>2 DEF RecvAnswer, RecvDiscard, RecvReject, ReceiverType
  <2>2. SharedType'
    BY <1>0, <1>2 DEF RecvAnswer, RecvDiscard, RecvReject, SharedType, shared
  <2>3. LineType'
    <3>1. /\ UNCHANGED <<cmp_sem, rxCount, wire, reply, place, faults>>
          /\ buf' = buf \/ buf' = << >>
      BY <1>2 DEF RecvAnswer, RecvDiscard, RecvReject, shared, uart, line
    <3>2. << >> \in Seq(LineBytes) /\ buf \in Seq(LineBytes)
      BY <1>0 DEF LineType
    <3>3. buf' \in Seq(LineBytes)
      BY <3>1, <3>2
    <3> QED
      BY <1>0, <3>1, <3>3 DEF LineType
  <2>4. UNCHANGED sender
    BY <1>2 DEF RecvAnswer, RecvDiscard, RecvReject
  <2> QED
    BY <2>1, <2>2, <2>3, <2>4, TypeParts, TypeFrame
<1>3. CASE RecvFrame
  <2>1. Need(state) \in 4 .. 8 /\ buf \in Seq(LineBytes)
    BY <1>0, NeedRange DEF SharedType, LineType
  <2>2. \A i \in 1 .. 8 : i <= Len(buf) => buf[i] \in LineBytes
    BY <2>1
  <2>3. rxCmd' \in [1 .. 8 -> LineBytes]
    BY <1>0, <1>3, <2>2 DEF RecvFrame, ReceiverType
  <2>4. buf' \in Seq(LineBytes)
    BY <1>3, <2>1 DEF RecvFrame
  <2>5. ReceiverType'
    BY <1>0, <1>3, <2>3 DEF RecvFrame, ReceiverType
  <2>6. LineType'
    BY <1>0, <1>3, <2>4 DEF RecvFrame, LineType, shared, line
  <2> QED
    BY <1>3, <2>5, <2>6, TypeParts, TypeFrame DEF RecvFrame, shared
<1>4. CASE RecvStore
  <2>1. angle' \in [Motors -> Places]
    BY <1>0, <1>4 DEF RecvStore, Fits, ReceiverType
  <2>2. ReceiverType'
    BY <1>0, <1>4, <2>1 DEF RecvStore, ReceiverType
  <2>3. SharedType'
    BY <1>0, <1>4 DEF RecvStore, SharedType
  <2> QED
    BY <1>4, <2>2, <2>3, TypeParts, TypeFrame DEF RecvStore
<1> QED
  BY <1>1, <1>2, <1>3, <1>4 DEF Receiver

\* The interrupt, the line and the hand change neither thread.
LineSteps == Arrive \/ MakeNoise \/ Lose \/ \E m \in Motors : Hand(m)

\* The line changes neither thread, nor what the two share.
LEMMA LineFrame == LineSteps => UNCHANGED <<sender, receiver, state, owner, step_sem>>
BY DEF LineSteps, Arrive, MakeNoise, Lose, Hand, Received, shared

\* The byte that arrives next.
LEMMA HeadOfWire ==
  ASSUME TypeOK, wire # << >>
  PROVE  /\ Head(wire) \in LineBytes /\ Head(wire) = wire[1]
         /\ Tail(wire) \in Seq(LineBytes) /\ Len(Tail(wire)) = Len(wire) - 1
         /\ \A i \in 1 .. Len(wire) - 1 : Tail(wire)[i] = wire[i + 1]
BY TypeParts DEF LineType

\* The interrupt stores a byte and counts.
LEMMA ReceivedType ==
  ASSUME TypeOK, NEW b \in LineBytes, Received(b)
  PROVE  rxCount' \in Nat /\ cmp_sem' \in Nat /\ buf' \in Seq(LineBytes) /\ UNCHANGED place
<1>1. buf \in Seq(LineBytes) /\ Len(buf) \in Nat /\ cmp_sem \in Nat
  BY TypeParts DEF LineType
<1> QED
  BY <1>1 DEF Received

\* The line keeps the types.
LEMMA LineStepType ==
  ASSUME TypeOK, LineSteps
  PROVE  TypeOK'
<1>0. LineType
  BY TypeParts
<1>1. LineType'
  <2>1. CASE Arrive
    <3>1. wire' \in Seq(LineBytes) /\ Head(wire) \in LineBytes
      BY <2>1, HeadOfWire DEF Arrive
    <3>2. rxCount' \in Nat /\ cmp_sem' \in Nat /\ buf' \in Seq(LineBytes) /\ UNCHANGED place
      BY <2>1, <3>1, ReceivedType DEF Arrive
    <3> QED
      BY <1>0, <2>1, <3>1, <3>2 DEF Arrive, LineType
  <2>2. CASE MakeNoise
    <3>1. rxCount' \in Nat /\ cmp_sem' \in Nat /\ buf' \in Seq(LineBytes) /\ UNCHANGED place
      BY <2>2, NoiseType, ReceivedType DEF MakeNoise
    <3>2. faults' \in 0 .. MaxFaults
      BY <1>0, <2>2, FaultsAssumption DEF MakeNoise, LineType
    <3> QED
      BY <1>0, <2>2, <3>1, <3>2 DEF MakeNoise, LineType, line
  <2>3. CASE Lose
    <3>1. wire' \in Seq(LineBytes)
      BY <2>3, HeadOfWire DEF Lose
    <3>2. faults' \in 0 .. MaxFaults
      BY <1>0, <2>3, FaultsAssumption DEF Lose, LineType
    <3> QED
      BY <1>0, <2>3, <3>1, <3>2 DEF Lose, LineType, uart, shared
  <2>4. ASSUME NEW m \in Motors, Hand(m) PROVE LineType'
    BY <1>0, <2>4 DEF Hand, LineType, shared, uart, line
  <2> QED
    BY <2>1, <2>2, <2>3, <2>4 DEF LineSteps
<1> QED
  BY <1>1, LineFrame, TypeParts, TypeFrame

\* A step is one of the sender, the receiver or the line.
LEMMA NextParts ==
  [Next]_vars <=> Sends \/ Batches \/ Receiver \/ LineSteps \/ UNCHANGED vars
BY DEF Next, Sender, Sends, Batches, LineSteps

\* Every step keeps the types.
LEMMA TypeStep == TypeOK /\ TokenInv /\ [Next]_vars => TypeOK'
<1> SUFFICES ASSUME TypeOK, TokenInv, [Next]_vars PROVE TypeOK'
  OBVIOUS
<1>1. CASE Batches
  <2>1. SenderType' /\ UNCHANGED <<receiver, shared, uart, line, place, faults>>
    BY <1>1, BatchStep
  <2> QED
    BY <2>1, TypeParts, TypeFrame DEF shared
<1>2. CASE UNCHANGED vars
  BY <1>2, TypeParts, TypeFrame DEF vars, shared
<1> QED
  BY <1>1, <1>2, NextParts, SendType, ReceiverStepType, LineStepType

-----------------------------------------------------------------------------
(* One command at a time, whatever the line does *)

\* A command is begun only when nothing is with the receiver.
LEMMA TakeWhenIdle ==
  ASSUME TypeOK, TokenInv, SendTake
  PROVE  rpc = "step" /\ step_sem = 0 /\ owner = "none" /\ ~Transmitted
BY TypeParts
   DEF SendTake, ReceiverBlocked, TokenInv, Working, Transmitted, ReceiverType, SharedType

\* The mutex and step_sem are one token that the two threads hand over.
LEMMA TokenStep == TypeOK /\ TokenInv /\ [Next]_vars => TokenInv'
<1> SUFFICES ASSUME TypeOK, TokenInv, [Next]_vars PROVE TokenInv'
  OBVIOUS
<1>0. SenderType /\ ReceiverType /\ SharedType
  BY TypeParts
<1> USE DEF Sending, Working
<1>1. CASE SendTake
  BY <1>1, TakeWhenIdle DEF SendTake, TokenInv, receiver
<1>2. CASE SendState \/ SendTransmit \/ SendRelease
  BY <1>2 DEF SendState, SendTransmit, SendRelease, TokenInv, receiver, shared
<1>3. CASE SendPost
  BY <1>3 DEF SendPost, TokenInv, receiver
<1>4. CASE Batches
  <2>1. spc = "take" /\ spc' = "take" /\ UNCHANGED <<receiver, shared>>
    BY <1>4, BatchStep
  <2> QED
    BY <2>1 DEF TokenInv, receiver, shared
<1>5. CASE RecvStep \/ RecvMutex \/ RecvCmp
  BY <1>0, <1>5 DEF RecvStep, RecvMutex, RecvCmp, TokenInv, sender, SharedType
<1>6. CASE RecvAnswer \/ RecvFrame \/ RecvDiscard \/ RecvStore \/ RecvReject
  BY <1>0, <1>6
     DEF RecvAnswer, RecvFrame, RecvDiscard, RecvStore, RecvReject, TokenInv, sender, shared,
         SenderType
<1>7. CASE LineSteps \/ UNCHANGED vars
  BY <1>7, LineFrame DEF TokenInv, vars, sender, receiver, shared
<1> QED
  BY <1>1, <1>2, <1>3, <1>4, <1>5, <1>6, <1>7, NextParts DEF Sends, Receiver

\* The command state belongs to the holder of the token.
LEMMA StateStep == TypeOK /\ TokenInv /\ StateInv /\ [Next]_vars => StateInv'
<1> SUFFICES ASSUME TypeOK, TokenInv, StateInv, [Next]_vars PROVE StateInv'
  OBVIOUS
<1>0. SenderType /\ ReceiverType /\ SharedType
  BY TypeParts
<1> USE DEF Sending, Working, Transmitted
<1>1. CASE SendTake
  BY <1>1, TakeWhenIdle DEF SendTake, StateInv, receiver, line
<1>2. CASE SendState
  BY <1>2 DEF SendState, TokenInv, StateInv, receiver, line
<1>3. CASE SendTransmit
  <2>1. Head(todo).kind \in Kinds
    BY <1>3, HeadType DEF SendTransmit
  <2>2. reply'.kind = Head(todo).kind /\ reply' # Nobody
    BY <1>3, <2>1 DEF SendTransmit, Nobody, Kinds, Framed
  <2> QED
    BY <1>3, <2>2 DEF SendTransmit, StateInv, shared
<1>4. CASE SendRelease \/ SendPost
  BY <1>4 DEF SendRelease, SendPost, StateInv, TokenInv, receiver, line
<1>5. CASE Batches
  <2>1. spc = "take" /\ spc' = "take" /\ UNCHANGED <<receiver, shared, line>>
    BY <1>5, BatchStep
  <2> QED
    BY <2>1 DEF StateInv, receiver, shared, line
<1>6. CASE RecvStep \/ RecvMutex \/ RecvCmp
  BY <1>0, <1>6 DEF RecvStep, RecvMutex, RecvCmp, TokenInv, StateInv, sender, line, SharedType
<1>7. CASE RecvAnswer \/ RecvFrame \/ RecvDiscard \/ RecvStore \/ RecvReject
  BY <1>0, <1>7
     DEF RecvAnswer, RecvFrame, RecvDiscard, RecvStore, RecvReject, TokenInv, StateInv,
         sender, shared, line, SenderType, SharedType
<1>8. CASE LineSteps
  <2>1. UNCHANGED reply
    BY <1>8 DEF LineSteps, Arrive, MakeNoise, Lose, Hand, line
  <2> QED
    BY <1>8, <2>1, LineFrame DEF StateInv, sender, receiver
<1>9. CASE UNCHANGED vars
  BY <1>9 DEF vars, StateInv, sender, receiver, shared, line
<1> QED
  BY <1>1, <1>2, <1>3, <1>4, <1>5, <1>6, <1>7, <1>8, <1>9, NextParts DEF Sends, Receiver


-----------------------------------------------------------------------------
(* A clean line *)

\* A step after which the line is clean is one of these, from a clean line.
LEMMA CleanSteps ==
  ASSUME TypeOK, [Next]_vars, faults' = 0
  PROVE  /\ faults = 0
         /\ Sends \/ Batches \/ Receiver \/ Arrive \/ (\E m \in Motors : Hand(m))
            \/ UNCHANGED vars
<1>0. faults \in Nat
  BY TypeParts DEF LineType
<1>1. ~MakeNoise /\ ~Lose
  BY <1>0 DEF MakeNoise, Lose
<1>2. UNCHANGED faults
  <2>1. CASE Sends \/ Receiver
    BY <2>1 DEF Sends, SendTake, SendState, SendTransmit, SendRelease, SendPost, Receiver,
                RecvStep, RecvMutex, RecvCmp, RecvAnswer, RecvFrame, RecvDiscard, RecvStore,
                RecvReject
  <2>2. CASE Batches
    BY <2>2, BatchStep
  <2>3. CASE Arrive \/ (\E m \in Motors : Hand(m)) \/ UNCHANGED vars
    BY <2>3 DEF Arrive, Hand, vars
  <2> QED
    BY <1>1, <2>1, <2>2, <2>3, NextParts DEF LineSteps
<1> QED
  BY <1>1, <1>2, NextParts DEF LineSteps

\* What is transmitted is an answer of a motor.
LEMMA ReplyType ==
  ASSUME TypeOK, StateInv, Transmitted
  PROVE  /\ state \in Kinds /\ state # "IDLE" /\ Need(state) \in 4 .. 8
         /\ reply.motor \in Motors /\ reply.kind = state
<1>1. reply \in [motor : Motors, kind : Kinds, val : Places] /\ reply.kind = state
  BY TypeParts DEF StateInv, LineType, Replies
<1>2. state \in Kinds /\ state # "IDLE" /\ reply.motor \in Motors
  BY <1>1 DEF Kinds, Framed
<1> QED
  BY <1>1, <1>2, NeedRange

\* A command leads to one whole answer.
LEMMA CleanSend ==
  ASSUME TypeOK, TokenInv, StateInv, CleanInv, Sends
  PROVE  CleanInv'
<1>0. SenderType /\ ReceiverType /\ SharedType /\ LineType
  BY TypeParts
<1> USE DEF Sending, Working, Transmitted
<1>1. CASE SendTake
  BY <1>1, TakeWhenIdle DEF SendTake, CleanInv, receiver, uart, line, Silent
<1>2. CASE SendState
  BY <1>2 DEF SendState, TokenInv, CleanInv, receiver, uart, line, Silent
<1>3. CASE SendTransmit
  <2>1. ~Transmitted /\ rpc = "step" /\ Silent /\ owner = "sender"
    BY <1>3 DEF SendTransmit, TokenInv, CleanInv
  <2>2. reply' \in Replies /\ reply'.kind = state /\ state \in Kinds
    <3>1. Head(todo).kind \in Kinds /\ Head(todo).motor \in Motors
      BY <1>3, HeadType DEF SendTransmit
    <3>2. place[Head(todo).motor] \in Places
      BY <1>0, <3>1 DEF LineType
    <3> QED
      BY <1>3, <3>1, <3>2 DEF SendTransmit, Replies, StateInv
  <2>3. wire' = Answer(reply')
    <3>1. Answer(reply') \in Seq(LineBytes)
      BY <2>2, AnswerType
    <3> QED
      BY <1>3, <2>1, <3>1 DEF SendTransmit, Silent
  <2>4. /\ wire' \in Seq(LineBytes) /\ Len(wire') = Need(state)
        /\ \A i \in 1 .. Need(state) : wire'[i] = Byte(reply', i)
    BY <2>2, <2>3, AnswerType
  <2>5. Need(state) \in 4 .. 8
    BY <2>2, NeedRange
  <2>6. UNCHANGED <<receiver, shared, uart>> /\ spc' = "release"
    BY <1>3 DEF SendTransmit
  <2>7. Coming'
    <3>1. buf' = << >> /\ cmp_sem' = 0 /\ state' = state
      BY <2>1, <2>6 DEF Silent, uart, shared
    <3>2. Len(buf') = 0 /\ wire' # << >>
      BY <2>4, <2>5, <3>1
    <3> QED
      BY <2>4, <2>5, <3>1, <3>2 DEF Coming
  <2> QED
    BY <2>1, <2>6, <2>7 DEF CleanInv, receiver, shared
<1>4. CASE SendRelease
  BY <1>4 DEF SendRelease, CleanInv, TokenInv, Coming, receiver, uart, line
<1>5. CASE SendPost
  BY <1>5 DEF SendPost, CleanInv, TokenInv, Coming, receiver, uart, line
<1> QED
  BY <1>1, <1>2, <1>3, <1>4, <1>5 DEF Sends

\* A byte of the answer arrives; the last one posts cmp_sem.
LEMMA CleanArrive ==
  ASSUME TypeOK, TokenInv, StateInv, CleanInv, Arrive
  PROVE  CleanInv'
<1>0. LineType /\ ReceiverType
  BY TypeParts
<1>1. wire # << >>
  BY DEF Arrive
<1>2. Transmitted /\ rpc \notin {"handle", "judge"} /\ Coming
  BY <1>1 DEF CleanInv, Silent, Here
<1>3. state \in Kinds /\ state # "IDLE" /\ Need(state) \in 4 .. 8
  BY <1>2, ReplyType
<1>4. /\ buf \in Seq(LineBytes) /\ Len(buf) \in Nat /\ Len(wire) \in Nat /\ Len(wire) > 0
      /\ wire \in Seq(LineBytes) /\ wire[1] = Byte(reply, Len(buf) + 1)
  <2>1. buf \in Seq(LineBytes) /\ wire \in Seq(LineBytes)
    BY <1>0 DEF LineType
  <2>2. Len(buf) \in Nat /\ Len(wire) \in Nat /\ Len(wire) > 0
    BY <1>1, <2>1
  <2> QED
    BY <1>2, <2>1, <2>2 DEF Coming
<1>5. /\ buf' = Append(buf, wire[1]) /\ wire' = Tail(wire) /\ rxCount' = Len(buf) + 1
      /\ UNCHANGED <<sender, receiver, state, owner, step_sem, reply>>
      /\ cmp_sem' = IF Len(buf) + 1 >= Need(state) THEN cmp_sem + 1 ELSE cmp_sem
  BY <1>1, <1>3, HeadOfWire DEF Arrive, Received
<1>6. Len(buf') = Len(buf) + 1 /\ Len(wire') = Len(wire) - 1
  BY <1>1, <1>4, <1>5, HeadOfWire
<1>7. \A i \in 1 .. Len(buf') : buf'[i] = Byte(reply', i)
  BY <1>2, <1>4, <1>5, <1>6 DEF Coming
<1>8. \A i \in 1 .. Len(wire') : wire'[i] = Byte(reply', Len(buf') + i)
  <2> SUFFICES ASSUME NEW i \in 1 .. Len(wire') PROVE wire'[i] = Byte(reply', Len(buf') + i)
    OBVIOUS
  <2>1. wire'[i] = wire[i + 1] /\ i + 1 \in 1 .. Len(wire)
    BY <1>1, <1>4, <1>5, <1>6, HeadOfWire
  <2>2. wire[i + 1] = Byte(reply, Len(buf) + (i + 1))
    BY <1>2, <2>1 DEF Coming
  <2>3. Len(buf) + (i + 1) = Len(buf') + i
    BY <1>4, <1>6
  <2> QED
    BY <1>5, <2>1, <2>2, <2>3
<1>9. cmp_sem' = IF wire' = << >> THEN 1 ELSE 0
  <2>1. wire' = << >> <=> Len(buf) + 1 >= Need(state)
    <3>1. wire' \in Seq(LineBytes)
      BY <1>1, <1>5, HeadOfWire
    <3>2. wire' = << >> <=> Len(wire) = 1
      BY <1>4, <1>6, <3>1
    <3>3. Len(buf) + Len(wire) = Need(state)
      BY <1>2 DEF Coming
    <3> DEFINE n == Need(state)
               b == Len(buf)
               w == Len(wire)
    <3>4. n \in Int /\ b \in Nat /\ w \in Nat /\ w > 0 /\ b + w = n
      BY <1>3, <1>4, <3>3
    <3> HIDE DEF n, b, w
    <3>5. w = 1 <=> b + 1 >= n
      BY <3>4
    <3> QED
      BY <3>2, <3>5 DEF n, b, w
  <2>2. cmp_sem = 0
    BY <1>1, <1>2 DEF Coming
  <2> QED
    BY <1>5, <2>1, <2>2
<1>10. Coming'
  <2>1. Len(buf') + Len(wire') = Need(state')
    <3>1. Len(buf) + Len(wire) = Need(state) /\ state' = state
      BY <1>2, <1>5 DEF Coming
    <3>2. Len(buf') + Len(wire') = Len(buf) + Len(wire)
      BY <1>4, <1>6
    <3> QED
      BY <3>1, <3>2
  <2>2. rxCount' = Len(buf')
    BY <1>5, <1>6
  <2> QED
    BY <1>7, <1>8, <1>9, <2>1, <2>2 DEF Coming
<1> QED
  BY <1>2, <1>5, <1>10 DEF CleanInv, Transmitted, sender, receiver

\* The receiver takes exactly one answer.
LEMMA CleanReceive ==
  ASSUME TypeOK, TokenInv, StateInv, CleanInv, Receiver
  PROVE  CleanInv'
<1>0. SenderType /\ ReceiverType /\ SharedType /\ LineType
  BY TypeParts
<1>1. CASE RecvStep \/ RecvMutex
  <2>1. Transmitted /\ Coming /\ Transmitted' /\ rpc' \in {"mutex", "cmp"}
    BY <1>1 DEF RecvStep, RecvMutex, CleanInv, Transmitted
  <2>2. Coming'
    BY <1>1, <2>1 DEF RecvStep, RecvMutex, Coming, uart, line
  <2>3. owner' = "receiver" => rpc' \in Working
    BY <1>1 DEF RecvStep, RecvMutex, CleanInv, TokenInv, Working
  <2> QED
    BY <2>1, <2>2, <2>3 DEF CleanInv
<1>2. CASE RecvCmp
  <2>1. Transmitted /\ Coming /\ Need(state) \in 4 .. 8
    BY <1>2, ReplyType DEF RecvCmp, CleanInv, Transmitted
  <2>2. wire = << >> /\ cmp_sem = 1 /\ Len(wire) = 0 /\ buf \in Seq(LineBytes)
    BY <1>0, <1>2, <2>1 DEF RecvCmp, Coming, LineType
  <2>3. Len(buf) = Need(state) /\ buf # << >> /\ rxCount = Need(state)
    BY <2>1, <2>2 DEF Coming
  <2>4. Here'
    BY <1>2, <2>1, <2>2, <2>3 DEF RecvCmp, Coming, Here, uart, line
  <2> QED
    BY <1>2, <2>4 DEF RecvCmp, CleanInv, Transmitted, Working
<1>3. CASE RecvAnswer
  <2>1. Silent' /\ rpc' = "step" /\ step_sem' = 0 /\ spc' = "take" /\ state' = "IDLE"
    BY <1>0, <1>3
       DEF RecvAnswer, CleanInv, Here, Silent, TokenInv, Working, Sending, SenderType, sender, line
  <2> QED
    BY <1>3, <2>1 DEF RecvAnswer, CleanInv, Transmitted
<1>4. CASE RecvFrame
  <2>1. Here /\ Transmitted /\ Need(state) \in 4 .. 8
    BY <1>4, ReplyType DEF RecvFrame, CleanInv, Transmitted
  <2>2. buf' = << >>
    BY <1>0, <1>4, <2>1 DEF RecvFrame, Here, LineType
  <2>3. \A i \in 1 .. Need(state) : rxCmd'[i] = Byte(reply, i)
    BY <1>4, <2>1 DEF RecvFrame, Here
  <2>4. Silent' /\ state' = state /\ state \in Framed /\ reply' = reply /\ rpc' = "judge"
    BY <1>4, <2>1, <2>2 DEF RecvFrame, Here, Silent, shared, line
  <2> QED
    BY <2>3, <2>4 DEF CleanInv, Transmitted, Working
<1>5. CASE RecvDiscard
  \* Cannot happen: the answer is complete, and it is one to a command.
  <2>1. Here /\ Transmitted /\ state # "IDLE" /\ Need(state) \in 4 .. 8
    BY <1>5, ReplyType DEF RecvDiscard, CleanInv, Transmitted
  <2> QED
    BY <1>5, <2>1 DEF RecvDiscard, Here
<1>6. CASE RecvStore
  <2>1. Silent' /\ rpc' = "step" /\ step_sem' = 0 /\ spc' = "take" /\ state' = "IDLE"
    BY <1>0, <1>6
       DEF RecvStore, CleanInv, Silent, TokenInv, Working, Sending, SenderType, sender, line, uart
  <2> QED
    BY <1>6, <2>1 DEF RecvStore, CleanInv, Transmitted
<1>7. CASE RecvReject
  \* Cannot happen: the first bytes are those of the answer.
  <2>1. /\ Transmitted /\ \A i \in 1 .. Need(state) : rxCmd[i] = Byte(reply, i)
        /\ Need(state) \in 4 .. 8 /\ reply.motor \in Motors /\ reply.kind = state
    BY <1>7, ReplyType DEF RecvReject, CleanInv, Transmitted
  <2>2. rxCmd[1] = Byte(reply, 1) /\ rxCmd[2] = Byte(reply, 2)
    BY <2>1
  <2>3. Fits
    BY <2>1, <2>2 DEF Fits, Byte
  <2> QED
    BY <1>7, <2>3 DEF RecvReject
<1> QED
  BY <1>1, <1>2, <1>3, <1>4, <1>5, <1>6, <1>7 DEF Receiver

\* Without faults every step keeps answers and commands matched.
LEMMA CleanStep ==
  ASSUME TypeOK, TokenInv, StateInv, faults = 0 => CleanInv, [Next]_vars, faults' = 0
  PROVE  CleanInv'
<1>0. CleanInv
  BY CleanSteps
<1>1. ASSUME UNCHANGED <<spc, receiver, shared, uart, line>> PROVE CleanInv'
  <2>1. /\ UNCHANGED <<rpc, rxCmd, state, owner, step_sem, cmp_sem, rxCount, buf, reply, wire>>
        /\ UNCHANGED spc
    BY <1>1 DEF receiver, shared, uart, line
  <2>2. /\ Silent' <=> Silent
        /\ Here' <=> Here
        /\ Transmitted' <=> Transmitted
        /\ Coming' <=> Coming
    BY <2>1 DEF Silent, Here, Transmitted, Coming
  <2> QED
    BY <1>0, <2>1, <2>2 DEF CleanInv
<1>2. CASE Batches
  BY <1>1, <1>2, BatchStep
<1>3. CASE (\E m \in Motors : Hand(m)) \/ UNCHANGED vars
  <2>1. UNCHANGED <<spc, receiver, shared, uart, line>>
    BY <1>3 DEF Hand, vars, sender
  <2> QED
    BY <1>1, <2>1
<1> QED
  BY <1>0, <1>2, <1>3, CleanSteps, CleanSend, CleanArrive, CleanReceive

-----------------------------------------------------------------------------
\* The invariant holds in every reachable state.
LEMMA StepperInvariant == Spec => []StepperInv
<1>1. Init => StepperInv
  <2> SUFFICES ASSUME Init PROVE StepperInv
    OBVIOUS
  <2>1. TokenInv /\ StateInv
    BY DEF Init, TokenInv, StateInv, Transmitted, Sending, Working
  <2>2. CleanInv
    BY DEF Init, CleanInv, Transmitted, Silent, Working
  <2> QED
    BY <2>1, <2>2, TypeInit DEF StepperInv
<1>2. StepperInv /\ [Next]_vars => StepperInv'
  BY TypeStep, TokenStep, StateStep, CleanStep DEF StepperInv
<1> QED
  BY <1>1, <1>2, PTL DEF Spec

\* Every variable keeps its type; step_sem never counts more than one command.
THEOREM StepperTypeCorrect == Spec => []TypeOK
<1>1. StepperInv => TypeOK
  BY DEF StepperInv
<1> QED
  BY <1>1, StepperInvariant, PTL

\* Whatever bytes the line makes up or loses, stepper_motor_cmd_state is that of the
\* command in hand as long as drv_process_steppermotor works on its answer.
THEOREM StateNeverPulledAway == Spec => []StateFixed
<1>1. StepperInv => StateFixed
  BY DEF StepperInv, TokenInv, StateInv, Transmitted, Working, StateFixed
<1> QED
  BY <1>1, StepperInvariant, PTL

\* On a line that has made up and lost no byte drv_process_steppermotor always comes
\* to the end of its turn, where it gives the mutex back.
THEOREM MutexComesBack == Spec => []GivesBackOnCleanLine
<1>1. StepperInv => GivesBackOnCleanLine
  BY DEF StepperInv, CleanInv, Working, GivesBackOnCleanLine, GivesBack
<1> QED
  BY <1>1, StepperInvariant, PTL

\* On such a line the frame that is judged is the answer to the command in hand,
\* from its first byte to its last.
THEOREM AnswersTakenWhole == Spec => []WholeAnswer
<1>1. StepperInv => WholeAnswer
  BY DEF StepperInv, CleanInv, WholeAnswer
<1> QED
  BY <1>1, StepperInvariant, PTL

\* On such a line no byte and no count is left over for the next command.
THEOREM NothingLeftBehind == Spec => []CleanBetween
<1>1. StepperInv => CleanBetween
  <2> SUFFICES ASSUME StepperInv, faults = 0, state = "IDLE" PROVE buf = << >> /\ cmp_sem = 0
    BY DEF CleanBetween
  <2>1. ~Transmitted
    BY ReplyType DEF StepperInv
  <2> QED
    BY <2>1 DEF StepperInv, CleanInv, Silent
<1> QED
  BY <1>1, StepperInvariant, PTL
=============================================================================
