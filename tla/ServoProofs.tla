----------------------------- MODULE ServoProofs -----------------------------
(***************************************************************************)
(* The gripper's servo, for any requests, any bounds and any number of     *)
(* faults.  As long as the calls without the mutex do not overlap with     *)
(* others (~Overlap; they have no caller), one thread at a time reads      *)
(* answers and no byte is slept on.  As long as the line is clean, the     *)
(* servo answers no burst and no answer comes after its time-out (~Late),  *)
(* a query returns its own answer and the mutex is given back.             *)
(***************************************************************************)
EXTENDS Servo, SequenceTheorems, TLAPS

Reading == {"read", "wait"}

\* Where a call holds the mutex.
Locked(t) ==
  \/ op[t] # "data" /\ pc[t] \in {"send", "sending", "read", "wait", "unlock"}
  \/ op[t] = "mturn" /\ pc[t] = "judge"

\* The mutex is held where it must be; a call without it is alone.
LockInv ==
  \A t \in Threads :
    /\ Locked(t) => owner = t
    /\ Unlocked(t) => /\ pc[t] \notin {"lock", "unlock", "raw1", "rest", "raw2"}
                      /\ \A u \in Threads \ {t} : pc[u] = "idle"
    /\ goal[t] # "none" => op[t] # "data"
    /\ pc[t] \in Reading => op[t] \in Queries

-----------------------------------------------------------------------------
(* A clean line without late answers *)

\* The place in the answer of the byte that t reads next.
Place(t) ==
  CASE phase[t] = "head"    -> 1
    [] phase[t] = "head2"   -> 2
    [] phase[t] = "cmd"     -> 3
    [] phase[t] = "size"    -> 4
    [] phase[t] = "content" -> 5 + Len(content[t])
    [] phase[t] = "sum"     -> 7

\* The bytes of t's answer from place k on, in the buffer b and on the wire w.
Remains(t, k, b, w) ==
  /\ Len(b) + Len(w) = 8 - k
  /\ \A i \in 1 .. Len(b) : b[i] = Byte(t, k - 1 + i)
  /\ \A i \in 1 .. Len(w) : w[i] = Byte(t, k - 1 + Len(b) + i)

Quiet == buf = << >> /\ wire = << >>

\* What the reader t has of its answer.
Has(t) ==
  /\ phase[t] \in {"head", "head2", "cmd", "size"} => content[t] = << >>
  /\ phase[t] = "content" => size[t] = 2 /\ (content[t] = << >> \/ content[t] = <<Byte(t, 5)>>)
  /\ phase[t] = "sum" => content[t] = <<Byte(t, 5), Byte(t, 6)>>

\* Bytes are under way only for a reader.
QuietInv == (\A t \in Threads : pc[t] \notin Reading) => Quiet

\* A reader has the beginning of its answer and the rest is coming, or nothing is.
ReadInv(t) ==
  pc[t] \in Reading =>
    Has(t) /\ ((phase[t] = "head" /\ Quiet) \/ Remains(t, Place(t), buf, wire))

\* A successful query has its answer from the end of FSUS_RecvPackage on.
ResultInv(t) ==
  (pc[t] \in {"judge", "unlock", "return"} /\ op[t] \in Queries /\ status[t] = "SUCCESS")
    => content[t] = <<Byte(t, 5), Byte(t, 6)>>

\* The mutex is held only where a call holds it, and once.
HoldInv == owner # "none" => hold = 1 /\ Locked(owner)

CleanInv == QuietInv /\ (\A t \in Threads : ReadInv(t) /\ ResultInv(t)) /\ HoldInv

ServoInv ==
  /\ TypeOK
  /\ ~Overlap => LockInv /\ NoLostWakeup
  /\ (~Overlap /\ ~Late /\ faults = 0 /\ stray = 0) => CleanInv

-----------------------------------------------------------------------------
(* Bytes *)

\* The bytes of an answer, of a late answer, of an answer to a burst and of noise.
LEMMA ByteType ==
  /\ \A t \in Threads, i \in 0 .. 9 : Byte(t, i) \in Bytes
  /\ \A i \in 0 .. 9 : Byte("old", i) \in Bytes /\ Byte("burst", i) \in Bytes
  /\ Noise \in Bytes
BY DEF Byte, Bytes, Noise

\* An answer is seven bytes.
LEMMA AnswerType ==
  ASSUME NEW t \in Threads
  PROVE  /\ Answer(t) \in Seq(Bytes) /\ OtherAnswer(t) \in Seq(Bytes)
         /\ Len(Answer(t)) = 7 /\ \A i \in 1 .. 7 : Answer(t)[i] = Byte(t, i)
<1>1. \A i \in 1 .. 7 : Byte(t, i) \in Bytes
  BY ByteType
<1>2. Answer(t) \in Seq(Bytes) /\ Len(Answer(t)) = 7
  BY <1>1 DEF Answer
<1>3. \A i \in 1 .. 7 : Byte(t, IF i = 5 THEN OtherId ELSE i) \in Bytes
  BY ByteType DEF OtherId
<1>4. OtherAnswer(t) \in Seq(Bytes)
  BY <1>3 DEF OtherAnswer
<1> QED
  BY <1>2, <1>4 DEF Answer

\* The answers to a burst are bytes.
LEMMA BurstType == \A a \in BurstAnswers : a \in Seq(Bytes)
<1>1. \A i \in 1 .. 9 : Byte("burst", i) \in Bytes
  BY ByteType
<1>2. << >> \in Seq(Bytes) /\ Answer("burst") \in Seq(Bytes)
  BY <1>1 DEF Answer
<1>3. LongAnswer("burst") \in Seq(Bytes)
  BY <1>1 DEF LongAnswer, LongSize
<1>4. \A a, b, c \in Seq(Bytes) : a \o b \o c \in Seq(Bytes)
  OBVIOUS
<1> TAKE d \in BurstAnswers
<1>5. PICK a, b \in {<< >>, Answer("burst")}, c \in {<< >>, LongAnswer("burst")} :
        d = a \o b \o c
  BY DEF BurstAnswers
<1>6. a \in Seq(Bytes) /\ b \in Seq(Bytes) /\ c \in Seq(Bytes)
  BY <1>2, <1>3
<1> QED
  BY <1>4, <1>5, <1>6

\* A late answer is as long as it was in time.
LEMMA AgedType ==
  ASSUME NEW t \in Threads, NEW s \in Seq(Bytes)
  PROVE  Aged(t, s) \in Seq(Bytes) /\ (s = << >> => Aged(t, s) = << >>)
<1>1. DOMAIN s = 1 .. Len(s) /\ Len(s) \in Nat
  OBVIOUS
<1>2. \A i \in 1 .. Len(s) : s[i] \in Bytes /\ Byte("old", s[i].at) \in Bytes
  <2>1. \A i \in 1 .. Len(s) : s[i] \in Bytes
    OBVIOUS
  <2>2. \A b \in Bytes : b.at \in 0 .. 9
    BY DEF Bytes
  <2> QED
    BY <2>1, <2>2, ByteType
<1>3. Aged(t, s) \in [1 .. Len(s) -> Bytes]
  BY <1>1, <1>2 DEF Aged
<1> QED
  BY <1>1, <1>3

\* A size byte is read as a number of content bytes.
LEMMA SizeType == \A b \in Bytes : Sizes(b) \subseteq 0 .. TooBig
BY DEF Sizes, TooBig

-----------------------------------------------------------------------------
(* Type correctness *)

PcType ==
  pc \in [Threads -> {"idle", "lock", "send", "sending", "raw1", "rest", "raw2",
                      "read", "wait", "judge", "unlock", "return", "wild"}]
CallType ==
  /\ op \in [Threads -> Ops] /\ goal \in [Threads -> Goals]
  /\ count \in [Threads -> 0 .. WaitMax - 1]
PkgType ==
  /\ phase \in [Threads -> {"head", "head2", "cmd", "size", "content", "sum"}]
  /\ size \in [Threads -> 0 .. TooBig] /\ content \in [Threads -> Seq(Bytes)]
StatusType ==
  status \in [Threads -> {"SUCCESS", "FAIL", "TIMEOUT", "UNKNOWN_CMD_ID",
       "SIZE_TOO_BIG", "CHECKSUM_ERROR", "ID_NOT_MATCH"}]
GarbledType == garbled \in [Threads -> BOOLEAN]
MutexType == owner \in Threads \cup {"none"} /\ hold \in Nat /\ (owner = "none" <=> hold = 0)
LineType ==
  /\ sem \in 0 .. MaxSem /\ buf \in Seq(Bytes) /\ wire \in Seq(Bytes)
  /\ stray \in 0 .. MaxStray /\ faults \in 0 .. MaxFaults

\* The type invariant by groups of variables.
LEMMA TypeParts ==
  /\ TypeOK <=> /\ PcType /\ CallType /\ PkgType /\ StatusType /\ GarbledType
                /\ MutexType /\ LineType
  /\ TypeOK' <=> /\ PcType' /\ CallType' /\ PkgType' /\ StatusType' /\ GarbledType'
                 /\ MutexType' /\ LineType'
BY DEF TypeOK, PcType, CallType, PkgType, StatusType, GarbledType, MutexType, LineType

\* Variables that do not change keep their types.
LEMMA TypeFrame ==
  ASSUME TypeOK
  PROVE  /\ UNCHANGED pc => PcType'
         /\ UNCHANGED callvars => CallType'
         /\ UNCHANGED pkg => PkgType'
         /\ UNCHANGED status => StatusType'
         /\ UNCHANGED garbled => GarbledType'
         /\ UNCHANGED mutex => MutexType'
         /\ UNCHANGED <<sem, buf, wire, stray, faults>> => LineType'
<1>0. PcType /\ CallType /\ PkgType /\ StatusType /\ GarbledType /\ MutexType /\ LineType
  BY TypeParts
<1>1. (UNCHANGED pc => PcType') /\ (UNCHANGED status => StatusType')
  BY <1>0 DEF PcType, StatusType
<1>2. UNCHANGED callvars => CallType'
  BY <1>0 DEF CallType, callvars
<1>3. UNCHANGED pkg => PkgType'
  BY <1>0 DEF PkgType, pkg
<1>4. UNCHANGED garbled => GarbledType'
  BY <1>0 DEF GarbledType
<1>5. UNCHANGED mutex => MutexType'
  BY <1>0 DEF MutexType, mutex
<1>6. UNCHANGED <<sem, buf, wire, stray, faults>> => LineType'
  BY <1>0 DEF LineType
<1> QED
  BY <1>1, <1>2, <1>3, <1>4, <1>5, <1>6

\* The initial state is well typed.
LEMMA TypeInit == Init => TypeOK
<1> SUFFICES ASSUME Init PROVE TypeOK
  OBVIOUS
<1>1. PcType /\ StatusType
  BY DEF Init, PcType, StatusType
<1>2. CallType
  BY ServoAssumption DEF Init, CallType, Ops, Goals
<1>3. PkgType
  BY DEF Init, PkgType, TooBig
<1>4. GarbledType
  BY DEF Init, GarbledType
<1>5. MutexType
  BY DEF Init, MutexType
<1>6. LineType
  BY ServoAssumption DEF Init, LineType
<1> QED
  BY <1>1, <1>2, <1>3, <1>4, <1>5, <1>6, TypeParts

\* A thread goes to one of its places.
LEMMA GotoType ==
  ASSUME TypeOK, NEW t \in Threads,
         NEW l \in {"idle", "lock", "send", "sending", "raw1", "rest", "raw2",
                    "read", "wait", "judge", "unlock", "return", "wild"}, Goto(t, l)
  PROVE  PcType' /\ pc'[t] = l /\ \A u \in Threads \ {t} : pc'[u] = pc[u]
BY TypeParts DEF PcType, Goto

\* A call begins: the thread's own variables, and where it goes.
LEMMA CallStep ==
  ASSUME TypeOK, NEW t \in Threads, NEW o \in Ops, NEW g \in Goals, Call(t, o, g)
  PROVE  TypeOK'
<1>1. PcType'
  BY GotoType DEF Call
<1>2. CallType'
  BY TypeParts, ServoAssumption DEF Call, CallType
<1> QED
  BY <1>1, <1>2, TypeParts, TypeFrame DEF Call

\* Taking and releasing the mutex keeps the types.
LEMMA MutexStep ==
  ASSUME TypeOK, NEW t \in Threads, Lock(t) \/ LockTimeout(t) \/ Unlock(t)
  PROVE  TypeOK'
<1>0. MutexType /\ StatusType
  BY TypeParts
<1>1. CASE Lock(t)
  <2>1. MutexType'
    BY <1>0, <1>1 DEF Lock, MutexType, Threads
  <2> QED
    BY <1>1, <2>1, GotoType, TypeParts, TypeFrame DEF Lock
<1>2. CASE LockTimeout(t)
  <2>1. StatusType'
    BY <1>0, <1>2 DEF LockTimeout, StatusType
  <2> QED
    BY <1>2, <2>1, GotoType, TypeParts, TypeFrame DEF LockTimeout
<1>3. CASE Unlock(t)
  <2>1. MutexType'
    BY <1>0, <1>3 DEF Unlock, MutexType, mutex, Threads
  <2>2. PcType'
    BY <1>3, GotoType DEF Unlock
  <2> QED
    BY <1>3, <2>1, <2>2, TypeParts, TypeFrame DEF Unlock
<1> QED
  BY <1>1, <1>2, <1>3

\* Writing marks whoever else is writing.
LEMMA WriteType ==
  ASSUME TypeOK, NEW t \in Threads, NEW l \in {"sending", "raw1", "raw2"}, Write(t, l)
  PROVE  /\ PcType' /\ PkgType' /\ StatusType' /\ GarbledType' /\ MutexType' /\ LineType'
<1>1. GarbledType'
  BY TypeParts, Zenon DEF Write, GarbledType
<1>2. PcType'
  BY GotoType DEF Write
<1> QED
  BY <1>1, <1>2, TypeFrame DEF Write

\* Writing to the line keeps the types.
LEMMA SendStep ==
  ASSUME TypeOK, NEW t \in Threads,
         SendStart(t) \/ SendEnd(t) \/ Burst1(t) \/ Rest(t) \/ Burst2(t) \/ WheelMoveTime(t)
  PROVE  TypeOK'
<1>0. CallType /\ PkgType /\ StatusType /\ GarbledType /\ LineType
  BY TypeParts
<1>1. CASE SendStart(t) \/ Burst2(t)
  BY <1>1, WriteType, TypeFrame, TypeParts DEF SendStart, Burst2
<1>2. CASE Burst1(t)
  <2>1. CallType'
    BY <1>0, <1>2, ServoAssumption DEF Burst1, CallType, Ops, Goals
  <2> QED
    BY <1>2, <2>1, WriteType, TypeParts DEF Burst1
<1>3. CASE Rest(t) \/ WheelMoveTime(t)
  <2>1. BurstEnd /\ (Goto(t, "rest") \/ Goto(t, "lock"))
    BY <1>3 DEF Rest, WheelMoveTime
  <2>2. LineType'
    <3>1. PICK a \in BurstAnswers : /\ a # << >> => stray + Len(a) <= MaxStray
                                    /\ stray' = stray + Len(a) /\ wire' = wire \o a
      BY <2>1 DEF BurstEnd
    <3>2. a \in Seq(Bytes) /\ Len(a) \in Nat
      BY BurstType
    <3>3. wire' \in Seq(Bytes) /\ stray' \in 0 .. MaxStray
      BY <1>0, <3>1, <3>2, ServoAssumption DEF LineType
    <3> QED
      BY <1>0, <2>1, <3>3 DEF BurstEnd, LineType
  <2> QED
    BY <2>1, <2>2, GotoType, TypeFrame, TypeParts DEF BurstEnd
<1>4. CASE SendEnd(t)
  <2>1. PICK a \in {<< >>, Answer(t), OtherAnswer(t)} :
          /\ a = OtherAnswer(t) => MayFail
          /\ wire' = Aged(t, wire) \o a
          /\ faults' = IF a = OtherAnswer(t) THEN faults + 1 ELSE faults
    BY <1>4 DEF SendEnd
  <2>2. a \in Seq(Bytes)
    <3>1. << >> \in Seq(Bytes) /\ Answer(t) \in Seq(Bytes) /\ OtherAnswer(t) \in Seq(Bytes)
      BY AnswerType
    <3> QED
      BY <3>1
  <2>3. wire' \in Seq(Bytes) /\ buf' \in Seq(Bytes)
    <3>1. Aged(t, wire) \in Seq(Bytes) /\ Aged(t, buf) \in Seq(Bytes)
      BY <1>0, AgedType DEF LineType
    <3> QED
      BY <1>4, <2>1, <2>2, <3>1 DEF SendEnd
  <2>4. faults' \in 0 .. MaxFaults
    BY <1>0, <2>1, ServoAssumption DEF LineType, MayFail
  <2>5. LineType'
    BY <1>0, <1>4, <2>3, <2>4 DEF SendEnd, LineType
  <2>6. PkgType'
    BY <1>0, <1>4 DEF SendEnd, PkgType
  <2>7. StatusType'
    BY <1>0, <1>4 DEF SendEnd, StatusType
  <2>8. GarbledType'
    BY <1>0, <1>4 DEF SendEnd, GarbledType
  <2>9. PcType'
    BY <1>4, GotoType DEF SendEnd
  <2> QED
    BY <1>4, <2>5, <2>6, <2>7, <2>8, <2>9, TypeParts, TypeFrame DEF SendEnd
<1> QED
  BY <1>1, <1>2, <1>3, <1>4


\* FSUS_RecvPackage ends with a status code.
LEMMA FinishType ==
  ASSUME TypeOK, NEW t \in Threads, NEW code, Finish(t, code),
         code \in {"SUCCESS", "TIMEOUT", "UNKNOWN_CMD_ID", "SIZE_TOO_BIG", "CHECKSUM_ERROR"}
  PROVE  PcType' /\ StatusType'
<1>1. PcType'
  BY GotoType DEF Finish
<1> QED
  BY <1>1, TypeParts DEF Finish, StatusType

\* Reading a byte takes the first one out of the buffer.
LEMMA TakeType ==
  ASSUME TypeOK, NEW t \in Threads, Take(t)
  PROVE  /\ Head(buf) \in Bytes /\ Head(buf) = buf[1] /\ buf' \in Seq(Bytes)
         /\ Len(buf) > 0 /\ Len(buf') = Len(buf) - 1
         /\ \A i \in 1 .. Len(buf) - 1 : buf'[i] = buf[i + 1]
BY TypeParts DEF Take, LineType

\* Reading a byte: the reader's package, its place and the buffer.
LEMMA ReadStep ==
  ASSUME TypeOK, NEW t \in Threads,
         \/ ReadHeader(t) \/ ReadCmd(t) \/ ReadSize(t) \/ ReadContent(t) \/ ReadSum(t)
  PROVE  TypeOK'
<1>0. PkgType /\ LineType
  BY TypeParts
<1>1. Take(t) /\ UNCHANGED linevars
  BY DEF ReadHeader, ReadCmd, ReadSize, ReadContent, ReadSum
<1>2. LineType'
  BY <1>0, <1>1, TakeType DEF LineType, linevars
<1>3. PkgType' /\ PcType' /\ StatusType'
  <2>1. CASE ReadHeader(t)
    <3>1. \E p \in {"head", "head2", "cmd"} : Expect(t, p)
      BY <2>1 DEF ReadHeader
    <3>2. PkgType'
      BY <1>0, <2>1, <3>1 DEF ReadHeader, Expect, PkgType
    <3> QED
      BY <2>1, <3>2, TypeFrame DEF ReadHeader
  <2>2. CASE ReadCmd(t)
    <3>1. \/ Expect(t, "size") /\ UNCHANGED <<pc, status>>
          \/ Finish(t, "UNKNOWN_CMD_ID") /\ UNCHANGED phase
      BY <2>2 DEF ReadCmd
    <3>2. PkgType'
      BY <1>0, <2>2, <3>1 DEF ReadCmd, Expect, PkgType
    <3> QED
      BY <3>1, <3>2, FinishType, TypeFrame
  <2>3. CASE ReadSize(t)
    <3>1. PICK n \in Sizes(Head(buf)) :
            /\ size' = [size EXCEPT ![t] = n]
            /\ IF n < TooBig THEN Expect(t, "content") /\ UNCHANGED <<pc, status>>
                             ELSE Finish(t, "SIZE_TOO_BIG") /\ UNCHANGED phase
      BY <2>3 DEF ReadSize
    <3>2. n \in 0 .. TooBig
      BY <1>1, TakeType, SizeType
    <3>3. PkgType'
      BY <1>0, <2>3, <3>1, <3>2 DEF ReadSize, Expect, PkgType
    <3> QED
      BY <3>1, <3>3, FinishType, TypeFrame
  <2>4. CASE ReadContent(t)
    <3>1. Append(content[t], Head(buf)) \in Seq(Bytes)
      BY <1>0, <1>1, TakeType DEF PkgType
    <3>2. content' \in [Threads -> Seq(Bytes)]
      BY <1>0, <2>4, <3>1 DEF ReadContent, PkgType
    <3>3. PkgType'
      BY <1>0, <2>4, <3>2 DEF ReadContent, Expect, PkgType
    <3>4. PcType'
      BY <2>4, GotoType, TypeFrame DEF ReadContent
    <3> QED
      BY <2>4, <3>3, <3>4, TypeFrame DEF ReadContent
  <2>5. CASE ReadSum(t)
    BY <2>5, FinishType, TypeFrame DEF ReadSum
  <2> QED
    BY <2>1, <2>2, <2>3, <2>4, <2>5
<1> QED
  BY <1>1, <1>2, <1>3, TypeParts, TypeFrame DEF linevars

\* Waiting for a byte keeps the types.
LEMMA WaitStep ==
  ASSUME TypeOK, NEW t \in Threads, ReadEmpty(t) \/ Awake(t) \/ Silence(t)
  PROVE  TypeOK'
<1>1. CASE ReadEmpty(t)
  BY <1>1, GotoType, TypeFrame, TypeParts DEF ReadEmpty, linevars
<1>2. CASE Awake(t)
  <2>1. LineType'
    BY <1>2, TypeParts, ServoAssumption DEF Awake, LineType
  <2> QED
    BY <1>2, <2>1, GotoType, TypeFrame, TypeParts DEF Awake
<1>3. CASE Silence(t)
  BY <1>3, FinishType, TypeFrame, TypeParts DEF Silence, linevars
<1> QED
  BY <1>1, <1>2, <1>3

\* The end of a call keeps the types.
LEMMA EndStep ==
  ASSUME TypeOK, NEW t \in Threads, Judge(t) \/ Return(t)
  PROVE  TypeOK'
<1>0. CallType /\ PkgType /\ StatusType
  BY TypeParts
<1>1. CASE Judge(t)
  <2>1. \E c \in {status[t], "FAIL", "ID_NOT_MATCH"}, l \in {"unlock", "return"} :
          status' = [status EXCEPT ![t] = c] /\ Goto(t, l)
    BY <1>1, Zenon DEF Judge
  <2>2. StatusType' /\ PcType'
    BY <1>0, <2>1, GotoType DEF StatusType
  <2> QED
    BY <1>1, <2>2, TypeFrame, TypeParts DEF Judge, linevars
<1>2. CASE Return(t)
  <2>1. CASE Leave(t)
    <3>1. CallType'
      BY <1>0, <2>1, ServoAssumption DEF Leave, CallType, Ops, Goals
    <3>2. PkgType'
      BY <1>0, <2>1 DEF Leave, PkgType, TooBig
    <3>3. StatusType'
      BY <1>0, <2>1 DEF Leave, StatusType
    <3>4. PcType'
      BY <2>1, GotoType DEF Leave
    <3> QED
      BY <1>2, <3>1, <3>2, <3>3, <3>4, TypeFrame, TypeParts DEF Return
  <2>2. ASSUME NEW n \in 0 .. WaitMax - 1, Ask(t, n), goal[t] # "none" PROVE TypeOK'
    <3>1. goal[t] \in Ops
      BY <1>0, <2>2 DEF CallType, Goals, Ops, Queries
    <3>2. CallType'
      BY <1>0, <2>2, <3>1 DEF Ask, CallType
    <3>3. PcType'
      BY <2>2, GotoType DEF Ask
    <3> QED
      BY <1>2, <2>2, <3>2, <3>3, TypeFrame, TypeParts DEF Return, Ask
  <2>3. 0 \in 0 .. WaitMax - 1 /\ (count[t] + 1 < WaitMax => count[t] + 1 \in 0 .. WaitMax - 1)
    BY <1>0, ServoAssumption DEF CallType
  <2> QED
    BY <1>2, <2>1, <2>2, <2>3 DEF Return
<1> QED
  BY <1>1, <1>2

\* The interrupt and the line.
LineSteps == Arrive \/ MakeNoise \/ Lose

\* The line and the interrupt keep the types.
LEMMA LineStep ==
  ASSUME TypeOK, LineSteps
  PROVE  TypeOK'
<1>0. LineType
  BY TypeParts
<1>1. UNCHANGED threadvars
  BY DEF LineSteps, Arrive, MakeNoise, Lose
<1>2. ASSUME NEW b \in Bytes, Received(b) PROVE sem' \in 0 .. MaxSem /\ buf' \in Seq(Bytes)
  BY <1>0, <1>2, ServoAssumption DEF Received, Deliver, LineType
<1>3. wire # << >> => Head(wire) \in Bytes /\ Tail(wire) \in Seq(Bytes)
  BY <1>0 DEF LineType
<1>4. LineType'
  <2>1. CASE Arrive
    BY <1>0, <1>2, <1>3, <2>1 DEF Arrive, LineType
  <2>2. CASE MakeNoise
    <3>1. sem' \in 0 .. MaxSem /\ buf' \in Seq(Bytes)
      BY <1>2, <2>2, ByteType DEF MakeNoise
    <3> QED
      BY <1>0, <2>2, <3>1, ServoAssumption DEF MakeNoise, LineType, MayFail
  <2>3. CASE Lose
    BY <1>0, <1>3, <2>3, ServoAssumption DEF Lose, LineType, MayFail
  <2> QED
    BY <2>1, <2>2, <2>3 DEF LineSteps
<1> QED
  BY <1>1, <1>4, TypeFrame, TypeParts DEF threadvars

\* Every step keeps the types.
LEMMA TypeStep == TypeOK /\ [Next]_vars => TypeOK'
<1> SUFFICES ASSUME TypeOK, [Next]_vars PROVE TypeOK'
  OBVIOUS
<1>1. CASE UNCHANGED vars
  BY <1>1, TypeFrame, TypeParts DEF vars
<1>2. ASSUME NEW t \in Threads, Continue(t) PROVE TypeOK'
  BY <1>2, MutexStep, SendStep, WaitStep, ReadStep, EndStep DEF Continue
<1> QED
  BY <1>1, <1>2, CallStep, SendStep, LineStep DEF Next, LineSteps


-----------------------------------------------------------------------------
(* The mutex, whatever the line does *)

\* Whoever is past the mutex holds it.
LEMMA LockStep == TypeOK /\ ~Overlap /\ LockInv /\ [Next]_vars => LockInv'
<1> SUFFICES ASSUME TypeOK, ~Overlap, LockInv, [Next]_vars PROVE LockInv'
  OBVIOUS
<1>0. PcType /\ CallType /\ MutexType
  BY TypeParts
<1> USE DEF LockInv, Locked, Unlocked, Reading, Goto, PcType, CallType
<1>1. ASSUME NEW t \in Threads, NEW o \in Ops, NEW g \in Goals, Call(t, o, g) PROVE LockInv'
  <2>1. g # "none" => o = "move"
    BY <1>1, ServoAssumption DEF Call
  <2>2. \A u \in Threads \ {t} : /\ pc'[u] = pc[u] /\ op'[u] = op[u] /\ goal'[u] = goal[u]
                                 /\ ~Unlocked(u) /\ (o = "data" => pc[u] = "idle")
    BY <1>0, <1>1 DEF Call
  <2>3. /\ pc'[t] = IF o = "data" THEN "send" ELSE "lock"
        /\ op'[t] = o /\ goal'[t] = g /\ owner' = owner
    BY <1>0, <1>1 DEF Call, mutex
  <2> QED
    BY <2>1, <2>2, <2>3
<1>2. ASSUME NEW t \in Threads, Burst1(t) PROVE LockInv'
  <2>1. \A u \in Threads \ {t} : /\ pc'[u] = pc[u] /\ op'[u] = op[u] /\ goal'[u] = goal[u]
                                 /\ ~Unlocked(u)
    BY <1>0, <1>2 DEF Burst1, Write
  <2>2. pc'[t] = "raw1" /\ op'[t] = "move" /\ goal'[t] = "none" /\ owner' = owner
    BY <1>0, <1>2 DEF Burst1, Write, mutex
  <2> QED
    BY <2>1, <2>2
<1>3. ASSUME NEW t \in Threads, UNCHANGED <<op, goal>>, NEW l, Goto(t, l)
      PROVE  /\ pc'[t] = l /\ op' = op /\ goal' = goal
             /\ \A u \in Threads \ {t} : pc'[u] = pc[u]
  BY <1>0, <1>3
<1>4. ASSUME NEW t \in Threads, Lock(t) PROVE LockInv'
  <2>1. /\ pc[t] = "lock" /\ pc'[t] = "send" /\ op' = op /\ goal' = goal /\ owner' = t
        /\ owner \in {"none", t} /\ \A u \in Threads \ {t} : pc'[u] = pc[u]
    BY <1>3, <1>4 DEF Lock, callvars
  <2>2. \A u \in Threads \ {t} : ~Locked(u)
    BY <2>1 DEF Threads
  <2> QED
    BY <2>1, <2>2
<1>5. ASSUME NEW t \in Threads, Unlock(t) PROVE LockInv'
  <2>1. /\ pc[t] = "unlock" /\ op' = op /\ goal' = goal /\ \A u \in Threads \ {t} : pc'[u] = pc[u]
        /\ pc'[t] = IF op[t] \in {"angle", "reset"} THEN "judge" ELSE "return"
    BY <1>3, <1>5 DEF Unlock, callvars
  <2>2. owner = t /\ \A u \in Threads \ {t} : ~Locked(u)
    BY <2>1
  <2> QED
    BY <2>1, <2>2
<1>6. ASSUME NEW t \in Threads,
             \/ LockTimeout(t) \/ SendStart(t) \/ SendEnd(t) \/ Rest(t) \/ Burst2(t)
             \/ WheelMoveTime(t)
      PROVE  LockInv'
  <2>1. UNCHANGED <<op, goal, owner>>
    BY <1>6
       DEF LockTimeout, SendStart, SendEnd, Rest, Burst2, WheelMoveTime, BurstEnd, Write, callvars,
           mutex
  <2>2. /\ \A u \in Threads \ {t} : pc'[u] = pc[u]
        /\ \/ pc[t] = "lock" /\ pc'[t] = "return"
           \/ pc[t] = "send" /\ pc'[t] = "sending"
           \/ pc[t] = "sending" /\ pc'[t] = IF op[t] \in Queries THEN "read" ELSE "unlock"
           \/ pc[t] = "raw1" /\ pc'[t] = "rest"
           \/ pc[t] = "rest" /\ pc'[t] = "raw2"
           \/ pc[t] = "raw2" /\ pc'[t] = "lock"
    BY <1>0, <1>6 DEF LockTimeout, SendStart, SendEnd, Rest, Burst2, WheelMoveTime, Write
  <2> QED
    BY <2>1, <2>2 DEF Queries
<1>7. ASSUME NEW t \in Threads, NEW code, Finish(t, code), UNCHANGED <<op, goal, owner>>,
             pc[t] \in Reading
      PROVE  LockInv'
  <2>1. /\ pc'[t] = IF op[t] \in {"mturn", "data"} THEN "judge" ELSE "unlock"
        /\ \A u \in Threads \ {t} : pc'[u] = pc[u]
    BY <1>0, <1>7 DEF Finish
  <2> QED
    BY <1>7, <2>1
<1>8. ASSUME NEW t \in Threads, UNCHANGED <<op, goal, owner>>, pc[t] \in Reading,
             pc' = pc \/ Goto(t, "read") \/ Goto(t, "wait") \/ Goto(t, "wild")
      PROVE  LockInv'
  <2>1. pc'[t] \in Reading \cup {"wild"} /\ \A u \in Threads \ {t} : pc'[u] = pc[u]
    BY <1>0, <1>8
  <2> QED
    BY <1>8, <2>1
<1>9. ASSUME NEW t \in Threads,
             \/ ReadEmpty(t) \/ Awake(t) \/ Silence(t) \/ ReadHeader(t) \/ ReadCmd(t)
             \/ ReadSize(t) \/ ReadContent(t) \/ ReadSum(t)
      PROVE  LockInv'
  <2>1. UNCHANGED <<op, goal, owner>> /\ pc[t] \in Reading
    BY <1>9 DEF ReadEmpty, Awake, Silence, ReadHeader, ReadCmd, ReadSize, ReadContent, ReadSum,
                Take, linevars, callvars, mutex
  <2>2. pc' = pc \/ Goto(t, "read") \/ Goto(t, "wait") \/ Goto(t, "wild")
          \/ \E code : Finish(t, code)
    BY <1>9 DEF ReadEmpty, Awake, Silence, ReadHeader, ReadCmd, ReadSize, ReadContent, ReadSum
  <2> QED
    BY <1>7, <1>8, <2>1, <2>2
<1>10. ASSUME NEW t \in Threads, Judge(t) PROVE LockInv'
  <2>1. UNCHANGED <<op, goal, owner>> /\ pc[t] = "judge"
    BY <1>10 DEF Judge, linevars, callvars, mutex
  <2>2. /\ pc'[t] = "return" \/ (pc'[t] = "unlock" /\ op[t] = "mturn")
        /\ \A u \in Threads \ {t} : pc'[u] = pc[u]
    BY <1>0, <1>10 DEF Judge
  <2> QED
    BY <2>1, <2>2
<1>11. ASSUME NEW t \in Threads, Return(t) PROVE LockInv'
  <2>1. owner' = owner /\ pc[t] = "return"
    BY <1>11 DEF Return, mutex
  <2>2. \A u \in Threads \ {t} : /\ pc'[u] = pc[u] /\ op'[u] = op[u] /\ goal'[u] = goal[u]
    BY <1>0, <1>11 DEF Return, Leave, Ask
  <2>3. \/ pc'[t] = "idle" /\ op'[t] = "move" /\ goal'[t] = "none"
        \/ /\ pc'[t] = "lock" /\ op'[t] = goal[t] /\ goal'[t] = goal[t] /\ goal[t] # "none"
           /\ op[t] # "data" /\ op'[t] # "data"
    BY <1>0, <1>11 DEF Return, Leave, Ask, Goals
  <2> QED
    BY <2>1, <2>2, <2>3
<1>12. CASE LineSteps \/ UNCHANGED vars
  BY <1>12 DEF LineSteps, Arrive, MakeNoise, Lose, threadvars, vars, callvars, mutex
<1> QED
  BY <1>1, <1>2, <1>4, <1>5, <1>6, <1>9, <1>10, <1>11, <1>12 DEF Next, Continue, LineSteps

\* The holder of the mutex is the only reader.
LEMMA OneReaderHolds == TypeOK /\ LockInv => OneReader
BY DEF LockInv, Locked, Unlocked, OneReader, Reading

\* Only the reader takes a token, and it does not sleep then.
LEMMA WakeStep ==
  TypeOK /\ LockInv /\ NoLostWakeup /\ [Next]_vars => NoLostWakeup'
<1> SUFFICES ASSUME TypeOK, LockInv, NoLostWakeup, [Next]_vars PROVE NoLostWakeup'
  OBVIOUS
<1>0. PcType /\ LineType
  BY TypeParts
<1>1. ASSUME NEW t \in Threads, ReadEmpty(t) PROVE NoLostWakeup'
  BY <1>1 DEF ReadEmpty, NoLostWakeup
<1>2. ASSUME NEW t \in Threads, Awake(t) PROVE NoLostWakeup'
  <2>1. \A u \in Threads : pc'[u] # "wait"
    BY <1>0, <1>2, OneReaderHolds DEF Awake, Goto, PcType, OneReader
  <2> QED
    BY <2>1 DEF NoLostWakeup
<1>3. CASE Arrive \/ MakeNoise
  <2>1. sem' > 0 /\ pc' = pc
    BY <1>0, <1>3, ServoAssumption DEF Arrive, MakeNoise, Received, threadvars, LineType
  <2> QED
    BY <2>1 DEF NoLostWakeup
<1>4. ASSUME \A u \in Threads : pc'[u] = "wait" => pc[u] = "wait", UNCHANGED sem,
             buf = << >> => buf' = << >>
      PROVE  NoLostWakeup'
  BY <1>4 DEF NoLostWakeup
<1>5. CASE Lose \/ UNCHANGED vars
  BY <1>4, <1>5 DEF Lose, threadvars, vars
<1>6. ASSUME NEW t \in Threads, UNCHANGED <<sem, buf>>, pc' = pc \/ \E l : Goto(t, l) /\ l # "wait"
      PROVE  NoLostWakeup'
  BY <1>0, <1>6 DEF NoLostWakeup, Goto, PcType
<1>7. ASSUME NEW t \in Threads,
             \/ \E o \in Ops, g \in Goals : Call(t, o, g)
             \/ Burst1(t) \/ Lock(t) \/ LockTimeout(t) \/ Unlock(t) \/ SendStart(t) \/ Rest(t)
             \/ Burst2(t) \/ WheelMoveTime(t) \/ Silence(t) \/ Judge(t) \/ Return(t)
      PROVE  NoLostWakeup'
  <2>1. UNCHANGED <<sem, buf>>
    BY <1>7 DEF Call, Burst1, Lock, LockTimeout, Unlock, SendStart, Rest, Burst2, WheelMoveTime,
                BurstEnd, Silence, Judge, Return, Write, linevars
  <2>2. ASSUME NEW l, Goto(t, l), l # "wait" PROVE NoLostWakeup'
    BY <1>6, <2>1, <2>2
  <2>3. CASE Burst1(t) \/ SendStart(t) \/ Burst2(t)
    BY <2>2, <2>3 DEF Burst1, SendStart, Burst2, Write
  <2>4. CASE Lock(t) \/ LockTimeout(t) \/ Rest(t) \/ WheelMoveTime(t)
    BY <2>2, <2>4 DEF Lock, LockTimeout, Rest, WheelMoveTime
  <2>5. CASE Unlock(t)
    BY <2>2, <2>5 DEF Unlock
  <2>6. CASE Silence(t)
    BY <2>2, <2>6 DEF Silence, Finish
  <2>7. CASE Judge(t)
    BY <2>2, <2>7 DEF Judge
  <2>8. CASE Return(t)
    BY <2>2, <2>8 DEF Return, Leave, Ask
  <2>9. CASE \E o \in Ops, g \in Goals : Call(t, o, g)
    BY <2>2, <2>9 DEF Call
  <2> QED
    BY <1>7, <2>3, <2>4, <2>5, <2>6, <2>7, <2>8, <2>9
<1>8. ASSUME NEW t \in Threads, SendEnd(t) PROVE NoLostWakeup'
  <2>1. buf = << >> => buf' = << >>
    BY <1>0, <1>8, AgedType DEF SendEnd, LineType
  <2>2. \A u \in Threads : pc'[u] = "wait" => pc[u] = "wait"
    BY <1>0, <1>8 DEF SendEnd, Goto, PcType
  <2> QED
    BY <1>4, <1>8, <2>1, <2>2 DEF SendEnd
<1>9. ASSUME NEW t \in Threads,
             \/ ReadHeader(t) \/ ReadCmd(t) \/ ReadSize(t) \/ ReadContent(t) \/ ReadSum(t)
      PROVE  NoLostWakeup'
  <2>1. buf # << >> /\ UNCHANGED sem
    BY <1>9 DEF ReadHeader, ReadCmd, ReadSize, ReadContent, ReadSum, Take, linevars
  <2>2. \A u \in Threads : pc'[u] = "wait" => pc[u] = "wait"
    BY <1>0, <1>9 DEF ReadHeader, ReadCmd, ReadSize, ReadContent, ReadSum, Finish, Goto, PcType
  <2> QED
    BY <1>4, <2>1, <2>2
<1> QED
  BY <1>1, <1>2, <1>3, <1>5, <1>7, <1>8, <1>9 DEF Next, Continue

-----------------------------------------------------------------------------
(* The clean line *)

\* Every test FSUS_RecvPackage makes of a byte of the expected answer succeeds.
LEMMA ReadsRight ==
  ASSUME NEW t \in Threads
  PROVE  /\ Reads(Byte(t, 1), 1) = {TRUE} /\ Reads(Byte(t, 2), 2) = {TRUE}
         /\ Reads(Byte(t, 3), 3) = {TRUE} /\ Reads(Byte(t, 5), 5) = {TRUE}
         /\ Sizes(Byte(t, 4)) = {2}
<1>1. \A i \in 0 .. 9 : Byte(t, i).at = i
  BY DEF Byte
<1>2. ASSUME NEW i \in {1, 2, 5}
      PROVE  Reads(Byte(t, i), i) = {Byte(t, i).at = i} /\ (Byte(t, i).at = i) = TRUE
  <2>1. Byte(t, i).at = i
    BY <1>1
  <2>2. Reads(Byte(t, i), i) = {Byte(t, i).at = i}
    BY <2>1 DEF Reads, OtherId, LongSize
  <2> QED
    BY <2>1, <2>2, Zenon
<1>3. Reads(Byte(t, 3), 3) = {Byte(t, 3).at # 2} /\ (Byte(t, 3).at # 2) = TRUE
  <2>1. Byte(t, 3).at = 3
    BY <1>1
  <2>2. Byte(t, 3).at # 2
    BY <2>1
  <2>3. Reads(Byte(t, 3), 3) = {Byte(t, 3).at # 2}
    BY <2>1 DEF Reads, OtherId, LongSize
  <2> QED
    BY <2>2, <2>3, Zenon
<1>4. Sizes(Byte(t, 4)) = {2}
  BY <1>1 DEF Sizes, LongSize
<1>5. ASSUME NEW i \in {1, 2, 5} PROVE Reads(Byte(t, i), i) = {TRUE}
  BY <1>2, <1>5, Zenon
<1>6. Reads(Byte(t, 3), 3) = {TRUE}
  BY <1>3, Zenon
<1> QED
  BY <1>4, <1>5, <1>6

\* A byte is read, and a byte arrives.
LEMMA RemainsTake ==
  ASSUME NEW t, NEW k \in 1 .. 8, NEW b \in Seq(Bytes), NEW w \in Seq(Bytes),
         Remains(t, k, b, w), b # << >>
  PROVE  k < 8 /\ Head(b) = Byte(t, k) /\ Remains(t, k + 1, Tail(b), w)
<1>1. /\ Len(b) \in Nat /\ Len(b) > 0 /\ Len(w) \in Nat /\ Len(Tail(b)) = Len(b) - 1
      /\ Head(b) = b[1] /\ \A i \in 1 .. Len(Tail(b)) : Tail(b)[i] = b[i + 1]
  OBVIOUS
<1>2. k < 8 /\ Head(b) = Byte(t, k)
  BY <1>1 DEF Remains
<1>3. \A i \in 1 .. Len(Tail(b)) : Tail(b)[i] = Byte(t, k + 1 - 1 + i)
  <2> TAKE i \in 1 .. Len(Tail(b))
  <2>1. i + 1 \in 1 .. Len(b) /\ k - 1 + (i + 1) = k + 1 - 1 + i
    BY <1>1
  <2> QED
    BY <1>1, <2>1 DEF Remains
<1>4. \A i \in 1 .. Len(w) : w[i] = Byte(t, k + 1 - 1 + Len(Tail(b)) + i)
  <2> TAKE i \in 1 .. Len(w)
  <2>1. k - 1 + Len(b) + i = k + 1 - 1 + Len(Tail(b)) + i
    BY <1>1
  <2> QED
    BY <2>1 DEF Remains
<1>5. Len(Tail(b)) + Len(w) = 8 - (k + 1)
  BY <1>1 DEF Remains
<1> QED
  BY <1>2, <1>3, <1>4, <1>5 DEF Remains

\* A byte that arrives leaves the rest of the answer under way.
LEMMA RemainsArrive ==
  ASSUME NEW t, NEW k \in 1 .. 8, NEW b \in Seq(Bytes), NEW w \in Seq(Bytes),
         Remains(t, k, b, w), w # << >>
  PROVE  Remains(t, k, Append(b, Head(w)), Tail(w))
<1> DEFINE c == Append(b, Head(w))
<1>1. /\ Len(b) \in Nat /\ Len(w) \in Nat /\ Len(w) > 0 /\ Len(Tail(w)) = Len(w) - 1
      /\ Head(w) = w[1] /\ Head(w) \in Bytes
      /\ \A i \in 1 .. Len(Tail(w)) : Tail(w)[i] = w[i + 1]
  OBVIOUS
<1>2. /\ Len(c) = Len(b) + 1 /\ c[Len(b) + 1] = Head(w)
      /\ \A i \in 1 .. Len(b) : c[i] = b[i]
  BY <1>1
<1> HIDE DEF c
<1>3. \A i \in 1 .. Len(c) : c[i] = Byte(t, k - 1 + i)
  <2> TAKE i \in 1 .. Len(c)
  <2>1. CASE i = Len(b) + 1
    <3>1. 1 \in 1 .. Len(w) /\ k - 1 + Len(b) + 1 = k - 1 + i
      BY <1>1, <2>1
    <3> QED
      BY <1>1, <1>2, <2>1, <3>1 DEF Remains
  <2>2. CASE i \in 1 .. Len(b)
    BY <1>2, <2>2 DEF Remains
  <2> QED
    BY <1>1, <1>2, <2>1, <2>2
<1>4. \A i \in 1 .. Len(Tail(w)) : Tail(w)[i] = Byte(t, k - 1 + Len(c) + i)
  <2> TAKE i \in 1 .. Len(Tail(w))
  <2>1. i + 1 \in 1 .. Len(w) /\ k - 1 + Len(b) + (i + 1) = k - 1 + Len(c) + i
    BY <1>1, <1>2
  <2> QED
    BY <1>1, <2>1 DEF Remains
<1>5. Len(c) + Len(Tail(w)) = 8 - k
  BY <1>1, <1>2 DEF Remains
<1> QED
  BY <1>3, <1>4, <1>5 DEF Remains, c

\* Steps that leave the line and the reader's package alone.
LEMMA ReadFrame ==
  ASSUME QuietInv, \A t \in Threads : ReadInv(t), UNCHANGED <<buf, wire>>,
         \A u \in Threads :
           /\ pc'[u] \in Reading <=> pc[u] \in Reading
           /\ pc[u] \in Reading =>
                phase'[u] = phase[u] /\ size'[u] = size[u] /\ content'[u] = content[u]
  PROVE  QuietInv' /\ \A t \in Threads : ReadInv(t)'
<1>1. QuietInv'
  BY DEF QuietInv, Quiet
<1>2. ASSUME NEW t \in Threads, pc'[t] \in Reading
      PROVE  Has(t)' /\ ((phase[t] = "head" /\ Quiet) \/ Remains(t, Place(t), buf, wire))'
  <2>1. /\ pc[t] \in Reading /\ phase'[t] = phase[t] /\ size'[t] = size[t]
        /\ content'[t] = content[t]
    BY <1>2
  <2>2. Has(t)'
    BY <2>1 DEF ReadInv, Has
  <2>3. Place(t)' = Place(t)
    BY <2>1 DEF Place
  <2> QED
    BY <2>1, <2>2, <2>3 DEF ReadInv, Quiet
<1> QED
  BY <1>1, <1>2 DEF ReadInv

\* The mutex, step by step: a call that is not at a place with the mutex does not
\* hold it, and one that is moves to another such place or gives it back.
LEMMA HoldFrame ==
  ASSUME HoldInv, UNCHANGED mutex, NEW t \in Threads,
         \A u \in Threads \ {t} : pc'[u] = pc[u] /\ op'[u] = op[u],
         owner \in Threads \cup {"none"}, Locked(t) => Locked(t)'
  PROVE  HoldInv'
<1>1. ASSUME NEW u \in Threads \ {t}, Locked(u) PROVE Locked(u)'
  BY <1>1 DEF Locked
<1> QED
  BY <1>1 DEF HoldInv, mutex

\* The hypotheses of every step on a clean line.
Clean ==
  /\ TypeOK /\ ~Overlap /\ ~Late /\ LockInv /\ NoLostWakeup /\ CleanInv
  /\ faults = 0 /\ faults' = 0 /\ stray = 0 /\ stray' = 0

\* A call begins on a quiet line.
LEMMA CleanCall ==
  ASSUME Clean, NEW t \in Threads,
         Burst1(t) \/ \E o \in Ops, g \in Goals : Call(t, o, g)
  PROVE  CleanInv'
<1>0. PcType /\ CallType /\ MutexType
  BY TypeParts DEF Clean
<1>1. /\ UNCHANGED <<buf, wire, pkg, status, mutex>>
      /\ pc[t] = "idle" /\ pc'[t] \in {"send", "lock", "raw1"}
      /\ pc'[t] = "send" => op'[t] = "data"
      /\ \A u \in Threads \ {t} : pc'[u] = pc[u] /\ op'[u] = op[u]
  BY <1>0 DEF Burst1, Call, Write, Goto, PcType, CallType
<1>2. QuietInv' /\ \A u \in Threads : ReadInv(u)'
  BY <1>1, ReadFrame DEF Clean, CleanInv, Reading, pkg
<1>3. \A u \in Threads : ResultInv(u)'
  BY <1>1 DEF Clean, CleanInv, ResultInv, pkg
<1>4. HoldInv'
  BY <1>0, <1>1, HoldFrame DEF Clean, CleanInv, Locked, MutexType
<1> QED
  BY <1>2, <1>3, <1>4 DEF CleanInv

\* The mutex does not touch the line.
LEMMA CleanMutex ==
  ASSUME Clean, NEW t \in Threads, Lock(t) \/ Unlock(t)
  PROVE  CleanInv'
<1>0. PcType /\ CallType /\ MutexType /\ LockInv /\ HoldInv
  BY TypeParts DEF Clean, CleanInv
<1>1. /\ UNCHANGED <<buf, wire, pkg, status, callvars>>
      /\ \/ pc[t] = "lock" /\ pc'[t] = "send"
         \/ pc[t] = "unlock" /\ pc'[t] \in {"judge", "return"}
      /\ \A u \in Threads \ {t} : pc'[u] = pc[u]
  BY <1>0 DEF Lock, Unlock, Goto, PcType
<1>2. QuietInv' /\ \A u \in Threads : ReadInv(u)'
  BY <1>1, ReadFrame DEF Clean, CleanInv, Reading, pkg
<1>3. \A u \in Threads : ResultInv(u)'
  BY <1>1 DEF Clean, CleanInv, ResultInv, pkg, callvars
<1>4. HoldInv'
  <2>1. CASE Lock(t)
    <3>1. op[t] # "data" /\ ~Locked(t)
      BY <1>0, <2>1 DEF Lock, LockInv, Unlocked, Locked
    <3>2. owner = "none" /\ hold = 0 /\ owner' = t /\ hold' = hold + 1
      BY <1>0, <2>1, <3>1 DEF Lock, HoldInv, MutexType
    <3>3. Locked(t)'
      BY <1>0, <2>1, <3>1 DEF Lock, Locked, Goto, PcType, callvars
    <3> QED
      BY <3>2, <3>3 DEF HoldInv
  <2>2. CASE Unlock(t)
    <3>1. owner = t
      BY <1>0, <2>2 DEF Unlock, LockInv, Unlocked, Locked
    <3>2. hold = 1
      BY <1>0, <3>1 DEF HoldInv, Threads
    <3> QED
      BY <2>2, <3>1, <3>2 DEF Unlock, HoldInv
  <2> QED
    BY <2>1, <2>2
<1> QED
  BY <1>2, <1>3, <1>4 DEF CleanInv

\* A command leads to its own answer and nothing else.
LEMMA CleanWrite ==
  ASSUME Clean, NEW t \in Threads,
         LockTimeout(t) \/ SendStart(t) \/ Rest(t) \/ Burst2(t) \/ WheelMoveTime(t)
  PROVE  CleanInv'
<1>0. PcType /\ StatusType /\ MutexType
  BY TypeParts DEF Clean
<1>1. /\ UNCHANGED <<buf, wire, pkg, mutex, callvars>>
      /\ \A u \in Threads \ {t} : pc'[u] = pc[u] /\ status'[u] = status[u]
  <2>1. CASE Rest(t) \/ WheelMoveTime(t)
    <3>1. BurstEnd /\ \A u \in Threads \ {t} : pc'[u] = pc[u]
      BY <1>0, <2>1 DEF Rest, WheelMoveTime, Goto, PcType
    <3>2. PICK a \in BurstAnswers : stray' = stray + Len(a) /\ wire' = wire \o a
      BY <3>1 DEF BurstEnd
    <3>3. a \in Seq(Bytes) /\ Len(a) = 0
      BY <3>2, BurstType DEF Clean
    <3>4. a = << >> /\ wire \in Seq(Bytes)
      BY <3>3, TypeParts DEF Clean, LineType
    <3> QED
      BY <3>1, <3>2, <3>4 DEF BurstEnd
  <2> QED
    BY <1>0, <2>1 DEF LockTimeout, SendStart, Burst2, Write, Goto, PcType, StatusType
<1>2. \/ pc[t] = "lock" /\ pc'[t] = "return" /\ status'[t] = "TIMEOUT"
      \/ pc[t] = "send" /\ pc'[t] = "sending"
      \/ pc[t] \in {"raw1", "rest", "raw2"} /\ pc'[t] \in {"rest", "raw2", "lock"}
  BY <1>0
     DEF LockTimeout, SendStart, Rest, Burst2, WheelMoveTime, Write, Goto, PcType, StatusType
<1>3. QuietInv' /\ \A u \in Threads : ReadInv(u)'
  BY <1>1, <1>2, ReadFrame DEF Clean, CleanInv, Reading, pkg
<1>4. \A u \in Threads : ResultInv(u)'
  BY <1>1, <1>2 DEF Clean, CleanInv, ResultInv, pkg, callvars
<1>5. HoldInv'
  BY <1>0, <1>1, <1>2, HoldFrame DEF Clean, CleanInv, Locked, MutexType, callvars
<1> QED
  BY <1>3, <1>4, <1>5 DEF CleanInv

\* Nobody reads while a package goes out, so the line is quiet and only its own
\* answer comes.
LEMMA CleanSend ==
  ASSUME Clean, NEW t \in Threads, SendEnd(t)
  PROVE  CleanInv'
<1>0. PcType /\ CallType /\ PkgType /\ StatusType /\ MutexType /\ LineType /\ LockInv
  BY TypeParts DEF Clean
<1>1. /\ UNCHANGED <<mutex, callvars>> /\ pc[t] = "sending"
      /\ pc'[t] = IF op[t] \in Queries THEN "read" ELSE "unlock"
      /\ phase'[t] = "head" /\ content'[t] = << >>
      /\ \A u \in Threads \ {t} : /\ pc'[u] = pc[u] /\ status'[u] = status[u]
                                  /\ content'[u] = content[u]
  BY <1>0 DEF SendEnd, Goto, PcType, PkgType, StatusType
<1>2. \A u \in Threads : pc[u] \notin Reading
  BY <1>0, <1>1 DEF LockInv, Locked, Unlocked, Reading
<1>3. buf = << >> /\ wire = << >>
  BY <1>2 DEF Clean, CleanInv, QuietInv, Quiet
<1>4. buf' = << >>
  BY <1>0, <1>3, AgedType DEF SendEnd, LineType
<1>5. wire' = << >> \/ (wire' = Answer(t) /\ op[t] \in Queries)
  <2>1. PICK a \in {<< >>, Answer(t), OtherAnswer(t)} :
          /\ a # << >> => op[t] \in Queries
          /\ wire' = Aged(t, wire) \o a
          /\ faults' = IF a = OtherAnswer(t) THEN faults + 1 ELSE faults
    BY DEF SendEnd
  <2>2. a # OtherAnswer(t)
    BY <2>1 DEF Clean
  <2>3. Aged(t, wire) = << >>
    BY <1>0, <1>3, AgedType DEF LineType
  <2>4. << >> \o a = a
    <3>1. << >> \in Seq(Bytes) /\ Answer(t) \in Seq(Bytes)
      BY AnswerType
    <3> QED
      BY <2>2, <3>1
  <2> QED
    BY <2>1, <2>2, <2>3, <2>4
<1>6. QuietInv'
  <2>1. op[t] \notin Queries => Quiet'
    BY <1>4, <1>5 DEF Quiet
  <2> QED
    BY <1>1, <2>1 DEF QuietInv, Reading
<1>7. \A u \in Threads : ReadInv(u)'
  <2>1. \A u \in Threads \ {t} : ReadInv(u)'
    BY <1>1, <1>2 DEF ReadInv
  <2>2. Has(t)'
    BY <1>1 DEF Has
  <2>3. Place(t)' = 1
    BY <1>1 DEF Place
  <2>4. Remains(t, 1, << >>, Answer(t))
    <3>1. Len(Answer(t)) = 7 /\ \A i \in 1 .. 7 : Answer(t)[i] = Byte(t, i)
      BY AnswerType
    <3>2. \A i \in 1 .. 7 : 1 - 1 + 0 + i = i
      OBVIOUS
    <3> QED
      BY <3>1, <3>2 DEF Remains
  <2>5. Quiet' \/ Remains(t, Place(t), buf, wire)'
    BY <1>4, <1>5, <2>3, <2>4 DEF Quiet
  <2> QED
    BY <1>1, <2>1, <2>2, <2>5 DEF ReadInv
<1>8. \A u \in Threads : ResultInv(u)'
  BY <1>1 DEF Clean, CleanInv, ResultInv, callvars
<1>9. HoldInv'
  BY <1>0, <1>1, HoldFrame DEF Clean, CleanInv, Locked, MutexType, callvars
<1> QED
  BY <1>6, <1>7, <1>8, <1>9 DEF CleanInv

\* The end of FSUS_RecvPackage: with the answer, or without success.
LEMMA CleanFinish ==
  ASSUME Clean, NEW t \in Threads, NEW code, Finish(t, code), pc[t] \in Reading,
         UNCHANGED linevars, UNCHANGED content,
         Quiet', code = "SUCCESS" => content[t] = <<Byte(t, 5), Byte(t, 6)>>
  PROVE  CleanInv'
<1>0. PcType /\ CallType /\ StatusType /\ MutexType /\ LockInv /\ OneReader
  BY TypeParts, OneReaderHolds DEF Clean
<1>1. /\ UNCHANGED <<mutex, callvars>>
      /\ pc'[t] = IF op[t] \in {"mturn", "data"} THEN "judge" ELSE "unlock"
      /\ status'[t] = code
      /\ \A u \in Threads \ {t} : pc'[u] = pc[u] /\ status'[u] = status[u]
  BY <1>0 DEF Finish, Goto, PcType, StatusType, linevars
<1>2. \A u \in Threads : pc'[u] \notin Reading
  BY <1>0, <1>1 DEF OneReader, Reading
<1>3. QuietInv' /\ \A u \in Threads : ReadInv(u)'
  BY <1>2 DEF QuietInv, ReadInv
<1>4. \A u \in Threads : ResultInv(u)'
  BY <1>1 DEF Clean, CleanInv, ResultInv, callvars
<1>5. HoldInv'
  <2>1. Locked(t) => Locked(t)'
    BY <1>1 DEF Locked, Reading, callvars
  <2> QED
    BY <1>0, <1>1, <2>1, HoldFrame DEF Clean, CleanInv, MutexType, callvars
<1> QED
  BY <1>3, <1>4, <1>5 DEF CleanInv

\* A reader waits only for bytes that are still under way.
LEMMA CleanWait ==
  ASSUME Clean, NEW t \in Threads, ReadEmpty(t) \/ Awake(t) \/ Silence(t)
  PROVE  CleanInv'
<1>0. PcType /\ MutexType /\ LineType
  BY TypeParts DEF Clean
<1>1. CASE ReadEmpty(t) \/ Awake(t)
  <2>1. /\ UNCHANGED <<buf, wire, pkg, status, mutex, callvars>>
        /\ pc[t] \in Reading /\ pc'[t] \in Reading
        /\ \A u \in Threads \ {t} : pc'[u] = pc[u]
    BY <1>0, <1>1 DEF ReadEmpty, Awake, Goto, PcType, Reading, linevars
  <2>2. QuietInv' /\ \A u \in Threads : ReadInv(u)'
    BY <2>1, ReadFrame DEF Clean, CleanInv, pkg
  <2>3. \A u \in Threads : ResultInv(u)'
    BY <2>1 DEF Clean, CleanInv, ResultInv, pkg, callvars, Reading
  <2>4. HoldInv'
    BY <1>0, <2>1, HoldFrame DEF Clean, CleanInv, Locked, MutexType, callvars, Reading
  <2> QED
    BY <2>2, <2>3, <2>4 DEF CleanInv
<1>2. CASE Silence(t)
  <2>1. buf = << >> /\ wire = << >>
    BY <1>0, <1>2 DEF Clean, Silence, NoLostWakeup, LineType
  <2>2. Quiet'
    BY <1>2, <2>1 DEF Silence, Quiet, linevars
  <2> QED
    BY <1>2, <2>2, CleanFinish DEF Silence, pkg, Reading
<1> QED
  BY <1>1, <1>2

\* A sequence of one element with another one behind it.
LEMMA AppendSecond ==
  ASSUME NEW s \in Seq(Bytes), NEW b \in Bytes, Len(s) = 1
  PROVE  Append(s, b) = <<s[1], b>>
<1>0. Append(s, b) \in Seq(Bytes)
  OBVIOUS
<1>1. /\ Len(Append(s, b)) = Len(s) + 1 /\ Append(s, b)[Len(s) + 1] = b
      /\ \A i \in 1 .. Len(s) : Append(s, b)[i] = s[i]
  OBVIOUS
<1>2. /\ <<s[1], b>> \in Seq(Bytes) /\ Len(<<s[1], b>>) = 2
      /\ <<s[1], b>>[1] = s[1] /\ <<s[1], b>>[2] = b
  <2>1. s[1] \in Bytes
    <3>1. 1 \in 1 .. Len(s)
      OBVIOUS
    <3> QED
      BY <3>1, ElementOfSeq
  <2> QED
    BY <2>1
<1>3. Len(Append(s, b)) = 2 /\ Append(s, b)[1] = s[1] /\ Append(s, b)[2] = b
  BY <1>1
<1>4. \A i \in 1 .. 2 : Append(s, b)[i] = <<s[1], b>>[i]
  <2> TAKE i \in 1 .. 2
  <2>1. i = 1 \/ i = 2
    OBVIOUS
  <2> QED
    BY <1>2, <1>3, <2>1
<1> QED
  BY <1>0, <1>2, <1>3, <1>4, SeqEqual

\* Short sequences of bytes, spelled out.
LEMMA Tuples ==
  ASSUME NEW a \in Bytes, NEW b \in Bytes
  PROVE  /\ Append(<< >>, a) = <<a>> /\ Append(<<a>>, b) = <<a, b>>
         /\ Len(<<a>>) = 1 /\ Len(<<a, b>>) = 2 /\ <<a, b>>[1] = a
<1>1. Append(<< >>, a) = <<a>> /\ Len(<<a>>) = 1
  OBVIOUS
<1>2. Append(<<a>>, b) = <<a, b>>
  <2>1. <<a>> \in Seq(Bytes) /\ Len(<<a>>) = 1 /\ <<a>>[1] = a
    OBVIOUS
  <2>2. Append(<<a>>, b) = << <<a>>[1], b>>
    BY <2>1, AppendSecond
  <2> QED
    BY <2>1, <2>2
<1>3. Len(<<a, b>>) = 2 /\ <<a, b>>[1] = a
  OBVIOUS
<1> QED
  BY <1>1, <1>2, <1>3

\* The next byte to read is one of the answer.
LEMMA PlaceRange ==
  ASSUME PkgType, NEW t \in Threads, Has(t)
  PROVE  Place(t) \in 1 .. 7
<1>1. phase[t] \in {"head", "head2", "cmd", "size", "content", "sum"}
  BY DEF PkgType
<1>2. phase[t] = "content" => Len(content[t]) \in {0, 1}
  <2>1. Len(<< >>) = 0 /\ Len(<<Byte(t, 5)>>) = 1
    OBVIOUS
  <2> QED
    BY <2>1 DEF Has
<1> DEFINE n == Len(content[t])
<1>3. CASE phase[t] = "content"
  <2>1. Place(t) = 5 + n
    BY <1>3 DEF Place
  <2>2. n \in {0, 1}
    BY <1>2, <1>3
  <2> HIDE DEF n
  <2> QED
    BY <2>1, <2>2
<1>4. CASE phase[t] # "content"
  <2>1. Place(t) \in {1, 2, 3, 4, 7}
    BY <1>1, <1>4 DEF Place
  <2> QED
    BY <2>1
<1> QED
  BY <1>3, <1>4

\* The byte a reader takes is the next one of its answer.
LEMMA NextByte ==
  ASSUME Clean, NEW t \in Threads, Take(t), UNCHANGED wire
  PROVE  /\ Has(t) /\ Place(t) \in 1 .. 7 /\ Head(buf) = Byte(t, Place(t))
         /\ Remains(t, Place(t) + 1, buf', wire')
<1>0. PkgType /\ LineType
  BY TypeParts DEF Clean
<1>1. Has(t) /\ Remains(t, Place(t), buf, wire)
  BY DEF Clean, CleanInv, ReadInv, Take, Quiet, Reading
<1>2. Place(t) \in 1 .. 7
  BY <1>0, <1>1, PlaceRange
<1> QED
  BY <1>0, <1>1, <1>2, RemainsTake DEF Take, LineType

\* A byte that does not end the package.
LEMMA CleanGoOn ==
  ASSUME Clean, NEW t \in Threads, Take(t), UNCHANGED linevars, UNCHANGED <<pc, status>>,
         \A u \in Threads \ {t} : content'[u] = content[u],
         Has(t)', Place(t)' = Place(t) + 1
  PROVE  CleanInv'
<1>0. MutexType /\ OneReader
  BY TypeParts, OneReaderHolds DEF Clean
<1>1. pc[t] \in Reading /\ UNCHANGED <<pc, op, status, wire, mutex>>
  BY DEF Take, Reading, linevars, callvars
<1>2. QuietInv'
  BY <1>1 DEF QuietInv
<1>3. \A u \in Threads : ReadInv(u)'
  <2>1. \A u \in Threads \ {t} : pc'[u] \notin Reading
    BY <1>0, <1>1 DEF OneReader, Reading
  <2>2. Remains(t, Place(t), buf, wire)'
    BY <1>1, NextByte
  <2> QED
    BY <2>1, <2>2 DEF ReadInv
<1>4. \A u \in Threads : ResultInv(u)'
  BY <1>1 DEF Clean, CleanInv, ResultInv, Reading
<1>5. HoldInv'
  BY <1>0, <1>1, HoldFrame DEF Clean, CleanInv, Locked, MutexType
<1> QED
  BY <1>2, <1>3, <1>4, <1>5 DEF CleanInv

\* Each byte read is the next one of the own answer.
LEMMA CleanRead ==
  ASSUME Clean, NEW t \in Threads,
         \/ ReadHeader(t) \/ ReadCmd(t) \/ ReadSize(t) \/ ReadContent(t) \/ ReadSum(t)
  PROVE  CleanInv'
<1>0. PkgType
  BY TypeParts DEF Clean
<1>1. Take(t) /\ UNCHANGED linevars /\ UNCHANGED wire
  BY DEF ReadHeader, ReadCmd, ReadSize, ReadContent, ReadSum, linevars
<1>2. /\ Has(t) /\ Place(t) \in 1 .. 7 /\ Head(buf) = Byte(t, Place(t))
      /\ Remains(t, Place(t) + 1, buf', wire')
  BY <1>1, NextByte
<1>3. CASE ReadHeader(t)
  <2>1. \/ phase[t] = "head" /\ phase'[t] = "head2"
        \/ phase[t] = "head2" /\ phase'[t] = "cmd"
    <3>1. CASE phase[t] = "head"
      <4>1. Reads(Head(buf), 1) = {TRUE}
        BY <1>2, <3>1, ReadsRight DEF Place
      <4> QED
        BY <1>0, <1>3, <3>1, <4>1 DEF ReadHeader, Expect, PkgType
    <3>2. CASE phase[t] = "head2"
      <4>1. Reads(Head(buf), 2) = {TRUE}
        BY <1>2, <3>2, ReadsRight DEF Place
      <4> QED
        BY <1>0, <1>3, <3>2, <4>1 DEF ReadHeader, Expect, PkgType
    <3> QED
      BY <1>3, <3>1, <3>2 DEF ReadHeader
  <2>2. Has(t)' /\ Place(t)' = Place(t) + 1
    BY <1>2, <1>3, <2>1 DEF ReadHeader, Has, Place
  <2> QED
    BY <1>1, <1>3, <2>2, CleanGoOn DEF ReadHeader
<1>4. CASE ReadCmd(t)
  <2>1. Reads(Head(buf), 3) = {TRUE}
    BY <1>2, <1>4, ReadsRight DEF ReadCmd, Place
  <2>2. Expect(t, "size") /\ UNCHANGED <<pc, status, content>> /\ phase[t] = "cmd"
    BY <1>4, <2>1 DEF ReadCmd
  <2>3. Has(t)' /\ Place(t)' = Place(t) + 1
    BY <1>0, <1>2, <2>2 DEF Expect, Has, Place, PkgType
  <2> QED
    BY <1>1, <2>2, <2>3, CleanGoOn
<1>5. CASE ReadSize(t)
  <2>1. Sizes(Head(buf)) = {2}
    BY <1>2, <1>5, ReadsRight DEF ReadSize, Place
  <2>2. /\ Expect(t, "content") /\ UNCHANGED <<pc, status, content>>
        /\ phase[t] = "size" /\ size' = [size EXCEPT ![t] = 2]
    <3>1. PICK n \in Sizes(Head(buf)) :
            /\ size' = [size EXCEPT ![t] = n]
            /\ IF n < TooBig THEN Expect(t, "content") /\ UNCHANGED <<pc, status>>
                             ELSE Finish(t, "SIZE_TOO_BIG") /\ UNCHANGED phase
      BY <1>5 DEF ReadSize
    <3>2. n = 2 /\ n < TooBig
      BY <2>1, <3>1 DEF TooBig
    <3> QED
      BY <1>5, <3>1, <3>2 DEF ReadSize
  <2>3. Has(t)' /\ Place(t)' = Place(t) + 1
    BY <1>0, <1>2, <2>2 DEF Expect, Has, Place, PkgType
  <2> QED
    BY <1>1, <2>2, <2>3, CleanGoOn
<1>6. CASE ReadContent(t)
  <2>0. Len(content[t]) # Slots
    <3>1. phase[t] = "content"
      BY <1>6 DEF ReadContent
    <3>2. Place(t) = 5 + Len(content[t]) /\ Len(content[t]) \in Nat
      BY <1>0, <3>1 DEF Place, PkgType
    <3> QED
      BY <1>2, <3>2, ServoAssumption DEF TooBig
  <2>1. /\ phase[t] = "content" /\ size[t] = 2 /\ UNCHANGED <<pc, status, size>>
        /\ content[t] = << >> \/ content[t] = <<Byte(t, 5)>>
        /\ content'[t] = Append(content[t], Head(buf))
        /\ \A u \in Threads \ {t} : content'[u] = content[u]
        /\ phase'[t] = IF Len(content'[t]) = 2 THEN "sum" ELSE phase[t]
    BY <1>0, <1>2, <1>6, <2>0 DEF ReadContent, Has, Expect, PkgType
  <2>2. Has(t)' /\ Place(t)' = Place(t) + 1
    <3>1. CASE content[t] = << >>
      <4>1. content'[t] = <<Byte(t, 5)>> /\ Len(content'[t]) = 1
        BY <1>2, <2>1, <3>1 DEF Place
      <4> QED
        BY <2>1, <3>1, <4>1 DEF Has, Place
    <3>2. CASE content[t] = <<Byte(t, 5)>>
      <4>1. Place(t) = 6
        BY <2>1, <3>2 DEF Place
      <4>2. content'[t] = <<Byte(t, 5), Byte(t, 6)>> /\ Len(content'[t]) = 2
        BY <1>2, <2>1, <3>2, <4>1, ByteType, Tuples
      <4>3. phase'[t] = "sum"
        BY <2>1, <4>2
      <4>4. Has(t)'
        BY <4>2, <4>3 DEF Has
      <4>5. Place(t)' = 7
        BY <4>3 DEF Place
      <4> QED
        BY <4>1, <4>4, <4>5
    <3> QED
      BY <2>1, <3>1, <3>2
  <2> QED
    BY <1>1, <2>1, <2>2, CleanGoOn
<1>7. CASE ReadSum(t)
  <2>1. phase[t] = "sum" /\ UNCHANGED content
    BY <1>7 DEF ReadSum, pkg
  <2>2. Quiet'
    <3>1. Remains(t, 8, buf', wire')
      BY <1>2, <2>1 DEF Place
    <3>2. buf' \in Seq(Bytes) /\ wire' \in Seq(Bytes)
      BY <1>1, TakeType, TypeParts DEF Clean, LineType
    <3>3. Len(buf') = 0 /\ Len(wire') = 0
      BY <3>1, <3>2 DEF Remains
    <3> QED
      BY <3>2, <3>3 DEF Quiet
  <2>3. content[t] = <<Byte(t, 5), Byte(t, 6)>>
    BY <1>2, <2>1 DEF Has
  <2> QED
    BY <1>1, <1>7, <2>1, <2>2, <2>3, CleanFinish DEF ReadSum, Take, Reading
<1> QED
  BY <1>3, <1>4, <1>5, <1>6, <1>7

\* FSUS_QueryServoAngleMTurn finds its own identifier in its own answer, so it gets
\* to rt_mutex_release.
LEMMA CleanJudge ==
  ASSUME Clean, NEW t \in Threads, Judge(t)
  PROVE  CleanInv'
<1>0. PcType /\ CallType /\ StatusType /\ MutexType
  BY TypeParts DEF Clean
<1>1. /\ UNCHANGED <<buf, wire, pkg, mutex, callvars>> /\ pc[t] = "judge"
      /\ pc'[t] \in {"unlock", "return"}
      /\ \A u \in Threads \ {t} : pc'[u] = pc[u] /\ status'[u] = status[u]
      /\ status'[t] = "SUCCESS" => status[t] = "SUCCESS"
  BY <1>0 DEF Judge, Goto, PcType, StatusType, linevars
<1>2. op[t] = "mturn" => pc'[t] = "unlock"
  <2>1. ASSUME op[t] = "mturn", status[t] = "SUCCESS" PROVE Reads(content[t][1], 5) = {TRUE}
    <3>1. content[t] = <<Byte(t, 5), Byte(t, 6)>>
      BY <1>1, <2>1 DEF Clean, CleanInv, ResultInv, Queries
    <3>2. Byte(t, 5) \in Bytes /\ Byte(t, 6) \in Bytes
      BY ByteType
    <3>3. content[t][1] = Byte(t, 5)
      BY <3>1, <3>2, Tuples
    <3> QED
      BY <3>3, ReadsRight
  <2> QED
    BY <1>0, <2>1 DEF Judge, Goto, PcType
<1>3. QuietInv' /\ \A u \in Threads : ReadInv(u)'
  BY <1>1, ReadFrame DEF Clean, CleanInv, Reading, pkg
<1>4. \A u \in Threads : ResultInv(u)'
  BY <1>1 DEF Clean, CleanInv, ResultInv, pkg, callvars
<1>5. HoldInv'
  <2>1. Locked(t) => Locked(t)'
    BY <1>1, <1>2 DEF Locked, callvars
  <2> QED
    BY <1>0, <1>1, <2>1, HoldFrame DEF Clean, CleanInv, MutexType, callvars
<1> QED
  BY <1>3, <1>4, <1>5 DEF CleanInv

\* A call returns when its answer has been read to the end.
LEMMA CleanReturn ==
  ASSUME Clean, NEW t \in Threads, Return(t)
  PROVE  CleanInv'
<1>0. PcType /\ CallType /\ PkgType /\ StatusType /\ MutexType
  BY TypeParts DEF Clean
<1>1. /\ UNCHANGED <<buf, wire, mutex>> /\ pc[t] = "return" /\ pc'[t] \in {"idle", "lock"}
  BY <1>0 DEF Return, Leave, Ask, Goto, PcType
<1>2. \A u \in Threads \ {t} :
        /\ pc'[u] = pc[u] /\ op'[u] = op[u] /\ status'[u] = status[u]
        /\ phase'[u] = phase[u] /\ size'[u] = size[u] /\ content'[u] = content[u]
  BY <1>0 DEF Return, Leave, Ask, Goto, PcType, CallType, PkgType, StatusType, pkg
<1>3. QuietInv' /\ \A u \in Threads : ReadInv(u)'
  BY <1>1, <1>2, ReadFrame DEF Clean, CleanInv, Reading
<1>4. \A u \in Threads : ResultInv(u)'
  BY <1>1, <1>2 DEF Clean, CleanInv, ResultInv
<1>5. HoldInv'
  BY <1>0, <1>1, <1>2, HoldFrame DEF Clean, CleanInv, Locked, MutexType
<1> QED
  BY <1>3, <1>4, <1>5 DEF CleanInv

\* A byte arrives: only a reader has bytes under way.
LEMMA CleanLine ==
  ASSUME Clean, LineSteps
  PROVE  CleanInv'
<1>0. LineType /\ PkgType
  BY TypeParts DEF Clean
<1>1. Arrive
  BY DEF Clean, LineSteps, MakeNoise, Lose
<1>2. /\ UNCHANGED <<pc, op, phase, size, content, status, owner, hold>> /\ wire # << >>
      /\ buf' = Append(buf, Head(wire)) /\ wire' = Tail(wire)
  BY <1>1 DEF Arrive, Received, Deliver, threadvars, callvars, pkg, mutex
<1>3. QuietInv'
  BY <1>2 DEF Clean, CleanInv, QuietInv, Quiet
<1>4. ASSUME NEW t \in Threads PROVE ReadInv(t)'
  <2>1. CASE pc[t] \in Reading
    <3>1. Has(t) /\ Remains(t, Place(t), buf, wire)
      BY <1>2, <2>1 DEF Clean, CleanInv, ReadInv, Quiet
    <3>2. Place(t) \in 1 .. 8 /\ Place(t)' = Place(t) /\ Has(t)'
      <4>1. Place(t) \in 1 .. 7
        BY <1>0, <3>1, PlaceRange
      <4>2. Place(t)' = Place(t)
        BY <1>2 DEF Place
      <4>3. Has(t)'
        BY <1>2, <3>1 DEF Has
      <4> QED
        BY <4>1, <4>2, <4>3
    <3>3. Remains(t, Place(t), buf', wire')
      BY <1>0, <1>2, <3>1, <3>2, RemainsArrive DEF LineType
    <3> QED
      BY <3>2, <3>3 DEF ReadInv
  <2> QED
    BY <1>2, <2>1 DEF ReadInv
<1>5. \A t \in Threads : ResultInv(t)'
  BY <1>2 DEF Clean, CleanInv, ResultInv
<1>6. HoldInv'
  BY <1>2 DEF Clean, CleanInv, HoldInv, Locked
<1> QED
  BY <1>3, <1>4, <1>5, <1>6 DEF CleanInv

\* Without faults every step keeps answers and requests matched.
LEMMA CleanStep == Clean /\ [Next]_vars => CleanInv'
<1> SUFFICES ASSUME Clean, [Next]_vars PROVE CleanInv'
  OBVIOUS
<1>1. CASE UNCHANGED vars
  <2>1. /\ UNCHANGED <<pc, op, phase, size, content, status, owner, hold, buf, wire>>
    BY <1>1 DEF vars, callvars, pkg, mutex
  <2>2. QuietInv' /\ \A u \in Threads : ReadInv(u)'
    BY <2>1, ReadFrame DEF Clean, CleanInv
  <2>3. (\A u \in Threads : ResultInv(u)') /\ HoldInv'
    BY <2>1 DEF Clean, CleanInv, ResultInv, HoldInv, Locked
  <2> QED
    BY <2>2, <2>3 DEF CleanInv
<1>2. ASSUME NEW t \in Threads, Continue(t) PROVE CleanInv'
  BY <1>2, CleanMutex, CleanWrite, CleanSend, CleanWait, CleanRead, CleanJudge, CleanReturn
     DEF Continue
<1> QED
  BY <1>1, <1>2, CleanCall, CleanLine DEF Next, LineSteps

-----------------------------------------------------------------------------
(* The theorems *)

\* The initial state satisfies the invariant.
LEMMA ServoInit == Init => ServoInv
<1> SUFFICES ASSUME Init PROVE ServoInv
  OBVIOUS
<1>1. TypeOK
  BY TypeInit
<1>2. LockInv /\ NoLostWakeup
  BY DEF Init, LockInv, NoLostWakeup, Locked, Unlocked, Reading
<1>3. CleanInv
  BY DEF Init, CleanInv, QuietInv, Quiet, ReadInv, ResultInv, HoldInv, Reading
<1> QED
  BY <1>1, <1>2, <1>3 DEF ServoInv

\* A fault is never forgotten, nor is an answer to a burst.
LEMMA FaultsStay ==
  ASSUME TypeOK, [Next]_vars
  PROVE  (faults' = 0 => faults = 0) /\ (stray' = 0 => stray = 0)
<1> DEFINE Stay == (faults' = 0 => faults = 0) /\ (stray' = 0 => stray = 0)
<1>0. faults \in Nat /\ stray \in Nat
  BY TypeParts, ServoAssumption DEF LineType
<1>1. CASE UNCHANGED vars \/ LineSteps
  BY <1>0, <1>1 DEF vars, LineSteps, Arrive, MakeNoise, Lose
<1>2. ASSUME NEW t \in Threads, SendEnd(t) PROVE Stay
  <2>1. (faults' = faults \/ faults' = faults + 1) /\ stray' = stray
    BY <1>2 DEF SendEnd
  <2> QED
    BY <1>0, <2>1
<1>3. ASSUME NEW t \in Threads, Rest(t) \/ WheelMoveTime(t) PROVE Stay
  <2>1. BurstEnd
    BY <1>3 DEF Rest, WheelMoveTime
  <2>2. PICK a \in BurstAnswers : stray' = stray + Len(a)
    BY <2>1 DEF BurstEnd
  <2>3. Len(a) \in Nat
    BY BurstType
  <2> QED
    BY <1>0, <2>1, <2>2, <2>3 DEF BurstEnd
<1>4. ASSUME NEW t \in Threads, Burst1(t) \/ \E o \in Ops, g \in Goals : Call(t, o, g)
      PROVE  Stay
  BY <1>4 DEF Burst1, Call, Write
<1>5. ASSUME NEW t \in Threads, Continue(t), ~SendEnd(t), ~Rest(t), ~WheelMoveTime(t)
      PROVE  Stay
  BY <1>5 DEF Continue, Lock, LockTimeout, Unlock, SendStart, Burst2, Write,
              ReadEmpty, Awake, Silence, ReadHeader, ReadCmd, ReadSize, ReadContent, ReadSum,
              Judge, Return, linevars
<1> QED
  BY <1>1, <1>2, <1>3, <1>4, <1>5 DEF Next, LineSteps

\* Every step keeps the invariant.
LEMMA ServoStep == ServoInv /\ [Next]_vars => ServoInv'
<1> SUFFICES ASSUME ServoInv, [Next]_vars PROVE ServoInv'
  OBVIOUS
<1>1. TypeOK /\ TypeOK'
  BY TypeStep DEF ServoInv
<1>2. ~Overlap => LockInv' /\ NoLostWakeup'
  BY <1>1, LockStep, WakeStep DEF ServoInv
<1>3. (~Overlap /\ ~Late /\ faults' = 0 /\ stray' = 0) => CleanInv'
  BY <1>1, CleanStep, FaultsStay DEF ServoInv, Clean
<1> QED
  BY <1>1, <1>2, <1>3 DEF ServoInv

\* The driver keeps the inductive invariant: types always; the mutex and the wake-ups
\* as long as the calls without the mutex are alone; the line as long as it is clean
\* and no burst was answered.
THEOREM ServoInvariant == Spec => []ServoInv
<1> QED
  BY ServoInit, ServoStep, PTL DEF Spec

\* FSUS_Wait asks at most FSUS_WAIT_COUNT_MAX times, rt_mutex_release is never called
\* more often than rt_mutex_take, and the parser's state is always one of
\* FSUS_RecvPackage, whatever the line does and whichever calls overlap.
THEOREM ServoTypeCorrect == Spec => []TypeOK
<1>1. ServoInv => TypeOK
  BY DEF ServoInv
<1> QED
  BY <1>1, ServoInvariant, PTL

\* Two threads never share an answer between them: whatever bytes are made up or
\* lost, one thread at a time is in FSUS_RecvPackage.
THEOREM OneThreadReads ==
  ASSUME ~Overlap
  PROVE  Spec => []OneReader
<1>1. ServoInv => OneReader
  BY OneReaderHolds DEF ServoInv
<1> QED
  BY <1>1, ServoInvariant, PTL

\* No byte is slept on: bytes and tokens of rx_sem part company at every empty read
\* and at every token too many, and still a thread asleep with bytes in the buffer
\* has a token.
THEOREM NoByteSleptOn ==
  ASSUME ~Overlap
  PROVE  Spec => []NoLostWakeup
<1>1. ServoInv => NoLostWakeup
  BY DEF ServoInv
<1> QED
  BY <1>1, ServoInvariant, PTL

\* A successful query returns its own answer, as long as no byte is made up or lost,
\* no other servo answers, the servo answers none of the requests in the bursts of
\* My_FSUS_up and My_FSUS_pick, and no answer comes after its time-out.  Each
\* condition is needed: an answer to a burst is taken for that of the next query.
THEOREM OwnAnswer ==
  ASSUME ~Overlap, ~Late
  PROVE  Spec => []Matched
<1>1. ServoInv => Matched
  BY DEF ServoInv, CleanInv, ResultInv, Matched
<1> QED
  BY <1>1, ServoInvariant, PTL

\* servo->mutex is given back by every call on a clean line, on every way out of it,
\* as long as the servo has answered no burst.
THEOREM ServoMutexGivenBack ==
  ASSUME ~Overlap, ~Late
  PROVE  Spec => [](stray = 0 => MutexGivenBack)
<1>1. ServoInv => (stray = 0 => MutexGivenBack)
  BY DEF ServoInv, CleanInv, HoldInv, Locked, MutexGivenBack
<1> QED
  BY <1>1, ServoInvariant, PTL

=============================================================================
