-------------------------------- MODULE Servo --------------------------------
(***************************************************************************)
(* The gripper's servo on uart3 (FasionStar/fashion_star_uart_servo.c).    *)
(* Two threads call the driver: FSUS_process and, through mypick and myup, *)
(* the robot manager.  A request takes servo->mutex, sends a package, and, *)
(* if the servo answers that kind, parses the answer byte by byte with     *)
(* time-outs; My_FSUS_up and My_FSUS_pick also write to the line without   *)
(* the mutex, whole requests among them, whose answers nobody reads.       *)
(* FSUS_CalcChecksum starts from an uninitialised variable, so a request   *)
(* may be ignored by the servo and an answer may be refused or accepted    *)
(* whatever its check byte is.                                             *)
(***************************************************************************)
EXTENDS Integers, Sequences

CONSTANTS
  Requests,   \* the calls each thread makes: a request and the query FSUS_Wait
              \* repeats after it, or "none"
  Late,       \* an answer may come after FSUS_RecvPackage has given up
  Overlap,    \* FSUS_ReadData and FSUS_WriteData, which take no mutex, are
              \* called while another call is in progress
  MaxFaults,  \* bound on bytes made up or lost and answers of another servo
  MaxStray,   \* bound on the bytes the servo answers to the bursts
  Mixed,      \* one behaviour may have both
  MaxPending, \* bound on the bytes under way when a call begins
  Slots,      \* bytes of pkg->content (FSUS_PACK_RESPONSE_MAX_SIZE)
  MaxSem,     \* RT_SEM_VALUE_MAX
  WaitMax     \* FSUS_WAIT_COUNT_MAX

Threads == {"fsus", "manager"}

\* Requests with an answer: FSUS_Ping and FSUS_QueryServoAngle ("angle"),
\* FSUS_QueryServoAngleMTurn, FSUS_ResetUserData, FSUS_ReadData and FSUS_WriteData
\* ("data"); and those without: FSUS_WheelMove, FSUS_SetServoAngle...,
\* FSUS_DampingMode.
Queries == {"angle", "mturn", "reset", "data"}
Ops == Queries \cup {"move"}
Goals == {"none", "angle", "mturn"}

\* The size from which on FSUS_RecvPackage refuses a package, 46 in the code.
TooBig == 4

ASSUME ServoAssumption ==
  /\ Requests \in [Threads -> SUBSET (Ops \X Goals)]
  /\ \A t \in Threads : \A r \in Requests[t] : r[2] # "none" => r[1] = "move"
  /\ Late \in BOOLEAN /\ Overlap \in BOOLEAN /\ Mixed \in BOOLEAN
  /\ MaxFaults \in Nat /\ MaxStray \in Nat /\ MaxPending \in Nat
  /\ Slots \in Nat /\ Slots >= TooBig
  /\ MaxSem \in Nat \ {0} /\ WaitMax \in Nat \ {0}

VARIABLES
  (* of each thread *)
  pc,       \* where it is in a call
  op,       \* the kind of request
  goal,     \* the query FSUS_Wait repeats, "none" if the call does not wait
  count,    \* turns of FSUS_Wait
  garbled,  \* its package was mixed on the line with another thread's bytes
  phase,    \* pkg->status and header: what FSUS_RecvPackage expects next
  size,     \* pkg->size
  content,  \* pkg->content
  status,   \* the status code
  (* shared *)
  owner,    \* the holder of servo->mutex
  hold,     \* how often it holds it
  sem,      \* value of servo->rx_sem
  buf,      \* the receive buffer of the UART
  (* the line and the servo, external *)
  wire,     \* bytes the servo has still to deliver
  stray,    \* bytes the servo has answered to the bursts so far
  faults    \* faults so far

callvars == <<op, goal, count>>
pkg      == <<phase, size, content>>
mutex    == <<owner, hold>>
vars == <<pc, callvars, garbled, pkg, status, mutex, sem, buf, wire, stray, faults>>

-----------------------------------------------------------------------------
\* One fault more is within the bounds.
MayFail == faults < MaxFaults /\ (Mixed \/ stray = 0)

Unlocked(t) == pc[t] # "idle" /\ op[t] = "data"

\* A byte is its place in an answer (two of header, command, size, identifier,
\* value, check byte) and the thread whose last request it answers, "old" for an
\* earlier request, "burst" for one in a burst.
Byte(t, i) == [by |-> t, at |-> i]
Noise == Byte("noise", 0)
Answer(t) == [i \in 1 .. 7 |-> Byte(t, i)]
OtherId == 8
OtherAnswer(t) == [i \in 1 .. 7 |-> Byte(t, IF i = 5 THEN OtherId ELSE i)]

\* The answer of FSUS_CMD_READ_BATCH_DATA is longer, and its size byte says so.
LongSize == 9
LongAnswer(t) == <<Byte(t, 1), Byte(t, 2), Byte(t, 3), Byte(t, LongSize),
                   Byte(t, 5), Byte(t, 6), Byte(t, 6), Byte(t, 7)>>

Bytes == [by : Threads \cup {"old", "burst", "noise"}, at : 0 .. 9]

\* The outcomes of testing b for what belongs in place i of an answer.  Noise, a
\* value and a check byte may be anything; a size may be 5, the first header byte,
\* and so may another servo's identifier; every byte but the second of the header
\* is in the range of the commands.
Reads(b, i) ==
  CASE b.at \in {0, 6, 7}           -> BOOLEAN
    [] i = 1 /\ b.at \in {4, LongSize, OtherId} -> BOOLEAN
    [] i = 3                        -> {b.at # 2}
    [] OTHER                        -> {b.at = i}

\* The size b is taken for: the answer's own; the bytes of the header are larger than
\* 2, the identifier is 0.
Sizes(b) == CASE b.at = 4 -> {2} [] b.at \in {1, 2, LongSize} -> {3} [] b.at = 5 -> {0}
              [] OTHER -> 0 .. TooBig

\* After a new request of t the bytes for its earlier one are out of date.
Aged(t, s) == [i \in DOMAIN s |-> IF s[i].by = t THEN Byte("old", s[i].at) ELSE s[i]]

-----------------------------------------------------------------------------
Init ==
  /\ pc = [t \in Threads |-> "idle"]
  /\ op = [t \in Threads |-> "move"] /\ goal = [t \in Threads |-> "none"]
  /\ count = [t \in Threads |-> 0] /\ garbled = [t \in Threads |-> FALSE]
  /\ phase = [t \in Threads |-> "head"] /\ size = [t \in Threads |-> 0]
  /\ content = [t \in Threads |-> << >>]
  /\ status = [t \in Threads |-> "SUCCESS"]
  /\ owner = "none" /\ hold = 0 /\ sem = 0 /\ buf = << >> /\ wire = << >>
  /\ stray = 0 /\ faults = 0

-----------------------------------------------------------------------------
(* Calls and the mutex *)

Goto(t, l) == pc' = [pc EXCEPT ![t] = l]

\* A thread calls the driver; some calls end in FSUS_Wait.
Call(t, o, g) ==
  /\ pc[t] = "idle" /\ <<o, g>> \in Requests[t]
  /\ Overlap \/ \A u \in Threads \ {t} :
                  /\ ~Unlocked(u)
                  /\ o = "data" => pc[u] = "idle"
  /\ Len(wire) + Len(buf) <= MaxPending
  /\ op' = [op EXCEPT ![t] = o] /\ goal' = [goal EXCEPT ![t] = g]
  /\ count' = [count EXCEPT ![t] = 0]
  /\ Goto(t, IF o = "data" THEN "send" ELSE "lock")
  /\ UNCHANGED <<garbled, pkg, status, mutex, sem, buf, wire, stray, faults>>

\* rt_mutex_take; the holder may take it again.
Lock(t) ==
  /\ pc[t] = "lock" /\ owner \in {"none", t}
  /\ owner' = t /\ hold' = hold + 1
  /\ Goto(t, "send")
  /\ UNCHANGED <<callvars, garbled, pkg, status, sem, buf, wire, stray, faults>>

\* Mutated form: the request is sent although the mutex could not be taken.
LockTimeout_GoesOn(t) ==
  /\ pc[t] = "lock" /\ owner \notin {"none", t}
  /\ Goto(t, "send")
  /\ UNCHANGED <<callvars, garbled, pkg, status, mutex, sem, buf, wire, stray, faults>>

LockTimeout(t) ==
  /\ pc[t] = "lock" /\ owner \notin {"none", t}
  /\ status' = [status EXCEPT ![t] = "TIMEOUT"]
  /\ Goto(t, "return")
  /\ UNCHANGED <<callvars, garbled, pkg, mutex, sem, buf, wire, stray, faults>>

\* rt_mutex_release refuses a thread that does not hold the mutex.
Unlock(t) ==
  /\ pc[t] = "unlock"
  /\ IF owner = t
       THEN hold' = hold - 1 /\ owner' = IF hold = 1 THEN "none" ELSE owner
       ELSE UNCHANGED mutex
  /\ Goto(t, IF op[t] \in {"angle", "reset"} THEN "judge" ELSE "return")
  /\ UNCHANGED <<callvars, garbled, pkg, status, sem, buf, wire, stray, faults>>

-----------------------------------------------------------------------------
(* Writing: rt_device_write can be interrupted by the other thread's       *)

Writing == {"sending", "raw1", "raw2"}

\* t begins to write: whoever is writing is mixed with it.
Write(t, l) ==
  /\ garbled' = [u \in Threads |->
       IF u = t THEN \E v \in Threads \ {t} : pc[v] \in Writing
                ELSE garbled[u] \/ pc[u] = "sending"]
  /\ Goto(t, l)
  /\ UNCHANGED <<pkg, status, mutex, sem, buf, wire, stray, faults>>

SendStart(t) ==
  /\ pc[t] = "send"
  /\ Write(t, "sending")
  /\ UNCHANGED callvars

\* The package is out; a servo that understood it answers, and so may another one.
SendEnd(t) ==
  /\ pc[t] = "sending"
  /\ \E a \in {<< >>, Answer(t), OtherAnswer(t)} :
       /\ a # << >> => op[t] \in Queries /\ ~garbled[t]
       /\ a = OtherAnswer(t) => MayFail
       /\ wire' = Aged(t, wire) \o a
       /\ faults' = IF a = OtherAnswer(t) THEN faults + 1 ELSE faults
  /\ buf' = Aged(t, buf)
  /\ garbled' = [garbled EXCEPT ![t] = FALSE]
  /\ phase' = [phase EXCEPT ![t] = "head"] /\ content' = [content EXCEPT ![t] = << >>]
  /\ status' = [status EXCEPT ![t] = "SUCCESS"]
  /\ Goto(t, IF op[t] \in Queries THEN "read" ELSE "unlock")
  /\ UNCHANGED <<callvars, size, mutex, sem, stray>>

\* My_FSUS_up and My_FSUS_pick: two bursts of bytes, then FSUS_WheelMoveTime.  A burst
\* ends a FSUS_CMD_READ_ANGLE which the burst before it has begun, and holds a
\* FSUS_CMD_WRITE_BATCH_DATA and a FSUS_CMD_READ_BATCH_DATA: the servo answers those
\* it understands.
BurstAnswers ==
  {a \o b \o c : a, b \in {<< >>, Answer("burst")}, c \in {<< >>, LongAnswer("burst")}}

BurstEnd ==
  /\ \E a \in BurstAnswers :
       /\ a # << >> => stray + Len(a) <= MaxStray /\ (Mixed \/ faults = 0)
       /\ stray' = stray + Len(a)
       /\ wire' = wire \o a
  /\ UNCHANGED <<callvars, garbled, pkg, status, mutex, sem, buf, faults>>

Burst1(t) ==
  /\ pc[t] = "idle"
  /\ Overlap \/ \A u \in Threads \ {t} : ~Unlocked(u)
  /\ Len(wire) + Len(buf) <= MaxPending
  /\ op' = [op EXCEPT ![t] = "move"] /\ goal' = [goal EXCEPT ![t] = "none"]
  /\ count' = [count EXCEPT ![t] = 0]
  /\ Write(t, "raw1")

Rest(t) ==
  /\ pc[t] = "raw1" /\ Goto(t, "rest")
  /\ BurstEnd

Burst2(t) ==
  /\ pc[t] = "rest" /\ Write(t, "raw2")
  /\ UNCHANGED callvars

WheelMoveTime(t) ==
  /\ pc[t] = "raw2" /\ Goto(t, "lock")
  /\ BurstEnd

-----------------------------------------------------------------------------
(* FSUS_RecvPackage                                                        *)

\* The end of FSUS_RecvPackage: FSUS_QueryServoAngleMTurn looks at the answer
\* before it releases the mutex, the others release it first.
Finish(t, code) ==
  /\ status' = [status EXCEPT ![t] = code]
  /\ Goto(t, IF op[t] \in {"mturn", "data"} THEN "judge" ELSE "unlock")

\* One turn of the loop with a byte b read from the device.
Take(t) == pc[t] = "read" /\ buf # << >> /\ buf' = Tail(buf)
Expect(t, p) == phase' = [phase EXCEPT ![t] = p]
linevars == <<callvars, garbled, mutex, sem, wire, stray, faults>>

ReadEmpty(t) ==
  /\ pc[t] = "read" /\ buf = << >>
  /\ Goto(t, "wait")
  /\ UNCHANGED <<linevars, pkg, status, buf>>

Awake(t) ==
  /\ pc[t] = "wait" /\ sem > 0
  /\ sem' = sem - 1 /\ Goto(t, "read")
  /\ UNCHANGED <<callvars, garbled, pkg, status, mutex, buf, wire, stray, faults>>

\* Mutated form: a time-out returns without releasing the mutex.
Silence_KeepsMutex(t) ==
  /\ pc[t] = "wait" /\ sem = 0 /\ (Late \/ wire = << >>)
  /\ status' = [status EXCEPT ![t] = "TIMEOUT"]
  /\ Goto(t, "return")
  /\ UNCHANGED <<linevars, pkg, buf>>

\* FSUS_TIMEOUT_MS without a byte.
Silence(t) ==
  /\ pc[t] = "wait" /\ sem = 0 /\ (Late \/ wire = << >>)
  /\ Finish(t, "TIMEOUT")
  /\ UNCHANGED <<linevars, pkg, buf>>

\* A wrong second byte is dropped with the first, even if it starts a header.
ReadHeader(t) ==
  /\ Take(t)
  /\ \/ /\ phase[t] = "head"
        /\ \E ok \in Reads(Head(buf), 1) : Expect(t, IF ok THEN "head2" ELSE "head")
     \/ /\ phase[t] = "head2"
        /\ \E ok \in Reads(Head(buf), 2) : Expect(t, IF ok THEN "cmd" ELSE "head")
  /\ UNCHANGED <<linevars, pc, size, content, status>>

\* The command must be one of FSUS_CMD_NUM, not that of the request.
ReadCmd(t) ==
  /\ Take(t) /\ phase[t] = "cmd"
  /\ \E ok \in Reads(Head(buf), 3) :
       IF ok THEN Expect(t, "size") /\ UNCHANGED <<pc, status>>
             ELSE Finish(t, "UNKNOWN_CMD_ID") /\ UNCHANGED phase
  /\ UNCHANGED <<linevars, size, content>>

ReadSize(t) ==
  /\ Take(t) /\ phase[t] = "size"
  /\ \E n \in Sizes(Head(buf)) :
       /\ size' = [size EXCEPT ![t] = n]
       /\ IF n < TooBig THEN Expect(t, "content") /\ UNCHANGED <<pc, status>>
                        ELSE Finish(t, "SIZE_TOO_BIG") /\ UNCHANGED phase
  /\ UNCHANGED <<linevars, content>>

\* Mutated form: the check byte is taken one byte early.
ReadContent_OneShort(t) ==
  /\ Take(t) /\ phase[t] = "content"
  /\ content' = [content EXCEPT ![t] = Append(@, Head(buf))]
  /\ IF Len(content'[t]) = size[t] - 1 THEN Expect(t, "sum") ELSE UNCHANGED phase
  /\ UNCHANGED <<linevars, pc, size, status>>

\* Mutated form: the index of the content is compared with the length of the whole
\* package, which has five bytes more.
ReadContent_Whole(t) ==
  /\ Take(t) /\ phase[t] = "content"
  /\ IF Len(content[t]) = Slots
       THEN Goto(t, "wild") /\ UNCHANGED <<phase, content>>
       ELSE /\ content' = [content EXCEPT ![t] = Append(@, Head(buf))]
            /\ IF Len(content'[t]) = size[t] + 5 THEN Expect(t, "sum") ELSE UNCHANGED phase
            /\ UNCHANGED pc
  /\ UNCHANGED <<linevars, size, status>>

\* A size of 0 is missed, the index being compared after it has grown, and the bytes
\* go on until the answers pause.  Behind pkg->content lie pkg->checksum and
\* pkg->status, then the caller's stack: what a thread does that has written there
\* is not the driver's any more.
ReadContent(t) ==
  /\ Take(t) /\ phase[t] = "content"
  /\ IF Len(content[t]) = Slots
       THEN Goto(t, "wild") /\ UNCHANGED <<phase, content>>
       ELSE /\ content' = [content EXCEPT ![t] = Append(@, Head(buf))]
            /\ IF Len(content'[t]) = size[t] THEN Expect(t, "sum") ELSE UNCHANGED phase
            /\ UNCHANGED pc
  /\ UNCHANGED <<linevars, size, status>>

\* The sum starts from an uninitialised variable: either outcome is possible.
ReadSum(t) ==
  /\ Take(t) /\ phase[t] = "sum"
  /\ \E code \in {"SUCCESS", "CHECKSUM_ERROR"} : Finish(t, code)
  /\ UNCHANGED <<linevars, pkg>>

-----------------------------------------------------------------------------
(* The answer, and FSUS_Wait                                               *)

\* What the caller makes of a package: the identifier must be the servo's; a
\* result byte says whether the servo did it.
Judge(t) ==
  /\ pc[t] = "judge"
  /\ \E good \in IF status[t] # "SUCCESS" THEN {TRUE}
                 ELSE IF op[t] \in {"reset", "data"} THEN BOOLEAN
                 ELSE Reads(content[t][1], 5) :
       /\ status' = [status EXCEPT ![t] = IF good THEN @
            ELSE IF op[t] \in {"reset", "data"} THEN "FAIL" ELSE "ID_NOT_MATCH"]
       /\ Goto(t, IF op[t] = "mturn" /\ good THEN "unlock" ELSE "return")
  /\ UNCHANGED <<linevars, pkg, buf>>

\* The call is over and its local variables are gone.
Leave(t) ==
  /\ Goto(t, "idle")
  /\ op' = [op EXCEPT ![t] = "move"] /\ goal' = [goal EXCEPT ![t] = "none"]
  /\ count' = [count EXCEPT ![t] = 0]
  /\ phase' = [phase EXCEPT ![t] = "head"] /\ size' = [size EXCEPT ![t] = 0]
  /\ content' = [content EXCEPT ![t] = << >>] /\ status' = [status EXCEPT ![t] = "SUCCESS"]

\* FSUS_Wait asks for the angle, for the first or for another time.
Ask(t, n) ==
  /\ op' = [op EXCEPT ![t] = goal[t]] /\ count' = [count EXCEPT ![t] = n]
  /\ Goto(t, "lock")
  /\ UNCHANGED <<goal, pkg, status>>

Sent(t) == op[t] = "move" /\ status[t] # "TIMEOUT"

\* Mutated form: FSUS_Wait does not count its turns.
Return_NoCount(t) ==
  /\ pc[t] = "return"
  /\ \/ (goal[t] = "none" \/ ~Sent(t)) /\ Leave(t)
     \/ goal[t] # "none" /\ Sent(t) /\ Ask(t, 0)
     \/ goal[t] # "none" /\ op[t] # "move" /\ Ask(t, count[t])
  /\ UNCHANGED <<garbled, mutex, sem, buf, wire, stray, faults>>

\* Mutated form: FSUS_Wait asks once more than FSUS_WAIT_COUNT_MAX.
Return_OneMore(t) ==
  /\ pc[t] = "return"
  /\ \/ (goal[t] = "none" \/ ~Sent(t)) /\ Leave(t)
     \/ goal[t] # "none" /\ Sent(t) /\ Ask(t, 0)
     \/ goal[t] # "none" /\ op[t] # "move" /\ count[t] < WaitMax /\ Ask(t, count[t] + 1)
  /\ UNCHANGED <<garbled, mutex, sem, buf, wire, stray, faults>>

\* The call returns; a move that was sent and is waited for goes on to FSUS_Wait,
\* which asks for the angle (whatever the status, so that a failed query compares
\* an old or uninitialised value) until it is near or WaitMax turns have passed.
Return(t) ==
  /\ pc[t] = "return"
  /\ \/ (goal[t] = "none" \/ ~Sent(t)) /\ Leave(t)
     \/ goal[t] # "none" /\ Sent(t) /\ Ask(t, 0)
     \/ goal[t] # "none" /\ op[t] # "move" /\ count[t] + 1 < WaitMax /\ Ask(t, count[t] + 1)
  /\ UNCHANGED <<garbled, mutex, sem, buf, wire, stray, faults>>

-----------------------------------------------------------------------------
(* The interrupt and the line                                              *)

Deliver(b) == buf' = Append(buf, b)
threadvars == <<pc, callvars, garbled, pkg, status, mutex>>

\* Mutated form: the callback does not release the semaphore for a first byte.
Received_NotFirst(b) ==
  /\ Deliver(b)
  /\ sem' = IF sem < MaxSem /\ buf # << >> THEN sem + 1 ELSE sem

\* FSUS_uart_receive_callback1 for one byte.
Received(b) ==
  /\ Deliver(b)
  /\ sem' = IF sem < MaxSem THEN sem + 1 ELSE sem

Arrive ==
  /\ wire # << >> /\ wire' = Tail(wire)
  /\ Received(Head(wire))
  /\ UNCHANGED <<threadvars, stray, faults>>

\* A byte no servo has sent.
MakeNoise ==
  /\ MayFail /\ faults' = faults + 1
  /\ Received(Noise)
  /\ UNCHANGED <<threadvars, wire, stray>>

Lose ==
  /\ MayFail /\ faults' = faults + 1
  /\ wire # << >> /\ wire' = Tail(wire)
  /\ UNCHANGED <<threadvars, sem, buf, stray>>

-----------------------------------------------------------------------------
\* A thread goes on with the call it is in.
Continue(t) ==
  \/ Lock(t) \/ LockTimeout(t) \/ Unlock(t)
  \/ SendStart(t) \/ SendEnd(t) \/ Rest(t) \/ Burst2(t) \/ WheelMoveTime(t)
  \/ ReadEmpty(t) \/ Awake(t) \/ Silence(t) \/ ReadHeader(t) \/ ReadCmd(t)
  \/ ReadSize(t) \/ ReadContent(t) \/ ReadSum(t) \/ Judge(t) \/ Return(t)

Next ==
  \/ \E t \in Threads :
       \/ \E o \in Ops, g \in Goals : Call(t, o, g)
       \/ Burst1(t)
       \/ Continue(t)
  \/ Arrive \/ MakeNoise \/ Lose

Spec == Init /\ [][Next]_vars

\* The scheduler runs both threads (FSUS_process sleeps between its turns, the
\* manager between its own), time passes, and the line delivers.
FairSpec ==
  /\ Spec
  /\ \A t \in Threads : WF_vars(Continue(t))
  /\ WF_vars(Arrive)

-----------------------------------------------------------------------------
\* FSUS_Wait asks at most WaitMax times, and the mutex is counted.
TypeOK ==
  /\ pc \in [Threads -> {"idle", "lock", "send", "sending", "raw1", "rest", "raw2",
                         "read", "wait", "judge", "unlock", "return", "wild"}]
  /\ op \in [Threads -> Ops] /\ goal \in [Threads -> Goals]
  /\ count \in [Threads -> 0 .. WaitMax - 1] /\ garbled \in [Threads -> BOOLEAN]
  /\ phase \in [Threads -> {"head", "head2", "cmd", "size", "content", "sum"}]
  /\ size \in [Threads -> 0 .. TooBig] /\ content \in [Threads -> Seq(Bytes)]
  /\ status \in [Threads -> {"SUCCESS", "FAIL", "TIMEOUT", "UNKNOWN_CMD_ID",
       "SIZE_TOO_BIG", "CHECKSUM_ERROR", "ID_NOT_MATCH"}]
  /\ owner \in Threads \cup {"none"} /\ hold \in Nat /\ (owner = "none" <=> hold = 0)
  /\ sem \in 0 .. MaxSem /\ buf \in Seq(Bytes) /\ wire \in Seq(Bytes)
  /\ stray \in 0 .. MaxStray /\ faults \in 0 .. MaxFaults

\* As long as no byte was made up or lost, no other servo has answered and the servo
\* has answered no burst: a successful query returns the identifier and the value of
\* the answer to its own request, never of an earlier one or of the other thread's.
\* FSUS_RecvPackage has nothing to tell answers apart but their order, so this rests
\* on every answer being read to its end under the mutex; one answer to a burst of
\* My_FSUS_up or My_FSUS_pick, which nobody reads, is enough to break it.
Matched ==
  (faults = 0 /\ stray = 0) =>
    \A t \in Threads :
      (pc[t] = "return" /\ op[t] \in Queries /\ status[t] = "SUCCESS")
        => content[t] = <<Byte(t, 5), Byte(t, 6)>>

\* As long as there was no fault, no byte is written past pkg->content, although the
\* bytes are counted against the size only after each of them: whosever answers are
\* read, long ones and unread ones of the bursts included, FSUS_RecvPackage stays in
\* step with them.  (A size of 0, which takes a fault, is overrun.)
ContentFits == faults = 0 => \A t \in Threads : pc[t] # "wild"

\* A thread asleep on rx_sem with bytes in the buffer has a token to wake it,
\* although bytes are taken without their tokens and tokens without bytes: a byte
\* between the empty read and rt_sem_take is never slept on.
NoLostWakeup ==
  \A t \in Threads : (pc[t] = "wait" /\ buf # << >>) => sem > 0

\* At most one thread parses answers: two would share one answer between them.
OneReader ==
  \A t, u \in Threads : pc[t] \in {"read", "wait"} /\ pc[u] \in {"read", "wait"} => t = u

\* As long as there was no fault, a thread outside the locked part of a call does not
\* hold servo->mutex, whichever way the call ended, and whosever answer it has read.
\* (An answer of another servo, a fault here, breaks this: FSUS_QueryServoAngleMTurn
\* then returns before rt_mutex_release.)
MutexGivenBack ==
  (faults = 0 /\ owner # "none") =>
     hold = 1 /\ pc[owner] \in {"send", "sending", "read", "wait", "judge", "unlock"}

\* Every call returns, whatever the line does: with the mutex lost, with a servo
\* that is silent or never reaches the angle FSUS_Wait waits for; only for a thread
\* that has written past its package nothing is claimed.
CallsReturn == \A t \in Threads : pc[t] # "idle" ~> pc[t] \in {"idle", "wild"}

=============================================================================
