----------------------------- MODULE AbusProofs -----------------------------
(***************************************************************************)
(* For a ring of any capacity and indices of any width: if publications do *)
(* not overlap, the bus delivers every command at once and unchanged, the  *)
(* ring is empty between two publications, and abus_public never hangs.    *)
(* That publications do not overlap is the theorem PublishersNeverOverlap  *)
(* of RobotManagerProofs.                                                  *)
(***************************************************************************)
EXTENDS Abus, TLAPS

\* Where the ring has not yet, and where it has, the message in it.
Before == {"room", "copy", "load", "store"}
After  == {"peek", "read", "apply", "drop", "drop_load", "drop_store"}

\* What a publisher knows at each of its steps when it is alone.
Knows(p) ==
  /\ pc[p] \in Before => in = out
  /\ pc[p] \in After => in = (out + 1) % Word
  /\ pc[p] \in Before \cup {"peek", "read", "apply"} => msg[p] \in Messages
  /\ pc[p] \in {"room", "copy"} => ctrl = msg[p]
  /\ pc[p] \in {"copy", "load", "store", "drop_load", "drop_store"} => len[p] = 1
  /\ pc[p] \in {"load", "store", "peek", "read"} => slot[out % Cap] = msg[p]
  /\ pc[p] = "store" => reg[p] = in
  /\ pc[p] = "apply" => heard[p] = msg[p]
  /\ pc[p] = "drop_store" => reg[p] = out
  /\ pc[p] # "hang"

Alone == \A p, q \in Publishers : pc[p] # "idle" /\ pc[q] # "idle" => p = q

SerialInv == TypeOK /\ Alone /\ Drained /\ \A p \in Publishers : Knows(p)

-----------------------------------------------------------------------------
(* Arithmetic of the indices *)

\* Remainders are indices and slots.
LEMMA Wrapped ==
  ASSUME NEW n \in Int
  PROVE  n % Word \in 0 .. Word - 1 /\ n % Cap \in 0 .. Cap - 1
BY CapAssumption, WordAssumption

\* A ring whose indices agree is empty and has room.
LEMMA EmptyRing ==
  ASSUME NEW i \in 0 .. Word - 1
  PROVE  (Cap - i + i) % Word > 0
<1>1. Cap - i + i = Cap
  BY CapAssumption, WordAssumption
<1>2. Cap % Word = Cap
  BY CapAssumption, WordAssumption
<1> QED
  BY <1>1, <1>2, CapAssumption

\* A ring whose index in is one ahead holds one message, also where it wraps.
LEMMA OneInRing ==
  ASSUME NEW o \in 0 .. Word - 1
  PROVE  (((o + 1) % Word) - o) % Word > 0
<1>0. Word \in Nat /\ Word > 1
  BY CapAssumption, WordAssumption
<1>1. CASE o + 1 < Word
  <2>1. (o + 1) % Word = o + 1
    BY <1>0, <1>1
  <2>2. 1 % Word = 1
    BY <1>0
  <2> QED
    BY <1>0, <2>1, <2>2
<1>2. CASE o + 1 = Word
  <2>1. (o + 1) % Word = 0
    BY <1>0, <1>2
  <2>2. 0 - o = 1 + (-1) * Word
    BY <1>0, <1>2
  <2>3. (1 + (-1) * Word) % Word = 1
    BY <1>0
  <2> QED
    BY <1>0, <2>1, <2>2, <2>3
<1> QED
  BY <1>0, <1>1, <1>2

-----------------------------------------------------------------------------
(* Type correctness, whether or not publications overlap *)

\* Every step of a publication keeps the types.
LEMMA TypeStep == TypeOK /\ [Next]_vars => TypeOK'
<1> SUFFICES ASSUME TypeOK, [Next]_vars PROVE TypeOK'
  OBVIOUS
<1>0. /\ in % Cap \in 0 .. Cap - 1 /\ out % Cap \in 0 .. Cap - 1
      /\ \A p \in Publishers : (reg[p] + len[p]) % Word \in 0 .. Word - 1
  <2>1. in \in Int /\ out \in Int
    BY WordAssumption DEF TypeOK
  <2>2. \A p \in Publishers : reg[p] + len[p] \in Int
    BY WordAssumption DEF TypeOK
  <2> QED
    BY <2>1, <2>2, Wrapped
<1>1. ASSUME NEW p \in Publishers, NEW m \in Messages, Fill(p, m) PROVE TypeOK'
  BY <1>1 DEF TypeOK, Fill, Goto, Labels
<1>2. ASSUME NEW p \in Publishers, Room(p) PROVE TypeOK'
  BY <1>0, <1>2 DEF TypeOK, Room, Goto, Labels
<1>3. ASSUME NEW p \in Publishers, Copy(p) PROVE TypeOK'
  BY <1>0, <1>3 DEF TypeOK, Copy, Goto, Labels
<1>4. ASSUME NEW p \in Publishers, Load(p) PROVE TypeOK'
  BY <1>0, <1>4 DEF TypeOK, Load, Goto, Labels
<1>5. ASSUME NEW p \in Publishers, Store(p) PROVE TypeOK'
  BY <1>0, <1>5 DEF TypeOK, Store, Goto, Labels
<1>6. ASSUME NEW p \in Publishers, Peek(p) PROVE TypeOK'
  BY <1>0, <1>6 DEF TypeOK, Peek, Goto, Labels
<1>7. ASSUME NEW p \in Publishers, Read(p) PROVE TypeOK'
  BY <1>0, <1>7 DEF TypeOK, Read, Goto, Labels
<1>8. ASSUME NEW p \in Publishers, Apply(p) PROVE TypeOK'
  BY <1>0, <1>8 DEF TypeOK, Apply, Goto, Labels
<1>9. ASSUME NEW p \in Publishers, Drop(p) PROVE TypeOK'
  BY <1>0, <1>9 DEF TypeOK, Drop, Goto, Labels
<1>10. ASSUME NEW p \in Publishers, DropLoad(p) PROVE TypeOK'
  BY <1>0, <1>10 DEF TypeOK, DropLoad, Goto, Labels
<1>11. ASSUME NEW p \in Publishers, DropStore(p) PROVE TypeOK'
  BY <1>0, <1>11 DEF TypeOK, DropStore, Goto, Labels
<1>12. CASE UNCHANGED vars
  BY <1>12 DEF TypeOK, vars
<1> QED
  BY <1>1, <1>2, <1>3, <1>4, <1>5, <1>6, <1>7, <1>8, <1>9, <1>10, <1>11, <1>12
  DEF Next, Step

\* The initial state of the bus is well formed.
LEMMA TypeInit == Init => TypeOK
BY CapAssumption, WordAssumption DEF Init, TypeOK, Labels

\* The state of the bus is well formed, and its indices never leave their word.
THEOREM BusTypeCorrect == Spec => []TypeOK
BY TypeInit, TypeStep, PTL DEF Spec

-----------------------------------------------------------------------------
(* Publications that do not overlap *)

\* Nobody publishes at first, and the ring is empty.
LEMMA SerialInit == Init => SerialInv
BY TypeInit DEF Init, SerialInv, Alone, Drained, Knows, Before, After

\* One publisher at a time: every step keeps SerialInv.
LEMMA SerialStep ==
  ASSUME ~Preempts
  PROVE  SerialInv /\ [Next]_vars => SerialInv'
<1> SUFFICES ASSUME SerialInv, [Next]_vars PROVE SerialInv'
  OBVIOUS
<1> USE DEF Publishers
<1>0. TypeOK /\ TypeOK' /\ Alone /\ Drained /\ \A p \in Publishers : Knows(p)
  BY TypeStep DEF SerialInv
<1>1. ASSUME NEW p \in Publishers, NEW m \in Messages, Fill(p, m)
      PROVE  Alone' /\ Drained' /\ \A q \in Publishers : Knows(q)'
  BY <1>0, <1>1 DEF Fill, Goto, Alone, Drained, Knows, Before, After, TypeOK
<1>2. ASSUME NEW p \in Publishers, Room(p)
      PROVE  Alone' /\ Drained' /\ \A q \in Publishers : Knows(q)'
  BY <1>0, <1>2, EmptyRing DEF Room, At, Goto, Alone, Drained, Knows, Before, After, TypeOK, Free
<1>3. ASSUME NEW p \in Publishers, Copy(p)
      PROVE  Alone' /\ Drained' /\ \A q \in Publishers : Knows(q)'
  <2>1. in = out /\ len[p] = 1 /\ ctrl = msg[p] /\ msg[p] \in Messages
    BY <1>0, <1>3 DEF Copy, At, Knows, Before
  <2>2. out % Cap \in 0 .. Cap - 1
    <3>1. out \in Int
      BY <1>0, WordAssumption DEF TypeOK
    <3> QED
      BY <3>1, Wrapped
  <2>3. slot'[out % Cap] = msg[p]
    BY <1>0, <1>3, <2>1, <2>2 DEF Copy, TypeOK
  <2> QED
    BY <1>0, <1>3, <2>1, <2>3 DEF Copy, At, Goto, Alone, Drained, Knows, Before, After, TypeOK
<1>4. ASSUME NEW p \in Publishers, Load(p)
      PROVE  Alone' /\ Drained' /\ \A q \in Publishers : Knows(q)'
  BY <1>0, <1>4 DEF Load, At, Goto, Alone, Drained, Knows, Before, After, TypeOK
<1>5. ASSUME NEW p \in Publishers, Store(p)
      PROVE  Alone' /\ Drained' /\ \A q \in Publishers : Knows(q)'
  BY <1>0, <1>5 DEF Store, At, Goto, Alone, Drained, Knows, Before, After, TypeOK
<1>6. ASSUME NEW p \in Publishers, Peek(p)
      PROVE  Alone' /\ Drained' /\ \A q \in Publishers : Knows(q)'
  BY <1>0, <1>6, OneInRing DEF Peek, At, Goto, Alone, Drained, Knows, Before, After, TypeOK, Used
<1>7. ASSUME NEW p \in Publishers, Read(p)
      PROVE  Alone' /\ Drained' /\ \A q \in Publishers : Knows(q)'
  BY <1>0, <1>7 DEF Read, At, Goto, Alone, Drained, Knows, Before, After, TypeOK
<1>8. ASSUME NEW p \in Publishers, Apply(p)
      PROVE  Alone' /\ Drained' /\ \A q \in Publishers : Knows(q)'
  BY <1>0, <1>8 DEF Apply, At, Goto, Alone, Drained, Knows, Before, After, TypeOK
<1>9. ASSUME NEW p \in Publishers, Drop(p)
      PROVE  Alone' /\ Drained' /\ \A q \in Publishers : Knows(q)'
  BY <1>0, <1>9, OneInRing DEF Drop, At, Goto, Alone, Drained, Knows, Before, After, TypeOK, Used
<1>10. ASSUME NEW p \in Publishers, DropLoad(p)
      PROVE  Alone' /\ Drained' /\ \A q \in Publishers : Knows(q)'
  BY <1>0, <1>10 DEF DropLoad, At, Goto, Alone, Drained, Knows, Before, After, TypeOK
<1>11. ASSUME NEW p \in Publishers, DropStore(p)
      PROVE  Alone' /\ Drained' /\ \A q \in Publishers : Knows(q)'
  BY <1>0, <1>11 DEF DropStore, At, Goto, Alone, Drained, Knows, Before, After, TypeOK
<1>12. ASSUME UNCHANGED vars
      PROVE  Alone' /\ Drained' /\ \A q \in Publishers : Knows(q)'
  BY <1>0, <1>12 DEF vars, Alone, Drained, Knows
<1>13. Alone' /\ Drained' /\ \A q \in Publishers : Knows(q)'
  <2>1. CASE \E p \in Publishers : \E m \in Messages : Fill(p, m)
    BY <2>1, <1>1
  <2>2. CASE \E p \in Publishers : Step(p)
    BY <2>2, <1>2, <1>3, <1>4, <1>5, <1>6, <1>7, <1>8, <1>9, <1>10, <1>11 DEF Step
  <2> QED
    BY <2>1, <2>2, <1>12 DEF Next
<1> QED
  BY <1>0, <1>13 DEF SerialInv

\* SerialInv holds throughout when publications do not overlap.
LEMMA SerialInvariant ==
  ASSUME ~Preempts
  PROVE  Spec => []SerialInv
<1>1. SerialInv /\ [Next]_vars => SerialInv'
  BY SerialStep
<1> QED
  BY <1>1, SerialInit, PTL DEF Spec

\* Publications that do not overlap leave nothing in the ring.
THEOREM RingDrained ==
  ASSUME ~Preempts
  PROVE  Spec => []Drained
<1>1. SerialInv => Drained
  BY DEF SerialInv
<1> QED
  BY <1>1, SerialInvariant, PTL

\* abus_public never reaches its endless loop: the ring always has room.
THEOREM NeverHangs ==
  ASSUME ~Preempts
  PROVE  Spec => [](\A p \in Publishers : pc[p] # "hang")
<1>1. SerialInv => \A p \in Publishers : pc[p] # "hang"
  BY DEF SerialInv, Knows
<1> QED
  BY <1>1, SerialInvariant, PTL

-----------------------------------------------------------------------------
(* The refinement: Apply is the abstract Execute, Fill is Ask, and every   *)
(* other step leaves the abstract state as it is.                          *)

AbstractWants == [p \in Publishers |-> Wants(p)]

\* A step that takes p from one label to another on the same side of Apply, and
\* leaves the messages and the chassis alone, is invisible.
LEMMA Invisible ==
  ASSUME pc \in [Publishers -> Labels],
         NEW p \in Publishers, NEW l, Goto(p, l), msg' = msg, command' = command,
         pc[p] \in {"room", "copy", "load", "store", "peek", "read", "apply"}
           <=> l \in {"room", "copy", "load", "store", "peek", "read", "apply"}
  PROVE  UNCHANGED <<AbstractWants, command>>
BY DEF Goto, AbstractWants, Wants

\* Every step of abus_public is a step of the atomic bus or changes nothing there.
LEMMA RefinementStep ==
  ASSUME ~Preempts
  PROVE  SerialInv /\ [Next]_vars => [Atomic!Next]_(Atomic!vars)
<1> SUFFICES ASSUME SerialInv, [Next]_vars
             PROVE  Atomic!Next \/ UNCHANGED <<AbstractWants, command>>
  BY DEF Atomic!vars, AbstractWants
<1>0. TypeOK /\ \A p \in Publishers : Knows(p)
  BY DEF SerialInv
<1>1. ASSUME NEW p \in Publishers, NEW m \in Messages, Fill(p, m)
      PROVE  Atomic!Ask(p, m)
  BY <1>0, <1>1 DEF Fill, At, Goto, Atomic!Ask, Wants, TypeOK
<1>2. ASSUME NEW p \in Publishers, Apply(p)
      PROVE  Atomic!Execute(p)
  <2>1. msg[p] \in Messages /\ heard[p] = msg[p]
    BY <1>0, <1>2 DEF Apply, At, Knows, Before
  <2> QED
    BY <1>0, <1>2, <2>1, NoneAssumption DEF Apply, At, Goto, Atomic!Execute, Wants, TypeOK
<1>3. ASSUME NEW p \in Publishers,
             Room(p) \/ Copy(p) \/ Load(p) \/ Store(p) \/ Peek(p) \/ Read(p) \/ Drop(p)
               \/ DropLoad(p) \/ DropStore(p)
      PROVE  UNCHANGED <<AbstractWants, command>>
  <2>0. pc \in [Publishers -> Labels]
    BY <1>0 DEF TypeOK
  <2>1. CASE Room(p)
    BY <2>0, <2>1, Invisible DEF Room, At
  <2>2. CASE Copy(p)
    BY <2>0, <2>2, Invisible DEF Copy, At
  <2>3. CASE Load(p)
    BY <2>0, <2>3, Invisible DEF Load, At
  <2>4. CASE Read(p)
    BY <2>0, <2>4, Invisible DEF Read, At
  <2>5. CASE Drop(p)
    BY <2>0, <2>5, Invisible DEF Drop, At
  <2>6. CASE DropLoad(p)
    BY <2>0, <2>6, Invisible DEF DropLoad, At
  <2>7. CASE DropStore(p)
    BY <2>0, <2>7, Invisible DEF DropStore, At
  <2>8. CASE Store(p)
    <3>1. len[p] = 1
      BY <1>0, <2>8 DEF Store, At, Knows
    <3> QED
      BY <2>0, <2>8, <3>1, Invisible DEF Store, At
  <2>9. CASE Peek(p)
    <3>1. Used > 0
      BY <1>0, <2>9, OneInRing DEF Peek, At, Knows, After, Used, TypeOK
    <3> QED
      BY <2>0, <2>9, <3>1, Invisible DEF Peek, At
  <2> QED
    BY <1>3, <2>1, <2>2, <2>3, <2>4, <2>5, <2>6, <2>7, <2>8, <2>9
<1>4. CASE UNCHANGED vars
  BY <1>4 DEF vars, AbstractWants, Wants
<1> QED
  BY <1>1, <1>2, <1>3, <1>4 DEF Next, Step, Atomic!Next

\* If publications do not overlap, abus_public is the atomic hand-over of a
\* command that RobotManager takes it for.
THEOREM BusIsAtomic ==
  ASSUME ~Preempts
  PROVE  Spec => ImplementsAtomic
<1>1. Init => Atomic!Init
  BY DEF Init, Atomic!Init, Wants
<1>2. SerialInv /\ [Next]_vars => [Atomic!Next]_(Atomic!vars)
  BY RefinementStep
<1> QED
  BY <1>1, <1>2, SerialInvariant, PTL DEF Spec, ImplementsAtomic, Atomic!Spec
=============================================================================
