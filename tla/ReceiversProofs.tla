--------------------------- MODULE ReceiversProofs ---------------------------
(***************************************************************************)
(* The receivers find back into step within three frames, and the position *)
(* sensor publishes no mixed pose on account of one fault, for payloads of *)
(* any size and any number of faults.                                      *)
(***************************************************************************)
EXTENDS Receivers, SequenceTheorems, TLAPS

Origins == [frame : 0 .. 2, pos : 0 .. Size]

\* The first k bytes of the payload of frame n.
Prefix(n, k) == [i \in 1 .. k |-> Origin(n, i)]

LineType ==
  /\ at \in 0 .. Span - 1 /\ number \in 0 .. 2 /\ mimic \in {"no", "half", "yes"}
  /\ plain \in BOOLEAN

\* A receiver in the payload has less than one, behind it the sensor's has all of it,
\* otherwise it has nothing.
DateType ==
  /\ date \in Seq(Origins) /\ out \in Seq(Origins)
  /\ dev = "action" => /\ count \in {0, 1} => date = << >>
                       /\ count = 2 => Len(date) < Size
                       /\ count \in {3, 4} => Len(date) = Size
  /\ dev = "sbus"   => /\ count = 0 => date = << >>
                       /\ count = 1 => Len(date) < Size

ReceiversType ==
  /\ dev \in {"action", "sbus"}
  /\ count \in IF dev = "action" THEN 0 .. 4 ELSE 0 .. 1
  /\ DateType /\ LineType
  /\ calm \in 0 .. Enough /\ faults \in 0 .. MaxFaults

\* The receiver has exactly what was sent of the present frame.
Synced ==
  \/ /\ dev = "action"
     /\ \/ at = 0 /\ count \in {0, 1}
        \/ at = 1 /\ count = 1
        \/ at \in 2 .. Size + 1 /\ count = 2 /\ date = Prefix(number, at - 2)
        \/ at = Size + 2 /\ count = 3 /\ date = Prefix(number, Size)
        \/ at = Size + 3 /\ count = 4 /\ date = Prefix(number, Size)
  \/ /\ dev = "sbus"
     /\ \/ at = 0 /\ count = 0
        \/ at \in 1 .. Size /\ count = 1 /\ date = Prefix(number, at - 1)

\* It is busy with a frame that does not exist, but will be through with it before
\* the present one ends, or it waits for the next header.
Ending ==
  \/ /\ dev = "action"
     /\ \/ count = 2 /\ Len(date) >= at
        \/ count = 3 /\ at <= Size
        \/ count = 4 /\ at <= Size + 1
        \/ count = 0 /\ at >= 1
        \/ count = 1 /\ at \in 3 .. Size + 2 /\ mimic = "half"
  \/ /\ dev = "sbus"
     /\ \/ count = 1 /\ Len(date) >= at
        \/ count = 0 /\ at >= 1

\* In the second frame after a fault the receiver ends whatever it was at, in the
\* third it is in step, and from then on the last frame is the published one.
StepInv ==
  /\ (calm = 1 /\ mimic # "yes") => Synced \/ Ending
  /\ (calm >= 2 \/ faults = 0) => Synced
  /\ (calm >= 3 \/ (faults = 0 /\ out # << >>)) => out = Prefix((number + 2) % 3, Size)

\* What the position sensor's receiver has is genuine, or it ends where no trailer is.
GenuineDate == \E n \in 0 .. 2 : date = Prefix(n, Size)
GenuineInv ==
  (dev = "action" /\ plain /\ faults <= 1) =>
    /\ out # << >> => \E n \in 0 .. 2 : out = Prefix(n, Size)
    /\ (count = 2 /\ Len(date) = at - 2) => date = Prefix(number, at - 2)
    /\ (count = 3 /\ at = Size + 2) => GenuineDate
    /\ (count = 4 /\ at \in {0, Size + 3}) => GenuineDate

ReceiversInv == ReceiversType /\ StepInv /\ GenuineInv

-----------------------------------------------------------------------------
(* Payloads *)

\* Every byte of a frame has an origin.
LEMMA OriginType == \A n \in 0 .. 2, i \in 0 .. Size : Origin(n, i) \in Origins
BY DEF Origin, Origins

\* The first k bytes of a payload.
LEMMA PrefixType ==
  ASSUME NEW n \in 0 .. 2, NEW k \in 0 .. Size
  PROVE  Prefix(n, k) \in Seq(Origins) /\ Len(Prefix(n, k)) = k
<1>1. k \in Nat /\ \A i \in 1 .. k : Origin(n, i) \in Origins
  BY OriginType, ReceiversAssumption
<1> QED
  BY <1>1 DEF Prefix

\* No bytes.
LEMMA PrefixNone == \A n : Prefix(n, 0) = << >>
BY DEF Prefix

\* One byte more.
LEMMA PrefixMore ==
  ASSUME NEW n \in 0 .. 2, NEW k \in 0 .. Size - 1
  PROVE  Append(Prefix(n, k), Origin(n, k + 1)) = Prefix(n, k + 1)
<1> DEFINE s == Prefix(n, k)
           t == Prefix(n, k + 1)
           o == Origin(n, k + 1)
<1>1. k \in 0 .. Size /\ k + 1 \in 0 .. Size /\ k \in Nat
  BY ReceiversAssumption
<1>2. s \in Seq(Origins) /\ Len(s) = k /\ t \in Seq(Origins) /\ Len(t) = k + 1
  BY <1>1, PrefixType
<1>3. o \in Origins
  BY <1>1, OriginType
<1>4. (\A i \in 1 .. k : s[i] = t[i]) /\ t[k + 1] = o
  BY <1>1 DEF Prefix
<1> HIDE DEF s, t, o
<1>5. Append(s, o) \in Seq(Origins)
  BY <1>2, <1>3
<1>6. /\ Len(Append(s, o)) = k + 1 /\ Append(s, o)[k + 1] = o
      /\ \A i \in 1 .. k : Append(s, o)[i] = s[i]
  BY <1>2, <1>3
<1>7. \A i \in 1 .. k + 1 : Append(s, o)[i] = t[i]
  <2> TAKE i \in 1 .. k + 1
  <2>1. i \in 1 .. k \/ i = k + 1
    BY <1>1
  <2> QED
    BY <1>4, <1>6, <2>1
<1>8. Append(s, o) = t
  BY <1>2, <1>5, <1>6, <1>7, SeqEqual
<1> QED
  BY <1>8 DEF s, t, o

-----------------------------------------------------------------------------
(* Types *)

\* Every byte leaves the receiver with as much as its place in the frame says.
LEMMA ReceiveType ==
  ASSUME ReceiversType, UNCHANGED dev, NEW x, NEW o \in Origins, Receive(x, o)
  PROVE  (count \in IF dev = "action" THEN 0 .. 4 ELSE 0 .. 1)' /\ DateType'
<1>0. /\ date \in Seq(Origins) /\ out \in Seq(Origins) /\ Len(date) \in Nat
      /\ << >> \in Seq(Origins) /\ Size \in Nat /\ Size > 0 /\ DateType
      /\ dev \in {"action", "sbus"}
  BY ReceiversAssumption DEF ReceiversType, DateType
<1> DEFINE more == Append(date, o)
<1>1. more \in Seq(Origins) /\ Len(more) = Len(date) + 1
  BY <1>0
<1> HIDE DEF more
<1>2. CASE dev = "action"
  <2>1. Data_Analyse(x, o)
    BY <1>2 DEF Receive
  <2>2. CASE Header(x) /\ UNCHANGED <<date, out>>
    <3>1. count \in {0, 1} /\ count' \in {0, 1, 2} /\ date = << >>
      BY <1>0, <1>2, <2>2 DEF Header, DateType
    <3> QED
      BY <1>0, <1>2, <2>2, <3>1 DEF DateType
  <2>3. CASE /\ count = 2 /\ date' = more /\ count' = (IF Len(date') >= Size THEN 3 ELSE 2)
             /\ UNCHANGED out
    <3>1. Len(date) < Size
      BY <1>0, <1>2, <2>3 DEF DateType
    <3>2. date' \in Seq(Origins) /\ Len(date') = Len(date) + 1
      BY <1>1, <2>3
    <3>3. (count' = 2 /\ Len(date') < Size) \/ (count' = 3 /\ Len(date') = Size)
      BY <1>0, <2>3, <3>1, <3>2
    <3>4. date' \in Seq(Origins) /\ out' \in Seq(Origins)
      BY <1>0, <2>3, <3>2
    <3> QED
      BY <1>2, <3>3, <3>4 DEF DateType
  <2>4. CASE Trailer(x)
    <3>1. /\ count \in {3, 4} /\ Len(date) = Size
          /\ (count' = 4 /\ date' = date) \/ (count' = 0 /\ date' = << >>)
          /\ out' \in {out, date}
      BY <1>0, <1>2, <2>4 DEF Trailer, DateType
    <3>2. date' \in Seq(Origins) /\ out' \in Seq(Origins)
      BY <1>0, <3>1
    <3>3. (count' = 4 /\ Len(date') = Size) \/ (count' = 0 /\ date' = << >>)
      BY <3>1
    <3> QED
      BY <1>2, <3>2, <3>3 DEF DateType
  <2> QED
    BY <2>1, <2>2, <2>3, <2>4 DEF Data_Analyse, more
<1>3. CASE dev = "sbus"
  <2>1. rx_ind(x, o)
    BY <1>3 DEF Receive
  <2>2. CASE count = 0
    <3>1. count' \in {0, 1} /\ UNCHANGED <<date, out>> /\ date = << >>
      BY <1>0, <1>3, <2>1, <2>2 DEF rx_ind, DateType
    <3> QED
      BY <1>0, <1>3, <3>1 DEF DateType
  <2>3. CASE count = 1
    <3>1. \/ out' = more /\ date' = << >> /\ count' = 0
          \/ Len(date) + 1 < Size /\ date' = more /\ out' = out /\ count' = 1
      BY <1>0, <2>1, <2>3 DEF rx_ind, more
    <3>2. date' \in Seq(Origins) /\ out' \in Seq(Origins)
      BY <1>0, <1>1, <3>1
    <3>3. (count' = 0 /\ date' = << >>) \/ (count' = 1 /\ Len(date') < Size)
      BY <1>0, <1>1, <3>1
    <3> QED
      BY <1>3, <3>2, <3>3 DEF DateType
  <2> QED
    BY <2>1, <2>2, <2>3 DEF rx_ind
<1> QED
  BY <1>0, <1>2, <1>3

\* The sender goes on to the next byte.
LEMMA AdvanceType ==
  ASSUME ReceiversType, UNCHANGED dev, NEW x, Advance(x)
  PROVE  LineType'
<1>0. /\ LineType /\ Size \in Nat /\ Size > 0 /\ Span' = Span /\ Span \in Nat /\ Span > 0
      /\ at \in 0 .. Span - 1 /\ number \in 0 .. 2
  BY ReceiversAssumption DEF ReceiversType, LineType, Span
<1>1. Looks(x) \in {"no", "half", "yes"}
  BY <1>0 DEF LineType, Looks
<1>2. mimic' \in {"no", "half", "yes"}
  BY <1>1 DEF Advance
<1>3. at' \in 0 .. Span - 1 /\ number' \in 0 .. 2
  BY <1>0 DEF Advance
<1>4. plain' \in BOOLEAN
  BY Zenon DEF Advance
<1> QED
  BY <1>0, <1>2, <1>3, <1>4 DEF LineType

\* The place of a byte in its payload.
LEMMA PlaceType ==
  ReceiversType => Place \in 0 .. Size /\ Origin(number, Place) \in Origins /\ Origin(number, 0) \in Origins
<1> SUFFICES ASSUME ReceiversType
             PROVE  Place \in 0 .. Size /\ Origin(number, Place) \in Origins
                    /\ Origin(number, 0) \in Origins
  OBVIOUS
<1>1. number \in 0 .. 2 /\ at \in Int /\ Size \in Nat
  BY ReceiversAssumption DEF ReceiversType, LineType, Span
<1>2. Place \in 0 .. Size
  BY <1>1 DEF Place, InPayload, FirstByte
<1> QED
  BY <1>1, <1>2, OriginType

\* The initial state is well typed.
LEMMA ReceiversTypeInit == Init => ReceiversType
<1> SUFFICES ASSUME Init PROVE ReceiversType
  OBVIOUS
<1>1. << >> \in Seq(Origins) /\ Size \in Nat /\ Size > 0
  BY ReceiversAssumption
<1>2. DateType
  BY <1>1 DEF Init, DateType
<1>3. LineType
  BY <1>1 DEF Init, LineType, Span
<1> QED
  BY <1>1, <1>2, <1>3, ReceiversAssumption DEF Init, ReceiversType

\* Every step keeps the types.
LEMMA ReceiversTypeStep == ReceiversType /\ [Next]_vars => ReceiversType'
<1> SUFFICES ASSUME ReceiversType, [Next]_vars PROVE ReceiversType'
  OBVIOUS
<1>0. calm \in 0 .. Enough /\ faults \in 0 .. MaxFaults /\ MaxFaults \in Nat /\ Enough \in Nat
  BY ReceiversAssumption DEF ReceiversType
<1>1. CASE UNCHANGED vars
  BY <1>1 DEF vars, line, ReceiversType, DateType, LineType, Span
<1>2. CASE Deliver
  <2>1. PICK x \in Sends :
          /\ Receive(x, Origin(number, Place)) /\ Advance(x)
          /\ calm' = IF at + 1 < Span THEN calm
                     ELSE IF Looks(x) = "yes" THEN 0
                     ELSE IF calm < Enough THEN calm + 1 ELSE calm
    BY <1>2 DEF Deliver
  <2>2. UNCHANGED <<dev, faults>>
    BY <1>2 DEF Deliver
  <2>3. (count \in IF dev = "action" THEN 0 .. 4 ELSE 0 .. 1)' /\ DateType' /\ LineType'
    BY <2>1, <2>2, PlaceType, ReceiveType, AdvanceType
  <2>4. calm' \in 0 .. Enough
    BY <1>0, <2>1
  <2> QED
    BY <2>2, <2>3, <2>4 DEF ReceiversType
<1>3. CASE Lose
  <2>1. UNCHANGED <<dev, count, date, out>> /\ LineType'
    BY <1>3, AdvanceType DEF Lose
  <2>2. DateType'
    BY <2>1 DEF ReceiversType, DateType
  <2>3. calm' \in 0 .. Enough /\ faults' \in 0 .. MaxFaults
    BY <1>0, <1>3 DEF Lose
  <2> QED
    BY <2>1, <2>2, <2>3 DEF ReceiversType
<1>4. CASE MakeUp
  <2>1. UNCHANGED <<dev, at, number, mimic, plain>>
    BY <1>4 DEF MakeUp, line
  <2>2. (count \in IF dev = "action" THEN 0 .. 4 ELSE 0 .. 1)' /\ DateType'
    BY <1>4, <2>1, PlaceType, ReceiveType DEF MakeUp
  <2>3. LineType'
    BY <2>1 DEF ReceiversType, LineType, Span
  <2>4. calm' \in 0 .. Enough /\ faults' \in 0 .. MaxFaults
    BY <1>0, <1>4 DEF MakeUp
  <2> QED
    BY <2>1, <2>2, <2>3, <2>4 DEF ReceiversType
<1> QED
  BY <1>1, <1>2, <1>3, <1>4 DEF Next

-----------------------------------------------------------------------------
(* In step *)

\* The byte x of the sender reaches the receiver.
Byte(x) ==
  /\ x \in Sends /\ Receive(x, Origin(number, Place)) /\ Advance(x)
  /\ UNCHANGED dev

Facts ==
  /\ Size \in Nat /\ Size > 0 /\ Len(date) \in Nat /\ date \in Seq(Origins)
  /\ at \in 0 .. Span - 1 /\ number \in 0 .. 2 /\ dev \in {"action", "sbus"}
  /\ (dev = "action" => Span = Size + 4 /\ FirstByte = 2 /\ count \in 0 .. 4)
  /\ (dev = "sbus" => Span = Size + 1 /\ FirstByte = 1 /\ count \in 0 .. 1)

\* The numbers the cases below compare.
LEMMA FactsHold == ReceiversType => Facts
BY ReceiversAssumption DEF ReceiversType, DateType, LineType, Facts, Span, FirstByte

\* A receiver in step stays so, and publishes the frame with its last byte.
LEMMA SyncedByte ==
  ASSUME ReceiversType, Synced, NEW x, Byte(x)
  PROVE  /\ Synced'
         /\ out' = IF at + 1 < Span THEN out ELSE Prefix(number, Size)
<1>0. Facts /\ DateType
  BY FactsHold DEF ReceiversType
<1>1. CASE dev = "action"
  <2>0. /\ Span = Size + 4 /\ at \in 0 .. Size + 3 /\ Size \in Nat /\ Size > 0
        /\ number \in 0 .. 2 /\ dev' = "action" /\ FirstByte = 2
    BY <1>0, <1>1 DEF Facts, Byte
  <2>1. Data_Analyse(x, Origin(number, Place))
    BY <1>1 DEF Byte, Receive
  <2>2. /\ at < Size + 3 => at' = at + 1 /\ number' = number
        /\ at = Size + 3 => at' = 0
    BY <2>0 DEF Byte, Advance
  <2>3. CASE at \in {0, 1}
    <3>1. count \in {0, 1} /\ (at = 1 => count = 1)
      BY <1>1, <2>0, <2>3 DEF Synced
    <3>2. x = IF at = 0 THEN "0d" ELSE "0a"
      BY <1>1, <2>0, <2>3 DEF Byte, Sends, InPayload
    <3>3. count' = (IF at = 0 THEN 1 ELSE 2) /\ UNCHANGED <<date, out>>
      <4>1. Header(x) /\ UNCHANGED <<date, out>>
        BY <2>1, <3>1 DEF Data_Analyse, Trailer
      <4>2. CASE at = 0
        BY <3>1, <3>2, <4>1, <4>2 DEF Header
      <4>3. CASE at = 1
        BY <3>1, <3>2, <4>1, <4>3 DEF Header
      <4> QED
        BY <2>3, <4>2, <4>3
    <3>4. date' = Prefix(number', 0)
      BY <1>0, <1>1, <3>1, <3>3, PrefixNone DEF DateType
    <3>5. at' = at + 1
      BY <2>0, <2>2, <2>3
    <3>6. Synced'
      <4>1. CASE at = 0
        BY <2>0, <3>3, <3>5, <4>1 DEF Synced
      <4>2. CASE at = 1
        <5>1. at' = 2 /\ at' - 2 = 0
          BY <3>5, <4>2
        <5> QED
          BY <2>0, <3>3, <3>4, <4>2, <5>1 DEF Synced
      <4> QED
        BY <2>3, <4>1, <4>2
    <3> QED
      BY <2>0, <2>3, <3>3, <3>6
  <2>4. CASE at \in 2 .. Size + 1
    <3>1. count = 2 /\ date = Prefix(number, at - 2)
      BY <1>1, <2>0, <2>4 DEF Synced
    <3>2. at - 2 \in 0 .. Size - 1 /\ Place = (at - 2) + 1 /\ at - 2 + 1 = at' - 2 /\ at' = at + 1
      BY <1>1, <2>0, <2>2, <2>4 DEF Place, InPayload
    <3>3. /\ date' = Append(date, Origin(number, Place)) /\ UNCHANGED out
          /\ count' = IF Len(date') >= Size THEN 3 ELSE 2
      BY <2>1, <3>1 DEF Data_Analyse, Header, Trailer
    <3>4. date' = Prefix(number, at' - 2)
      BY <2>0, <3>1, <3>2, <3>3, PrefixMore
    <3>5. at' - 2 \in 0 .. Size
      BY <2>0, <3>2
    <3>6. Len(date') = at' - 2
      BY <2>0, <3>4, <3>5, PrefixType
    <3>7. Synced'
      <4>1. CASE at = Size + 1
        <5>1. at' = Size + 2 /\ at' - 2 = Size /\ count' = 3
          BY <2>0, <3>2, <3>3, <3>6, <4>1
        <5> QED
          BY <2>0, <2>2, <2>4, <3>4, <5>1 DEF Synced
      <4>2. CASE at \in 2 .. Size
        <5>1. at' \in 2 .. Size + 1 /\ count' = 2
          BY <2>0, <3>2, <3>3, <3>6, <4>2
        <5> QED
          BY <2>0, <2>2, <2>4, <3>4, <5>1 DEF Synced
      <4> QED
        BY <2>0, <2>4, <4>1, <4>2
    <3> QED
      BY <2>0, <2>4, <3>3, <3>7
  <2>5. CASE at = Size + 2
    <3>1. count = 3 /\ date = Prefix(number, Size) /\ x = "0a"
      BY <1>1, <2>0, <2>5 DEF Synced, Byte, Sends, InPayload
    <3>2. count' = 4 /\ UNCHANGED <<date, out>>
      BY <2>1, <3>1 DEF Data_Analyse, Header, Trailer
    <3>3. at' = Size + 3 /\ number' = number
      BY <2>0, <2>2, <2>5
    <3> QED
      BY <2>0, <2>5, <3>1, <3>2, <3>3 DEF Synced
  <2>6. CASE at = Size + 3
    <3>1. count = 4 /\ date = Prefix(number, Size) /\ x = "0d"
      BY <1>1, <2>0, <2>6 DEF Synced, Byte, Sends, InPayload
    <3>2. count' = 0 /\ out' = date
      BY <2>1, <3>1 DEF Data_Analyse, Header, Trailer
    <3> QED
      BY <2>0, <2>2, <2>6, <3>1, <3>2 DEF Synced
  <2> QED
    BY <2>0, <2>3, <2>4, <2>5, <2>6
<1>2. CASE dev = "sbus"
  <2>0. /\ Span = Size + 1 /\ at \in 0 .. Size /\ Size \in Nat /\ Size > 0
        /\ number \in 0 .. 2 /\ dev' = "sbus" /\ FirstByte = 1
    BY <1>0, <1>2 DEF Facts, Byte
  <2>1. rx_ind(x, Origin(number, Place))
    BY <1>2 DEF Byte, Receive
  <2>2. /\ at < Size => at' = at + 1 /\ number' = number
        /\ at = Size => at' = 0
    BY <2>0 DEF Byte, Advance
  <2>3. CASE at = 0
    <3>1. count = 0 /\ x = "0f"
      BY <1>2, <2>0, <2>3 DEF Synced, Byte, Sends, InPayload
    <3>2. count' = 1 /\ UNCHANGED <<date, out>>
      BY <2>1, <3>1 DEF rx_ind
    <3>3. date' = Prefix(number', 0)
      BY <1>0, <1>2, <3>1, <3>2, PrefixNone DEF DateType
    <3>4. at' = 1 /\ at' - 1 = 0
      BY <2>0, <2>2, <2>3
    <3> QED
      BY <2>0, <2>3, <3>2, <3>3, <3>4 DEF Synced
  <2>4. CASE at \in 1 .. Size
    <3>1. count = 1 /\ date = Prefix(number, at - 1)
      BY <1>2, <2>0, <2>4 DEF Synced
    <3>2. at - 1 \in 0 .. Size - 1 /\ Place = (at - 1) + 1 /\ (at - 1) + 1 = at
      BY <1>2, <2>0, <2>4 DEF Place, InPayload
    <3>3. Append(date, Origin(number, Place)) = Prefix(number, at) /\ Len(date) = at - 1
      <4>1. at - 1 \in 0 .. Size
        BY <2>0, <3>2
      <4> QED
        BY <2>0, <3>1, <3>2, <4>1, PrefixMore, PrefixType
    <3>4. CASE at = Size
      <4>1. out' = Prefix(number, Size) /\ count' = 0
        BY <2>0, <2>1, <3>1, <3>3, <3>4 DEF rx_ind
      <4> QED
        BY <2>0, <2>2, <3>4, <4>1 DEF Synced
    <3>5. CASE at < Size
      <4>1. date' = Prefix(number, at) /\ UNCHANGED <<out, count>>
        BY <2>0, <2>1, <3>1, <3>3, <3>5 DEF rx_ind
      <4>2. at' - 1 = at /\ at' \in 1 .. Size /\ number' = number
        BY <2>0, <2>2, <2>4, <3>5
      <4>3. Synced'
        BY <2>0, <3>1, <4>1, <4>2 DEF Synced
      <4>4. at + 1 < Span
        BY <2>0, <3>5
      <4> QED
        BY <4>1, <4>3, <4>4
    <3> QED
      BY <2>0, <2>4, <3>4, <3>5
  <2> QED
    BY <2>0, <2>3, <2>4
<1> QED
  BY <1>0, <1>1, <1>2 DEF Facts

\* A receiver that is out of step gets through with what it is at while the frame
\* passes, and is ready for the next one.
LEMMA EndingByte ==
  ASSUME ReceiversType, Ending, NEW x, Byte(x), Looks(x) # "yes"
  PROVE  IF at + 1 < Span THEN Ending' ELSE Synced'
<1>0. Facts /\ DateType
  BY FactsHold DEF ReceiversType
<1>1. CASE dev = "action"
  <2>0. /\ Span = Size + 4 /\ at \in 0 .. Size + 3 /\ Size \in Nat /\ Size > 0
        /\ number \in 0 .. 2 /\ dev' = "action" /\ FirstByte = 2 /\ Len(date) \in Nat
        /\ date \in Seq(Origins) /\ count \in 0 .. 4
    BY <1>0, <1>1 DEF Facts, Byte
  <2>1. Data_Analyse(x, Origin(number, Place))
    BY <1>1 DEF Byte, Receive
  <2>2. /\ at < Size + 3 => at' = at + 1 /\ mimic' = Looks(x)
        /\ at = Size + 3 => at' = 0
    BY <2>0 DEF Byte, Advance
  <2>3. CASE count = 2
    <3>1. Len(date) >= at /\ Len(date) < Size
      BY <1>0, <1>1, <2>3 DEF Ending, DateType
    <3>2. /\ date' = Append(date, Origin(number, Place))
          /\ count' = IF Len(date') >= Size THEN 3 ELSE 2
      BY <2>1, <2>3 DEF Data_Analyse, Header, Trailer
    <3>3. Len(date') = Len(date) + 1
      BY <2>0, <3>2, PlaceType
    <3>4. at' = at + 1 /\ at + 1 < Span
      BY <2>0, <2>2, <3>1
    <3>5. (count' = 2 /\ Len(date') >= at') \/ (count' = 3 /\ at' <= Size)
      BY <2>0, <3>1, <3>2, <3>3, <3>4
    <3> QED
      BY <2>0, <3>4, <3>5 DEF Ending
  <2>4. CASE count \in {3, 4}
    <3>1. (count = 3 /\ at <= Size) \/ (count = 4 /\ at <= Size + 1)
      BY <1>1, <2>4 DEF Ending
    <3>2. count' = 0 \/ (count = 3 /\ count' = 4)
      BY <2>1, <2>4 DEF Data_Analyse, Header, Trailer
    <3>3. at' = at + 1 /\ at + 1 < Span /\ at' >= 1
      BY <2>0, <2>2, <3>1
    <3>4. (count' = 0 /\ at' >= 1) \/ (count' = 4 /\ at' <= Size + 1)
      BY <2>0, <3>1, <3>2, <3>3
    <3> QED
      BY <2>0, <3>3, <3>4 DEF Ending
  <2>5. CASE count \in {0, 1}
    <3>1. at >= 1 /\ (count = 1 => at \in 3 .. Size + 2 /\ mimic = "half")
      BY <1>1, <2>0, <2>5 DEF Ending
    <3>2. /\ count' \in {0, 1, 2}
          /\ count' = 1 => x = "0d"
          /\ count' = 2 => count = 1 /\ x = "0a"
      BY <2>1, <2>5 DEF Data_Analyse, Header, Trailer
    <3>3. count' # 2
      <4>1. ASSUME count' = 2 PROVE Looks(x) = "yes"
        BY <1>1, <2>0, <3>1, <3>2, <4>1 DEF Looks
      <4> QED
        BY <4>1
    <3>4. CASE at = Size + 3
      <4>1. at' = 0 /\ count' \in {0, 1} /\ ~(at + 1 < Span)
        BY <2>0, <2>2, <3>2, <3>3, <3>4
      <4> QED
        BY <2>0, <4>1 DEF Synced
    <3>5. CASE at < Size + 3
      <4>1. at' = at + 1 /\ at + 1 < Span /\ at' >= 1
        BY <2>0, <2>2, <3>1, <3>5
      <4>2. ASSUME count' = 1 PROVE at' \in 3 .. Size + 2 /\ mimic' = "half"
        <5>1. x = "0d"
          BY <3>2, <4>2
        <5>2. at \in 2 .. Size + 1
          BY <1>1, <2>0, <3>1, <3>5, <5>1 DEF Byte, Sends, InPayload
        <5>3. Looks(x) = "half"
          BY <1>1, <2>0, <5>1, <5>2 DEF Looks
        <5> QED
          BY <2>0, <2>2, <3>5, <4>1, <5>2, <5>3
      <4>3. Ending'
        BY <2>0, <3>2, <3>3, <4>1, <4>2 DEF Ending
      <4> QED
        BY <4>1, <4>3
    <3> QED
      BY <2>0, <3>4, <3>5
  <2> QED
    BY <2>0, <2>3, <2>4, <2>5
<1>2. CASE dev = "sbus"
  <2>0. /\ Span = Size + 1 /\ at \in 0 .. Size /\ Size \in Nat /\ Size > 0
        /\ number \in 0 .. 2 /\ dev' = "sbus" /\ FirstByte = 1 /\ Len(date) \in Nat
        /\ date \in Seq(Origins) /\ count \in {0, 1}
    BY <1>0, <1>2 DEF Facts, Byte
  <2>1. rx_ind(x, Origin(number, Place))
    BY <1>2 DEF Byte, Receive
  <2>2. /\ at < Size => at' = at + 1
        /\ at = Size => at' = 0
    BY <2>0 DEF Byte, Advance
  <2>3. CASE count = 1
    <3>1. Len(date) >= at /\ Len(date) < Size
      BY <1>0, <1>2, <2>3 DEF Ending, DateType
    <3>2. \/ count' = 0
          \/ count' = 1 /\ date' = Append(date, Origin(number, Place))
      BY <2>1, <2>3 DEF rx_ind
    <3>3. Len(Append(date, Origin(number, Place))) = Len(date) + 1
      BY <2>0, PlaceType
    <3>4. at' = at + 1 /\ at + 1 < Span
      BY <2>0, <2>2, <3>1
    <3>5. (count' = 0 /\ at' >= 1) \/ (count' = 1 /\ Len(date') >= at')
      BY <2>0, <3>1, <3>2, <3>3, <3>4
    <3> QED
      BY <2>0, <3>4, <3>5 DEF Ending
  <2>4. CASE count = 0
    <3>1. at >= 1
      BY <1>2, <2>4 DEF Ending
    <3>2. x # "0f"
      BY <1>2, <2>0, <3>1 DEF Looks
    <3>3. count' = 0
      BY <2>1, <2>4, <3>2 DEF rx_ind
    <3>4. at < Size => at' >= 1
      BY <2>0, <2>2
    <3> QED
      BY <2>0, <2>2, <3>3, <3>4 DEF Ending, Synced
  <2> QED
    BY <2>0, <2>3, <2>4
<1> QED
  BY <1>0, <1>1, <1>2 DEF Facts

\* At the beginning of a frame the receiver can be at anything.
LEMMA AnyStart == (ReceiversType /\ at = 0) => Synced \/ Ending
<1> SUFFICES ASSUME ReceiversType, at = 0 PROVE Synced \/ Ending
  OBVIOUS
<1>0. Facts
  BY FactsHold
<1>1. CASE dev = "action"
  <2>1. count \in 0 .. 4 /\ Len(date) \in Nat /\ Size \in Nat
    BY <1>0, <1>1 DEF Facts
  <2>2. count \in {0, 1, 2, 3, 4} /\ Len(date) >= at /\ at <= Size /\ at <= Size + 1
    BY <2>1
  <2> QED
    BY <1>1, <2>2 DEF Synced, Ending
<1>2. CASE dev = "sbus"
  <2>1. count \in {0, 1} /\ Len(date) >= at
    BY <1>0, <1>2 DEF Facts
  <2> QED
    BY <1>2, <2>1 DEF Synced, Ending
<1> QED
  BY <1>0, <1>1, <1>2 DEF Facts

\* Every step keeps the receiver in step, or on its way to it.
LEMMA StepInvStep == ReceiversType /\ ReceiversType' /\ StepInv /\ [Next]_vars => StepInv'
<1> SUFFICES ASSUME ReceiversType, ReceiversType', StepInv, [Next]_vars PROVE StepInv'
  OBVIOUS
<1>0. /\ calm \in Nat /\ faults \in Nat /\ Enough \in Nat /\ number \in 0 .. 2
      /\ at \in Int /\ Span \in Int
  BY ReceiversAssumption DEF ReceiversType, LineType, Span
<1>1. CASE UNCHANGED vars
  <2>1. UNCHANGED <<dev, count, date, out, at, number, mimic, calm, faults>>
    BY <1>1 DEF vars, line
  <2>2. (Synced <=> Synced') /\ (Ending <=> Ending')
    BY <2>1 DEF Synced, Ending
  <2> QED
    BY <2>1, <2>2 DEF StepInv
<1>2. CASE Lose \/ MakeUp
  <2>1. calm' = 0 /\ faults' # 0
    BY <1>0, <1>2 DEF Lose, MakeUp
  <2> QED
    BY <2>1 DEF StepInv
<1>3. CASE Deliver
  <2>1. PICK x \in Sends :
          /\ Receive(x, Origin(number, Place)) /\ Advance(x)
          /\ calm' = IF at + 1 < Span THEN calm
                     ELSE IF Looks(x) = "yes" THEN 0
                     ELSE IF calm < Enough THEN calm + 1 ELSE calm
    BY <1>3 DEF Deliver
  <2>2. Byte(x) /\ UNCHANGED <<dev, faults>>
    BY <1>3, <2>1 DEF Deliver, Byte
  <2>3. Looks(x) # "yes" => mimic # "yes"
    BY DEF Looks
  <2>4. Synced => /\ Synced'
                  /\ out' = IF at + 1 < Span THEN out ELSE Prefix(number, Size)
    BY <2>2, SyncedByte
  <2>5. Ending /\ Looks(x) # "yes" => IF at + 1 < Span THEN Ending' ELSE Synced'
    BY <2>2, EndingByte
  <2>6. CASE at + 1 < Span
    <3>1. calm' = calm /\ mimic' = Looks(x) /\ number' = number
      BY <2>1, <2>6 DEF Advance
    <3>2. (calm' = 1 /\ mimic' # "yes") => Synced' \/ Ending'
      BY <2>3, <2>4, <2>5, <2>6, <3>1 DEF StepInv
    <3>3. (calm' >= 2 \/ faults' = 0) => Synced' /\ out' = out
      BY <2>2, <2>4, <2>6, <3>1 DEF StepInv
    <3>4. calm' >= 3 => calm' >= 2
      BY <1>0, <3>1
    <3> QED
      BY <2>2, <3>1, <3>2, <3>3, <3>4 DEF StepInv
  <2>7. CASE ~(at + 1 < Span)
    <3>1. at' = 0 /\ number' = (number + 1) % 3
      BY <2>1, <2>7 DEF Advance
    <3>2. (number' + 2) % 3 = number
      BY <1>0, <3>1
    <3>3. Synced' \/ Ending'
      <4>1. (ReceiversType /\ at = 0 => Synced \/ Ending)'
        BY AnyStart, PTL
      <4> QED
        BY <3>1, <4>1
    <3>4. /\ calm' >= 2 => (Looks(x) # "yes" /\ calm >= 1)
          /\ calm' >= 3 => calm >= 2
      BY <1>0, <2>1, <2>7
    <3>5. (calm >= 2 \/ faults = 0) => Synced' /\ out' = Prefix(number, Size)
      BY <2>4, <2>7 DEF StepInv
    <3>6. calm' >= 2 => Synced'
      BY <1>0, <2>3, <2>4, <2>5, <2>7, <3>4 DEF StepInv
    <3> QED
      BY <2>2, <3>2, <3>3, <3>4, <3>5, <3>6 DEF StepInv
  <2> QED
    BY <2>6, <2>7
<1> QED
  BY <1>1, <1>2, <1>3 DEF Next

-----------------------------------------------------------------------------
(* Genuine poses *)

\* What GenuineInv says of a receiver, its payload and its place.
GenuineOut == out # << >> => \E n \in 0 .. 2 : out = Prefix(n, Size)
GenuineRead ==
  /\ (count = 2 /\ Len(date) = at - 2) => date = Prefix(number, at - 2)
  /\ (count = 3 /\ at = Size + 2) => GenuineDate
  /\ (count = 4 /\ at \in {0, Size + 3}) => GenuineDate

\* On the line, a payload that is complete where a trailer is was taken from its
\* first byte on, as only the header is Size + 2 bytes before a trailer.
LEMMA GenuineByte ==
  ASSUME ReceiversType, dev = "action", GenuineOut, GenuineRead, NEW x, Byte(x), plain'
  PROVE  GenuineOut' /\ GenuineRead'
<1>0. Facts /\ DateType
  BY FactsHold DEF ReceiversType
<1>1. /\ Span = Size + 4 /\ at \in 0 .. Size + 3 /\ Size \in Nat /\ Size > 0
      /\ number \in 0 .. 2 /\ FirstByte = 2 /\ Len(date) \in Nat
      /\ date \in Seq(Origins) /\ count \in 0 .. 4
  BY <1>0 DEF Facts
<1>2. Data_Analyse(x, Origin(number, Place))
  BY DEF Byte, Receive
<1>3. /\ at < Size + 3 => at' = at + 1 /\ number' = number
      /\ at = Size + 3 => at' = 0
  BY <1>1 DEF Byte, Advance
<1>4. /\ x = "0d" => at \in {0, Size + 3}
      /\ x = "0a" => at \in 1 .. Size + 2
  <2>1. at \in 2 .. Size + 1 => x # "0d"
    <3>1. at \in 2 .. Size + 1 => InPayload
      BY <1>1 DEF InPayload
    <3>2. InPayload => x # "0d"
      BY Zenon DEF Byte, Advance
    <3> QED
      BY <3>1, <3>2
  <2> QED
    BY <1>1, <2>1 DEF Byte, Sends, InPayload
<1>5. CASE count \in {0, 1}
  <2>1. /\ UNCHANGED <<date, out>> /\ count' \in {0, 1, 2} /\ date = << >>
    BY <1>0, <1>2, <1>5 DEF Data_Analyse, Header, Trailer, DateType
  <2>2. Len(date') = 0 /\ date' = Prefix(number', 0)
    BY <2>1, PrefixNone
  <2>3. (count' = 2 /\ Len(date') = at' - 2) => at' - 2 = 0
    BY <2>2
  <2> QED
    BY <2>1, <2>2, <2>3 DEF GenuineOut, GenuineRead
<1>6. CASE count = 2
  <2>1. /\ date' = Append(date, Origin(number, Place)) /\ UNCHANGED out
        /\ count' = IF Len(date') >= Size THEN 3 ELSE 2
    BY <1>2, <1>6 DEF Data_Analyse, Header, Trailer
  <2>2. Len(date') = Len(date) + 1 /\ Len(date) < Size
    BY <1>0, <1>1, <1>6, <2>1, PlaceType DEF DateType
  <2>3. ASSUME Len(date') = at' - 2 PROVE date' = Prefix(number', at' - 2)
    <3>1. at' = at + 1 /\ number' = number /\ Len(date) = at - 2
      BY <1>1, <1>3, <2>2, <2>3
    <3>2. date = Prefix(number, at - 2)
      BY <1>6, <3>1 DEF GenuineRead
    <3>3. at - 2 \in 0 .. Size - 1 /\ Place = (at - 2) + 1 /\ (at - 2) + 1 = at' - 2
      BY <1>1, <2>2, <3>1 DEF Place, InPayload
    <3> QED
      BY <1>1, <2>1, <3>1, <3>2, <3>3, PrefixMore
  <2>4. ASSUME count' = 3, at' = Size + 2 PROVE GenuineDate'
    <3>1. Len(date') = at' - 2 /\ at' - 2 = Size /\ number' = number
      BY <1>1, <1>3, <2>1, <2>2, <2>4
    <3>2. date' = Prefix(number, Size)
      BY <2>3, <3>1
    <3> QED
      BY <1>1, <3>2 DEF GenuineDate
  <2>5. count' \in {2, 3}
    BY <2>1
  <2> QED
    BY <2>1, <2>3, <2>4, <2>5 DEF GenuineOut, GenuineRead
<1>7. CASE count = 3
  <2>1. UNCHANGED out /\ (count' = 0 \/ (count' = 4 /\ date' = date /\ x = "0a"))
    BY <1>2, <1>7 DEF Data_Analyse, Header, Trailer
  <2>2. ASSUME count' = 4, at' \in {0, Size + 3} PROVE GenuineDate'
    <3>1. at = Size + 2 /\ date' = date
      BY <1>1, <1>3, <1>4, <2>1, <2>2
    <3> QED
      BY <1>7, <3>1 DEF GenuineRead, GenuineDate
  <2> QED
    BY <2>1, <2>2 DEF GenuineOut, GenuineRead
<1>8. CASE count = 4
  <2>1. count' = 0 /\ out' = IF x = "0d" THEN date ELSE out
    BY <1>2, <1>8 DEF Data_Analyse, Header, Trailer
  <2>2. x = "0d" => GenuineDate
    BY <1>4, <1>8 DEF GenuineRead
  <2> QED
    BY <2>1, <2>2 DEF GenuineOut, GenuineRead, GenuineDate
<1> QED
  BY <1>1, <1>5, <1>6, <1>7, <1>8

\* The first fault finds the receiver in step, and shifts its payload by one.
LEMMA GenuineFault ==
  ASSUME ReceiversType, dev = "action", GenuineOut, Synced, Lose \/ MakeUp
  PROVE  GenuineOut' /\ GenuineRead'
<1>0. Facts /\ DateType
  BY FactsHold DEF ReceiversType
<1>1. /\ Span = Size + 4 /\ at \in 0 .. Size + 3 /\ Size \in Nat /\ Size > 0
      /\ number \in 0 .. 2 /\ FirstByte = 2 /\ Len(date) \in Nat
      /\ date \in Seq(Origins) /\ count \in 0 .. 4
  BY <1>0 DEF Facts
<1>2. /\ count \in {0, 1} => at \in {0, 1} /\ date = << >>
      /\ count = 2 => at \in 2 .. Size + 1 /\ date = Prefix(number, at - 2)
      /\ count = 3 => at = Size + 2 /\ GenuineDate
      /\ count = 4 => at = Size + 3 /\ GenuineDate
  BY <1>0, <1>1 DEF Synced, GenuineDate, DateType
<1>3. count = 2 => Len(date) = at - 2
  <2>1. count = 2 => at - 2 \in 0 .. Size
    BY <1>1, <1>2
  <2> QED
    BY <1>1, <1>2, <2>1, PrefixType
<1>4. CASE Lose
  <2>1. UNCHANGED <<count, date, out>>
    BY <1>4 DEF Lose
  <2>2. at < Size + 3 => at' = at + 1
    BY <1>1, <1>4 DEF Lose, Advance
  <2>3. ~(count' = 2 /\ Len(date') = at' - 2)
    BY <1>1, <1>2, <1>3, <2>1, <2>2
  <2>4. count' \in {3, 4} => GenuineDate'
    BY <1>2, <2>1 DEF GenuineDate
  <2> QED
    BY <2>1, <2>3, <2>4 DEF GenuineOut, GenuineRead
<1>5. CASE MakeUp
  <2>1. PICK x : Data_Analyse(x, Origin(number, 0))
    BY <1>5 DEF MakeUp, Receive
  <2>2. UNCHANGED at
    BY <1>5 DEF MakeUp, line
  <2>3. CASE count \in {0, 1}
    <3>1. UNCHANGED <<date, out>> /\ count' \in {0, 1, 2}
      BY <2>1, <2>3 DEF Data_Analyse, Header, Trailer
    <3>2. ~(count' = 2 /\ Len(date') = at' - 2)
      <4>1. Len(date') = 0
        BY <1>2, <2>3, <3>1
      <4> QED
        BY <1>2, <2>2, <2>3, <4>1
    <3> QED
      BY <3>1, <3>2 DEF GenuineOut, GenuineRead
  <2>4. CASE count = 2
    <3>1. /\ date' = Append(date, Origin(number, 0)) /\ UNCHANGED out
          /\ count' \in {2, 3}
      BY <2>1, <2>4 DEF Data_Analyse, Header, Trailer
    <3>2. Len(date') = (at - 2) + 1 /\ at \in 2 .. Size + 1
      BY <1>1, <1>2, <1>3, <2>4, <3>1, PlaceType
    <3>3. ~(Len(date') = at' - 2) /\ at' # Size + 2
      BY <1>1, <2>2, <3>2
    <3> QED
      BY <3>1, <3>3 DEF GenuineOut, GenuineRead
  <2>5. CASE count \in {3, 4}
    <3>1. /\ out' = out \/ out' = date
          /\ count' = 0 \/ (count' = 4 /\ date' = date)
      BY <2>1, <2>5 DEF Data_Analyse, Header, Trailer
    <3>2. GenuineDate
      BY <1>2, <2>5
    <3>3. GenuineOut'
      BY <3>1, <3>2 DEF GenuineOut, GenuineDate
    <3>4. GenuineRead'
      BY <3>1, <3>2 DEF GenuineRead, GenuineDate
    <3> QED
      BY <3>3, <3>4
  <2> QED
    BY <1>1, <2>3, <2>4, <2>5
<1> QED
  BY <1>4, <1>5

\* Every step keeps what is collected the beginning of one payload.
LEMMA GenuineStep == ReceiversType /\ StepInv /\ GenuineInv /\ [Next]_vars => GenuineInv'
<1> SUFFICES ASSUME ReceiversType, StepInv, GenuineInv, [Next]_vars,
                    dev' = "action", plain', faults' <= 1
             PROVE  GenuineOut' /\ GenuineRead'
  BY DEF GenuineInv, GenuineOut, GenuineRead
<1>0. faults \in Nat
  BY ReceiversAssumption DEF ReceiversType
<1>1. CASE UNCHANGED vars
  <2>1. UNCHANGED <<dev, count, date, out, at, number, plain, faults>>
    BY <1>1 DEF vars, line
  <2> QED
    BY <2>1 DEF GenuineInv, GenuineOut, GenuineRead, GenuineDate
<1>2. CASE Deliver
  <2>1. PICK x : Byte(x)
    BY <1>2 DEF Deliver, Byte
  <2>2. UNCHANGED <<dev, faults>> /\ plain
    BY <1>2, <2>1 DEF Deliver, Byte, Advance
  <2>3. GenuineOut /\ GenuineRead
    BY <2>2 DEF GenuineInv, GenuineOut, GenuineRead
  <2> QED
    BY <2>1, <2>2, <2>3, GenuineByte
<1>3. CASE Lose \/ MakeUp
  <2>1. UNCHANGED dev /\ faults = 0 /\ plain
    <3>1. UNCHANGED dev /\ faults = 0
      BY <1>0, <1>3 DEF Lose, MakeUp
    <3>2. Lose => plain
      BY Zenon DEF Lose, Advance
    <3>3. MakeUp => plain
      BY DEF MakeUp, line
    <3> QED
      BY <1>3, <3>1, <3>2, <3>3
  <2>2. Synced /\ GenuineOut
    BY <2>1 DEF StepInv, GenuineInv, GenuineOut
  <2> QED
    BY <1>3, <2>1, <2>2, GenuineFault
<1> QED
  BY <1>1, <1>2, <1>3 DEF Next

-----------------------------------------------------------------------------
(* The theorems *)

\* The receivers keep the inductive invariant, whatever the sender sends.
THEOREM ReceiversInvariant == Spec => []ReceiversInv
<1>1. Init => ReceiversInv
  <2> SUFFICES ASSUME Init PROVE ReceiversInv
    OBVIOUS
  <2>1. Synced
    BY DEF Init, Synced
  <2>2. StepInv
    BY <2>1 DEF Init, StepInv
  <2>3. GenuineInv
    BY DEF Init, GenuineInv
  <2> QED
    BY <2>2, <2>3, ReceiversTypeInit DEF ReceiversInv
<1>2. ReceiversInv /\ [Next]_vars => ReceiversInv'
  BY ReceiversTypeStep, StepInvStep, GenuineStep DEF ReceiversInv
<1> QED
  BY <1>1, <1>2, PTL DEF Spec

\* Data_Analyse and dbus_uart_rx_ind publish every frame of an undisturbed line, and
\* after a fault they are in step again with the third frame end, for payloads of any
\* size and any number of faults before.
THEOREM BackInStep ==
  ASSUME Enough >= 3
  PROVE  Spec => []InStep
<1>1. ReceiversInv => InStep
  <2> SUFFICES ASSUME ReceiversInv PROVE InStep
    OBVIOUS
  <2>1. calm >= Enough => calm >= 3
    BY ReceiversAssumption DEF ReceiversInv, ReceiversType
  <2> QED
    BY <2>1 DEF ReceiversInv, StepInv, InStep, IsPayload, Prefix
<1> QED
  BY <1>1, ReceiversInvariant, PTL

\* Data_Analyse publishes no pose mixed from two frames, or with a byte missing or
\* made up, on account of one lost or made-up byte, if no payload has the byte 0d.
THEOREM PosesAreGenuine == Spec => []Genuine
<1>1. ReceiversInv => Genuine
  BY DEF ReceiversInv, GenuineInv, Genuine, IsPayload, Prefix
<1> QED
  BY <1>1, ReceiversInvariant, PTL

=============================================================================
