----------------------------- MODULE Receivers -----------------------------
(***************************************************************************)
(* The two receivers that assemble frames in a UART interrupt: the         *)
(* position sensor on uart7 (drv_action.c) and the remote control on uart1 *)
(* (bsp_sbus.c).  They share nothing, so that a behaviour is about one of  *)
(* them, dev.  A byte is its value, as far as the receiver tells values    *)
(* apart, and where it comes from: the number of its frame modulo 3 and    *)
(* its place in the payload (0 outside it).  What becomes of a stored byte *)
(* does not depend on its value, and only where it comes from is kept.     *)
(***************************************************************************)
EXTENDS Integers, Sequences

CONSTANTS
  Size,      \* bytes of payload: 24 of the sensor, 24 with flags and footer of
             \* the remote control
  MaxFaults, \* bound on bytes made up or lost
  Enough     \* frame ends after which a disturbed receiver must be in step

ASSUME ReceiversAssumption ==
  Size \in Nat \ {0} /\ MaxFaults \in Nat /\ Enough \in Nat

VARIABLES
  dev,       \* "action" or "sbus"
  count,     \* count of Data_Analyse, state of dbus_uart_rx_ind
  date,      \* the payload so far: posture.date, or the bytes in the UART's buffer
  out,       \* the payload last published: the globals pos_x ..., or rc
  (* the sender, external *)
  at,        \* bytes of the present frame sent
  number,    \* number of that frame
  mimic,     \* what its payload looks like: "yes" after a header inside it, "half"
             \* after the first byte of one
  plain,     \* no payload so far had a byte 0d
  calm,      \* frames ended since the last fault, the disturbed one included
  faults     \* faults so far

line == <<at, number, mimic, plain>>
vars == <<dev, count, date, out, line, calm, faults>>

\* The values told apart: 0x0d and 0x0a, or 0x0f, and all others.
Values(d) == IF d = "action" THEN {"0d", "0a", "v"} ELSE {"0f", "v"}

Init ==
  /\ dev \in {"action", "sbus"}
  /\ count = 0 /\ date = << >> /\ out = << >>
  /\ at = 0 /\ number = 0 /\ mimic = "no" /\ plain = TRUE /\ calm = 0 /\ faults = 0

-----------------------------------------------------------------------------
(* Data_Analyse: 0d 0a, the payload, 0a 0d                                 *)

\* Mutated form: a second 0d does not count as the first byte of a header.
Header_NoRepeat(ch) ==
  \/ count = 0 /\ count' = IF ch = "0d" THEN 1 ELSE 0
  \/ count = 1 /\ count' = IF ch = "0a" THEN 2 ELSE 0

Header(ch) ==
  \/ count = 0 /\ count' = IF ch = "0d" THEN 1 ELSE 0
  \/ count = 1 /\ count' = CASE ch = "0a" -> 2 [] ch = "0d" -> 1 [] OTHER -> 0

\* Mutated form: the first byte of the trailer is not looked at.
Trailer_Skips(ch) ==
  \/ count = 3 /\ count' = 4 /\ UNCHANGED <<date, out>>
  \/ /\ count = 4 /\ count' = 0 /\ date' = << >>
     /\ out' = IF ch = "0d" THEN date ELSE out

\* Only a whole trailer publishes the payload.
Trailer(ch) ==
  \/ /\ count = 3
     /\ IF ch = "0a" THEN count' = 4 /\ UNCHANGED date ELSE count' = 0 /\ date' = << >>
     /\ UNCHANGED out
  \/ /\ count = 4 /\ count' = 0 /\ date' = << >>
     /\ out' = IF ch = "0d" THEN date ELSE out

\* One byte with value ch that comes from o.
Data_Analyse(ch, o) ==
  \/ Header(ch) /\ UNCHANGED <<date, out>>
  \/ /\ count = 2
     /\ date' = Append(date, o)
     /\ count' = IF Len(date') >= Size THEN 3 ELSE 2
     /\ UNCHANGED out
  \/ Trailer(ch)

-----------------------------------------------------------------------------
(* dbus_uart_rx_ind: 0f, then 24 bytes whatever they are                   *)

rx_ind(ch, o) ==
  \/ /\ count = 0 /\ count' = IF ch = "0f" THEN 1 ELSE 0
     /\ UNCHANGED <<date, out>>
  \/ /\ count = 1
     /\ IF Len(date) + 1 >= Size
          THEN out' = Append(date, o) /\ date' = << >> /\ count' = 0
          ELSE date' = Append(date, o) /\ UNCHANGED <<out, count>>

Receive(ch, o) == IF dev = "action" THEN Data_Analyse(ch, o) ELSE rx_ind(ch, o)

-----------------------------------------------------------------------------
(* The sender: 0d 0a, the payload, 0a 0d, or 0f and the payload            *)

FirstByte == IF dev = "action" THEN 2 ELSE 1
InPayload == at \in FirstByte .. FirstByte + Size - 1
Span == IF dev = "action" THEN Size + 4 ELSE Size + 1

\* The values the next byte may have.
Sends ==
  IF InPayload THEN Values(dev)
  ELSE IF dev = "sbus" THEN {"0f"}
  ELSE IF at \in {0, Size + 3} THEN {"0d"} ELSE {"0a"}

Origin(n, i) == [frame |-> n, pos |-> i]
Place == IF InPayload THEN at - FirstByte + 1 ELSE 0

\* Whether the payload looks like a header, after a byte x; the trailer of the
\* sensor begins like the second half of one.
Looks(x) ==
  IF at < FirstByte \/ mimic = "yes" THEN mimic
  ELSE IF dev = "sbus" THEN (IF x = "0f" THEN "yes" ELSE mimic)
  ELSE IF mimic = "half" /\ x = "0a" THEN "yes"
  ELSE IF x = "0d" THEN "half" ELSE "no"

\* The sender goes on with the next byte, or with the next frame.
Advance(x) ==
  /\ plain' = (plain /\ (InPayload => x # "0d"))
  /\ IF at + 1 < Span
       THEN at' = at + 1 /\ mimic' = Looks(x) /\ UNCHANGED number
       ELSE at' = 0 /\ mimic' = "no" /\ number' = (number + 1) % 3

Deliver ==
  /\ \E x \in Sends :
       /\ Receive(x, Origin(number, Place))
       /\ Advance(x)
       /\ calm' = IF at + 1 < Span THEN calm
                  ELSE IF Looks(x) = "yes" THEN 0
                  ELSE IF calm < Enough THEN calm + 1 ELSE calm
  /\ UNCHANGED <<dev, faults>>

Lose ==
  /\ faults < MaxFaults /\ faults' = faults + 1
  /\ \E x \in Sends : Advance(x)
  /\ calm' = 0
  /\ UNCHANGED <<dev, count, date, out>>

MakeUp ==
  /\ faults < MaxFaults /\ faults' = faults + 1
  /\ \E x \in Values(dev) : Receive(x, Origin(number, 0))
  /\ calm' = 0
  /\ UNCHANGED <<dev, line>>

Next == Deliver \/ Lose \/ MakeUp

Spec == Init /\ [][Next]_vars

-----------------------------------------------------------------------------
\* bytes is the payload of frame n.
IsPayload(bytes, n) == bytes = [i \in 1 .. Size |-> Origin(n, i)]

\* At the end of every frame the receiver has published that frame, whatever its
\* bytes, as long as nothing was lost or made up; and after a fault it is in step
\* again Enough frames later, if those do not look like headers.  It has no
\* time-out (Data_Analyse, dbus_uart_rx_ind): only the bytes bring it back.
InStep ==
  (at = 0 /\ (calm >= Enough \/ (faults = 0 /\ out # << >>)))
    => IsPayload(out, (number + 2) % 3)

\* The position sensor's receiver never publishes a pose mixed from two frames, or
\* with a byte missing or made up, on account of one fault: the trailer is not
\* where a shifted payload ends, unless a payload has the byte 0d.  (The remote
\* control's receiver looks at no footer, and publishes such a frame.)
Genuine ==
  (dev = "action" /\ plain /\ faults <= 1 /\ out # << >>)
    => \E n \in 0 .. 2 : IsPayload(out, n)
=============================================================================
