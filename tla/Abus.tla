-------------------------------- MODULE Abus --------------------------------
(***************************************************************************)
(* The topic chassis_ctrl_topic of the message bus (abus_topic.c) and the  *)
(* ring buffer behind it (afifo.c, afifo.h).  abus_public puts a message   *)
(* into the ring, calls the subscribers, which look at the oldest message  *)
(* without taking it, and then drops the oldest one.  The lock of the ring *)
(* is a pair of empty functions, so every access to the indices in and out *)
(* is a step of its own.                                                   *)
(*                                                                         *)
(* Two threads publish on the topic, both from the same static ctrl:       *)
(* follow_line, through rbmg_error_callback, and rbmg_handle, whose higher *)
(* priority lets it run to the end of a publication without follow_line.   *)
(* The buffer is a whole number of messages long, hence ring and indices   *)
(* are counted in messages.                                                *)
(***************************************************************************)
EXTENDS Integers

CONSTANTS
  Messages,  \* chassis commands
  None,      \* no command
  Cap,       \* messages the ring holds (64 in the code)
  Word,      \* the indices wrap at this number of messages (2^28 in the code)
  Preempts   \* rbmg_handle may publish in the middle of a publication

ASSUME NoneAssumption == None \notin Messages
ASSUME CapAssumption == Cap \in Nat \ {0}
ASSUME WordAssumption == Word \in Nat /\ Word > Cap /\ Word % Cap = 0
ASSUME PreemptsAssumption == Preempts \in BOOLEAN

VARIABLES
  slot,     \* the ring
  in, out,  \* its indices: where the next message goes, where the oldest is
  ctrl,     \* the static chassis_ctrl_t both publishers fill
  pc,       \* [publisher -> where it is in abus_public]
  len,      \* [publisher -> messages afifo_in or afifo_add_out decided on]
  reg,      \* [publisher -> the index loaded for an update]
  heard,    \* [publisher -> the message chassis_sub_callback copied]
  command,  \* the last command given to the chassis
  msg       \* history: [publisher -> the message it publishes]

vars == <<slot, in, out, ctrl, pc, len, reg, heard, command, msg>>

Publishers == {"follow", "rbmg"}

Used == (in - out) % Word
Free == (Cap - in + out) % Word

Init ==
  /\ slot = [i \in 0 .. Cap - 1 |-> None]
  /\ in = 0 /\ out = 0
  /\ ctrl = None /\ command = None
  /\ pc = [p \in Publishers |-> "idle"]
  /\ len = [p \in Publishers |-> 0]
  /\ reg = [p \in Publishers |-> 0]
  /\ heard = [p \in Publishers |-> None]
  /\ msg = [p \in Publishers |-> None]

\* p is at l and the scheduler lets it run.
At(p, l) ==
  /\ pc[p] = l
  /\ p = "follow" => pc["rbmg"] = "idle"

Goto(p, l) == pc' = [pc EXCEPT ![p] = l]

-----------------------------------------------------------------------------
(* The publisher fills ctrl and calls abus_public. *)
Fill(p, m) ==
  /\ At(p, "idle")
  /\ Preempts \/ \A q \in Publishers : pc[q] = "idle"
  /\ ctrl' = m /\ msg' = [msg EXCEPT ![p] = m]
  /\ Goto(p, "room")
  /\ UNCHANGED <<slot, in, out, len, reg, heard, command>>

-----------------------------------------------------------------------------
(* afifo_in *)
Room(p) ==
  /\ At(p, "room")
  /\ len' = [len EXCEPT ![p] = IF Free > 0 THEN 1 ELSE 0]
  /\ Goto(p, "copy")
  /\ UNCHANGED <<slot, in, out, ctrl, reg, heard, command, msg>>

Copy(p) ==
  /\ At(p, "copy")
  /\ slot' = IF len[p] = 1 THEN [slot EXCEPT ![in % Cap] = ctrl] ELSE slot
  /\ Goto(p, "load")
  /\ UNCHANGED <<in, out, ctrl, len, reg, heard, command, msg>>

Load(p) ==
  /\ At(p, "load")
  /\ reg' = [reg EXCEPT ![p] = in]
  /\ Goto(p, "store")
  /\ UNCHANGED <<slot, in, out, ctrl, len, heard, command, msg>>

\* Mutated form: the index is not wrapped.
Store_NoWrap(p) ==
  /\ At(p, "store")
  /\ in' = reg[p] + len[p]
  /\ Goto(p, IF len[p] = 1 THEN "peek" ELSE "hang")
  /\ UNCHANGED <<slot, out, ctrl, len, reg, heard, command, msg>>

\* A message that did not fit stops the publisher for good.
Store(p) ==
  /\ At(p, "store")
  /\ in' = (reg[p] + len[p]) % Word
  /\ Goto(p, IF len[p] = 1 THEN "peek" ELSE "hang")
  /\ UNCHANGED <<slot, out, ctrl, len, reg, heard, command, msg>>

-----------------------------------------------------------------------------
(* chassis_sub_callback: afifo_out_data, then the chassis obeys.  Nothing  *)
(* happens if no message is there.                                         *)
\* Mutated form: the callback waits for a message beyond the one published.
Peek_Waits(p) ==
  /\ At(p, "peek")
  /\ Goto(p, IF Used > 1 THEN "read" ELSE "peek")
  /\ UNCHANGED <<slot, in, out, ctrl, len, reg, heard, command, msg>>

Peek(p) ==
  /\ At(p, "peek")
  /\ Goto(p, IF Used > 0 THEN "read" ELSE "drop")
  /\ UNCHANGED <<slot, in, out, ctrl, len, reg, heard, command, msg>>

\* Mutated form: the newest message is read, by an index one too high.
Read_Next(p) ==
  /\ At(p, "read")
  /\ heard' = [heard EXCEPT ![p] = slot[(out + 1) % Cap]]
  /\ Goto(p, "apply")
  /\ UNCHANGED <<slot, in, out, ctrl, len, reg, command, msg>>

Read(p) ==
  /\ At(p, "read")
  /\ heard' = [heard EXCEPT ![p] = slot[out % Cap]]
  /\ Goto(p, "apply")
  /\ UNCHANGED <<slot, in, out, ctrl, len, reg, command, msg>>

Apply(p) ==
  /\ At(p, "apply")
  /\ command' = heard[p]
  /\ Goto(p, "drop")
  /\ UNCHANGED <<slot, in, out, ctrl, len, reg, heard, msg>>

-----------------------------------------------------------------------------
(* afifo_add_out *)
Drop(p) ==
  /\ At(p, "drop")
  /\ len' = [len EXCEPT ![p] = IF Used > 0 THEN 1 ELSE 0]
  /\ Goto(p, "drop_load")
  /\ UNCHANGED <<slot, in, out, ctrl, reg, heard, command, msg>>

DropLoad(p) ==
  /\ At(p, "drop_load")
  /\ reg' = [reg EXCEPT ![p] = out]
  /\ Goto(p, "drop_store")
  /\ UNCHANGED <<slot, in, out, ctrl, len, heard, command, msg>>

\* Mutated form: the message stays in the ring.
DropStore_Keeps(p) ==
  /\ At(p, "drop_store")
  /\ Goto(p, "idle")
  /\ UNCHANGED <<slot, in, out, ctrl, len, reg, heard, command, msg>>

DropStore(p) ==
  /\ At(p, "drop_store")
  /\ out' = (reg[p] + len[p]) % Word
  /\ Goto(p, "idle")
  /\ UNCHANGED <<slot, in, ctrl, len, reg, heard, command, msg>>

Step(p) ==
  \/ Room(p) \/ Copy(p) \/ Load(p) \/ Store(p)
  \/ Peek(p) \/ Read(p) \/ Apply(p)
  \/ Drop(p) \/ DropLoad(p) \/ DropStore(p)

Next == \E p \in Publishers : Step(p) \/ \E m \in Messages : Fill(p, m)

Spec == Init /\ [][Next]_vars

\* A thread in the middle of a publication is scheduled again.
FairSpec == Spec /\ \A p \in Publishers : WF_vars(Step(p))

-----------------------------------------------------------------------------
(* Properties *)

Labels ==
  {"idle", "room", "copy", "load", "store", "peek", "read", "apply",
   "drop", "drop_load", "drop_store", "hang"}

\* Every variable keeps its type; the indices stay below the word size.
TypeOK ==
  /\ slot \in [0 .. Cap - 1 -> Messages \cup {None}]
  /\ in \in 0 .. Word - 1 /\ out \in 0 .. Word - 1
  /\ ctrl \in Messages \cup {None} /\ command \in Messages \cup {None}
  /\ pc \in [Publishers -> Labels]
  /\ len \in [Publishers -> {0, 1}] /\ reg \in [Publishers -> 0 .. Word - 1]
  /\ heard \in [Publishers -> Messages \cup {None}]
  /\ msg \in [Publishers -> Messages \cup {None}]

\* Between two publications the ring is empty: no message is left behind to be
\* taken for the next one.
Drained == (\A p \in Publishers : pc[p] = "idle") => in = out

\* A publication ends: abus_public never stays in its endless loop.
PublishEnds == \A p \in Publishers : pc[p] = "room" ~> pc[p] = "idle"

\* The bus delivers every command at once and unchanged, as AtomicBus says.
Wants(p) ==
  IF pc[p] \in {"room", "copy", "load", "store", "peek", "read", "apply"}
    THEN msg[p] ELSE None
Atomic == INSTANCE AtomicBus WITH wants <- [p \in Publishers |-> Wants(p)]
ImplementsAtomic == Atomic!Spec
=============================================================================
