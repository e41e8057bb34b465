------------------------------ MODULE CVector ------------------------------
(***************************************************************************)
(* The growable vector (cvector.c).  A vector is its buffer data, one      *)
(* element per slot from 0, the length len and the slots tot of the        *)
(* buffer.  An operation gives the vector it leaves, its return code, and  *)
(* wild: whether one of the slots it wrote is not in the buffer.  The      *)
(* outcomes of realloc are parameters: ok, it has found the memory; moved, *)
(* the buffer is somewhere else afterwards.                                *)
(***************************************************************************)
EXTENDS Integers, Sequences

CONSTANTS
  MinLen,  \* MIN_LEN, 256 in the code
  Junk     \* what a slot holds that nobody has written

ASSUME CVectorAssumption == MinLen \in Nat /\ MinLen >= 2

Vec(data, len, tot) == [data |-> data, len |-> len, tot |-> tot]

cvector_create == Vec([i \in 0 .. MinLen - 1 |-> Junk], 0, MinLen)

Resize(v, t) ==
  Vec([i \in 0 .. t - 1 |-> IF i < v.tot THEN v.data[i] ELSE Junk], v.len, t)

\* The buffer of a vector whose realloc has answered NULL.
NoBuffer == [i \in {} |-> Junk]

\* What is read from slot j, in the buffer or not.
Slot(v, j) == IF j \in DOMAIN v.data THEN v.data[j] ELSE Junk

\* The call has written the elements w, by their slots, and leaves the length len.
Written(v, w, len) ==
  [v    |-> Vec([j \in DOMAIN v.data |-> IF j \in DOMAIN w THEN w[j] ELSE v.data[j]],
                len, v.tot),
   ret  |-> "CVESUCCESS",
   wild |-> \E j \in DOMAIN w : j \notin DOMAIN v.data]

\* The call returns code before it has written anything.
Refused(v, code) == [v |-> v, ret |-> code, wild |-> FALSE]

\* A full buffer is doubled before an element is added.
Grown(v) == IF v.len >= v.tot THEN Resize(v, 2 * v.tot) ELSE v

\* Mutated form: the buffer grows one element late.
cvector_pushback_Late(v, x, ok) ==
  IF v.len > v.tot /\ ~ok
    THEN Refused(v, "CVEPUSHBACK")
    ELSE LET g == IF v.len > v.tot THEN Resize(v, 2 * v.tot) ELSE v
         IN  Written(g, [j \in {g.len} |-> x], g.len + 1)

cvector_pushback(v, x, ok) ==
  IF v.len >= v.tot /\ ~ok
    THEN Refused(v, "CVEPUSHBACK")
    ELSE LET g == Grown(v) IN Written(g, [j \in {g.len} |-> x], g.len + 1)

\* The end of a removal that has come to r: the element is gone, whether or not the
\* buffer shrinks.
Shrink(r, ok, failure) ==
  IF r.v.tot >= 4 * MinLen /\ r.v.len <= r.v.tot \div 4
    THEN IF ok THEN [r EXCEPT !.v = Resize(@, @.tot \div 2)] ELSE [r EXCEPT !.ret = failure]
    ELSE r

cvector_popback(v, ok) ==
  IF v.len = 0
    THEN Refused(v, "CVEPOPBACK")
    ELSE Shrink(Written(v, NoBuffer, v.len - 1), ok, "CVEPOPBACK")

\* Mutated form: the last element is not moved along.
cvector_rm_OneShort(v, i, ok) ==
  IF i >= v.len
    THEN Refused(v, "CVEFAILED")
    ELSE Shrink(Written(v, [j \in i .. v.len - 3 |-> Slot(v, j + 1)], v.len - 1), ok, "CVERM")

\* The elements behind i move down, with the slot behind the last element, which
\* is read past the buffer when the vector is full.
cvector_rm(v, i, ok) ==
  IF i >= v.len
    THEN Refused(v, "CVEFAILED")
    ELSE Shrink(Written(v, [j \in i .. v.len - 1 |-> Slot(v, j + 1)], v.len - 1), ok, "CVERM")

\* The slot an iterator points to whose buffer has been given back.
Outside == -1

\* What cvmemove_foreward and the memcpy behind it write: the slots i .. len, one
\* more than there are elements, move up by one, and x goes to i.
Shifted(v, i, x) == [j \in i .. v.len + 1 |-> IF j = i THEN x ELSE Slot(v, j - 1)]

\* The iterator is not taken along when the buffer grows and moves: x goes to the
\* old buffer (and what the loop moves depends on where the two lie).
cvector_insert(v, i, x, ok, moved) ==
  IF i >= v.len
    THEN Refused(v, "CVEFAILED")
    ELSE IF v.len >= v.tot /\ ~ok
      THEN Refused(v, "CVEINSERT")
      ELSE LET g == Grown(v)
           IN  Written(g, IF v.len >= v.tot /\ moved THEN [j \in {Outside} |-> x]
                                                     ELSE Shifted(g, i, x),
                       g.len + 1)

\* The slots after doubling t as long as index i would be the last of them or past
\* the end.
Doubled(i) == LET Slots[t \in Nat] == IF i + 1 >= t THEN Slots[2 * t] ELSE t IN Slots

\* Past the buffer the vector becomes as long as it takes, what lies between is never
\* written, and a realloc that fails is not noticed; an index between the length and
\* the end of the buffer is refused by cvector_insert, and 0 returned all the same.
cvector_insert_at(v, i, x, ok, moved) ==
  IF i >= v.tot
    THEN LET t == Doubled(i)[v.tot]
             w == IF ok THEN Resize(v, t) ELSE Vec(NoBuffer, v.len, t)
         IN  Written(w, [j \in {i} |-> x], i + 1)
    ELSE [cvector_insert(v, i, x, ok, moved) EXCEPT !.ret = "CVESUCCESS"]

cvector_at(v, i) == v.data[i]

Contents(v) == [i \in 1 .. v.len |-> v.data[i - 1]]
=============================================================================
