------------------------------ MODULE Library ------------------------------
(***************************************************************************)
(* The library a state machine is written with: the machine over its       *)
(* vectors (StateMachine), and a vector in an application's own hands,     *)
(* which uses all of cvector.c.  The two share nothing but the code, so    *)
(* that a behaviour is about one of them, what.                            *)
(***************************************************************************)
EXTENDS StateMachine, SequencesExt

CONSTANTS
  Elements,  \* what the application puts into its vector
  MaxLen     \* bound on its length

\* What the loop of cvector_insert_at comes to, for every index a vector of up to 512
\* elements can be given: the first number of slots above i + 1, so not above twice
\* that.
ASSUME DoublingAssumption ==
  \A i \in 0 .. 511 : \A t \in 1 .. i : Doubled(i)[t] \in i + 2 .. 2 * (i + 1)
ASSUME MaxLenAssumption == MaxLen \in 0 .. 512

VARIABLES
  what,      \* "machine" or "vector"
  cv,        \* the application's vector
  wild,      \* the last call wrote outside its buffer
  list       \* history: the elements it should hold, Junk where nobody has said

vector == <<cv, wild, list>>
allvars == <<what, vars, vector>>

LibraryInit ==
  /\ Init
  /\ what \in {"machine", "vector"}
  /\ cv = cvector_create /\ wild = FALSE /\ list = << >>

\* A call that leaves r, and should leave the elements expected.
Left(r, expected) ==
  /\ cv' = r.v /\ wild' = r.wild /\ list' = expected
  /\ r.v.len <= MaxLen
  /\ UNCHANGED <<what, vars>>

pushback(x) == \E ok \in BOOLEAN :
  LET r == cvector_pushback(cv, x, ok)
  IN  Left(r, IF r.ret = "CVESUCCESS" THEN Append(list, x) ELSE list)

\* The element is gone whatever the call returns.
popback == \E ok \in BOOLEAN :
  Left(cvector_popback(cv, ok), IF cv.len = 0 THEN list ELSE Front(list))

\* cvector_rm_at gives cvector_rm the slot of the index.
rm_at(i) == \E ok \in BOOLEAN :
  Left(cvector_rm(cv, i, ok), IF i >= cv.len THEN list ELSE RemoveAt(list, i + 1))

insert_at(i, x) == \E ok, moved \in BOOLEAN :
  LET r == cvector_insert_at(cv, i, x, ok, moved)
  IN  Left(r, IF r.v.len = cv.len THEN list
              ELSE IF i < cv.len THEN InsertAt(list, i + 1, x)
              ELSE list \o [k \in 1 .. i - cv.len |-> Junk] \o <<x>>)

\* What happens after a write outside the buffer is not the library's any more.
Vector ==
  /\ what = "vector" /\ ~wild
  /\ \/ popback
     \/ \E x \in Elements : pushback(x)
     \/ \E i \in 0 .. MaxLen - 1 : rm_at(i)
     \/ \E i \in 0 .. MaxLen - 1, x \in Elements : insert_at(i, x)

Machine == what = "machine" /\ Next /\ UNCHANGED <<what, vector>>

LibraryNext == Vector \/ Machine

LibrarySpec == LibraryInit /\ [][LibraryNext]_allvars

-----------------------------------------------------------------------------
\* The vector holds what it should, in order, through any mixture of calls and
\* failures of realloc, while its buffer grows and shrinks: a refused call changes
\* nothing, and a removal removes even where it returns an error
\* (cvector_pushback, cvector_popback, cvector_insert_at, cvector_rm_at).
ListMatches ==
  ~wild =>
    /\ cv.len = Len(list) /\ cv.len <= cv.tot /\ cv.tot >= MinLen
    /\ \A k \in 1 .. Len(list) : list[k] # Junk => Contents(cv)[k] = list[k]

\* Every slot an append or a removal writes is in the buffer, at every length and
\* size of it.  Only an insertion may write outside: one that leaves the vector
\* full, as cvector_insert moves one slot more than there are elements, or one that
\* has grown the buffer, with an iterator into the old one or with none at all.
StaysInside ==
  [][(wild' /\ ~wild) =>
       /\ \E i \in 0 .. MaxLen - 1, x \in Elements : insert_at(i, x)
       /\ cv'.len = cv'.tot \/ cv'.tot > cv.tot]_allvars

=============================================================================
