---------------------------- MODULE LibraryProofs ----------------------------
(***************************************************************************)
(* The growable vector and the state machine over it, for every MIN_LEN,   *)
(* any elements and any states.  The vector holds what was put into it     *)
(* through any calls and failures of realloc, and appends and removals     *)
(* write no slot outside its buffer; every entry has its exit, and no      *)
(* state has more exits than entries.                                      *)
(***************************************************************************)
EXTENDS Library, SequenceTheorems, TLAPS

-----------------------------------------------------------------------------
(* Vectors *)

\* A vector with its buffer, at least MIN_LEN slots, no more elements than slots.
IsVec(v) ==
  /\ v.len \in Nat /\ v.tot \in Nat /\ v.len <= v.tot /\ v.tot >= MinLen
  /\ DOMAIN v.data = 0 .. v.tot - 1

\* w has the first n elements of v.
Keeps(v, w, n) == \A i \in 0 .. n - 1 : w.data[i] = v.data[i]

\* realloc keeps the elements.
LEMMA ResizeKeeps ==
  ASSUME NEW v, IsVec(v), NEW t \in Nat, t >= v.len, t >= MinLen
  PROVE  /\ IsVec(Resize(v, t)) /\ Keeps(v, Resize(v, t), v.len)
         /\ Resize(v, t).len = v.len /\ Resize(v, t).tot = t
BY CVectorAssumption DEF IsVec, Keeps, Resize, Vec

\* cvector_create makes an empty vector.
LEMMA CreateVec == IsVec(cvector_create) /\ cvector_create.len = 0
BY CVectorAssumption DEF IsVec, cvector_create, Vec

\* r is v with the elements w written, by their slots: wild exactly if one of the slots
\* is not in the buffer.
IsWritten(r, v, w, len) ==
  /\ r.v.len = len /\ r.v.tot = v.tot /\ DOMAIN r.v.data = DOMAIN v.data
  /\ \A j \in DOMAIN v.data : r.v.data[j] = IF j \in DOMAIN w THEN w[j] ELSE v.data[j]
  /\ r.wild <=> \E j \in DOMAIN w : j \notin DOMAIN v.data
  /\ r.ret = "CVESUCCESS"

\* What a call that writes leaves.
LEMMA WrittenSpec ==
  ASSUME NEW v, NEW w, NEW len
  PROVE  IsWritten(Written(v, w, len), v, w, len)
BY DEF IsWritten, Written, Vec

IsResult(r) == r = [v |-> r.v, ret |-> r.ret, wild |-> r.wild]

\* A call that writes gives a result.
LEMMA WrittenIsResult ==
  ASSUME NEW v, NEW w, NEW len PROVE IsResult(Written(v, w, len))
BY DEF IsResult, Written

\* Also the one that is refused.
LEMMA RefusedIsResult ==
  ASSUME NEW v, NEW code PROVE IsResult(Refused(v, code))
BY DEF IsResult, Refused

\* Doubling makes room for an element and keeps the others.
LEMMA GrownSpec ==
  ASSUME NEW v, IsVec(v)
  PROVE  LET g == Grown(v)
         IN  /\ IsVec(g) /\ Keeps(v, g, v.len) /\ g.len = v.len /\ g.len < g.tot
             /\ v.len >= v.tot => g.tot > v.tot
<1>1. /\ v.len \in Nat /\ v.tot \in Nat /\ v.len <= v.tot /\ v.tot >= MinLen
      /\ MinLen \in Nat /\ MinLen >= 2
  BY CVectorAssumption DEF IsVec
<1>2. CASE v.len >= v.tot
  <2>1. /\ 2 * v.tot \in Nat /\ 2 * v.tot >= v.len /\ 2 * v.tot >= MinLen
        /\ v.len < 2 * v.tot /\ 2 * v.tot > v.tot
    BY <1>1, <1>2
  <2> QED
    BY <1>2, <2>1, ResizeKeeps DEF Grown
<1>3. CASE v.len < v.tot
  BY <1>1, <1>3 DEF Keeps, Grown
<1> QED
  BY <1>1, <1>2, <1>3

\* cvector_pushback appends in the buffer, or leaves everything as it was.
LEMMA PushbackSpec ==
  ASSUME NEW v, IsVec(v), NEW x, NEW ok \in BOOLEAN
  PROVE  LET r == cvector_pushback(v, x, ok)
         IN  /\ ~r.wild /\ IsVec(r.v)
             /\ r.ret # "CVESUCCESS" => r.v = v
             /\ r.ret = "CVESUCCESS" => /\ r.v.len = v.len + 1 /\ r.v.data[v.len] = x
                                        /\ Keeps(v, r.v, v.len)
<1> DEFINE g == Grown(v)
           w == [j \in {g.len} |-> x]
           u == Written(g, w, g.len + 1)
<1>1. /\ IsVec(g) /\ Keeps(v, g, v.len) /\ g.len = v.len /\ g.len < g.tot
      /\ g.len \in Nat /\ g.tot \in Nat /\ DOMAIN g.data = 0 .. g.tot - 1 /\ g.tot >= MinLen
  BY GrownSpec DEF IsVec
<1>2. cvector_pushback(v, x, ok) = IF v.len >= v.tot /\ ~ok THEN Refused(v, "CVEPUSHBACK") ELSE u
  BY DEF cvector_pushback
<1> HIDE DEF g
<1>3. DOMAIN w = {g.len} /\ w[g.len] = x
  OBVIOUS
<1> HIDE DEF w
<1>4. IsWritten(u, g, w, g.len + 1)
  BY WrittenSpec
<1> HIDE DEF u
<1>5. ~u.wild /\ u.ret = "CVESUCCESS"
  BY <1>1, <1>3, <1>4 DEF IsWritten
<1>6. IsVec(u.v) /\ u.v.len = v.len + 1
  BY <1>1, <1>4 DEF IsVec, IsWritten
<1>7. u.v.data[v.len] = x
  BY <1>1, <1>3, <1>4 DEF IsWritten
<1>8. Keeps(v, u.v, v.len)
  <2>1. SUFFICES ASSUME NEW i \in 0 .. v.len - 1 PROVE u.v.data[i] = v.data[i]
    BY DEF Keeps
  <2>2. g.data[i] = v.data[i]
    BY <1>1 DEF Keeps
  <2>3. i \in DOMAIN g.data /\ i \notin DOMAIN w
    BY <1>1, <1>3
  <2>4. u.v.data[i] = g.data[i]
    BY <1>4, <2>3 DEF IsWritten
  <2> QED
    BY <2>2, <2>4
<1>9. CASE v.len >= v.tot /\ ~ok
  BY <1>2, <1>9 DEF Refused
<1>10. CASE ~(v.len >= v.tot /\ ~ok)
  BY <1>2, <1>5, <1>6, <1>7, <1>8, <1>10
<1> QED
  BY <1>9, <1>10

\* The end of a removal keeps what is left, whatever realloc does.
LEMMA ShrinkSpec ==
  ASSUME NEW q, IsResult(q), IsVec(q.v), NEW ok \in BOOLEAN, NEW failure
  PROVE  LET r == Shrink(q, ok, failure)
         IN  r.wild = q.wild /\ IsVec(r.v) /\ r.v.len = q.v.len /\ Keeps(q.v, r.v, q.v.len)
<1> DEFINE v == q.v
<1>1. /\ v.len \in Nat /\ v.tot \in Nat /\ v.len <= v.tot /\ v.tot >= MinLen
      /\ MinLen \in Nat /\ MinLen >= 2
  BY CVectorAssumption DEF IsVec
<1>2. Keeps(v, v, v.len)
  BY DEF Keeps
<1>3. CASE v.tot >= 4 * MinLen /\ v.len <= v.tot \div 4 /\ ok
  <2> DEFINE t == v.tot \div 2
  <2>1. t \in Nat /\ t >= v.len /\ t >= MinLen
    BY <1>1, <1>3
  <2>2. Shrink(q, ok, failure) = [q EXCEPT !.v = Resize(v, t)]
    BY <1>3 DEF Shrink
  <2>3. Shrink(q, ok, failure).v = Resize(v, t) /\ Shrink(q, ok, failure).wild = q.wild
    BY <2>2 DEF IsResult
  <2> HIDE DEF t
  <2> QED
    BY <2>1, <2>3, ResizeKeeps
<1>4. CASE ~(v.tot >= 4 * MinLen /\ v.len <= v.tot \div 4 /\ ok)
  <2>1. Shrink(q, ok, failure).v = v /\ Shrink(q, ok, failure).wild = q.wild
    BY <1>4 DEF Shrink, IsResult
  <2> QED
    BY <1>2, <2>1
<1> QED
  BY <1>3, <1>4

\* cvector_popback writes nothing and drops the last element, also where it returns
\* an error.
LEMMA PopbackSpec ==
  ASSUME NEW v, IsVec(v), NEW ok \in BOOLEAN, v.len > 0
  PROVE  LET r == cvector_popback(v, ok)
         IN  ~r.wild /\ IsVec(r.v) /\ r.v.len = v.len - 1 /\ Keeps(v, r.v, v.len - 1)
<1> DEFINE u == Written(v, NoBuffer, v.len - 1)
<1>1. DOMAIN NoBuffer = {}
  BY DEF NoBuffer
<1>2. IsWritten(u, v, NoBuffer, v.len - 1)
  BY WrittenSpec
<1>3. cvector_popback(v, ok) = Shrink(u, ok, "CVEPOPBACK")
  BY DEF IsVec, cvector_popback
<1>4. IsResult(u)
  BY WrittenIsResult
<1> HIDE DEF u
<1>5. /\ IsVec(u.v) /\ Keeps(v, u.v, v.len - 1) /\ ~u.wild
      /\ u.v.len = v.len - 1 /\ v.len - 1 \in Nat
  BY <1>1, <1>2 DEF IsVec, Keeps, IsWritten
<1> DEFINE r == cvector_popback(v, ok)
<1>6. /\ r.wild = u.wild /\ IsVec(r.v) /\ r.v.len = v.len - 1 /\ Keeps(u.v, r.v, v.len - 1)
  BY <1>3, <1>4, <1>5, ShrinkSpec
<1> HIDE DEF r
<1>7. ~r.wild /\ Keeps(v, r.v, v.len - 1)
  BY <1>5, <1>6 DEF Keeps
<1> QED
  BY <1>6, <1>7 DEF r

\* cvector_rm moves the elements behind i down by one, in the buffer.
LEMMA RmSpec ==
  ASSUME NEW v, IsVec(v), NEW i \in Nat, NEW ok \in BOOLEAN, i < v.len
  PROVE  LET r == cvector_rm(v, i, ok)
         IN  /\ ~r.wild /\ IsVec(r.v) /\ r.v.len = v.len - 1 /\ Keeps(v, r.v, i)
             /\ \A j \in i .. v.len - 2 : r.v.data[j] = v.data[j + 1]
<1> DEFINE w == [j \in i .. v.len - 1 |-> Slot(v, j + 1)]
           u == Written(v, w, v.len - 1)
<1>1. /\ v.len \in Nat /\ v.tot \in Nat /\ v.len <= v.tot /\ v.tot >= MinLen
      /\ DOMAIN v.data = 0 .. v.tot - 1
  BY DEF IsVec
<1>2. cvector_rm(v, i, ok) = Shrink(u, ok, "CVERM")
  BY <1>1 DEF cvector_rm
<1>3. DOMAIN w = i .. v.len - 1 /\ \A j \in i .. v.len - 2 : w[j] = v.data[j + 1]
  BY <1>1 DEF Slot
<1> HIDE DEF w
<1>4. IsWritten(u, v, w, v.len - 1)
  BY WrittenSpec
<1>5. IsResult(u)
  BY WrittenIsResult
<1> HIDE DEF u
<1>6. IsVec(u.v) /\ ~u.wild /\ u.v.len = v.len - 1
  BY <1>1, <1>3, <1>4 DEF IsVec, IsWritten
<1>7. /\ \A j \in 0 .. i - 1 : u.v.data[j] = v.data[j]
      /\ \A j \in i .. v.len - 2 : u.v.data[j] = v.data[j + 1]
  <2>1. ASSUME NEW j \in 0 .. i - 1 PROVE u.v.data[j] = v.data[j]
    <3>1. j \in DOMAIN v.data /\ j \notin DOMAIN w
      BY <1>1, <1>3
    <3> QED
      BY <1>4, <3>1 DEF IsWritten
  <2>2. ASSUME NEW j \in i .. v.len - 2 PROVE u.v.data[j] = v.data[j + 1]
    <3>1. j \in DOMAIN v.data /\ j \in DOMAIN w
      BY <1>1, <1>3
    <3> QED
      BY <1>3, <1>4, <3>1 DEF IsWritten
  <2> QED
    BY <2>1, <2>2
<1> DEFINE r == cvector_rm(v, i, ok)
<1>8. r.wild = u.wild /\ IsVec(r.v) /\ r.v.len = v.len - 1 /\ Keeps(u.v, r.v, v.len - 1)
  BY <1>2, <1>5, <1>6, ShrinkSpec
<1> HIDE DEF r
<1>9. ASSUME NEW j \in 0 .. v.len - 2 PROVE r.v.data[j] = u.v.data[j]
  <2>1. j \in 0 .. (v.len - 1) - 1
    BY <1>1
  <2> QED
    BY <1>8, <2>1 DEF Keeps
<1>10. \A j \in 0 .. i - 1 : r.v.data[j] = v.data[j]
  BY <1>1, <1>7, <1>9
<1>11. \A j \in i .. v.len - 2 : r.v.data[j] = v.data[j + 1]
  BY <1>1, <1>7, <1>9
<1> QED
  BY <1>6, <1>8, <1>10, <1>11 DEF r, Keeps

\* An insertion that writes inside the buffer moves the elements from i on up by one;
\* one that does not leaves the vector full or has grown it.
LEMMA InsertSpec ==
  ASSUME NEW v, IsVec(v), NEW i \in Nat, NEW x, NEW ok \in BOOLEAN, NEW moved \in BOOLEAN
  PROVE  LET r == cvector_insert(v, i, x, ok, moved)
         IN  /\ IsResult(r)
             /\ \/ ~r.wild /\ r.v = v
                \/ /\ i < v.len /\ r.v.len = v.len + 1
                   /\ r.wild => r.v.len = r.v.tot \/ r.v.tot > v.tot
                   /\ ~r.wild => /\ IsVec(r.v) /\ Keeps(v, r.v, i) /\ r.v.data[i] = x
                                 /\ \A j \in i + 1 .. v.len : r.v.data[j] = v.data[j - 1]
<1> DEFINE g == Grown(v)
           stale == v.len >= v.tot /\ moved
           w == IF stale THEN [j \in {Outside} |-> x] ELSE Shifted(g, i, x)
           r == cvector_insert(v, i, x, ok, moved)
<1>1. v.len \in Nat /\ v.tot \in Nat /\ v.len <= v.tot
  BY DEF IsVec
<1>2. CASE i >= v.len \/ (v.len >= v.tot /\ ~ok)
  <2>1. ~r.wild /\ r.v = v /\ IsResult(r)
    BY <1>2, RefusedIsResult DEF cvector_insert, Refused
  <2> QED
    BY <2>1
<1>3. CASE ~(i >= v.len \/ (v.len >= v.tot /\ ~ok))
  <2>1. r = Written(g, w, g.len + 1)
    BY <1>3 DEF cvector_insert
  <2>2. /\ Keeps(v, g, v.len) /\ g.len = v.len /\ g.len < g.tot /\ g.tot >= MinLen
        /\ g.len \in Nat /\ g.tot \in Nat /\ DOMAIN g.data = 0 .. g.tot - 1
        /\ v.len >= v.tot => g.tot > v.tot
    BY GrownSpec DEF IsVec
  <2> HIDE DEF g
  <2>3. i < v.len
    BY <1>1, <1>3
  <2>4. stale => DOMAIN w = {Outside} /\ Outside \notin 0 .. g.tot - 1
    BY DEF Outside
  <2>5. ~stale => /\ DOMAIN w = i .. v.len + 1 /\ w[i] = x
                  /\ \A j \in i + 1 .. v.len : w[j] = v.data[j - 1]
    <3> SUFFICES ASSUME ~stale
                 PROVE  /\ DOMAIN w = i .. v.len + 1 /\ w[i] = x
                        /\ \A j \in i + 1 .. v.len : w[j] = v.data[j - 1]
      OBVIOUS
    <3>1. w = [j \in i .. v.len + 1 |-> IF j = i THEN x ELSE Slot(g, j - 1)]
      BY <2>2 DEF Shifted
    <3> HIDE DEF w
    <3>2. ASSUME NEW j \in i + 1 .. v.len PROVE w[j] = v.data[j - 1]
      <4>1. j \in i .. v.len + 1 /\ j # i /\ j - 1 \in DOMAIN g.data /\ j - 1 \in 0 .. v.len - 1
        BY <1>1, <2>2, <2>3
      <4> QED
        BY <2>2, <3>1, <4>1 DEF Slot, Keeps
    <3>3. DOMAIN w = i .. v.len + 1 /\ i \in i .. v.len + 1
      BY <1>1, <2>3, <3>1
    <3>4. w[i] = x
      BY <3>1, <3>3
    <3> QED
      BY <3>2, <3>3, <3>4
  <2> HIDE DEF w, stale
  <2>6. IsWritten(r, g, w, g.len + 1)
    BY <2>1, WrittenSpec
  <2>7. IsResult(r)
    BY <2>1, WrittenIsResult
  <2> HIDE DEF r
  <2>8. stale => r.wild /\ r.v.tot > v.tot
    BY <2>2, <2>4, <2>6 DEF stale, IsWritten
  <2>9. ~stale => (r.wild <=> v.len + 1 >= g.tot)
    BY <1>1, <2>2, <2>3, <2>5, <2>6 DEF IsWritten
  <2>10. r.wild => r.v.len = r.v.tot \/ r.v.tot > v.tot
    BY <1>1, <2>2, <2>6, <2>8, <2>9 DEF IsWritten
  <2>11. ASSUME ~r.wild
         PROVE  /\ IsVec(r.v) /\ Keeps(v, r.v, i) /\ r.v.data[i] = x
                /\ \A j \in i + 1 .. v.len : r.v.data[j] = v.data[j - 1]
    <3>1. ~stale /\ v.len + 1 < g.tot
      BY <1>1, <2>2, <2>8, <2>9, <2>11
    <3>2. IsVec(r.v)
      BY <2>2, <2>6, <3>1 DEF IsVec, IsWritten
    <3>3. Keeps(v, r.v, i)
      <4> SUFFICES ASSUME NEW j \in 0 .. i - 1 PROVE r.v.data[j] = v.data[j]
        BY DEF Keeps
      <4>1. j \in DOMAIN g.data /\ j \notin DOMAIN w /\ j \in 0 .. v.len - 1
        BY <1>1, <2>2, <2>3, <2>5, <3>1
      <4> QED
        BY <2>2, <2>6, <4>1 DEF Keeps, IsWritten
    <3>4. \A j \in i .. v.len + 1 : j \in DOMAIN g.data /\ r.v.data[j] = w[j]
      BY <1>1, <2>2, <2>3, <2>5, <2>6, <3>1 DEF IsWritten
    <3>5. /\ r.v.data[i] = x
          /\ \A j \in i + 1 .. v.len : r.v.data[j] = v.data[j - 1]
      BY <1>1, <2>3, <2>5, <3>1, <3>4
    <3> QED
      BY <3>2, <3>3, <3>5
  <2>12. r.v.len = v.len + 1
    BY <2>2, <2>6 DEF IsWritten
  <2> QED
    BY <2>3, <2>7, <2>10, <2>11, <2>12 DEF r
<1> QED
  BY <1>2, <1>3

\* Past the buffer the vector grows to the index.
LEMMA InsertPastSpec ==
  ASSUME NEW v, IsVec(v), NEW i \in Nat, i <= 511, i >= v.tot,
         NEW x, NEW ok \in BOOLEAN, NEW moved \in BOOLEAN
  PROVE  LET r == cvector_insert_at(v, i, x, ok, moved)
         IN  /\ r.v.len = i + 1 /\ r.v.tot > v.tot
             /\ ~r.wild => IsVec(r.v) /\ Keeps(v, r.v, v.len) /\ r.v.data[i] = x
<1> DEFINE t == Doubled(i)[v.tot]
           g == IF ok THEN Resize(v, t) ELSE Vec(NoBuffer, v.len, t)
           w == [j \in {i} |-> x]
           r == cvector_insert_at(v, i, x, ok, moved)
<1>1. /\ v.len \in Nat /\ v.tot \in Nat /\ v.len <= v.tot /\ v.tot >= MinLen
      /\ MinLen \in Nat /\ MinLen >= 2 /\ DOMAIN v.data = 0 .. v.tot - 1
  BY CVectorAssumption DEF IsVec
<1>2. t \in Nat /\ t > i + 1
  <2>1. v.tot \in 1 .. i /\ i \in 0 .. 511
    BY <1>1
  <2>2. t \in i + 2 .. 2 * (i + 1)
    BY <2>1, DoublingAssumption
  <2> HIDE DEF t
  <2> QED
    BY <2>2
<1>3. r = Written(g, w, i + 1)
  BY DEF cvector_insert_at
<1> HIDE DEF t
<1>4. DOMAIN w = {i} /\ w[i] = x
  OBVIOUS
<1> HIDE DEF w
<1>5. g.tot = t /\ (~ok => DOMAIN g.data = {})
  BY DEF Resize, Vec, NoBuffer
<1>6. ok => /\ DOMAIN g.data = 0 .. t - 1
            /\ \A j \in 0 .. v.len - 1 : g.data[j] = v.data[j]
  BY <1>1, <1>2 DEF Resize, Vec
<1> HIDE DEF g
<1>7. IsWritten(r, g, w, i + 1)
  BY <1>3, WrittenSpec
<1> HIDE DEF r
<1>8. r.v.len = i + 1 /\ r.v.tot > v.tot
  BY <1>1, <1>2, <1>5, <1>7 DEF IsWritten
<1>9. ~r.wild => ok
  BY <1>4, <1>5, <1>7 DEF IsWritten
<1>10. ok => IsVec(r.v) /\ Keeps(v, r.v, v.len) /\ r.v.data[i] = x
  BY <1>1, <1>2, <1>4, <1>5, <1>6, <1>7 DEF IsVec, Keeps, IsWritten
<1> QED
  BY <1>8, <1>9, <1>10 DEF r

-----------------------------------------------------------------------------
(* The list of the elements a vector should hold *)

Items == Elements \cup {Junk}

\* v holds the elements of s, wherever one was ever written.
Holds(v, s) ==
  /\ s \in Seq(Items) /\ v.len = Len(s)
  /\ \A k \in 1 .. Len(s) : s[k] # Junk => v.data[k - 1] = s[k]

\* The elements of a concatenation.
LEMMA ConcatSpec ==
  ASSUME NEW a \in Seq(Items), NEW b \in Seq(Items)
  PROVE  /\ a \o b \in Seq(Items) /\ Len(a \o b) = Len(a) + Len(b)
         /\ \A k \in 1 .. Len(a) : (a \o b)[k] = a[k]
         /\ \A k \in Len(a) + 1 .. Len(a) + Len(b) : (a \o b)[k] = b[k - Len(a)]
<1>1. Len(a) \in Nat /\ Len(b) \in Nat
  OBVIOUS
<1>2. /\ a \o b \in Seq(Items) /\ Len(a \o b) = Len(a) + Len(b)
      /\ \A k \in 1 .. Len(a) + Len(b) : (a \o b)[k] = IF k <= Len(a) THEN a[k] ELSE b[k - Len(a)]
  BY ConcatProperties, Zenon
<1> QED
  BY <1>1, <1>2

\* The elements before the i-th.
LEMMA PrefixSpec ==
  ASSUME NEW s \in Seq(Items), NEW i \in 1 .. Len(s)
  PROVE  /\ SubSeq(s, 1, i - 1) \in Seq(Items) /\ Len(SubSeq(s, 1, i - 1)) = i - 1
         /\ \A k \in 1 .. i - 1 : SubSeq(s, 1, i - 1)[k] = s[k]
<1>1. Len(s) \in Nat
  OBVIOUS
<1> QED
  BY <1>1

\* All elements but the last.
LEMMA FrontSpec ==
  ASSUME NEW s \in Seq(Items), Len(s) > 0
  PROVE  /\ Front(s) \in Seq(Items) /\ Len(Front(s)) = Len(s) - 1
         /\ \A k \in 1 .. Len(s) - 1 : Front(s)[k] = s[k]
<1>1. Len(s) \in 1 .. Len(s)
  OBVIOUS
<1> QED
  BY <1>1, PrefixSpec, Zenon DEF Front

\* The element at i is taken out.
LEMMA RemoveAtSpec ==
  ASSUME NEW s \in Seq(Items), NEW i \in 1 .. Len(s)
  PROVE  /\ RemoveAt(s, i) \in Seq(Items) /\ Len(RemoveAt(s, i)) = Len(s) - 1
         /\ \A k \in 1 .. i - 1 : RemoveAt(s, i)[k] = s[k]
         /\ \A k \in i .. Len(s) - 1 : RemoveAt(s, i)[k] = s[k + 1]
<1> DEFINE a == SubSeq(s, 1, i - 1)
           b == SubSeq(s, i + 1, Len(s))
           c == a \o b
<1>1. Len(s) \in Nat
  OBVIOUS
<1>2. a \in Seq(Items) /\ Len(a) = i - 1 /\ \A k \in 1 .. i - 1 : a[k] = s[k]
  BY PrefixSpec, Zenon
<1>3. b \in Seq(Items) /\ Len(b) = Len(s) - i /\ \A k \in 1 .. Len(s) - i : b[k] = s[k + i]
  BY <1>1
<1> HIDE DEF a, b
<1>4. /\ c \in Seq(Items) /\ Len(c) = Len(a) + Len(b)
      /\ \A k \in 1 .. Len(a) : c[k] = a[k]
      /\ \A k \in Len(a) + 1 .. Len(a) + Len(b) : c[k] = b[k - Len(a)]
  BY <1>2, <1>3, ConcatSpec, Zenon
<1> HIDE DEF c
<1>5. Len(c) = Len(s) - 1 /\ \A k \in 1 .. i - 1 : c[k] = s[k]
  BY <1>1, <1>2, <1>3, <1>4
<1>6. ASSUME NEW k \in i .. Len(s) - 1 PROVE c[k] = s[k + 1]
  <2>1. k - (i - 1) \in 1 .. Len(s) - i /\ (k - (i - 1)) + i = k + 1
    BY <1>1
  <2>2. k \in Len(a) + 1 .. Len(a) + Len(b)
    BY <1>1, <1>2, <1>3
  <2>3. c[k] = b[k - (i - 1)]
    BY <1>2, <1>4, <2>2
  <2> QED
    BY <1>3, <2>1, <2>3
<1>7. RemoveAt(s, i) = c
  BY Zenon DEF RemoveAt, a, b, c
<1> QED
  BY <1>4, <1>5, <1>6, <1>7, Zenon

\* x is put in at i, and what was there moves up.
LEMMA InsertAtSpec ==
  ASSUME NEW s \in Seq(Items), NEW i \in 1 .. Len(s), NEW x \in Items
  PROVE  /\ InsertAt(s, i, x) \in Seq(Items) /\ Len(InsertAt(s, i, x)) = Len(s) + 1
         /\ InsertAt(s, i, x)[i] = x
         /\ \A k \in 1 .. i - 1 : InsertAt(s, i, x)[k] = s[k]
         /\ \A k \in i + 1 .. Len(s) + 1 : InsertAt(s, i, x)[k] = s[k - 1]
<1> DEFINE a == SubSeq(s, 1, i - 1)
           b == SubSeq(s, i, Len(s))
           c == a \o <<x>>
           d == c \o b
<1>1. Len(s) \in Nat
  OBVIOUS
<1>2. a \in Seq(Items) /\ Len(a) = i - 1 /\ \A k \in 1 .. i - 1 : a[k] = s[k]
  BY PrefixSpec, Zenon
<1>3. /\ b \in Seq(Items) /\ Len(b) = Len(s) - i + 1
      /\ \A k \in 1 .. Len(s) - i + 1 : b[k] = s[k + i - 1]
  BY <1>1
<1> HIDE DEF a, b
<1>4. <<x>> \in Seq(Items)
  OBVIOUS
<1>5. c \in Seq(Items) /\ Len(c) = i /\ c[i] = x /\ \A k \in 1 .. i - 1 : c[k] = s[k]
  BY <1>1, <1>2, <1>4
<1> HIDE DEF c
<1>6. /\ d \in Seq(Items) /\ Len(d) = Len(c) + Len(b)
      /\ \A k \in 1 .. Len(c) : d[k] = c[k]
      /\ \A k \in Len(c) + 1 .. Len(c) + Len(b) : d[k] = b[k - Len(c)]
  BY <1>3, <1>5, ConcatSpec, Zenon
<1> HIDE DEF d
<1>7. Len(d) = Len(s) + 1 /\ d[i] = x /\ \A k \in 1 .. i - 1 : d[k] = s[k]
  BY <1>1, <1>3, <1>5, <1>6
<1>8. ASSUME NEW k \in i + 1 .. Len(s) + 1 PROVE d[k] = s[k - 1]
  <2>1. k - i \in 1 .. Len(s) - i + 1 /\ (k - i) + i - 1 = k - 1
    BY <1>1
  <2>2. d[k] = b[k - i]
    BY <1>1, <1>3, <1>5, <1>6
  <2> QED
    BY <1>3, <2>1, <2>2
<1>9. InsertAt(s, i, x) = d
  BY Zenon DEF InsertAt, a, b, c, d
<1> QED
  BY <1>6, <1>7, <1>8, <1>9, Zenon

\* n elements nobody has said anything about, and x behind them.
LEMMA PaddedSpec ==
  ASSUME NEW s \in Seq(Items), NEW n \in Nat, NEW x \in Items
  PROVE  LET t == s \o [k \in 1 .. n |-> Junk] \o <<x>>
         IN  /\ t \in Seq(Items) /\ Len(t) = Len(s) + n + 1 /\ t[Len(s) + n + 1] = x
             /\ \A k \in 1 .. Len(s) : t[k] = s[k]
             /\ \A k \in Len(s) + 1 .. Len(s) + n : t[k] = Junk
<1> DEFINE j == [k \in 1 .. n |-> Junk]
           c == s \o j
           t == c \o <<x>>
<1>1. j \in Seq(Items) /\ Len(j) = n /\ \A k \in 1 .. n : j[k] = Junk
  <2>1. Junk \in Items
    BY DEF Items
  <2> QED
    BY <2>1
<1> HIDE DEF j
<1>2. /\ c \in Seq(Items) /\ Len(c) = Len(s) + Len(j)
      /\ \A k \in 1 .. Len(s) : c[k] = s[k]
      /\ \A k \in Len(s) + 1 .. Len(s) + Len(j) : c[k] = j[k - Len(s)]
  BY <1>1, ConcatSpec, Zenon
<1> HIDE DEF c
<1>3. Len(s) \in Nat /\ <<x>> \in Seq(Items) /\ Len(<<x>>) = 1 /\ <<x>>[1] = x
  OBVIOUS
<1>4. /\ t \in Seq(Items) /\ Len(t) = Len(c) + Len(<<x>>)
      /\ \A k \in 1 .. Len(c) : t[k] = c[k]
      /\ \A k \in Len(c) + 1 .. Len(c) + Len(<<x>>) : t[k] = <<x>>[k - Len(c)]
  BY <1>2, <1>3, ConcatSpec, Zenon
<1> HIDE DEF t
<1>5. /\ Len(t) = Len(s) + n + 1 /\ t[Len(s) + n + 1] = x
      /\ \A k \in 1 .. Len(s) : t[k] = s[k]
  BY <1>1, <1>2, <1>3, <1>4
<1>6. ASSUME NEW k \in Len(s) + 1 .. Len(s) + n PROVE t[k] = Junk
  <2>1. k - Len(s) \in 1 .. n
    BY <1>3
  <2>2. t[k] = j[k - Len(s)]
    BY <1>1, <1>2, <1>3, <1>4
  <2> QED
    BY <1>1, <2>1, <2>2
<1> QED
  BY <1>4, <1>5, <1>6, Zenon DEF t, c, j

-----------------------------------------------------------------------------
(* The vector of the application *)

VectorInv == ~wild => IsVec(cv) /\ Holds(cv, list)

\* A new vector holds nothing.
LEMMA VectorInit == LibraryInit => VectorInv
BY CreateVec DEF LibraryInit, VectorInv, Holds, Items

\* Appending keeps the vector and its list the same.
LEMMA PushbackKeeps ==
  ASSUME VectorInv, ~wild, NEW x \in Elements, pushback(x)
  PROVE  VectorInv' /\ ~wild'
<1> PICK ok \in BOOLEAN :
      LET r == cvector_pushback(cv, x, ok)
      IN  Left(r, IF r.ret = "CVESUCCESS" THEN Append(list, x) ELSE list)
  BY DEF pushback
<1> DEFINE r == cvector_pushback(cv, x, ok)
<1>1. IsVec(cv) /\ Holds(cv, list)
  BY DEF VectorInv
<1>2. /\ ~r.wild /\ IsVec(r.v)
      /\ r.ret # "CVESUCCESS" => r.v = cv
      /\ r.ret = "CVESUCCESS" => /\ r.v.len = cv.len + 1 /\ r.v.data[cv.len] = x
                                 /\ Keeps(cv, r.v, cv.len)
  BY <1>1, PushbackSpec
<1>3. cv' = r.v /\ wild' = r.wild /\ list' = IF r.ret = "CVESUCCESS" THEN Append(list, x) ELSE list
  BY DEF Left
<1> HIDE DEF r
<1>4. CASE r.ret # "CVESUCCESS"
  <2>1. cv' = cv /\ list' = list /\ ~wild'
    BY <1>2, <1>3, <1>4
  <2> QED
    BY <1>1, <2>1 DEF VectorInv, IsVec, Holds
<1>5. CASE r.ret = "CVESUCCESS"
  <2>1. x \in Items
    BY DEF Items
  <2>2. /\ list \in Seq(Items) /\ cv.len = Len(list) /\ Len(list) \in Nat
        /\ \A k \in 1 .. Len(list) : list[k] # Junk => cv.data[k - 1] = list[k]
    BY <1>1 DEF Holds
  <2>3. /\ list' \in Seq(Items) /\ Len(list') = Len(list) + 1
        /\ \A k \in 1 .. Len(list) : list'[k] = list[k]
        /\ list'[Len(list) + 1] = x
    BY <1>3, <1>5, <2>1, <2>2
  <2>4. /\ IsVec(cv') /\ cv'.len = cv.len + 1 /\ cv'.data[cv.len] = x
        /\ \A k \in 0 .. cv.len - 1 : cv'.data[k] = cv.data[k]
    BY <1>2, <1>3, <1>5 DEF Keeps
  <2>5. ASSUME NEW k \in 1 .. Len(list'), list'[k] # Junk
        PROVE  cv'.data[k - 1] = list'[k]
    <3>1. CASE k = Len(list) + 1
      BY <2>2, <2>3, <2>4, <3>1
    <3>2. CASE k \in 1 .. Len(list)
      <4>1. k - 1 \in 0 .. cv.len - 1
        BY <2>2, <3>2
      <4> QED
        BY <2>2, <2>3, <2>4, <2>5, <3>2, <4>1
    <3> QED
      BY <2>2, <2>3, <3>1, <3>2
  <2>6. Holds(cv', list')
    BY <2>2, <2>3, <2>4, <2>5 DEF Holds
  <2> QED
    BY <1>2, <1>3, <2>4, <2>6 DEF VectorInv, IsVec, Holds
<1> QED
  BY <1>4, <1>5

\* So does dropping the last element.
LEMMA PopbackKeeps ==
  ASSUME VectorInv, ~wild, popback
  PROVE  VectorInv' /\ ~wild'
<1> PICK ok \in BOOLEAN :
      Left(cvector_popback(cv, ok), IF cv.len = 0 THEN list ELSE Front(list))
  BY DEF popback
<1> DEFINE r == cvector_popback(cv, ok)
<1>1. IsVec(cv) /\ Holds(cv, list)
  BY DEF VectorInv
<1>2. cv' = r.v /\ wild' = r.wild /\ list' = IF cv.len = 0 THEN list ELSE Front(list)
  BY DEF Left
<1>3. CASE cv.len = 0
  <2>1. r.v = cv /\ ~r.wild
    BY <1>3 DEF cvector_popback, Refused
  <2>2. cv' = cv /\ list' = list /\ ~wild'
    BY <1>2, <1>3, <2>1
  <2> QED
    BY <1>1, <2>2 DEF VectorInv, IsVec, Holds
<1>4. CASE cv.len # 0
  <2>1. /\ list \in Seq(Items) /\ cv.len = Len(list) /\ Len(list) \in Nat /\ cv.len > 0
        /\ \A k \in 1 .. Len(list) : list[k] # Junk => cv.data[k - 1] = list[k]
    BY <1>1, <1>4 DEF Holds
  <2>2. ~r.wild /\ IsVec(r.v) /\ r.v.len = cv.len - 1 /\ Keeps(cv, r.v, cv.len - 1)
    BY <1>1, <2>1, PopbackSpec
  <2> HIDE DEF r
  <2>3. /\ list' \in Seq(Items) /\ Len(list') = Len(list) - 1
        /\ \A k \in 1 .. Len(list) - 1 : list'[k] = list[k]
    BY <1>2, <1>4, <2>1, FrontSpec
  <2>4. /\ IsVec(cv') /\ cv'.len = cv.len - 1
        /\ \A k \in 0 .. cv.len - 2 : cv'.data[k] = cv.data[k]
    BY <1>2, <2>1, <2>2 DEF Keeps
  <2>5. ASSUME NEW k \in 1 .. Len(list'), list'[k] # Junk
        PROVE  cv'.data[k - 1] = list'[k]
    <3>1. k - 1 \in 0 .. cv.len - 2 /\ k \in 1 .. Len(list) - 1 /\ k \in 1 .. Len(list)
      BY <2>1, <2>3
    <3> QED
      BY <2>1, <2>3, <2>4, <2>5, <3>1
  <2>6. Holds(cv', list')
    BY <2>1, <2>3, <2>4, <2>5 DEF Holds
  <2> QED
    BY <1>2, <2>2, <2>4, <2>6 DEF VectorInv, IsVec, Holds
<1> QED
  BY <1>3, <1>4

\* So does a removal.
LEMMA RmAtKeeps ==
  ASSUME VectorInv, ~wild, NEW i \in 0 .. MaxLen - 1, rm_at(i)
  PROVE  VectorInv' /\ ~wild'
<1> PICK ok \in BOOLEAN :
      Left(cvector_rm(cv, i, ok), IF i >= cv.len THEN list ELSE RemoveAt(list, i + 1))
  BY DEF rm_at
<1> DEFINE r == cvector_rm(cv, i, ok)
<1>1. IsVec(cv) /\ Holds(cv, list)
  BY DEF VectorInv
<1>2. /\ cv' = r.v /\ wild' = r.wild
      /\ list' = IF i >= cv.len THEN list ELSE RemoveAt(list, i + 1)
  BY DEF Left
<1>3. CASE i >= cv.len
  <2>1. r.v = cv /\ ~r.wild
    BY <1>3 DEF cvector_rm, Refused
  <2>2. cv' = cv /\ list' = list /\ ~wild'
    BY <1>2, <1>3, <2>1
  <2> QED
    BY <1>1, <2>2 DEF VectorInv, IsVec, Holds
<1>4. CASE ~(i >= cv.len)
  <2>1. /\ list \in Seq(Items) /\ cv.len = Len(list) /\ Len(list) \in Nat
        /\ \A k \in 1 .. Len(list) : list[k] # Junk => cv.data[k - 1] = list[k]
    BY <1>1 DEF Holds
  <2>2. i \in Nat /\ i < cv.len /\ i + 1 \in 1 .. Len(list)
    BY <1>4, <2>1, MaxLenAssumption
  <2>3. /\ ~r.wild /\ IsVec(r.v) /\ r.v.len = cv.len - 1 /\ Keeps(cv, r.v, i)
        /\ \A j \in i .. cv.len - 2 : r.v.data[j] = cv.data[j + 1]
    BY <1>1, <2>2, RmSpec
  <2> HIDE DEF r
  <2> DEFINE m == i + 1
             s == RemoveAt(list, m)
  <2>4. m \in 1 .. Len(list) /\ m = i + 1 /\ list' = s
    BY <1>2, <1>4, <2>2
  <2> HIDE DEF m
  <2>5. /\ s \in Seq(Items) /\ Len(s) = Len(list) - 1
        /\ \A k \in 1 .. m - 1 : s[k] = list[k]
        /\ \A k \in m .. Len(list) - 1 : s[k] = list[k + 1]
    BY <2>1, <2>4, RemoveAtSpec, Zenon
  <2> HIDE DEF s
  <2>6. ASSUME NEW k \in 1 .. Len(s), s[k] # Junk
        PROVE  r.v.data[k - 1] = s[k]
    <3>1. CASE k <= i
      <4>1. k - 1 \in 0 .. i - 1 /\ k \in 1 .. m - 1 /\ k \in 1 .. Len(list)
        BY <2>1, <2>2, <2>4, <2>5, <3>1
      <4> QED
        BY <2>1, <2>3, <2>5, <2>6, <4>1 DEF Keeps
    <3>2. CASE k > i
      <4>1. /\ k - 1 \in i .. cv.len - 2 /\ k \in m .. Len(list) - 1 /\ k + 1 \in 1 .. Len(list)
            /\ (k - 1) + 1 = k /\ (k + 1) - 1 = k
        BY <2>1, <2>2, <2>4, <2>5, <3>2
      <4>2. r.v.data[k - 1] = cv.data[k] /\ s[k] = list[k + 1]
        BY <2>3, <2>5, <4>1
      <4> QED
        BY <2>1, <2>6, <4>1, <4>2
    <3> QED
      BY <2>1, <2>2, <2>5, <3>1, <3>2
  <2>7. Holds(r.v, s)
    BY <2>1, <2>3, <2>5, <2>6 DEF Holds
  <2> QED
    BY <1>2, <2>3, <2>4, <2>7 DEF VectorInv, IsVec, Holds
<1> QED
  BY <1>3, <1>4

\* The three outcomes of cvector_insert_at: nothing, an insertion, or growth.
LEMMA InsertAtKeeps ==
  ASSUME VectorInv, ~wild, NEW i \in 0 .. MaxLen - 1, NEW x \in Elements, insert_at(i, x)
  PROVE  /\ VectorInv'
         /\ wild' => cv'.len = cv'.tot \/ cv'.tot > cv.tot
<1> PICK ok \in BOOLEAN, moved \in BOOLEAN :
      LET r == cvector_insert_at(cv, i, x, ok, moved)
      IN  Left(r, IF r.v.len = cv.len THEN list
                  ELSE IF i < cv.len THEN InsertAt(list, i + 1, x)
                  ELSE list \o [k \in 1 .. i - cv.len |-> Junk] \o <<x>>)
  BY DEF insert_at
<1> DEFINE r == cvector_insert_at(cv, i, x, ok, moved)
           past == list \o [k \in 1 .. i - cv.len |-> Junk] \o <<x>>
<1>1. /\ IsVec(cv) /\ Holds(cv, list)
      /\ cv.len \in Nat /\ cv.tot \in Nat /\ cv.len <= cv.tot
  BY DEF VectorInv, IsVec
<1>2. /\ cv' = r.v /\ wild' = r.wild
      /\ list' = IF r.v.len = cv.len THEN list
                 ELSE IF i < cv.len THEN InsertAt(list, i + 1, x) ELSE past
  BY DEF Left
<1>3. /\ list \in Seq(Items) /\ cv.len = Len(list) /\ Len(list) \in Nat
      /\ \A k \in 1 .. Len(list) : list[k] # Junk => cv.data[k - 1] = list[k]
  BY <1>1 DEF Holds
<1>4. i \in Nat /\ i <= 511 /\ x \in Items
  BY MaxLenAssumption DEF Items
<1> HIDE DEF past
<1>5. CASE i >= cv.tot
  <2>1. /\ r.v.len = i + 1 /\ r.v.tot > cv.tot
        /\ ~r.wild => IsVec(r.v) /\ Keeps(cv, r.v, cv.len) /\ r.v.data[i] = x
    BY <1>1, <1>4, <1>5, InsertPastSpec
  <2> HIDE DEF r
  <2> DEFINE n == i - cv.len
  <2>2. /\ n \in Nat /\ n = i - cv.len /\ ~(i < cv.len) /\ r.v.len # cv.len
    BY <1>1, <1>4, <1>5, <2>1
  <2> DEFINE p == list \o [k \in 1 .. n |-> Junk] \o <<x>>
  <2>3. past = p
    BY Zenon DEF past
  <2> HIDE DEF n
  <2>4. /\ p \in Seq(Items) /\ Len(p) = Len(list) + n + 1 /\ p[Len(list) + n + 1] = x
        /\ \A k \in 1 .. Len(list) : p[k] = list[k]
        /\ \A k \in Len(list) + 1 .. Len(list) + n : p[k] = Junk
    BY <1>3, <1>4, <2>2, PaddedSpec, Zenon
  <2> HIDE DEF p
  <2>5. list' = p
    BY <1>2, <2>2, <2>3
  <2>6. ASSUME ~r.wild, NEW k \in 1 .. Len(p), p[k] # Junk
        PROVE  r.v.data[k - 1] = p[k]
    <3>1. CASE k <= Len(list)
      <4>1. k \in 1 .. Len(list) /\ k - 1 \in 0 .. cv.len - 1
        BY <1>3, <2>4, <3>1
      <4> QED
        BY <1>3, <2>1, <2>4, <2>6, <4>1 DEF Keeps
    <3>2. CASE k = Len(list) + n + 1
      BY <1>3, <1>4, <2>1, <2>2, <2>4, <2>6, <3>2
    <3>3. CASE k \in Len(list) + 1 .. Len(list) + n
      BY <2>4, <2>6, <3>3
    <3> QED
      BY <1>3, <2>2, <2>4, <3>1, <3>2, <3>3
  <2>7. ~r.wild => Holds(r.v, p)
    BY <1>3, <1>4, <2>1, <2>2, <2>4, <2>6 DEF Holds
  <2> QED
    BY <1>2, <2>1, <2>5, <2>7 DEF VectorInv, IsVec, Holds
<1>6. CASE ~(i >= cv.tot)
  <2> DEFINE q == cvector_insert(cv, i, x, ok, moved)
  <2>1. IsResult(q)
    BY <1>1, <1>4, InsertSpec
  <2> HIDE DEF q
  <2>2. r.v = q.v /\ r.wild = q.wild
    BY <1>6, <2>1 DEF cvector_insert_at, q, IsResult
  <2>3. \/ ~q.wild /\ q.v = cv
        \/ /\ i < cv.len /\ q.v.len = cv.len + 1
           /\ q.wild => q.v.len = q.v.tot \/ q.v.tot > cv.tot
           /\ ~q.wild => /\ IsVec(q.v) /\ Keeps(cv, q.v, i) /\ q.v.data[i] = x
                         /\ \A j \in i + 1 .. cv.len : q.v.data[j] = cv.data[j - 1]
    BY <1>1, <1>4, InsertSpec DEF q
  <2> HIDE DEF q, r
  <2>4. CASE ~q.wild /\ q.v = cv
    <3>1. cv' = cv /\ list' = list /\ ~wild'
      BY <1>2, <2>2, <2>4
    <3> QED
      BY <1>1, <3>1 DEF VectorInv, IsVec, Holds
  <2>5. CASE /\ i < cv.len /\ q.v.len = cv.len + 1
             /\ q.wild => q.v.len = q.v.tot \/ q.v.tot > cv.tot
             /\ ~q.wild => /\ IsVec(q.v) /\ Keeps(cv, q.v, i) /\ q.v.data[i] = x
                           /\ \A j \in i + 1 .. cv.len : q.v.data[j] = cv.data[j - 1]
    <3> DEFINE m == i + 1
               s == InsertAt(list, m, x)
    <3>1. m \in 1 .. Len(list) /\ m = i + 1 /\ q.v.len # cv.len
      BY <1>1, <1>3, <1>4, <2>5
    <3>2. list' = s /\ cv' = q.v /\ wild' = q.wild
      BY <1>2, <2>2, <2>5, <3>1
    <3> HIDE DEF m
    <3>3. /\ s \in Seq(Items) /\ Len(s) = Len(list) + 1 /\ s[m] = x
          /\ \A k \in 1 .. m - 1 : s[k] = list[k]
          /\ \A k \in m + 1 .. Len(list) + 1 : s[k] = list[k - 1]
      BY <1>3, <1>4, <3>1, InsertAtSpec, Zenon
    <3> HIDE DEF s
    <3>4. ASSUME ~q.wild, NEW k \in 1 .. Len(s), s[k] # Junk
          PROVE  q.v.data[k - 1] = s[k]
      <4>1. CASE k < m
        <5>1. k \in 1 .. m - 1 /\ k \in 1 .. Len(list) /\ k - 1 \in 0 .. i - 1
          BY <1>3, <1>4, <3>1, <3>3, <4>1
        <5> QED
          BY <1>3, <2>5, <3>3, <3>4, <5>1 DEF Keeps
      <4>2. CASE k = m
        <5>1. k - 1 = i
          BY <1>4, <3>1, <4>2
        <5> QED
          BY <2>5, <3>3, <3>4, <4>2, <5>1
      <4>3. CASE k > m
        <5>1. /\ k \in m + 1 .. Len(list) + 1 /\ k - 1 \in 1 .. Len(list)
              /\ k - 1 \in i + 1 .. cv.len
          BY <1>3, <1>4, <3>1, <3>3, <4>3
        <5>2. s[k] = list[k - 1] /\ q.v.data[k - 1] = cv.data[(k - 1) - 1]
          BY <2>5, <3>3, <3>4, <5>1
        <5> QED
          BY <1>3, <3>4, <5>1, <5>2
      <4> QED
        BY <1>3, <3>1, <3>3, <4>1, <4>2, <4>3
    <3>5. ~q.wild => Holds(q.v, s)
      BY <1>3, <2>5, <3>3, <3>4 DEF Holds
    <3> QED
      BY <2>5, <3>2, <3>5 DEF VectorInv, IsVec, Holds
  <2> QED
    BY <2>3, <2>4, <2>5
<1> QED
  BY <1>5, <1>6

\* One step of the library, on the vector.
LEMMA VectorStep ==
  ASSUME VectorInv, [LibraryNext]_allvars
  PROVE  /\ VectorInv'
         /\ (wild' /\ ~wild) =>
              /\ \E i \in 0 .. MaxLen - 1, x \in Elements : insert_at(i, x)
              /\ cv'.len = cv'.tot \/ cv'.tot > cv.tot
<1>1. CASE Vector
  BY <1>1, PopbackKeeps, PushbackKeeps, RmAtKeeps, InsertAtKeeps DEF Vector
<1>2. CASE UNCHANGED vector
  BY <1>2 DEF vector, VectorInv, IsVec, Holds
<1> QED
  BY <1>1, <1>2 DEF LibraryNext, Machine, allvars

\* The vector holds its list in every reachable state.
LEMMA VectorInvariant == LibrarySpec => []VectorInv
BY VectorInit, VectorStep, PTL DEF LibrarySpec

\* ListMatches: through any calls, and whatever realloc answers, the vector holds
\* what was put into it, in order (cvector.c).
THEOREM VectorHoldsItsElements == LibrarySpec => []ListMatches
<1>1. VectorInv => ListMatches
  <2> SUFFICES ASSUME IsVec(cv), Holds(cv, list)
               PROVE  ListMatches
    BY DEF VectorInv, ListMatches
  <2>1. /\ cv.len = Len(list) /\ cv.len <= cv.tot /\ cv.tot >= MinLen
        /\ \A k \in 1 .. Len(list) : list[k] # Junk => cv.data[k - 1] = list[k]
    BY DEF IsVec, Holds
  <2>2. \A k \in 1 .. Len(list) : Contents(cv)[k] = cv.data[k - 1]
    BY <2>1 DEF Contents
  <2> QED
    BY <2>1, <2>2 DEF ListMatches
<1> QED
  BY <1>1, VectorInvariant, PTL

\* StaysInside: no slot an append or a removal writes is outside the buffer; one an
\* insertion writes is, only if it leaves the vector full or has grown it
\* (cvector_pushback, cvector_rm, cvector_insert, cvector_insert_at).
THEOREM WritesInsideItsBuffer == LibrarySpec => StaysInside
<1>1. VectorInv /\ [LibraryNext]_allvars
        => [(wild' /\ ~wild) =>
              /\ \E i \in 0 .. MaxLen - 1, x \in Elements : insert_at(i, x)
              /\ cv'.len = cv'.tot \/ cv'.tot > cv.tot]_allvars
  BY VectorStep
<1> QED
  BY <1>1, VectorInvariant, PTL DEF LibrarySpec, StaysInside

-----------------------------------------------------------------------------
(* The machine *)

\* The states and transitions of the machine are its states, wherever it is started.
StatesInv ==
  /\ IsVec(states) /\ \A i \in 0 .. states.len - 1 : states.data[i] \in All
  /\ DOMAIN trans = All
  /\ \A s \in All : /\ IsVec(trans[s])
                    /\ \A i \in 0 .. trans[s].len - 1 : trans[s].data[i] \in All
  /\ started => current \in All

\* What is entered and not left: the current state at least, and before a restart
\* nothing else.
CountInv ==
  /\ entered \in [User -> Int] /\ restarts \in Nat
  /\ (restarts = 0 /\ ~started) => current = None
  /\ EntryExit

MachineInv == StatesInv /\ CountInv

\* A new machine has no states, no transitions and no current state.
LEMMA MachineInit == Init => MachineInv
<1> SUFFICES ASSUME Init PROVE MachineInv
  OBVIOUS
<1>1. StatesInv
  BY CreateVec DEF Init, StatesInv
<1>2. CountInv
  BY StateMachineAssumption DEF Init, CountInv, EntryExit
<1> QED
  BY <1>1, <1>2 DEF MachineInv

\* What cvector_pushback leaves holds the old elements and perhaps the new one.
LEMMA PushedElements ==
  ASSUME NEW v, IsVec(v), NEW x, NEW S, x \in S, \A i \in 0 .. v.len - 1 : v.data[i] \in S,
         NEW ok \in BOOLEAN
  PROVE  LET w == cvector_pushback(v, x, ok).v
         IN  IsVec(w) /\ \A i \in 0 .. w.len - 1 : w.data[i] \in S
<1> DEFINE r == cvector_pushback(v, x, ok)
           w == r.v
<1>1. /\ IsVec(w)
      /\ r.ret # "CVESUCCESS" => w = v
      /\ r.ret = "CVESUCCESS" => /\ w.len = v.len + 1 /\ w.data[v.len] = x
                                 /\ Keeps(v, w, v.len)
  BY PushbackSpec
<1> HIDE DEF r
<1>2. v.len \in Nat
  BY DEF IsVec
<1>3. CASE r.ret # "CVESUCCESS"
  BY <1>1, <1>3 DEF r
<1>4. CASE r.ret = "CVESUCCESS"
  <2>1. ASSUME NEW i \in 0 .. w.len - 1 PROVE w.data[i] \in S
    BY <1>1, <1>2, <1>4 DEF Keeps
  <2> QED
    BY <1>1, <2>1 DEF r
<1> QED
  BY <1>3, <1>4

\* The counts do not change while the machine stands.
LEMMA CountsStay ==
  ASSUME CountInv, UNCHANGED <<current, started, entered, restarts>>
  PROVE  CountInv'
BY DEF CountInv, EntryExit

\* addState adds one of the states.
LEMMA AddStateKeeps ==
  ASSUME MachineInv, NEW s \in All, addState(s)
  PROVE  MachineInv'
<1>1. IsVec(states) /\ \A i \in 0 .. states.len - 1 : states.data[i] \in All
  BY DEF MachineInv, StatesInv
<1>2. PICK ok \in BOOLEAN : states' = cvector_pushback(states, s, ok).v
  BY DEF addState
<1>3. IsVec(states') /\ \A i \in 0 .. states'.len - 1 : states'.data[i] \in All
  BY <1>1, <1>2, PushedElements
<1>4. StatesInv'
  BY <1>3 DEF MachineInv, StatesInv, addState, machine, IsVec
<1>5. CountInv'
  BY CountsStay DEF MachineInv, addState, machine, calls
<1> QED
  BY <1>4, <1>5 DEF MachineInv

\* aState_addTransition adds a transition to one of the states.
LEMMA AddTransitionKeeps ==
  ASSUME MachineInv, NEW from \in All, NEW to \in All, aState_addTransition(from, to)
  PROVE  MachineInv'
<1>1. PICK ok \in BOOLEAN :
        trans' = [trans EXCEPT ![from] = cvector_pushback(trans[from], to, ok).v]
  BY DEF aState_addTransition
<1> DEFINE w == cvector_pushback(trans[from], to, ok).v
<1>2. /\ DOMAIN trans = All
      /\ \A s \in All : /\ IsVec(trans[s])
                        /\ \A i \in 0 .. trans[s].len - 1 : trans[s].data[i] \in All
  BY DEF MachineInv, StatesInv
<1>3. IsVec(w) /\ \A i \in 0 .. w.len - 1 : w.data[i] \in All
  BY <1>2, PushedElements
<1> HIDE DEF w
<1>4. /\ DOMAIN trans' = All /\ trans'[from] = w
      /\ \A s \in All \ {from} : trans'[s] = trans[s]
  BY <1>1, <1>2 DEF w
<1>5. \A s \in All : /\ IsVec(trans'[s])
                     /\ \A i \in 0 .. trans'[s].len - 1 : trans'[s].data[i] \in All
  BY <1>2, <1>3, <1>4
<1>6. StatesInv'
  BY <1>4, <1>5 DEF MachineInv, StatesInv, aState_addTransition, machine, IsVec
<1>7. CountInv'
  BY CountsStay DEF MachineInv, aState_addTransition, machine, calls
<1> QED
  BY <1>6, <1>7 DEF MachineInv

\* A start enters the first state, a restart another one; neither leaves any.
LEMMA StartKeeps ==
  ASSUME MachineInv, NEW s \in All, start(s) \/ restart(s)
  PROVE  MachineInv'
<1>1. /\ entered' = Entry(entered, s) /\ current' = s /\ states' = states /\ trans' = trans
      /\ \/ ~started /\ started' = TRUE /\ restarts' = restarts
         \/ started' = FALSE /\ restarts' = restarts + 1
  BY DEF start, restart
<1>2. StatesInv'
  BY <1>1 DEF MachineInv, StatesInv, IsVec
<1>3. /\ entered \in [User -> Int] /\ restarts \in Nat /\ None \notin User
      /\ (restarts = 0 /\ ~started) => current = None
      /\ \A u \in User : /\ entered[u] >= IF u = current THEN 1 ELSE 0
                         /\ restarts = 0 => entered[u] = IF u = current THEN 1 ELSE 0
  BY StateMachineAssumption DEF MachineInv, CountInv, EntryExit
<1>4. /\ entered' \in [User -> Int]
      /\ \A u \in User : entered'[u] = entered[u] + IF u = s THEN 1 ELSE 0
  BY <1>1, <1>3 DEF Entry
<1>5. \A u \in User : entered'[u] >= IF u = s THEN 1 ELSE 0
  BY <1>3, <1>4
<1>6. restarts' = 0 => \A u \in User : entered'[u] = IF u = s THEN 1 ELSE 0
  <2> SUFFICES ASSUME restarts' = 0 PROVE \A u \in User : entered'[u] = IF u = s THEN 1 ELSE 0
    OBVIOUS
  <2>1. restarts = 0 /\ ~started
    BY <1>1, <1>3
  <2>2. \A u \in User : entered[u] = 0
    BY <1>3, <2>1
  <2> QED
    BY <1>4, <2>2
<1>7. CountInv'
  BY <1>1, <1>3, <1>4, <1>5, <1>6 DEF CountInv, EntryExit
<1> QED
  BY <1>2, <1>7 DEF MachineInv

\* A transition leaves the current state and enters its target.
LEMMA UpdateKeeps ==
  ASSUME MachineInv, update
  PROVE  MachineInv'
<1>1. /\ started /\ current \in All /\ started' = TRUE /\ restarts' = restarts
      /\ states' = states /\ trans' = trans
  BY DEF MachineInv, StatesInv, update
<1>2. CASE UNCHANGED <<current, previous, entered>>
  <2>1. StatesInv'
    BY <1>1, <1>2 DEF MachineInv, StatesInv, IsVec
  <2>2. CountInv'
    BY <1>1, <1>2, CountsStay DEF MachineInv
  <2> QED
    BY <2>1, <2>2 DEF MachineInv
<1>3. ASSUME NEW i \in 0 .. trans[current].len - 1, Move(cvector_at(trans[current], i))
      PROVE  MachineInv'
  <2> DEFINE to == cvector_at(trans[current], i)
  <2>1. to \in All
    BY <1>1 DEF MachineInv, StatesInv, cvector_at
  <2>2. current' = to /\ entered' = Entry(Exit(entered, current), to)
    BY <1>3 DEF Move
  <2> HIDE DEF to
  <2>3. StatesInv'
    BY <1>1, <2>1, <2>2 DEF MachineInv, StatesInv, IsVec
  <2>4. /\ entered \in [User -> Int] /\ restarts \in Nat
        /\ \A u \in User : /\ entered[u] >= IF u = current THEN 1 ELSE 0
                           /\ restarts = 0 => entered[u] = IF u = current THEN 1 ELSE 0
    BY DEF MachineInv, CountInv, EntryExit
  <2> DEFINE left == Exit(entered, current)
  <2>5. /\ left \in [User -> Int]
        /\ \A u \in User : left[u] >= 0 /\ (restarts = 0 => left[u] = 0)
    <3>1. CASE current \in User
      BY <2>4, <3>1 DEF Exit
    <3>2. CASE current \notin User
      BY <2>4, <3>2 DEF Exit
    <3> QED
      BY <3>1, <3>2
  <2>6. entered' = Entry(left, to)
    BY <2>2
  <2> HIDE DEF left
  <2>7. /\ entered' \in [User -> Int]
        /\ \A u \in User : entered'[u] = left[u] + IF u = to THEN 1 ELSE 0
    BY <2>5, <2>6 DEF Entry
  <2>8. \A u \in User : /\ entered'[u] >= IF u = to THEN 1 ELSE 0
                        /\ restarts = 0 => entered'[u] = IF u = to THEN 1 ELSE 0
    BY <2>5, <2>7
  <2>9. CountInv'
    BY <1>1, <2>2, <2>4, <2>7, <2>8 DEF CountInv, EntryExit
  <2> QED
    BY <2>3, <2>9 DEF MachineInv
<1> QED
  BY <1>2, <1>3 DEF update

\* One step of the library, on the machine.
LEMMA MachineStep ==
  ASSUME MachineInv, [LibraryNext]_allvars
  PROVE  MachineInv'
<1>1. ASSUME UNCHANGED <<states, trans, current, started, entered, restarts>>
      PROVE  MachineInv'
  <2>1. StatesInv'
    BY <1>1 DEF MachineInv, StatesInv, IsVec
  <2>2. CountInv'
    BY <1>1, CountsStay DEF MachineInv
  <2> QED
    BY <2>1, <2>2 DEF MachineInv
<1>2. CASE UNCHANGED vars
  BY <1>1, <1>2 DEF vars, machine, calls
<1>3. ASSUME NEW from \in All, NEW to \in All \cup {None}, addTransition(from, to)
      PROVE  MachineInv'
  <2> DEFINE target == IF to = None THEN Finish ELSE to
  <2>1. target \in All /\ aState_addTransition(from, target)
    BY <1>3 DEF addTransition, All
  <2> HIDE DEF target
  <2> QED
    BY <2>1, AddTransitionKeeps
<1>4. CASE finish
  BY <1>1, <1>4 DEF finish, calls
<1>5. CASE Next
  BY <1>3, <1>4, <1>5, AddStateKeeps, AddTransitionKeeps, StartKeeps, UpdateKeeps DEF Next
<1>6. CASE Vector
  <2>1. UNCHANGED vars
    BY <1>6 DEF Vector, popback, pushback, rm_at, insert_at, Left
  <2> QED
    BY <1>2, <2>1
<1> QED
  BY <1>2, <1>5, <1>6 DEF LibraryNext, Machine, allvars

\* The invariant of the machine holds in every reachable state.
LEMMA MachineInvariant == LibrarySpec => []MachineInv
<1>1. LibraryInit => MachineInv
  BY MachineInit DEF LibraryInit
<1>2. MachineInv /\ [LibraryNext]_allvars => MachineInv'
  BY MachineStep
<1> QED
  BY <1>1, <1>2, PTL DEF LibrarySpec

\* EntryExit: every entry is answered by one exit before the next, until a restart;
\* and even after it no state is left more often than entered
\* (aStateMachine_update, aStateMachine_restart).
THEOREM EntriesMatchExits == LibrarySpec => []EntryExit
<1>1. MachineInv => EntryExit
  BY DEF MachineInv, CountInv
<1> QED
  BY <1>1, MachineInvariant, PTL
=============================================================================
