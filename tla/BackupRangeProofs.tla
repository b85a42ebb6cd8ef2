------------------------- MODULE BackupRangeProofs -------------------------
(***************************************************************************)
(* Proofs about BackupRange, for every key space, every set of plans whose *)
(* ranges lie in it, and any number of troubles, retries and sleeps: the   *)
(* ranges of the tree never overlap, and BackupRange implements            *)
(* RangeBackup when the range does not begin at the empty key.             *)
(***************************************************************************)
EXTENDS BackupRange, WellFoundedInduction, FiniteSetTheorems, TLAPS

----------------------------------------------------------------------------
(* Least and greatest elements.                                            *)

\* A non-empty set of natural numbers has a least element.
LEMMA LeastNatural ==
  ASSUME NEW S \in SUBSET Nat, S # {}
  PROVE  \E u \in S : \A v \in S : u <= v
<1> DEFINE R == {ss \in Nat \X Nat : ss[1] < ss[2]}
<1>1. IsWellFoundedOn(R, Nat)
  <2>1. OpToRel(<, Nat) = R
    BY Zenon DEF OpToRel
  <2> QED BY <2>1, NatLessThanWellFounded, Zenon
<1> HIDE DEF R
<1>2. PICK u \in S : \A v \in S : ~(<<v, u>> \in R)
  BY <1>1, WFMin, Zenon
<1>3. ASSUME NEW v \in S PROVE u <= v
  <2>1. <<v, u>> \in Nat \X Nat /\ <<v, u>>[1] = v /\ <<v, u>>[2] = u
    OBVIOUS
  <2>2. ~(v < u)
    BY <1>2, <2>1, Zenon DEF R
  <2> QED BY <2>2
<1> QED BY <1>3

\* Min of a non-empty set of natural numbers is its least element.
LEMMA MinIsLeast ==
  ASSUME NEW S \in SUBSET Nat, S # {}
  PROVE  Min(S) \in S /\ \A v \in S : Min(S) <= v
BY LeastNatural, Zenon DEF Min

\* Max of two integers is the larger of them.
LEMMA MaxOfTwo ==
  ASSUME NEW a \in Int, NEW b \in Int
  PROVE  Max({a, b}) = IF a < b THEN b ELSE a
<1> DEFINE m == IF a < b THEN b ELSE a
<1>1. m \in {a, b} /\ \A y \in {a, b} : m >= y
  OBVIOUS
<1>2. \A x \in {a, b} : (\A y \in {a, b} : x >= y) => x = m
  OBVIOUS
<1> QED BY <1>1, <1>2 DEF Max

\* Among ranges that start below a bound there is one that starts last.
LEMMA LastStart ==
  ASSUME NEW n \in Nat, NEW S, S # {}, \A r \in S : r.start \in 0..n
  PROVE  \E r \in S : \A q \in S : q.start <= r.start
<1> DEFINE D == {n - r.start : r \in S}
<1>1. D \in SUBSET Nat /\ D # {}
  OBVIOUS
<1>2. PICK u \in D : \A v \in D : u <= v
  BY <1>1, LeastNatural, Zenon
<1>3. PICK r \in S : u = n - r.start
  OBVIOUS
<1>4. ASSUME NEW q \in S PROVE q.start <= r.start
  <2>1. n - q.start \in D
    OBVIOUS
  <2>2. u <= n - q.start
    BY <1>2, <2>1
  <2> QED BY <1>3, <2>2
<1> QED BY <1>4

\* Among ranges there is one that starts first.
LEMMA FirstStart ==
  ASSUME NEW S, S # {}, \A r \in S : r.start \in Nat
  PROVE  \E r \in S : \A q \in S : r.start <= q.start
<1> DEFINE D == {r.start : r \in S}
<1>1. D \in SUBSET Nat /\ D # {}
  OBVIOUS
<1>2. PICK u \in D : \A v \in D : u <= v
  BY <1>1, LeastNatural, Zenon
<1> QED BY <1>2

----------------------------------------------------------------------------
(* The range tree.                                                         *)

\* the ranges of keys below n: not empty, an end of 0 for the end of all
KeyRanges(n) == {r \in [start : 0..(n - 1), end : 0..(n - 1)] : r.end = 0 \/ r.start < r.end}
\* every key of r is one of a
Inside(r, a) == a.start <= r.start /\ (a.end = 0 \/ (r.end # 0 /\ r.end <= a.end))

\* Update keeps the ranges disjoint: what it leaves in the tree ends before the
\* new range or starts after it.
LEMMA UpdateDisjoint ==
  ASSUME NEW n \in Nat, NEW T \in SUBSET KeyRanges(n), Disjoint(T), NEW rg \in KeyRanges(n)
  PROVE  Update(T, rg) \in SUBSET KeyRanges(n) /\ Disjoint(Update(T, rg))
<1> USE DEF KeyRanges
<1>1. ASSUME NEW r \in T, r.start < rg.start, r \notin GetOverlaps(T, rg) PROVE Precedes(r, rg)
  <2>1. CASE Find(T, rg.start) = {}
    <3>1. CASE r \in AtOrBefore(T, rg.start)
      <4>1. ~ContainsKey(r, rg.start)
        BY <2>1, <3>1 DEF Find
      <4> QED BY <1>1, <4>1 DEF ContainsKey, Precedes
    <3>2. CASE r \notin AtOrBefore(T, rg.start)
      <4>1. PICK q \in T : q.start <= rg.start /\ ~(q.start <= r.start)
        BY <1>1, <3>2 DEF AtOrBefore
      <4>2. Precedes(r, q)
        BY <4>1 DEF Disjoint, Precedes
      <4> QED BY <4>1, <4>2 DEF Precedes
    <3> QED BY <3>1, <3>2
  <2>2. CASE Find(T, rg.start) # {}
    <3>1. PICK f \in Find(T, rg.start) : AscendFrom(T, rg.start) = f.start
      BY <2>2, Zenon DEF AscendFrom
    <3>2. f \in T /\ f.start <= rg.start
      BY DEF Find, AtOrBefore
    <3>3. r.start < f.start
      BY <1>1, <3>1, <3>2 DEF GetOverlaps
    <3>4. Precedes(r, f)
      BY <3>2, <3>3 DEF Disjoint, Precedes
    <3> QED BY <3>2, <3>4 DEF Precedes
  <2> QED BY <2>1, <2>2
<1>2. ASSUME NEW r \in T, r.start > rg.start, r \notin GetOverlaps(T, rg) PROVE Precedes(rg, r)
  <2>1. AscendFrom(T, rg.start) \in Nat /\ AscendFrom(T, rg.start) <= rg.start
    <3>1. CASE Find(T, rg.start) = {}
      BY <3>1 DEF AscendFrom
    <3>2. CASE Find(T, rg.start) # {}
      <4>1. PICK f \in Find(T, rg.start) : AscendFrom(T, rg.start) = f.start
        BY <3>2, Zenon DEF AscendFrom
      <4> QED BY <4>1 DEF Find, AtOrBefore
    <3> QED BY <3>1, <3>2
  <2> QED BY <1>2, <2>1 DEF GetOverlaps, Precedes
<1>3. ASSUME NEW r \in Update(T, rg) PROVE r = rg \/ (r \in T /\ (Precedes(r, rg) \/ Precedes(rg, r)))
  <2>1. CASE r = rg
    BY <2>1
  <2>2. CASE r # rg
    <3>1. r \in T /\ r \notin GetOverlaps(T, rg) /\ r.start # rg.start
      BY <2>2 DEF Update
    <3>2. r.start < rg.start \/ r.start > rg.start
      BY <3>1
    <3> QED BY <1>1, <1>2, <3>1, <3>2
  <2> QED BY <2>1, <2>2
<1>4. Update(T, rg) \in SUBSET KeyRanges(n)
  BY DEF Update
<1>5. Disjoint(Update(T, rg))
  BY <1>3 DEF Disjoint
<1> QED BY <1>4, <1>5

\* The end key the ascent remembers is the start of the request, or the end of
\* the item that starts last below k.
LEMMA LastEndKeyIs ==
  ASSUME NEW n \in Nat, NEW T \in SUBSET KeyRanges(n), NEW from \in 0..(n - 1), NEW k \in Nat
  PROVE  \/ LastEndKey(T, from, k) = from /\ \A q \in T : ~(q.start < k)
         \/ \E r \in T : /\ r.start < k /\ LastEndKey(T, from, k) = r.end
                         /\ \A q \in T : q.start < k => q.start <= r.start
<1> DEFINE before == {r \in T : r.start < k}
<1>1. CASE before = {}
  BY <1>1 DEF LastEndKey
<1>2. CASE before # {}
  <2>1. \A r \in before : r.start \in 0..k
    BY DEF KeyRanges
  <2>2. \E r \in before : \A q \in before : q.start <= r.start
    BY <1>2, <2>1, LastStart, Zenon
  <2>3. LastEndKey(T, from, k) = (CHOOSE r \in before : \A q \in before : q.start <= r.start).end
    BY <1>2 DEF LastEndKey
  <2> QED BY <2>2, <2>3, Zenon
<1> QED BY <1>1, <1>2

\* What GetIncompleteRange returns are ranges inside the request.
LEMMA IncompleteInside ==
  ASSUME NEW n \in Nat, NEW T \in SUBSET KeyRanges(n), NEW from, NEW to, Rg(from, to) \in KeyRanges(n)
  PROVE  GetIncompleteRange(T, from, to, n + 1)
           \subseteq {r \in KeyRanges(n) : Inside(r, Rg(from, to))}
<1> DEFINE seen == Visited(T, from, to)
<1>1. seen \in SUBSET KeyRanges(n) /\ from \in 0..(n - 1) /\ to \in 0..(n - 1) /\ (to = 0 \/ from < to)
  BY DEF Visited, KeyRanges, Rg
<1> HIDE DEF seen
<1>2. ASSUME NEW k \in Nat PROVE LastEndKey(seen, from, k) \in 0..(n - 1)
  BY <1>1, LastEndKeyIs DEF KeyRanges
<1>3. ASSUME NEW g \in GapBefore(seen, from, to)
      PROVE  g \in KeyRanges(n) /\ Inside(g, Rg(from, to))
  <2>1. PICK r \in seen : /\ g = Intersect(Rg(from, to), LastEndKey(seen, from, r.start), r.start)
                          /\ LastEndKey(seen, from, r.start) < r.start
                          /\ Meets(Rg(from, to), LastEndKey(seen, from, r.start), r.start)
    BY DEF GapBefore
  <2>2. r.start \in 0..(n - 1) /\ LastEndKey(seen, from, r.start) \in 0..(n - 1)
    BY <1>1, <1>2 DEF KeyRanges
  <2> QED BY <1>1, <2>1, <2>2 DEF Intersect, Meets, Rg, Larger, Smaller, KeyRanges, Inside
<1>4. ASSUME NEW g \in GapAfter(seen, from, to, n + 1)
      PROVE  g \in KeyRanges(n) /\ Inside(g, Rg(from, to))
  <2> DEFINE last == LastEndKey(seen, from, n + 1)
  <2>1. /\ g = Intersect(Rg(from, to), last, to) /\ last # 0 /\ (to = 0 \/ last < to)
        /\ Meets(Rg(from, to), last, to)
    BY DEF GapAfter, Rg
  <2>2. last \in 0..(n - 1)
    BY <1>2
  <2> HIDE DEF last
  <2> QED BY <1>1, <2>1, <2>2 DEF Intersect, Meets, Rg, Larger, Smaller, KeyRanges, Inside
<1> QED BY <1>3, <1>4 DEF GetIncompleteRange, seen

\* A tree of disjoint ranges inside the request in which GetIncompleteRange finds
\* no gap holds every key of the request, unless the request starts at the empty
\* key: a key that is not held has a last range before it and perhaps a first one
\* after it, and the ascent sees the gap between them.
LEMMA NoGap ==
  ASSUME NEW n \in Nat, NEW T \in SUBSET KeyRanges(n), Disjoint(T),
         NEW from, NEW to, Rg(from, to) \in KeyRanges(n), from # 0,
         \A r \in T : Inside(r, Rg(from, to)),
         GetIncompleteRange(T, from, to, n + 1) = {},
         NEW k \in 0..(n - 1), ContainsKey(Rg(from, to), k)
  PROVE  \E r \in T : ContainsKey(r, k)
<1> SUFFICES ASSUME \A r \in T : ~ContainsKey(r, k) PROVE FALSE
  OBVIOUS
<1>1. /\ from \in 1..(n - 1) /\ to \in 0..(n - 1) /\ (to = 0 \/ from < to)
      /\ from <= k /\ (to = 0 \/ k < to)
  BY DEF KeyRanges, Rg, ContainsKey
<1>2. \A r \in T : /\ r.start \in from..(n - 1) /\ r.end \in 0..(n - 1) /\ (r.end = 0 \/ r.start < r.end)
                   /\ (to = 0 \/ (r.end # 0 /\ r.end <= to))
  BY <1>1 DEF KeyRanges, Inside, Rg
<1>3. \A r \in T : r.start <= k => r.end # 0 /\ r.end <= k
  BY <1>1, <1>2 DEF ContainsKey
<1>4. Visited(T, from, to) = T
  <2>1. \A r \in T : r.start >= AscendFrom(T, from)
    <3>1. CASE Find(T, from) = {}
      BY <1>1, <1>2, <3>1 DEF AscendFrom
    <3>2. CASE Find(T, from) # {}
      <4>1. PICK f \in Find(T, from) : AscendFrom(T, from) = f.start
        BY <3>2, Zenon DEF AscendFrom
      <4>2. f \in T /\ f.start <= from
        BY DEF Find, AtOrBefore
      <4> QED BY <1>1, <1>2, <4>1, <4>2
    <3> QED BY <3>1, <3>2
  <2>2. ASSUME NEW r \in T, NEW q \in T, q.start < r.start PROVE to = 0 \/ q.end < to
    <3>1. Precedes(q, r)
      BY <1>2, <2>2 DEF Disjoint, Precedes
    <3> QED BY <1>1, <1>2, <3>1 DEF Precedes
  <2> QED BY <2>1, <2>2 DEF Visited
<1>5. GapBefore(T, from, to) = {} /\ GapAfter(T, from, to, n + 1) = {}
  BY <1>1, <1>4 DEF GetIncompleteRange
<1>6. CASE \E r \in T : r.start > k
  <2> DEFINE after == {r \in T : r.start > k}
  <2>0. after # {} /\ \A r \in after : r.start \in Nat
    BY <1>1, <1>2, <1>6
  <2>1. PICK r \in after : \A q \in after : r.start <= q.start
    <3> HIDE DEF after
    <3> QED BY <2>0, FirstStart
  <2> DEFINE last == LastEndKey(T, from, r.start)
  <2>2. last \in Nat /\ last <= k
    <3>1. CASE last = from
      BY <1>1, <3>1
    <3>2. CASE last # from
      <4>1. PICK q \in T : q.start < r.start /\ last = q.end
        BY <1>1, <1>2, <3>2, LastEndKeyIs
      <4>2. q.start <= k
        BY <1>2, <2>1, <4>1
      <4> QED BY <1>2, <1>3, <4>1, <4>2
    <3> QED BY <3>1, <3>2
  <2> HIDE DEF last
  <2>3. last < r.start /\ Meets(Rg(from, to), last, r.start)
    BY <1>1, <1>2, <2>1, <2>2 DEF Meets, Rg
  <2>4. Intersect(Rg(from, to), last, r.start) \in GapBefore(T, from, to)
    BY <2>3 DEF GapBefore, last
  <2> QED BY <1>5, <2>4
<1>7. CASE ~\E r \in T : r.start > k
  <2> DEFINE last == LastEndKey(T, from, n + 1)
  <2>1. last \in Nat /\ last <= k /\ last # 0
    <3>1. CASE last = from
      BY <1>1, <3>1
    <3>2. CASE last # from
      <4>1. PICK q \in T : last = q.end
        BY <1>1, <3>2, LastEndKeyIs
      <4>2. q.start <= k
        BY <1>2, <1>7, <4>1
      <4> QED BY <1>2, <1>3, <4>1, <4>2
    <3> QED BY <3>1, <3>2
  <2> HIDE DEF last
  <2>2. last # to /\ (to = 0 \/ last < to) /\ Meets(Rg(from, to), last, to)
    BY <1>1, <2>1 DEF Meets, Rg
  <2>3. GapAfter(T, from, to, n + 1) # {}
    BY <2>1, <2>2, Zenon DEF GapAfter, last, Rg
  <2> QED BY <1>5, <2>3
<1> QED BY <1>6, <1>7

----------------------------------------------------------------------------
(* The invariant.                                                          *)

Asked == Rg(req.from, req.to)
\* the ranges inside the request
AskedRanges == {r \in KeyRanges(KeyEnd) : Inside(r, Asked)}
RegionsOK == {r \in Region : r.start < r.end}
Answer == [kind : {"ok"}, rg : AskedRanges] \cup [kind : {"ignore", "bad"}]
SenderFields == {"at", "store", "from", "to", "left", "retry", "progress"}

\* A sender asks for a part of the request, and the regions it still expects an
\* answer for have keys in that part.
SenderOK(w) ==
  /\ DOMAIN w = SenderFields
  /\ w.at \in {"call", "recv"} => Rg(w.from, w.to) \in AskedRanges
  /\ w.at = "recv" => \A r \in w.left : r \in RegionsOK /\ r.end > w.from /\ r.start < Upto(w.to)

RequestOK == DOMAIN req = {"from", "to", "up"} /\ Asked \in KeyRanges(KeyEnd)
ClusterOK == regions \subseteq RegionsOK
SendersOK == DOMAIN snd = Stores /\ \A p \in Stores : SenderOK(snd[p])
AnswersOK ==
  /\ respCh \in Seq(Answer)
  /\ stage # "push" => \A i \in 1..Len(respCh) : respCh[i].kind = "ok"
TreeOK == tree \subseteq AskedRanges /\ Disjoint(tree)
StageOK ==
  /\ stage # "done" => outcome = "none"
  /\ stage = "send" => Incomplete = {}

\* The inductive invariant: whatever is asked, answered, expected or recorded
\* lies in the request, the recorded ranges are disjoint, and the files go to the
\* meta writer only when no gap was found.
IInv ==
  /\ RequestOK /\ ClusterOK /\ SendersOK /\ AnswersOK /\ TreeOK
  /\ todo \subseteq AskedRanges /\ StageOK

\* The pieces of a region are regions.
LEMMA PiecesOK ==
  ASSUME KeyEnd \in Nat, NEW from \in Nat, NEW to \in Nat, from < to, to <= KeyEnd,
         NEW cuts, cuts \subseteq (from + 1)..(to - 1), NEW version \in Nat, NEW store \in Stores
  PROVE  Pieces(from, to, cuts, version, store) \subseteq RegionsOK
<1> SUFFICES ASSUME NEW s \in cuts \cup {from}
             PROVE  [start |-> s, end |-> Min({e \in cuts \cup {to} : e > s}), ver |-> version,
                     leader |-> store] \in RegionsOK
  BY Zenon DEF Pieces
<1> DEFINE ends == {e \in cuts \cup {to} : e > s}
<1>1. ends \in SUBSET Nat /\ to \in ends /\ s \in Nat
  <2>1. s \in Nat /\ s < to
    OBVIOUS
  <2>2. \A e \in cuts \cup {to} : e \in Nat
    OBVIOUS
  <2> QED BY <2>1, <2>2, Zenon
<1> HIDE DEF ends
<1>2. Min(ends) \in ends /\ Min(ends) <= to
  BY <1>1, MinIsLeast
<1>3. Min(ends) \in Nat /\ Min(ends) > s
  BY <1>1, <1>2 DEF ends
<1> QED BY <1>1, <1>2, <1>3 DEF ends, RegionsOK, Region, KeySpace

\* What a store answers for a region it was asked about is a range inside the
\* request.
LEMMA PartAsked ==
  ASSUME KeyEnd \in Nat \ {0}, NEW r \in RegionsOK, NEW from, NEW to, Rg(from, to) \in AskedRanges,
         r.end > from, r.start < Upto(to), RequestOK
  PROVE  Part(r, from, to) \in AskedRanges
<1> DEFINE m == Min({r.end, Upto(to)})
           b == Max({r.start, from})
<1>1. /\ from \in 0..(KeyEnd - 1) /\ to \in 0..(KeyEnd - 1) /\ (to = 0 \/ from < to)
      /\ Inside(Rg(from, to), Asked)
      /\ Asked.start \in 0..(KeyEnd - 1) /\ Asked.end \in 0..(KeyEnd - 1)
  BY DEF AskedRanges, KeyRanges, Rg, RequestOK
<1>2. r.start \in 0..(KeyEnd - 1) /\ r.end \in 1..KeyEnd /\ r.start < r.end
  BY DEF RegionsOK, Region, KeySpace
<1>3. Upto(to) = (IF to = 0 THEN KeyEnd ELSE to) /\ Upto(to) \in Nat
  BY <1>1 DEF Upto
<1>4. m \in {r.end, Upto(to)} /\ m <= r.end /\ m <= Upto(to)
  <2>1. {r.end, Upto(to)} \in SUBSET Nat /\ {r.end, Upto(to)} # {}
    BY <1>2, <1>3
  <2> QED BY <2>1, MinIsLeast
<1>5. b = IF r.start < from THEN from ELSE r.start
  BY <1>1, <1>2, MaxOfTwo
<1>6. Part(r, from, to) = Rg(b, IF m = KeyEnd THEN 0 ELSE m)
  BY DEF Part
<1> HIDE DEF m, b
<1>7. b \in from..(KeyEnd - 1) /\ b < m /\ m \in 1..KeyEnd
  BY <1>1, <1>2, <1>3, <1>4, <1>5
<1>8. Part(r, from, to) \in KeyRanges(KeyEnd)
  <2>1. b \in 0..(KeyEnd - 1) /\ (m # KeyEnd => m \in 0..(KeyEnd - 1))
    BY <1>1, <1>7
  <2> QED BY <1>6, <1>7, <2>1 DEF Rg, KeyRanges
<1>9. Inside(Part(r, from, to), Asked)
  BY <1>1, <1>3, <1>4, <1>6, <1>7 DEF Rg, Inside
<1> QED BY <1>8, <1>9 DEF AskedRanges

\* The tree stays disjoint and inside the request when an answer is put into it.
LEMMA UpdateAsked ==
  ASSUME KeyEnd \in Nat, TreeOK, NEW rg \in AskedRanges
  PROVE  Update(tree, rg) \subseteq AskedRanges /\ Disjoint(Update(tree, rg))
<1>1. tree \in SUBSET KeyRanges(KeyEnd) /\ rg \in KeyRanges(KeyEnd)
  BY DEF TreeOK, AskedRanges
<1>2. Update(tree, rg) \subseteq AskedRanges
  BY DEF Update, TreeOK
<1> QED BY <1>1, <1>2, UpdateDisjoint DEF TreeOK

\* A sender that was given nothing to do.
LEMMA IdleOK ==
  ASSUME NEW a, a \notin {"call", "recv"}
  PROVE  SenderOK([Idle EXCEPT !.at = a])
BY DEF SenderOK, SenderFields, Idle

\* So are all of them when pushBackup or fineGrainedBackup returns.
LEMMA AllIdleOK ==
  ASSUME snd' = AllIdle
  PROVE  SendersOK'
BY DEF SendersOK, AllIdle, Idle, SenderOK, SenderFields

\* A sender that is asked for a range of the request.
LEMMA AsksOK ==
  ASSUME NEW store, NEW rg \in AskedRanges
  PROVE  SenderOK(Asks(store, rg))
BY DEF SenderOK, SenderFields, Asks, Idle, AskedRanges, KeyRanges, Rg

\* The senders are as they should be when one that changes is.
LEMMA OneSender ==
  ASSUME SendersOK, NEW p \in Stores, NEW w, SenderOK(w), snd' = [snd EXCEPT ![p] = w], req' = req
  PROVE  SendersOK'
<1>1. DOMAIN snd' = Stores /\ snd'[p] = w /\ \A q \in Stores \ {p} : snd'[q] = snd[q]
  BY DEF SendersOK
<1>2. \A v : SenderOK(v)' <=> SenderOK(v)
  BY DEF SenderOK, AskedRanges, Asked
<1> QED BY <1>1, <1>2 DEF SendersOK

----------------------------------------------------------------------------
(* The invariant is inductive.                                             *)

\* It holds at the start.
LEMMA InitIInv ==
  ASSUME Init
  PROVE  IInv
<1>1. PICK p \in BackupPlans : ClusterInit(p.cuts, p.trouble) /\ BackupInit(p)
  BY DEF Init
<1>2. /\ KeyEnd \in Nat \ {0} /\ p.from \in 0..(KeyEnd - 1) /\ p.to \in 0..(KeyEnd - 1)
      /\ (p.to = 0 \/ p.from < p.to) /\ p.cuts \subseteq (0 + 1)..(KeyEnd - 1)
  BY BackupAssumption DEF KeySpace
<1>3. RequestOK
  BY <1>1, <1>2 DEF BackupInit, RequestOK, Asked, Rg, KeyRanges
<1>4. ClusterOK
  <2>1. 1 \in Stores
    BY DEF Stores
  <2>2. Pieces(0, KeyEnd, p.cuts, 1, 1) \subseteq RegionsOK
    BY <1>2, <2>1, PiecesOK
  <2> QED BY <1>1, <2>2 DEF ClusterInit, ClusterOK
<1>5. SendersOK
  BY <1>1 DEF BackupInit, SendersOK, AllIdle, Idle, SenderOK, SenderFields
<1>6. AnswersOK /\ TreeOK /\ todo \subseteq AskedRanges /\ StageOK
  BY <1>1 DEF BackupInit, AnswersOK, TreeOK, Disjoint, StageOK
<1> QED BY <1>3, <1>4, <1>5, <1>6 DEF IInv

\* Splits, merges and changes of leaders keep the regions regions.
LEMMA ClusterStepOK ==
  ASSUME KeyEnd \in Nat, ClusterOK, ClusterStep
  PROVE  ClusterOK'
<1> USE DEF ClusterOK
<1>1. CASE RegionSplits
  <2>1. PICK r \in regions, k \in KeySpace : r.start < k /\ k < r.end /\ Split(r, {k})
    BY <1>1 DEF RegionSplits
  <2>2. RegionAt(r.start) \in regions
    <3>1. r.start <= r.start /\ r.start < r.end
      BY DEF RegionsOK, Region, KeySpace
    <3> QED BY <3>1 DEF RegionAt
  <2>3. RegionAt(r.start).leader \in Stores
    BY <2>2 DEF RegionsOK, Region
  <2>4. /\ r.start \in Nat /\ r.end \in Nat /\ r.end <= KeyEnd /\ r.ver \in Nat
        /\ k \in Nat /\ {k} \subseteq (r.start + 1)..(r.end - 1) /\ r.start < r.end
    <3>1. r \in Region /\ r.start < r.end
      BY DEF RegionsOK
    <3>2. r.start \in Nat /\ r.end \in Nat /\ r.end <= KeyEnd /\ r.ver \in Nat /\ k \in Nat
      BY <3>1 DEF Region, KeySpace
    <3> QED BY <2>1, <3>1, <3>2
  <2>5. r.ver + Cardinality({k}) \in Nat
    <3>1. Cardinality({k}) = 1
      BY FS_Singleton, Zenon
    <3> QED BY <2>4, <3>1
  <2>6. Pieces(r.start, r.end, {k}, r.ver + Cardinality({k}), RegionAt(r.start).leader) \subseteq RegionsOK
    BY <2>3, <2>4, <2>5, PiecesOK
  <2> QED BY <2>1, <2>6 DEF Split
<1>2. CASE RegionsMerge
  <2>1. PICK a \in regions, b \in regions :
          a.end = b.start /\ regions' = (regions \ {a, b}) \cup {Merged(a, b)}
    BY <1>2 DEF RegionsMerge
  <2>2. a \in RegionsOK /\ b \in RegionsOK
    OBVIOUS
  <2>3. Max({a.ver, b.ver}) + 1 \in Nat
    <3>1. a.ver \in Nat /\ b.ver \in Nat
      BY <2>2 DEF RegionsOK, Region
    <3> QED BY <3>1, MaxOfTwo
  <2>4. Merged(a, b) \in RegionsOK
    BY <2>1, <2>2, <2>3 DEF Merged, RegionsOK, Region, KeySpace
  <2> QED BY <2>1, <2>4
<1>3. CASE LeaderMoves
  <2>1. PICK r \in regions : regions' = (regions \ {r}) \cup {[r EXCEPT !.leader = 3 - @]}
    BY <1>3 DEF LeaderMoves
  <2>2. [r EXCEPT !.leader = 3 - @] \in RegionsOK
    BY DEF RegionsOK, Region, KeySpace, Stores
  <2> QED BY <2>1, <2>2
<1> QED BY <1>1, <1>2, <1>3 DEF ClusterStep

\* What depends on the request alone stays as it is.
LEMMA RequestStays ==
  ASSUME req' = req
  PROVE  /\ Asked' = Asked /\ AskedRanges' = AskedRanges /\ Answer' = Answer
         /\ RequestOK' <=> RequestOK
         /\ \A w : SenderOK(w)' <=> SenderOK(w)
BY DEF Asked, AskedRanges, Answer, RequestOK, SenderOK

\* A sender that is done, or back for the next range, has nothing to ask.
LEMMA SenderStops ==
  ASSUME SendersOK, NEW p \in Stores
  PROVE  SenderOK([snd[p] EXCEPT !.at = "done"]) /\ SenderOK([Idle EXCEPT !.at = "take"])
<1>1. DOMAIN snd[p] = SenderFields
  BY DEF SendersOK, SenderOK
<1>2. SenderOK([snd[p] EXCEPT !.at = "done"])
  BY <1>1 DEF SenderOK, SenderFields
<1> QED BY <1>2, IdleOK

\* Whatever SendBackup does, the senders ask for parts of the request.
LEMMA SendBackupSenders ==
  ASSUME RequestOK, ClusterOK, SendersOK, NEW p \in Stores, SendBackup(p)
  PROVE  SendersOK'
<1>1. req' = req
  BY DEF SendBackup
<1>2. SenderOK(snd[p]) /\ DOMAIN snd[p] = SenderFields /\ DOMAIN snd = Stores
  BY DEF SendersOK, SenderOK
<1> SUFFICES \E w : SenderOK(w) /\ snd' = [snd EXCEPT ![p] = w]
  BY <1>1, OneSender, Zenon
<1>3. CASE Call(p)
  <2> DEFINE w == [snd[p] EXCEPT !.at = "recv", !.left = Led(snd[p].store, snd[p].from, snd[p].to)]
  <2>1. snd' = [snd EXCEPT ![p] = w]
    BY <1>2, <1>3, Zenon DEF Call
  <2>2. SenderOK(w)
    <3>1. \A r \in Led(snd[p].store, snd[p].from, snd[p].to) :
            r \in RegionsOK /\ r.end > snd[p].from /\ r.start < Upto(snd[p].to)
      BY DEF Led, ClusterOK
    <3>2. Rg(snd[p].from, snd[p].to) \in AskedRanges
      BY <1>2, <1>3 DEF Call, SenderOK
    <3>3. /\ DOMAIN w = SenderFields /\ w.from = snd[p].from /\ w.to = snd[p].to
          /\ w.left = Led(snd[p].store, snd[p].from, snd[p].to)
      BY <1>2 DEF SenderFields
    <3> QED BY <3>1, <3>2, <3>3 DEF SenderOK
  <2> QED BY <2>1, <2>2, Zenon
<1>4. CASE Returns(p)
  <2>1. \/ snd' = [snd EXCEPT ![p] = [snd[p] EXCEPT !.at = "done"]]
        \/ snd' = [snd EXCEPT ![p] = [Idle EXCEPT !.at = "take"]]
    BY <1>4 DEF Returns, WorkerBack
  <2> QED BY <2>1, SenderStops, Zenon
<1>5. CASE Retries(p)
  <2> DEFINE w == [snd[p] EXCEPT !.at = "call", !.left = {}, !.retry = @ + 1]
  <2>1. snd' = [snd EXCEPT ![p] = w]
    BY <1>2, <1>5, Zenon DEF Retries, SenderFields
  <2>2. SenderOK(w)
    <3>1. Rg(snd[p].from, snd[p].to) \in AskedRanges
      BY <1>2, <1>5 DEF Retries, SenderOK
    <3>2. DOMAIN w = SenderFields /\ w.from = snd[p].from /\ w.to = snd[p].to /\ w.at = "call"
      BY <1>2 DEF SenderFields
    <3> QED BY <3>1, <3>2 DEF SenderOK
  <2> QED BY <2>1, <2>2, Zenon
<1>6. CASE Breaks(p)
  <2>1. \/ snd' = [snd EXCEPT ![p] = [snd[p] EXCEPT !.at = "done"]]
        \/ snd' = [snd EXCEPT ![p] = [Idle EXCEPT !.at = "take"]]
    BY <1>6 DEF Breaks, Cannot, WorkerBack
  <2> QED BY <2>1, SenderStops, Zenon
<1>7. CASE Response(p)
  <2>1. PICK r \in snd[p].left : snd' = [snd EXCEPT ![p].left = @ \ {r}, ![p].progress = TRUE]
    BY <1>7, Zenon DEF Response
  <2> DEFINE w == [snd[p] EXCEPT !.left = @ \ {r}, !.progress = TRUE]
  <2>2. snd' = [snd EXCEPT ![p] = w]
    BY <1>2, <2>1, Zenon DEF SenderFields
  <2>3. /\ DOMAIN w = SenderFields /\ w.from = snd[p].from /\ w.to = snd[p].to /\ w.at = snd[p].at
        /\ w.left \subseteq snd[p].left
    BY <1>2 DEF SenderFields
  <2>4. SenderOK(w)
    BY <1>2, <2>3 DEF SenderOK
  <2> QED BY <2>2, <2>4, Zenon
<1>8. CASE BadResponse(p)
  <2>1. CASE Pushing
    <3>1. PICK r \in snd[p].left : snd' = [snd EXCEPT ![p].left = @ \ {r}]
      BY <1>8, <2>1 DEF BadResponse
    <3> DEFINE w == [snd[p] EXCEPT !.left = @ \ {r}]
    <3>2. snd' = [snd EXCEPT ![p] = w]
      BY <1>2, <3>1 DEF SenderFields
    <3>3. /\ DOMAIN w = SenderFields /\ w.from = snd[p].from /\ w.to = snd[p].to
          /\ w.at = snd[p].at /\ w.left \subseteq snd[p].left
      BY <1>2 DEF SenderFields
    <3>4. SenderOK(w)
      BY <1>2, <3>3 DEF SenderOK
    <3> QED BY <3>2, <3>4, Zenon
  <2>2. CASE ~Pushing
    <3>1. snd' = [snd EXCEPT ![p] = [snd[p] EXCEPT !.at = "done"]]
      BY <1>8, <2>2 DEF BadResponse, Cannot
    <3> QED BY <3>1, SenderStops, Zenon
  <2> QED BY <2>1, <2>2
<1> QED BY <1>3, <1>4, <1>5, <1>6, <1>7, <1>8 DEF SendBackup

\* An answer is added to those that wait.
LEMMA OneAnswer ==
  ASSUME AnswersOK, NEW a \in Answer, respCh' = Append(respCh, a), req' = req, stage' = stage,
         stage # "push" => a.kind = "ok"
  PROVE  AnswersOK'
<1>1. Answer' = Answer
  BY RequestStays
<1>2. respCh' \in Seq(Answer)
  BY DEF AnswersOK
<1>3. ASSUME stage # "push", NEW i \in 1..Len(respCh') PROVE respCh'[i].kind = "ok"
  <2>1. /\ Len(respCh') = Len(respCh) + 1 /\ Len(respCh) \in Nat
        /\ respCh'[Len(respCh) + 1] = a
        /\ \A j \in 1..Len(respCh) : respCh'[j] = respCh[j]
    BY DEF AnswersOK
  <2>2. i \in 1..Len(respCh) \/ i = Len(respCh) + 1
    BY <2>1
  <2> QED BY <1>3, <2>1, <2>2 DEF AnswersOK
<1> QED BY <1>1, <1>2, <1>3 DEF AnswersOK

\* SendBackup answers with ranges of the request.
LEMMA SendBackupAnswers ==
  ASSUME KeyEnd \in Nat \ {0}, RequestOK, SendersOK, AnswersOK, NEW p \in Stores, SendBackup(p)
  PROVE  AnswersOK'
<1>1. req' = req /\ stage' = stage
  BY DEF SendBackup
<1>2. CASE respCh' = respCh
  BY <1>1, <1>2, RequestStays DEF AnswersOK
<1>3. CASE Response(p)
  <2>1. PICK r \in snd[p].left : Good(p, r) \/ Ignored(p, r)
    BY <1>3 DEF Response
  <2>2. CASE Good(p, r)
    <3>1. /\ r \in RegionsOK /\ r.end > snd[p].from /\ r.start < Upto(snd[p].to)
          /\ Rg(snd[p].from, snd[p].to) \in AskedRanges
      BY <1>3 DEF Response, SendersOK, SenderOK
    <3>2. Part(r, snd[p].from, snd[p].to) \in AskedRanges
      BY <3>1, PartAsked
    <3> DEFINE a == [kind |-> "ok", rg |-> Part(r, snd[p].from, snd[p].to)]
    <3>3. a \in Answer /\ a.kind = "ok"
      BY <3>2 DEF Answer
    <3>4. respCh' = Append(respCh, a)
      BY <2>2 DEF Good
    <3> HIDE DEF a
    <3> QED BY <1>1, <3>3, <3>4, OneAnswer
  <2>3. CASE Ignored(p, r) /\ Pushing
    <3> DEFINE a == [kind |-> "ignore"]
    <3>1. a \in Answer
      BY DEF Answer
    <3>2. respCh' = Append(respCh, a) /\ stage = "push"
      BY <2>3 DEF Ignored, Pushing
    <3> HIDE DEF a
    <3> QED BY <1>1, <3>1, <3>2, OneAnswer
  <2>4. CASE Ignored(p, r) /\ ~Pushing
    BY <1>2, <2>4 DEF Ignored
  <2> QED BY <2>1, <2>2, <2>3, <2>4
<1>4. CASE BadResponse(p)
  <2>1. CASE Pushing
    <3> DEFINE a == [kind |-> "bad"]
    <3>1. a \in Answer
      BY DEF Answer
    <3>2. respCh' = Append(respCh, a) /\ stage = "push"
      BY <1>4, <2>1 DEF BadResponse, Pushing
    <3> HIDE DEF a
    <3> QED BY <1>1, <3>1, <3>2, OneAnswer
  <2>2. CASE ~Pushing
    BY <1>2, <1>4, <2>2 DEF BadResponse, Cannot
  <2> QED BY <2>1, <2>2
<1>5. CASE Call(p) \/ Returns(p) \/ Retries(p) \/ Breaks(p)
  BY <1>2, <1>5, Zenon DEF Call, Returns, Retries, Breaks, Cannot, chans
<1> QED BY <1>3, <1>4, <1>5 DEF SendBackup

\* The steps of a worker keep the invariant.
LEMMA WorkerOK ==
  ASSUME KeyEnd \in Nat \ {0}, IInv, NEW p \in Stores, Worker(p)
  PROVE  IInv'
<1>1. /\ req' = req /\ stage' = stage /\ tree' = tree /\ outcome' = outcome /\ regions' = regions
  <2>1. CASE SendBackup(p)
    BY <2>1, Zenon DEF SendBackup, Call, Returns, Retries, Breaks, Response, Good, Ignored, BadResponse,
                clusterVars
  <2>2. CASE Take(p) \/ NoMore(p)
    BY <2>2, Zenon DEF Take, NoMore, clusterVars
  <2> QED BY <2>1, <2>2 DEF Worker
<1>2. Asked' = Asked /\ AskedRanges' = AskedRanges /\ RequestOK' /\ ClusterOK'
  BY <1>1, RequestStays DEF IInv, ClusterOK, RegionsOK
<1>3. TreeOK' /\ StageOK'
  BY <1>1, <1>2 DEF IInv, TreeOK, StageOK, Incomplete
<1>4. CASE SendBackup(p)
  <2>1. SendersOK' /\ AnswersOK'
    BY <1>4, SendBackupSenders, SendBackupAnswers DEF IInv
  <2>2. todo' \subseteq AskedRanges'
    BY <1>2, <1>4 DEF SendBackup, IInv
  <2> QED BY <1>2, <1>3, <2>1, <2>2 DEF IInv
<1>5. CASE Take(p)
  <2> DEFINE rg == CHOOSE x \in todo : \A y \in todo : x.start <= y.start
  <2>1. rg \in todo
    <3>1. \A x \in todo : x.start \in Nat
      BY DEF IInv, AskedRanges, KeyRanges
    <3> QED BY <1>5, <3>1, FirstStart DEF Take
  <2>2. /\ todo' = todo \ {rg}
        /\ \/ snd' = [snd EXCEPT ![p] = Asks(RegionAt(rg.start).leader, rg)]
           \/ snd' = [snd EXCEPT ![p] = [snd[p] EXCEPT !.at = "done"]]
           \/ snd' = [snd EXCEPT ![p] = [Idle EXCEPT !.at = "take"]]
        /\ respCh' = respCh
    BY <1>5 DEF Take, Cannot, WorkerBack, chans
  <2> HIDE DEF rg
  <2>3. SenderOK(Asks(RegionAt(rg.start).leader, rg))
    BY <2>1, AsksOK DEF IInv
  <2>4. SendersOK'
    <3>1. PICK w : SenderOK(w) /\ snd' = [snd EXCEPT ![p] = w]
      BY <2>2, <2>3, SenderStops, Zenon DEF IInv
    <3> QED BY <1>1, <3>1, OneSender, Zenon DEF IInv
  <2>5. AnswersOK' /\ todo' \subseteq AskedRanges'
    BY <1>1, <1>2, <2>2, RequestStays DEF IInv, AnswersOK
  <2> QED BY <1>2, <1>3, <2>4, <2>5 DEF IInv
<1>6. CASE NoMore(p)
  <2>1. snd' = [snd EXCEPT ![p] = [snd[p] EXCEPT !.at = "done"]] /\ respCh' = respCh /\ todo' = todo
    BY <1>6 DEF NoMore, chans, round
  <2>2. SendersOK'
    BY <1>1, <2>1, SenderStops, OneSender, Zenon DEF IInv
  <2>3. AnswersOK' /\ todo' \subseteq AskedRanges'
    BY <1>1, <1>2, <2>1, RequestStays DEF IInv, AnswersOK
  <2> QED BY <1>2, <1>3, <2>2, <2>3 DEF IInv
<1> QED BY <1>4, <1>5, <1>6 DEF Worker

\* Nothing waits to be received.
LEMMA NoAnswers ==
  ASSUME respCh' = <<>>
  PROVE  AnswersOK'
BY DEF AnswersOK

\* An answer is received.
LEMMA AnswerTaken ==
  ASSUME AnswersOK, respCh # <<>>, respCh' = Tail(respCh), req' = req, stage' = stage
  PROVE  AnswersOK'
<1>1. Answer' = Answer
  BY RequestStays
<1>2. respCh' \in Seq(Answer) /\ Len(respCh) \in Nat /\ Len(respCh') = Len(respCh) - 1
  BY DEF AnswersOK
<1>3. \A i \in 1..Len(respCh') : respCh'[i] = respCh[i + 1] /\ i + 1 \in 1..Len(respCh)
  BY <1>2 DEF AnswersOK
<1> QED BY <1>1, <1>2, <1>3 DEF AnswersOK

\* The answer at the head, when it is a good one, is a range of the request.
LEMMA HeadAsked ==
  ASSUME AnswersOK, respCh # <<>>, stage # "push" \/ Head(respCh).kind = "ok"
  PROVE  Head(respCh).rg \in AskedRanges
<1>1. Head(respCh) = respCh[1] /\ 1 \in 1..Len(respCh) /\ Head(respCh) \in Answer
  BY DEF AnswersOK
<1>2. Head(respCh).kind = "ok"
  BY <1>1 DEF AnswersOK
<1> QED BY <1>1, <1>2 DEF Answer

\* The steps of BackupRange itself keep the invariant.
LEMMA MainOK ==
  ASSUME KeyEnd \in Nat \ {0}, IInv, Main
  PROVE  IInv'
<1>1. req' = req /\ regions' = regions
  BY Zenon DEF Main, Push, PushStops, NoStores, PushReceive, PushError, PushEnds, Complete, Round,
         FineReceive, FineError, FineEnds, SendFiles, clusterVars
<1>2. Asked' = Asked /\ AskedRanges' = AskedRanges /\ RequestOK' /\ ClusterOK'
  BY <1>1, RequestStays DEF IInv, ClusterOK, RegionsOK
<1>3. CASE tree' = tree /\ todo' = todo /\ (ToFine \/ Finish("ok") \/ Finish("error")) /\ stage # "done"
  <2>1. snd' = AllIdle /\ respCh' = <<>> /\ (stage' = "done" \/ (stage' = "fine" /\ outcome' = outcome))
    BY <1>3 DEF ToFine, Finish
  <2>2. SendersOK' /\ AnswersOK'
    BY <2>1, AllIdleOK, NoAnswers
  <2>3. TreeOK' /\ StageOK' /\ todo' \subseteq AskedRanges'
    BY <1>2, <1>3, <2>1 DEF IInv, TreeOK, StageOK
  <2> QED BY <1>2, <2>2, <2>3 DEF IInv
<1>4. CASE Push
  <2>1. \A s \in Stores : SenderOK(Asks(s, Asked))
    BY AsksOK DEF IInv, RequestOK, AskedRanges, Inside, KeyRanges
  <2>2. SenderOK([Idle EXCEPT !.at = "done"])
    BY IdleOK
  <2>3. snd' = [s \in Stores |-> IF s \in req.up THEN Asks(s, Asked) ELSE [Idle EXCEPT !.at = "done"]]
    BY <1>4 DEF Push, Asked
  <2>4. SendersOK'
    BY <1>1, <2>1, <2>2, <2>3, RequestStays DEF SendersOK
  <2>5. /\ stage' = "push" /\ stage = "start" /\ respCh' = respCh /\ tree' = tree /\ todo' = todo
        /\ outcome' = outcome
    BY <1>4 DEF Push, chans, round
  <2>6. AnswersOK'
    BY <1>1, <2>5, RequestStays DEF IInv, AnswersOK
  <2>7. TreeOK' /\ StageOK' /\ todo' \subseteq AskedRanges'
    BY <1>2, <2>5 DEF IInv, TreeOK, StageOK
  <2> QED BY <1>2, <2>4, <2>6, <2>7 DEF IInv
<1>5. CASE PushStops \/ NoStores \/ PushError \/ PushEnds \/ FineError \/ FineEnds \/ SendFiles
  <2>1. tree' = tree /\ todo' = todo
    BY <1>5 DEF PushStops, NoStores, PushError, PushEnds, FineError, FineEnds, SendFiles, round
  <2>2. stage # "done" /\ (ToFine \/ Finish("ok") \/ Finish("error"))
    BY <1>5 DEF PushStops, NoStores, PushError, PushEnds, FineError, FineEnds, SendFiles, Pushing
  <2> QED BY <1>3, <2>1, <2>2
<1>6. ASSUME respCh # <<>>, stage # "done", stage # "send",
             stage # "push" \/ Head(respCh).kind = "ok",
             tree' = Update(tree, Head(respCh).rg), respCh' = Tail(respCh),
             UNCHANGED <<stage, snd, todo, outcome>>
      PROVE  IInv'
  <2>1. Head(respCh).rg \in AskedRanges
    BY <1>6, HeadAsked DEF IInv
  <2>2. TreeOK'
    BY <1>2, <1>6, <2>1, UpdateAsked DEF IInv, TreeOK
  <2>3. AnswersOK'
    BY <1>1, <1>6, AnswerTaken DEF IInv
  <2>4. SendersOK'
    BY <1>1, <1>6, RequestStays DEF IInv, SendersOK
  <2>5. StageOK' /\ todo' \subseteq AskedRanges'
    BY <1>2, <1>6 DEF IInv, StageOK
  <2> QED BY <1>2, <2>2, <2>3, <2>4, <2>5 DEF IInv
<1>7. CASE FineReceive
  BY <1>6, <1>7 DEF FineReceive, round
<1>8. CASE PushReceive
  <2>1. Pushing /\ stage = "push" /\ respCh # <<>> /\ todo' = todo
    BY <1>8 DEF PushReceive, Pushing, round
  <2>2. Head(respCh).kind \in {"ok", "ignore", "bad"}
    <3>1. Head(respCh) \in Answer
      BY <2>1 DEF IInv, AnswersOK
    <3> QED BY <3>1 DEF Answer
  <2>3. CASE Head(respCh).kind = "ok"
    BY <1>6, <1>8, <2>1, <2>3, Zenon DEF PushReceive
  <2>4. CASE Head(respCh).kind = "ignore"
    <3>1. respCh' = Tail(respCh) /\ UNCHANGED <<stage, snd, tree, outcome>>
      BY <1>8, <2>4, Zenon DEF PushReceive
    <3>2. AnswersOK'
      BY <1>1, <2>1, <3>1, AnswerTaken DEF IInv
    <3>3. SendersOK'
      BY <1>1, <3>1, RequestStays DEF IInv, SendersOK
    <3>4. TreeOK' /\ StageOK' /\ todo' \subseteq AskedRanges'
      BY <1>2, <2>1, <3>1 DEF IInv, StageOK, TreeOK
    <3> QED BY <1>2, <3>2, <3>3, <3>4 DEF IInv
  <2>5. CASE Head(respCh).kind = "bad"
    BY <1>3, <1>8, <2>1, <2>5, Zenon DEF PushReceive
  <2> QED BY <2>2, <2>3, <2>4, <2>5
<1>9. CASE Complete
  <2>1. /\ stage = "fine" /\ stage' = "send" /\ Incomplete = {}
        /\ UNCHANGED <<tree, snd, respCh, todo, outcome>>
    BY <1>9 DEF Complete, chans, round
  <2>2. SendersOK' /\ AnswersOK'
    BY <1>1, <2>1, RequestStays DEF IInv, SendersOK, AnswersOK
  <2>3. TreeOK' /\ StageOK' /\ todo' \subseteq AskedRanges'
    BY <1>1, <1>2, <2>1 DEF IInv, TreeOK, StageOK, Incomplete
  <2> QED BY <1>2, <2>2, <2>3 DEF IInv
<1>10. CASE Round
  <2>1. /\ stage = "fine" /\ stage' = "round" /\ todo' = Incomplete
        /\ snd' = [p \in Stores |-> [Idle EXCEPT !.at = "take"]]
        /\ UNCHANGED <<tree, respCh, outcome>>
    BY <1>10 DEF Round, chans
  <2>2. SendersOK'
    BY <1>1, <2>1, IdleOK, RequestStays DEF SendersOK
  <2>3. AnswersOK'
    BY <1>1, <2>1, RequestStays DEF IInv, AnswersOK
  <2>4. Incomplete \subseteq AskedRanges
    BY IncompleteInside DEF IInv, TreeOK, RequestOK, AskedRanges, Asked, Incomplete
  <2>5. TreeOK' /\ StageOK' /\ todo' \subseteq AskedRanges'
    BY <1>2, <2>1, <2>4 DEF IInv, TreeOK, StageOK
  <2> QED BY <1>2, <2>2, <2>3, <2>5 DEF IInv
<1> QED BY <1>4, <1>5, <1>7, <1>8, <1>9, <1>10 DEF Main

\* Every step keeps the invariant.
LEMMA NextIInv ==
  ASSUME IInv, [Next]_vars
  PROVE  IInv'
<1>1. KeyEnd \in Nat \ {0}
  BY BackupAssumption
<1>2. CASE Main
  BY <1>1, <1>2, MainOK
<1>3. CASE \E p \in Stores : Worker(p)
  BY <1>1, <1>3, WorkerOK
<1>4. ASSUME UNCHANGED backupVars, ClusterOK' PROVE IInv'
  <2>1. UNCHANGED <<req, stage, tree, snd, respCh, todo, outcome>>
    BY <1>4 DEF backupVars, chans, round
  <2>2. Asked' = Asked /\ AskedRanges' = AskedRanges /\ RequestOK'
    BY <2>1, RequestStays DEF IInv
  <2>3. SendersOK' /\ AnswersOK'
    BY <2>1, RequestStays DEF IInv, SendersOK, AnswersOK
  <2>4. TreeOK' /\ StageOK' /\ todo' \subseteq AskedRanges'
    BY <2>1, <2>2 DEF IInv, TreeOK, StageOK, Incomplete
  <2> QED BY <1>4, <2>2, <2>3, <2>4 DEF IInv
<1>5. CASE Moves
  BY <1>1, <1>4, <1>5, ClusterStepOK DEF Moves, IInv
<1>6. CASE UNCHANGED vars
  <2>1. UNCHANGED backupVars /\ regions' = regions
    BY <1>6 DEF vars, clusterVars
  <2>2. ClusterOK'
    BY <2>1 DEF IInv, ClusterOK, RegionsOK
  <2> QED BY <1>4, <2>1, <2>2
<1> QED BY <1>2, <1>3, <1>5, <1>6 DEF Next, Stopped

----------------------------------------------------------------------------
(* The theorems.                                                           *)

\* The ranges in the tree never overlap, whatever regions the stores saw when
\* they answered and in whatever order the answers arrive: for every key space,
\* plan, number of retries and history of splits, merges and lost connections
\* (RangeTree.Update, pushBackup, fineGrainedBackup).
THEOREM TreeStaysDisjoint ==
  Spec => []TreeDisjoint
<1>1. Init => IInv
  BY InitIInv
<1>2. IInv /\ [Next]_vars => IInv'
  BY NextIInv
<1>3. IInv => TreeDisjoint
  BY DEF IInv, TreeOK, TreeDisjoint
<1> QED BY <1>1, <1>2, <1>3, PTL DEF Spec

\* No request begins at the empty key, and the request never changes.
LEMMA RequestFrom ==
  ASSUME FromAKey
  PROVE  /\ Init => req.from # 0
         /\ [Next]_vars => UNCHANGED req
<1>1. Init => req.from # 0
  BY DEF Init, BackupInit, FromAKey
<1>2. [Next]_vars => UNCHANGED req
  <2>1. Main => UNCHANGED req
    BY Zenon DEF Main, Push, PushStops, NoStores, PushReceive, PushError, PushEnds, Complete, Round,
           FineReceive, FineError, FineEnds, SendFiles
  <2>2. \A p \in Stores : Worker(p) => UNCHANGED req
    BY Zenon DEF Worker, SendBackup, Take, NoMore
  <2>3. Moves \/ UNCHANGED vars => UNCHANGED req
    BY DEF Moves, vars, backupVars
  <2> QED BY <2>1, <2>2, <2>3 DEF Next, Stopped
<1> QED BY <1>1, <1>2

\* When the files go to the meta writer, every key of the request is in exactly
\* one of the ranges of the tree, and no other key is in any.
LEMMA SentCovers ==
  ASSUME IInv, stage = "send", req.from # 0, NEW k \in KeySpace
  PROVE  Cardinality({r \in tree : ContainsKey(r, k)}) = IF ContainsKey(Asked, k) THEN 1 ELSE 0
<1> DEFINE hit == {r \in tree : ContainsKey(r, k)}
<1>1. /\ KeyEnd \in Nat /\ k \in 0..(KeyEnd - 1) /\ tree \in SUBSET KeyRanges(KeyEnd) /\ Disjoint(tree)
      /\ Rg(req.from, req.to) \in KeyRanges(KeyEnd) /\ Asked = Rg(req.from, req.to)
      /\ \A r \in tree : Inside(r, Rg(req.from, req.to))
      /\ GetIncompleteRange(tree, req.from, req.to, KeyEnd + 1) = {}
  BY BackupAssumption DEF KeySpace, IInv, TreeOK, AskedRanges, RequestOK, Asked, StageOK, Incomplete
<1>2. CASE ContainsKey(Asked, k)
  <2>1. PICK r \in tree : ContainsKey(r, k)
    BY <1>1, <1>2, NoGap
  <2>2. \A q \in hit : q = r
    <3> SUFFICES ASSUME NEW q \in tree, ContainsKey(q, k), q # r PROVE FALSE
      OBVIOUS
    <3>1. Precedes(q, r) \/ Precedes(r, q)
      BY <1>1 DEF Disjoint
    <3> QED BY <1>1, <2>1, <3>1 DEF Precedes, ContainsKey, KeyRanges
  <2>3. hit = {r}
    BY <2>1, <2>2
  <2>4. Cardinality({r}) = 1
    BY FS_Singleton, Zenon
  <2> QED BY <1>2, <2>3, <2>4
<1>3. CASE ~ContainsKey(Asked, k)
  <2>1. hit = {}
    BY <1>1, <1>3 DEF ContainsKey, Inside, KeyRanges, Rg
  <2>2. Cardinality({}) = 0
    BY FS_EmptySet, Zenon
  <2> QED BY <1>3, <2>1, <2>2
<1> QED BY <1>2, <1>3

\* A step of BackupRange is a step of RangeBackup, or changes nothing of it.
LEMMA StepPromised ==
  ASSUME IInv, req.from # 0, UNCHANGED req, [Next]_vars
  PROVE  [Promise!Next]_<<req.from, req.to, IF outcome = "ok" THEN tree ELSE {}, outcome>>
<1> DEFINE files == IF outcome = "ok" THEN tree ELSE {}
<1>1. CASE outcome' = outcome /\ (outcome = "ok" => tree' = tree)
  BY <1>1
<1>2. CASE stage = "done"
  <2>1. ~Main
    BY <1>2 DEF Main, Push, PushStops, NoStores, PushReceive, PushError, PushEnds, Complete, Round,
                FineReceive, FineError, FineEnds, SendFiles, Pushing
  <2>2. outcome' = outcome /\ tree' = tree
    BY <2>1, Zenon DEF Next, Stopped, Moves, Worker, SendBackup, Take, NoMore, vars, backupVars
  <2> QED BY <1>1, <2>2
<1>3. CASE stage # "done" /\ outcome' = "error"
  <2>1. outcome = "none"
    BY <1>3 DEF IInv, StageOK
  <2> QED BY <1>3, <2>1 DEF Promise!Next, Promise!Fails
<1>4. CASE stage = "send" /\ SendFiles /\ outcome' = "ok"
  <2>1. tree' = tree /\ outcome = "none"
    BY <1>4 DEF SendFiles, IInv, StageOK
  <2>2. Promise!Covers
    <3>0. \A S : Promise!Cardinality(S) = Cardinality(S)
      BY DEF Promise!Cardinality, Cardinality
    <3> SUFFICES ASSUME NEW k \in KeySpace
                 PROVE  Cardinality({r \in files' : Promise!ContainsKey(r, k)})
                          = IF Promise!ContainsKey(Promise!Asked, k) THEN 1 ELSE 0
      BY <3>0 DEF Promise!Covers
    <3>1. {r \in files' : Promise!ContainsKey(r, k)} = {r \in tree : ContainsKey(r, k)}
      BY <1>4, <2>1 DEF Promise!ContainsKey, ContainsKey
    <3>2. Promise!ContainsKey(Promise!Asked, k) <=> ContainsKey(Asked, k)
      BY DEF Promise!ContainsKey, ContainsKey, Promise!Asked, Promise!Rg, Asked, Rg
    <3>3. Cardinality({r \in tree : ContainsKey(r, k)}) = IF ContainsKey(Asked, k) THEN 1 ELSE 0
      BY <1>4, SentCovers
    <3> QED BY <3>1, <3>2, <3>3
  <2> QED BY <1>4, <2>1, <2>2 DEF Promise!Next, Promise!Succeeds
<1>5. CASE stage # "done" /\ Main
  <2>1. outcome = "none"
    BY <1>5 DEF IInv, StageOK
  <2>2. outcome' = outcome \/ outcome' = "error" \/ (stage = "send" /\ SendFiles /\ outcome' = "ok")
    <3>1. CASE PushReceive
      <4>1. Head(respCh) \in Answer
        BY <3>1 DEF PushReceive, IInv, AnswersOK
      <4>2. Head(respCh).kind \in {"ok", "ignore", "bad"}
        BY <4>1 DEF Answer
      <4> QED BY <3>1, <4>2, Zenon DEF PushReceive, Finish
    <3>2. CASE SendFiles
      BY <3>2 DEF SendFiles, Finish
    <3>3. CASE ~PushReceive /\ ~SendFiles
      BY <1>5, <3>3 DEF Main, Push, PushStops, NoStores, PushError, PushEnds, Complete, Round,
                        FineReceive, FineError, FineEnds, Finish, ToFine
    <3> QED BY <3>1, <3>2, <3>3
  <2> QED BY <1>1, <1>3, <1>4, <1>5, <2>1, <2>2
<1>6. CASE ~Main
  <2>1. outcome' = outcome /\ tree' = tree
    BY <1>6, Zenon DEF Next, Stopped, Moves, Worker, SendBackup, Take, NoMore, vars, backupVars
  <2> QED BY <1>1, <2>1
<1> QED BY <1>2, <1>5, <1>6

\* BackupRange implements RangeBackup: when no range begins at the empty key, it
\* succeeds only with files whose ranges cover each key of its range exactly once
\* and nothing else, whatever the regions, the stores and the connections do
\* meanwhile (BackupRange, GetIncompleteRange).
THEOREM BackupRangeImplements ==
  ASSUME FromAKey
  PROVE  Spec => BacksUpRange
<1>1. Init => IInv /\ req.from # 0
  BY InitIInv, RequestFrom
<1>2. IInv /\ req.from # 0 /\ [Next]_vars => (IInv /\ req.from # 0)'
  BY NextIInv, RequestFrom
<1>3. Init => Promise!Init
  BY DEF Init, BackupInit, Promise!Init
<1>4. IInv /\ req.from # 0 /\ [Next]_vars
        => [Promise!Next]_<<req.from, req.to, IF outcome = "ok" THEN tree ELSE {}, outcome>>
  BY StepPromised, RequestFrom
<1> QED BY <1>1, <1>2, <1>3, <1>4, PTL DEF Spec, BacksUpRange, Promise!Spec
=============================================================================
