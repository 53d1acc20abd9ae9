---------------------------- MODULE ConsoleProofs ----------------------------
(* Proofs about Lists and Tail, and about Console, which puts them         *)
(* together.                                                               *)
(*                                                                         *)
(* Lists: its types, that the totals of an answer cover its page, and that *)
(* no row that stood still is missed by who reads all pages, for any rows, *)
(* page size and retention.  A row's rank, the number of selected rows in  *)
(* front of it, is what a page goes by: the inductive invariant says that  *)
(* what is due stands among the rows not written in this second, and is on *)
(* this page or has a rank behind it.  The rank of such a row never gets   *)
(* less, as all writes go in front of it; and a page with a row behind it  *)
(* is full, because no two rows have the same rank.                        *)
(*                                                                         *)
(* Tail: its types, that no line is passed over, that lines are printed in *)
(* their order, and that the offsets and sizes Follow works with implement *)
(* LogFeed, for any number of lines.                                       *)
(***************************************************************************)
EXTENDS Console, SequenceTheorems, FunctionTheorems, FiniteSetTheorems, TLAPS

-----------------------------------------------------------------------------
(* Lists.                                                                  *)

(* a stands somewhere before b.                                            *)
InFront(s, a, b) ==
  \E i \in 1 .. Len(s), j \in 1 .. Len(s) : i < j /\ s[i] = a /\ s[j] = b

-----------------------------------------------------------------------------
(* The sequences of rows: what a row that is put in, taken out or cut off  *)
(* leaves of the order of the others.                                      *)

(* t is s with e put in at place i.                                        *)
PutIn(t, s, i, e) ==
  /\ Len(t) = Len(s) + 1
  /\ \A k \in 1 .. Len(s) + 1 :
       t[k] = IF k < i THEN s[k] ELSE IF k = i THEN e ELSE s[k - 1]

LEMMA Inserted ==
  ASSUME NEW S, NEW s \in Seq(S), NEW e \in S, NEW i \in 1 .. Len(s) + 1
  PROVE  InsertAt(s, i, e) \in Seq(S) /\ PutIn(InsertAt(s, i, e), s, i, e)
<1> DEFINE num == Len(s)
           f == SubSeq(s, 1, i - 1)
           g == SubSeq(s, i, num)
<1>1. num \in Nat /\ i \in Nat /\ 1 <= i /\ i <= num + 1
  BY LenProperties
<1>2. \A k \in 1 .. num : s[k] \in S
  BY ElementOfSeq
<1> HIDE DEF num
<1>3. f \in Seq(S) /\ Len(f) = i - 1 /\ \A k \in 1 .. i - 1 : f[k] = s[k]
  <2>1. 1 \in Int /\ i - 1 \in Int /\ \A k \in 1 .. i - 1 : s[k] \in S
    BY <1>1, <1>2
  <2>2. /\ f \in Seq(S) /\ Len(f) = IF 1 <= i - 1 THEN i - 1 - 1 + 1 ELSE 0
        /\ \A k \in 1 .. i - 1 - 1 + 1 : f[k] = s[1 + k - 1]
    BY <2>1, SubSeqProperties
  <2> QED
    BY <1>1, <2>2
<1>4. /\ g \in Seq(S) /\ Len(g) = num - i + 1
      /\ \A k \in 1 .. num - i + 1 : g[k] = s[i + k - 1]
  <2>1. i \in Int /\ num \in Int /\ \A k \in i .. num : s[k] \in S
    BY <1>1, <1>2
  <2>2. /\ g \in Seq(S) /\ Len(g) = IF i <= num THEN num - i + 1 ELSE 0
        /\ \A k \in 1 .. num - i + 1 : g[k] = s[i + k - 1]
    BY <2>1, SubSeqProperties
  <2> QED
    BY <1>1, <2>2
<1>5. <<e>> \in Seq(S) /\ Len(<<e>>) = 1 /\ <<e>>[1] = e
  OBVIOUS
<1> HIDE DEF f, g
<1> DEFINE h == f \o <<e>>
<1>6. /\ h \in Seq(S) /\ Len(h) = i
      /\ \A k \in 1 .. i : h[k] = IF k < i THEN s[k] ELSE e
  <2>1. /\ h \in Seq(S) /\ Len(h) = Len(f) + Len(<<e>>)
        /\ \A k \in 1 .. Len(f) + Len(<<e>>) :
             h[k] = IF k <= Len(f) THEN f[k] ELSE <<e>>[k - Len(f)]
    BY <1>3, <1>5, ConcatProperties
  <2>2. Len(f) + Len(<<e>>) = i
    BY <1>1, <1>3, <1>5
  <2>3. ASSUME NEW k \in 1 .. i PROVE h[k] = IF k < i THEN s[k] ELSE e
    <3>1. CASE k < i
      BY <1>1, <1>3, <2>1, <2>2, <3>1
    <3>2. CASE k = i
      <4>1. ~(k <= Len(f)) /\ k - Len(f) = 1
        BY <1>1, <1>3, <3>2
      <4> QED
        BY <1>5, <2>1, <2>2, <3>2, <4>1
    <3>3. k < i \/ k = i
      BY <1>1, <2>3
    <3> QED
      BY <3>1, <3>2, <3>3
  <2> QED
    BY <2>1, <2>2, <2>3
<1> HIDE DEF h
<1>7. /\ h \o g \in Seq(S) /\ Len(h \o g) = Len(h) + Len(g)
      /\ \A k \in 1 .. Len(h) + Len(g) :
           (h \o g)[k] = IF k <= Len(h) THEN h[k] ELSE g[k - Len(h)]
  BY <1>4, <1>6, ConcatProperties
<1>8. Len(h) + Len(g) = num + 1
  BY <1>1, <1>4, <1>6
<1>9. ASSUME NEW k \in 1 .. num + 1
      PROVE  (h \o g)[k] = IF k < i THEN s[k] ELSE IF k = i THEN e ELSE s[k - 1]
  <2>1. CASE k <= i
    BY <1>1, <1>6, <1>7, <1>8, <2>1
  <2>2. CASE ~(k <= i)
    <3>1. k - i \in 1 .. num - i + 1 /\ i + (k - i) - 1 = k - 1
      BY <1>1, <2>2
    <3>2. (h \o g)[k] = g[k - i]
      BY <1>1, <1>6, <1>7, <1>8, <2>2
    <3>3. g[k - i] = s[k - 1]
      BY <1>4, <3>1
    <3> QED
      BY <1>1, <2>2, <3>2, <3>3
  <2> QED
    BY <2>1, <2>2
<1>10. InsertAt(s, i, e) = h \o g
  BY DEF InsertAt, h, f, g, num
<1> QED
  BY <1>7, <1>8, <1>9, <1>10 DEF num, PutIn

LEMMA Removed ==
  ASSUME NEW S, NEW s \in Seq(S), NEW p \in 1 .. Len(s)
  PROVE  /\ RemoveAt(s, p) \in Seq(S)
         /\ Len(RemoveAt(s, p)) = Len(s) - 1
         /\ \A k \in 1 .. Len(s) - 1 :
              RemoveAt(s, p)[k] = IF k < p THEN s[k] ELSE s[k + 1]
<1> DEFINE num == Len(s)
           f == SubSeq(s, 1, p - 1)
           g == SubSeq(s, p + 1, num)
<1>1. num \in Nat /\ p \in Nat /\ 1 <= p /\ p <= num
  BY LenProperties
<1>2. \A k \in 1 .. num : s[k] \in S
  BY ElementOfSeq
<1> HIDE DEF num
<1>3. f \in Seq(S) /\ Len(f) = p - 1 /\ \A k \in 1 .. p - 1 : f[k] = s[k]
  <2>1. 1 \in Int /\ p - 1 \in Int /\ \A k \in 1 .. p - 1 : s[k] \in S
    BY <1>1, <1>2
  <2>2. /\ f \in Seq(S) /\ Len(f) = IF 1 <= p - 1 THEN p - 1 - 1 + 1 ELSE 0
        /\ \A k \in 1 .. p - 1 - 1 + 1 : f[k] = s[1 + k - 1]
    BY <2>1, SubSeqProperties
  <2> QED
    BY <1>1, <2>2
<1>4. /\ g \in Seq(S) /\ Len(g) = num - p
      /\ \A k \in 1 .. num - p : g[k] = s[p + k]
  <2>1. p + 1 \in Int /\ num \in Int /\ \A k \in p + 1 .. num : s[k] \in S
    BY <1>1, <1>2
  <2>2. /\ g \in Seq(S)
        /\ Len(g) = IF p + 1 <= num THEN num - (p + 1) + 1 ELSE 0
        /\ \A k \in 1 .. num - (p + 1) + 1 : g[k] = s[p + 1 + k - 1]
    BY <2>1, SubSeqProperties
  <2>3. Len(g) = num - p
    BY <1>1, <2>2
  <2>4. ASSUME NEW k \in 1 .. num - p PROVE g[k] = s[p + k]
    <3>1. k \in 1 .. num - (p + 1) + 1 /\ p + 1 + k - 1 = p + k
      BY <1>1, <2>4
    <3> QED
      BY <2>2, <3>1
  <2> QED
    BY <2>2, <2>3, <2>4
<1> HIDE DEF f, g
<1>7. /\ f \o g \in Seq(S) /\ Len(f \o g) = Len(f) + Len(g)
      /\ \A k \in 1 .. Len(f) + Len(g) :
           (f \o g)[k] = IF k <= Len(f) THEN f[k] ELSE g[k - Len(f)]
  BY <1>3, <1>4, ConcatProperties
<1>8. Len(f) + Len(g) = num - 1
  BY <1>1, <1>3, <1>4
<1>9. ASSUME NEW k \in 1 .. num - 1
      PROVE  (f \o g)[k] = IF k < p THEN s[k] ELSE s[k + 1]
  <2>1. CASE k < p
    BY <1>1, <1>3, <1>7, <1>8, <2>1
  <2>2. CASE ~(k < p)
    <3>1. k - (p - 1) \in 1 .. num - p /\ p + (k - (p - 1)) = k + 1
      BY <1>1, <2>2
    <3>2. (f \o g)[k] = g[k - (p - 1)]
      BY <1>1, <1>3, <1>7, <1>8, <2>2
    <3>3. g[k - (p - 1)] = s[k + 1]
      BY <1>4, <3>1
    <3> QED
      BY <2>2, <3>2, <3>3
  <2> QED
    BY <2>1, <2>2
<1>10. RemoveAt(s, p) = f \o g
  BY DEF RemoveAt, f, g, num
<1> QED
  BY <1>7, <1>8, <1>9, <1>10 DEF num

(* A row r that is put in.                                                 *)
LEMMA InsertKeeps ==
  ASSUME NEW S, NEW s \in Seq(S), IsInjective(s), NEW e \in S,
         e \notin ToSet(s), NEW i \in 1 .. Len(s) + 1,
         NEW t, t = InsertAt(s, i, e)
  PROVE  /\ t \in Seq(S) /\ Len(t) = Len(s) + 1
         /\ IsInjective(t)
         /\ ToSet(t) = ToSet(s) \cup {e}
         /\ \A a, b : InFront(s, a, b) => InFront(t, a, b)
         /\ \A k \in i .. Len(s) : t[k + 1] = s[k] /\ InFront(t, e, s[k])
<1>1. Len(s) \in Nat /\ DOMAIN s = 1 .. Len(s)
  BY LenProperties
<1>2. /\ t \in Seq(S) /\ Len(t) = Len(s) + 1
      /\ \A k \in 1 .. Len(s) + 1 :
           t[k] = IF k < i THEN s[k] ELSE IF k = i THEN e ELSE s[k - 1]
  <2>1. t \in Seq(S) /\ PutIn(t, s, i, e)
    BY Inserted
  <2> QED
    BY <2>1 DEF PutIn
<1>3. DOMAIN t = 1 .. Len(s) + 1
  BY <1>2, LenProperties
<1>4. /\ i \in 1 .. Len(s) + 1 /\ t[i] = e
      /\ \A k \in 1 .. Len(s) : k < i => t[k] = s[k] /\ k \in 1 .. Len(s) + 1
      /\ \A k \in 1 .. Len(s) :
           ~(k < i) => t[k + 1] = s[k] /\ k + 1 \in 1 .. Len(s) + 1
  BY <1>1, <1>2
<1>5. \A k \in 1 .. Len(s) : s[k] # e
  BY <1>1 DEF ToSet
<1>6. \A k \in 1 .. Len(s) + 1 :
        \/ k < i /\ k \in 1 .. Len(s) /\ t[k] = s[k]
        \/ k = i /\ t[k] = e
        \/ i < k /\ k - 1 \in 1 .. Len(s) /\ t[k] = s[k - 1]
  BY <1>1, <1>2
<1>7. IsInjective(t)
  <2> SUFFICES ASSUME NEW a \in 1 .. Len(s) + 1, NEW b \in 1 .. Len(s) + 1,
                      t[a] = t[b]
               PROVE  a = b
    BY <1>3 DEF IsInjective
  <2>1. \A k, l \in 1 .. Len(s) : s[k] = s[l] => k = l
    BY <1>1 DEF IsInjective
  <2>2. CASE a = i \/ b = i
    BY <1>5, <1>6, <2>2
  <2>3. CASE a < i /\ b < i
    BY <1>6, <2>1, <2>3
  <2>4. CASE i < a /\ i < b
    BY <1>6, <2>1, <2>4
  <2>5. CASE a < i /\ i < b
    <3>1. a \in 1 .. Len(s) /\ b - 1 \in 1 .. Len(s) /\ s[a] = s[b - 1]
      BY <1>6, <2>5
    <3> QED
      BY <2>1, <2>5, <3>1
  <2>6. CASE i < a /\ b < i
    <3>1. b \in 1 .. Len(s) /\ a - 1 \in 1 .. Len(s) /\ s[b] = s[a - 1]
      BY <1>6, <2>6
    <3> QED
      BY <2>1, <2>6, <3>1
  <2> QED
    BY <1>1, <2>2, <2>3, <2>4, <2>5, <2>6
<1>8. ToSet(t) = ToSet(s) \cup {e}
  <2>1. ToSet(t) \subseteq ToSet(s) \cup {e}
    BY <1>1, <1>3, <1>6 DEF ToSet
  <2>2. ToSet(s) \cup {e} \subseteq ToSet(t)
    BY <1>1, <1>3, <1>4 DEF ToSet
  <2> QED
    BY <2>1, <2>2
<1>9. ASSUME NEW a, NEW b, InFront(s, a, b) PROVE InFront(t, a, b)
  <2>1. PICK k \in 1 .. Len(s), l \in 1 .. Len(s) :
          k < l /\ s[k] = a /\ s[l] = b
    BY <1>9 DEF InFront
  <2> DEFINE place(m) == IF m < i THEN m ELSE m + 1
  <2>2. /\ place(k) \in 1 .. Len(t) /\ t[place(k)] = a
        /\ place(l) \in 1 .. Len(t) /\ t[place(l)] = b
    BY <1>2, <1>4, <2>1
  <2>3. place(k) < place(l)
    BY <1>1, <2>1
  <2> QED
    BY <2>2, <2>3 DEF InFront
<1>10. ASSUME NEW k \in i .. Len(s)
       PROVE  t[k + 1] = s[k] /\ InFront(t, e, s[k])
  <2>1. /\ k + 1 \in 1 .. Len(t) /\ t[k + 1] = s[k] /\ i < k + 1
        /\ i \in 1 .. Len(t) /\ t[i] = e
    BY <1>1, <1>2, <1>4
  <2> QED
    BY <2>1 DEF InFront
<1> QED
  BY <1>2, <1>7, <1>8, <1>9, <1>10

(* A row that is taken out.                                                *)
LEMMA RemoveKeeps ==
  ASSUME NEW S, NEW s \in Seq(S), IsInjective(s), NEW p \in 1 .. Len(s),
         NEW t, t = RemoveAt(s, p)
  PROVE  /\ t \in Seq(S) /\ Len(t) = Len(s) - 1
         /\ IsInjective(t)
         /\ ToSet(t) = ToSet(s) \ {s[p]}
         /\ \A a, b : a # s[p] /\ b # s[p] /\ InFront(s, a, b)
                        => InFront(t, a, b)
         /\ \A k \in 1 .. Len(s) : k < p => t[k] = s[k]
         /\ \A k \in 1 .. Len(s) : p < k => t[k - 1] = s[k]
<1>1. Len(s) \in Nat /\ DOMAIN s = 1 .. Len(s)
  BY LenProperties
<1>2. /\ t \in Seq(S) /\ Len(t) = Len(s) - 1
      /\ \A k \in 1 .. Len(s) - 1 : t[k] = IF k < p THEN s[k] ELSE s[k + 1]
  BY Removed
<1>3. DOMAIN t = 1 .. Len(s) - 1
  BY <1>2, LenProperties
<1>4. \A k, l \in 1 .. Len(s) : s[k] = s[l] => k = l
  BY <1>1 DEF IsInjective
<1>5. \A k \in 1 .. Len(s) : k < p => t[k] = s[k] /\ k \in 1 .. Len(s) - 1
  BY <1>1, <1>2
<1>6. \A k \in 1 .. Len(s) :
        p < k => t[k - 1] = s[k] /\ k - 1 \in 1 .. Len(s) - 1
  <2> SUFFICES ASSUME NEW k \in 1 .. Len(s), p < k
               PROVE  t[k - 1] = s[k] /\ k - 1 \in 1 .. Len(s) - 1
    OBVIOUS
  <2>1. k - 1 \in 1 .. Len(s) - 1 /\ ~(k - 1 < p) /\ k - 1 + 1 = k
    BY <1>1
  <2> QED
    BY <1>2, <2>1
<1>7. \A k \in 1 .. Len(s) - 1 :
        \/ k < p /\ k \in 1 .. Len(s) /\ t[k] = s[k]
        \/ p <= k /\ k + 1 \in 1 .. Len(s) /\ t[k] = s[k + 1]
  BY <1>1, <1>2
<1>8. IsInjective(t)
  <2> SUFFICES ASSUME NEW a \in 1 .. Len(s) - 1, NEW b \in 1 .. Len(s) - 1,
                      t[a] = t[b]
               PROVE  a = b
    BY <1>3 DEF IsInjective
  <2>1. CASE a < p /\ b < p
    BY <1>4, <1>7, <2>1
  <2>2. CASE p <= a /\ p <= b
    <3>1. /\ a + 1 \in 1 .. Len(s) /\ b + 1 \in 1 .. Len(s)
          /\ s[a + 1] = s[b + 1]
      BY <1>7, <2>2
    <3>2. a + 1 = b + 1
      BY <1>4, <3>1
    <3> QED
      BY <3>2
  <2>3. CASE a < p /\ p <= b
    <3>1. a \in 1 .. Len(s) /\ b + 1 \in 1 .. Len(s) /\ s[a] = s[b + 1]
      BY <1>7, <2>3
    <3>2. a = b + 1
      BY <1>4, <3>1
    <3> QED
      BY <2>3, <3>2
  <2>4. CASE p <= a /\ b < p
    <3>1. b \in 1 .. Len(s) /\ a + 1 \in 1 .. Len(s) /\ s[b] = s[a + 1]
      BY <1>7, <2>4
    <3>2. b = a + 1
      BY <1>4, <3>1
    <3> QED
      BY <2>4, <3>2
  <2> QED
    BY <1>1, <2>1, <2>2, <2>3, <2>4
<1>9. ToSet(t) = ToSet(s) \ {s[p]}
  <2>1. ASSUME NEW k \in 1 .. Len(s) - 1 PROVE t[k] \in ToSet(s) \ {s[p]}
    <3>1. PICK l \in 1 .. Len(s) : l # p /\ t[k] = s[l]
      <4>1. CASE k < p
        BY <1>7, <4>1
      <4>2. CASE p <= k
        BY <1>7, <4>2
      <4> QED
        BY <1>1, <4>1, <4>2
    <3> QED
      BY <1>1, <1>4, <3>1 DEF ToSet
  <2>2. ASSUME NEW k \in 1 .. Len(s), s[k] # s[p] PROVE s[k] \in ToSet(t)
    <3>1. k < p \/ p < k
      BY <2>2
    <3>2. PICK l \in 1 .. Len(s) - 1 : t[l] = s[k]
      BY <1>5, <1>6, <3>1
    <3> QED
      BY <1>3, <3>2 DEF ToSet
  <2> QED
    BY <1>1, <1>3, <2>1, <2>2 DEF ToSet
<1>10. ASSUME NEW a, NEW b, a # s[p], b # s[p], InFront(s, a, b)
       PROVE  InFront(t, a, b)
  <2>1. PICK k \in 1 .. Len(s), l \in 1 .. Len(s) :
          k < l /\ s[k] = a /\ s[l] = b
    BY <1>10 DEF InFront
  <2> DEFINE place(m) == IF m < p THEN m ELSE m - 1
  <2>2. k # p /\ l # p
    BY <1>10, <2>1
  <2>3. place(k) \in 1 .. Len(t) /\ t[place(k)] = a
    BY <1>2, <1>5, <1>6, <2>1, <2>2
  <2>4. place(l) \in 1 .. Len(t) /\ t[place(l)] = b
    BY <1>2, <1>5, <1>6, <2>1, <2>2
  <2>5. place(k) < place(l)
    BY <1>1, <2>1, <2>2
  <2> QED
    BY <2>3, <2>4, <2>5 DEF InFront
<1> QED
  BY <1>2, <1>5, <1>6, <1>8, <1>9, <1>10

(* The rows after the first m that are cut off.                            *)
CutOff(t, s, m) == t = SubSeq(s, 1, m)

LEMMA PrefixKeeps ==
  ASSUME NEW S, NEW s \in Seq(S), IsInjective(s), NEW m \in 0 .. Len(s),
         NEW t, CutOff(t, s, m)
  PROVE  /\ t \in Seq(S) /\ Len(t) = m
         /\ IsInjective(t)
         /\ ToSet(t) \subseteq ToSet(s)
         /\ \A k \in 1 .. m : t[k] = s[k]
         /\ \A a, b : b \in ToSet(t) /\ InFront(s, a, b) => InFront(t, a, b)
<1>1. Len(s) \in Nat /\ DOMAIN s = 1 .. Len(s) /\ m \in Nat /\ m <= Len(s)
  BY LenProperties
<1>2. t \in Seq(S) /\ Len(t) = m /\ \A k \in 1 .. m : t[k] = s[k]
  <2>1. 1 \in Int /\ m \in Int /\ \A k \in 1 .. m : s[k] \in S
    BY <1>1, ElementOfSeq
  <2>2. /\ t \in Seq(S) /\ Len(t) = IF 1 <= m THEN m - 1 + 1 ELSE 0
        /\ \A k \in 1 .. m - 1 + 1 : t[k] = s[1 + k - 1]
    BY <2>1, SubSeqProperties DEF CutOff
  <2> QED
    BY <1>1, <2>2
<1>3. DOMAIN t = 1 .. m /\ \A k \in 1 .. m : k \in 1 .. Len(s)
  BY <1>1, <1>2, LenProperties
<1>4. IsInjective(t)
  BY <1>1, <1>2, <1>3 DEF IsInjective
<1>5. ToSet(t) \subseteq ToSet(s)
  BY <1>1, <1>2, <1>3 DEF ToSet
<1>6. ASSUME NEW a, NEW b, b \in ToSet(t), InFront(s, a, b)
      PROVE  InFront(t, a, b)
  <2>1. PICK k \in 1 .. Len(s), l \in 1 .. Len(s) :
          k < l /\ s[k] = a /\ s[l] = b
    BY <1>6 DEF InFront
  <2>2. PICK j \in 1 .. m : t[j] = b
    BY <1>3, <1>6 DEF ToSet
  <2>3. j = l
    BY <1>1, <1>2, <1>3, <2>1, <2>2 DEF IsInjective
  <2>4. k \in 1 .. m /\ l \in 1 .. m
    BY <1>1, <2>1, <2>2, <2>3
  <2> QED
    BY <1>2, <2>1, <2>4 DEF InFront
<1> QED
  BY <1>2, <1>4, <1>5, <1>6

-----------------------------------------------------------------------------
(* The places of the rows.                                                 *)

LEMMA ToSetFinite ==
  ASSUME NEW S, NEW s \in Seq(S)
  PROVE  IsFiniteSet(ToSet(s))
<1>1. s \in [1 .. Len(s) -> S] /\ Len(s) \in Nat /\ DOMAIN s = 1 .. Len(s)
  BY LenProperties
<1>2. s \in [1 .. Len(s) -> ToSet(s)]
  BY <1>1 DEF ToSet
<1>3. s \in Surjection(1 .. Len(s), ToSet(s))
  BY <1>1, <1>2, Fun_IsSurj DEF ToSet
<1>4. IsFiniteSet(1 .. Len(s))
  BY <1>1, FS_Interval
<1> QED
  BY <1>3, <1>4, FS_Surjection

LEMMA WrittenIsToSet == Written = ToSet(order)
BY DEF Written, ToSet

LEMMA AheadInFront ==
  ASSUME NEW r, order \in Seq(Rows)
  PROVE  \A q : q \in Ahead(r) <=> InFront(order, q, r)
<1>1. DOMAIN order = 1 .. Len(order)
  BY LenProperties
<1> QED
  BY <1>1 DEF Ahead, InFront

LEMMA SelectedFinite ==
  ASSUME order \in Seq(Rows), NEW recent \in BOOLEAN
  PROVE  /\ IsFiniteSet(Written) /\ Cardinality(Written) \in Nat
         /\ Selected(recent) \subseteq Written
         /\ IsFiniteSet(Selected(recent))
         /\ Cardinality(Selected(recent)) \in Nat
         /\ Cardinality(Selected(recent)) <= Cardinality(Written)
<1>1. IsFiniteSet(Written)
  BY ToSetFinite, WrittenIsToSet
<1>2. Selected(recent) \in SUBSET Written
  BY DEF Selected
<1>3. /\ IsFiniteSet(Selected(recent))
      /\ Cardinality(Selected(recent)) <= Cardinality(Written)
  BY <1>1, <1>2, FS_Subset
<1> QED
  BY <1>1, <1>2, <1>3, FS_CardinalityType

(* No two rows of a selection have the same rank, and ranks count from     *)
(* zero on.                                                                *)
LEMMA RanksDiffer ==
  ASSUME order \in Seq(Rows), IsInjective(order), NEW recent \in BOOLEAN
  PROVE  /\ \A r : Rank(recent, r) \in Nat
         /\ \A r \in Selected(recent) :
              Rank(recent, r) < Cardinality(Selected(recent))
         /\ \A q, r \in Selected(recent) :
              Rank(recent, q) = Rank(recent, r) => q = r
<1> DEFINE S == Selected(recent)
           A(r) == Ahead(r) \cap S
<1>1. DOMAIN order = 1 .. Len(order) /\ Len(order) \in Nat
  BY LenProperties
<1>2. S \subseteq Written /\ IsFiniteSet(S) /\ Cardinality(S) \in Nat
  BY SelectedFinite
<1>3. \A i, j \in 1 .. Len(order) : order[i] = order[j] => i = j
  BY <1>1 DEF IsInjective
<1> HIDE DEF S
<1>4. ASSUME NEW r
      PROVE  /\ A(r) \in SUBSET S /\ IsFiniteSet(A(r))
             /\ Cardinality(A(r)) \in Nat
             /\ Cardinality(A(r)) <= Cardinality(S)
             /\ Cardinality(S) = Cardinality(A(r)) => S = A(r)
  <2>1. A(r) \in SUBSET S
    OBVIOUS
  <2> HIDE DEF A
  <2> QED
    BY <1>2, <2>1, FS_Subset, FS_CardinalityType
<1>5. ASSUME NEW r PROVE r \notin A(r)
  <2>1. ~InFront(order, r, r)
    BY <1>1, <1>3 DEF InFront
  <2> QED
    BY <2>1, AheadInFront
<1>6. ASSUME NEW q \in S, NEW r \in S, InFront(order, q, r)
      PROVE  Cardinality(A(q)) < Cardinality(A(r))
  <2>1. PICK i \in 1 .. Len(order), j \in 1 .. Len(order) :
          i < j /\ order[i] = q /\ order[j] = r
    BY <1>6 DEF InFront
  <2>2. ASSUME NEW p, InFront(order, p, q) PROVE InFront(order, p, r)
    <3>1. PICK k \in 1 .. Len(order), l \in 1 .. Len(order) :
            k < l /\ order[k] = p /\ order[l] = q
      BY <2>2 DEF InFront
    <3>2. l = i
      BY <1>3, <2>1, <3>1
    <3>3. k < j
      BY <1>1, <2>1, <3>1, <3>2
    <3> QED
      BY <2>1, <3>1, <3>3 DEF InFront
  <2>3. \A p : p \in Ahead(q) => p \in Ahead(r)
    BY <2>2, AheadInFront
  <2>4. A(q) \in SUBSET A(r)
    BY <2>3
  <2>5. q \in A(r)
    BY <1>6, AheadInFront
  <2>6. q \notin A(q)
    BY <1>5
  <2>7. IsFiniteSet(A(r)) /\ Cardinality(A(r)) \in Nat
        /\ Cardinality(A(q)) \in Nat
    BY <1>4
  <2> HIDE DEF A
  <2>8. /\ Cardinality(A(q)) <= Cardinality(A(r))
        /\ Cardinality(A(r)) = Cardinality(A(q)) => A(r) = A(q)
    BY <2>4, <2>7, FS_Subset
  <2>9. A(r) # A(q)
    BY <2>5, <2>6
  <2> QED
    BY <2>7, <2>8, <2>9
<1>7. \A r : Rank(recent, r) = Cardinality(A(r))
  BY DEF Rank, S
<1>8. ASSUME NEW r \in S PROVE Cardinality(A(r)) < Cardinality(S)
  <2>1. S # A(r)
    BY <1>5, <1>8
  <2> HIDE DEF A
  <2> QED
    BY <1>2, <1>4, <2>1
<1>9. ASSUME NEW q \in S, NEW r \in S, Cardinality(A(q)) = Cardinality(A(r))
      PROVE  q = r
  <2>1. PICK i \in 1 .. Len(order), j \in 1 .. Len(order) :
          order[i] = q /\ order[j] = r
    BY <1>1, <1>2, <1>9 DEF Written
  <2>2. ~InFront(order, q, r) /\ ~InFront(order, r, q)
    <3> HIDE DEF A
    <3>1. Cardinality(A(q)) \in Nat /\ Cardinality(A(r)) \in Nat
      BY <1>4
    <3> QED
      BY <1>6, <1>9, <3>1
  <2>3. ~(i < j) /\ ~(j < i)
    BY <2>1, <2>2 DEF InFront
  <2>4. i = j
    BY <1>1, <2>1, <2>3
  <2> QED
    BY <2>1, <2>4
<1> HIDE DEF A
<1>10. \A r : Rank(recent, r) \in Nat
  BY <1>4, <1>7
<1>11. \A r \in S : Rank(recent, r) < Cardinality(S)
  BY <1>7, <1>8
<1>12. \A q, r \in S : Rank(recent, q) = Rank(recent, r) => q = r
  BY <1>7, <1>9
<1> QED
  BY <1>10, <1>11, <1>12 DEF S

(* As many rows as there are ranks for them.                               *)
LEMMA RanksBound ==
  ASSUME order \in Seq(Rows), IsInjective(order), NEW recent \in BOOLEAN,
         NEW X \in SUBSET Selected(recent), NEW a \in Int, NEW b \in Int,
         a <= b + 1,
         \A r \in X : a <= Rank(recent, r) /\ Rank(recent, r) <= b
  PROVE  /\ IsFiniteSet(X) /\ Cardinality(X) \in Nat
         /\ Cardinality(X) <= b - a + 1
<1> DEFINE f == [r \in X |-> Rank(recent, r)]
<1>1. \A r : Rank(recent, r) \in Nat
  BY RanksDiffer
<1>2. f \in [X -> a .. b]
  BY <1>1
<1>3. \A q, r \in X : f[q] = f[r] => q = r
  <2>1. \A q, r \in X : Rank(recent, q) = Rank(recent, r) => q = r
    BY RanksDiffer
  <2> QED
    BY <2>1
<1> HIDE DEF f
<1>4. f \in Injection(X, a .. b)
  BY <1>2, <1>3, Fun_IsInj
<1>5. /\ IsFiniteSet(a .. b)
      /\ Cardinality(a .. b) = IF a > b THEN 0 ELSE b - a + 1
  BY FS_Interval
<1>6. IsFiniteSet(X) /\ Cardinality(X) <= Cardinality(a .. b)
  BY <1>4, <1>5, FS_Injection
<1>7. Cardinality(a .. b) = b - a + 1
  BY <1>5
<1> QED
  BY <1>6, <1>7, FS_CardinalityType

(* A page that is not empty ends within the selection, and one that has a  *)
(* row of the selection after it is full.                                  *)
LEMMA PageBounds ==
  ASSUME order \in Seq(Rows), IsInjective(order), NEW recent \in BOOLEAN,
         NEW from \in Nat
  PROVE  /\ Page(recent, from) \subseteq Selected(recent)
         /\ IsFiniteSet(Page(recent, from))
         /\ Cardinality(Page(recent, from)) \in Nat
         /\ Page(recent, from) # {}
              => from + Cardinality(Page(recent, from))
                   <= Cardinality(Selected(recent))
         /\ \A r \in Selected(recent) :
              from + PageSize <= Rank(recent, r)
                => PageSize <= Cardinality(Page(recent, from))
<1> DEFINE S == Selected(recent)
           P == Page(recent, from)
           num == Cardinality(S)
           R(r) == Rank(recent, r)
<1>0. PageSize \in Nat /\ PageSize > 0
  BY ListsAssumption
<1>1. num \in Nat /\ IsFiniteSet(S)
  BY SelectedFinite
<1>2. /\ \A r : R(r) \in Nat
      /\ \A r \in S : R(r) < num
  BY RanksDiffer
<1>3. P \in SUBSET S
  BY DEF Page
<1>4. \A r \in S : r \in P <=> from <= R(r) /\ R(r) < from + PageSize
  BY DEF Page
<1> DEFINE Low == {r \in S : R(r) < from}
           High == {r \in S : from + PageSize <= R(r)}
<1> HIDE DEF num, R
<1>5. IsFiniteSet(P) /\ Cardinality(P) \in Nat
  BY <1>1, <1>3, FS_Subset, FS_CardinalityType
<1>6. ASSUME P # {} PROVE from + Cardinality(P) <= num
  <2>1. PICK r \in P : TRUE
    BY <1>6
  <2>2. from < num
    <3>1. r \in S /\ from <= R(r) /\ R(r) < num /\ R(r) \in Nat
      BY <1>2, <1>3, <1>4, <2>1
    <3> QED
      BY <1>1, <3>1
  <2>3. \A q \in P : from <= R(q) /\ R(q) <= num - 1
    BY <1>1, <1>2, <1>3, <1>4
  <2>4. from \in Int /\ num - 1 \in Int /\ from <= num - 1 + 1
    BY <1>1, <2>2
  <2> HIDE DEF P
  <2>5. Cardinality(P) <= num - 1 - from + 1
    BY <1>3, <2>3, <2>4, RanksBound DEF R
  <2> QED
    BY <1>1, <1>5, <2>5
<1>7. ASSUME NEW r \in S, from + PageSize <= R(r)
      PROVE  PageSize <= Cardinality(P)
  <2>1. from + PageSize < num
    BY <1>0, <1>1, <1>2, <1>7
  <2>2. IsFiniteSet(Low) /\ Cardinality(Low) \in Nat /\ Cardinality(Low) <= from
    <3>1. Low \in SUBSET S /\ \A q \in Low : 0 <= R(q) /\ R(q) <= from - 1
      BY <1>2
    <3>2. 0 \in Int /\ from - 1 \in Int /\ 0 <= from - 1 + 1
      OBVIOUS
    <3> HIDE DEF Low
    <3>3. IsFiniteSet(Low) /\ Cardinality(Low) \in Nat
          /\ Cardinality(Low) <= from - 1 - 0 + 1
      BY <3>1, <3>2, RanksBound DEF R
    <3> QED
      BY <3>3
  <2>3. /\ IsFiniteSet(High) /\ Cardinality(High) \in Nat
        /\ Cardinality(High) <= num - (from + PageSize)
    <3>1. High \in SUBSET S
          /\ \A q \in High : from + PageSize <= R(q) /\ R(q) <= num - 1
      BY <1>1, <1>2
    <3>2. from + PageSize \in Int /\ num - 1 \in Int
          /\ from + PageSize <= num - 1 + 1
      BY <1>0, <1>1, <2>1
    <3> HIDE DEF High
    <3>3. IsFiniteSet(High) /\ Cardinality(High) \in Nat
          /\ Cardinality(High) <= num - 1 - (from + PageSize) + 1
      BY <3>1, <3>2, RanksBound DEF R
    <3> QED
      BY <1>0, <1>1, <3>3
  <2>4. S = Low \cup (P \cup High)
    <3>1. \A q \in S : q \in Low \/ q \in P \/ q \in High
      BY <1>0, <1>2, <1>4
    <3> QED
      BY <1>3, <3>1
  <2> HIDE DEF Low, High, P, S
  <2>5. /\ IsFiniteSet(P \cup High) /\ Cardinality(P \cup High) \in Nat
        /\ Cardinality(P \cup High) <= Cardinality(P) + Cardinality(High)
    <3>1. /\ IsFiniteSet(P \cup High)
          /\ Cardinality(P \cup High) =
               Cardinality(P) + Cardinality(High) - Cardinality(P \cap High)
      BY <1>5, <2>3, FS_Union
    <3>2. Cardinality(P \cap High) \in Nat
      BY <1>5, FS_Intersection, FS_CardinalityType
    <3> QED
      BY <1>5, <2>3, <3>1, <3>2, FS_CardinalityType
  <2>6. num <= Cardinality(Low) + Cardinality(P \cup High)
    <3>1. Cardinality(S) =
            Cardinality(Low) + Cardinality(P \cup High)
              - Cardinality(Low \cap (P \cup High))
      BY <2>2, <2>4, <2>5, FS_Union
    <3>2. Cardinality(Low \cap (P \cup High)) \in Nat
      BY <2>2, FS_Intersection, FS_CardinalityType
    <3> QED
      BY <2>2, <2>5, <3>1, <3>2 DEF num
  <2> QED
    BY <1>0, <1>1, <1>5, <2>2, <2>3, <2>5, <2>6
<1> QED
  BY <1>3, <1>5, <1>6, <1>7 DEF num, R

-----------------------------------------------------------------------------
(* The inductive invariant.                                                *)

Reading == walk # NoWalk

(* The rows that were not written in this second; all those of the log.    *)
Older == {order[i] : i \in {j \in DOMAIN order : table = "tasks" => j > sec}}

(* What is due stands still: nothing is written behind it.                 *)
DueStands ==
  Reading =>
    /\ due \subseteq Older
    /\ walk.recent \/ ~shrunk => due \subseteq Selected(walk.recent)

(* What is due and was not on a page yet is on this one or on a later one, *)
(* and if it is on a later one then this one is full.                      *)
StillToCome(r) ==
  IF walk.step = "page" THEN walk.offset <= Rank(walk.recent, r)
  ELSE \/ r \in walk.items
       \/ /\ walk.offset + PageSize <= Rank(walk.recent, r)
          /\ PageSize <= Cardinality(walk.items)

DuePending ==
  Reading /\ (walk.recent \/ ~shrunk) =>
    \A r \in due : r \notin seen => StillToCome(r)

(* What was listed is counted, and what was counted is in the sum.         *)
CountsStand ==
  Reading =>
    /\ IsFiniteSet(walk.items)
    /\ walk.step \notin {"page", "total"} /\ walk.recent
         /\ walk.items # {} /\ walk.total # 0
       => walk.offset + Cardinality(walk.items) <= walk.total
    /\ walk.step = "total" /\ walk.recent /\ walk.items # {}
       => walk.offset + Cardinality(walk.items) <= Cardinality(Written)
    /\ walk.step = "counts" => walk.total <= Cardinality(Written)
    /\ walk.step = "answer" /\ table = "tasks" /\ walk.counts # 0
       => walk.total <= walk.counts

(* The audit log is ordered by its ids.                                    *)
NoSeconds == table = "audit" => sec = 0

ListsInv ==
  ListsTypeOK /\ NoSeconds /\ DueStands /\ DuePending /\ CountsStand

LEMMA ListsInitInv == ListsInit => ListsInv
<1> SUFFICES ASSUME ListsInit PROVE ListsInv
  OBVIOUS
<1>1. order \in Seq(Rows) /\ Len(order) = 0 /\ DOMAIN order = {}
  BY EmptySeq DEF ListsInit
<1>2. IsInjective(order) /\ sec \in 0 .. Len(order)
  BY <1>1 DEF ListsInit, IsInjective
<1>3. ListsTypeOK
  BY <1>1, <1>2 DEF ListsInit, ListsTypeOK
<1> QED
  BY <1>3 DEF ListsInit, ListsInv, NoSeconds, DueStands, DuePending, CountsStand, Reading

(* A selection with more rows in front of r gives it no lower rank.        *)
LEMMA RankGrows ==
  ASSUME order' \in Seq(Rows), NEW recent \in BOOLEAN,
         NEW r, Ahead(r) \cap Selected(recent)
                  \subseteq Ahead(r)' \cap Selected(recent)'
  PROVE  /\ Rank(recent, r) \in Nat /\ Rank(recent, r)' \in Nat
         /\ Rank(recent, r) <= Rank(recent, r)'
<1> DEFINE A == Ahead(r) \cap Selected(recent)
           B == Ahead(r)' \cap Selected(recent)'
<1>1. Written' = ToSet(order')
  BY DEF Written, ToSet
<1>2. IsFiniteSet(Written')
  BY <1>1, ToSetFinite
<1>3. B \in SUBSET Written'
  BY DEF Selected
<1>4. A \in SUBSET B
  OBVIOUS
<1>5. Rank(recent, r) = Cardinality(A) /\ Rank(recent, r)' = Cardinality(B)
  BY DEF Rank
<1> HIDE DEF A, B
<1>6. IsFiniteSet(B) /\ Cardinality(B) \in Nat
  BY <1>2, <1>3, FS_Subset, FS_CardinalityType
<1>7. IsFiniteSet(A) /\ Cardinality(A) \in Nat
      /\ Cardinality(A) <= Cardinality(B)
  BY <1>4, <1>6, FS_Subset, FS_CardinalityType
<1> QED
  BY <1>5, <1>6, <1>7

(* What the hub does, as the reader's bookkeeping sees it.                 *)
LEMMA HubKeeps ==
  ASSUME ListsInv, ListsTypeOK', NoSeconds', UNCHANGED <<table, walk, seen>>,
         Reading => due' \subseteq due \cap Older',
         Reading => walk.step = "page" \/ Written \subseteq Written',
         Reading /\ (walk.recent \/ ~shrunk') =>
           /\ walk.recent \/ ~shrunk
           /\ due' \subseteq Selected(walk.recent)'
           /\ \A r \in due' : Ahead(r) \cap Selected(walk.recent)
                                \subseteq Ahead(r)' \cap Selected(walk.recent)'
  PROVE  ListsInv'
<1>1. CASE ~Reading
  BY <1>1 DEF ListsInv, DueStands, DuePending, CountsStand, Reading
<1>2. CASE Reading
  <2>1. /\ walk \in Walk /\ walk' = walk /\ order' \in Seq(Rows)
        /\ order \in Seq(Rows) /\ Reading' /\ PageSize \in Nat
    BY <1>2, ListsAssumption DEF ListsInv, ListsTypeOK, Reading
  <2>2. DueStands'
    BY <1>2, <2>1 DEF ListsInv, DueStands, Selected
  <2>3. DuePending'
    <3> SUFFICES ASSUME walk.recent \/ ~shrunk', NEW r \in due', r \notin seen
                 PROVE  StillToCome(r)'
      BY <2>1 DEF DuePending
    <3>1. StillToCome(r)
      BY <1>2 DEF ListsInv, DuePending
    <3>2. walk.recent \in BOOLEAN /\ walk.offset \in Nat
      BY <2>1 DEF Walk
    <3>3. /\ Rank(walk.recent, r) \in Nat /\ Rank(walk.recent, r)' \in Nat
          /\ Rank(walk.recent, r) <= Rank(walk.recent, r)'
      <4>1. PICK recent \in BOOLEAN : recent = walk.recent
        BY <3>2
      <4>2. Ahead(r) \cap Selected(recent)
              \subseteq Ahead(r)' \cap Selected(recent)'
        BY <1>2, <2>1, <4>1 DEF Selected
      <4>3. /\ Rank(recent, r) \in Nat /\ Rank(recent, r)' \in Nat
            /\ Rank(recent, r) <= Rank(recent, r)'
        BY <2>1, <4>2, RankGrows
      <4> QED
        BY <2>1, <4>1, <4>3
    <3> QED
      BY <2>1, <3>1, <3>2, <3>3 DEF StillToCome
  <2>4. CountsStand'
    <3>1. CASE walk.step = "page"
      BY <2>1, <3>1 DEF ListsInv, CountsStand, Reading
    <3>2. CASE walk.step # "page"
      <4>1. IsFiniteSet(Written') /\ Written \in SUBSET Written'
        BY <1>2, <2>1, <3>2, ToSetFinite DEF Written, ToSet
      <4>2. /\ Cardinality(Written) \in Nat /\ Cardinality(Written') \in Nat
            /\ Cardinality(Written) <= Cardinality(Written')
        BY <4>1, FS_Subset, FS_CardinalityType
      <4>3. /\ walk.offset \in Nat /\ walk.total \in Nat
            /\ Cardinality(walk.items) \in Nat /\ IsFiniteSet(walk.items)
        BY <1>2, <2>1, FS_CardinalityType DEF Walk, ListsInv, CountsStand
      <4>4. walk.offset + Cardinality(walk.items) <= Cardinality(Written)
              => walk.offset + Cardinality(walk.items) <= Cardinality(Written')
        BY <4>2, <4>3
      <4>5. walk.total <= Cardinality(Written)
              => walk.total <= Cardinality(Written')
        BY <4>2, <4>3
      <4> QED
        BY <1>2, <2>1, <4>3, <4>4, <4>5 DEF ListsInv, CountsStand
    <3> QED
      BY <3>1, <3>2
  <2> QED
    BY <2>2, <2>3, <2>4 DEF ListsInv
<1> QED
  BY <1>1, <1>2

LEMMA PlacedKeeps ==
  ASSUME NEW rows \in Seq(Rows), IsInjective(rows),
         NEW r \in Rows, r \notin ToSet(rows),
         NEW recently \in 0 .. Len(rows), Placed(r, rows, recently)
  PROVE  /\ order' \in Seq(Rows) /\ IsInjective(order')
         /\ sec' \in 0 .. Len(order')
         /\ Written' = ToSet(rows) \cup {r}
         /\ \A a, b : InFront(rows, a, b) => InFront(order', a, b)
         /\ \A k \in recently + 1 .. Len(rows) :
              /\ k + 1 \in 1 .. Len(order') /\ k + 1 > sec'
              /\ order'[k + 1] = rows[k] /\ InFront(order', r, rows[k])
<1>1. PICK i \in 1 .. recently + 1 :
        order' = InsertAt(rows, i, r) /\ sec' = recently + 1
  BY DEF Placed
<1>2. Len(rows) \in Nat
  BY LenProperties
<1>3. i \in 1 .. Len(rows) + 1
  BY <1>1, <1>2
<1>4. /\ order' \in Seq(Rows) /\ Len(order') = Len(rows) + 1
      /\ IsInjective(order')
      /\ ToSet(order') = ToSet(rows) \cup {r}
      /\ \A a, b : InFront(rows, a, b) => InFront(order', a, b)
      /\ \A k \in i .. Len(rows) :
           order'[k + 1] = rows[k] /\ InFront(order', r, rows[k])
  <2>1. PICK t : t = order'
    OBVIOUS
  <2>2. t = InsertAt(rows, i, r)
    BY <1>1, <2>1
  <2>3. /\ t \in Seq(Rows) /\ Len(t) = Len(rows) + 1
        /\ IsInjective(t)
        /\ ToSet(t) = ToSet(rows) \cup {r}
        /\ \A a, b : InFront(rows, a, b) => InFront(t, a, b)
        /\ \A k \in i .. Len(rows) :
             t[k + 1] = rows[k] /\ InFront(t, r, rows[k])
    BY <1>3, <2>2, InsertKeeps
  <2> QED
    BY <2>1, <2>3
<1>5. Written' = ToSet(rows) \cup {r}
  BY <1>4 DEF Written, ToSet
<1>6. sec' \in 0 .. Len(order')
  BY <1>1, <1>2, <1>4
<1>7. \A k \in recently + 1 .. Len(rows) :
        k \in i .. Len(rows) /\ k + 1 \in 1 .. Len(order') /\ k + 1 > sec'
  BY <1>1, <1>2, <1>4
<1> QED
  BY <1>4, <1>5, <1>6, <1>7

(* What a write of row r leaves: the rows are the same, and those that     *)
(* were not written in this second stand as far from the front as before,  *)
(* or further.                                                             *)
WriteOf(r) ==
  /\ order' \in Seq(Rows) /\ IsInjective(order') /\ sec' \in 0 .. Len(order')
  /\ Written' = Written \cup {r}
  /\ table = "audit" => sec' = sec
  /\ \A q \in Older : q # r => q \in Older' /\ Ahead(q) \subseteq Ahead(q)'

LEMMA CreateWrites ==
  ASSUME ListsTypeOK, NEW r \in Rows, CreateTask(r)
  PROVE  WriteOf(r)
<1>1. /\ order \in Seq(Rows) /\ IsInjective(order) /\ sec \in 0 .. Len(order)
      /\ table = "tasks" /\ table' = "tasks" /\ r \notin ToSet(order)
      /\ Placed(r, order, sec) /\ Len(order) \in Nat
      /\ DOMAIN order = 1 .. Len(order)
  BY LenProperties, WrittenIsToSet DEF ListsTypeOK, CreateTask
<1>2. /\ order' \in Seq(Rows) /\ IsInjective(order')
      /\ sec' \in 0 .. Len(order')
      /\ Written' = ToSet(order) \cup {r}
      /\ \A a, b : InFront(order, a, b) => InFront(order', a, b)
      /\ \A k \in sec + 1 .. Len(order) :
           /\ k + 1 \in 1 .. Len(order') /\ k + 1 > sec'
           /\ order'[k + 1] = order[k] /\ InFront(order', r, order[k])
  BY <1>1, PlacedKeeps
<1>3. DOMAIN order' = 1 .. Len(order')
  BY <1>2, LenProperties
<1>4. ASSUME NEW q \in Older PROVE q \in Older'
  <2>1. PICK k \in 1 .. Len(order) : k > sec /\ q = order[k]
    BY <1>1, <1>4 DEF Older
  <2>2. k \in sec + 1 .. Len(order)
    BY <1>1, <2>1
  <2>3. k + 1 \in DOMAIN order' /\ k + 1 > sec' /\ order'[k + 1] = q
    BY <1>2, <1>3, <2>1, <2>2
  <2> QED
    BY <2>3 DEF Older
<1>5. ASSUME NEW q PROVE Ahead(q) \subseteq Ahead(q)'
  <2>1. \A a : a \in Ahead(q) <=> InFront(order, a, q)
    BY <1>1, AheadInFront
  <2>2. \A a : InFront(order', a, q) => a \in Ahead(q)'
    BY <1>3 DEF InFront, Ahead
  <2> QED
    BY <1>2, <2>1, <2>2
<1> QED
  BY <1>1, <1>2, <1>4, <1>5, WrittenIsToSet DEF WriteOf

LEMMA UpdateWrites ==
  ASSUME ListsTypeOK, NEW r \in Rows, UpdateTask(r)
  PROVE  WriteOf(r)
<1>1. /\ order \in Seq(Rows) /\ IsInjective(order) /\ sec \in 0 .. Len(order)
      /\ table = "tasks" /\ table' = "tasks" /\ Len(order) \in Nat
      /\ DOMAIN order = 1 .. Len(order)
  BY LenProperties DEF ListsTypeOK, UpdateTask
<1>2. PICK p \in 1 .. Len(order) :
        /\ order[p] = r
        /\ Placed(r, RemoveAt(order, p), IF p <= sec THEN sec - 1 ELSE sec)
  BY <1>1 DEF UpdateTask
<1>3. PICK rows : rows = RemoveAt(order, p)
  OBVIOUS
<1>4. PICK recently : recently = IF p <= sec THEN sec - 1 ELSE sec
  OBVIOUS
<1>5. /\ rows \in Seq(Rows) /\ Len(rows) = Len(order) - 1
      /\ IsInjective(rows)
      /\ ToSet(rows) = ToSet(order) \ {order[p]}
      /\ \A a, b : a # order[p] /\ b # order[p] /\ InFront(order, a, b)
                     => InFront(rows, a, b)
      /\ \A k \in 1 .. Len(order) : k < p => rows[k] = order[k]
      /\ \A k \in 1 .. Len(order) : p < k => rows[k - 1] = order[k]
  <2>1. PICK s \in Seq(Rows) : s = order
    BY <1>1
  <2>2. IsInjective(s) /\ p \in 1 .. Len(s) /\ rows = RemoveAt(s, p)
    BY <1>1, <1>3, <2>1
  <2>3. rows \in Seq(Rows) /\ Len(rows) = Len(s) - 1 /\ IsInjective(rows)
    BY <2>2, RemoveKeeps
  <2>4. ToSet(rows) = ToSet(s) \ {s[p]}
    BY <2>2, RemoveKeeps
  <2>5. \A a, b : a # s[p] /\ b # s[p] /\ InFront(s, a, b)
                     => InFront(rows, a, b)
    BY <2>2, RemoveKeeps
  <2>6. /\ \A k \in 1 .. Len(s) : k < p => rows[k] = s[k]
        /\ \A k \in 1 .. Len(s) : p < k => rows[k - 1] = s[k]
    BY <2>2, RemoveKeeps
  <2> QED
    BY <2>1, <2>3, <2>4, <2>5, <2>6
<1>6. recently \in 0 .. Len(rows) /\ r \notin ToSet(rows)
      /\ Placed(r, rows, recently)
  <2>1. recently \in 0 .. Len(rows)
    BY <1>1, <1>4, <1>5
  <2> QED
    BY <1>2, <1>3, <1>4, <1>5, <2>1
<1>7. /\ order' \in Seq(Rows) /\ IsInjective(order')
      /\ sec' \in 0 .. Len(order')
      /\ Written' = ToSet(rows) \cup {r}
      /\ \A a, b : InFront(rows, a, b) => InFront(order', a, b)
      /\ \A k \in recently + 1 .. Len(rows) :
           /\ k + 1 \in 1 .. Len(order') /\ k + 1 > sec'
           /\ order'[k + 1] = rows[k] /\ InFront(order', r, rows[k])
  BY <1>5, <1>6, PlacedKeeps
<1>8. DOMAIN order' = 1 .. Len(order')
  BY <1>7, LenProperties
<1>9. Written' = Written \cup {r}
  <2>1. r \in ToSet(order)
    BY <1>1, <1>2 DEF ToSet
  <2> QED
    BY <1>2, <1>5, <1>7, <2>1, WrittenIsToSet
<1>10. ASSUME NEW q \in Older, q # r
       PROVE  q \in Older' /\ Ahead(q) \subseteq Ahead(q)'
  <2>1. PICK k \in 1 .. Len(order) : k > sec /\ q = order[k]
    BY <1>1, <1>10 DEF Older
  <2>2. PICK l \in recently + 1 .. Len(rows) : rows[l] = q
    <3>1. k < p \/ p < k
      BY <1>2, <1>10, <2>1
    <3>2. CASE k < p
      <4>1. k \in recently + 1 .. Len(rows)
        BY <1>1, <1>4, <1>5, <2>1, <3>2
      <4> QED
        BY <1>5, <2>1, <3>2, <4>1
    <3>3. CASE p < k
      <4>1. k - 1 \in recently + 1 .. Len(rows)
        BY <1>1, <1>4, <1>5, <2>1, <3>3
      <4> QED
        BY <1>5, <2>1, <3>3, <4>1
    <3> QED
      BY <3>1, <3>2, <3>3
  <2>3. l + 1 \in DOMAIN order' /\ l + 1 > sec' /\ order'[l + 1] = q
        /\ InFront(order', r, q)
    BY <1>7, <1>8, <2>2
  <2>4. q \in Older'
    BY <2>3 DEF Older
  <2>5. \A a : InFront(order', a, q) => a \in Ahead(q)'
    BY <1>8 DEF InFront, Ahead
  <2>6. ASSUME NEW a \in Ahead(q) PROVE a \in Ahead(q)'
    <3>1. InFront(order, a, q)
      BY <1>1, <2>6, AheadInFront
    <3>2. CASE a = r
      BY <2>3, <2>5, <3>2
    <3>3. CASE a # r
      <4>1. InFront(rows, a, q)
        BY <1>2, <1>5, <1>10, <3>1, <3>3
      <4> QED
        BY <1>7, <2>5, <4>1
    <3> QED
      BY <3>2, <3>3
  <2> QED
    BY <2>4, <2>6
<1> QED
  BY <1>1, <1>7, <1>9, <1>10 DEF WriteOf

LEMMA AuditWrites ==
  ASSUME ListsTypeOK, NEW r \in Rows, WriteAudit(r)
  PROVE  WriteOf(r)
<1>1. /\ order \in Seq(Rows) /\ IsInjective(order) /\ sec \in 0 .. Len(order)
      /\ table = "audit" /\ table' = "audit" /\ sec' = sec
      /\ r \notin ToSet(order) /\ Len(order) \in Nat
      /\ DOMAIN order = 1 .. Len(order) /\ order' = <<r>> \o order
  BY LenProperties, WrittenIsToSet DEF ListsTypeOK, WriteAudit
<1>2. order' = InsertAt(order, 1, r)
  <2>1. SubSeq(order, 1, 1 - 1) = <<>>
    BY SubSeqEmpty
  <2>2. SubSeq(order, 1, Len(order)) = order
    BY <1>1, SubSeqFull
  <2>3. <<>> \o <<r>> = <<r>>
    <3>1. <<r>> \in Seq(Rows)
      OBVIOUS
    <3> QED
      BY <3>1, ConcatEmptySeq
  <2> QED
    BY <1>1, <2>1, <2>2, <2>3 DEF InsertAt
<1>3. PICK t : t = order'
  OBVIOUS
<1>4. /\ t \in Seq(Rows) /\ Len(t) = Len(order) + 1
      /\ IsInjective(t)
      /\ ToSet(t) = ToSet(order) \cup {r}
      /\ \A a, b : InFront(order, a, b) => InFront(t, a, b)
      /\ \A k \in 1 .. Len(order) :
           t[k + 1] = order[k] /\ InFront(t, r, order[k])
  <2>1. 1 \in 1 .. Len(order) + 1 /\ t = InsertAt(order, 1, r)
    BY <1>1, <1>2, <1>3
  <2> QED
    BY <1>1, <2>1, InsertKeeps
<1>5. DOMAIN t = 1 .. Len(t)
  BY <1>4, LenProperties
<1>6. sec' \in 0 .. Len(order')
  BY <1>1, <1>3, <1>4
<1>7. Written' = Written \cup {r}
  <2>1. Written' = ToSet(t)
    BY <1>3 DEF Written, ToSet
  <2> QED
    BY <1>4, <2>1, WrittenIsToSet
<1>8. ASSUME NEW q \in Older PROVE q \in Older'
  <2>1. PICK k \in 1 .. Len(order) : q = order[k]
    BY <1>1, <1>8 DEF Older
  <2>2. k + 1 \in DOMAIN t /\ t[k + 1] = q
    BY <1>1, <1>4, <1>5, <2>1
  <2> QED
    BY <1>1, <1>3, <2>2 DEF Older
<1>9. ASSUME NEW q PROVE Ahead(q) \subseteq Ahead(q)'
  <2>1. \A a : a \in Ahead(q) <=> InFront(order, a, q)
    BY <1>1, AheadInFront
  <2>2. \A a : InFront(t, a, q) => a \in Ahead(q)'
    BY <1>3, <1>5 DEF InFront, Ahead
  <2> QED
    BY <1>4, <2>1, <2>2
<1> QED
  BY <1>1, <1>3, <1>4, <1>6, <1>7, <1>8, <1>9 DEF WriteOf

LEMMA WriteKeeps ==
  ASSUME ListsInv, NEW r \in Rows, WriteOf(r),
         UNCHANGED <<table, walk, seen>>,
         Reading => due' = due \ {r}, due' \in SUBSET Rows,
         active' \in SUBSET Rows, shrunk' \in BOOLEAN,
         ~shrunk' => ~shrunk /\ active \subseteq active'
  PROVE  ListsInv'
<1>1. ListsTypeOK' /\ NoSeconds'
  BY DEF ListsInv, ListsTypeOK, NoSeconds, WriteOf
<1>2. Written \subseteq Written'
  BY DEF WriteOf
<1>3. ASSUME Reading PROVE due' \subseteq due \cap Older'
  BY <1>3 DEF ListsInv, DueStands, WriteOf
<1>4. ASSUME Reading, walk.recent \/ ~shrunk'
      PROVE  /\ walk.recent \/ ~shrunk
             /\ due' \subseteq Selected(walk.recent)'
             /\ \A q \in due' : Ahead(q) \cap Selected(walk.recent)
                                  \subseteq Ahead(q)' \cap Selected(walk.recent)'
  <2>1. walk.recent \/ ~shrunk
    BY <1>4
  <2>2. Selected(walk.recent) \subseteq Selected(walk.recent)'
    <3>1. CASE walk.recent
      BY <1>2, <3>1 DEF Selected
    <3>2. CASE ~walk.recent
      BY <1>2, <1>4, <3>2 DEF Selected
    <3> QED
      BY <3>1, <3>2
  <2>3. due' \subseteq Selected(walk.recent)
    BY <1>3, <1>4, <2>1 DEF ListsInv, DueStands
  <2>4. ASSUME NEW q \in due' PROVE Ahead(q) \subseteq Ahead(q)'
    BY <1>4, <2>4 DEF ListsInv, DueStands, WriteOf
  <2> QED
    BY <2>1, <2>2, <2>3, <2>4
<1> QED
  BY <1>1, <1>2, <1>3, <1>4, HubKeeps

LEMMA OlderIsWritten == Older \subseteq Written
BY DEF Older, Written

LEMMA CreateTaskInv ==
  ASSUME ListsInv, NEW r \in Rows, CreateTask(r) PROVE ListsInv'
<1>1. ListsTypeOK /\ WriteOf(r)
  BY CreateWrites DEF ListsInv
<1>2. Reading => due' = due \ {r}
  BY OlderIsWritten DEF ListsInv, DueStands, CreateTask
<1>3. /\ due' \in SUBSET Rows /\ active' \in SUBSET Rows
      /\ shrunk' \in BOOLEAN /\ shrunk' = shrunk /\ active \subseteq active'
      /\ UNCHANGED <<table, walk, seen>>
  BY <1>1 DEF ListsTypeOK, CreateTask
<1> QED
  BY <1>1, <1>2, <1>3, WriteKeeps

LEMMA UpdateTaskInv ==
  ASSUME ListsInv, NEW r \in Rows, UpdateTask(r) PROVE ListsInv'
<1>1. ListsTypeOK /\ WriteOf(r)
  BY UpdateWrites DEF ListsInv
<1>2. /\ due' = due \ {r} /\ UNCHANGED <<table, walk, seen>>
      /\ active' \in SUBSET Rows /\ due' \in SUBSET Rows
  BY <1>1 DEF ListsTypeOK, UpdateTask
<1>3. shrunk' \in BOOLEAN /\ (~shrunk' => ~shrunk /\ active \subseteq active')
  BY <1>1 DEF ListsTypeOK, UpdateTask
<1> QED
  BY <1>1, <1>2, <1>3, WriteKeeps

LEMMA WriteAuditInv ==
  ASSUME ListsInv, NEW r \in Rows, WriteAudit(r) PROVE ListsInv'
<1>1. ListsTypeOK /\ WriteOf(r)
  BY AuditWrites DEF ListsInv
<1>2. Reading => due' = due \ {r}
  BY OlderIsWritten DEF ListsInv, DueStands, WriteAudit
<1>3. /\ due' \in SUBSET Rows /\ active' \in SUBSET Rows
      /\ shrunk' \in BOOLEAN /\ shrunk' = shrunk /\ active \subseteq active'
      /\ UNCHANGED <<table, walk, seen>>
  BY <1>1 DEF ListsTypeOK, WriteAudit
<1> QED
  BY <1>1, <1>2, <1>3, WriteKeeps

LEMMA TickInv == ASSUME ListsInv, Tick PROVE ListsInv'
<1>1. ListsTypeOK /\ Len(order) \in Nat
  BY LenProperties DEF ListsInv, ListsTypeOK
<1>2. ListsTypeOK' /\ UNCHANGED <<table, order, active, walk, due, seen, shrunk>>
  BY <1>1 DEF ListsTypeOK, Tick
<1>3. Older \subseteq Older'
  <2>1. DOMAIN order = 1 .. Len(order) /\ sec' = 0 /\ sec \in Nat
    BY <1>1, LenProperties DEF ListsTypeOK, Tick
  <2> QED
    BY <1>1, <1>2, <2>1 DEF Older
<1>4. Reading => due' \subseteq due \cap Older'
  BY <1>2, <1>3 DEF ListsInv, DueStands
<1>5. /\ Written' = Written
      /\ Selected(walk.recent)' = Selected(walk.recent)
      /\ \A q : Ahead(q)' = Ahead(q)
  BY <1>2 DEF Written, Selected, Ahead
<1>6. NoSeconds'
  BY <1>2 DEF NoSeconds, Tick
<1> QED
  BY <1>2, <1>4, <1>5, <1>6, HubKeeps DEF ListsInv, DueStands

LEMMA RestartInv == ASSUME ListsInv, Restart PROVE ListsInv'
<1>1. /\ ListsTypeOK /\ order \in Seq(Rows) /\ IsInjective(order)
      /\ Len(order) \in Nat /\ DOMAIN order = 1 .. Len(order)
      /\ UNCHANGED <<table, sec, active, seen, shrunk>>
  BY LenProperties DEF ListsInv, ListsTypeOK, Restart
<1>2. PICK m \in 0 .. Len(order) :
        /\ order' = SubSeq(order, 1, m)
        /\ table = "tasks" => m = Len(order)
  <2>1. SubSeq(order, 1, Len(order)) = order
    BY <1>1, SubSeqFull
  <2>2. CASE order' = order
    <3>1. Len(order) \in 0 .. Len(order)
      BY <1>1
    <3>2. order' = SubSeq(order, 1, Len(order))
      BY <2>1, <2>2
    <3> QED
      BY <3>1, <3>2
  <2>3. CASE /\ table = "audit" /\ Retention < Len(order)
             /\ order' = SubSeq(order, 1, Retention)
    <3>1. Retention \in 0 .. Len(order)
      BY <1>1, <2>3, ListsAssumption
    <3> QED
      BY <2>3, <3>1
  <2> QED
    BY <2>2, <2>3 DEF Restart, Vacuumed
<1>3. PICK t : t = order'
  OBVIOUS
<1>4. /\ t \in Seq(Rows) /\ Len(t) = m /\ IsInjective(t)
      /\ ToSet(t) \subseteq ToSet(order)
      /\ \A k \in 1 .. m : t[k] = order[k]
      /\ \A a, b : b \in ToSet(t) /\ InFront(order, a, b) => InFront(t, a, b)
  <2>1. PICK s \in Seq(Rows) : s = order
    BY <1>1
  <2>2. IsInjective(s) /\ m \in 0 .. Len(s) /\ CutOff(t, s, m)
    BY <1>1, <1>2, <1>3, <2>1 DEF CutOff
  <2>3. /\ t \in Seq(Rows) /\ Len(t) = m /\ IsInjective(t)
        /\ ToSet(t) \subseteq ToSet(s)
        /\ \A k \in 1 .. m : t[k] = s[k]
    BY <2>2, PrefixKeeps
  <2>4. \A a, b : b \in ToSet(t) /\ InFront(s, a, b) => InFront(t, a, b)
    BY <2>2, PrefixKeeps
  <2> QED
    BY <2>1, <2>3, <2>4
<1>5. DOMAIN t = 1 .. m
  BY <1>4, LenProperties
<1>6. ListsTypeOK'
  <2>1. order' \in Seq(Rows) /\ IsInjective(order')
    BY <1>3, <1>4
  <2>2. sec' \in 0 .. Len(order')
    <3>1. CASE table = "tasks"
      BY <1>1, <1>2, <1>3, <1>4, <3>1 DEF ListsTypeOK
    <3>2. CASE table = "audit"
      BY <1>1, <2>1, <3>2, LenProperties DEF ListsInv, NoSeconds
    <3> QED
      BY <1>1, <3>1, <3>2 DEF ListsTypeOK
  <2> QED
    BY <1>1, <2>1, <2>2 DEF ListsTypeOK, Restart
<1>7. NoSeconds'
  BY <1>1 DEF ListsInv, NoSeconds
<1>8. CASE walk # NoWalk /\ walk.step # "page"
  BY <1>6, <1>7, <1>8
     DEF Restart, ListsInv, DueStands, DuePending, CountsStand, Reading
<1>9. CASE ~(walk # NoWalk /\ walk.step # "page")
  <2>1. walk' = walk /\ due' = due \cap {order'[i] : i \in DOMAIN order'}
    BY <1>9 DEF Restart
  <2>2. due' = due \cap ToSet(t) /\ Written' = ToSet(t)
    BY <1>3, <2>1 DEF ToSet, Written
  <2>3. ASSUME Reading PROVE due' \subseteq due \cap Older'
    <3> SUFFICES ASSUME NEW q \in due' PROVE q \in Older'
      BY <2>1
    <3>1. PICK k \in 1 .. m : t[k] = q
      BY <1>5, <2>2 DEF ToSet
    <3>2. PICK l \in 1 .. Len(order) :
            order[l] = q /\ (table = "tasks" => l > sec)
      BY <1>1, <2>2, <2>3 DEF ListsInv, DueStands, Older
    <3>3. k \in 1 .. Len(order) /\ order[k] = q
      BY <1>1, <1>4, <3>1
    <3>4. k = l
      BY <1>1, <3>2, <3>3 DEF IsInjective
    <3> QED
      BY <1>1, <1>3, <1>5, <3>1, <3>2, <3>4 DEF Older
  <2>4. ASSUME Reading, walk.recent \/ ~shrunk'
        PROVE  /\ walk.recent \/ ~shrunk
               /\ due' \subseteq Selected(walk.recent)'
               /\ \A q \in due' :
                    Ahead(q) \cap Selected(walk.recent)
                      \subseteq Ahead(q)' \cap Selected(walk.recent)'
    <3>1. walk.recent \/ ~shrunk
      BY <1>1, <2>4
    <3>2. Selected(walk.recent)' = Selected(walk.recent) \cap Written'
      <4>1. Written' \subseteq Written
        BY <1>4, <2>2, WrittenIsToSet
      <4> QED
        BY <1>1, <2>1, <4>1 DEF Selected
    <3>3. due' \subseteq Selected(walk.recent)'
      BY <2>2, <2>4, <3>1, <3>2 DEF ListsInv, DueStands
    <3>4. ASSUME NEW q \in due', NEW a \in Ahead(q)
          PROVE  a \in Ahead(q)' /\ a \in Written'
      <4>1. InFront(order, a, q) /\ q \in ToSet(t)
        BY <1>1, <2>2, <3>4, AheadInFront
      <4>2. InFront(t, a, q)
        BY <1>4, <4>1
      <4> QED
        BY <1>3, <1>4, <1>5, <4>2 DEF InFront, Ahead, Written
    <3> QED
      BY <3>1, <3>2, <3>3, <3>4
  <2>5. Reading => walk.step = "page"
    BY <1>9 DEF Reading
  <2> QED
    BY <1>1, <1>6, <1>7, <2>1, <2>3, <2>4, <2>5, HubKeeps
<1> QED
  BY <1>8, <1>9

-----------------------------------------------------------------------------
(* The steps of the reader.                                                *)

LEMMA StartWalkInv == ASSUME ListsInv, StartWalk PROVE ListsInv'
<1>1. /\ ListsTypeOK /\ UNCHANGED <<table, order, sec, active>>
      /\ order \in Seq(Rows) /\ IsInjective(order)
      /\ seen' = {} /\ shrunk' = FALSE
  BY DEF ListsInv, ListsTypeOK, StartWalk
<1>2. PICK recent \in BOOLEAN :
        /\ walk' = [recent |-> recent, step |-> "page", offset |-> 0,
                    items |-> {}, total |-> 0, counts |-> 0]
        /\ due' = {order[i] : i \in {j \in DOMAIN order :
                     /\ table = "tasks" => j > sec
                     /\ recent \/ order[j] \in active}}
  BY DEF StartWalk
<1>3. walk' \in Walk /\ walk'.step = "page" /\ walk'.recent = recent
      /\ walk'.offset = 0 /\ walk'.items = {}
  BY <1>2 DEF Walk
<1>4. due' \subseteq Older /\ due' \subseteq Selected(recent)
  BY <1>2 DEF Older, Selected, Written
<1>5. Older' = Older /\ Selected(recent)' = Selected(recent)
      /\ \A r : Rank(recent, r)' = Rank(recent, r)
  BY <1>1 DEF Older, Selected, Written, Rank, Ahead
<1>6. ListsTypeOK'
  <2>1. Older \subseteq Rows
    <3>1. \A i \in DOMAIN order : order[i] \in Rows
      BY <1>1, LenProperties, ElementOfSeq
    <3> QED
      BY <3>1 DEF Older
  <2> QED
    BY <1>1, <1>3, <1>4, <2>1 DEF ListsTypeOK
<1>7. NoSeconds' /\ CountsStand'
  <2>1. IsFiniteSet({})
    BY FS_EmptySet
  <2> QED
    BY <1>1, <1>3, <2>1 DEF ListsInv, NoSeconds, CountsStand
<1>8. DueStands'
  BY <1>3, <1>4, <1>5 DEF DueStands, Selected
<1>9. DuePending'
  <2>1. \A r : Rank(recent, r) \in Nat
    BY <1>1, RanksDiffer
  <2>2. ASSUME NEW r PROVE StillToCome(r)'
    <3>1. Rank(walk.recent, r)' = Rank(recent, r) /\ Rank(recent, r) \in Nat
      BY <1>3, <1>5, <2>1 DEF Rank, Selected
    <3>2. 0 <= Rank(walk.recent, r)'
      BY <3>1
    <3> QED
      BY <1>3, <3>2 DEF StillToCome
  <2> QED
    BY <2>2 DEF DuePending
<1> QED
  BY <1>6, <1>7, <1>8, <1>9 DEF ListsInv

(* What a query of the handler leaves as it is.                            *)
LEMMA OnlyReadsKeeps ==
  ASSUME OnlyReads
  PROVE  /\ Older' = Older /\ Written' = Written
         /\ \A recent : Selected(recent)' = Selected(recent)
         /\ \A recent, r : Rank(recent, r)' = Rank(recent, r)
BY DEF OnlyReads, Older, Written, Selected, Rank, Ahead

LEMMA ListItemsInv ==
  ASSUME ListsInv, ListItems PROVE ListsInv' /\ walk' \in Walk
<1> DEFINE P == Page(walk.recent, walk.offset)
<1>1. /\ ListsTypeOK /\ Reading /\ walk \in Walk /\ walk.step = "page"
      /\ order \in Seq(Rows) /\ IsInjective(order) /\ OnlyReads
      /\ PageSize \in Nat
  BY ListsAssumption DEF ListsInv, ListsTypeOK, ListItems, Reading
<1>2. walk.recent \in BOOLEAN /\ walk.offset \in Nat
  BY <1>1 DEF Walk
<1>3. /\ P \subseteq Selected(walk.recent) /\ IsFiniteSet(P)
      /\ Cardinality(P) \in Nat
      /\ P # {} => walk.offset + Cardinality(P)
                     <= Cardinality(Selected(walk.recent))
      /\ \A r \in Selected(walk.recent) :
           walk.offset + PageSize <= Rank(walk.recent, r)
             => PageSize <= Cardinality(P)
  BY <1>1, <1>2, PageBounds
<1>4. /\ Selected(walk.recent) \subseteq Written
      /\ Cardinality(Selected(walk.recent)) \in Nat
      /\ Cardinality(Written) \in Nat
      /\ Cardinality(Selected(walk.recent)) <= Cardinality(Written)
  BY <1>1, <1>2, SelectedFinite
<1>5. P \subseteq Rows
  <2>1. \A i \in DOMAIN order : order[i] \in Rows
    BY <1>1, LenProperties, ElementOfSeq
  <2> QED
    BY <1>3, <1>4, <2>1 DEF Written
<1>6. \A r : Rank(walk.recent, r) \in Nat
  BY <1>1, <1>2, RanksDiffer
<1>7. \A r \in Selected(walk.recent) :
        walk.offset <= Rank(walk.recent, r)
          => r \in P \/ walk.offset + PageSize <= Rank(walk.recent, r)
  BY <1>1, <1>2, <1>6 DEF Page
<1> HIDE DEF P
<1>8. /\ walk' = [walk EXCEPT !.items = P, !.step = "total"]
      /\ UNCHANGED <<table, order, sec, active, due, seen, shrunk>>
  BY DEF ListItems, OnlyReads, P
<1>9. /\ walk' \in Walk /\ walk'.step = "total" /\ walk'.items = P
      /\ walk'.recent = walk.recent /\ walk'.offset = walk.offset
      /\ walk'.total = walk.total
  BY <1>1, <1>5, <1>8 DEF Walk
<1>10. ListsTypeOK' /\ NoSeconds'
  BY <1>1, <1>8, <1>9 DEF ListsInv, ListsTypeOK, NoSeconds
<1>11. DueStands'
  BY <1>1, <1>8, <1>9, OnlyReadsKeeps DEF ListsInv, DueStands, Selected
<1>12. DuePending'
  <2> SUFFICES ASSUME walk.recent \/ ~shrunk, NEW r \in due, r \notin seen
               PROVE  StillToCome(r)'
    BY <1>8, <1>9 DEF DuePending
  <2>1. walk.offset <= Rank(walk.recent, r) /\ r \in Selected(walk.recent)
    BY <1>1 DEF ListsInv, DueStands, DuePending, StillToCome
  <2>2. r \in P \/ /\ walk.offset + PageSize <= Rank(walk.recent, r)
                   /\ PageSize <= Cardinality(P)
    BY <1>3, <1>7, <2>1
  <2>3. Rank(walk.recent, r)' = Rank(walk.recent, r)
    BY <1>8, <1>9 DEF Rank, Ahead, Selected, Written
  <2>4. \/ r \in walk'.items
        \/ /\ walk'.offset + PageSize <= Rank(walk.recent, r)'
           /\ PageSize <= Cardinality(walk'.items)
    BY <1>9, <2>2, <2>3
  <2> QED
    BY <1>9, <2>4 DEF StillToCome
<1>13. CountsStand'
  <2>1. P # {} /\ walk.recent
          => walk.offset + Cardinality(P) <= Cardinality(Written)
    <3> SUFFICES ASSUME P # {}
                 PROVE  walk.offset + Cardinality(P) <= Cardinality(Written)
      OBVIOUS
    <3>1. walk.offset + Cardinality(P) <= Cardinality(Selected(walk.recent))
      BY <1>3
    <3>2. /\ walk.offset \in Nat /\ Cardinality(P) \in Nat
          /\ Cardinality(Written) \in Nat
      BY <1>2, <1>3, <1>4
    <3> QED
      BY <1>4, <3>1, <3>2
  <2>2. Written' = Written
    BY <1>8 DEF Written
  <2> QED
    BY <1>3, <1>9, <2>1, <2>2 DEF CountsStand
<1> QED
  BY <1>9, <1>10, <1>11, <1>12, <1>13 DEF ListsInv

(* A query that only counts.                                               *)
LEMMA CountingKeeps ==
  ASSUME ListsInv, Reading, walk.step # "page", OnlyReads,
         walk' \in Walk, walk'.step # "page", walk'.recent = walk.recent,
         walk'.offset = walk.offset, walk'.items = walk.items
  PROVE  ListsTypeOK' /\ NoSeconds' /\ DueStands' /\ DuePending'
<1>1. ListsTypeOK' /\ NoSeconds'
  BY DEF ListsInv, ListsTypeOK, NoSeconds, OnlyReads
<1>2. DueStands'
  BY OnlyReadsKeeps DEF ListsInv, DueStands, OnlyReads, Selected
<1>3. DuePending'
  <2> SUFFICES ASSUME walk.recent \/ ~shrunk, NEW r \in due, r \notin seen
               PROVE  StillToCome(r)'
    BY DEF DuePending, OnlyReads
  <2>1. StillToCome(r)
    BY DEF ListsInv, DuePending
  <2>2. Rank(walk.recent, r)' = Rank(walk.recent, r)
    BY DEF OnlyReads, Rank, Ahead, Selected, Written
  <2> QED
    BY <2>1, <2>2 DEF StillToCome
<1> QED
  BY <1>1, <1>2, <1>3

LEMMA CountTotalInv ==
  ASSUME ListsInv, CountTotal PROVE ListsInv' /\ walk' \in Walk
<1>1. /\ ListsTypeOK /\ Reading /\ walk \in Walk /\ walk.step = "total"
      /\ order \in Seq(Rows) /\ OnlyReads /\ walk.recent \in BOOLEAN
  BY DEF ListsInv, ListsTypeOK, CountTotal, Reading, Walk
<1>2. /\ Cardinality(Selected(walk.recent)) \in Nat
      /\ Cardinality(Written) \in Nat
      /\ Cardinality(Selected(walk.recent)) <= Cardinality(Written)
  BY <1>1, SelectedFinite
<1>3. PICK num \in {0, Cardinality(Selected(walk.recent))} :
        walk' = [walk EXCEPT !.total = num,
                   !.step = IF table = "tasks" THEN "counts" ELSE "answer"]
  BY DEF CountTotal, Counted
<1>4. num \in Nat /\ num <= Cardinality(Written)
  BY <1>2
<1>5. /\ walk' \in Walk /\ walk'.recent = walk.recent
      /\ walk'.offset = walk.offset /\ walk'.items = walk.items
      /\ walk'.total = num /\ walk'.step \in {"counts", "answer"}
      /\ table = "tasks" => walk'.step = "counts"
  BY <1>1, <1>3, <1>4 DEF Walk
<1>6. ListsTypeOK' /\ NoSeconds' /\ DueStands' /\ DuePending'
  BY <1>1, <1>5, CountingKeeps
<1>7. Written' = Written /\ table' = table
  BY <1>1 DEF OnlyReads, Written
<1>8. walk.recent /\ walk.items # {} /\ num # 0
        => walk.offset + Cardinality(walk.items) <= num
  <2>1. walk.recent => Selected(walk.recent) = Written
    BY DEF Selected
  <2> QED
    BY <1>1, <1>3, <2>1 DEF ListsInv, CountsStand
<1>9. CountsStand'
  BY <1>1, <1>4, <1>5, <1>7, <1>8 DEF ListsInv, CountsStand
<1> QED
  BY <1>5, <1>6, <1>9 DEF ListsInv

LEMMA CountByStateInv ==
  ASSUME ListsInv, CountByState PROVE ListsInv' /\ walk' \in Walk
<1>1. /\ ListsTypeOK /\ Reading /\ walk \in Walk /\ walk.step = "counts"
      /\ order \in Seq(Rows) /\ OnlyReads
  BY DEF ListsInv, ListsTypeOK, CountByState, Reading
<1>2. Cardinality(Written) \in Nat
  <2>1. TRUE \in BOOLEAN
    OBVIOUS
  <2> QED
    BY <1>1, <2>1, SelectedFinite
<1>3. PICK num \in {0, Cardinality(Written)} :
        walk' = [walk EXCEPT !.counts = num, !.step = "answer"]
  BY DEF CountByState, Counted
<1>0. num \in Nat
  BY <1>2
<1>4. /\ walk' \in Walk /\ walk'.recent = walk.recent
      /\ walk'.offset = walk.offset /\ walk'.items = walk.items
      /\ walk'.total = walk.total /\ walk'.counts = num
      /\ walk'.step = "answer"
  BY <1>0, <1>1, <1>3 DEF Walk
<1>5. ListsTypeOK' /\ NoSeconds' /\ DueStands' /\ DuePending'
  BY <1>1, <1>4, CountingKeeps
<1>6. CountsStand'
  BY <1>1, <1>3, <1>4 DEF ListsInv, CountsStand
<1> QED
  BY <1>4, <1>5, <1>6 DEF ListsInv

LEMMA NextPageInv ==
  ASSUME ListsInv, NextPage PROVE ListsInv' /\ walk' \in Walk
<1>1. /\ ListsTypeOK /\ Reading /\ walk \in Walk /\ walk.step = "answer"
      /\ PageSize \in Nat
      /\ UNCHANGED <<table, order, sec, active, due, shrunk>>
      /\ seen' = seen \cup walk.items
      /\ walk' = [walk EXCEPT !.offset = @ + PageSize, !.step = "page",
                     !.items = {}, !.total = 0, !.counts = 0]
  BY ListsAssumption DEF ListsInv, ListsTypeOK, NextPage, Shown, Reading
<1>0. walk.offset \in Nat /\ walk.offset + PageSize \in Nat
  BY <1>1 DEF Walk
<1>2. /\ walk' \in Walk /\ walk'.step = "page" /\ walk'.items = {}
      /\ walk'.recent = walk.recent
      /\ walk'.offset = walk.offset + PageSize
  BY <1>0, <1>1 DEF Walk
<1>3. ListsTypeOK' /\ NoSeconds'
  <2>1. seen' \in SUBSET Rows
    BY <1>1 DEF ListsTypeOK, Walk
  <2> QED
    BY <1>1, <1>2, <2>1 DEF ListsInv, ListsTypeOK, NoSeconds
<1>4. DueStands'
  BY <1>1, <1>2 DEF ListsInv, DueStands, Older, Selected, Written
<1>5. DuePending'
  <2> SUFFICES ASSUME walk.recent \/ ~shrunk, NEW r \in due,
                      r \notin seen \cup walk.items
               PROVE  StillToCome(r)'
    BY <1>1, <1>2 DEF DuePending
  <2>1. walk.offset + PageSize <= Rank(walk.recent, r)
    BY <1>1 DEF ListsInv, DuePending, StillToCome
  <2>2. Rank(walk.recent, r)' = Rank(walk.recent, r)
    BY <1>1, <1>2 DEF Rank, Ahead, Selected, Written
  <2> QED
    BY <1>2, <2>1, <2>2 DEF StillToCome
<1>6. CountsStand'
  BY <1>2, FS_EmptySet DEF CountsStand
<1> QED
  BY <1>2, <1>3, <1>4, <1>5, <1>6 DEF ListsInv

LEMMA LastPageInv == ASSUME ListsInv, LastPage PROVE ListsInv'
<1>1. /\ ListsTypeOK /\ Reading /\ walk \in Walk /\ ~Reading'
      /\ UNCHANGED <<table, order, sec, active, due, shrunk>>
      /\ seen' = seen \cup walk.items /\ walk' = NoWalk
  BY DEF ListsInv, ListsTypeOK, LastPage, Shown, Reading
<1>2. ListsTypeOK'
  <2>1. seen' \in SUBSET Rows
    BY <1>1 DEF ListsTypeOK, Walk
  <2> QED
    BY <1>1, <2>1 DEF ListsTypeOK
<1> QED
  BY <1>1, <1>2
     DEF ListsInv, NoSeconds, DueStands, DuePending, CountsStand

LEMMA BreakOffInv == ASSUME ListsInv, BreakOff PROVE ListsInv'
<1>1. /\ ListsTypeOK /\ ~Reading'
      /\ UNCHANGED <<table, order, sec, active>>
      /\ due' = {} /\ seen' = {} /\ shrunk' = FALSE /\ walk' = NoWalk
  BY DEF ListsInv, BreakOff, Reading
<1>2. ListsTypeOK'
  BY <1>1 DEF ListsTypeOK
<1> QED
  BY <1>1, <1>2
     DEF ListsInv, NoSeconds, DueStands, DuePending, CountsStand

LEMMA ListsStepInv == ListsInv /\ [ListsNext]_listVars => ListsInv'
<1> SUFFICES ASSUME ListsInv, [ListsNext]_listVars PROVE ListsInv'
  OBVIOUS
<1>1. CASE UNCHANGED listVars
  BY <1>1 DEF listVars, ListsInv, ListsTypeOK, NoSeconds, DueStands,
     DuePending, CountsStand, Reading, StillToCome, Older, Selected, Rank,
     Ahead, Written
<1>2. CASE Reads
  BY <1>2, StartWalkInv, ListItemsInv, CountTotalInv, CountByStateInv,
     NextPageInv, LastPageInv, BreakOffInv DEF Reads
<1>3. CASE \E r \in Rows : CreateTask(r) \/ UpdateTask(r) \/ WriteAudit(r)
  BY <1>3, CreateTaskInv, UpdateTaskInv, WriteAuditInv
<1>4. CASE Tick \/ Restart
  BY <1>4, TickInv, RestartInv
<1> QED
  BY <1>1, <1>2, <1>3, <1>4 DEF ListsNext

LEMMA ListsInvariant == ListsSpec => []ListsInv
BY ListsInitInv, ListsStepInv, PTL DEF ListsSpec

(* The types of the rows, the reader's request and the histories; no row   *)
(* is ever listed twice.                                                   *)
THEOREM ListsTypes == ListsSpec => []ListsTypeOK
<1>1. ListsInv => ListsTypeOK
  BY DEF ListsInv
<1> QED
  BY <1>1, ListsInvariant, PTL

(* "Showing n of total" never shows more than there is, whatever is        *)
(* written between the two or three queries of an answer.                  *)
THEOREM TotalsCoverPages == ListsSpec => []TotalsCover
<1>1. ListsInv => TotalsCover
  BY DEF ListsInv, CountsStand, Reading, TotalsCover
<1> QED
  BY <1>1, ListsInvariant, PTL

(* Who reads all pages of a list misses no row that stood still, however   *)
(* many rows there are and whatever the size of a page.                    *)
THEOREM NothingMissed == ListsSpec => PagesComplete
<1>1. ASSUME ListsInv, [ListsNext]_listVars, walk # NoWalk, walk' = NoWalk,
             walk.recent \/ ~shrunk
      PROVE  due' \subseteq seen'
  <2>1. /\ PageSize \in Nat /\ walk \in Walk /\ Reading
        /\ IsFiniteSet(walk.items) /\ Cardinality(walk.items) \in Nat
    BY <1>1, ListsAssumption, FS_CardinalityType
       DEF ListsInv, ListsTypeOK, CountsStand, Reading
  <2>2. CASE LastPage
    <3>1. /\ walk.step = "answer" /\ Cardinality(walk.items) < PageSize
          /\ due' = due /\ seen' = seen \cup walk.items
      BY <2>2 DEF LastPage, Shown
    <3>2. \A r \in due : r \notin seen => r \in walk.items
      BY <1>1, <2>1, <3>1 DEF ListsInv, DuePending, StillToCome
    <3> QED
      BY <3>1, <3>2
  <2>3. CASE BreakOff
    BY <2>3 DEF BreakOff
  <2>4. CASE Restart
    BY <1>1, <2>4 DEF Restart
  <2>5. CASE StartWalk
    BY <1>1, <2>5 DEF StartWalk
  <2>6. CASE \/ ListItems \/ CountTotal \/ CountByState \/ NextPage
    BY <1>1, <2>6, ListItemsInv, CountTotalInv, CountByStateInv,
       NextPageInv, NoWalkAssumption
  <2>7. CASE \/ \E r \in Rows : CreateTask(r) \/ UpdateTask(r) \/ WriteAudit(r)
             \/ Tick \/ UNCHANGED listVars
    BY <1>1, <2>7 DEF CreateTask, UpdateTask, WriteAudit, Tick, listVars
  <2> QED
    BY <1>1, <2>2, <2>3, <2>4, <2>5, <2>6, <2>7 DEF ListsNext, Reads
<1> QED
  BY <1>1, ListsInvariant, PTL DEF ListsSpec, PagesComplete

-----------------------------------------------------------------------------
(* Tail.                                                                   *)

(* Where the reader stands: the lines after Place are those not printed.   *)
Place == IF Following THEN Settled ELSE n

(* The inductive invariant: besides the types, that each printed line is   *)
(* below the reader's place, in order, and that none is missing.           *)
Printed ==
  /\ \A i \in 1 .. Len(out) : out[i] <= Place
  /\ \A i, j \in 1 .. Len(out) : i < j => out[i] < out[j]

TailInv ==
  /\ TailTypeOK
  /\ at = "off" => out = <<>>
  /\ since <= n
  /\ Printed
  /\ NothingPassedOver

-----------------------------------------------------------------------------
(* The sequences of lines.                                                 *)

LEMMA LinesSeq ==
  ASSUME NEW from \in Nat, NEW to \in Nat, from <= to + 1
  PROVE  /\ Lines(from, to) \in Seq(Nat)
         /\ Len(Lines(from, to)) = to - from + 1
         /\ \A i \in 1 .. to - from + 1 : Lines(from, to)[i] = from + i - 1
<1>1. to - from + 1 \in Nat
  OBVIOUS
<1>2. \A i \in 1 .. to - from + 1 : from + i - 1 \in Nat
  OBVIOUS
<1>3. Lines(from, to) \in [1 .. to - from + 1 -> Nat]
  BY <1>2 DEF Lines
<1>4. Lines(from, to) \in Seq(Nat)
  BY <1>1, <1>3, SeqDef
<1>5. Len(Lines(from, to)) = to - from + 1
  BY <1>1, <1>3, <1>4, LenProperties
<1> QED
  BY <1>4, <1>5 DEF Lines

(* Some more lines after what was printed.                                 *)
LEMMA MoreLines ==
  ASSUME NEW s \in Seq(Nat), NEW from \in Nat, NEW to \in Nat, from <= to + 1
  PROVE  /\ s \o Lines(from, to) \in Seq(Nat)
         /\ Len(s \o Lines(from, to)) = Len(s) + (to - from + 1)
         /\ \A i \in 1 .. Len(s) : (s \o Lines(from, to))[i] = s[i]
         /\ \A i \in 1 .. to - from + 1 :
              (s \o Lines(from, to))[Len(s) + i] = from + i - 1
<1>1. PICK l \in Seq(Nat) :
        /\ l = Lines(from, to) /\ Len(l) = to - from + 1
        /\ \A i \in 1 .. to - from + 1 : l[i] = from + i - 1
  BY LinesSeq
<1>2. /\ s \o l \in Seq(Nat) /\ Len(s \o l) = Len(s) + Len(l)
      /\ \A i \in 1 .. Len(s) + Len(l) :
           (s \o l)[i] = IF i <= Len(s) THEN s[i] ELSE l[i - Len(s)]
  BY ConcatProperties
<1>3. Len(s) \in Nat
  BY LenProperties
<1>4. ASSUME NEW i \in 1 .. to - from + 1
      PROVE  (s \o l)[Len(s) + i] = from + i - 1
  <2>1. /\ Len(s) + i \in 1 .. Len(s) + Len(l) /\ ~(Len(s) + i <= Len(s))
        /\ Len(s) + i - Len(s) = i
    BY <1>1, <1>3
  <2> QED
    BY <1>1, <1>2, <2>1
<1>5. \A i \in 1 .. Len(s) : (s \o l)[i] = s[i]
  BY <1>1, <1>2, <1>3
<1>6. Len(s \o l) = Len(s) + (to - from + 1)
  BY <1>1, <1>2
<1> QED
  BY <1>1, <1>2, <1>4, <1>5, <1>6

-----------------------------------------------------------------------------

(* The reader's place is a line of the file, or the last one before it.    *)
LEMMA PlaceBounds ==
  ASSUME TailTypeOK
  PROVE  /\ Place \in base .. n /\ Place \in Nat /\ Settled \in base .. n
         /\ ToRead = IF Following THEN Place + 1 .. n ELSE {}
BY DEF TailTypeOK, Place, Settled, Size, ToRead

(* What is printed stays in order when the reader's place moves on.        *)
LEMMA PrintedStays ==
  ASSUME TailTypeOK, Printed, UNCHANGED out, Place' \in Int, Place <= Place'
  PROVE  Printed'
<1>1. \A i \in 1 .. Len(out) : out[i] \in Nat
  BY ElementOfSeq DEF TailTypeOK
<1>2. Place \in Nat
  BY PlaceBounds
<1>3. \A i \in 1 .. Len(out) : out[i] <= Place'
  BY <1>1, <1>2 DEF Printed
<1> QED
  BY <1>3 DEF Printed

LEMMA InitInv == TailInit => TailInv
BY DEF TailInit, TailInv, TailTypeOK, Printed, NothingPassedOver, Following

LEMMA LogInv == TailInv /\ Log => TailInv'
<1> SUFFICES ASSUME TailInv, Log PROVE TailInv'
  OBVIOUS
<1> USE DEF Following, Settled, Size
<1>1. TailTypeOK
  BY DEF TailInv
<1>2. TailTypeOK' /\ since' <= n' /\ (at' = "off" => out' = <<>>)
  BY <1>1 DEF TailInv, TailTypeOK, Log, Outgrows
<1>3. Place <= Place'
  BY <1>1 DEF TailTypeOK, Log, Place
<1>4. Printed'
  BY <1>1, <1>2, <1>3, PrintedStays DEF TailInv, TailTypeOK, Place, Log
<1>5. CASE Outgrows
  <2>1. ToRead \subseteq hidden'
    BY <1>1, <1>5 DEF TailTypeOK, Log, Outgrows, ToRead
  <2>2. n' \in hidden' /\ hidden \subseteq hidden'
    BY <1>1, <1>5 DEF TailTypeOK, Log, Outgrows
  <2>3. NothingPassedOver'
    BY <1>1, <2>1, <2>2 DEF TailInv, TailTypeOK, NothingPassedOver, Log
  <2> QED
    BY <1>2, <1>4, <2>3 DEF TailInv
<1>6. CASE ~Outgrows
  <2>1. Following => Settled' = Settled
    BY <1>1, <1>6 DEF TailTypeOK, Log, Outgrows
  <2>2. Following => ToRead \cup {n'} \subseteq ToRead'
    BY <1>1, <2>1 DEF TailTypeOK, Log, ToRead
  <2>3. NothingPassedOver'
    BY <1>1, <1>6, <2>2 DEF TailInv, TailTypeOK, NothingPassedOver, Log
  <2> QED
    BY <1>2, <1>4, <2>3 DEF TailInv
<1> QED
  BY <1>5, <1>6

LEMMA TruncateInv == TailInv /\ Truncate => TailInv'
<1> SUFFICES ASSUME TailInv, Truncate PROVE TailInv'
  OBVIOUS
<1>1. TailTypeOK
  BY DEF TailInv
<1>2. TailTypeOK' /\ since' <= n' /\ (at' = "off" => out' = <<>>)
  <2>1. ToRead \subseteq 1 .. n
    BY <1>1 DEF TailTypeOK, ToRead, Settled, Size
  <2> QED
    BY <1>1, <2>1 DEF TailInv, TailTypeOK, Truncate
<1>3. Place <= Place'
  BY <1>1, <1>2, PlaceBounds
     DEF TailTypeOK, Truncate, Place, Following, Settled, Size
<1>4. Printed'
  BY <1>1, <1>2, <1>3, PrintedStays
     DEF TailInv, TailTypeOK, Place, Following, Settled, Size, Truncate
<1>5. NothingPassedOver'
  BY <1>1 DEF TailInv, NothingPassedOver, Truncate, Following
<1> QED
  BY <1>2, <1>4, <1>5 DEF TailInv

LEMMA LastLinesInv == TailInv /\ LastLines => TailInv'
<1> SUFFICES ASSUME TailInv, LastLines PROVE TailInv'
  OBVIOUS
<1> DEFINE from == IF Size > Tailed THEN n - Tailed + 1 ELSE base + 1
<1>1. TailTypeOK
  BY DEF TailInv
<1>2. from \in Nat /\ from <= n + 1 /\ n \in Nat /\ out' = Lines(from, n)
  BY <1>1, TailAssumption DEF TailTypeOK, Size, LastLines
<1> HIDE DEF from
<1>3. /\ out' \in Seq(Nat) /\ Len(out') = n - from + 1
      /\ \A i \in 1 .. n - from + 1 : out'[i] = from + i - 1
  <2>1. /\ Lines(from, n) \in Seq(Nat) /\ Len(Lines(from, n)) = n - from + 1
        /\ \A i \in 1 .. n - from + 1 : Lines(from, n)[i] = from + i - 1
    BY <1>2, LinesSeq
  <2> QED
    BY <1>2, <2>1
<1>4. TailTypeOK' /\ since' <= n' /\ at' # "off" /\ ~Following'
  BY <1>1, <1>3 DEF TailInv, TailTypeOK, LastLines, Following
<1>5. Place' = n
  BY <1>4 DEF Place, LastLines
<1>6. \A i \in 1 .. Len(out') : out'[i] <= n
  BY <1>2, <1>3
<1>7. \A i, j \in 1 .. Len(out') : i < j => out'[i] < out'[j]
  BY <1>2, <1>3
<1>8. Printed'
  BY <1>5, <1>6, <1>7 DEF Printed
<1> QED
  BY <1>4, <1>8 DEF TailInv, NothingPassedOver

LEMMA ReadInv == TailInv /\ Read => TailInv'
<1> SUFFICES ASSUME TailInv, Read PROVE TailInv'
  OBVIOUS
<1>0. PICK from \in Int : from = base + offset + 1
  BY DEF TailInv, TailTypeOK
<1>1. PICK to \in from .. n :
        out' = out \o Lines(from, to) /\ offset' = to - base
  BY <1>0 DEF Read
<1>2. /\ TailTypeOK /\ at = "read" /\ at' = "read" /\ offset < Size
      /\ UNCHANGED <<base, n, since, gone, hidden>>
  BY DEF TailInv, Read
<1>3. from \in Nat /\ to \in Nat /\ from <= to + 1 /\ to <= n /\ out \in Seq(Nat)
  BY <1>0, <1>1, <1>2 DEF TailTypeOK
<1>4. /\ out' \in Seq(Nat)
      /\ Len(out') = Len(out) + (to - from + 1)
      /\ \A i \in 1 .. Len(out) : out'[i] = out[i]
      /\ \A i \in 1 .. to - from + 1 : out'[Len(out) + i] = from + i - 1
  BY <1>1, <1>3, MoreLines
<1>5. TailTypeOK' /\ since' <= n' /\ at' # "off"
  BY <1>0, <1>1, <1>2, <1>3, <1>4 DEF TailInv, TailTypeOK
<1>6. Place = from - 1 /\ Place' = to
  BY <1>0, <1>1, <1>2, <1>3 DEF Place, Following, Settled, Size, TailTypeOK
<1>7. Len(out) \in Nat /\ Len(out') \in Nat
  BY <1>3, <1>4, LenProperties
<1>8. Printed'
  <2>1. ASSUME NEW i \in 1 .. Len(out)
        PROVE  out'[i] \in Nat /\ out'[i] <= from - 1 /\ out'[i] = out[i]
    BY <1>3, <1>4, <1>6, ElementOfSeq DEF TailInv, Printed
  <2>2. ASSUME NEW i \in 1 .. Len(out'), ~(i <= Len(out))
        PROVE  i \in Nat /\ out'[i] = from + (i - Len(out)) - 1
               /\ i - Len(out) \in 1 .. to - from + 1
    <3>1. i \in Nat /\ i - Len(out) \in 1 .. to - from + 1
          /\ Len(out) + (i - Len(out)) = i
      BY <1>3, <1>4, <1>7, <2>2
    <3> QED
      BY <1>4, <3>1
  <2>3. ASSUME NEW i \in 1 .. Len(out') PROVE out'[i] <= to
    <3>1. CASE i <= Len(out)
      BY <1>1, <1>3, <1>7, <2>1, <3>1
    <3>2. CASE ~(i <= Len(out))
      BY <1>3, <1>7, <2>2, <3>2
    <3> QED
      BY <3>1, <3>2
  <2>4. ASSUME NEW i \in 1 .. Len(out'), NEW j \in 1 .. Len(out'), i < j
        PROVE  out'[i] < out'[j]
    <3>1. CASE j <= Len(out)
      <4>1. i \in 1 .. Len(out) /\ j \in 1 .. Len(out)
        BY <1>7, <2>4, <3>1
      <4> QED
        BY <2>1, <2>4, <4>1 DEF TailInv, Printed
    <3>2. CASE ~(j <= Len(out)) /\ i <= Len(out)
      <4>1. i \in 1 .. Len(out)
        BY <1>7, <3>2
      <4> QED
        BY <1>3, <1>7, <2>1, <2>2, <3>2, <4>1
    <3>3. CASE ~(j <= Len(out)) /\ ~(i <= Len(out))
      BY <1>3, <1>7, <2>2, <2>4, <3>3
    <3> QED
      BY <3>1, <3>2, <3>3
  <2> QED
    BY <1>6, <2>3, <2>4 DEF Printed
<1>9. NothingPassedOver'
  <2>1. {out[i] : i \in DOMAIN out} \subseteq {out'[i] : i \in DOMAIN out'}
    <3>1. DOMAIN out = 1 .. Len(out) /\ DOMAIN out' = 1 .. Len(out')
      BY <1>3, <1>4, LenProperties
    <3>2. \A i \in DOMAIN out : i \in DOMAIN out' /\ out'[i] = out[i]
      BY <1>3, <1>4, <1>7, <3>1
    <3> QED
      BY <3>2
  <2>2. from .. to \subseteq {out'[i] : i \in DOMAIN out'}
    <3> SUFFICES ASSUME NEW m \in from .. to
                 PROVE  \E i \in DOMAIN out' : out'[i] = m
      OBVIOUS
    <3>1. PICK i \in 1 .. to - from + 1 : from + i - 1 = m
      <4>1. m - from + 1 \in 1 .. to - from + 1 /\ from + (m - from + 1) - 1 = m
        BY <1>3
      <4> QED
        BY <4>1
    <3>2. Len(out) + i \in 1 .. Len(out')
      <4>1. /\ i \in Nat /\ 1 <= i /\ i <= to - from + 1
            /\ Len(out') = Len(out) + (to - from + 1)
        BY <1>3, <1>4
      <4> QED
        BY <1>7, <4>1
    <3>4. out'[Len(out) + i] = m
      BY <1>4, <3>1
    <3>3. DOMAIN out' = 1 .. Len(out')
      BY <1>4, LenProperties
    <3> QED
      BY <3>2, <3>3, <3>4
  <2>3. ToRead = from .. n /\ ToRead' = to + 1 .. n
    BY <1>2, <1>3, <1>5, <1>6, PlaceBounds DEF ToRead, Place, Following
  <2>4. ToRead \subseteq {out'[i] : i \in DOMAIN out'} \cup ToRead'
    BY <1>3, <2>2, <2>3
  <2> QED
    BY <1>2, <2>1, <2>4 DEF TailInv, NothingPassedOver, Following
<1> QED
  BY <1>5, <1>8, <1>9 DEF TailInv

(* The steps that only move the reader.                                    *)
LEMMA MoveInv ==
  ASSUME TailInv, Open \/ Stat \/ NoMore \/ Quit
  PROVE  TailInv'
<1>1. TailTypeOK
  BY DEF TailInv
<1>2. CASE Open
  <2>1. TailTypeOK' /\ since' <= n' /\ at' # "off"
    BY <1>1, <1>2 DEF TailTypeOK, Open, Size
  <2>2. Place = n /\ Place' = n
    BY <1>1, <1>2 DEF TailTypeOK, Open, Size, Place, Following, Settled
  <2>3. Printed'
    BY <1>2, <2>2 DEF TailInv, Printed, Open
  <2>4. NothingPassedOver'
    BY <1>1, <1>2 DEF TailTypeOK, Open, NothingPassedOver
  <2> QED
    BY <2>1, <2>3, <2>4 DEF TailInv
<1>3. CASE Stat \/ NoMore
  <2>1. TailTypeOK' /\ since' <= n' /\ at' # "off" /\ Following /\ Following'
        /\ UNCHANGED <<base, n, out, since, gone, hidden>>
    <3>1. CASE Stat
      BY <1>1, <3>1 DEF TailInv, TailTypeOK, Stat, Following
    <3>2. CASE NoMore
      BY <1>1, <3>2 DEF TailInv, TailTypeOK, NoMore, Following
    <3> QED
      BY <1>3, <3>1, <3>2
  <2>2. Settled' = Settled
    BY <1>1, <1>3 DEF TailTypeOK, Stat, NoMore, Size, Settled
  <2>3. Printed' /\ NothingPassedOver'
    BY <2>1, <2>2 DEF TailInv, Printed, Place, NothingPassedOver, ToRead
  <2> QED
    BY <2>1, <2>3 DEF TailInv
<1>4. CASE Quit
  <2>1. TailTypeOK'
    BY <1>1, <1>4 DEF TailTypeOK, Quit
  <2>2. Printed' /\ NothingPassedOver'
    BY <1>4 DEF Quit, Printed, NothingPassedOver, Following
  <2> QED
    BY <1>1, <1>4, <2>1, <2>2 DEF TailInv, TailTypeOK, Quit
<1> QED
  BY <1>2, <1>3, <1>4

LEMMA StepInv == TailInv /\ [TailNext]_tailVars => TailInv'
<1>1. TailInv /\ UNCHANGED tailVars => TailInv'
  BY DEF tailVars, TailInv, TailTypeOK, Printed, Place, NothingPassedOver,
         Following, Settled, Size, ToRead
<1> QED
  BY <1>1, LogInv, TruncateInv, LastLinesInv, ReadInv, MoveInv
  DEF TailNext, Polls

LEMMA TailInvariant == TailSpec => []TailInv
BY InitInv, StepInv, PTL DEF TailSpec

(* The types of the log file, the reader and the histories.                *)
THEOREM TailTypes == TailSpec => []TailTypeOK
<1>1. TailInv => TailTypeOK
  BY DEF TailInv
<1> QED
  BY <1>1, TailInvariant, PTL

(* Whatever is logged and truncated between a Stat and a Read, each line   *)
(* since the file was opened was printed, is to be read, was truncated     *)
(* away, or is hidden by a file that has outgrown the offset.              *)
THEOREM NoLinePassedOver == TailSpec => []NothingPassedOver
<1>1. TailInv => NothingPassedOver
  BY DEF TailInv
<1> QED
  BY <1>1, TailInvariant, PTL

(* No line is printed twice or before an earlier one.                      *)
THEOREM PrintedInOrder == TailSpec => []Feed!InOrder
<1>1. TailInv => Feed!InOrder
  BY DEF TailInv, Printed, Feed!InOrder
<1> QED
  BY <1>1, TailInvariant, PTL

-----------------------------------------------------------------------------
(* Tail implements LogFeed.                                                *)

LEMMA LinesAreFeedLines ==
  ASSUME NEW from, NEW to PROVE Lines(from, to) = Feed!Lines(from, to)
BY DEF Lines, Feed!Lines

LEMMA InitFeed == TailInit => Feed!Init
BY DEF TailInit, Feed!Init, Following

LEMMA LogFeeds == TailInv /\ Log => Feed!Next
<1> SUFFICES ASSUME TailInv, Log PROVE Feed!Next
  OBVIOUS
<1>1. TailTypeOK
  BY DEF TailInv
<1>2. CASE ~Following
  BY <1>1, <1>2 DEF Log, Following, Feed!Next, Feed!Log
<1>3. CASE Following /\ ~Outgrows
  <2>1. Settled' = Settled /\ (Size < offset)' = (Size < offset) /\ Following'
    BY <1>1, <1>3 DEF TailTypeOK, Log, Outgrows, Following, Settled, Size
  <2> QED
    BY <1>3, <2>1 DEF Log, Feed!Next, Feed!Log
<1>4. CASE Outgrows
  <2>1. Settled' = n + 1 /\ ~(Size < offset)' /\ Following' /\ Following
        /\ Size < offset
    BY <1>1, <1>4 DEF TailTypeOK, Log, Outgrows, Following, Settled, Size
  <2> QED
    BY <2>1 DEF Log, Feed!Next, Feed!Outgrown
<1> QED
  BY <1>2, <1>3, <1>4 DEF Outgrows

LEMMA TruncateFeeds == TailInv /\ Truncate => Feed!Next
<1> SUFFICES ASSUME TailInv, Truncate PROVE Feed!Next
  OBVIOUS
<1>1. TailTypeOK
  BY DEF TailInv
<1>2. /\ (IF Following THEN Settled ELSE n)' = n'
      /\ (Following /\ Size < offset)' \in BOOLEAN
      /\ UNCHANGED <<n, Following, out>>
  BY <1>1 DEF TailTypeOK, Truncate, Following, Settled, Size
<1> QED
  BY <1>2 DEF Feed!Next, Feed!Truncated

LEMMA CommandFeeds ==
  TailInv /\ (LastLines \/ Open \/ Quit) => Feed!Next
<1> SUFFICES ASSUME TailInv, LastLines \/ Open \/ Quit PROVE Feed!Next
  OBVIOUS
<1>1. TailTypeOK
  BY DEF TailInv
<1>2. CASE LastLines
  <2> DEFINE from == IF Size > Tailed THEN n - Tailed + 1 ELSE base + 1
  <2>1. from \in 1 .. n + 1 /\ out' = Feed!Lines(from, n)
    BY <1>1, <1>2, TailAssumption, LinesAreFeedLines
       DEF TailTypeOK, LastLines, Size
  <2>2. ~Following /\ ~Following' /\ out = <<>> /\ UNCHANGED n
    BY <1>2 DEF TailInv, LastLines, Following
  <2> HIDE DEF from
  <2>3. /\ (IF Following THEN Settled ELSE n)' = (IF Following THEN Settled ELSE n)
        /\ (Following /\ Size < offset)' = (Following /\ Size < offset)
        /\ Following' = Following
    BY <2>2 DEF Following
  <2>4. \E first \in 1 .. n + 1 : out' = Feed!Lines(first, n)
    BY <2>1
  <2>5. Feed!Begin
    BY <2>2, <2>3, <2>4 DEF Feed!Begin
  <2> QED
    BY <2>5 DEF Feed!Next
<1>3. CASE Open
  <2>1. /\ ~Following /\ Following' /\ Settled' = n /\ ~(Size < offset)'
        /\ UNCHANGED <<n, out>>
    BY <1>1, <1>3 DEF TailTypeOK, Open, Following, Settled, Size
  <2> QED
    BY <2>1 DEF Feed!Next, Feed!Watch
<1>4. CASE Quit
  BY <1>4 DEF Quit, Following, Feed!Next, Feed!Stop
<1> QED
  BY <1>2, <1>3, <1>4

LEMMA PollsFeed == TailInv /\ Polls => [Feed!Next]_Feed!feedVars
<1> SUFFICES ASSUME TailInv, Polls PROVE [Feed!Next]_Feed!feedVars
  OBVIOUS
<1>1. TailTypeOK
  BY DEF TailInv
<1>2. CASE Stat
  <2>1. /\ Following /\ Following' /\ Settled' = Settled
        /\ ~(Size < offset)' /\ UNCHANGED <<n, out>>
    BY <1>1, <1>2 DEF TailTypeOK, Stat, Following, Settled, Size
  <2> QED
    BY <2>1 DEF Feed!Next, Feed!Noticed
<1>3. CASE Read
  <2>1. PICK to \in base + offset + 1 .. n :
          out' = out \o Lines(base + offset + 1, to) /\ offset' = to - base
    BY <1>3 DEF Read
  <2>2. /\ Following /\ Following' /\ Settled = base + offset
        /\ ~(Size < offset) /\ ~(Size < offset)' /\ Settled' = to
        /\ UNCHANGED n
    BY <1>1, <1>3, <2>1 DEF TailTypeOK, Read, Following, Settled, Size
  <2>3. to \in Settled + 1 .. n
        /\ out' = out \o Feed!Lines(Settled + 1, to)
    BY <2>1, <2>2, LinesAreFeedLines
  <2>4. Feed!Show
    BY <2>2, <2>3 DEF Feed!Show
  <2> QED
    BY <2>4 DEF Feed!Next
<1>4. CASE NoMore
  <2>1. UNCHANGED <<n, Following, Settled, Size, offset, out>>
    BY <1>4 DEF NoMore, Following, Settled, Size
  <2> QED
    BY <2>1 DEF Feed!feedVars
<1> QED
  BY <1>2, <1>3, <1>4 DEF Polls

(* Follow, with offsets and file sizes only, shows what the feed promises: *)
(* each step is a step of LogFeed or leaves what it speaks of as it is.    *)
THEOREM TailFollowsLog == TailSpec => FollowsLog
<1>1. TailInv /\ [TailNext]_tailVars => [Feed!Next]_Feed!feedVars
  <2>1. UNCHANGED tailVars => UNCHANGED Feed!feedVars
    BY DEF tailVars, Feed!feedVars, Following, Settled, Size
  <2> QED
    BY <2>1, LogFeeds, TruncateFeeds, CommandFeeds, PollsFeed DEF TailNext
<1> QED
  BY <1>1, InitFeed, TailInvariant, PTL DEF TailSpec, FollowsLog, Feed!Spec

-----------------------------------------------------------------------------
(* Console: a step of it is a step of one of the two.                      *)

LEMMA ConsoleIsBoth == ConsoleSpec => ListsSpec /\ TailSpec
<1>1. ConsoleInit => ListsInit /\ TailInit
  BY DEF ConsoleInit
<1>2. [ConsoleNext]_consoleVars => [ListsNext]_listVars /\ [TailNext]_tailVars
  BY DEF ConsoleNext, consoleVars
<1> QED
  BY <1>1, <1>2, PTL DEF ConsoleSpec, ListsSpec, TailSpec

(* The types of all an operator reads.                                     *)
THEOREM ConsoleTypes == ConsoleSpec => []ConsoleTypeOK
<1>1. ListsTypeOK /\ TailTypeOK => ConsoleTypeOK
  BY DEF ConsoleTypeOK
<1> QED
  BY <1>1, ConsoleIsBoth, ListsTypes, TailTypes, PTL

(* What was said of Lists and of Tail holds of what an operator reads.     *)
THEOREM ConsoleReads ==
  ConsoleSpec => /\ []TotalsCover /\ PagesComplete
                 /\ []NothingPassedOver /\ FollowsLog
BY ConsoleIsBoth, TotalsCoverPages, NothingMissed, NoLinePassedOver,
   TailFollowsLog

=============================================================================
