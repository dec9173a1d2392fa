-------------------------- MODULE ChatReplay_proofs --------------------------
(***************************************************************************)
(* Proofs about ChatStream: what the reducer of a tab makes of a run of    *)
(* events, delivered one by one or replayed at once.                       *)
(***************************************************************************)
EXTENDS ChatStream, SequenceTheorems, WellFoundedInduction, TLAPS

(* Induction, from the well-foundedness of the naturals *)

LEMMA LeastNat ==
    ASSUME NEW S \in SUBSET Nat, S # {}
    PROVE  \E m \in S : \A n \in S : m <= n
PROOF
  <1> DEFINE R == OpToRel(<, Nat)
  <1>1. IsWellFoundedOn(R, Nat)
    BY NatLessThanWellFounded
  <1>2. \A x, y \in Nat : x < y => <<x, y>> \in R
    BY DEF OpToRel
  <1> HIDE DEF R
  <1>3. PICK m \in S : \A n \in S : ~(<<n, m>> \in R)
    BY <1>1, WFMin
  <1>4. \A n \in S : n \in Nat /\ m \in Nat /\ ~(n < m)
    BY <1>2, <1>3
  <1>5. \A n \in S : m <= n
    BY <1>4
  <1> QED BY <1>5

LEMMA Induction ==
    ASSUME NEW S, 0 \in S, \A n \in Nat : n \in S => n + 1 \in S
    PROVE  Nat \subseteq S
PROOF
  <1> DEFINE T == Nat \ S
  <1> SUFFICES ASSUME T # {} PROVE FALSE
    OBVIOUS
  <1>1. PICK m \in T : \A n \in T : m <= n
    BY LeastNat
  <1>2. m - 1 \in Nat /\ m - 1 \notin T
    BY <1>1
  <1> QED BY <1>2

----------------------------------------------------------------------------
(* The replay *)

\* The states of the tab during a replay, up to the n-th event.
AfterUpTo(s, es, n, f) ==
    f = [i \in 0..n |-> IF i = 0 THEN s ELSE Apply(f[i - 1], es[i])]

LEMMA AfterExists ==
    ASSUME NEW s, NEW es, NEW n \in Nat
    PROVE  \E f : AfterUpTo(s, es, n, f)
PROOF
  <1> DEFINE S == {k \in Nat : \E f : AfterUpTo(s, es, k, f)}
  <1>1. 0 \in S
    <2> DEFINE f == [i \in 0..0 |-> s]
    <2>1. AfterUpTo(s, es, 0, f)
      BY DEF AfterUpTo
    <2> QED BY <2>1
  <1>2. ASSUME NEW k \in Nat, k \in S
        PROVE  k + 1 \in S
    <2>1. PICK f : AfterUpTo(s, es, k, f)
      BY <1>2
    <2> DEFINE g == [i \in 0..(k + 1) |-> IF i = k + 1 THEN Apply(f[k], es[k + 1]) ELSE f[i]]
    <2>2. ASSUME NEW i \in 0..(k + 1)
          PROVE  g[i] = IF i = 0 THEN s ELSE Apply(g[i - 1], es[i])
      <3>1. CASE i = k + 1
        <4>1. g[k] = f[k]
          OBVIOUS
        <4> QED BY <3>1, <4>1
      <3>2. CASE i # k + 1
        <4>1. i \in 0..k /\ (i # 0 => i - 1 \in 0..k)
          BY <3>2
        <4>2. g[i] = f[i] /\ (i # 0 => g[i - 1] = f[i - 1])
          BY <3>2, <4>1
        <4>3. f[i] = IF i = 0 THEN s ELSE Apply(f[i - 1], es[i])
          BY <2>1, <4>1 DEF AfterUpTo
        <4> QED BY <4>1, <4>2, <4>3
      <3> QED BY <3>1, <3>2
    <2> DEFINE h == [i \in 0..(k + 1) |-> IF i = 0 THEN s ELSE Apply(g[i - 1], es[i])]
    <2>3. g = h
      BY <2>2
    <2> HIDE DEF g
    <2>4. AfterUpTo(s, es, k + 1, g)
      BY <2>3 DEF AfterUpTo
    <2> QED BY <2>4
  <1>3. Nat \subseteq S
    <2> HIDE DEF S
    <2> QED BY <1>1, <1>2, Induction
  <1> QED BY <1>3

\* What ApplyAll returns is the last of these states.
LEMMA ApplyAllIs ==
    ASSUME NEW s, NEW es, Len(es) \in Nat
    PROVE  \E f : /\ ApplyAll(s, es) = f[Len(es)]
                  /\ f[0] = s
                  /\ \A i \in 1..Len(es) : f[i] = Apply(f[i - 1], es[i])
PROOF
  <1> DEFINE f == CHOOSE f : f = [i \in 0..Len(es) |-> IF i = 0 THEN s ELSE Apply(f[i - 1], es[i])]
  <1>1. \E g : g = [i \in 0..Len(es) |-> IF i = 0 THEN s ELSE Apply(g[i - 1], es[i])]
    <2>1. PICK g : AfterUpTo(s, es, Len(es), g)
      BY AfterExists
    <2>2. g = [i \in 0..Len(es) |-> IF i = 0 THEN s ELSE Apply(g[i - 1], es[i])]
      BY <2>1 DEF AfterUpTo
    <2> QED BY <2>2
  <1>2. f = [i \in 0..Len(es) |-> IF i = 0 THEN s ELSE Apply(f[i - 1], es[i])]
    BY <1>1
  <1>3. ApplyAll(s, es) = f[Len(es)]
    BY DEF ApplyAll
  <1> HIDE DEF f
  <1>4. f[0] = s /\ \A i \in 1..Len(es) : f[i] = Apply(f[i - 1], es[i])
    BY <1>2
  <1> QED BY <1>3, <1>4

----------------------------------------------------------------------------
(* Sequences of pieces *)

\* The pieces of a turn come in the order of its stream.
Ordered(p) ==
    \A i, j \in DOMAIN p : i < j /\ p[i][1] = p[j][1] => p[i][2] < p[j][2]

\* What is missing before a piece was cut off.
Complete(S, cut) ==
    \A e \in S : \A m \in 1..(e[2] - 1) : <<e[1], m>> \in S \cup cut

LEMMA PieceIs ==
    ASSUME NEW e \in Piece
    PROVE  /\ e[1] \in Turns /\ e[2] \in 1..MaxLog /\ e[2] \in Nat /\ e[2] # 0
           /\ e = <<e[1], e[2]>>
PROOF BY BoundsAssumption DEF Piece

LEMMA RangeAppend ==
    ASSUME NEW S, NEW p \in Seq(S), NEW x \in S
    PROVE  Range(Append(p, x)) = Range(p) \cup {x}
PROOF
  <1> DEFINE q == Append(p, x)
  <1>1. /\ q \in Seq(S) /\ Len(q) = Len(p) + 1 /\ Len(p) \in Nat
        /\ \A i \in 1..Len(p) : q[i] = p[i]
        /\ q[Len(p) + 1] = x
    BY AppendProperties, LenProperties
  <1>2. DOMAIN q = 1..Len(q) /\ DOMAIN p = 1..Len(p)
    BY <1>1, LenProperties
  <1> HIDE DEF q
  <1>3. ASSUME NEW y \in Range(q) PROVE y \in Range(p) \cup {x}
    <2>1. PICK i \in 1..Len(q) : y = q[i]
      BY <1>2 DEF Range
    <2>2. CASE i = Len(p) + 1
      BY <2>1, <2>2, <1>1
    <2>3. CASE i # Len(p) + 1
      <3>1. i \in 1..Len(p)
        BY <2>1, <2>3, <1>1
      <3> QED BY <3>1, <2>1, <1>1, <1>2 DEF Range
    <2> QED BY <2>2, <2>3
  <1>4. x \in Range(q)
    <2>1. Len(p) + 1 \in 1..Len(q)
      BY <1>1
    <2> QED BY <2>1, <1>1, <1>2 DEF Range
  <1>5. ASSUME NEW y \in Range(p) PROVE y \in Range(q)
    <2>1. PICK i \in 1..Len(p) : y = p[i]
      BY <1>2 DEF Range
    <2>2. i \in 1..Len(q) /\ q[i] = y
      BY <2>1, <1>1
    <2> QED BY <2>2, <1>2 DEF Range
  <1> QED BY <1>3, <1>4, <1>5 DEF q

LEMMA ConcatAppend ==
    ASSUME NEW S, NEW p \in Seq(S), NEW q \in Seq(S), NEW x \in S
    PROVE  p \o Append(q, x) = Append(p \o q, x)
PROOF
  <1> DEFINE y == <<x>>
  <1>1. y \in Seq(S)
    OBVIOUS
  <1>2. Append(q, x) = q \o y
    BY AppendIsConcat
  <1>3. p \o q \in Seq(S)
    BY ConcatProperties
  <1>4. Append(p \o q, x) = (p \o q) \o y
    BY <1>3, AppendIsConcat
  <1> HIDE DEF y
  <1>5. (p \o q) \o y = p \o (q \o y)
    BY <1>1, ConcatAssociative
  <1> QED BY <1>2, <1>4, <1>5

LEMMA OrderedAppend ==
    ASSUME NEW p \in Seq(Piece), NEW x \in Piece, Ordered(p),
           \A e \in Range(p) : e[1] = x[1] => e[2] < x[2]
    PROVE  Ordered(Append(p, x))
PROOF
  <1> DEFINE q == Append(p, x)
             L == Len(p)
  <1>1. /\ q \in Seq(Piece) /\ Len(q) = L + 1 /\ L \in Nat
        /\ \A i \in 1..L : q[i] = p[i]
        /\ q[L + 1] = x
        /\ DOMAIN p = 1..L
    BY AppendProperties, LenProperties
  <1>2. DOMAIN q = 1..(L + 1)
    BY <1>1, LenProperties
  <1> HIDE DEF q
  <1> SUFFICES ASSUME NEW i \in 1..(L + 1), NEW j \in 1..(L + 1), i < j, q[i][1] = q[j][1]
               PROVE  q[i][2] < q[j][2]
    BY <1>2 DEF Ordered, q
  <1>3. i \in 1..L /\ q[i] = p[i] /\ p[i] \in Range(p)
    BY <1>1 DEF Range
  <1>4. CASE j \in 1..L
    BY <1>1, <1>3, <1>4 DEF Ordered
  <1>5. CASE j = L + 1
    BY <1>1, <1>3, <1>5
  <1> QED BY <1>1, <1>4, <1>5

LEMMA OrderedConcat ==
    ASSUME NEW p \in Seq(Piece), NEW q \in Seq(Piece), Ordered(p \o q)
    PROVE  /\ Ordered(p) /\ Ordered(q)
           /\ \A e \in Range(p), f \in Range(q) : e[1] = f[1] => e[2] < f[2]
PROOF
  <1> DEFINE r == p \o q
             m == Len(p)
             n == Len(q)
  <1>1. /\ m \in Nat /\ n \in Nat /\ Len(r) = m + n /\ r \in Seq(Piece)
        /\ DOMAIN p = 1..m /\ DOMAIN q = 1..n
    BY ConcatProperties, LenProperties
  <1>2. DOMAIN r = 1..(m + n)
    BY <1>1, LenProperties
  <1>3. \A i \in 1..m : i \in 1..(m + n) /\ r[i] = p[i]
    <2> SUFFICES ASSUME NEW i \in 1..m PROVE i \in 1..(m + n) /\ r[i] = p[i]
      OBVIOUS
    <2>1. i \in 1..(m + n) /\ i <= m
      BY <1>1
    <2> QED BY <1>1, <2>1, ConcatProperties
  <1>4. \A i \in 1..n : m + i \in 1..(m + n) /\ r[m + i] = q[i]
    <2> SUFFICES ASSUME NEW i \in 1..n PROVE m + i \in 1..(m + n) /\ r[m + i] = q[i]
      OBVIOUS
    <2>1. m + i \in 1..(m + n) /\ ~(m + i <= m) /\ (m + i) - m = i
      BY <1>1
    <2> QED BY <1>1, <2>1, ConcatProperties
  <1>5. Ordered(r)
    OBVIOUS
  <1> HIDE DEF r, m, n
  <1>6. Ordered(p)
    BY <1>1, <1>2, <1>3, <1>5 DEF Ordered
  <1>7. Ordered(q)
    <2> SUFFICES ASSUME NEW i \in 1..n, NEW j \in 1..n, i < j, q[i][1] = q[j][1]
                 PROVE  q[i][2] < q[j][2]
      BY <1>1 DEF Ordered
    <2>1. m + i < m + j
      BY <1>1
    <2>2. r[m + i][2] < r[m + j][2]
      BY <1>2, <1>4, <1>5, <2>1 DEF Ordered
    <2> QED BY <1>4, <2>2
  <1>8. ASSUME NEW e \in Range(p), NEW f \in Range(q), e[1] = f[1]
        PROVE  e[2] < f[2]
    <2>1. PICK i \in 1..m : e = p[i]
      BY <1>1 DEF Range
    <2>2. PICK j \in 1..n : f = q[j]
      BY <1>1 DEF Range
    <2>3. i < m + j
      BY <1>1
    <2>4. r[i][2] < r[m + j][2]
      BY <1>2, <1>3, <1>4, <1>5, <1>8, <2>1, <2>2, <2>3 DEF Ordered
    <2> QED BY <1>3, <1>4, <2>1, <2>2, <2>4
  <1> QED BY <1>6, <1>7, <1>8

----------------------------------------------------------------------------
(* What the tab holds *)

\* All it has, in the order of the screen, and what of it is on screen.
All(s) == s.older \o s.bubble
Has(s) == Range(All(s))
On(s) == Range(Shown(s))

\* The invariant of the tab by itself: in particular, text that waits for no
\* timer is on screen or was cut off.
Good(s) ==
    /\ s \in Tab /\ s.shown <= Len(s.bubble)
    /\ Ordered(All(s)) /\ Complete(Has(s), s.cut)
    /\ s.flush \/ Unshown(s) \subseteq s.cut

\* The tab can take event n of turn u: it has what comes before, unless it was
\* cut off, and nothing of what comes after.
Ready(s, u, n) ==
    /\ \A e \in Has(s) : e[1] = u => e[2] < n
    /\ \A m \in 1..(n - 1) : <<u, m>> \in Has(s) \cup s.cut
    /\ n = 0 => s.active = 0 \/ s.steered

\* From s to t the tab gets no pieces but N, counts what it loses as cut off,
\* and leaves on screen what is there.
Goes(s, t, N) ==
    /\ Has(t) \subseteq Has(s) \cup N
    /\ Has(s) \subseteq Has(t) \cup t.cut
    /\ s.cut \subseteq t.cut
    /\ On(s) \subseteq On(t)

LEMMA ScreenIs ==
    ASSUME NEW s \in Tab, s.shown <= Len(s.bubble)
    PROVE  /\ All(s) \in Seq(Piece) /\ Shown(s) \in Seq(Piece)
           /\ \E r \in Seq(Piece) : All(s) = Shown(s) \o r /\ Unshown(s) = Range(r)
           /\ Has(s) = On(s) \cup Unshown(s)
           /\ \A e \in Has(s) : e \in Piece
PROOF
  <1> DEFINE o == s.older
             b == s.bubble
             k == s.shown
             p == SubSeq(b, 1, k)
             r == SubSeq(b, k + 1, Len(b))
  <1>1. o \in Seq(Piece) /\ b \in Seq(Piece) /\ k \in Nat /\ Len(b) \in Nat /\ k <= Len(b)
        /\ s.cut \subseteq Piece
    BY LenProperties DEF Tab
  <1>2. All(s) = o \o b /\ Shown(s) = o \o p /\ Unshown(s) = Range(r)
    BY DEF All, Shown, Unshown
  <1> HIDE DEF o, b, k
  <1>3. \A i \in 1..Len(b) : b[i] \in Piece
    BY <1>1, ElementOfSeq
  <1>4. p \in Seq(Piece)
    <2>1. \A i \in 1..k : b[i] \in Piece
      BY <1>1, <1>3
    <2>2. 1 \in Int /\ k \in Int
      BY <1>1
    <2> QED BY <2>1, <2>2, SubSeqProperties
  <1>5. r \in Seq(Piece)
    <2> DEFINE m == k + 1
               n == Len(b)
    <2>1. \A i \in m..n : b[i] \in Piece
      BY <1>1, <1>3
    <2>2. m \in Int /\ n \in Int
      BY <1>1
    <2> HIDE DEF m, n
    <2>3. SubSeq(b, m, n) \in Seq(Piece)
      BY <2>1, <2>2, SubSeqProperties
    <2> QED BY <2>3 DEF m, n
  <1>6. p \o r = b
    <2> DEFINE n == Len(b)
    <2>1. 1 \in 1..(n + 1) /\ k \in (1 - 1)..n /\ n \in k..n
      BY <1>1
    <2>2. p \o r = SubSeq(b, 1, n)
      BY <1>1, <2>1, ConcatAdjacentSubSeq
    <2> QED BY <1>1, <2>2, SubSeqFull
  <1> HIDE DEF p, r
  <1>7. All(s) = Shown(s) \o r
    <2>1. (o \o p) \o r = o \o (p \o r)
      BY <1>1, <1>4, <1>5, ConcatAssociative
    <2> QED BY <1>2, <1>6, <2>1
  <1>8. All(s) \in Seq(Piece) /\ Shown(s) \in Seq(Piece)
    BY <1>1, <1>2, <1>4, ConcatProperties
  <1>9. Has(s) = On(s) \cup Unshown(s)
    <2> DEFINE q == Shown(s)
    <2>1. q \in Seq(Piece)
      BY <1>8
    <2> HIDE DEF q
    <2>2. Range(q \o r) = Range(q) \cup Range(r)
      BY <1>5, <2>1, RangeConcatenation
    <2> QED BY <1>2, <1>7, <2>2 DEF Has, On, q
  <1>10. \A e \in Has(s) : e \in Piece
    BY <1>8, RangeOfSeq DEF Has
  <1> QED BY <1>2, <1>5, <1>7, <1>8, <1>9, <1>10

\* What is on screen comes before what is not.
LEMMA ScreenFirst ==
    ASSUME NEW s, Good(s)
    PROVE  /\ Ordered(Shown(s))
           /\ \A e \in On(s), f \in Unshown(s) : e[1] = f[1] => e[2] < f[2]
PROOF
  <1>1. s \in Tab /\ s.shown <= Len(s.bubble) /\ Ordered(All(s))
    BY DEF Good
  <1>2. Shown(s) \in Seq(Piece)
        /\ \E r \in Seq(Piece) : All(s) = Shown(s) \o r /\ Unshown(s) = Range(r)
    BY <1>1, ScreenIs
  <1>3. PICK r \in Seq(Piece) : All(s) = Shown(s) \o r /\ Unshown(s) = Range(r)
    BY <1>2
  <1> QED BY <1>1, <1>2, <1>3, OrderedConcat DEF On

LEMMA GoesReady ==
    ASSUME NEW s, NEW t, Goes(s, t, {}), NEW u, NEW n, Ready(s, u, n),
           n = 0 => t.active = 0 \/ t.steered
    PROVE  Ready(t, u, n)
PROOF BY DEF Goes, Ready

LEMMA GoesOn ==
    ASSUME NEW s, NEW t, NEW r, NEW N, Goes(s, t, N), Goes(t, r, {})
    PROVE  Goes(s, r, N)
PROOF BY DEF Goes

\* A step that leaves the text alone, but for what is on screen of it.
LEMMA SameText ==
    ASSUME NEW s, Good(s), NEW t \in Tab,
           t.older = s.older, t.bubble = s.bubble, t.shown <= Len(t.bubble),
           s.cut \subseteq t.cut, On(s) \subseteq On(t),
           t.flush \/ Unshown(t) \subseteq t.cut
    PROVE  Good(t) /\ All(t) = All(s) /\ Has(t) = Has(s) /\ Goes(s, t, {})
PROOF
  <1>1. All(t) = All(s) /\ Has(t) = Has(s)
    BY DEF All, Has
  <1>2. Complete(Has(t), t.cut)
    BY <1>1 DEF Good, Complete
  <1>3. Good(t)
    BY <1>1, <1>2 DEF Good
  <1>4. Goes(s, t, {})
    BY <1>1 DEF Goes
  <1> QED BY <1>1, <1>3, <1>4

\* A step that leaves the screen alone, too.
LEMMA SameScreen ==
    ASSUME NEW s, Good(s), NEW t \in Tab,
           t.older = s.older, t.bubble = s.bubble, t.shown = s.shown,
           t.cut = s.cut, t.flush = s.flush
    PROVE  Good(t) /\ All(t) = All(s) /\ Has(t) = Has(s) /\ On(t) = On(s) /\ Goes(s, t, {})
PROOF
  <1>1. On(t) = On(s) /\ Unshown(t) = Unshown(s)
    BY DEF On, Shown, Unshown
  <1>2. t.shown <= Len(t.bubble) /\ (t.flush \/ Unshown(t) \subseteq t.cut)
    BY <1>1 DEF Good
  <1> QED BY <1>1, <1>2, SameText

\* A step that puts what is on screen above a new bubble.
LEMMA NewBubble ==
    ASSUME NEW s, Good(s), NEW t \in Tab,
           t.older = Shown(s), t.bubble = <<>>, t.shown = 0, t.cut = s.cut \cup Unshown(s)
    PROVE  Good(t) /\ Has(t) = On(s) /\ On(t) = On(s) /\ Goes(s, t, {})
PROOF
  <1>1. /\ s \in Tab /\ Shown(s) \in Seq(Piece)
        /\ Has(s) = On(s) \cup Unshown(s) /\ Ordered(Shown(s))
    BY ScreenIs, ScreenFirst DEF Good
  <1> DEFINE p == Shown(s)
             e == <<>>
             a == 1
             z == 0
  <1>2. p \in Seq(Piece) /\ p \o e = p
    <2>1. p \in Seq(Piece)
      BY <1>1
    <2> HIDE DEF p
    <2> QED BY <2>1, ConcatEmptySeq
  <1>3. SubSeq(e, a, z) = e /\ SubSeq(e, z + 1, Len(e)) = e /\ Range(e) = {} /\ 0 <= Len(e)
    <2>1. Len(e) = 0 /\ 0 \in Int /\ 1 \in Int /\ 0 < 1 /\ 0 + 1 = 1 /\ 0 <= 0
      OBVIOUS
    <2>2. SubSeq(e, 1, 0) = <<>>
      BY <2>1, SubSeqEmpty
    <2>3. Range(e) = {}
      BY DEF Range
    <2> QED BY <2>1, <2>2, <2>3
  <1>4. t.older = p /\ t.bubble = e /\ t.shown = z /\ a = 1
    OBVIOUS
  <1> HIDE DEF p, e, a, z
  <1>5. All(t) = p /\ Shown(t) = p /\ Unshown(t) = {}
    BY <1>2, <1>3, <1>4 DEF All, Shown, Unshown
  <1>6. t.shown <= Len(t.bubble)
    BY <1>3, <1>4 DEF z
  <1>7. Has(t) = On(s) /\ On(t) = On(s)
    BY <1>5 DEF Has, On, p
  <1>8. Complete(Has(t), t.cut)
    BY <1>1, <1>7 DEF Good, Complete
  <1>9. Good(t)
    BY <1>1, <1>5, <1>6, <1>8 DEF Good, p
  <1>10. Goes(s, t, {})
    BY <1>1, <1>7 DEF Goes
  <1> QED BY <1>7, <1>9, <1>10

LEMMA AppendedIs ==
    ASSUME NEW s, Good(s), NEW e, NEW u \in Turns, NEW n \in 1..MaxLog,
           e.turn = u, e.n = n, Ready(s, u, n)
    PROVE  LET t == Appended(s, e) IN
           /\ Good(t) /\ Ready(t, u, n + 1)
           /\ <<u, n>> \in Has(t) /\ Goes(s, t, {<<u, n>>})
           /\ t.active = s.active /\ t.steered = s.steered /\ t.cut = s.cut
           /\ t.timer = s.timer /\ t.attempts = s.attempts
           /\ t.sending = s.sending /\ t.live = s.live
PROOF
  <1> DEFINE x == <<u, n>>
             b == s.bubble
             c == Append(b, x)
             y == TRUE
             t == [s EXCEPT !.bubble = c, !.flush = y]
             k == s.shown
             o == s.older
  <1>1. x \in Piece /\ x[1] = u /\ x[2] = n /\ n \in Nat /\ n # 0
    BY BoundsAssumption DEF Piece
  <1>2. /\ s \in Tab /\ b \in Seq(Piece) /\ o \in Seq(Piece) /\ y \in BOOLEAN /\ y
        /\ k \in Nat /\ k <= Len(b) /\ All(s) = o \o b /\ Shown(s) = o \o SubSeq(b, 1, k)
    BY DEF Good, Tab, All, Shown
  <1>3. All(s) \in Seq(Piece) /\ \A f \in Has(s) : f \in Piece
    BY <1>2, ScreenIs
  <1>4. t = Appended(s, e)
    BY DEF Appended
  <1> HIDE DEF x, b, y, k, o
  <1>5. c \in Seq(Piece) /\ Len(c) = Len(b) + 1 /\ Len(b) \in Nat
    BY <1>1, <1>2, AppendProperties, LenProperties
  <1>6. SubSeq(c, 1, k) = SubSeq(b, 1, k)
    <2>1. CASE k = 0
      <3>1. 1 \in Int /\ 0 \in Int /\ 0 < 1
        OBVIOUS
      <3>2. SubSeq(c, 1, 0) = <<>> /\ SubSeq(b, 1, 0) = <<>>
        BY <3>1, SubSeqEmpty
      <3> QED BY <2>1, <3>2
    <2>2. CASE k # 0
      <3> DEFINE d == <<x>>
      <3>1. d \in Seq(Piece) /\ c = b \o d
        BY <1>1, <1>2, AppendIsConcat
      <3>2. 1 \in 1..Len(b) /\ k \in 1..Len(b)
        BY <1>2, <1>5, <2>2
      <3> HIDE DEF d
      <3> QED BY <1>2, <3>1, <3>2, SubSeqOfConcat1
    <2> QED BY <2>1, <2>2
  <1>7. o \o c = Append(o \o b, x)
    BY <1>1, <1>2, ConcatAppend
  <1> HIDE DEF c
  <1>8. /\ t.older = o /\ t.bubble = c /\ t.shown = k /\ t.flush
        /\ t.active = s.active /\ t.steered = s.steered /\ t.cut = s.cut
        /\ t.timer = s.timer /\ t.attempts = s.attempts
        /\ t.sending = s.sending /\ t.live = s.live
    BY <1>2 DEF Tab, k, o, y
  <1>9. t \in Tab
    BY <1>2, <1>5 DEF Tab
  <1> HIDE DEF t
  <1>10. All(t) = Append(All(s), x) /\ Shown(t) = Shown(s)
    BY <1>2, <1>6, <1>7, <1>8 DEF All, Shown
  <1>11. Has(t) = Has(s) \cup {x} /\ On(t) = On(s)
    <2> DEFINE p == All(s)
    <2>1. p \in Seq(Piece)
      BY <1>3
    <2> HIDE DEF p
    <2>2. Range(Append(p, x)) = Range(p) \cup {x}
      BY <1>1, <2>1, RangeAppend
    <2> QED BY <1>10, <2>2 DEF Has, On, p
  <1>12. \A f \in Has(s) : f[1] = u => f[2] < n /\ f[2] \in Nat
    BY <1>3, PieceIs DEF Ready
  <1>13. Ordered(All(t))
    BY <1>1, <1>3, <1>10, <1>12, OrderedAppend DEF Has, Good
  <1>14. \A m \in 1..n : <<u, m>> \in Has(t) \cup t.cut
    <2> SUFFICES ASSUME NEW m \in 1..n PROVE <<u, m>> \in Has(t) \cup t.cut
      OBVIOUS
    <2>1. CASE m = n
      BY <1>11, <2>1 DEF x
    <2>2. CASE m # n
      <3>1. m \in 1..(n - 1)
        BY <1>1, <2>2
      <3> QED BY <1>8, <1>11, <3>1 DEF Ready
    <2> QED BY <2>1, <2>2
  <1>15. Complete(Has(t), t.cut)
    <2> SUFFICES ASSUME NEW f \in Has(t), NEW m \in 1..(f[2] - 1)
                 PROVE  <<f[1], m>> \in Has(t) \cup t.cut
      BY DEF Complete
    <2>1. CASE f = x
      <3>1. m \in 1..n
        BY <1>1, <2>1
      <3> QED BY <1>1, <1>14, <2>1, <3>1
    <2>2. CASE f \in Has(s)
      BY <1>8, <1>11, <2>2 DEF Good, Complete
    <2> QED BY <1>11, <2>1, <2>2
  <1>16. t.shown <= Len(t.bubble)
    BY <1>2, <1>5, <1>8
  <1>17. Good(t)
    BY <1>8, <1>9, <1>13, <1>15, <1>16 DEF Good
  <1>18. Ready(t, u, n + 1)
    <2>1. (n + 1) - 1 = n /\ n + 1 # 0
      BY <1>1
    <2>2. \A f \in Has(t) : f[1] = u => f[2] < n + 1
      BY <1>1, <1>11, <1>12
    <2> QED BY <1>14, <2>1, <2>2 DEF Ready
  <1>19. x \in Has(t) /\ Goes(s, t, {x})
    BY <1>8, <1>11 DEF Goes
  <1> QED BY <1>4, <1>8, <1>17, <1>18, <1>19 DEF x

----------------------------------------------------------------------------
(* One event *)

LEMMA FlushedIs ==
    ASSUME NEW s, Good(s)
    PROVE  LET t == Flushed(s) IN
           /\ Good(t) /\ Has(t) = Has(s) /\ On(t) = Has(s) /\ Goes(s, t, {})
           /\ t.active = s.active /\ t.steered = s.steered /\ t.cut = s.cut
           /\ t.timer = s.timer /\ t.attempts = s.attempts
           /\ t.sending = s.sending /\ t.live = s.live
PROOF
  <1> DEFINE b == s.bubble
             k == Len(b)
             n == FALSE
             t == [s EXCEPT !.shown = k, !.flush = n]
  <1>1. /\ s \in Tab /\ b \in Seq(Piece) /\ n \in BOOLEAN
        /\ Has(s) = On(s) \cup Unshown(s)
    BY ScreenIs DEF Good, Tab
  <1>2. k \in Nat /\ SubSeq(b, 1, k) = b /\ SubSeq(b, k + 1, k) = <<>>
    <2>1. k \in Nat /\ SubSeq(b, 1, k) = b
      BY <1>1, LenProperties, SubSeqFull
    <2>2. k + 1 \in Int /\ k \in Int /\ k < k + 1
      BY <2>1
    <2> HIDE DEF k
    <2> QED BY <2>1, <2>2, SubSeqEmpty
  <1>3. t = Flushed(s)
    BY DEF Flushed
  <1>4. b = s.bubble /\ k = Len(b)
    OBVIOUS
  <1> HIDE DEF n, k, b
  <1>5. /\ t.older = s.older /\ t.bubble = b /\ t.shown = k
        /\ t.active = s.active /\ t.steered = s.steered /\ t.cut = s.cut
        /\ t.timer = s.timer /\ t.attempts = s.attempts
        /\ t.sending = s.sending /\ t.live = s.live
    BY <1>1, <1>4 DEF Tab
  <1>6. t \in Tab
    BY <1>1, <1>2 DEF Tab
  <1> HIDE DEF t
  <1>7. Shown(t) = All(s) /\ Unshown(t) = {}
    <2>1. Range(<<>>) = {}
      BY DEF Range
    <2>2. Shown(t) = s.older \o b
      BY <1>2, <1>5 DEF Shown
    <2>3. Unshown(t) = Range(<<>>)
      BY <1>2, <1>4, <1>5 DEF Unshown
    <2> QED BY <1>4, <2>1, <2>2, <2>3 DEF All
  <1>8. On(t) = Has(s) /\ On(s) \subseteq On(t)
    BY <1>1, <1>7 DEF On, Has
  <1>9. t.shown <= Len(t.bubble)
    BY <1>2, <1>4, <1>5
  <1>10. Good(t) /\ Has(t) = Has(s) /\ Goes(s, t, {})
    BY <1>4, <1>5, <1>6, <1>7, <1>8, <1>9, SameText
  <1> QED BY <1>3, <1>5, <1>8, <1>10

LEMMA CancelledIs ==
    ASSUME NEW s, Good(s)
    PROVE  LET t == Cancelled(s) IN
           /\ Good(t) /\ Has(t) = Has(s) /\ Goes(s, t, {})
           /\ t.active = s.active /\ t.steered = s.steered
           /\ t.timer = s.timer /\ t.attempts = s.attempts
           /\ t.sending = s.sending /\ t.live = s.live
PROOF
  <1> DEFINE n == FALSE
             d == s.cut \cup Unshown(s)
             t == [s EXCEPT !.flush = n, !.cut = d]
  <1>1. s \in Tab /\ s.shown <= Len(s.bubble) /\ n \in BOOLEAN
    BY DEF Good
  <1>2. d \in SUBSET Piece
    BY <1>1, ScreenIs DEF Tab
  <1>3. t = Cancelled(s)
    BY DEF Cancelled
  <1>4. d = s.cut \cup Unshown(s)
    OBVIOUS
  <1> HIDE DEF n, d
  <1>5. /\ t.older = s.older /\ t.bubble = s.bubble /\ t.shown = s.shown /\ t.cut = d
        /\ t.active = s.active /\ t.steered = s.steered
        /\ t.timer = s.timer /\ t.attempts = s.attempts
        /\ t.sending = s.sending /\ t.live = s.live
    BY <1>1 DEF Tab
  <1>6. t \in Tab
    BY <1>1, <1>2 DEF Tab
  <1> HIDE DEF t
  <1>7. On(t) = On(s) /\ Unshown(t) = Unshown(s)
    BY <1>5 DEF On, Shown, Unshown
  <1>8. Good(t) /\ Has(t) = Has(s) /\ Goes(s, t, {})
    BY <1>1, <1>4, <1>5, <1>6, <1>7, SameText
  <1> QED BY <1>3, <1>5, <1>8

LEMMA IdleIs ==
    ASSUME NEW s \in Tab
    PROVE  /\ Idle(s) \in Tab
           /\ Idle(s).older = s.older /\ Idle(s).bubble = s.bubble
           /\ Idle(s).shown = s.shown /\ Idle(s).cut = s.cut /\ Idle(s).flush = s.flush
           /\ Idle(s).timer = s.timer /\ Idle(s).attempts = s.attempts
           /\ Idle(s).steered = s.steered
           /\ ~Idle(s).sending /\ ~Idle(s).live /\ Idle(s).active = 0
PROOF
  <1> DEFINE a == 0
             b == FALSE
             c == FALSE
  <1>1. a \in 0..1 /\ b \in BOOLEAN /\ c \in BOOLEAN
    OBVIOUS
  <1>2. Idle(s) = [s EXCEPT !.active = a, !.sending = b, !.live = c]
    BY DEF Idle
  <1>3. /\ Idle(s).older = s.older /\ Idle(s).bubble = s.bubble
        /\ Idle(s).shown = s.shown /\ Idle(s).cut = s.cut /\ Idle(s).flush = s.flush
        /\ Idle(s).timer = s.timer /\ Idle(s).attempts = s.attempts
        /\ Idle(s).steered = s.steered
        /\ ~Idle(s).sending /\ ~Idle(s).live /\ Idle(s).active = 0
    BY DEF Idle, Tab
  <1> HIDE DEF a, b, c
  <1>4. Idle(s) \in Tab
    BY <1>1, <1>2 DEF Tab
  <1> QED BY <1>3, <1>4

LEMMA IdleGood ==
    ASSUME NEW s, Good(s)
    PROVE  LET t == Idle(s) IN
           /\ Good(t) /\ Has(t) = Has(s) /\ Goes(s, t, {}) /\ t.cut = s.cut
           /\ t.timer = s.timer /\ t.attempts = s.attempts
           /\ ~t.sending /\ ~t.live /\ t.active = 0
PROOF
  <1> DEFINE t == Idle(s)
  <1>1. /\ t \in Tab /\ t.older = s.older /\ t.bubble = s.bubble
        /\ t.shown = s.shown /\ t.cut = s.cut /\ t.flush = s.flush
        /\ t.timer = s.timer /\ t.attempts = s.attempts
        /\ ~t.sending /\ ~t.live /\ t.active = 0
    BY IdleIs DEF Good
  <1> HIDE DEF t
  <1>2. Good(t) /\ Has(t) = Has(s) /\ Goes(s, t, {})
    BY <1>1, SameScreen
  <1> QED BY <1>1, <1>2 DEF t

\* The new bubble of turn_start.
LEMMA BubbleIs ==
    ASSUME NEW s, Good(s), s.active = 0
    PROVE  LET t == BeginTurn(s) IN
           /\ Good(t) /\ Has(t) = On(s) /\ Goes(s, t, {})
           /\ t.cut = s.cut \cup Unshown(s)
           /\ t.timer = s.timer /\ t.attempts = s.attempts
           /\ t.sending = s.sending /\ t.live = s.live
PROOF
  <1> DEFINE o == Shown(s)
             d == s.cut \cup Unshown(s)
             e == <<>>
             k == 0
             y == TRUE
             a == s.active + 1
             t == [s EXCEPT !.older = o, !.bubble = e, !.shown = k, !.dated = y,
                            !.cut = d, !.active = a]
  <1>1. s \in Tab /\ s.shown <= Len(s.bubble)
    BY DEF Good
  <1>2. o \in Seq(Piece) /\ d \in SUBSET Piece
    BY <1>1, ScreenIs DEF Tab
  <1>3. e \in Seq(Piece) /\ k \in Nat /\ y \in BOOLEAN /\ a \in 0..1
    OBVIOUS
  <1>4. t = BeginTurn(s)
    BY DEF BeginTurn
  <1>5. o = Shown(s) /\ d = s.cut \cup Unshown(s) /\ e = <<>> /\ k = 0
    OBVIOUS
  <1> HIDE DEF o, d, e, k, y, a
  <1>6. /\ t.older = o /\ t.bubble = e /\ t.shown = k /\ t.cut = d
        /\ t.timer = s.timer /\ t.attempts = s.attempts
        /\ t.sending = s.sending /\ t.live = s.live
    BY <1>1 DEF Tab
  <1>7. t \in Tab
    BY <1>1, <1>2, <1>3 DEF Tab
  <1> HIDE DEF t
  <1>8. Good(t) /\ Has(t) = On(s) /\ Goes(s, t, {})
    BY <1>5, <1>6, <1>7, NewBubble
  <1> QED BY <1>4, <1>5, <1>6, <1>8

Shows(e) == e.type \in {"text", "done"}

\* What an event adds to what the tab has.
News(e) == IF Shows(e) THEN {<<e.turn, e.n>>} ELSE {}

\* One event of a turn the tab is ready for.
LEMMA ApplyIs ==
    ASSUME NEW s, Good(s), NEW e \in Event, Ready(s, e.turn, e.n),
           (e.type = "start") <=> (e.n = 0)
    PROVE  LET t == Apply(s, e) IN
           /\ Good(t) /\ Goes(s, t, News(e)) /\ News(e) \subseteq Has(t)
           /\ t.timer = s.timer /\ t.attempts = s.attempts
           /\ e.type \notin Terminal =>
                /\ e.type = "start" \/ Shows(e)
                /\ Ready(t, e.turn, e.n + 1)
                /\ t.cut \subseteq s.cut \cup (IF e.type = "start" THEN Has(s) ELSE {})
                /\ t.sending = s.sending /\ t.live = s.live
           /\ e.type \in Terminal => ~t.sending /\ ~t.live /\ t.active = 0
PROOF
  <1> DEFINE t == Apply(s, e)
             x == <<e.turn, e.n>>
             b == Appended(s, e)
  <1>1. /\ s \in Tab /\ Has(s) = On(s) \cup Unshown(s) /\ \A f \in Has(s) : f \in Piece
        /\ s.active \in 0..1 /\ s.steered \in BOOLEAN
    BY ScreenIs DEF Good, Tab
  <1>2. e.type \in Kinds /\ e.turn \in Turns /\ e.n \in 0..MaxLog
    BY DEF Event
  <1>3. ASSUME Shows(e)
        PROVE  /\ Good(b) /\ Ready(b, e.turn, e.n + 1) /\ x \in Has(b) /\ Goes(s, b, {x})
               /\ b.active = s.active /\ b.cut = s.cut
               /\ b.timer = s.timer /\ b.attempts = s.attempts
               /\ b.sending = s.sending /\ b.live = s.live
    <2>1. e.n \in 1..MaxLog
      BY <1>2, <1>3, BoundsAssumption DEF Shows
    <2> QED BY <1>2, <2>1, AppendedIs
  <1>4. CASE e.type = "start"
    <2>1. ~Shows(e) /\ e.type \notin Terminal /\ News(e) = {} /\ e.n = 0
      BY <1>4 DEF Shows, Terminal, News
    <2>2. \A f \in Has(s) : f[1] # e.turn
      <3>1. \A f \in Has(s) : f[1] = e.turn => f[2] < 0 /\ f[2] \in Nat
        BY <1>1, <2>1, PieceIs DEF Ready
      <3> QED BY <3>1
    <2>3. ASSUME NEW r, Has(r) \subseteq Has(s)
          PROVE  Ready(r, e.turn, e.n + 1)
      BY <2>1, <2>2, <2>3 DEF Ready
    <2>4. CASE s.steered
      <3> DEFINE a == 1
                 v == FALSE
                 r == [s EXCEPT !.steered = v, !.active = a]
      <3>1. t = r /\ a \in 0..1 /\ v \in BOOLEAN
        BY <1>4, <2>4 DEF Apply
      <3> HIDE DEF a, v
      <3>2. /\ r.older = s.older /\ r.bubble = s.bubble /\ r.shown = s.shown
            /\ r.cut = s.cut /\ r.flush = s.flush
            /\ r.timer = s.timer /\ r.attempts = s.attempts
            /\ r.sending = s.sending /\ r.live = s.live
        BY <1>1 DEF Tab
      <3>3. r \in Tab
        BY <1>1, <3>1 DEF Tab
      <3> HIDE DEF r, t
      <3>4. Good(r) /\ Has(r) = Has(s) /\ Goes(s, r, {})
        BY <3>2, <3>3, SameScreen
      <3> QED BY <1>4, <2>1, <2>3, <3>1, <3>2, <3>4 DEF t
    <2>5. CASE ~s.steered
      <3> DEFINE r == BeginTurn(s)
      <3>1. t = r /\ s.active = 0
        BY <1>4, <2>1, <2>5 DEF Apply, Ready
      <3> HIDE DEF t
      <3>2. /\ Good(r) /\ Has(r) = On(s) /\ Goes(s, r, {})
            /\ r.cut = s.cut \cup Unshown(s)
            /\ r.timer = s.timer /\ r.attempts = s.attempts
            /\ r.sending = s.sending /\ r.live = s.live
        BY <3>1, BubbleIs
      <3> HIDE DEF r
      <3>4. Ready(r, e.turn, e.n + 1)
        BY <1>1, <2>3, <3>2
      <3>5. r.cut \subseteq s.cut \cup Has(s)
        BY <1>1, <3>2
      <3> QED BY <1>4, <2>1, <3>1, <3>2, <3>4, <3>5 DEF t
    <2> QED BY <2>4, <2>5
  <1>5. CASE e.type = "text"
    <2>1. Shows(e) /\ e.type \notin Terminal /\ News(e) = {x} /\ e.type # "start"
      BY <1>5 DEF Shows, Terminal, News
    <2>2. t = b
      BY <1>5 DEF Apply
    <2> QED BY <1>3, <2>1, <2>2
  <1>6. CASE e.type = "done"
    <2>1. Shows(e) /\ e.type \in Terminal /\ News(e) = {x}
      BY <1>6 DEF Shows, Terminal, News
    <2> DEFINE c == Flushed(b)
               d == Idle(c)
    <2>2. t = d
      <3>1. s.active <= 1
        BY <1>1
      <3> QED BY <1>6, <3>1 DEF Apply, FinishTurn
    <2> HIDE DEF b, t, x
    <2>3. /\ Good(c) /\ Has(c) = Has(b) /\ Goes(b, c, {})
          /\ c.timer = s.timer /\ c.attempts = s.attempts
      BY <1>3, <2>1, FlushedIs
    <2> HIDE DEF c
    <2>4. /\ Good(d) /\ Has(d) = Has(c) /\ Goes(c, d, {})
          /\ d.timer = c.timer /\ d.attempts = c.attempts
          /\ ~d.sending /\ ~d.live /\ d.active = 0
      BY <2>3, IdleGood
    <2> HIDE DEF d
    <2>5. Goes(s, d, {x})
      BY <1>3, <2>1, <2>3, <2>4, GoesOn
    <2>6. x \in Has(d)
      BY <1>3, <2>1, <2>3, <2>4
    <2> QED BY <2>1, <2>2, <2>3, <2>4, <2>5, <2>6 DEF t
  <1>7. CASE e.type \in {"error", "aborted"}
    <2>1. e.type \in Terminal /\ News(e) = {}
      BY <1>7 DEF Shows, Terminal, News
    <2> DEFINE c == IF e.type = "error" /\ s.dated THEN Flushed(s) ELSE Cancelled(s)
               d == Idle(c)
    <2>2. t = d
      BY <1>7 DEF Apply, FailTurn
    <2>3. /\ Good(c) /\ Goes(s, c, {})
          /\ c.timer = s.timer /\ c.attempts = s.attempts
      <3>1. CASE e.type = "error" /\ s.dated
        <4>1. c = Flushed(s)
          BY <3>1
        <4> HIDE DEF c
        <4> QED BY <4>1, FlushedIs
      <3>2. CASE ~(e.type = "error" /\ s.dated)
        <4>1. c = Cancelled(s)
          BY <3>2
        <4> HIDE DEF c
        <4> QED BY <4>1, CancelledIs
      <3> QED BY <3>1, <3>2
    <2> HIDE DEF b, t, x, c
    <2>4. /\ Good(d) /\ Goes(c, d, {})
          /\ d.timer = c.timer /\ d.attempts = c.attempts
          /\ ~d.sending /\ ~d.live /\ d.active = 0
      BY <2>3, IdleGood
    <2> HIDE DEF d
    <2>5. Goes(s, d, {})
      BY <2>3, <2>4, GoesOn
    <2> QED BY <2>1, <2>2, <2>3, <2>4, <2>5 DEF t
  <1> QED BY <1>2, <1>4, <1>5, <1>6, <1>7 DEF Kinds

----------------------------------------------------------------------------
(* The replay of a baseline *)

\* Events of one turn in their order: turn_start is 0, and the end is last.
Consecutive(es) ==
    \A i \in DOMAIN es :
        /\ es[i].turn = es[1].turn /\ es[i].n = es[1].n + (i - 1)
        /\ (es[i].type = "start") <=> (es[i].n = 0)
        /\ es[i].type \in Terminal => i = Len(es)

FromTop(es) == es # <<>> => es[1].n \in {0, 1}

\* What events put on screen.
Pieces(es) == {<<es[i].turn, es[i].n>> : i \in {j \in DOMAIN es : Shows(es[j])}}

LEMMA ResetIs ==
    ASSUME NEW s \in Tab
    PROVE  LET t == ResetForReplay(s) IN
           /\ Good(t) /\ Has(t) = {} /\ t.cut = {}
           /\ t.timer = s.timer /\ t.attempts = s.attempts /\ t.active = 0
           /\ \A u : Ready(t, u, 0)
PROOF
  <1> DEFINE t == ResetForReplay(s)
             a == 0
             w == FALSE
             o == <<>>
             d == {}
             k == 0
  <1>1. a \in 0..1 /\ w \in BOOLEAN /\ o \in Seq(Piece) /\ d \in SUBSET Piece /\ k \in Nat
    OBVIOUS
  <1>2. t = [s EXCEPT !.active = a, !.steered = w, !.older = o, !.bubble = o,
                      !.shown = k, !.dated = w, !.cut = d]
    BY DEF ResetForReplay
  <1>3. /\ t.timer = s.timer /\ t.attempts = s.attempts /\ t.active = 0
        /\ t.older = <<>> /\ t.bubble = <<>> /\ t.shown = k /\ t.cut = {}
    BY DEF ResetForReplay, Tab
  <1>4. k = 0
    OBVIOUS
  <1> HIDE DEF a, w, o, d, k, t
  <1>5. t \in Tab
    BY <1>1, <1>2 DEF Tab
  <1>6. <<>> \o <<>> = <<>> /\ Range(<<>>) = {} /\ Len(<<>>) = 0
    BY DEF Range
  <1>7. All(t) = <<>> /\ Has(t) = {}
    BY <1>3, <1>6 DEF All, Has
  <1>8. t.shown <= Len(t.bubble)
    BY <1>3, <1>4, <1>6
  <1>9. Unshown(t) = {}
    BY <1>5, <1>7, <1>8, ScreenIs
  <1>10. Ordered(<<>>) /\ Complete({}, {})
    BY DEF Ordered, Complete
  <1>11. Good(t)
    BY <1>3, <1>5, <1>7, <1>8, <1>9, <1>10 DEF Good
  <1>12. \A u : Ready(t, u, 0)
    <2>1. 0 - 1 = -1 /\ 1..(-1) = {}
      OBVIOUS
    <2> QED BY <1>3, <1>7, <2>1 DEF Ready
  <1> QED BY <1>3, <1>7, <1>11, <1>12 DEF t

\* After a replay the tab has the pieces of the baseline and no other, but for
\* what the end of a stopped turn cut off, and it is ready for the event that
\* follows the last one.
LEMMA ReplayIs ==
    ASSUME NEW s \in Tab, NEW es \in Seq(Event), Consecutive(es), FromTop(es)
    PROVE  LET t == ApplyAll(ResetForReplay(s), es) IN
           /\ Good(t) /\ t.timer = s.timer /\ t.attempts = s.attempts
           /\ Has(t) \subseteq Pieces(es) /\ Pieces(es) \subseteq Has(t) \cup t.cut
           /\ es = <<>> => t.active = 0 /\ t.cut = {} /\ \A u : Ready(t, u, 0)
           /\ es # <<>> /\ Last(es).type \notin Terminal =>
                t.cut = {} /\ Ready(t, es[1].turn, Last(es).n + 1)
           /\ es # <<>> /\ Last(es).type \in Terminal => t.active = 0
PROOF
  <1> DEFINE r == ResetForReplay(s)
             L == Len(es)
             UpTo(i) == {<<es[j].turn, es[j].n>> : j \in {k \in 1..i : Shows(es[k])}}
  <1>1. L \in Nat /\ DOMAIN es = 1..L /\ \A i \in 1..L : es[i] \in Event
    BY LenProperties, ElementOfSeq
  <1>2. PICK f : /\ ApplyAll(r, es) = f[L]
                 /\ f[0] = r
                 /\ \A i \in 1..L : f[i] = Apply(f[i - 1], es[i])
    BY <1>1, ApplyAllIs
  <1> DEFINE H(i) ==
               /\ Good(f[i]) /\ f[i].timer = s.timer /\ f[i].attempts = s.attempts
               /\ Has(f[i]) \subseteq UpTo(i) /\ UpTo(i) \subseteq Has(f[i]) \cup f[i].cut
               /\ i = 0 => f[i].active = 0 /\ f[i].cut = {} /\ \A u : Ready(f[i], u, 0)
               /\ i > 0 /\ es[i].type \notin Terminal =>
                    f[i].cut = {} /\ Ready(f[i], es[1].turn, es[i].n + 1)
               /\ i > 0 /\ es[i].type \in Terminal => f[i].active = 0
  <1>3. H(0)
    <2>1. UpTo(0) = {}
      OBVIOUS
    <2> QED BY <1>2, <2>1, ResetIs
  <1>4. ASSUME NEW i \in Nat, i + 1 \in 0..L, H(i)
        PROVE  H(i + 1)
    <2> DEFINE e == es[i + 1]
               t == f[i + 1]
               p == f[i]
    <2>1. i + 1 \in 1..L /\ i \in 0..L /\ (i + 1) - 1 = i
      BY <1>1, <1>4
    <2>2. e \in Event /\ t = Apply(p, e)
      BY <1>1, <1>2, <2>1
    <2>3. /\ e.turn = es[1].turn /\ e.n = es[1].n + i
          /\ (e.type = "start") <=> (e.n = 0)
      BY <1>1, <2>1 DEF Consecutive
    <2>4. Ready(p, e.turn, e.n) /\ p.cut = {} /\ (e.type = "start" => Has(p) = {})
      <3>1. CASE i = 0
        <4>1. es # <<>> /\ es[1] \in Event
          BY <1>1, <2>1
        <4>2. e.n \in {0, 1}
          BY <2>3, <3>1, <4>1 DEF FromTop, Event
        <4>3. UpTo(i) = {}
          BY <3>1
        <4>4. Has(p) = {} /\ Ready(p, e.turn, 0) /\ p.cut = {} /\ p.active = 0
          BY <1>4, <3>1, <4>3
        <4>5. Ready(p, e.turn, e.n)
          BY <4>2, <4>4 DEF Ready
        <4> QED BY <4>4, <4>5
      <3>2. CASE i # 0
        <4>1. i \in 1..L /\ i # L /\ i > 0
          BY <2>1, <3>2
        <4>2. es[i].type \notin Terminal /\ es[i].n = es[1].n + (i - 1)
          BY <1>1, <4>1 DEF Consecutive
        <4>3. es[1].n \in Nat
          BY <1>1, <2>1, BoundsAssumption DEF Event
        <4>4. es[i].n + 1 = e.n /\ e.n # 0
          BY <2>3, <4>1, <4>2, <4>3
        <4> QED BY <1>4, <2>3, <4>1, <4>2, <4>4
      <3> QED BY <3>1, <3>2
    <2> HIDE DEF t
    <2>5. /\ Good(t) /\ Goes(p, t, News(e)) /\ News(e) \subseteq Has(t)
          /\ t.timer = p.timer /\ t.attempts = p.attempts
          /\ e.type \notin Terminal =>
               /\ Ready(t, e.turn, e.n + 1)
               /\ t.cut \subseteq p.cut \cup (IF e.type = "start" THEN Has(p) ELSE {})
          /\ e.type \in Terminal => t.active = 0
      BY <1>4, <2>2, <2>3, <2>4, ApplyIs
    <2>6. UpTo(i + 1) = UpTo(i) \cup News(e)
      <3>1. 1..(i + 1) = 1..i \cup {i + 1}
        BY <1>4
      <3> QED BY <3>1 DEF News
    <2>7. Has(t) \subseteq UpTo(i + 1) /\ UpTo(i + 1) \subseteq Has(t) \cup t.cut
      BY <1>4, <2>4, <2>5, <2>6 DEF Goes
    <2>8. e.type \notin Terminal => t.cut = {}
      BY <2>4, <2>5
    <2>9. Good(t) /\ t.timer = s.timer /\ t.attempts = s.attempts
      BY <1>4, <2>5
    <2> HIDE DEF p
    <2>10. /\ e.type \notin Terminal => t.cut = {} /\ Ready(t, es[1].turn, e.n + 1)
           /\ e.type \in Terminal => t.active = 0
      BY <2>3, <2>5, <2>8
    <2>11. i + 1 # 0 /\ i + 1 > 0
      BY <1>4
    <2> HIDE DEF UpTo, e
    <2> QED BY <2>7, <2>9, <2>10, <2>11 DEF t, e
  <1> HIDE DEF H
  <1> DEFINE S == {i \in Nat : i \in 0..L => H(i)}
  <1>5. 0 \in S
    BY <1>3
  <1>6. \A i \in Nat : i \in S => i + 1 \in S
    BY <1>1, <1>4
  <1>7. Nat \subseteq S
    <2> HIDE DEF S
    <2> QED BY <1>5, <1>6, Induction
  <1>8. H(L)
    BY <1>1, <1>7
  <1>9. UpTo(L) = Pieces(es)
    BY <1>1 DEF Pieces
  <1>10. es = <<>> <=> L = 0
    BY <1>1, EmptySeq
  <1> QED BY <1>1, <1>2, <1>8, <1>9, <1>10 DEF H, Last

----------------------------------------------------------------------------
(* What is due *)

\* What is on screen of all turns, and what is once the timer has fired.
Pending(s) == IF s.flush THEN Has(s) ELSE On(s)

LEMMA PendingIs ==
    ASSUME NEW s, Good(s)
    PROVE  /\ On(s) \subseteq Pending(s) /\ Pending(s) \subseteq Has(s)
           /\ Has(s) \subseteq Pending(s) \cup s.cut
           /\ \A t : Of(t, s) = {e \in On(s) : e[1] = t}
           /\ \A t : Due(t, s) = {e \in Pending(s) : e[1] = t}
PROOF
  <1>1. Has(s) = On(s) \cup Unshown(s)
    BY ScreenIs DEF Good
  <1>2. \A t : Of(t, s) = {e \in On(s) : e[1] = t}
    BY DEF Of, On
  <1>3. \A t : Of(t, Flushed(s)) = {e \in Has(s) : e[1] = t}
    BY FlushedIs DEF Of, On
  <1>4. \A t : Due(t, s) = {e \in Pending(s) : e[1] = t}
    BY <1>2, <1>3 DEF Due, Pending
  <1> QED BY <1>1, <1>2, <1>4 DEF Good, Pending

\* A step of the tab keeps what is on screen when what it adds comes after all
\* that the tab has of the turn.
LEMMA KeepsBy ==
    ASSUME Good(tab), Good(tab'), NEW N, Goes(tab, tab', N),
           \A e \in Has(tab), f \in N : e[1] = f[1] => e[2] < f[2],
           NEW t
    PROVE  Keeps(t)
PROOF
  <1>1. /\ On(tab) \subseteq Pending(tab) /\ Pending(tab) \subseteq Has(tab)
        /\ Has(tab) \subseteq Pending(tab) \cup tab.cut
        /\ Of(t, tab) = {e \in On(tab) : e[1] = t}
        /\ Due(t, tab) = {e \in Pending(tab) : e[1] = t}
    BY PendingIs
  <1>2. /\ On(tab') \subseteq Pending(tab') /\ Pending(tab') \subseteq Has(tab')
        /\ Has(tab') \subseteq Pending(tab') \cup tab'.cut
        /\ Due(t, tab') = {e \in Pending(tab') : e[1] = t}
    BY PendingIs
  <1>3. Due(t, tab) \subseteq Due(t, tab') \cup tab'.cut
    BY <1>1, <1>2 DEF Goes
  <1>4. Of(t, tab) \subseteq Due(t, tab')
    BY <1>1, <1>2 DEF Goes
  <1>5. ASSUME NEW e \in Of(t, tab), NEW f \in Due(t, tab') \ Due(t, tab)
        PROVE  e[2] < f[2] \/ f \in tab.cut
    <2>1. e \in Has(tab) /\ e[1] = f[1] /\ f \in Has(tab') /\ f \notin Pending(tab)
      BY <1>1, <1>2, <1>5
    <2>2. f \in Has(tab) \/ f \in N
      BY <2>1 DEF Goes
    <2> QED BY <1>1, <2>1, <2>2
  <1>6. \A e \in Of(t, tab), f \in Due(t, tab') \ Due(t, tab) : e[2] < f[2] \/ f \in tab.cut
    BY <1>5
  <1> HIDE DEF Goes
  <1> QED BY <1>3, <1>4, <1>6 DEF Keeps
=============================================================================
