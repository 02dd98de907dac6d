---------------------------- MODULE CacheProofs -----------------------------
(***************************************************************************)
(* Proofs of the safety properties of Cache.                               *)
(***************************************************************************)
EXTENDS Cache, ListLemmas

-----------------------------------------------------------------------------
(***************************************************************************)
(* The inductive invariant.  The order of the entries matters to the       *)
(* collection only: everything else is said of the set of entries listed.  *)
(***************************************************************************)

\* An entry of any size, and while the locks are being counted: of any number.
Wide == [at : Addresses, uri : Uris, size : Nat,
         incomplete : BOOLEAN, valid : BOOLEAN, locks : Int]

Listed(c) == {c[i] : i \in 1 .. Len(c)}

\* A list of entries, no two at one address.
Good(c) ==
    /\ c \in Seq(Wide)
    /\ \A i, j \in 1 .. Len(c) : c[i].at = c[j].at => i = j

\* No two valid entries are for the same URI.
OneEach(c) ==
    \A e, g \in Listed(c) : e.valid /\ g.valid /\ e.uri = g.uri => e = g

\* The documents with the numbers D that were formatted from the entry at a.
Holders(d, D, a) == {k \in D : d[k].at = a}

\* One for the dialog, if it is about the entry at a.
Asking(b, a) == IF b = a THEN 1 ELSE 0

\* The document x finds its entry.
Finds(c, x) == \E e \in Listed(c) : e.valid /\ e.uri = x.uri /\ e.at = x.at

\* The locks of the entries c are those of the documents D of the list d, and
\* that of a dialog about the entry at b.
Balanced(c, d, D, b) ==
    /\ Good(c) /\ OneEach(c)
    /\ \A e \in Listed(c) :
         e.locks = Cardinality(Holders(d, D, e.at)) + Asking(b, e.at)
    /\ \A k \in D : Finds(c, d[k])
    /\ b # Null => \E e \in Listed(c) : e.at = b

Connection == [uri : Uris \cup {Null}, cached : Addresses \cup {Null},
               detached : BOOLEAN]

ConnOK ==
    /\ conn \in [Conns -> Connection]
    /\ \A s \in Conns :
         /\ conn[s].cached # Null => Busy(s)
         /\ conn[s].detached => conn[s].cached # Null

DialogOK ==
    /\ dialog \in [at : Addresses \cup {Null}, deletes : BOOLEAN]
    /\ dialog.at = Null => dialog = NoDialog

\* The connection x has its entry among those of c.
Loads(c, x) ==
    x.cached # Null => \E e \in Listed(c) : e.at = x.cached /\ e.uri = x.uri

Types ==
    /\ cache \in Seq(Entry) /\ docs \in Seq(Doc)
    /\ ConnOK /\ DialogOK /\ broken \in BOOLEAN

IInv ==
    /\ Types
    /\ Balanced(cache, docs, 1 .. Len(docs), dialog.at)
    /\ ~broken => \A s \in Conns : Loads(cache, conn[s])

-----------------------------------------------------------------------------
(* What Without leaves of a list.                                          *)

\* d is what the loop has kept after each element.
KeptSteps(d, S, l, is) ==
    /\ d \in [0 .. Len(l) -> Seq(S)] /\ d[0] = << >>
    /\ \A n \in 1 .. Len(l) :
         d[n] = IF n \in is THEN d[n - 1] ELSE Append(d[n - 1], l[n])

\* Without is what it has kept in the end.
LEMMA WithoutSteps ==
    ASSUME NEW S, NEW l \in Seq(S), NEW is
    PROVE  \E d : KeptSteps(d, S, l, is) /\ Without(l, is) = d[Len(l)]
<1> DEFINE N == Len(l)
           V == Seq(S)
           F == [n \in 1 .. N |-> [v \in V |-> IF n \in is THEN v ELSE Append(v, l[n])]]
<1>0. N \in Nat /\ << >> \in V
  OBVIOUS
<1>1. ASSUME NEW n \in 1 .. N, NEW v \in V
      PROVE  (IF n \in is THEN v ELSE Append(v, l[n])) \in V
  <2>1. l[n] \in S
    BY ElementOfSeq
  <2>2. Append(v, l[n]) \in Seq(S)
    BY <2>1, AppendProperties
  <2> QED BY <2>2
<1>2. StepsOn(F, N, V)
  <2> HIDE DEF V
  <2> QED BY <1>1 DEF StepsOn
<1>3. \A n \in 1 .. N : \A v \in V :
         F[n][v] = IF n \in is THEN v ELSE Append(v, l[n])
  <2> HIDE DEF V
  <2> QED OBVIOUS
<1> HIDE DEF F, N, V
<1>4. PICK g \in [0 .. N -> V] : g[0] = << >> /\ \A n \in 1 .. N : g[n] = F[n][g[n - 1]]
  <2>1. PICK g : Follows(g, F, N, V, << >>)
    BY <1>0, <1>2, StepByStep
  <2> QED BY <2>1 DEF Follows
<1>5. \A n \in 1 .. N : n - 1 \in 0 .. N /\ n \in 0 .. N /\ n # 0 /\ n \in Nat
  BY <1>0
<1>6. \A n \in 1 .. N :
         g[n] = IF n \in is THEN g[n - 1] ELSE Append(g[n - 1], l[n])
  <2>1. \A n \in 1 .. N : g[n - 1] \in V
    BY <1>4, <1>5
  <2> QED BY <1>3, <1>4, <2>1
<1> DEFINE body(n, f) == IF n = 0 THEN << >>
                         ELSE IF n \in is THEN f[n - 1] ELSE Append(f[n - 1], l[n])
<1>7. \A n \in 0 .. N : g[n] = body(n, g)
  <2>1. \A n \in 0 .. N : n # 0 => n \in 1 .. N
    BY <1>0
  <2> QED BY <1>4, <1>6, <2>1
<1>8. g = [n \in 0 .. N |-> body(n, g)]
  <2> HIDE DEF body
  <2> QED BY <1>7
<1> DEFINE d == CHOOSE f : f = [n \in 0 .. N |-> body(n, f)]
<1>9. d = [n \in 0 .. N |-> body(n, d)]
  <2> HIDE DEF body
  <2> QED BY <1>8, Zenon
<1>10. Without(l, is) = d[Len(l)]
  BY Zenon DEF Without, N
<1> HIDE DEF d
<1>11. \A n \in 0 .. N : d[n] = body(n, d)
  <2> HIDE DEF body
  <2> QED BY <1>9
<1>12. d[0] = << >>
  <2>1. 0 \in 0 .. N
    BY <1>0
  <2> QED BY <1>11, <2>1
<1>13. \A n \in 1 .. N :
          d[n] = IF n \in is THEN d[n - 1] ELSE Append(d[n - 1], l[n])
  BY <1>5, <1>11
<1> DEFINE T == {n \in 0 .. N : d[n] \in V}
<1>14. 0 \in T
  BY <1>0, <1>12
<1>15. ASSUME NEW n \in 1 .. N, n - 1 \in T PROVE n \in T
  BY <1>1, <1>5, <1>13, <1>15
<1> HIDE DEF T
<1>16. \A n \in 0 .. N : n \in T
  BY <1>0, <1>14, <1>15, CountInduction
<1>17. d \in [0 .. N -> V]
  <2>1. \A n \in 0 .. N : d[n] \in V
    BY <1>16 DEF T
  <2>2. DOMAIN d = 0 .. N /\ d = [n \in 0 .. N |-> d[n]]
    <3> HIDE DEF body
    <3> QED BY <1>9
  <2> QED BY <2>1, <2>2
<1>18. KeptSteps(d, S, l, is)
  BY <1>12, <1>13, <1>17 DEF KeptSteps, N, V
<1> QED BY <1>10, <1>18

\* w has the elements of l up to n but for those with the numbers is; f says
\* which.
Picks(w, S, l, n, is, f) ==
    /\ w \in Seq(S) /\ f \in [1 .. Len(w) -> 1 .. n]
    /\ \A j \in 1 .. Len(w) : f[j] \notin is /\ w[j] = l[f[j]]
    /\ \A j, k \in 1 .. Len(w) : f[j] = f[k] => j = k
    /\ \A i \in 1 .. n : i \in is \/ \E j \in 1 .. Len(w) : f[j] = i

\* One more element, kept.
LEMMA PicksOn ==
    ASSUME NEW S, NEW l \in Seq(S), NEW n \in Nat, n >= 1, n <= Len(l),
           NEW is, n \notin is,
           NEW v, NEW f, Picks(v, S, l, n - 1, is, f)
    PROVE  \E h : Picks(Append(v, l[n]), S, l, n, is, h)
<1> DEFINE m == Len(v)
           w == Append(v, l[n])
           h == [j \in 1 .. m + 1 |-> IF j <= m THEN f[j] ELSE n]
<1>1. /\ v \in Seq(S) /\ f \in [1 .. m -> 1 .. n - 1]
      /\ \A j \in 1 .. m : f[j] \notin is /\ v[j] = l[f[j]]
      /\ \A j, k \in 1 .. m : f[j] = f[k] => j = k
      /\ \A i \in 1 .. n - 1 : i \in is \/ \E j \in 1 .. m : f[j] = i
  BY DEF Picks
<1>2. m \in Nat /\ l[n] \in S
  <2>1. n \in 1 .. Len(l)
    OBVIOUS
  <2> QED BY <1>1, <2>1, ElementOfSeq
<1>3. w \in Seq(S) /\ Len(w) = m + 1
  BY <1>1, <1>2, AppendProperties
<1>4. \A j \in 1 .. m : w[j] = v[j]
  BY <1>1, <1>2, AppendProperties
<1>5. w[m + 1] = l[n]
  BY <1>1, <1>2, AppendProperties
<1>6. \A j \in 1 .. m + 1 : (j \in 1 .. m /\ j <= m) \/ (j = m + 1 /\ ~(j <= m))
  BY <1>2
<1>7. \A j \in 1 .. m : h[j] = f[j] /\ h[j] \in 1 .. n - 1
  <2>1. \A j \in 1 .. m : j \in 1 .. m + 1 /\ j <= m
    BY <1>2
  <2> QED BY <1>1, <2>1
<1>8. h[m + 1] = n
  <2>1. m + 1 \in 1 .. m + 1 /\ ~(m + 1 <= m)
    BY <1>2
  <2> QED BY <2>1
<1>9. h \in [1 .. m + 1 -> 1 .. n]
  <2>1. \A j \in 1 .. m + 1 : h[j] \in 1 .. n
    <3> HIDE DEF h, m
    <3>1. n \in 1 .. n /\ \A i \in 1 .. n - 1 : i \in 1 .. n
      OBVIOUS
    <3> QED BY <1>6, <1>7, <1>8, <3>1
  <2> QED BY <2>1
<1> HIDE DEF w, h, m
<1>10. \A j \in 1 .. m + 1 : h[j] \notin is /\ w[j] = l[h[j]]
  BY <1>1, <1>4, <1>5, <1>6, <1>7, <1>8
<1>11. \A j, k \in 1 .. m + 1 : h[j] = h[k] => j = k
  <2>1. \A j \in 1 .. m : h[j] # n
    BY <1>7
  <2> QED BY <1>1, <1>6, <1>7, <1>8, <2>1
<1>12. \A i \in 1 .. n : i \in is \/ \E j \in 1 .. m + 1 : h[j] = i
  <2>1. m + 1 \in 1 .. m + 1 /\ \A j \in 1 .. m : j \in 1 .. m + 1
    BY <1>2
  <2>2. \A i \in 1 .. n : i \in 1 .. n - 1 \/ i = n
    OBVIOUS
  <2> QED BY <1>1, <1>7, <1>8, <2>1, <2>2
<1> QED BY <1>3, <1>9, <1>10, <1>11, <1>12 DEF Picks, w

LEMMA WithoutPicks ==
    ASSUME NEW S, NEW l \in Seq(S), NEW is
    PROVE  \E f : Picks(Without(l, is), S, l, Len(l), is, f)
<1> DEFINE N == Len(l)
<1>1. N \in Nat
  OBVIOUS
<1>2. PICK d : KeptSteps(d, S, l, is) /\ Without(l, is) = d[N]
  BY WithoutSteps
<1> DEFINE T == {n \in 0 .. N : \E f : Picks(d[n], S, l, n, is, f)}
<1>3. 0 \in T
  <2>1. d[0] = << >> /\ 0 \in 0 .. N
    BY <1>1, <1>2 DEF KeptSteps
  <2>2. Picks(<< >>, S, l, 0, is, << >>)
    BY DEF Picks
  <2> QED BY <2>1, <2>2
<1>4. ASSUME NEW n \in 1 .. N, n - 1 \in T PROVE n \in T
  <2>1. n \in Nat /\ n >= 1 /\ n <= Len(l) /\ n \in 0 .. N
    BY <1>1
  <2>2. PICK f : Picks(d[n - 1], S, l, n - 1, is, f)
    BY <1>4
  <2>3. CASE n \in is
    <3>1. d[n] = d[n - 1]
      BY <1>2, <2>3 DEF KeptSteps
    <3>2. Picks(d[n - 1], S, l, n, is, f)
      <4>1. \A i \in 1 .. n : i \in 1 .. n - 1 \/ i = n
        BY <2>1
      <4>2. f \in [1 .. Len(d[n - 1]) -> 1 .. n]
        <5>1. /\ f \in [1 .. Len(d[n - 1]) -> 1 .. n - 1]
              /\ \A i \in 1 .. n - 1 : i \in 1 .. n
          BY <2>1, <2>2 DEF Picks
        <5> QED BY <5>1
      <4> QED BY <2>2, <2>3, <4>1, <4>2 DEF Picks
    <3> QED BY <2>1, <3>1, <3>2
  <2>4. CASE n \notin is
    <3>1. d[n] = Append(d[n - 1], l[n])
      BY <1>2, <2>4 DEF KeptSteps
    <3> DEFINE v == d[n - 1]
    <3> HIDE DEF v
    <3>2. \E h : Picks(Append(v, l[n]), S, l, n, is, h)
      BY <2>1, <2>2, <2>4, PicksOn DEF v
    <3> QED BY <2>1, <3>1, <3>2 DEF v
  <2> QED BY <2>3, <2>4
<1> HIDE DEF T
<1>5. \A n \in 0 .. N : n \in T
  BY <1>1, <1>3, <1>4, CountInduction
<1>6. N \in 0 .. N
  BY <1>1
<1> QED BY <1>2, <1>5, <1>6 DEF T

-----------------------------------------------------------------------------
(* Lists of entries.                                                       *)

LEMMA EntryFacts ==
    ASSUME NEW c, Good(c)
    PROVE  /\ c \in Seq(Wide) /\ Len(c) \in Nat
           /\ \A i \in 1 .. Len(c) : c[i] \in Wide /\ c[i] \in Listed(c)
           /\ \A e \in Listed(c) : e \in Wide /\ \E i \in 1 .. Len(c) : e = c[i]
           /\ \A e, g \in Listed(c) : e.at = g.at => e = g
<1>1. \A i \in 1 .. Len(c) : c[i] \in Wide
  BY ElementOfSeq DEF Good
<1> QED BY <1>1 DEF Good, Listed

\* Who sees to it that two lists have the same entries need not look at how.
LEMMA SameListed ==
    ASSUME NEW c, NEW b, Good(c), b \in Seq(Wide),
           NEW f \in [1 .. Len(b) -> 1 .. Len(c)],
           \A j \in 1 .. Len(b) : b[j] = c[f[j]],
           \A j, k \in 1 .. Len(b) : f[j] = f[k] => j = k
    PROVE  /\ Good(b) /\ Listed(b) = {c[i] : i \in {f[j] : j \in 1 .. Len(b)}}
<1>1. Good(b)
  BY DEF Good
<1>2. Listed(b) = {c[i] : i \in {f[j] : j \in 1 .. Len(b)}}
  BY DEF Listed
<1> QED BY <1>1, <1>2

\* What is left when some are removed.
LEMMA WithoutFacts ==
    ASSUME NEW c, Good(c), NEW is
    PROVE  /\ Good(Without(c, is))
           /\ Listed(Without(c, is)) = {c[i] : i \in (1 .. Len(c)) \ is}
<1> DEFINE w == Without(c, is)
<1>1. c \in Seq(Wide)
  BY DEF Good
<1>2. PICK f : Picks(w, Wide, c, Len(c), is, f)
  BY <1>1, WithoutPicks
<1> HIDE DEF w
<1>3. /\ w \in Seq(Wide) /\ f \in [1 .. Len(w) -> 1 .. Len(c)]
      /\ \A j \in 1 .. Len(w) : w[j] = c[f[j]]
      /\ \A j, k \in 1 .. Len(w) : f[j] = f[k] => j = k
  BY <1>2 DEF Picks
<1>4. Good(w) /\ Listed(w) = {c[i] : i \in {f[j] : j \in 1 .. Len(w)}}
  BY <1>3, SameListed
<1>5. {f[j] : j \in 1 .. Len(w)} = (1 .. Len(c)) \ is
  BY <1>2 DEF Picks
<1> QED BY <1>4, <1>5 DEF w

LEMMA RemovedFacts ==
    ASSUME NEW c, Good(c), NEW i \in 1 .. Len(c)
    PROVE  Good(RemoveAt(c, i)) /\ Listed(RemoveAt(c, i)) = Listed(c) \ {c[i]}
<1> DEFINE w == RemoveAt(c, i)
           f == [j \in 1 .. Len(c) - 1 |-> IF j < i THEN j ELSE j + 1]
<1>1. c \in Seq(Wide) /\ Len(c) \in Nat
  BY EntryFacts
<1>2. /\ w \in Seq(Wide) /\ Len(w) = Len(c) - 1
      /\ \A j \in 1 .. Len(c) - 1 : w[j] = IF j < i THEN c[j] ELSE c[j + 1]
  BY <1>1, RemoveAtFacts
<1> HIDE DEF w
<1>3. \A j \in 1 .. Len(w) : f[j] = (IF j < i THEN j ELSE j + 1) /\ f[j] \in 1 .. Len(c)
  BY <1>1, <1>2
<1>4. f \in [1 .. Len(w) -> 1 .. Len(c)]
  <2>1. DOMAIN f = 1 .. Len(w) /\ f = [j \in 1 .. Len(w) |-> f[j]]
    BY <1>2
  <2> HIDE DEF f
  <2> QED BY <1>3, <2>1
<1> HIDE DEF f
<1>5. \A j \in 1 .. Len(w) : w[j] = c[f[j]]
  BY <1>2, <1>3
<1>6. \A j, k \in 1 .. Len(w) : f[j] = f[k] => j = k
  BY <1>3
<1>7. Good(w) /\ Listed(w) = {c[j] : j \in {f[k] : k \in 1 .. Len(w)}}
  <2>1. w \in Seq(Wide)
    BY <1>2
  <2>2. Good(w)
    BY <1>4, <1>5, <1>6, <2>1, SameListed
  <2>3. Listed(w) = {c[j] : j \in {f[k] : k \in 1 .. Len(w)}}
    BY <1>4, <1>5, <1>6, <2>1, SameListed
  <2> QED BY <2>2, <2>3
<1>8. {f[k] : k \in 1 .. Len(w)} = (1 .. Len(c)) \ {i}
  <2>1. ASSUME NEW j \in 1 .. Len(c), j # i PROVE \E k \in 1 .. Len(w) : f[k] = j
    <3>1. CASE j < i
      <4>1. j \in 1 .. Len(w)
        BY <1>1, <1>2, <3>1
      <4> QED BY <1>3, <3>1, <4>1
    <3>2. CASE j > i
      <4>1. j - 1 \in 1 .. Len(w) /\ ~(j - 1 < i) /\ j - 1 + 1 = j
        BY <1>1, <1>2, <3>2
      <4> QED BY <1>3, <4>1
    <3> QED BY <2>1, <3>1, <3>2
  <2>2. \A k \in 1 .. Len(w) : f[k] \in (1 .. Len(c)) \ {i}
    BY <1>1, <1>3
  <2> QED BY <2>1, <2>2
<1>9. \A j \in 1 .. Len(c) : c[j] = c[i] => j = i
  BY DEF Good
<1> QED BY <1>7, <1>8, <1>9 DEF Listed, w

\* What the list is after one of its elements was moved: f says from where.
Moved(w, S, l, i, f) ==
    /\ w \in Seq(S) /\ Len(w) = Len(l) /\ w[1] = l[i]
    /\ f \in [1 .. Len(l) -> 1 .. Len(l)]
    /\ \A j \in 1 .. Len(l) : w[j] = l[f[j]]
    /\ \A j, k \in 1 .. Len(l) : f[j] = f[k] => j = k
    /\ \A k \in 1 .. Len(l) : \E j \in 1 .. Len(l) : f[j] = k

LEMMA MoveFacts ==
    ASSUME NEW S, NEW l \in Seq(S), NEW i \in 1 .. Len(l)
    PROVE  \E f : Moved(MoveToTop(l, i), S, l, i, f)
<1> DEFINE n == Len(l)
           a == SubSeq(l, 1, i - 1)
           b == SubSeq(l, i + 1, n)
           x == <<l[i]>>
           w == MoveToTop(l, i)
           f == [j \in 1 .. n |-> IF j = 1 THEN i ELSE IF j <= i THEN j - 1 ELSE j]
<1>0. n \in Nat /\ i \in Nat /\ i >= 1 /\ i <= n /\ i - 1 \in 0 .. n /\ i \in 0 .. n
  OBVIOUS
<1>1. a \in Seq(S) /\ Len(a) = i - 1 /\ \A j \in 1 .. i - 1 : a[j] = l[j]
  BY <1>0, PrefixFacts
<1>2. b \in Seq(S) /\ Len(b) = n - i /\ \A j \in 1 .. n - i : b[j] = l[i + j]
  BY <1>0, RestFacts
<1>3. x \in Seq(S) /\ Len(x) = 1 /\ x[1] = l[i]
  <2>1. l[i] \in S
    BY ElementOfSeq
  <2> QED BY <2>1
<1>4. w = (x \o a) \o b
  BY DEF MoveToTop
<1> HIDE DEF a, b, x, w
<1>5. /\ x \o a \in Seq(S) /\ Len(x \o a) = i
      /\ \A j \in 1 .. i : (x \o a)[j] = IF j = 1 THEN l[i] ELSE l[j - 1]
  <2> HIDE DEF n, f
  <2>0. /\ x \o a \in Seq(S) /\ Len(x \o a) = Len(x) + Len(a)
        /\ \A j \in 1 .. Len(x) + Len(a) :
             (x \o a)[j] = IF j <= Len(x) THEN x[j] ELSE a[j - Len(x)]
    BY <1>1, <1>3, ConcatProperties
  <2>1. x \o a \in Seq(S) /\ Len(x \o a) = 1 + Len(a)
    BY <1>3, <2>0
  <2>2. \A j \in 1 .. 1 + Len(a) : (x \o a)[j] = IF j <= 1 THEN x[j] ELSE a[j - 1]
    BY <1>3, <2>0
  <2>3. 1 + Len(a) = i
    BY <1>0, <1>1
  <2>4. \A j \in 1 .. i :
           /\ j <= 1 => j = 1
           /\ ~(j <= 1) => j # 1 /\ j - 1 \in 1 .. i - 1
    BY <1>0
  <2> QED BY <1>1, <1>3, <2>1, <2>2, <2>3, <2>4
<1>6. w \in Seq(S) /\ Len(w) = n
  <2>1. w \in Seq(S) /\ Len(w) = Len(x \o a) + Len(b)
    BY <1>2, <1>4, <1>5, ConcatProperties
  <2> QED BY <1>0, <1>2, <1>5, <2>1
<1>7. \A j \in 1 .. n : w[j] = IF j <= i THEN (x \o a)[j] ELSE b[j - i]
  <2>1. \A j \in 1 .. i + (n - i) : w[j] = IF j <= i THEN (x \o a)[j] ELSE b[j - i]
    BY <1>2, <1>4, <1>5, ConcatProperties
  <2>2. i + (n - i) = n
    BY <1>0
  <2> QED BY <2>1, <2>2
<1>8. \A j \in 1 .. n : f[j] = IF j = 1 THEN i ELSE IF j <= i THEN j - 1 ELSE j
  OBVIOUS
<1>9. f \in [1 .. n -> 1 .. n]
  <2>1. \A j \in 1 .. n : (IF j = 1 THEN i ELSE IF j <= i THEN j - 1 ELSE j) \in 1 .. n
    BY <1>0
  <2> HIDE DEF n
  <2> QED BY <2>1
<1> HIDE DEF f, n
<1>10. ASSUME NEW j \in 1 .. n PROVE w[j] = l[f[j]]
  <2>1. CASE j <= i
    <3>1. j \in 1 .. i
      BY <1>0, <2>1
    <3> QED BY <1>5, <1>7, <1>8, <2>1, <3>1
  <2>2. CASE ~(j <= i)
    <3>1. j - i \in 1 .. n - i /\ i + (j - i) = j /\ j # 1
      BY <1>0, <2>2
    <3> QED BY <1>2, <1>7, <1>8, <2>2, <3>1
  <2> QED BY <2>1, <2>2
<1>11. \A j, k \in 1 .. n : f[j] = f[k] => j = k
  BY <1>0, <1>8
<1>12. ASSUME NEW k \in 1 .. n PROVE \E j \in 1 .. n : f[j] = k
  <2>1. CASE k = i
    <3>1. 1 \in 1 .. n
      BY <1>0
    <3> QED BY <1>8, <2>1, <3>1
  <2>2. CASE k < i
    <3>1. k + 1 \in 1 .. n /\ k + 1 # 1 /\ k + 1 <= i /\ (k + 1) - 1 = k
      BY <1>0, <2>2
    <3> QED BY <1>8, <3>1
  <2>3. CASE k > i
    <3>1. k # 1 /\ ~(k <= i)
      BY <1>0, <2>3
    <3> QED BY <1>8, <3>1
  <2> QED BY <1>0, <2>1, <2>2, <2>3
<1>13. w[1] = l[i]
  <2>1. 1 \in 1 .. n
    BY <1>0
  <2> QED BY <1>8, <1>10, <2>1
<1> QED BY <1>6, <1>9, <1>10, <1>11, <1>12, <1>13 DEF Moved, n, w

LEMMA MovedFacts ==
    ASSUME NEW c, Good(c), NEW i \in 1 .. Len(c)
    PROVE  /\ Good(MoveToTop(c, i)) /\ Listed(MoveToTop(c, i)) = Listed(c)
           /\ MoveToTop(c, i)[1] = c[i] /\ Len(MoveToTop(c, i)) = Len(c)
<1> DEFINE w == MoveToTop(c, i)
<1>1. c \in Seq(Wide) /\ Len(c) \in Nat
  BY EntryFacts
<1>2. PICK f : Moved(w, Wide, c, i, f)
  BY <1>1, MoveFacts
<1> HIDE DEF w
<1>3. /\ w \in Seq(Wide) /\ f \in [1 .. Len(w) -> 1 .. Len(c)]
      /\ \A j \in 1 .. Len(w) : w[j] = c[f[j]]
      /\ \A j, k \in 1 .. Len(w) : f[j] = f[k] => j = k
  BY <1>2 DEF Moved
<1>4. Good(w) /\ Listed(w) = {c[k] : k \in {f[j] : j \in 1 .. Len(w)}}
  BY <1>3, SameListed
<1>5. {f[j] : j \in 1 .. Len(w)} = 1 .. Len(c)
  <2>1. /\ Len(w) = Len(c) /\ \A j \in 1 .. Len(c) : f[j] \in 1 .. Len(c)
        /\ \A k \in 1 .. Len(c) : \E j \in 1 .. Len(c) : f[j] = k
    BY <1>2 DEF Moved
  <2> QED BY <2>1
<1>6. Listed(w) = Listed(c)
  BY <1>4, <1>5 DEF Listed
<1>7. w[1] = c[i] /\ Len(w) = Len(c)
  BY <1>2 DEF Moved
<1> QED BY <1>4, <1>6, <1>7 DEF w

LEMMA KnownFacts ==
    ASSUME NEW c, Good(c), NEW u
    PROVE  Known(c, u) <=> \E e \in Listed(c) : e.valid /\ e.uri = u
BY DEF Known, Matches, Listed

\* find_in_cache() changes the order only, and what it finds comes first.
LEMMA FoundFacts ==
    ASSUME NEW c, Good(c), NEW u
    PROVE  /\ Good(FindInCache(c, u)) /\ Listed(FindInCache(c, u)) = Listed(c)
           /\ Len(FindInCache(c, u)) = Len(c)
           /\ Known(c, u) =>
                /\ 1 \in 1 .. Len(FindInCache(c, u))
                /\ FindInCache(c, u)[1] \in Listed(c)
                /\ FindInCache(c, u)[1].valid /\ FindInCache(c, u)[1].uri = u
<1>1. CASE ~Known(c, u)
  BY <1>1 DEF FindInCache
<1>2. CASE Known(c, u)
  <2> DEFINE M == Matches(c, u)
             i == Min(M)
  <2>1. M \in SUBSET Nat /\ M # {}
    BY <1>2 DEF Known, Matches
  <2>2. i \in M
    <3> HIDE DEF M
    <3> QED BY <2>1, MinFacts
  <2>3. FindInCache(c, u) = MoveToTop(c, i)
    BY <1>2 DEF FindInCache
  <2> HIDE DEF i
  <2>4. i \in 1 .. Len(c) /\ c[i].valid /\ c[i].uri = u
    BY <2>2 DEF Matches
  <2> DEFINE w == MoveToTop(c, i)
  <2>5. Good(w) /\ Listed(w) = Listed(c) /\ w[1] = c[i] /\ Len(w) = Len(c)
    BY <2>4, MovedFacts
  <2> HIDE DEF w, M
  <2>6. c[i] \in Listed(c) /\ 1 \in 1 .. Len(c)
    <3>1. Len(c) \in Nat
      BY EntryFacts
    <3> QED BY <2>4, <3>1 DEF Listed
  <2> QED BY <2>3, <2>4, <2>5, <2>6 DEF w
<1> QED BY <1>1, <1>2

\* One entry of the list changes, at its place.
LEMMA ChangedFacts ==
    ASSUME NEW c, Good(c), NEW i \in 1 .. Len(c), NEW e \in Wide, e.at = c[i].at,
           NEW w, w = [c EXCEPT ![i] = e]
    PROVE  /\ Good(w)
           /\ \A g : g \in Listed(w) <=> g = e \/ (g \in Listed(c) /\ g # c[i])
<1>1. c \in Seq(Wide)
  BY EntryFacts
<1>2. w \in Seq(Wide) /\ Len(w) = Len(c)
  BY <1>1, ExceptSeq
<1>3. \A j \in 1 .. Len(c) : w[j] = IF j = i THEN e ELSE c[j]
  BY <1>1, ExceptSeq
<1>4. Good(w)
  BY <1>2, <1>3 DEF Good
<1>5. \A j \in 1 .. Len(c) : c[j] = c[i] => j = i
  BY DEF Good
<1>6. Listed(w) = (Listed(c) \ {c[i]}) \cup {e}
  BY <1>2, <1>3, <1>5 DEF Listed
<1> QED BY <1>4, <1>6

\* One more element comes first.
LEMMA FrontFacts ==
    ASSUME NEW S, NEW l \in Seq(S), NEW e \in S, NEW w, w = <<e>> \o l
    PROVE  /\ w \in Seq(S) /\ Len(w) = Len(l) + 1
           /\ 1 \in 1 .. Len(w) /\ w[1] = e
           /\ \A k \in 1 .. Len(l) : k + 1 \in 1 .. Len(w) /\ w[k + 1] = l[k]
           /\ \A j \in 1 .. Len(w) : j = 1 \/ (j - 1 \in 1 .. Len(l) /\ w[j] = l[j - 1])
<1> DEFINE x == <<e>>
<1>1. x \in Seq(S) /\ Len(x) = 1 /\ x[1] = e /\ Len(l) \in Nat /\ w = x \o l
  OBVIOUS
<1> HIDE DEF x
<1>2. /\ w \in Seq(S) /\ Len(w) = 1 + Len(l)
      /\ \A j \in 1 .. 1 + Len(l) : w[j] = IF j <= 1 THEN x[j] ELSE l[j - 1]
  BY <1>1, ConcatProperties
<1>3. 1 \in 1 .. 1 + Len(l) /\ w[1] = e
  BY <1>1, <1>2
<1>4. \A j \in 1 .. 1 + Len(l) : j = 1 \/ (j - 1 \in 1 .. Len(l) /\ w[j] = l[j - 1])
  BY <1>1, <1>2
<1>5. \A k \in 1 .. Len(l) : k + 1 \in 1 .. 1 + Len(l) /\ w[k + 1] = l[k]
  <2>1. \A k \in 1 .. Len(l) : k + 1 \in 1 .. 1 + Len(l) /\ k + 1 # 1 /\ (k + 1) - 1 = k
    BY <1>1
  <2> QED BY <1>4, <2>1
<1>6. 1 + Len(l) = Len(l) + 1
  BY <1>1
<1> QED BY <1>2, <1>3, <1>4, <1>5, <1>6

\* A new one comes first.
LEMMA AddedFacts ==
    ASSUME NEW c, Good(c), NEW e \in Wide, e.at \notin Allocated(c),
           NEW w, w = <<e>> \o c
    PROVE  /\ Good(w) /\ w[1] = e /\ 1 \in 1 .. Len(w)
           /\ \A g : g \in Listed(w) <=> g = e \/ g \in Listed(c)
<1>1. c \in Seq(Wide) /\ Len(c) \in Nat
  BY EntryFacts
<1>2. w \in Seq(Wide) /\ Len(w) = Len(c) + 1 /\ w[1] = e /\ 1 \in 1 .. Len(w)
  BY <1>1, FrontFacts
<1>3. \A k \in 1 .. Len(c) : k + 1 \in 1 .. Len(w) /\ w[k + 1] = c[k]
  BY <1>1, FrontFacts
<1>4. \A j \in 1 .. Len(w) : j = 1 \/ (j - 1 \in 1 .. Len(c) /\ w[j] = c[j - 1])
  BY <1>1, FrontFacts
<1>5. ASSUME NEW i \in 1 .. Len(w), NEW j \in 1 .. Len(w), w[i].at = w[j].at PROVE i = j
  <2>1. \A k \in 1 .. Len(c) : c[k].at # e.at
    BY DEF Allocated
  <2>2. CASE i = 1 \/ j = 1
    BY <1>2, <1>4, <1>5, <2>1, <2>2
  <2>3. CASE i # 1 /\ j # 1
    <3>1. /\ i - 1 \in 1 .. Len(c) /\ j - 1 \in 1 .. Len(c)
          /\ w[i] = c[i - 1] /\ w[j] = c[j - 1]
      BY <1>4, <2>3
    <3>2. i - 1 = j - 1
      BY <1>5, <3>1 DEF Good
    <3> QED BY <1>1, <1>2, <3>2
  <2> QED BY <2>2, <2>3
<1>6. ASSUME NEW g \in Listed(w) PROVE g = e \/ g \in Listed(c)
  BY <1>2, <1>4 DEF Listed
<1>7. ASSUME NEW g, g = e \/ g \in Listed(c) PROVE g \in Listed(w)
  BY <1>2, <1>3, <1>7 DEF Listed
<1>8. Good(w)
  BY <1>2, <1>5 DEF Good
<1> QED BY <1>2, <1>6, <1>7, <1>8

\* The entry at an address.
LEMMA AtFacts ==
    ASSUME NEW c, Good(c), NEW e \in Listed(c)
    PROVE  At(c, e.at) \in 1 .. Len(c) /\ c[At(c, e.at)] = e
<1>1. PICK i \in 1 .. Len(c) : c[i] = e
  BY DEF Listed
<1>2. \A j \in 1 .. Len(c) : c[j].at = e.at => j = i
  BY <1>1 DEF Good
<1>3. At(c, e.at) = i
  BY <1>1, <1>2 DEF At
<1> QED BY <1>1, <1>3

\* All entries have different addresses.
LEMMA AllocatedFacts ==
    ASSUME NEW c, Good(c)
    PROVE  /\ Allocated(c) = {e.at : e \in Listed(c)} /\ Allocated(c) \in SUBSET Addresses
           /\ Cardinality(Allocated(c)) = Len(c)
<1>1. Len(c) \in Nat /\ \A i \in 1 .. Len(c) : c[i] \in Wide
  BY EntryFacts
<1>2. Allocated(c) = {e.at : e \in Listed(c)} /\ Allocated(c) \in SUBSET Addresses
  BY <1>1 DEF Allocated, Listed, Wide
<1> DEFINE A == 1 .. Len(c)
           f == [i \in A |-> c[i].at]
<1>3. f \in Surjection(A, Allocated(c)) /\ f \in Injection(A, Allocated(c))
  <2>1. f \in [A -> Allocated(c)] /\ \A i \in A : f[i] = c[i].at
    BY DEF Allocated
  <2>2. \A a \in Allocated(c) : \E i \in A : c[i].at = a
    BY DEF Allocated
  <2>3. \A i, j \in A : c[i].at = c[j].at => i = j
    BY DEF Good
  <2> HIDE DEF f, A
  <2>4. f \in Surjection(A, Allocated(c))
    BY <2>1, <2>2 DEF Surjection
  <2>5. f \in Injection(A, Allocated(c))
    BY <2>1, <2>3 DEF Injection, IsInjective
  <2> QED BY <2>4, <2>5
<1>4. IsFiniteSet(A) /\ Cardinality(A) = Len(c)
  BY <1>1, CountUpTo
<1> HIDE DEF A, f
<1>5. ExistsBijection(A, Allocated(c))
  BY <1>3 DEF Bijection, ExistsBijection
<1>6. Cardinality(Allocated(c)) = Len(c)
  BY <1>4, <1>5, FS_Bijection
<1> QED BY <1>2, <1>6

-----------------------------------------------------------------------------
(* Locking and unlocking.                                                  *)

\* The entries e and g are the same but for their locks.
Same(e, g) ==
    /\ g.at = e.at /\ g.uri = e.uri /\ g.size = e.size
    /\ g.incomplete = e.incomplete /\ g.valid = e.valid

\* The entries r are among the entries c, but for their locks.
Alike(c, r) == \A g \in Listed(r) : \E e \in Listed(c) : Same(e, g)

LEMMA AlikeTwice ==
    ASSUME NEW c, NEW r, NEW q, Alike(c, r), Alike(r, q)
    PROVE  Alike(c, q)
BY DEF Alike, Same

LEMMA HoldersFacts ==
    ASSUME NEW d, NEW D, IsFiniteSet(D), NEW a
    PROVE  IsFiniteSet(Holders(d, D, a)) /\ Cardinality(Holders(d, D, a)) \in Nat
<1>1. Holders(d, D, a) \in SUBSET D
  BY DEF Holders
<1>2. IsFiniteSet(Holders(d, D, a))
  BY <1>1, FS_Subset
<1> QED BY <1>2, FS_CardinalityType

\* An entry with documents or the dialog has locks, and the others have none.
LEMMA LocksFacts ==
    ASSUME NEW c, NEW d, NEW D, IsFiniteSet(D), NEW b, Balanced(c, d, D, b),
           NEW e \in Listed(c)
    PROVE  /\ e.locks \in Nat
           /\ e.locks = 0 => b # e.at /\ Holders(d, D, e.at) = {}
           /\ (b = e.at \/ \E k \in D : d[k].at = e.at) => e.locks > 0
<1> DEFINE H == Holders(d, D, e.at)
<1>1. IsFiniteSet(H) /\ Cardinality(H) \in Nat
  BY HoldersFacts
<1>2. e.locks = Cardinality(H) + Asking(b, e.at)
  BY DEF Balanced
<1>3. Asking(b, e.at) \in Nat /\ (Asking(b, e.at) = 0 <=> b # e.at)
  BY DEF Asking
<1>4. Cardinality(H) = 0 <=> H = {}
  BY <1>1, FS_EmptySet
<1>5. (\E k \in D : d[k].at = e.at) => H # {}
  BY DEF Holders
<1> HIDE DEF H
<1>6. e.locks \in Nat /\ (e.locks = 0 <=> Cardinality(H) = 0 /\ Asking(b, e.at) = 0)
  BY <1>1, <1>2, <1>3
<1> QED BY <1>3, <1>4, <1>5, <1>6 DEF H

\* Moving an entry to the top.
LEMMA FoundBalanced ==
    ASSUME NEW c, NEW d, NEW D, NEW b, Balanced(c, d, D, b), NEW u
    PROVE  /\ Balanced(FindInCache(c, u), d, D, b)
           /\ Listed(FindInCache(c, u)) = Listed(c)
<1> DEFINE r == FindInCache(c, u)
<1>1. Good(r) /\ Listed(r) = Listed(c)
  BY FoundFacts DEF Balanced
<1> HIDE DEF r
<1>2. Balanced(r, d, D, b)
  BY <1>1 DEF Balanced, OneEach, Finds
<1> QED BY <1>1, <1>2 DEF r

\* With e in the place of c[i] the locks would be those of J and b.
Replaces(c, i, e, d, J, b) ==
    /\ Good(c) /\ OneEach(c)
    /\ i \in 1 .. Len(c) /\ e \in Wide /\ Same(c[i], e)
    /\ \A k \in J : Finds(c, d[k])
    /\ b # Null => \E g \in Listed(c) : g.at = b
    /\ e.locks = Cardinality(Holders(d, J, e.at)) + Asking(b, e.at)
    /\ \A g \in Listed(c) \ {c[i]} :
         g.locks = Cardinality(Holders(d, J, g.at)) + Asking(b, g.at)

\* And then they are.
LEMMA ReplacedBalanced ==
    ASSUME NEW c, NEW i, NEW e, NEW d, NEW J, NEW b, Replaces(c, i, e, d, J, b),
           NEW r, r = [c EXCEPT ![i] = e]
    PROVE  /\ Balanced(r, d, J, b) /\ Alike(c, r) /\ Alike(r, c)
<1> USE DEF Replaces
<1>1. e.at = c[i].at /\ Good(c) /\ i \in 1 .. Len(c) /\ e \in Wide
  BY DEF Same
<1>2. Good(r) /\ Listed(r) = (Listed(c) \ {c[i]}) \cup {e}
  <2> HIDE DEF Replaces
  <2>1. Good(r)
    BY <1>1, ChangedFacts
  <2>2. \A g : g \in Listed(r) <=> g = e \/ (g \in Listed(c) /\ g # c[i])
    BY <1>1, ChangedFacts
  <2> QED BY <2>1, <2>2
<1>3. c[i] \in Listed(c)
  BY DEF Listed
<1>4. OneEach(r)
  <2>1. ASSUME NEW g \in Listed(r), NEW h \in Listed(r), g.valid, h.valid, g.uri = h.uri
        PROVE  g = h
    <3> DEFINE o(x) == IF x = e THEN c[i] ELSE x
    <3>1. o(g) \in Listed(c) /\ o(h) \in Listed(c)
      BY <1>2, <1>3
    <3>2. o(g).valid /\ o(h).valid /\ o(g).uri = o(h).uri
      BY <2>1 DEF Same
    <3>3. o(g) = o(h)
      <4> HIDE DEF o
      <4> QED BY <3>1, <3>2 DEF OneEach
    <3>4. \A x \in Listed(r) : x # e => x # c[i]
      BY <1>2
    <3> QED BY <3>3, <3>4
  <2> QED BY <2>1 DEF OneEach
<1>5. ASSUME NEW k \in J PROVE Finds(r, d[k])
  <2>1. PICK g \in Listed(c) : g.valid /\ g.uri = d[k].uri /\ g.at = d[k].at
    BY DEF Finds
  <2>2. CASE g = c[i]
    <3>1. e \in Listed(r) /\ e.valid /\ e.uri = d[k].uri /\ e.at = d[k].at
      BY <1>2, <2>1, <2>2 DEF Same
    <3> QED BY <3>1 DEF Finds
  <2>3. CASE g # c[i]
    <3>1. g \in Listed(r)
      BY <1>2, <2>3
    <3> QED BY <2>1, <3>1 DEF Finds
  <2> QED BY <2>2, <2>3
<1>6. b # Null => \E g \in Listed(r) : g.at = b
  BY <1>1, <1>2
<1>7. \A g \in Listed(r) : g.locks = Cardinality(Holders(d, J, g.at)) + Asking(b, g.at)
  BY <1>2
<1>8. Balanced(r, d, J, b)
  BY <1>2, <1>4, <1>5, <1>6, <1>7 DEF Balanced
<1>9. \A g : Same(g, g)
  BY DEF Same
<1>10. Alike(c, r)
  BY <1>2, <1>3, <1>9 DEF Alike
<1>11. Same(e, c[i])
  BY DEF Same
<1>12. Alike(r, c)
  BY <1>2, <1>9, <1>11 DEF Alike
<1> QED BY <1>8, <1>10, <1>12

\* done_document(): the lock of the document k is given back.
LEMMA UnlockedBalanced ==
    ASSUME NEW c, NEW d, NEW D, IsFiniteSet(D), NEW b, Balanced(c, d, D, b),
           NEW k \in D, NEW J, J = D \ {k},
           NEW r, r = Unlocked(c, d[k].uri)
    PROVE  Balanced(r, d, J, b) /\ Alike(c, r) /\ Alike(r, c)
<1> DEFINE u == d[k].uri
           f == FindInCache(c, u)
<1>1. PICK e \in Listed(c) : e.valid /\ e.uri = u /\ e.at = d[k].at
  BY DEF Balanced, Finds
<1>2. Known(c, u)
  BY <1>1, KnownFacts DEF Balanced
<1>3. /\ Good(f) /\ Listed(f) = Listed(c) /\ 1 \in 1 .. Len(f)
      /\ f[1] \in Listed(c) /\ f[1].valid /\ f[1].uri = u
  BY <1>2, FoundFacts DEF Balanced
<1>4. f[1] = e
  BY <1>1, <1>3 DEF Balanced, OneEach
<1> DEFINE x == [e EXCEPT !.locks = @ - 1]
<1>5. r = [f EXCEPT ![1] = x]
  BY <1>2, <1>4 DEF Unlocked
<1>6. e \in Wide
  BY EntryFacts DEF Balanced
<1>7. x \in Wide /\ Same(e, x) /\ x.locks = e.locks - 1
  BY <1>6 DEF Wide, Same
<1> HIDE DEF x, f
<1>8. OneEach(f)
  BY <1>3 DEF Balanced, OneEach
<1>9. \A j \in J : Finds(f, d[j])
  BY <1>3 DEF Balanced, Finds
<1>10. b # Null => \E g \in Listed(f) : g.at = b
  BY <1>3 DEF Balanced
<1>11. x.locks = Cardinality(Holders(d, J, x.at)) + Asking(b, x.at)
  <2> DEFINE H == Holders(d, D, e.at)
  <2>1. Holders(d, J, x.at) = H \ {k} /\ k \in H
    BY <1>1, <1>7 DEF Holders, Same
  <2>2. IsFiniteSet(H) /\ Cardinality(H) \in Nat
    BY HoldersFacts
  <2>3. e.locks = Cardinality(H) + Asking(b, e.at)
    BY DEF Balanced
  <2> HIDE DEF H
  <2>4. Cardinality(H \ {k}) = Cardinality(H) - 1
    BY <2>1, <2>2, FS_RemoveElement
  <2>5. Asking(b, x.at) = Asking(b, e.at) /\ Asking(b, e.at) \in Nat
    BY <1>7 DEF Same, Asking
  <2>6. \A p, q \in Nat : (p + q) - 1 = (p - 1) + q
    OBVIOUS
  <2>7. x.locks = (Cardinality(H) + Asking(b, e.at)) - 1
    BY <1>7, <2>3
  <2>8. x.locks = (Cardinality(H) - 1) + Asking(b, e.at)
    BY <2>2, <2>5, <2>6, <2>7
  <2> QED BY <2>1, <2>4, <2>5, <2>8
<1>12. ASSUME NEW g \in Listed(f) \ {f[1]}
       PROVE  g.locks = Cardinality(Holders(d, J, g.at)) + Asking(b, g.at)
  <2>1. g \in Listed(c) /\ g # e
    BY <1>3, <1>4
  <2>2. g.at # e.at
    BY <2>1, EntryFacts DEF Balanced
  <2>3. Holders(d, J, g.at) = Holders(d, D, g.at)
    BY <1>1, <2>2 DEF Holders
  <2> QED BY <2>1, <2>3 DEF Balanced
<1>13. Same(f[1], x)
  BY <1>4, <1>7
<1>14. Replaces(f, 1, x, d, J, b)
  BY <1>3, <1>7, <1>8, <1>9, <1>10, <1>11, <1>12, <1>13 DEF Replaces
<1>15. Balanced(r, d, J, b) /\ Alike(f, r) /\ Alike(r, f)
  BY <1>5, <1>14, ReplacedBalanced
<1> QED BY <1>3, <1>15 DEF Alike

-----------------------------------------------------------------------------
(* shrink_format_cache(): which locks are given back.                      *)

\* find_in_cache() and done_document() change lists of entries only.
LEMMA FoundType ==
    ASSUME NEW c \in Seq(Wide), NEW u
    PROVE  /\ FindInCache(c, u) \in Seq(Wide)
           /\ Known(c, u) => 1 \in 1 .. Len(FindInCache(c, u))
<1>1. CASE ~Known(c, u)
  BY <1>1 DEF FindInCache
<1>2. CASE Known(c, u)
  <2> DEFINE M == Matches(c, u)
             i == Min(M)
  <2>1. M \in SUBSET Nat /\ M # {} /\ M \in SUBSET (1 .. Len(c))
    BY <1>2 DEF Known, Matches
  <2>2. i \in M
    <3> HIDE DEF M
    <3> QED BY <2>1, MinFacts
  <2>3. FindInCache(c, u) = MoveToTop(c, i)
    BY <1>2 DEF FindInCache
  <2> HIDE DEF i, M
  <2>4. i \in 1 .. Len(c)
    BY <2>1, <2>2
  <2> DEFINE w == MoveToTop(c, i)
  <2>5. PICK f : Moved(w, Wide, c, i, f)
    BY <2>4, MoveFacts
  <2> HIDE DEF w
  <2>6. w \in Seq(Wide) /\ Len(w) = Len(c)
    BY <2>5 DEF Moved
  <2>7. 1 \in 1 .. Len(c)
    BY <2>4
  <2> QED BY <2>3, <2>6, <2>7 DEF w
<1> QED BY <1>1, <1>2

LEMMA UnlockedType ==
    ASSUME NEW c \in Seq(Wide), NEW u
    PROVE  Unlocked(c, u) \in Seq(Wide)
<1>1. CASE ~Known(c, u)
  BY <1>1 DEF Unlocked
<1>2. CASE Known(c, u)
  <2> DEFINE f == FindInCache(c, u)
             x == [f[1] EXCEPT !.locks = @ - 1]
  <2>1. f \in Seq(Wide) /\ 1 \in 1 .. Len(f)
    BY <1>2, FoundType
  <2>2. Unlocked(c, u) = [f EXCEPT ![1] = x]
    BY <1>2 DEF Unlocked
  <2> HIDE DEF f
  <2>3. f[1] \in Wide
    BY <2>1, ElementOfSeq
  <2>4. x \in Wide
    <3>1. ASSUME NEW e \in Wide PROVE [e EXCEPT !.locks = @ - 1] \in Wide
      BY DEF Wide
    <3> QED BY <2>3, <3>1
  <2> HIDE DEF x
  <2> QED BY <2>1, <2>2, <2>4, ExceptSeq
<1> QED BY <1>1, <1>2

\* g is the list of entries after each document of the first loop.
SeenSteps(g, c, d, is) ==
    /\ g \in [0 .. Len(d) -> Seq(Wide)] /\ g[0] = c
    /\ \A n \in 1 .. Len(d) :
         g[n] = IF n \in is THEN Unlocked(g[n - 1], d[n].uri)
                ELSE IF d[n].locks = 0 THEN FindInCache(g[n - 1], d[n].uri)
                ELSE g[n - 1]

\* The documents that the first loop removes.
ObsoleteOf(d) == {i \in 1 .. Len(d) : d[i].locks = 0 /\ ~d[i].current}

\* The first loop ends with the last of these lists.
LEMMA ObsoleteSteps ==
    ASSUME NEW c \in Seq(Wide), NEW d \in Seq(Doc), NEW is, is = ObsoleteOf(d)
    PROVE  /\ \E h : SeenSteps(h, c, d, is) /\ DropObsolete(c, d).cache = h[Len(d)]
           /\ DropObsolete(c, d).docs = Without(d, is)
<1> DEFINE N == Len(d)
           V == Seq(Wide)
           F == [n \in 1 .. N |-> [v \in V |-> IF n \in is THEN Unlocked(v, d[n].uri)
                 ELSE IF d[n].locks = 0 THEN FindInCache(v, d[n].uri) ELSE v]]
<1>0. N \in Nat /\ c \in V
  OBVIOUS
<1>1. ASSUME NEW n \in 1 .. N, NEW v \in V
      PROVE  (IF n \in is THEN Unlocked(v, d[n].uri)
                 ELSE IF d[n].locks = 0 THEN FindInCache(v, d[n].uri) ELSE v) \in V
  BY FoundType, UnlockedType
<1>2. StepsOn(F, N, V)
  <2> HIDE DEF V
  <2> QED BY <1>1 DEF StepsOn
<1>3. \A n \in 1 .. N : \A v \in V :
         F[n][v] = IF n \in is THEN Unlocked(v, d[n].uri)
                 ELSE IF d[n].locks = 0 THEN FindInCache(v, d[n].uri) ELSE v
  <2> HIDE DEF V
  <2> QED OBVIOUS
<1> HIDE DEF F, N, V
<1>4. PICK g \in [0 .. N -> V] : g[0] = c /\ \A n \in 1 .. N : g[n] = F[n][g[n - 1]]
  <2>1. PICK g : Follows(g, F, N, V, c)
    BY <1>0, <1>2, StepByStep
  <2> QED BY <2>1 DEF Follows
<1>5. \A n \in 1 .. N : n - 1 \in 0 .. N /\ n \in 0 .. N /\ n # 0 /\ n \in Nat
  BY <1>0
<1>6. \A n \in 1 .. N :
         g[n] = IF n \in is THEN Unlocked(g[n - 1], d[n].uri)
                 ELSE IF d[n].locks = 0 THEN FindInCache(g[n - 1], d[n].uri) ELSE g[n - 1]
  <2>1. \A n \in 1 .. N : g[n - 1] \in V
    BY <1>4, <1>5
  <2> QED BY <1>3, <1>4, <2>1
<1> DEFINE body(n, f) == IF n = 0 THEN c
                 ELSE IF n \in is THEN Unlocked(f[n - 1], d[n].uri)
                 ELSE IF d[n].locks = 0 THEN FindInCache(f[n - 1], d[n].uri) ELSE f[n - 1]
<1>7. \A n \in 0 .. N : g[n] = body(n, g)
  <2>1. \A n \in 0 .. N : n # 0 => n \in 1 .. N
    BY <1>0
  <2> QED BY <1>4, <1>6, <2>1
<1>8. g = [n \in 0 .. N |-> body(n, g)]
  <2> HIDE DEF body
  <2> QED BY <1>7
<1> DEFINE h == CHOOSE f : f = [n \in 0 .. N |-> body(n, f)]
<1>9. h = [n \in 0 .. N |-> body(n, h)]
  <2> HIDE DEF body
  <2> QED BY <1>8, Zenon
<1>10. DropObsolete(c, d).cache = h[Len(d)] /\ DropObsolete(c, d).docs = Without(d, is)
  BY Zenon DEF DropObsolete, ObsoleteOf, N
<1> HIDE DEF h
<1>11. \A n \in 0 .. N : h[n] = body(n, h)
  <2> HIDE DEF body
  <2> QED BY <1>9
<1>12. h[0] = c
  <2>1. 0 \in 0 .. N
    BY <1>0
  <2> QED BY <1>11, <2>1
<1>13. \A n \in 1 .. N :
          h[n] = IF n \in is THEN Unlocked(h[n - 1], d[n].uri)
                 ELSE IF d[n].locks = 0 THEN FindInCache(h[n - 1], d[n].uri) ELSE h[n - 1]
  BY <1>5, <1>11
<1> DEFINE T == {n \in 0 .. N : h[n] \in V}
<1>14. 0 \in T
  BY <1>0, <1>12
<1>15. ASSUME NEW n \in 1 .. N, n - 1 \in T PROVE n \in T
  BY <1>1, <1>5, <1>13, <1>15
<1> HIDE DEF T
<1>16. \A n \in 0 .. N : n \in T
  BY <1>0, <1>14, <1>15, CountInduction
<1>17. h \in [0 .. N -> V]
  <2>1. \A n \in 0 .. N : h[n] \in V
    BY <1>16 DEF T
  <2>2. DOMAIN h = 0 .. N /\ h = [n \in 0 .. N |-> h[n]]
    <3> HIDE DEF body
    <3> QED BY <1>9
  <2> QED BY <2>1, <2>2
<1> QED BY <1>10, <1>12, <1>13, <1>17 DEF SeenSteps, N, V

\* h is the list of entries after each document of the second loop.
DoneSteps(h, c, d, is) ==
    /\ h \in [0 .. Len(d) -> Seq(Wide)] /\ h[0] = c
    /\ \A n \in 1 .. Len(d) :
         h[n] = IF Len(d) + 1 - n \in is
                THEN Unlocked(h[n - 1], d[Len(d) + 1 - n].uri) ELSE h[n - 1]

\* The second loop ends with the last of these lists.
LEMMA UnlockedAllSteps ==
    ASSUME NEW c \in Seq(Wide), NEW d \in Seq(Doc), NEW is
    PROVE  \E h : DoneSteps(h, c, d, is) /\ UnlockedAll(c, d, is) = h[Len(d)]
<1> DEFINE N == Len(d)
           V == Seq(Wide)
           F == [n \in 1 .. N |-> [v \in V |-> IF Len(d) + 1 - n \in is
                 THEN Unlocked(v, d[Len(d) + 1 - n].uri) ELSE v]]
<1>0. N \in Nat /\ c \in V
  OBVIOUS
<1>1. ASSUME NEW n \in 1 .. N, NEW v \in V
      PROVE  (IF Len(d) + 1 - n \in is
                 THEN Unlocked(v, d[Len(d) + 1 - n].uri) ELSE v) \in V
  BY UnlockedType
<1>2. StepsOn(F, N, V)
  <2> HIDE DEF V
  <2> QED BY <1>1 DEF StepsOn
<1>3. \A n \in 1 .. N : \A v \in V :
         F[n][v] = IF Len(d) + 1 - n \in is
                 THEN Unlocked(v, d[Len(d) + 1 - n].uri) ELSE v
  <2> HIDE DEF V
  <2> QED OBVIOUS
<1> HIDE DEF F, N, V
<1>4. PICK g \in [0 .. N -> V] : g[0] = c /\ \A n \in 1 .. N : g[n] = F[n][g[n - 1]]
  <2>1. PICK g : Follows(g, F, N, V, c)
    BY <1>0, <1>2, StepByStep
  <2> QED BY <2>1 DEF Follows
<1>5. \A n \in 1 .. N : n - 1 \in 0 .. N /\ n \in 0 .. N /\ n # 0 /\ n \in Nat
  BY <1>0
<1>6. \A n \in 1 .. N :
         g[n] = IF Len(d) + 1 - n \in is
                 THEN Unlocked(g[n - 1], d[Len(d) + 1 - n].uri) ELSE g[n - 1]
  <2>1. \A n \in 1 .. N : g[n - 1] \in V
    BY <1>4, <1>5
  <2> QED BY <1>3, <1>4, <2>1
<1> DEFINE body(n, f) == IF n = 0 THEN c ELSE IF Len(d) + 1 - n \in is
                 THEN Unlocked(f[n - 1], d[Len(d) + 1 - n].uri) ELSE f[n - 1]
<1>7. \A n \in 0 .. N : g[n] = body(n, g)
  <2>1. \A n \in 0 .. N : n # 0 => n \in 1 .. N
    BY <1>0
  <2> QED BY <1>4, <1>6, <2>1
<1>8. g = [n \in 0 .. N |-> body(n, g)]
  <2> HIDE DEF body
  <2> QED BY <1>7
<1> DEFINE h == CHOOSE f : f = [n \in 0 .. N |-> body(n, f)]
<1>9. h = [n \in 0 .. N |-> body(n, h)]
  <2> HIDE DEF body
  <2> QED BY <1>8, Zenon
<1>10. UnlockedAll(c, d, is) = h[Len(d)]
  BY Zenon DEF UnlockedAll, N
<1> HIDE DEF h
<1>11. \A n \in 0 .. N : h[n] = body(n, h)
  <2> HIDE DEF body
  <2> QED BY <1>9
<1>12. h[0] = c
  <2>1. 0 \in 0 .. N
    BY <1>0
  <2> QED BY <1>11, <2>1
<1>13. \A n \in 1 .. N :
          h[n] = IF Len(d) + 1 - n \in is
                 THEN Unlocked(h[n - 1], d[Len(d) + 1 - n].uri) ELSE h[n - 1]
  BY <1>5, <1>11
<1> DEFINE T == {n \in 0 .. N : h[n] \in V}
<1>14. 0 \in T
  BY <1>0, <1>12
<1>15. ASSUME NEW n \in 1 .. N, n - 1 \in T PROVE n \in T
  BY <1>1, <1>5, <1>13, <1>15
<1> HIDE DEF T
<1>16. \A n \in 0 .. N : n \in T
  BY <1>0, <1>14, <1>15, CountInduction
<1>17. h \in [0 .. N -> V]
  <2>1. \A n \in 0 .. N : h[n] \in V
    BY <1>16 DEF T
  <2>2. DOMAIN h = 0 .. N /\ h = [n \in 0 .. N |-> h[n]]
    <3> HIDE DEF body
    <3> QED BY <1>9
  <2> QED BY <2>1, <2>2
<1> QED BY <1>10, <1>12, <1>13, <1>17 DEF DoneSteps, N, V

\* After n documents of the first loop the locks are those of the others.
LEMMA SeenBalanced ==
    ASSUME NEW c, NEW d, Len(d) \in Nat, NEW b, Balanced(c, d, 1 .. Len(d), b),
           NEW is, is \subseteq 1 .. Len(d), NEW h, SeenSteps(h, c, d, is)
    PROVE  /\ Balanced(h[Len(d)], d, (1 .. Len(d)) \ is, b)
           /\ Alike(c, h[Len(d)]) /\ Alike(h[Len(d)], c)
<1> DEFINE N == Len(d)
           rest(n) == (1 .. N) \ {i \in is : i <= n}
           P(n) == Balanced(h[n], d, rest(n), b) /\ Alike(c, h[n]) /\ Alike(h[n], c)
           T == {n \in 0 .. N : P(n)}
<1>1. 0 \in T
  <2>1. 0 \in 0 .. N /\ rest(0) = 1 .. N /\ h[0] = c
    BY DEF SeenSteps
  <2>2. Alike(c, c)
    BY DEF Alike, Same
  <2> HIDE DEF rest
  <2> QED BY <2>1, <2>2
<1>2. ASSUME NEW n \in 1 .. N, n - 1 \in T PROVE n \in T
  <2> DEFINE g == h[n - 1]
             u == d[n].uri
  <2>1. P(n - 1)
    BY <1>2
  <2>2. h[n] = IF n \in is THEN Unlocked(g, u)
               ELSE IF d[n].locks = 0 THEN FindInCache(g, u) ELSE g
    BY DEF SeenSteps
  <2>3. n \in is => n \in rest(n - 1) /\ rest(n) = rest(n - 1) \ {n}
    OBVIOUS
  <2>4. n \notin is => rest(n) = rest(n - 1)
    OBVIOUS
  <2>5. IsFiniteSet(rest(n - 1))
    <3>1. IsFiniteSet(1 .. N) /\ rest(n - 1) \in SUBSET (1 .. N)
      BY CountUpTo
    <3> HIDE DEF rest
    <3> QED BY <3>1, FS_Subset
  <2>6. Balanced(g, d, rest(n - 1), b) /\ Alike(c, g) /\ Alike(g, c)
    BY <2>1
  <2> HIDE DEF g, rest
  <2>7. /\ Balanced(h[n], d, rest(n), b)
        /\ Alike(g, h[n]) /\ Alike(h[n], g)
    <3>1. CASE n \in is
      BY <2>2, <2>3, <2>5, <2>6, <3>1, UnlockedBalanced
    <3>2. CASE n \notin is /\ d[n].locks = 0
      <4>1. Balanced(h[n], d, rest(n), b) /\ Listed(h[n]) = Listed(g)
        BY <2>2, <2>4, <2>6, <3>2, FoundBalanced
      <4>2. Alike(g, h[n]) /\ Alike(h[n], g)
        BY <4>1 DEF Alike, Same
      <4> QED BY <4>1, <4>2
    <3>3. CASE n \notin is /\ d[n].locks # 0
      <4>1. h[n] = g /\ Alike(g, g)
        BY <2>2, <3>3 DEF Alike, Same
      <4> QED BY <2>4, <2>6, <3>3, <4>1
    <3> QED BY <3>1, <3>2, <3>3
  <2>8. Alike(c, h[n]) /\ Alike(h[n], c)
    BY <2>6, <2>7, AlikeTwice
  <2>9. n \in 0 .. N
    OBVIOUS
  <2> QED BY <2>7, <2>8, <2>9
<1> HIDE DEF T
<1>3. N \in T
  <2>1. \A n \in 0 .. N : n \in T
    BY <1>1, <1>2, CountInduction
  <2> QED BY <2>1
<1>4. P(N)
  BY <1>3 DEF T
<1>5. rest(N) = (1 .. N) \ is
  OBVIOUS
<1> HIDE DEF rest
<1> QED BY <1>4, <1>5

\* After n documents of the second loop too.
LEMMA DoneBalanced ==
    ASSUME NEW c, NEW d, Len(d) \in Nat, NEW b, Balanced(c, d, 1 .. Len(d), b),
           NEW is, is \subseteq 1 .. Len(d), NEW h, DoneSteps(h, c, d, is)
    PROVE  /\ Balanced(h[Len(d)], d, (1 .. Len(d)) \ is, b)
           /\ Alike(c, h[Len(d)]) /\ Alike(h[Len(d)], c)
<1> DEFINE N == Len(d)
           rest(n) == (1 .. N) \ {i \in is : i >= N + 1 - n}
           P(n) == Balanced(h[n], d, rest(n), b) /\ Alike(c, h[n]) /\ Alike(h[n], c)
           T == {n \in 0 .. N : P(n)}
<1>1. 0 \in T
  <2>1. 0 \in 0 .. N /\ rest(0) = 1 .. N /\ h[0] = c
    BY DEF DoneSteps
  <2>2. Alike(c, c)
    BY DEF Alike, Same
  <2> HIDE DEF rest
  <2> QED BY <2>1, <2>2
<1>2. ASSUME NEW n \in 1 .. N, n - 1 \in T PROVE n \in T
  <2> DEFINE g == h[n - 1]
             k == N + 1 - n
             u == d[k].uri
  <2>1. P(n - 1)
    BY <1>2
  <2>2. h[n] = IF k \in is THEN Unlocked(g, u) ELSE g
    BY DEF DoneSteps
  <2>3. k \in is => k \in rest(n - 1) /\ rest(n) = rest(n - 1) \ {k}
    OBVIOUS
  <2>4. k \notin is => rest(n) = rest(n - 1)
    OBVIOUS
  <2>5. IsFiniteSet(rest(n - 1))
    <3>1. IsFiniteSet(1 .. N) /\ rest(n - 1) \in SUBSET (1 .. N)
      BY CountUpTo
    <3> HIDE DEF rest
    <3> QED BY <3>1, FS_Subset
  <2>6. Balanced(g, d, rest(n - 1), b) /\ Alike(c, g) /\ Alike(g, c)
    BY <2>1
  <2> HIDE DEF g, rest, k
  <2>7. /\ Balanced(h[n], d, rest(n), b)
        /\ Alike(g, h[n]) /\ Alike(h[n], g)
    <3>1. CASE k \in is
      BY <2>2, <2>3, <2>5, <2>6, <3>1, UnlockedBalanced
    <3>2. CASE k \notin is
      <4>1. h[n] = g /\ Alike(g, g)
        BY <2>2, <3>2 DEF Alike, Same
      <4> QED BY <2>4, <2>6, <3>2, <4>1
    <3> QED BY <3>1, <3>2
  <2>8. Alike(c, h[n]) /\ Alike(h[n], c)
    BY <2>6, <2>7, AlikeTwice
  <2>9. n \in 0 .. N
    OBVIOUS
  <2> QED BY <2>7, <2>8, <2>9
<1> HIDE DEF T
<1>3. N \in T
  <2>1. \A n \in 0 .. N : n \in T
    BY <1>1, <1>2, CountInduction
  <2> QED BY <2>1
<1>4. P(N)
  BY <1>3 DEF T
<1>5. rest(N) = (1 .. N) \ is
  OBVIOUS
<1> HIDE DEF rest
<1> QED BY <1>4, <1>5

\* The documents w are those of d with the numbers D: f says which.
Renumbers(w, d, D, f) ==
    /\ Len(w) \in Nat /\ f \in [1 .. Len(w) -> D]
    /\ \A j, k \in 1 .. Len(w) : f[j] = f[k] => j = k
    /\ \A i \in D : \E j \in 1 .. Len(w) : f[j] = i
    /\ \A j \in 1 .. Len(w) : w[j].at = d[f[j]].at /\ w[j].uri = d[f[j]].uri

\* Their locks are the same.
LEMMA RenumberedBalanced ==
    ASSUME NEW c, NEW d, NEW D, NEW b, Balanced(c, d, D, b),
           NEW w, NEW f, Renumbers(w, d, D, f)
    PROVE  Balanced(c, w, 1 .. Len(w), b)
<1> DEFINE J == 1 .. Len(w)
<1>1. IsFiniteSet(J)
  BY CountUpTo DEF Renumbers
<1>2. ASSUME NEW a PROVE Cardinality(Holders(w, J, a)) = Cardinality(Holders(d, D, a))
  <2> DEFINE A == Holders(w, J, a)
             B == Holders(d, D, a)
             g == [j \in A |-> f[j]]
  <2>1. IsFiniteSet(A)
    BY <1>1, HoldersFacts
  <2>2. A \subseteq J /\ \A j \in J : j \in A <=> w[j].at = a
    BY DEF Holders
  <2>3. B \subseteq D /\ \A i \in D : i \in B <=> d[i].at = a
    BY DEF Holders
  <2>4. \A j \in A : g[j] = f[j]
    OBVIOUS
  <2>5. g \in [A -> B]
    <3>1. \A j \in A : f[j] \in B
      BY <2>2, <2>3 DEF Renumbers
    <3> QED BY <3>1
  <2> HIDE DEF A, B, g
  <2>6. \A i \in B : \E j \in A : g[j] = i
    BY <2>2, <2>3, <2>4 DEF Renumbers
  <2>7. \A j, k \in A : g[j] = g[k] => j = k
    BY <2>2, <2>4 DEF Renumbers
  <2>8. g \in Surjection(A, B) /\ g \in Injection(A, B)
    BY <2>5, <2>6, <2>7 DEF Surjection, Injection, IsInjective
  <2>9. ExistsBijection(A, B)
    BY <2>8 DEF Bijection, ExistsBijection
  <2>10. Cardinality(A) = Cardinality(B)
    BY <2>1, <2>9, FS_Bijection
  <2> QED BY <2>10 DEF A, B
<1>3. \A e \in Listed(c) : e.locks = Cardinality(Holders(w, J, e.at)) + Asking(b, e.at)
  BY <1>2 DEF Balanced
<1>4. ASSUME NEW j \in J PROVE Finds(c, w[j])
  <2>1. f[j] \in D /\ w[j].at = d[f[j]].at /\ w[j].uri = d[f[j]].uri
    BY DEF Renumbers
  <2> QED BY <2>1 DEF Balanced, Finds
<1> QED BY <1>3, <1>4 DEF Balanced

LEMMA WithoutRenumbers ==
    ASSUME NEW d \in Seq(Doc), NEW is, NEW w, w = Without(d, is)
    PROVE  w \in Seq(Doc) /\ \E f : Renumbers(w, d, (1 .. Len(d)) \ is, f)
<1>1. PICK f : Picks(w, Doc, d, Len(d), is, f)
  BY WithoutPicks
<1>2. w \in Seq(Doc) /\ Len(w) \in Nat
  BY <1>1 DEF Picks
<1>3. f \in [1 .. Len(w) -> (1 .. Len(d)) \ is]
  BY <1>1 DEF Picks
<1>4. Renumbers(w, d, (1 .. Len(d)) \ is, f)
  BY <1>1, <1>2, <1>3 DEF Picks, Renumbers
<1> QED BY <1>2, <1>4

\* shrink_format_cache() from a list and locks that belong together leads to
\* such, and leaves all entries where they are.
FormatShrunk(c, r, b) ==
    /\ r.docs \in Seq(Doc) /\ Balanced(r.cache, r.docs, 1 .. Len(r.docs), b)
    /\ Alike(c, r.cache) /\ Alike(r.cache, c)

LEMMA ObsoleteShrunk ==
    ASSUME NEW c, NEW d \in Seq(Doc), NEW b, Balanced(c, d, 1 .. Len(d), b)
    PROVE  FormatShrunk(c, DropObsolete(c, d), b)
<1> DEFINE is == ObsoleteOf(d)
           r == DropObsolete(c, d)
<1>1. c \in Seq(Wide) /\ Len(d) \in Nat /\ is \subseteq 1 .. Len(d)
  BY EntryFacts DEF Balanced, ObsoleteOf
<1> HIDE DEF is, r
<1>2. is = ObsoleteOf(d)
  BY DEF is
<1>3. /\ \E h : SeenSteps(h, c, d, is) /\ r.cache = h[Len(d)]
      /\ r.docs = Without(d, is)
  BY <1>1, <1>2, ObsoleteSteps DEF r
<1>4. PICK h : SeenSteps(h, c, d, is) /\ r.cache = h[Len(d)]
  BY <1>3
<1>5. /\ Balanced(r.cache, d, (1 .. Len(d)) \ is, b)
      /\ Alike(c, r.cache) /\ Alike(r.cache, c)
  BY <1>1, <1>4, SeenBalanced
<1>6. r.docs \in Seq(Doc) /\ \E f : Renumbers(r.docs, d, (1 .. Len(d)) \ is, f)
  BY <1>3, WithoutRenumbers
<1>7. Balanced(r.cache, r.docs, 1 .. Len(r.docs), b)
  BY <1>5, <1>6, RenumberedBalanced
<1> QED BY <1>5, <1>6, <1>7 DEF FormatShrunk, r

LEMMA SurplusShrunk ==
    ASSUME NEW c, NEW d \in Seq(Doc), NEW b, Balanced(c, d, 1 .. Len(d), b), NEW whole
    PROVE  FormatShrunk(c, DropSurplus(c, d, whole), b)
<1> DEFINE r == DropSurplus(c, d, whole)
<1>1. PICK is \in SUBSET (1 .. Len(d)) :
         r = [cache |-> UnlockedAll(c, d, is), docs |-> Without(d, is)]
  <2> DEFINE unused == {i \in 1 .. Len(d) : d[i].locks = 0}
             n == Cardinality(unused)
             surplus == IF whole THEN n
                        ELSE IF n > FormatSize THEN n - FormatSize ELSE 0
             gone == {i \in unused :
                         Cardinality({j \in unused : j >= i}) <= surplus}
  <2>1. r = [cache |-> UnlockedAll(c, d, gone), docs |-> Without(d, gone)]
    BY DEF DropSurplus
  <2>2. gone \in SUBSET (1 .. Len(d))
    OBVIOUS
  <2> HIDE DEF gone, r
  <2> QED BY <2>1, <2>2
<1> HIDE DEF r
<1>2. c \in Seq(Wide) /\ Len(d) \in Nat
  BY EntryFacts DEF Balanced
<1>3. r.cache = UnlockedAll(c, d, is) /\ r.docs = Without(d, is)
  BY <1>1
<1>4. PICK h : DoneSteps(h, c, d, is) /\ UnlockedAll(c, d, is) = h[Len(d)]
  BY <1>2, UnlockedAllSteps
<1>5. /\ Balanced(r.cache, d, (1 .. Len(d)) \ is, b)
      /\ Alike(c, r.cache) /\ Alike(r.cache, c)
  BY <1>2, <1>3, <1>4, DoneBalanced
<1>6. r.docs \in Seq(Doc) /\ \E f : Renumbers(r.docs, d, (1 .. Len(d)) \ is, f)
  BY <1>3, WithoutRenumbers
<1>7. Balanced(r.cache, r.docs, 1 .. Len(r.docs), b)
  BY <1>5, <1>6, RenumberedBalanced
<1> QED BY <1>5, <1>6, <1>7 DEF FormatShrunk, r

LEMMA FormatCacheShrunk ==
    ASSUME NEW c, NEW d \in Seq(Doc), NEW b, Balanced(c, d, 1 .. Len(d), b), NEW whole
    PROVE  FormatShrunk(c, ShrinkFormatCache(c, d, whole), b)
<1> DEFINE r == DropObsolete(c, d)
           q == DropSurplus(r.cache, r.docs, whole)
<1>1. FormatShrunk(c, r, b)
  BY ObsoleteShrunk
<1>2. FormatShrunk(r.cache, q, b)
  <2> HIDE DEF r
  <2> QED BY <1>1, SurplusShrunk DEF FormatShrunk
<1>3. ShrinkFormatCache(c, d, whole) = q
  BY DEF ShrinkFormatCache
<1> HIDE DEF q, r
<1> QED BY <1>1, <1>2, <1>3, AlikeTwice DEF FormatShrunk

-----------------------------------------------------------------------------
(* garbage_collection(): which entries stay.                               *)

LEMMA MarkedUnused ==
    ASSUME NEW c, NEW whole
    PROVE  Marked(c, whole) \subseteq Unused(c) /\ Unused(c) \subseteq 1 .. Len(c)
BY DEF Marked, Unused

\* Removing entries that nobody has locked.
LEMMA RemovedBalanced ==
    ASSUME NEW c, NEW d, NEW D, IsFiniteSet(D), NEW b, Balanced(c, d, D, b),
           NEW r, Good(r), Listed(r) \subseteq Listed(c),
           \A e \in Listed(c) : e.locks > 0 => e \in Listed(r)
    PROVE  Balanced(r, d, D, b) /\ Alike(c, r)
<1>1. OneEach(r)
  BY DEF Balanced, OneEach
<1>2. ASSUME NEW k \in D PROVE Finds(r, d[k])
  <2>1. PICK e \in Listed(c) : e.valid /\ e.uri = d[k].uri /\ e.at = d[k].at
    BY DEF Balanced, Finds
  <2>2. e \in Listed(r)
    BY <2>1, LocksFacts
  <2> QED BY <2>1, <2>2 DEF Finds
<1>3. ASSUME b # Null PROVE \E e \in Listed(r) : e.at = b
  <2>1. PICK e \in Listed(c) : e.at = b
    BY <1>3 DEF Balanced
  <2> QED BY <2>1, LocksFacts
<1>4. Balanced(r, d, D, b)
  BY <1>1, <1>2, <1>3 DEF Balanced
<1>5. \A e : Same(e, e)
  BY DEF Same
<1> QED BY <1>4, <1>5 DEF Alike

LEMMA CollectedFacts ==
    ASSUME NEW c, Good(c), NEW whole, NEW r, r = GarbageCollection(c, whole)
    PROVE  /\ Good(r) /\ Listed(r) \subseteq Listed(c)
           /\ \A e \in Listed(c) : Used(e) => e \in Listed(r)
<1>1. CASE ~whole /\ SmallEnough(c)
  BY <1>1 DEF GarbageCollection
<1>2. CASE ~(~whole /\ SmallEnough(c))
  <2> DEFINE is == Marked(c, whole)
  <2>1. r = Without(c, is)
    BY <1>2 DEF GarbageCollection
  <2>2. is \subseteq Unused(c)
    BY MarkedUnused
  <2> HIDE DEF is
  <2>3. Good(r) /\ Listed(r) = {c[i] : i \in (1 .. Len(c)) \ is}
    BY <2>1, WithoutFacts
  <2>4. \A i \in is : ~Used(c[i])
    BY <2>2 DEF Unused
  <2> QED BY <2>3, <2>4 DEF Listed
<1> QED BY <1>1, <1>2

LEMMA CollectedBalanced ==
    ASSUME NEW c, NEW d, NEW D, IsFiniteSet(D), NEW b, Balanced(c, d, D, b),
           NEW whole, NEW r, r = GarbageCollection(c, whole)
    PROVE  /\ Balanced(r, d, D, b) /\ Alike(c, r)
           /\ \A e \in Listed(c) : Used(e) => e \in Listed(r)
<1>1. /\ Good(r) /\ Listed(r) \subseteq Listed(c)
      /\ \A e \in Listed(c) : Used(e) => e \in Listed(r)
  BY CollectedFacts DEF Balanced
<1>2. \A e \in Listed(c) : e.locks > 0 => e \in Listed(r)
  BY <1>1 DEF Used
<1> QED BY <1>1, <1>2, RemovedBalanced

\* shrink_memory(): locks and documents belong together as before, and no
\* entry that a connection loads into is gone.
MemoryShrunk(c, r, b) ==
    /\ r.docs \in Seq(Doc) /\ Balanced(r.cache, r.docs, 1 .. Len(r.docs), b)
    /\ Alike(c, r.cache)
    /\ \A e \in Listed(c) :
         e.at \in Loading => \E g \in Listed(r.cache) : Same(e, g)

LEMMA ShrinkMemoryFacts ==
    ASSUME NEW c, NEW d \in Seq(Doc), NEW b, Balanced(c, d, 1 .. Len(d), b), NEW whole
    PROVE  MemoryShrunk(c, ShrinkMemory(c, d, whole), b)
<1> DEFINE r == ShrinkFormatCache(c, d, whole)
           g == GarbageCollection(r.cache, whole)
           q == ShrinkMemory(c, d, whole)
<1>1. FormatShrunk(c, r, b)
  BY FormatCacheShrunk
<1>2. q.cache = g /\ q.docs = r.docs
  <2>1. r = [cache |-> r.cache, docs |-> r.docs]
    BY DEF ShrinkFormatCache, DropSurplus
  <2>2. q = [r EXCEPT !.cache = g]
    BY DEF ShrinkMemory
  <2> HIDE DEF r, g, q
  <2> QED BY <2>1, <2>2
<1> HIDE DEF r, q
<1>3. IsFiniteSet(1 .. Len(r.docs))
  <2>1. Len(r.docs) \in Nat
    BY <1>1 DEF FormatShrunk
  <2> QED BY <2>1, CountUpTo
<1>4. Balanced(r.cache, r.docs, 1 .. Len(r.docs), b)
  BY <1>1 DEF FormatShrunk
<1>5. /\ Balanced(g, r.docs, 1 .. Len(r.docs), b) /\ Alike(r.cache, g)
      /\ \A e \in Listed(r.cache) : Used(e) => e \in Listed(g)
  <2> DEFINE x == r.cache
             D == 1 .. Len(r.docs)
  <2>1. Balanced(x, r.docs, D, b) /\ IsFiniteSet(D) /\ g = GarbageCollection(x, whole)
    BY <1>3, <1>4
  <2> HIDE DEF x, D, g
  <2>2. Balanced(g, r.docs, D, b) /\ Alike(x, g)
    BY <2>1, CollectedBalanced
  <2>3. \A e \in Listed(x) : Used(e) => e \in Listed(g)
    BY <2>1, CollectedBalanced
  <2> QED BY <2>2, <2>3 DEF x, D
<1> HIDE DEF g
<1>6. Alike(c, g)
  BY <1>1, <1>5, AlikeTwice DEF FormatShrunk
<1>7. ASSUME NEW e \in Listed(c), e.at \in Loading PROVE \E x \in Listed(g) : Same(e, x)
  <2>1. PICK x \in Listed(r.cache) : Same(x, e)
    BY <1>1 DEF FormatShrunk, Alike
  <2>2. Used(x) /\ Same(e, x)
    BY <1>7, <2>1 DEF Used, Same
  <2> QED BY <1>5, <2>1, <2>2
<1> QED BY <1>1, <1>2, <1>5, <1>6, <1>7 DEF MemoryShrunk, FormatShrunk, q

-----------------------------------------------------------------------------
(* What the actions have in common.                                        *)

\* The parts of the invariant before a step.
LEMMA Before ==
    ASSUME IInv
    PROVE  /\ cache \in Seq(Entry) /\ docs \in Seq(Doc) /\ Len(docs) \in Nat
           /\ Good(cache) /\ Balanced(cache, docs, 1 .. Len(docs), dialog.at)
           /\ IsFiniteSet(1 .. Len(docs))
<1>1. docs \in Seq(Doc) /\ Len(docs) \in Nat
  BY DEF IInv, Types
<1>2. IsFiniteSet(1 .. Len(docs))
  BY <1>1, CountUpTo
<1> QED BY <1>1, <1>2 DEF IInv, Types, Balanced

\* No entry that a connection loads into is lost.
Traces(c, r) ==
    \A e \in Listed(c) :
        e.at \in Loading => \E g \in Listed(r) : g.at = e.at /\ g.uri = e.uri

\* Most steps leave what a connection loads and into which entry, or stop it.
LEMMA After ==
    ASSUME IInv, cache' \in Seq(Entry), docs' \in Seq(Doc),
           ConnOK', DialogOK', broken' \in BOOLEAN,
           Balanced(cache', docs', 1 .. Len(docs'), dialog.at'),
           ~broken' => ~broken /\ Traces(cache, cache'),
           \A s \in Conns :
               \/ conn'[s].cached = Null
               \/ conn'[s].cached = conn[s].cached /\ conn'[s].uri = conn[s].uri
               \/ Loads(cache', conn'[s])
    PROVE  IInv'
<1>1. ASSUME ~broken', NEW s \in Conns PROVE Loads(cache', conn'[s])
  <2>1. CASE conn'[s].cached = Null
    BY <2>1 DEF Loads
  <2>2. CASE /\ conn'[s].cached = conn[s].cached /\ conn'[s].uri = conn[s].uri
             /\ conn[s].cached # Null
    <3>1. PICK e \in Listed(cache) : e.at = conn[s].cached /\ e.uri = conn[s].uri
      BY <1>1, <2>2 DEF IInv, Loads
    <3>2. e.at \in Loading
      BY <3>1 DEF Loading
    <3> QED BY <1>1, <2>2, <3>1, <3>2 DEF Traces, Loads
  <2>3. CASE /\ conn'[s].cached = conn[s].cached /\ conn'[s].uri = conn[s].uri
             /\ conn[s].cached = Null
    BY <2>3 DEF Loads
  <2> QED BY <2>1, <2>2, <2>3
<1>2. Types'
  BY DEF Types
<1> QED BY <1>1, <1>2 DEF IInv

\* A list whose elements are of a type is of that type.
LEMMA SeqOfType ==
    ASSUME NEW S, NEW s \in Seq(S), NEW R, \A i \in 1 .. Len(s) : s[i] \in R
    PROVE  s \in Seq(R)
<1>1. Len(s) \in Nat /\ s = [i \in 1 .. Len(s) |-> s[i]]
  BY LenProperties
<1>2. [i \in 1 .. Len(s) |-> s[i]] \in Seq(R)
  BY <1>1, IsASeq
<1> QED BY <1>1, <1>2

LEMMA ListedType ==
    ASSUME NEW c, c \in Seq(Entry), NEW e \in Listed(c)
    PROVE  e \in Entry
BY ElementOfSeq DEF Listed

\* Locks that are as many as documents are never negative.
LEMMA Typed ==
    ASSUME NEW c \in Seq(Entry), NEW r, NEW d, NEW D, IsFiniteSet(D), NEW b,
           Balanced(r, d, D, b), Alike(c, r)
    PROVE  r \in Seq(Entry)
<1>1. r \in Seq(Wide)
  BY EntryFacts DEF Balanced
<1>2. ASSUME NEW i \in 1 .. Len(r) PROVE r[i] \in Entry
  <2> DEFINE g == r[i]
  <2>1. g \in Listed(r) /\ g \in Wide
    BY EntryFacts DEF Balanced
  <2> HIDE DEF g
  <2>2. g.locks \in Nat
    BY <2>1, LocksFacts
  <2>3. PICK e \in Listed(c) : Same(e, g)
    BY <2>1 DEF Alike
  <2>4. e \in Entry
    BY ListedType
  <2>5. g \in Entry
    BY <2>1, <2>2, <2>3, <2>4 DEF Entry, Wide, Same
  <2> QED BY <2>5 DEF g
<1> QED BY <1>1, <1>2, SeqOfType

\* With e in the place of c[i] locks and documents belong together as before.
Alters(c, i, e) ==
    /\ i \in 1 .. Len(c) /\ e \in Entry
    /\ e.at = c[i].at /\ e.uri = c[i].uri /\ e.locks = c[i].locks
    /\ e.valid = c[i].valid \/ (~e.valid /\ c[i].locks = 0)

LEMMA AlteredFacts ==
    ASSUME CacheAssumption, NEW c \in Seq(Entry), NEW d, NEW D, IsFiniteSet(D), NEW b,
           Balanced(c, d, D, b),
           NEW i, NEW e, Alters(c, i, e), NEW r, r = [c EXCEPT ![i] = e]
    PROVE  Balanced(r, d, D, b) /\ Traces(c, r) /\ r \in Seq(Entry)
<1>1. Good(c) /\ OneEach(c)
  BY DEF Balanced
<1>2. /\ i \in 1 .. Len(c) /\ e \in Entry
      /\ e.at = c[i].at /\ e.uri = c[i].uri /\ e.locks = c[i].locks
      /\ e.valid => c[i].valid
  BY DEF Alters
<1>3. e \in Wide
  BY <1>2 DEF Entry, Wide, CacheAssumption
<1>4. /\ Good(r)
      /\ \A g : g \in Listed(r) <=> g = e \/ (g \in Listed(c) /\ g # c[i])
  <2>1. Good(c) /\ i \in 1 .. Len(c) /\ e \in Wide /\ e.at = c[i].at
    BY <1>1, <1>2, <1>3
  <2>2. Good(r)
    BY <2>1, ChangedFacts
  <2>3. \A g : g \in Listed(r) <=> g = e \/ (g \in Listed(c) /\ g # c[i])
    BY <2>1, ChangedFacts
  <2> QED BY <2>2, <2>3
<1>5. c[i] \in Listed(c)
  BY <1>2 DEF Listed
<1>6. OneEach(r)
  <2>1. ASSUME NEW g \in Listed(r), NEW h \in Listed(r), g.valid, h.valid, g.uri = h.uri
        PROVE  g = h
    <3> DEFINE o(x) == IF x = e THEN c[i] ELSE x
    <3>1. o(g) \in Listed(c) /\ o(h) \in Listed(c)
      BY <1>4, <1>5
    <3>2. o(g).valid /\ o(h).valid /\ o(g).uri = o(h).uri
      BY <1>2, <2>1
    <3>3. o(g) = o(h)
      <4> HIDE DEF o
      <4> QED BY <1>1, <3>1, <3>2 DEF OneEach
    <3>4. \A x \in Listed(r) : x # e => x # c[i]
      BY <1>4
    <3> QED BY <3>3, <3>4
  <2> QED BY <2>1 DEF OneEach
<1>7. ASSUME NEW k \in D PROVE Finds(r, d[k])
  <2>1. PICK g \in Listed(c) : g.valid /\ g.uri = d[k].uri /\ g.at = d[k].at
    BY DEF Balanced, Finds
  <2>2. CASE g = c[i]
    <3>1. c[i].locks > 0 /\ c[i].locks \in Nat
      BY <1>5, <2>1, <2>2, LocksFacts
    <3>2. e.valid
      BY <2>1, <2>2, <3>1 DEF Alters
    <3> QED BY <1>2, <1>4, <2>1, <2>2, <3>2 DEF Finds
  <2>3. CASE g # c[i]
    BY <1>4, <2>1, <2>3 DEF Finds
  <2> QED BY <2>2, <2>3
<1>8. b # Null => \E g \in Listed(r) : g.at = b
  <2>1. ASSUME b # Null PROVE \E g \in Listed(r) : g.at = b
    <3>1. PICK g \in Listed(c) : g.at = b
      BY <2>1 DEF Balanced
    <3> QED BY <1>2, <1>4, <3>1
  <2> QED BY <2>1
<1>9. \A g \in Listed(r) : g.locks = Cardinality(Holders(d, D, g.at)) + Asking(b, g.at)
  BY <1>2, <1>4, <1>5 DEF Balanced
<1>10. Balanced(r, d, D, b)
  BY <1>4, <1>6, <1>7, <1>8, <1>9 DEF Balanced
<1>11. Traces(c, r)
  BY <1>2, <1>4 DEF Traces
<1>12. r \in Seq(Entry)
  BY <1>2, ExceptSeq
<1> QED BY <1>10, <1>11, <1>12

\* An entry that nobody has locked is deleted.
LEMMA DeletedFacts ==
    ASSUME NEW c \in Seq(Entry), NEW d, NEW D, IsFiniteSet(D), NEW b,
           Balanced(c, d, D, b), NEW i \in 1 .. Len(c), c[i].locks = 0,
           NEW r, r = RemoveAt(c, i)
    PROVE  /\ Balanced(r, d, D, b) /\ r \in Seq(Entry)
           /\ ~Used(c[i]) => Traces(c, r)
<1>1. Good(c) /\ i \in 1 .. Len(c)
  BY DEF Balanced
<1>2. Good(r) /\ Listed(r) = Listed(c) \ {c[i]}
  BY <1>1, RemovedFacts
<1>3. ASSUME NEW e \in Listed(c), e.locks > 0 PROVE e \in Listed(r)
  BY <1>2, <1>3
<1>4. Listed(r) \subseteq Listed(c)
  BY <1>2
<1>5. Balanced(r, d, D, b) /\ Alike(c, r)
  BY <1>2, <1>3, <1>4, RemovedBalanced
<1>6. r \in Seq(Entry)
  BY <1>5, Typed
<1>7. ASSUME ~Used(c[i]) PROVE Traces(c, r)
  BY <1>2, <1>7 DEF Traces, Used
<1> QED BY <1>5, <1>6, <1>7

LEMMA ConnectFacts ==
    ASSUME ConnOK, NEW u \in Uris, Connect(u)
    PROVE  /\ ConnOK'
           /\ \A s \in Conns : conn'[s] = conn[s] \/ conn'[s].cached = Null
<1>1. CASE UNCHANGED conn
  BY <1>1 DEF ConnOK, Busy
<1>2. CASE \E s \in Conns : conn' = [conn EXCEPT ![s] = [Idle EXCEPT !.uri = u]]
  <2>1. PICK s \in Conns : conn' = [conn EXCEPT ![s] = [Idle EXCEPT !.uri = u]]
    BY <1>2
  <2> DEFINE x == [Idle EXCEPT !.uri = u]
  <2>2. x \in Connection /\ x.cached = Null /\ ~x.detached
    BY DEF Idle, Connection
  <2> HIDE DEF x
  <2>3. /\ conn' \in [Conns -> Connection]
        /\ \A t \in Conns : conn'[t] = IF t = s THEN x ELSE conn[t]
    BY <2>1, <2>2 DEF ConnOK, x
  <2> QED BY <2>2, <2>3 DEF ConnOK, Busy
<1> QED BY <1>1, <1>2 DEF Connect

-----------------------------------------------------------------------------
(* The actions keep the invariant.                                         *)

\* What a step leaves alone.
LEMMA Kept ==
    ASSUME IInv
    PROVE  /\ ConnOK /\ DialogOK /\ broken \in BOOLEAN
           /\ conn' = conn => ConnOK' /\ \A s \in Conns : conn'[s] = conn[s]
           /\ dialog' = dialog => DialogOK'
<1>1. ConnOK /\ DialogOK /\ broken \in BOOLEAN
  BY DEF IInv, Types
<1>2. conn' = conn => ConnOK'
  BY <1>1 DEF ConnOK, Busy
<1>3. dialog' = dialog => DialogOK'
  BY <1>1 DEF DialogOK
<1> QED BY <1>1, <1>2, <1>3

LEMMA FoundStep ==
    ASSUME IInv, NEW u, NEW c, c = FindInCache(cache, u)
    PROVE  /\ c \in Seq(Entry) /\ Listed(c) = Listed(cache)
           /\ Balanced(c, docs, 1 .. Len(docs), dialog.at)
           /\ Traces(cache, c)
<1> DEFINE D == 1 .. Len(docs)
<1>1. cache \in Seq(Entry) /\ IsFiniteSet(D) /\ Balanced(cache, docs, D, dialog.at)
  BY Before
<1> HIDE DEF D
<1>2. Balanced(c, docs, D, dialog.at) /\ Listed(c) = Listed(cache)
  BY <1>1, FoundBalanced
<1>3. Alike(cache, c)
  BY <1>2 DEF Alike, Same
<1>4. c \in Seq(Entry)
  BY <1>1, <1>2, <1>3, Typed
<1>5. Traces(cache, c)
  BY <1>2 DEF Traces
<1> QED BY <1>2, <1>4, <1>5 DEF D

LEMMA ShrunkStep ==
    ASSUME IInv, NEW whole, NEW r, r = ShrinkMemory(cache, docs, whole)
    PROVE  /\ r.cache \in Seq(Entry) /\ r.docs \in Seq(Doc)
           /\ Balanced(r.cache, r.docs, 1 .. Len(r.docs), dialog.at)
           /\ Alike(cache, r.cache) /\ Traces(cache, r.cache)
<1>1. /\ cache \in Seq(Entry) /\ docs \in Seq(Doc)
      /\ Balanced(cache, docs, 1 .. Len(docs), dialog.at)
  BY Before
<1>2. MemoryShrunk(cache, r, dialog.at)
  BY <1>1, ShrinkMemoryFacts
<1> DEFINE c == r.cache
           D == 1 .. Len(r.docs)
<1>3. r.docs \in Seq(Doc) /\ Balanced(c, r.docs, D, dialog.at) /\ Alike(cache, c)
  BY <1>2 DEF MemoryShrunk
<1>4. IsFiniteSet(D)
  BY <1>3, CountUpTo
<1>5. Traces(cache, c)
  BY <1>2 DEF MemoryShrunk, Traces, Same
<1> HIDE DEF c, D
<1>6. c \in Seq(Entry)
  BY <1>1, <1>3, <1>4, Typed
<1> QED BY <1>3, <1>5, <1>6 DEF c, D

LEMMA ReloadInv ==
    ASSUME IInv, ~broken, NEW u \in Uris, Reload(u)
    PROVE  IInv'
<1>1. /\ cache' = cache /\ docs' = docs /\ dialog' = dialog /\ broken' = broken
      /\ Connect(u)
  BY DEF Reload
<1>2. ConnOK' /\ \A s \in Conns : conn'[s] = conn[s] \/ conn'[s].cached = Null
  BY <1>1, Kept, ConnectFacts
<1>3. cache' \in Seq(Entry) /\ docs' \in Seq(Doc) /\ DialogOK' /\ broken' \in BOOLEAN
  BY <1>1, Before, Kept
<1>4. Balanced(cache', docs', 1 .. Len(docs'), dialog.at')
  BY <1>1, Before
<1>5. ~broken' => ~broken /\ Traces(cache, cache')
  BY <1>1 DEF Traces
<1> QED BY <1>2, <1>3, <1>4, <1>5, After

LEMMA LoadInv ==
    ASSUME IInv, ~broken, NEW u \in Uris, Load(u)
    PROVE  IInv'
<1> DEFINE c == FindInCache(cache, u)
<1>1. docs' = docs /\ dialog' = dialog
  BY DEF Load
<1>2. /\ ConnOK' \/ (conn' = conn /\ cache' = c /\ broken' = broken)
      /\ conn' = conn \/ \A s \in Conns : conn'[s] = conn[s] \/ conn'[s].cached = Null
  BY Kept, ConnectFacts DEF Load
<1>3. /\ ConnOK'
      /\ \A s \in Conns : conn'[s] = conn[s] \/ conn'[s].cached = Null
  BY <1>2, Kept
<1>4. docs' \in Seq(Doc) /\ DialogOK'
  BY <1>1, Before, Kept
<1>5. /\ c \in Seq(Entry) /\ Listed(c) = Listed(cache)
      /\ Balanced(c, docs, 1 .. Len(docs), dialog.at) /\ Traces(cache, c)
  BY FoundStep
<1>6. CASE cache' = c /\ broken' = broken
  <2>1. cache' \in Seq(Entry) /\ broken' \in BOOLEAN
    BY <1>5, <1>6, Kept
  <2>2. Balanced(cache', docs', 1 .. Len(docs'), dialog.at')
    BY <1>1, <1>5, <1>6
  <2>3. ~broken' => ~broken /\ Traces(cache, cache')
    BY <1>5, <1>6
  <2> QED BY <1>3, <1>4, <2>1, <2>2, <2>3, After
<1>7. CASE Usable(cache, u) /\ c[1].locks = 0 /\ Deleted(c, 1)
  <2>1. Good(cache) /\ Known(cache, u)
    BY <1>7, Before DEF Usable
  <2>2. 1 \in 1 .. Len(c)
    BY <2>1, FoundFacts
  <2> DEFINE r == RemoveAt(c, 1)
             D == 1 .. Len(docs)
  <2>3. cache' = r /\ broken' = Used(c[1])
    BY <1>7 DEF Deleted
  <2>4. IsFiniteSet(D) /\ Balanced(c, docs, D, dialog.at) /\ c[1].locks = 0
    BY <1>5, <1>7, Before
  <2> HIDE DEF c, D
  <2>5. Balanced(r, docs, D, dialog.at) /\ r \in Seq(Entry)
    <3> HIDE DEF r
    <3> QED BY <1>5, <2>2, <2>4, DeletedFacts DEF r
  <2>6. ~Used(c[1]) => Traces(c, r)
    <3> HIDE DEF r
    <3> QED BY <1>5, <2>2, <2>4, DeletedFacts DEF r
  <2> HIDE DEF r
  <2>7. cache' \in Seq(Entry) /\ broken' \in BOOLEAN
    BY <2>3, <2>5 DEF Used
  <2>8. Balanced(cache', docs', 1 .. Len(docs'), dialog.at')
    BY <1>1, <2>3, <2>5 DEF D
  <2>9. ~broken' => ~broken /\ Traces(cache, cache')
    BY <1>5, <2>3, <2>6 DEF Traces
  <2> QED BY <1>3, <1>4, <2>7, <2>8, <2>9, After
<1> QED BY <1>6, <1>7 DEF Load

LEMMA AbortInv ==
    ASSUME IInv, ~broken, NEW s \in Conns, Abort(s)
    PROVE  IInv'
<1>1. /\ cache' = cache /\ docs' = docs /\ dialog' = dialog /\ broken' = broken
      /\ conn' = [conn EXCEPT ![s] = Idle]
  BY DEF Abort
<1>2. ConnOK
  BY Kept
<1>3. Idle \in Connection /\ Idle.cached = Null /\ ~Idle.detached
  BY DEF Idle, Connection
<1>4. /\ conn' \in [Conns -> Connection]
      /\ \A t \in Conns : conn'[t] = IF t = s THEN Idle ELSE conn[t]
  BY <1>1, <1>2, <1>3 DEF ConnOK
<1>5. ConnOK' /\ \A t \in Conns : conn'[t] = conn[t] \/ conn'[t].cached = Null
  BY <1>2, <1>3, <1>4 DEF ConnOK, Busy
<1>6. cache' \in Seq(Entry) /\ docs' \in Seq(Doc) /\ DialogOK' /\ broken' \in BOOLEAN
  BY <1>1, Before, Kept
<1>7. Balanced(cache', docs', 1 .. Len(docs'), dialog.at')
  BY <1>1, Before
<1>8. ~broken' => ~broken /\ Traces(cache, cache')
  BY <1>1 DEF Traces
<1> QED BY <1>5, <1>6, <1>7, <1>8, After

LEMMA FlushInv ==
    ASSUME IInv, ~broken, NEW whole, Flush(whole)
    PROVE  IInv'
<1> DEFINE r == ShrinkMemory(cache, docs, whole)
<1>1. /\ cache' = r.cache /\ docs' = r.docs
      /\ conn' = conn /\ dialog' = dialog /\ broken' = broken
  BY DEF Flush
<1>2. /\ r.cache \in Seq(Entry) /\ r.docs \in Seq(Doc)
      /\ Balanced(r.cache, r.docs, 1 .. Len(r.docs), dialog.at)
      /\ Traces(cache, r.cache)
  BY ShrunkStep
<1> HIDE DEF r
<1>3. cache' \in Seq(Entry) /\ docs' \in Seq(Doc)
  BY <1>1, <1>2
<1>4. /\ ConnOK' /\ DialogOK' /\ broken' \in BOOLEAN
      /\ \A s \in Conns : conn'[s] = conn[s] \/ conn'[s].cached = Null
  BY <1>1, Kept
<1>5. Balanced(cache', docs', 1 .. Len(docs'), dialog.at')
  BY <1>1, <1>2
<1>6. ~broken' => ~broken /\ Traces(cache, cache')
  BY <1>1, <1>2
<1> QED BY <1>3, <1>4, <1>5, <1>6, After

LEMMA DeleteItemInv ==
    ASSUME IInv, ~broken, NEW i \in 1 .. Len(cache), DeleteItem(i)
    PROVE  IInv'
<1> DEFINE r == RemoveAt(cache, i)
           D == 1 .. Len(docs)
<1>1. /\ cache' = r /\ broken' = Used(cache[i]) /\ cache[i].locks = 0
      /\ docs' = docs /\ conn' = conn /\ dialog' = dialog
  BY DEF DeleteItem, Deleted
<1>2. cache \in Seq(Entry) /\ IsFiniteSet(D) /\ Balanced(cache, docs, D, dialog.at)
  BY Before
<1>3. r = RemoveAt(cache, i)
  OBVIOUS
<1> HIDE DEF r, D
<1>4. Balanced(r, docs, D, dialog.at) /\ r \in Seq(Entry)
  BY <1>1, <1>2, <1>3, DeletedFacts
<1>5. ~Used(cache[i]) => Traces(cache, r)
  BY <1>1, <1>2, <1>3, DeletedFacts
<1>6. cache' \in Seq(Entry) /\ docs' \in Seq(Doc) /\ broken' \in BOOLEAN
  BY <1>1, <1>4, Before DEF Used
<1>7. /\ ConnOK' /\ DialogOK'
      /\ \A s \in Conns : conn'[s] = conn[s] \/ conn'[s].cached = Null
  BY <1>1, Kept
<1>8. Balanced(cache', docs', 1 .. Len(docs'), dialog.at')
  BY <1>1, <1>4 DEF D
<1>9. ~broken' => ~broken /\ Traces(cache, cache')
  BY <1>1, <1>5
<1> QED BY <1>6, <1>7, <1>8, <1>9, After

\* So r comes from c.
Altered(c, i, r) == \E e : Alters(c, i, e) /\ r = [c EXCEPT ![i] = e]

\* The assignments to an entry.
Resized(c, i, size, incomplete, r) ==
    r = [c EXCEPT ![i].size = size, ![i].incomplete = incomplete]

Stripped(c, i, size, r) == r = [c EXCEPT ![i].size = size]

\* The entry that a connection loads into.
LEMMA LoadedAt ==
    ASSUME IInv, ~broken, NEW s \in Conns, conn[s].cached # Null,
           NEW i, i = At(cache, conn[s].cached)
    PROVE  i \in 1 .. Len(cache) /\ cache[i].at = conn[s].cached
<1>1. Good(cache)
  BY Before
<1>2. PICK e \in Listed(cache) : e.at = conn[s].cached
  BY DEF IInv, Loads
<1>3. At(cache, e.at) \in 1 .. Len(cache) /\ cache[At(cache, e.at)] = e
  BY <1>1, AtFacts
<1> QED BY <1>2, <1>3

LEMMA ResizedFacts ==
    ASSUME NEW c \in Seq(Entry), NEW i \in 1 .. Len(c),
           NEW size \in Sizes, NEW incomplete \in BOOLEAN,
           NEW r, Resized(c, i, size, incomplete, r)
    PROVE  Altered(c, i, r)
<1> DEFINE e == [c[i] EXCEPT !.size = size, !.incomplete = incomplete]
<1>1. c[i] \in Entry
  BY ElementOfSeq
<1>2. Alters(c, i, e)
  BY <1>1 DEF Alters, Entry
<1>3. r = [c EXCEPT ![i] = e]
  BY DEF Resized
<1> QED BY <1>2, <1>3 DEF Altered

LEMMA StrippedFacts ==
    ASSUME NEW c \in Seq(Entry), NEW i \in 1 .. Len(c), NEW size \in Sizes,
           NEW r, Stripped(c, i, size, r)
    PROVE  Altered(c, i, r)
<1> DEFINE e == [c[i] EXCEPT !.size = size]
<1>1. c[i] \in Entry
  BY ElementOfSeq
<1>2. Alters(c, i, e)
  BY <1>1 DEF Alters, Entry
<1>3. r = [c EXCEPT ![i] = e]
  BY DEF Stripped
<1> QED BY <1>2, <1>3 DEF Altered

\* The documents of an entry that has changed are still its documents.
LEMMA OutdatedFacts ==
    ASSUME NEW d \in Seq(Doc), NEW a, NEW w, w = Outdated(d, a),
           NEW c, NEW b, Balanced(c, d, 1 .. Len(d), b)
    PROVE  w \in Seq(Doc) /\ Balanced(c, w, 1 .. Len(w), b)
<1> DEFINE f == [i \in 1 .. Len(d) |-> i]
           o(i) == [d[i] EXCEPT !.current = @ /\ d[i].at # a]
<1>1. Len(d) \in Nat
  OBVIOUS
<1>2. \A i \in 1 .. Len(d) : d[i] \in Doc
  BY ElementOfSeq
<1>3. \A i \in 1 .. Len(d) : o(i) \in Doc /\ o(i).at = d[i].at /\ o(i).uri = d[i].uri
  BY <1>2 DEF Doc
<1>4. w = [i \in 1 .. Len(d) |-> o(i)]
  BY DEF Outdated
<1> HIDE DEF o
<1>5. w \in Seq(Doc) /\ Len(w) = Len(d)
  BY <1>1, <1>3, <1>4, IsASeq
<1>6. f \in [1 .. Len(w) -> 1 .. Len(d)] /\ \A i \in 1 .. Len(w) : f[i] = i
  BY <1>5
<1> HIDE DEF f
<1>7. Renumbers(w, d, 1 .. Len(d), f)
  BY <1>1, <1>3, <1>4, <1>5, <1>6 DEF Renumbers
<1>8. Balanced(c, w, 1 .. Len(w), b)
  BY <1>7, RenumberedBalanced
<1> QED BY <1>5, <1>8

LEMMA AlteredStep ==
    ASSUME CacheAssumption, IInv, NEW i, NEW r, Altered(cache, i, r)
    PROVE  /\ r \in Seq(Entry) /\ Balanced(r, docs, 1 .. Len(docs), dialog.at)
           /\ Traces(cache, r)
<1> DEFINE D == 1 .. Len(docs)
<1>1. cache \in Seq(Entry) /\ IsFiniteSet(D) /\ Balanced(cache, docs, D, dialog.at)
  BY Before
<1>2. PICK e : Alters(cache, i, e) /\ r = [cache EXCEPT ![i] = e]
  BY DEF Altered
<1> HIDE DEF D
<1>3. Balanced(r, docs, D, dialog.at)
  BY <1>1, <1>2, AlteredFacts
<1>4. r \in Seq(Entry)
  BY <1>1, <1>2, AlteredFacts
<1>5. Traces(cache, r)
  BY <1>1, <1>2, AlteredFacts
<1> QED BY <1>3, <1>4, <1>5 DEF D

LEMMA DataInv ==
    ASSUME CacheAssumption, IInv, ~broken, NEW s \in Conns, NEW size \in Sizes,
           Data(s, size)
    PROVE  IInv'
<1> DEFINE i == At(cache, conn[s].cached)
<1>1. /\ conn[s].cached # Null
      /\ conn' = conn /\ dialog' = dialog /\ broken' = broken
      /\ docs' = Outdated(docs, conn[s].cached)
  BY DEF Data
<1>2. PICK incomplete \in {cache[i].incomplete, TRUE} :
         Resized(cache, i, size, incomplete, cache')
  BY DEF Data, Resized
<1>3. i \in 1 .. Len(cache)
  BY <1>1, LoadedAt
<1> HIDE DEF i
<1>4. cache \in Seq(Entry) /\ docs \in Seq(Doc)
  BY Before
<1>5. incomplete \in BOOLEAN
  <2>1. cache[i] \in Entry
    BY <1>3, <1>4, ElementOfSeq
  <2> QED BY <1>2, <2>1 DEF Entry
<1>6. Altered(cache, i, cache')
  BY <1>2, <1>3, <1>4, <1>5, ResizedFacts
<1>7. /\ cache' \in Seq(Entry) /\ Balanced(cache', docs, 1 .. Len(docs), dialog.at)
      /\ Traces(cache, cache')
  BY <1>6, AlteredStep
<1>8. docs' \in Seq(Doc) /\ Balanced(cache', docs', 1 .. Len(docs'), dialog.at)
  BY <1>1, <1>4, <1>7, OutdatedFacts
<1>9. /\ ConnOK' /\ DialogOK' /\ broken' \in BOOLEAN
      /\ \A t \in Conns : conn'[t] = conn[t] \/ conn'[t].cached = Null
  BY <1>1, Kept
<1>10. ~broken' => ~broken /\ Traces(cache, cache')
  BY <1>7
<1>11. Balanced(cache', docs', 1 .. Len(docs'), dialog.at')
  BY <1>1, <1>8
<1> QED BY <1>7, <1>8, <1>9, <1>10, <1>11, After

LEMMA FinishInv ==
    ASSUME CacheAssumption, IInv, ~broken, NEW s \in Conns, NEW size \in Sizes,
           Finish(s, size)
    PROVE  IInv'
<1> DEFINE i == At(cache, conn[s].cached)
<1>1. /\ conn[s].cached # Null
      /\ conn' = [conn EXCEPT ![s] = Idle]
      /\ docs' = docs /\ dialog' = dialog /\ broken' = broken
      /\ Resized(cache, i, size, FALSE, cache')
  BY DEF Finish, Resized
<1>2. i \in 1 .. Len(cache)
  BY <1>1, LoadedAt
<1> HIDE DEF i
<1>3. cache \in Seq(Entry) /\ docs \in Seq(Doc) /\ FALSE \in BOOLEAN
  BY Before
<1>4. Altered(cache, i, cache')
  BY <1>1, <1>2, <1>3, ResizedFacts
<1>5. /\ cache' \in Seq(Entry) /\ Balanced(cache', docs, 1 .. Len(docs), dialog.at)
      /\ Traces(cache, cache')
  BY <1>4, AlteredStep
<1>6. ConnOK
  BY Kept
<1>7. Idle \in Connection /\ Idle.cached = Null /\ ~Idle.detached
  BY DEF Idle, Connection
<1>8. /\ conn' \in [Conns -> Connection]
      /\ \A t \in Conns : conn'[t] = IF t = s THEN Idle ELSE conn[t]
  BY <1>1, <1>6, <1>7 DEF ConnOK
<1>9. ConnOK' /\ \A t \in Conns : conn'[t] = conn[t] \/ conn'[t].cached = Null
  BY <1>6, <1>7, <1>8 DEF ConnOK, Busy
<1>10. docs' \in Seq(Doc) /\ DialogOK' /\ broken' \in BOOLEAN
  BY <1>1, <1>3, Kept
<1>11. ~broken' => ~broken /\ Traces(cache, cache')
  BY <1>5
<1>12. Balanced(cache', docs', 1 .. Len(docs'), dialog.at')
  BY <1>1, <1>5
<1> QED BY <1>5, <1>9, <1>10, <1>11, <1>12, After

LEMMA StripInv ==
    ASSUME CacheAssumption, IInv, ~broken, NEW s \in Conns, NEW size \in Sizes,
           Strip(s, size)
    PROVE  IInv'
<1> DEFINE i == At(cache, conn[s].cached)
<1>1. /\ conn[s].detached
      /\ docs' = docs /\ conn' = conn /\ dialog' = dialog /\ broken' = broken
      /\ Stripped(cache, i, size, cache')
  BY DEF Strip, Stripped
<1>2. conn[s].cached # Null
  BY <1>1, Kept DEF ConnOK
<1>3. i \in 1 .. Len(cache)
  BY <1>2, LoadedAt
<1> HIDE DEF i
<1>4. cache \in Seq(Entry) /\ docs \in Seq(Doc)
  BY Before
<1>5. Altered(cache, i, cache')
  BY <1>1, <1>3, <1>4, StrippedFacts
<1>6. /\ cache' \in Seq(Entry) /\ Balanced(cache', docs, 1 .. Len(docs), dialog.at)
      /\ Traces(cache, cache')
  BY <1>5, AlteredStep
<1>7. /\ docs' \in Seq(Doc) /\ ConnOK' /\ DialogOK' /\ broken' \in BOOLEAN
      /\ \A t \in Conns : conn'[t] = conn[t] \/ conn'[t].cached = Null
  BY <1>1, <1>4, Kept
<1>8. ~broken' => ~broken /\ Traces(cache, cache')
  BY <1>6
<1>9. Balanced(cache', docs', 1 .. Len(docs'), dialog.at')
  BY <1>1, <1>6
<1> QED BY <1>6, <1>7, <1>8, <1>9, After

\* What detach_connection() does to the entry: it is stripped and not valid.
Detached(c, i, size, r) == r = [c EXCEPT ![i].valid = FALSE, ![i].size = size]

LEMMA DetachedFacts ==
    ASSUME NEW c \in Seq(Entry), NEW i \in 1 .. Len(c), c[i].locks = 0,
           NEW size \in Sizes, NEW r, Detached(c, i, size, r)
    PROVE  Altered(c, i, r)
<1> DEFINE e == [c[i] EXCEPT !.valid = FALSE, !.size = size]
<1>1. c[i] \in Entry
  BY ElementOfSeq
<1>2. Alters(c, i, e)
  BY <1>1 DEF Alters, Entry
<1>3. r = [c EXCEPT ![i] = e]
  BY DEF Detached
<1> QED BY <1>2, <1>3 DEF Altered

LEMMA DetachInv ==
    ASSUME CacheAssumption, IInv, ~broken, NEW s \in Conns, Detach(s)
    PROVE  IInv'
<1> DEFINE r == ShrinkFormatCache(cache, docs, FALSE)
           c == r.cache
           i == At(c, conn[s].cached)
           D == 1 .. Len(r.docs)
<1>1. /\ conn[s].cached # Null
      /\ docs' = r.docs /\ dialog' = dialog /\ broken' = broken
      /\ \/ cache' = c /\ conn' = conn
         \/ /\ c[i].locks = 0
            /\ \E size \in Sizes : Detached(c, i, size, cache')
            /\ conn' = [conn EXCEPT ![s].detached = TRUE]
  BY DEF Detach, Detaches, Detached
<1>2. /\ cache \in Seq(Entry) /\ docs \in Seq(Doc)
      /\ Balanced(cache, docs, 1 .. Len(docs), dialog.at)
  BY Before
<1>3. FormatShrunk(cache, r, dialog.at)
  BY <1>2, FormatCacheShrunk
<1>4. /\ r.docs \in Seq(Doc) /\ Balanced(c, r.docs, D, dialog.at)
      /\ Alike(cache, c) /\ Alike(c, cache)
  BY <1>3 DEF FormatShrunk
<1> HIDE DEF r
<1>5. IsFiniteSet(D)
  <2>1. Len(r.docs) \in Nat
    BY <1>4
  <2> QED BY <2>1, CountUpTo
<1> HIDE DEF D, c
<1>6. c \in Seq(Entry) /\ Good(c)
  <2>1. c \in Seq(Entry)
    BY <1>2, <1>4, <1>5, Typed
  <2> QED BY <1>4, <2>1 DEF Balanced
<1>7. Traces(cache, c)
  BY <1>4 DEF Traces, Alike, Same
<1>8. i \in 1 .. Len(c)
  <2>1. PICK g \in Listed(cache) : g.at = conn[s].cached
    BY <1>1 DEF IInv, Loads
  <2>2. PICK e \in Listed(c) : e.at = conn[s].cached
    BY <1>4, <2>1 DEF Alike, Same
  <2> QED BY <1>6, <2>2, AtFacts
<1> HIDE DEF i
<1>9. ConnOK /\ DialogOK' /\ broken' \in BOOLEAN
  BY <1>1, Kept
<1>10. CASE cache' = c /\ conn' = conn
  <2>1. cache' \in Seq(Entry) /\ docs' \in Seq(Doc)
    BY <1>1, <1>4, <1>6, <1>10
  <2>2. Balanced(cache', docs', 1 .. Len(docs'), dialog.at')
    BY <1>1, <1>4, <1>10 DEF D
  <2>3. ~broken' => ~broken /\ Traces(cache, cache')
    BY <1>7, <1>10
  <2>4. ConnOK' /\ \A t \in Conns : conn'[t] = conn[t]
    BY <1>10, Kept
  <2> QED BY <1>9, <2>1, <2>2, <2>3, <2>4, After
<1>11. CASE /\ c[i].locks = 0
            /\ \E size \in Sizes : Detached(c, i, size, cache')
            /\ conn' = [conn EXCEPT ![s].detached = TRUE]
  <2>1. PICK size \in Sizes : Detached(c, i, size, cache')
    BY <1>11
  <2>2. Altered(c, i, cache')
    BY <1>6, <1>8, <1>11, <2>1, DetachedFacts
  <2>3. PICK e : Alters(c, i, e) /\ cache' = [c EXCEPT ![i] = e]
    BY <2>2 DEF Altered
  <2> DEFINE q == cache'
  <2>4. q = [c EXCEPT ![i] = e]
    BY <2>3
  <2> HIDE DEF q
  <2>5. Balanced(q, r.docs, D, dialog.at)
    BY <1>4, <1>5, <1>6, <2>3, <2>4, AlteredFacts
  <2>6. Traces(c, q)
    BY <1>4, <1>5, <1>6, <2>3, <2>4, AlteredFacts
  <2>7. q \in Seq(Entry)
    BY <1>4, <1>5, <1>6, <2>3, <2>4, AlteredFacts
  <2>8. cache' \in Seq(Entry) /\ docs' \in Seq(Doc)
    BY <1>1, <1>4, <2>7 DEF q
  <2>9. Balanced(cache', docs', 1 .. Len(docs'), dialog.at')
    BY <1>1, <2>5 DEF q, D
  <2>10. Traces(cache, q)
    BY <1>7, <2>6 DEF Traces
  <2>11. ~broken' => ~broken /\ Traces(cache, cache')
    BY <2>10 DEF q
  <2> DEFINE x == [conn[s] EXCEPT !.detached = TRUE]
  <2>12. conn[s] \in Connection
    BY <1>9 DEF ConnOK
  <2>13. /\ x \in Connection
         /\ x.cached = conn[s].cached /\ x.uri = conn[s].uri
    BY <2>12 DEF Connection
  <2>14. conn' = [conn EXCEPT ![s] = x]
    BY <1>11
  <2> HIDE DEF x
  <2>15. /\ conn' \in [Conns -> Connection]
         /\ \A t \in Conns : conn'[t] = IF t = s THEN x ELSE conn[t]
    BY <1>9, <2>13, <2>14 DEF ConnOK
  <2>16. \A t \in Conns : conn'[t].cached = conn[t].cached /\ conn'[t].uri = conn[t].uri
    BY <2>13, <2>15
  <2>17. ConnOK'
    BY <1>1, <1>9, <2>15, <2>16 DEF ConnOK, Busy
  <2> QED BY <1>9, <2>8, <2>9, <2>11, <2>16, <2>17, After
<1> QED BY <1>1, <1>10, <1>11

\* release_document(): the documents are the same.
LEMMA ReleaseDocumentInv ==
    ASSUME IInv, ~broken, NEW i \in 1 .. Len(docs), ReleaseDocument(i)
    PROVE  IInv'
<1> DEFINE x == [docs[i] EXCEPT !.locks = @ - 1]
           d == [docs EXCEPT ![i].locks = @ - 1]
           w == MoveToTop(d, i)
<1>1. /\ docs[i].locks > 0 /\ docs' = w
      /\ cache' = cache /\ conn' = conn /\ dialog' = dialog /\ broken' = broken
  BY DEF ReleaseDocument
<1>2. /\ cache \in Seq(Entry) /\ docs \in Seq(Doc) /\ Len(docs) \in Nat
      /\ Balanced(cache, docs, 1 .. Len(docs), dialog.at)
  BY Before
<1>3. docs[i] \in Doc
  BY <1>2, ElementOfSeq
<1>4. \A n \in Nat : n > 0 => n - 1 \in Nat
  OBVIOUS
<1>5. x \in Doc /\ x.at = docs[i].at /\ x.uri = docs[i].uri
  BY <1>1, <1>3, <1>4 DEF Doc
<1>6. d = [docs EXCEPT ![i] = x]
  OBVIOUS
<1> HIDE DEF x, d
<1>7. d \in Seq(Doc) /\ Len(d) = Len(docs)
  BY <1>2, <1>5, <1>6, ExceptSeq
<1>8. \A k \in 1 .. Len(docs) : d[k].at = docs[k].at /\ d[k].uri = docs[k].uri
  BY <1>2, <1>5, <1>6
<1>9. PICK f : Moved(w, Doc, d, i, f)
  BY <1>7, MoveFacts
<1> HIDE DEF w
<1>10. Renumbers(w, docs, 1 .. Len(docs), f)
  BY <1>2, <1>7, <1>8, <1>9 DEF Renumbers, Moved
<1>11. Balanced(cache, w, 1 .. Len(w), dialog.at)
  BY <1>2, <1>10, RenumberedBalanced
<1>12. Balanced(cache', docs', 1 .. Len(docs'), dialog.at')
  BY <1>1, <1>11
<1>13. /\ cache' \in Seq(Entry) /\ docs' \in Seq(Doc)
       /\ ConnOK' /\ DialogOK' /\ broken' \in BOOLEAN
       /\ \A t \in Conns : conn'[t] = conn[t]
  BY <1>1, <1>2, <1>9, Kept DEF Moved
<1>14. ~broken' => ~broken /\ Traces(cache, cache')
  BY <1>1 DEF Traces
<1> QED BY <1>12, <1>13, <1>14, After

\* A dialog about the entry c[i] opens or is answered.
Asks(c, i, e, b, n) ==
    /\ i \in 1 .. Len(c) /\ e \in Wide /\ Same(c[i], e)
    /\ \/ b = Null /\ n = c[i].at /\ e.locks = c[i].locks + 1
       \/ b = c[i].at /\ n = Null /\ e.locks = c[i].locks - 1

LEMMA AskedFacts ==
    ASSUME NEW c, NEW i, NEW e, NEW b, NEW n, Asks(c, i, e, b, n),
           NEW d, NEW D, IsFiniteSet(D), Balanced(c, d, D, b)
    PROVE  Replaces(c, i, e, d, D, n)
<1>1. Good(c) /\ OneEach(c) /\ \A k \in D : Finds(c, d[k])
  BY DEF Balanced
<1>2. i \in 1 .. Len(c) /\ e \in Wide /\ Same(c[i], e) /\ e.at = c[i].at
  BY DEF Asks, Same
<1>3. c[i] \in Listed(c)
  BY <1>2 DEF Listed
<1>4. \A g \in Listed(c) : g.at # Null
  BY <1>1, EntryFacts DEF Wide, Addresses, Null
<1>5. \A g \in Listed(c) \ {c[i]} : g.at # c[i].at
  BY <1>1, <1>3, EntryFacts
<1>6. \A a : Cardinality(Holders(d, D, a)) \in Nat
  BY HoldersFacts
<1>7. \A g \in Listed(c) : g.locks = Cardinality(Holders(d, D, g.at)) + Asking(b, g.at)
  BY DEF Balanced
<1>8. n # Null => \E g \in Listed(c) : g.at = n
  BY <1>3 DEF Asks
<1>9. e.locks = Cardinality(Holders(d, D, e.at)) + Asking(n, e.at)
  <2> DEFINE m == Cardinality(Holders(d, D, e.at))
  <2>1. m \in Nat /\ c[i].locks = m + Asking(b, e.at) /\ e.at # Null
    BY <1>2, <1>3, <1>4, <1>6, <1>7
  <2> HIDE DEF m
  <2>2. e.locks = m + Asking(n, e.at)
    BY <1>2, <2>1 DEF Asks, Asking
  <2> QED BY <2>2 DEF m
<1>10. \A g \in Listed(c) \ {c[i]} : Asking(n, g.at) = Asking(b, g.at)
  BY <1>4, <1>5 DEF Asks, Asking
<1>11. \A g \in Listed(c) \ {c[i]} :
          g.locks = Cardinality(Holders(d, D, g.at)) + Asking(n, g.at)
  BY <1>7, <1>10
<1> QED BY <1>1, <1>2, <1>8, <1>9, <1>11 DEF Replaces

\* The cache then.
LEMMA AskedStep ==
    ASSUME IInv, NEW i, NEW e, NEW n, Asks(cache, i, e, dialog.at, n),
           NEW r, r = [cache EXCEPT ![i] = e]
    PROVE  /\ r \in Seq(Entry) /\ Balanced(r, docs, 1 .. Len(docs), n)
           /\ Traces(cache, r)
<1> DEFINE D == 1 .. Len(docs)
<1>1. cache \in Seq(Entry) /\ IsFiniteSet(D) /\ Balanced(cache, docs, D, dialog.at)
  BY Before
<1> HIDE DEF D
<1>2. Replaces(cache, i, e, docs, D, n)
  BY <1>1, AskedFacts
<1>3. Balanced(r, docs, D, n) /\ Alike(cache, r)
  BY <1>2, ReplacedBalanced
<1>4. Alike(r, cache)
  BY <1>2, ReplacedBalanced
<1>5. r \in Seq(Entry)
  BY <1>1, <1>3, Typed
<1>6. Traces(cache, r)
  BY <1>4 DEF Traces, Alike, Same
<1> QED BY <1>3, <1>5, <1>6 DEF D

LEMMA OpenDialogInv ==
    ASSUME IInv, ~broken, NEW i \in 1 .. Len(cache), OpenDialog(i)
    PROVE  IInv'
<1> DEFINE e == [cache[i] EXCEPT !.locks = @ + 1]
           n == cache[i].at
<1>1. /\ dialog = NoDialog /\ docs' = docs /\ conn' = conn /\ broken' = broken
      /\ dialog' = [at |-> n, deletes |-> cache[i].locks = 0]
      /\ cache' = [cache EXCEPT ![i] = e]
  BY DEF OpenDialog
<1>2. Good(cache) /\ docs \in Seq(Doc)
  BY Before
<1>3. cache[i] \in Wide
  BY <1>2, EntryFacts
<1>4. e \in Wide /\ Same(cache[i], e) /\ e.locks = cache[i].locks + 1
  BY <1>3 DEF Wide, Same
<1>5. dialog.at = Null /\ n \in Addresses /\ n # Null
  BY <1>1, <1>3 DEF NoDialog, Wide, Addresses, Null
<1> DEFINE r == cache'
<1>6. r = [cache EXCEPT ![i] = e]
  BY <1>1
<1> HIDE DEF e, r
<1>7. Asks(cache, i, e, dialog.at, n)
  BY <1>4, <1>5 DEF Asks
<1> HIDE DEF n
<1>8. r \in Seq(Entry) /\ Balanced(r, docs, 1 .. Len(docs), n)
  BY <1>6, <1>7, AskedStep
<1>9. Traces(cache, r)
  BY <1>6, <1>7, AskedStep
<1>10. cache' \in Seq(Entry) /\ (~broken' => ~broken /\ Traces(cache, cache'))
  BY <1>8, <1>9 DEF r
<1>11. dialog'.at = n
  BY <1>1
<1>12. Balanced(cache', docs', 1 .. Len(docs'), dialog.at')
  BY <1>1, <1>8, <1>11 DEF r
<1>13. DialogOK'
  BY <1>1, <1>5 DEF DialogOK
<1>14. /\ docs' \in Seq(Doc) /\ ConnOK' /\ broken' \in BOOLEAN
       /\ \A t \in Conns : conn'[t] = conn[t]
  BY <1>1, <1>2, Kept
<1> QED BY <1>10, <1>12, <1>13, <1>14, After

\* The lock of a dialog that is answered is given back.
LEMMA AnsweredFacts ==
    ASSUME IInv, dialog # NoDialog, NEW i, i = At(cache, dialog.at), NEW r, r = Answered
    PROVE  /\ r \in Seq(Entry) /\ Balanced(r, docs, 1 .. Len(docs), Null)
           /\ Traces(cache, r) /\ i \in 1 .. Len(r)
<1> DEFINE e == [cache[i] EXCEPT !.locks = @ - 1]
<1>1. Good(cache) /\ Balanced(cache, docs, 1 .. Len(docs), dialog.at)
  BY Before
<1>2. dialog.at # Null
  BY Kept DEF DialogOK
<1>3. PICK g \in Listed(cache) : g.at = dialog.at
  BY <1>1, <1>2 DEF Balanced
<1>4. i \in 1 .. Len(cache) /\ cache[i] = g
  BY <1>1, <1>3, AtFacts
<1>5. cache[i] \in Wide
  BY <1>1, <1>4, EntryFacts
<1>6. e \in Wide /\ Same(cache[i], e) /\ e.locks = cache[i].locks - 1
  BY <1>5 DEF Wide, Same
<1>7. r = [cache EXCEPT ![i] = e]
  BY DEF Answered
<1> HIDE DEF e
<1>8. Asks(cache, i, e, dialog.at, Null)
  BY <1>3, <1>4, <1>6 DEF Asks
<1>9. r \in Seq(Entry) /\ Balanced(r, docs, 1 .. Len(docs), Null)
  BY <1>7, <1>8, AskedStep
<1>10. Traces(cache, r)
  BY <1>7, <1>8, AskedStep
<1>11. Len(r) = Len(cache)
  <2>1. cache \in Seq(Wide)
    BY <1>1 DEF Good
  <2> QED BY <1>4, <1>6, <1>7, <2>1, ExceptSeq
<1> QED BY <1>4, <1>9, <1>10, <1>11

LEMMA AnswerNoInv ==
    ASSUME IInv, ~broken, AnswerNo
    PROVE  IInv'
<1>1. /\ dialog # NoDialog /\ cache' = Answered /\ dialog' = NoDialog
      /\ docs' = docs /\ conn' = conn /\ broken' = broken
  BY DEF AnswerNo
<1> DEFINE r == Answered
<1>2. /\ r \in Seq(Entry) /\ Balanced(r, docs, 1 .. Len(docs), Null)
      /\ Traces(cache, r)
  BY <1>1, AnsweredFacts
<1> HIDE DEF r
<1>3. DialogOK' /\ dialog'.at = Null
  BY <1>1 DEF DialogOK, NoDialog
<1>4. cache' \in Seq(Entry) /\ (~broken' => ~broken /\ Traces(cache, cache'))
  BY <1>1, <1>2 DEF r
<1>5. Balanced(cache', docs', 1 .. Len(docs'), dialog.at')
  BY <1>1, <1>2, <1>3 DEF r
<1>6. /\ docs' \in Seq(Doc) /\ ConnOK' /\ broken' \in BOOLEAN
      /\ \A t \in Conns : conn'[t] = conn[t]
  BY <1>1, Before, Kept
<1> QED BY <1>3, <1>4, <1>5, <1>6, After

LEMMA AnswerYesInv ==
    ASSUME IInv, ~broken, AnswerYes
    PROVE  IInv'
<1> DEFINE c == Answered
           i == At(cache, dialog.at)
           D == 1 .. Len(docs)
<1>1. /\ dialog.deletes /\ dialog' = NoDialog /\ docs' = docs /\ conn' = conn
      /\ \/ cache' = c /\ broken' = broken
         \/ c[i].locks = 0 /\ cache' = RemoveAt(c, i) /\ broken' = Used(c[i])
  BY DEF AnswerYes, Deleted
<1>2. dialog # NoDialog
  BY <1>1 DEF NoDialog
<1>3. /\ c \in Seq(Entry) /\ Balanced(c, docs, D, Null)
      /\ Traces(cache, c) /\ i \in 1 .. Len(c)
  BY <1>2, AnsweredFacts
<1> HIDE DEF c, i
<1>4. IsFiniteSet(D) /\ docs \in Seq(Doc)
  BY Before
<1>5. DialogOK' /\ dialog'.at = Null
  BY <1>1 DEF DialogOK, NoDialog
<1>6. /\ docs' \in Seq(Doc) /\ ConnOK' /\ \A t \in Conns : conn'[t] = conn[t]
  BY <1>1, <1>4, Kept
<1>7. CASE cache' = c /\ broken' = broken
  <2>1. cache' \in Seq(Entry) /\ (~broken' => ~broken /\ Traces(cache, cache'))
    BY <1>3, <1>7
  <2>2. Balanced(cache', docs', 1 .. Len(docs'), dialog.at')
    BY <1>1, <1>3, <1>5, <1>7
  <2>3. broken' \in BOOLEAN
    BY <1>7, Kept
  <2> QED BY <1>5, <1>6, <2>1, <2>2, <2>3, After
<1>8. CASE c[i].locks = 0 /\ cache' = RemoveAt(c, i) /\ broken' = Used(c[i])
  <2> DEFINE r == RemoveAt(c, i)
  <2>1. r = RemoveAt(c, i) /\ cache' = r
    BY <1>8
  <2> HIDE DEF r, D
  <2>2. Balanced(r, docs, D, Null) /\ r \in Seq(Entry)
    BY <1>3, <1>4, <1>8, <2>1, DeletedFacts
  <2>3. ~Used(c[i]) => Traces(c, r)
    BY <1>3, <1>4, <1>8, <2>1, DeletedFacts
  <2>4. cache' \in Seq(Entry) /\ broken' \in BOOLEAN
    BY <1>8, <2>1, <2>2 DEF Used
  <2>5. ~broken' => ~broken /\ Traces(cache, cache')
    BY <1>3, <1>8, <2>1, <2>3 DEF Traces
  <2>6. Balanced(cache', docs', 1 .. Len(docs'), dialog.at')
    BY <1>1, <1>5, <2>1, <2>2 DEF D
  <2> QED BY <1>5, <1>6, <2>4, <2>5, <2>6, After
<1> QED BY <1>1, <1>7, <1>8

\* A new entry, which no document was made from.
LEMMA AddedBalanced ==
    ASSUME NEW c, NEW d, NEW D, IsFiniteSet(D), NEW b, Balanced(c, d, D, b),
           NEW x \in Wide, x.at \notin Allocated(c), x.locks = 0,
           ~\E e \in Listed(c) : e.valid /\ e.uri = x.uri,
           NEW w, w = <<x>> \o c
    PROVE  Balanced(w, d, D, b)
<1>1. Good(c) /\ OneEach(c)
  BY DEF Balanced
<1>2. Good(w)
  BY <1>1, AddedFacts
<1>3. \A g : g \in Listed(w) <=> g = x \/ g \in Listed(c)
  BY <1>1, AddedFacts
<1>4. OneEach(w)
  BY <1>1, <1>3 DEF OneEach
<1>5. \A g \in Listed(c) : g.at # x.at
  BY <1>1, AllocatedFacts
<1>6. ASSUME NEW k \in D PROVE Finds(w, d[k]) /\ d[k].at # x.at
  BY <1>3, <1>5 DEF Balanced, Finds
<1>7. b # x.at /\ (b # Null => \E g \in Listed(w) : g.at = b)
  <2>1. x.at # Null
    BY DEF Wide, Addresses, Null
  <2> QED BY <1>3, <1>5, <2>1 DEF Balanced
<1>8. x.locks = Cardinality(Holders(d, D, x.at)) + Asking(b, x.at)
  <2>1. Holders(d, D, x.at) = {}
    BY <1>6 DEF Holders
  <2>2. Cardinality({}) = 0
    BY FS_EmptySet
  <2> QED BY <1>7, <2>1, <2>2 DEF Asking
<1>9. \A g \in Listed(w) : g.locks = Cardinality(Holders(d, D, g.at)) + Asking(b, g.at)
  BY <1>3, <1>8 DEF Balanced
<1> QED BY <1>2, <1>4, <1>6, <1>7, <1>9 DEF Balanced

\* There is room for one.
LEMMA FreeFacts ==
    ASSUME CacheAssumption, NEW c, NEW r, Good(c), Good(r), Alike(c, r),
           Len(c) < MaxEntries
    PROVE  FreeAddress(r) \in Addresses /\ FreeAddress(r) \notin Allocated(r)
<1> DEFINE F == Addresses \ Allocated(r)
<1>1. Allocated(r) \subseteq Allocated(c)
  <2>1. ASSUME NEW g \in Listed(r) PROVE g.at \in Allocated(c)
    <3>1. PICK e \in Listed(c) : e.at = g.at
      BY DEF Alike, Same
    <3> QED BY <3>1, AllocatedFacts
  <2> QED BY <2>1, AllocatedFacts
<1>2. MaxEntries \in Nat
  BY DEF CacheAssumption
<1>3. F # {}
  <2> SUFFICES ASSUME F = {} PROVE FALSE
    OBVIOUS
  <2>1. Addresses \subseteq Allocated(c)
    BY <1>1
  <2>2. Allocated(c) \in SUBSET Addresses
    BY AllocatedFacts
  <2>3. Cardinality(Allocated(c)) = MaxEntries
    <3>1. Allocated(c) = 1 .. MaxEntries
      BY <2>1, <2>2 DEF Addresses
    <3> QED BY <1>2, <3>1, CountUpTo
  <2>4. Cardinality(Allocated(c)) = Len(c)
    BY AllocatedFacts
  <2> QED BY <1>2, <2>3, <2>4
<1>4. F \in SUBSET Nat
  BY <1>2 DEF Addresses
<1>5. Min(F) \in F
  <2> HIDE DEF F
  <2> QED BY <1>3, <1>4, MinFacts
<1> QED BY <1>5 DEF FreeAddress

\* What get_cache_entry() finds or makes.
Got(r, u) ==
    /\ r.cache \in Seq(Entry) /\ r.docs \in Seq(Doc)
    /\ Balanced(r.cache, r.docs, 1 .. Len(r.docs), dialog.at)
    /\ Traces(cache, r.cache)
    /\ 1 \in 1 .. Len(r.cache) /\ r.cache[1].uri = u

LEMMA GotFacts ==
    ASSUME CacheAssumption, IInv, NEW u \in Uris,
           Known(cache, u) \/ Len(cache) < MaxEntries,
           NEW r, r = GotEntry(u)
    PROVE  Got(r, u)
<1>1. Good(cache) /\ docs \in Seq(Doc)
  BY Before
<1>2. CASE Known(cache, u)
  <2> DEFINE c == FindInCache(cache, u)
  <2>1. r.cache = c /\ r.docs = docs
    BY <1>2 DEF GotEntry
  <2>2. /\ c \in Seq(Entry)
        /\ Balanced(c, docs, 1 .. Len(docs), dialog.at) /\ Traces(cache, c)
    BY FoundStep
  <2>3. 1 \in 1 .. Len(c) /\ c[1].uri = u
    BY <1>1, <1>2, FoundFacts
  <2> HIDE DEF c
  <2> QED BY <1>1, <2>1, <2>2, <2>3 DEF Got
<1>3. CASE ~Known(cache, u)
  <2> DEFINE q == ShrinkMemory(cache, docs, FALSE)
             c == q.cache
             x == New(FreeAddress(c), u)
             w == <<x>> \o c
             D == 1 .. Len(q.docs)
  <2>1. /\ c \in Seq(Entry) /\ q.docs \in Seq(Doc)
        /\ Balanced(c, q.docs, D, dialog.at)
        /\ Alike(cache, c) /\ Traces(cache, c)
    BY ShrunkStep
  <2>2. r = [q EXCEPT !.cache = w]
    BY <1>3 DEF GotEntry
  <2>3. q.cache = c /\ q = [cache |-> q.cache, docs |-> q.docs]
    <3> DEFINE p == ShrinkFormatCache(cache, docs, FALSE)
               g == GarbageCollection(p.cache, FALSE)
    <3>1. p = [cache |-> p.cache, docs |-> p.docs]
      BY DEF ShrinkFormatCache, DropSurplus
    <3>2. q = [p EXCEPT !.cache = g]
      BY DEF ShrinkMemory
    <3> HIDE DEF p, g, q
    <3>3. q = [cache |-> g, docs |-> p.docs]
      BY <3>1, <3>2
    <3> QED BY <3>3
  <2>4. r.cache = w /\ r.docs = q.docs
    BY <2>2, <2>3
  <2>5. Good(c)
    BY <2>1 DEF Balanced
  <2> HIDE DEF c
  <2>6. FreeAddress(c) \in Addresses /\ FreeAddress(c) \notin Allocated(c)
    BY <1>1, <1>3, <2>1, <2>5, FreeFacts
  <2>7. /\ x \in Entry /\ x \in Wide /\ x.uri = u /\ x.locks = 0
        /\ x.at \notin Allocated(c)
    BY <2>6 DEF New, Entry, Wide, CacheAssumption
  <2>8. w = <<x>> \o c
    OBVIOUS
  <2> HIDE DEF q, x, w
  <2>9. ~\E e \in Listed(c) : e.valid /\ e.uri = x.uri
    <3>1. \A e \in Listed(cache) : ~(e.valid /\ e.uri = u)
      BY <1>1, <1>3, KnownFacts
    <3> QED BY <2>1, <2>7, <3>1 DEF Alike, Same
  <2>10. IsFiniteSet(D)
    <3>1. Len(q.docs) \in Nat
      BY <2>1
    <3> QED BY <3>1, CountUpTo
  <2> HIDE DEF D
  <2>11. Balanced(w, q.docs, D, dialog.at)
    BY <2>1, <2>7, <2>8, <2>9, <2>10, AddedBalanced
  <2>12. \A g : g \in Listed(w) <=> g = x \/ g \in Listed(c)
    BY <2>5, <2>7, <2>8, AddedFacts
  <2>13. w \in Seq(Entry) /\ 1 \in 1 .. Len(w) /\ w[1] = x
    BY <2>1, <2>7, <2>8, FrontFacts
  <2>14. Traces(cache, w)
    BY <2>1, <2>12 DEF Traces
  <2> QED BY <2>1, <2>4, <2>7, <2>11, <2>13, <2>14 DEF Got, D
<1> QED BY <1>2, <1>3

\* The entry may have been emptied: delete_entry_content().
LEMMA HeaderFacts ==
    ASSUME CacheAssumption, NEW e \in Entry, NEW modified,
           NEW x, x = IF modified THEN [e EXCEPT !.size = 0, !.incomplete = TRUE] ELSE e
    PROVE  /\ x \in Entry /\ x.at = e.at /\ x.uri = e.uri
           /\ x.locks = e.locks /\ x.valid = e.valid
BY DEF Entry, CacheAssumption

LEMMA HeaderInv ==
    ASSUME CacheAssumption, IInv, ~broken, NEW s \in Conns, NEW modified \in BOOLEAN,
           Header(s, modified)
    PROVE  IInv'
<1> DEFINE u == conn[s].uri
           r == GotEntry(u)
           c == r.cache
           e == c[1]
           x == IF modified THEN [e EXCEPT !.size = 0, !.incomplete = TRUE] ELSE e
           D == 1 .. Len(r.docs)
<1>1. /\ Busy(s) /\ (Known(cache, u) \/ Len(cache) < MaxEntries)
      /\ cache' = [c EXCEPT ![1] = x]
      /\ docs' = IF modified THEN Outdated(r.docs, e.at) ELSE r.docs
      /\ conn' = [conn EXCEPT ![s].cached = e.at]
      /\ dialog' = dialog /\ broken' = broken
  BY DEF Header
<1>2. ConnOK
  BY Kept
<1>3. u \in Uris
  BY <1>1, <1>2 DEF ConnOK, Connection, Busy
<1>4. Got(r, u)
  BY <1>1, <1>3, GotFacts
<1>5. /\ c \in Seq(Entry) /\ r.docs \in Seq(Doc) /\ Balanced(c, r.docs, D, dialog.at)
      /\ Traces(cache, c) /\ 1 \in 1 .. Len(c) /\ e.uri = u
  BY <1>4 DEF Got
<1> HIDE DEF r
<1>6. IsFiniteSet(D)
  <2>1. Len(r.docs) \in Nat
    BY <1>5
  <2> QED BY <2>1, CountUpTo
<1> HIDE DEF c
<1>7. e \in Entry
  BY <1>5, ElementOfSeq
<1>8. /\ x \in Entry /\ x.at = e.at /\ x.uri = e.uri
      /\ x.locks = e.locks /\ x.valid = e.valid
  <2> HIDE DEF e
  <2> QED BY <1>7, HeaderFacts
<1>9. Alters(c, 1, x)
  <2> HIDE DEF x
  <2> QED BY <1>5, <1>8 DEF Alters
<1> DEFINE w == cache'
<1>10. w = [c EXCEPT ![1] = x]
  BY <1>1
<1> HIDE DEF w, x, D
<1>11. Balanced(w, r.docs, D, dialog.at)
  BY <1>5, <1>6, <1>9, <1>10, AlteredFacts
<1>12. Traces(c, w)
  BY <1>5, <1>6, <1>9, <1>10, AlteredFacts
<1>13. w \in Seq(Entry)
  BY <1>5, <1>6, <1>9, <1>10, AlteredFacts
<1>14. w[1] = x /\ 1 \in 1 .. Len(w)
  BY <1>5, <1>8, <1>10, ExceptSeq
<1>15. docs' \in Seq(Doc) /\ Balanced(w, docs', 1 .. Len(docs'), dialog.at)
  <2> HIDE DEF e
  <2>1. Balanced(w, r.docs, 1 .. Len(r.docs), dialog.at)
    BY <1>11 DEF D
  <2>2. CASE modified
    <3>1. docs' = Outdated(r.docs, e.at)
      BY <1>1, <2>2
    <3> QED BY <1>5, <2>1, <3>1, OutdatedFacts
  <2>3. CASE ~modified
    BY <1>1, <1>5, <2>1, <2>3
  <2> QED BY <2>2, <2>3
<1>16. e.at \in Addresses /\ e.at # Null
  BY <1>7 DEF Entry, Addresses, Null
<1>17. ConnOK' /\ \A t \in Conns : conn'[t].uri = conn[t].uri
                  /\ conn'[t].cached = IF t = s THEN e.at ELSE conn[t].cached
  <2> DEFINE y == [conn[s] EXCEPT !.cached = e.at]
  <2>1. conn[s] \in Connection
    BY <1>2 DEF ConnOK
  <2>2. y \in Connection /\ y.uri = u /\ y.cached = e.at
    BY <1>16, <2>1 DEF Connection
  <2>3. conn' = [conn EXCEPT ![s] = y]
    BY <1>1
  <2> HIDE DEF y, e
  <2>4. /\ conn' \in [Conns -> Connection]
        /\ \A t \in Conns : conn'[t] = IF t = s THEN y ELSE conn[t]
    BY <1>2, <2>2, <2>3 DEF ConnOK
  <2> QED BY <1>1, <1>2, <1>16, <2>2, <2>4 DEF ConnOK, Busy
<1>18. Loads(cache', conn'[s])
  <2>1. x \in Listed(w) /\ x.at = conn'[s].cached /\ x.uri = conn'[s].uri
    BY <1>5, <1>8, <1>14, <1>17 DEF Listed
  <2> QED BY <2>1 DEF Loads, w
<1>19. \A t \in Conns :
          \/ conn'[t].cached = conn[t].cached /\ conn'[t].uri = conn[t].uri
          \/ Loads(cache', conn'[t])
  BY <1>17, <1>18
<1>20. cache' \in Seq(Entry) /\ DialogOK' /\ broken' \in BOOLEAN
  BY <1>1, <1>13, Kept DEF w
<1>21. Balanced(cache', docs', 1 .. Len(docs'), dialog.at')
  BY <1>1, <1>15 DEF w
<1>22. ~broken' => ~broken /\ Traces(cache, cache')
  BY <1>5, <1>12 DEF w, Traces
<1> QED BY <1>15, <1>17, <1>19, <1>20, <1>21, <1>22, After

-----------------------------------------------------------------------------
(* render_document().                                                      *)

\* Documents of the entry c[i] go, and their locks.
Drops(c, i, e, d, D, gone) ==
    /\ i \in 1 .. Len(c) /\ e \in Wide /\ Same(c[i], e)
    /\ gone \subseteq D /\ \A k \in gone : d[k].at = c[i].at
    /\ e.locks = c[i].locks - Cardinality(gone)

LEMMA DroppedFacts ==
    ASSUME NEW c, NEW i, NEW e, NEW d, NEW D, IsFiniteSet(D), NEW gone,
           Drops(c, i, e, d, D, gone), NEW b, Balanced(c, d, D, b),
           NEW J, J = D \ gone
    PROVE  Replaces(c, i, e, d, J, b)
<1>1. Good(c) /\ OneEach(c) /\ \A k \in J : Finds(c, d[k])
  BY DEF Balanced
<1>2. i \in 1 .. Len(c) /\ e \in Wide /\ Same(c[i], e) /\ e.at = c[i].at
  BY DEF Drops, Same
<1>3. c[i] \in Listed(c)
  BY <1>2 DEF Listed
<1>4. \A g \in Listed(c) \ {c[i]} : g.at # c[i].at
  BY <1>1, <1>3, EntryFacts
<1>5. \A g \in Listed(c) : g.locks = Cardinality(Holders(d, D, g.at)) + Asking(b, g.at)
  BY DEF Balanced
<1>6. \A g \in Listed(c) \ {c[i]} : Holders(d, J, g.at) = Holders(d, D, g.at)
  BY <1>4 DEF Holders, Drops
<1>7. e.locks = Cardinality(Holders(d, J, e.at)) + Asking(b, e.at)
  <2> DEFINE H == Holders(d, D, e.at)
  <2>1. Holders(d, J, e.at) = H \ gone /\ gone \in SUBSET H
    BY <1>2 DEF Holders, Drops
  <2>2. IsFiniteSet(H)
    BY HoldersFacts
  <2>3. c[i].locks = Cardinality(H) + Asking(b, e.at)
    BY <1>2, <1>3, <1>5
  <2> HIDE DEF H
  <2>4. Cardinality(H \ gone) = Cardinality(H) - Cardinality(gone)
    BY <2>1, <2>2, CardDiff
  <2>5. Cardinality(H) \in Nat /\ Cardinality(gone) \in Nat
    BY <2>1, <2>2, CardDiff
  <2>6. Asking(b, e.at) \in Nat
    BY DEF Asking
  <2>7. e.locks = (Cardinality(H) + Asking(b, e.at)) - Cardinality(gone)
    BY <2>3 DEF Drops
  <2>8. \A p, q, t \in Nat : (p + t) - q = (p - q) + t
    OBVIOUS
  <2>9. e.locks = (Cardinality(H) - Cardinality(gone)) + Asking(b, e.at)
    BY <2>5, <2>6, <2>7, <2>8
  <2> QED BY <2>1, <2>4, <2>9
<1>8. b # Null => \E g \in Listed(c) : g.at = b
  BY DEF Balanced
<1> QED BY <1>1, <1>2, <1>5, <1>6, <1>7, <1>8 DEF Replaces

\* A document is made from the entry c[i].
Takes(c, i, e, d, D, k) ==
    /\ i \in 1 .. Len(c) /\ e \in Wide /\ Same(c[i], e)
    /\ k \notin D /\ d[k].at = c[i].at /\ d[k].uri = c[i].uri /\ c[i].valid
    /\ e.locks = c[i].locks + 1

LEMMA TakenFacts ==
    ASSUME NEW c, NEW i, NEW e, NEW d, NEW D, IsFiniteSet(D), NEW k,
           Takes(c, i, e, d, D, k), NEW b, Balanced(c, d, D, b),
           NEW J, J = D \cup {k}
    PROVE  Replaces(c, i, e, d, J, b)
<1>1. Good(c) /\ OneEach(c)
  BY DEF Balanced
<1>2. i \in 1 .. Len(c) /\ e \in Wide /\ Same(c[i], e) /\ e.at = c[i].at
  BY DEF Takes, Same
<1>3. c[i] \in Listed(c)
  BY <1>2 DEF Listed
<1>4. \A g \in Listed(c) \ {c[i]} : g.at # c[i].at
  BY <1>1, <1>3, EntryFacts
<1>5. \A g \in Listed(c) : g.locks = Cardinality(Holders(d, D, g.at)) + Asking(b, g.at)
  BY DEF Balanced
<1>6. \A g \in Listed(c) \ {c[i]} : Holders(d, J, g.at) = Holders(d, D, g.at)
  BY <1>4 DEF Holders, Takes
<1>7. e.locks = Cardinality(Holders(d, J, e.at)) + Asking(b, e.at)
  <2> DEFINE H == Holders(d, D, e.at)
  <2>1. Holders(d, J, e.at) = H \cup {k} /\ k \notin H
    BY <1>2 DEF Holders, Takes
  <2>2. IsFiniteSet(H)
    BY HoldersFacts
  <2>3. c[i].locks = Cardinality(H) + Asking(b, e.at)
    BY <1>2, <1>3, <1>5
  <2> HIDE DEF H
  <2>4. Cardinality(H \cup {k}) = Cardinality(H) + 1
    BY <2>1, <2>2, FS_AddElement
  <2>5. Cardinality(H) \in Nat
    BY <2>2, FS_CardinalityType
  <2>6. Asking(b, e.at) \in Nat
    BY DEF Asking
  <2>7. \A p, t \in Nat : (p + t) + 1 = (p + 1) + t
    OBVIOUS
  <2> QED BY <2>1, <2>3, <2>4, <2>5, <2>6, <2>7 DEF Takes
<1>8. b # Null => \E g \in Listed(c) : g.at = b
  BY DEF Balanced
<1>9. \A m \in J : Finds(c, d[m])
  BY <1>3 DEF Balanced, Finds, Takes
<1> QED BY <1>1, <1>2, <1>5, <1>6, <1>7, <1>8, <1>9 DEF Replaces

\* Another document comes first.
LEMMA FrontRenumbers ==
    ASSUME NEW w \in Seq(Doc), NEW l, NEW D, NEW f, Renumbers(w, l, D, f),
           NEW i, i \notin D, NEW x \in Doc, x.at = l[i].at, x.uri = l[i].uri,
           NEW v, v = <<x>> \o w, NEW J, J = D \cup {i}
    PROVE  v \in Seq(Doc) /\ \E g : Renumbers(v, l, J, g)
<1>1. v \in Seq(Doc) /\ Len(v) = Len(w) + 1 /\ 1 \in 1 .. Len(v) /\ v[1] = x
  BY FrontFacts
<1>2. \A k \in 1 .. Len(w) : k + 1 \in 1 .. Len(v) /\ v[k + 1] = w[k]
  BY FrontFacts
<1>3. \A j \in 1 .. Len(v) : j = 1 \/ (j - 1 \in 1 .. Len(w) /\ v[j] = w[j - 1])
  BY FrontFacts
<1>4. Len(w) \in Nat /\ Len(v) \in Nat
  BY <1>1
<1> DEFINE g == [j \in 1 .. Len(v) |-> IF j = 1 THEN i ELSE f[j - 1]]
<1>5. f \in [1 .. Len(w) -> D]
  BY DEF Renumbers
<1>6. \A j \in 1 .. Len(v) :
         j = 1 \/ (j # 1 /\ j - 1 \in 1 .. Len(w) /\ g[j] = f[j - 1] /\ g[j] \in D)
  BY <1>3, <1>5
<1>7. g[1] = i /\ g \in [1 .. Len(v) -> J]
  BY <1>1, <1>3, <1>5
<1> HIDE DEF g
<1>8. ASSUME NEW j \in 1 .. Len(v), NEW k \in 1 .. Len(v), g[j] = g[k] PROVE j = k
  <2>1. CASE j = 1 \/ k = 1
    BY <1>6, <1>7, <1>8, <2>1
  <2>2. CASE j # 1 /\ k # 1
    <3>1. j - 1 \in 1 .. Len(w) /\ k - 1 \in 1 .. Len(w) /\ f[j - 1] = f[k - 1]
      BY <1>6, <1>8, <2>2
    <3>2. j - 1 = k - 1
      BY <3>1 DEF Renumbers
    <3> QED BY <1>4, <3>2
  <2> QED BY <2>1, <2>2
<1>9. ASSUME NEW m \in J PROVE \E j \in 1 .. Len(v) : g[j] = m
  <2>1. CASE m = i
    BY <1>1, <1>7, <2>1
  <2>2. CASE m \in D
    <3>1. PICK k \in 1 .. Len(w) : f[k] = m
      BY <2>2 DEF Renumbers
    <3>2. k + 1 \in 1 .. Len(v) /\ k + 1 # 1 /\ (k + 1) - 1 = k
      BY <1>2, <1>4
    <3>3. g[k + 1] = m
      BY <1>6, <3>1, <3>2
    <3> QED BY <3>2, <3>3
  <2> QED BY <2>1, <2>2
<1>10. ASSUME NEW j \in 1 .. Len(v)
       PROVE  v[j].at = l[g[j]].at /\ v[j].uri = l[g[j]].uri
  <2>1. CASE j = 1
    BY <1>1, <1>7, <2>1
  <2>2. CASE j # 1
    <3>1. j - 1 \in 1 .. Len(w) /\ v[j] = w[j - 1] /\ g[j] = f[j - 1]
      BY <1>3, <1>6, <2>2
    <3> QED BY <3>1 DEF Renumbers
  <2> QED BY <2>1, <2>2
<1>11. Renumbers(v, l, J, g)
  BY <1>4, <1>7, <1>8, <1>9, <1>10 DEF Renumbers
<1> QED BY <1>1, <1>11

\* Only the documents with the numbers D matter.
LEMMA SameDocuments ==
    ASSUME NEW c, NEW d, NEW D, NEW b, Balanced(c, d, D, b),
           NEW l, \A k \in D : l[k] = d[k]
    PROVE  Balanced(c, l, D, b)
<1>1. \A a : Holders(l, D, a) = Holders(d, D, a)
  BY DEF Holders
<1> QED BY <1>1 DEF Balanced

\* The documents that get_cached_document() removes were made from the entry
\* that render_document() has found.
LEMMA ObsoleteHolders ==
    ASSUME NEW c, NEW D, NEW b, Balanced(c, docs, D, b), NEW u,
           1 \in 1 .. Len(c), c[1].valid, c[1].uri = u,
           NEW k \in D, docs[k].uri = u
    PROVE  docs[k].at = c[1].at
<1>1. PICK e \in Listed(c) : e.valid /\ e.uri = docs[k].uri /\ e.at = docs[k].at
  BY DEF Balanced, Finds
<1>2. c[1] \in Listed(c)
  BY DEF Listed
<1> QED BY <1>1, <1>2 DEF Balanced, OneEach

\* What Render does when these documents are the ones that are ready.
Renders(u, o, ready) ==
    LET gone == Obsolete(u, o, ready)
        found == FindInCache(cache, u)
        c == [found EXCEPT ![1].locks = @ - Cardinality(gone)]
        d == [uri |-> u, options |-> o, at |-> c[1].at, current |-> TRUE,
              locks |-> 1]
    IN  /\ Known(cache, u)
        /\ \/ /\ ready # {} /\ cache' = c
              /\ LET i == Min(ready)
                 IN  docs' = <<[docs[i] EXCEPT !.locks = @ + 1]>>
                               \o Without(docs, gone \cup {i})
           \/ /\ ready = {}
              /\ LET r == ShrinkMemory([c EXCEPT ![1].locks = @ + 1],
                                       <<d>> \o Without(docs, gone), FALSE)
                 IN  cache' = r.cache /\ docs' = r.docs
        /\ UNCHANGED <<conn, dialog, broken>>

LEMMA RenderInv ==
    ASSUME IInv, ~broken, NEW u \in Uris, NEW o \in Options, Render(u, o)
    PROVE  IInv'
<1>0. PICK ready \in SUBSET Current(u, o) : Renders(u, o, ready)
  BY DEF Render, Renders
<1> DEFINE gone == Obsolete(u, o, ready)
           found == FindInCache(cache, u)
           e == [found[1] EXCEPT !.locks = @ - Cardinality(gone)]
           c == [found EXCEPT ![1].locks = @ - Cardinality(gone)]
           x == [uri |-> u, options |-> o, at |-> c[1].at, current |-> TRUE,
                  locks |-> 1]
           D == 1 .. Len(docs)
           J == D \ gone
           b == dialog.at
<1>1. /\ Known(cache, u) /\ conn' = conn /\ dialog' = dialog /\ broken' = broken
      /\ \/ /\ ready # {} /\ cache' = c
            /\ LET i == Min(ready)
               IN  docs' = <<[docs[i] EXCEPT !.locks = @ + 1]>>
                              \o Without(docs, gone \cup {i})
         \/ /\ ready = {}
            /\ LET r == ShrinkMemory([c EXCEPT ![1].locks = @ + 1],
                                     <<x>> \o Without(docs, gone), FALSE)
               IN  cache' = r.cache /\ docs' = r.docs
  BY <1>0 DEF Renders
<1>2. docs \in Seq(Doc) /\ Good(cache) /\ IsFiniteSet(D) /\ Len(docs) \in Nat
  BY Before
<1>3. /\ found \in Seq(Entry) /\ Listed(found) = Listed(cache)
      /\ Balanced(found, docs, D, b) /\ Traces(cache, found)
  BY FoundStep
<1>4. 1 \in 1 .. Len(found) /\ found[1].valid /\ found[1].uri = u
  BY <1>1, <1>2, FoundFacts
<1>5. gone \subseteq D /\ \A k \in gone : docs[k].uri = u /\ k \notin ready
  BY DEF Obsolete
<1> HIDE DEF found, gone, b
<1>6. \A k \in gone : docs[k].at = found[1].at
  <2>1. ASSUME NEW k \in gone PROVE docs[k].at = found[1].at
    <3>1. k \in D /\ docs[k].uri = u
      BY <1>5
    <3> HIDE DEF D
    <3> QED BY <1>3, <1>4, <3>1, ObsoleteHolders
  <2> QED BY <2>1
<1>7. found[1] \in Wide /\ found \in Seq(Wide)
  BY <1>3, <1>4, EntryFacts DEF Balanced
<1>8. IsFiniteSet(gone) /\ Cardinality(gone) \in Nat
  BY <1>2, <1>5, FS_Subset, FS_CardinalityType
<1>9. e \in Wide /\ Same(found[1], e) /\ e.locks = found[1].locks - Cardinality(gone)
  BY <1>7, <1>8 DEF Wide, Same
<1>10. c = [found EXCEPT ![1] = e]
  OBVIOUS
<1> HIDE DEF e, c, D
<1>11. Drops(found, 1, e, docs, D, gone)
  BY <1>4, <1>5, <1>6, <1>9 DEF Drops
<1> HIDE DEF J
<1>12. Replaces(found, 1, e, docs, J, b)
  BY <1>2, <1>3, <1>11, DroppedFacts DEF J
<1>13. Balanced(c, docs, J, b) /\ Alike(found, c)
  BY <1>10, <1>12, ReplacedBalanced
<1>14. Alike(c, found)
  BY <1>10, <1>12, ReplacedBalanced
<1>15. c[1] = e /\ Len(c) = Len(found)
  BY <1>4, <1>7, <1>9, <1>10, ExceptSeq
<1>16. c[1].at = e.at /\ c[1].uri = u /\ c[1].valid /\ 1 \in 1 .. Len(c)
  BY <1>4, <1>9, <1>15 DEF Same
<1>17. IsFiniteSet(J)
  BY <1>2, FS_Subset DEF J
<1>18. c \in Seq(Entry)
  BY <1>3, <1>13, <1>17, Typed
<1>19. /\ ConnOK' /\ DialogOK' /\ broken' \in BOOLEAN
       /\ \A t \in Conns : conn'[t] = conn[t]
  BY <1>1, Kept
<1>20. Traces(cache, c)
  BY <1>3, <1>14 DEF Traces, Alike, Same
<1>21. CASE /\ ready # {} /\ cache' = c
            /\ LET i == Min(ready)
               IN  docs' = <<[docs[i] EXCEPT !.locks = @ + 1]>>
                              \o Without(docs, gone \cup {i})
  <2> DEFINE i == Min(ready)
             y == [docs[i] EXCEPT !.locks = @ + 1]
             is == gone \cup {i}
             w == Without(docs, is)
             v == <<y>> \o w
  <2>1. docs' = v /\ cache' = c
    BY <1>21
  <2>2. ready \in SUBSET Nat /\ ready # {}
    BY <1>0, <1>21 DEF Current
  <2>3. i \in ready
    BY <2>2, MinFacts
  <2>4. i \in D /\ i \notin gone /\ docs[i].uri = u
    BY <1>0, <1>5, <2>3 DEF Current, D
  <2> HIDE DEF i
  <2>5. docs[i] \in Doc
    BY <1>2, <2>4, ElementOfSeq DEF D
  <2>6. y \in Doc /\ y.at = docs[i].at /\ y.uri = docs[i].uri
    BY <2>5 DEF Doc
  <2>7. w = Without(docs, is) /\ v = <<y>> \o w
    OBVIOUS
  <2> HIDE DEF y, v, w, is
  <2>8. w \in Seq(Doc) /\ \E f : Renumbers(w, docs, (1 .. Len(docs)) \ is, f)
    BY <1>2, <2>7, WithoutRenumbers
  <2> DEFINE K == (1 .. Len(docs)) \ is
  <2>9. PICK f : Renumbers(w, docs, K, f)
    BY <2>8
  <2>10. J = K \cup {i} /\ i \notin K
    BY <2>4 DEF J, D, is
  <2> HIDE DEF K
  <2>11. v \in Seq(Doc) /\ \E g : Renumbers(v, docs, J, g)
    BY <2>6, <2>7, <2>8, <2>9, <2>10, FrontRenumbers
  <2>12. PICK g : Renumbers(v, docs, J, g)
    BY <2>11
  <2>13. Balanced(c, v, 1 .. Len(v), b)
    BY <1>13, <2>12, RenumberedBalanced
  <2>14. Balanced(cache', docs', 1 .. Len(docs'), dialog.at')
    BY <1>1, <2>1, <2>13 DEF b
  <2>15. cache' \in Seq(Entry) /\ docs' \in Seq(Doc)
    BY <1>18, <2>1, <2>11
  <2>16. ~broken' => ~broken /\ Traces(cache, cache')
    BY <1>20, <2>1
  <2> QED BY <1>19, <2>14, <2>15, <2>16, After
<1>22. CASE LET r == ShrinkMemory([c EXCEPT ![1].locks = @ + 1],
                                  <<x>> \o Without(docs, gone), FALSE)
            IN  cache' = r.cache /\ docs' = r.docs
  <2> DEFINE n == Len(docs) + 1
             l == Append(docs, x)
             z == [c[1] EXCEPT !.locks = @ + 1]
             a == [c EXCEPT ![1].locks = @ + 1]
             w == Without(docs, gone)
             v == <<x>> \o w
             r == ShrinkMemory(a, v, FALSE)
             P == J \cup {n}
  <2>1. cache' = r.cache /\ docs' = r.docs
    BY <1>22
  <2>2. c[1] \in Wide /\ c[1] \in Entry /\ c \in Seq(Wide)
    BY <1>13, <1>16, <1>18, EntryFacts, ElementOfSeq DEF Balanced
  <2>3. z \in Wide /\ Same(c[1], z) /\ z.locks = c[1].locks + 1
    BY <2>2 DEF Wide, Same
  <2>4. x \in Doc /\ x.at = c[1].at /\ x.uri = u
    BY <2>2 DEF Doc, Entry
  <2>5. a = [c EXCEPT ![1] = z]
    OBVIOUS
  <2> HIDE DEF x, z, a
  <2>6. l[n] = x /\ \A k \in 1 .. Len(docs) : l[k] = docs[k]
    BY <1>2, <2>4
  <2>7. n \notin J /\ \A k \in J : l[k] = docs[k]
    BY <1>2, <2>6 DEF J, D
  <2> HIDE DEF l, n
  <2>8. Balanced(c, l, J, b)
    BY <1>13, <2>7, SameDocuments
  <2>9. Takes(c, 1, z, l, J, n)
    BY <1>16, <2>3, <2>4, <2>6, <2>7 DEF Takes
  <2>10. P = J \cup {n}
    OBVIOUS
  <2> HIDE DEF P
  <2>11. Replaces(c, 1, z, l, P, b)
    BY <1>17, <2>8, <2>9, <2>10, TakenFacts
  <2>12. Balanced(a, l, P, b) /\ Alike(c, a)
    BY <2>5, <2>11, ReplacedBalanced
  <2>13. Alike(a, c)
    BY <2>5, <2>11, ReplacedBalanced
  <2>14. w = Without(docs, gone) /\ v = <<x>> \o w
    OBVIOUS
  <2> HIDE DEF w, v
  <2>15. w \in Seq(Doc) /\ \E f : Renumbers(w, docs, (1 .. Len(docs)) \ gone, f)
    BY <1>2, <2>14, WithoutRenumbers
  <2>16. PICK f : Renumbers(w, docs, J, f)
    BY <2>15 DEF J, D
  <2>17. Renumbers(w, l, J, f)
    BY <2>7, <2>16 DEF Renumbers
  <2>18. v \in Seq(Doc) /\ \E g : Renumbers(v, l, P, g)
    BY <2>4, <2>6, <2>7, <2>10, <2>14, <2>15, <2>17, FrontRenumbers
  <2>19. PICK g : Renumbers(v, l, P, g)
    BY <2>18
  <2>20. Balanced(a, v, 1 .. Len(v), b)
    BY <2>12, <2>19, RenumberedBalanced
  <2>21. MemoryShrunk(a, r, b)
    BY <2>18, <2>20, ShrinkMemoryFacts
  <2> DEFINE q == r.cache
             O == 1 .. Len(r.docs)
  <2>22. r.docs \in Seq(Doc) /\ Balanced(q, r.docs, O, b) /\ Alike(a, q)
    BY <2>21 DEF MemoryShrunk
  <2>23. Traces(a, q)
    BY <2>21 DEF MemoryShrunk, Traces, Same
  <2> HIDE DEF r
  <2>24. IsFiniteSet(O)
    <3>1. Len(r.docs) \in Nat
      BY <2>22
    <3> QED BY <3>1, CountUpTo
  <2> HIDE DEF q, O
  <2>25. Alike(c, q)
    BY <2>12, <2>22, AlikeTwice
  <2>26. q \in Seq(Entry)
    BY <1>18, <2>22, <2>24, <2>25, Typed
  <2>27. Traces(c, q)
    BY <2>13, <2>23 DEF Traces, Alike, Same
  <2>28. Traces(cache, q)
    BY <1>20, <2>27 DEF Traces
  <2>29. Balanced(cache', docs', 1 .. Len(docs'), dialog.at')
    BY <1>1, <2>1, <2>22 DEF b, q, O
  <2>30. cache' \in Seq(Entry) /\ docs' \in Seq(Doc)
    BY <2>1, <2>22, <2>26 DEF q
  <2>31. ~broken' => ~broken /\ Traces(cache, cache')
    BY <1>1, <2>1, <2>28 DEF q
  <2> QED BY <1>19, <2>29, <2>30, <2>31, After
<1> QED BY <1>1, <1>21, <1>22

-----------------------------------------------------------------------------
(* The theorems.                                                           *)

LEMMA InitIInv ==
    ASSUME CacheAssumption, Init
    PROVE  IInv
<1>1. cache = << >> /\ docs = << >> /\ conn = [s \in Conns |-> Idle]
      /\ dialog = NoDialog /\ broken = FALSE
  BY DEF Init
<1>2. cache \in Seq(Entry) /\ docs \in Seq(Doc) /\ broken \in BOOLEAN
  <2>1. \A S : << >> \in Seq(S)
    BY EmptySeq
  <2> QED BY <1>1, <2>1
<1>3. DialogOK /\ dialog.at = Null
  BY <1>1 DEF DialogOK, NoDialog
<1>4. Idle \in Connection /\ Idle.cached = Null /\ ~Idle.detached
  BY DEF Idle, Connection
<1>5. \A s \in Conns : conn[s] = Idle
  BY <1>1
<1>6. ConnOK
  <2> HIDE DEF Idle
  <2>1. conn \in [Conns -> Connection]
    BY <1>1, <1>4
  <2> QED BY <1>4, <1>5, <2>1 DEF ConnOK
<1>7. \A s \in Conns : Loads(cache, conn[s])
  BY <1>4, <1>5 DEF Loads
<1>8. Balanced(cache, docs, 1 .. Len(docs), dialog.at)
  <2>1. Len(cache) = 0 /\ Len(docs) = 0 /\ cache \in Seq(Wide) /\ 1 .. 0 = {}
    BY <1>1
  <2>2. Listed(cache) = {}
    BY <2>1 DEF Listed
  <2> QED BY <1>3, <2>1, <2>2 DEF Balanced, Good, OneEach
<1> QED BY <1>2, <1>3, <1>6, <1>7, <1>8 DEF IInv, Types

LEMMA NextIInv ==
    ASSUME CacheAssumption, IInv, [Next]_vars
    PROVE  IInv'
<1>1. CASE UNCHANGED vars
  <2>1. /\ cache' = cache /\ docs' = docs /\ conn' = conn
        /\ dialog' = dialog /\ broken' = broken
    BY <1>1 DEF vars
  <2>2. Types'
    BY <2>1 DEF IInv, Types, ConnOK, DialogOK, Busy
  <2> QED BY <2>1, <2>2 DEF IInv
<1>2. ASSUME Next PROVE IInv'
  <2>1. ~broken
    BY <1>2 DEF Next
  <2>2. ASSUME NEW u \in Uris, Reload(u) \/ Load(u) PROVE IInv'
    BY <2>1, <2>2, ReloadInv, LoadInv
  <2>10. ASSUME NEW u \in Uris, NEW o \in Options, Render(u, o) PROVE IInv'
    BY <2>1, <2>10, RenderInv
  <2>3. ASSUME NEW s \in Conns, NEW modified \in BOOLEAN, Header(s, modified) PROVE IInv'
    BY <2>1, <2>3, HeaderInv
  <2>4. ASSUME NEW s \in Conns, NEW size \in Sizes,
               Data(s, size) \/ Finish(s, size) \/ Strip(s, size)
        PROVE  IInv'
    BY <2>1, <2>4, DataInv, FinishInv, StripInv
  <2>5. ASSUME NEW s \in Conns, Detach(s) \/ Abort(s) PROVE IInv'
    BY <2>1, <2>5, DetachInv, AbortInv
  <2>6. ASSUME NEW i \in 1 .. Len(docs), ReleaseDocument(i) PROVE IInv'
    BY <2>1, <2>6, ReleaseDocumentInv
  <2>7. ASSUME NEW i \in 1 .. Len(cache), OpenDialog(i) \/ DeleteItem(i) PROVE IInv'
    BY <2>1, <2>7, OpenDialogInv, DeleteItemInv
  <2>8. AnswerNo \/ AnswerYes => IInv'
    BY <2>1, AnswerNoInv, AnswerYesInv
  <2>9. ASSUME NEW whole \in BOOLEAN, Flush(whole) PROVE IInv'
    BY <2>1, <2>9, FlushInv
  <2> QED BY <1>2, <2>2, <2>3, <2>4, <2>5, <2>6, <2>7, <2>8, <2>9, <2>10 DEF Next
<1> QED BY <1>1, <1>2

LEMMA CacheInvariant == Spec => []IInv
<1>1. Init => IInv
  BY CacheAssumption, InitIInv
<1>2. IInv /\ [Next]_vars => IInv'
  BY CacheAssumption, NextIInv
<1> QED BY <1>1, <1>2, PTL DEF Spec

LEMMA OneValidFollows ==
    ASSUME CacheAssumption, IInv
    PROVE  OneValid
<1>1. Good(cache) /\ Balanced(cache, docs, 1 .. Len(docs), dialog.at)
  BY Before
<1>2. /\ cache \in Seq(Entry) /\ docs \in Seq(Doc) /\ broken \in BOOLEAN
      /\ ConnOK /\ DialogOK
  BY DEF IInv, Types
<1>3. Cardinality(Allocated(cache)) = Len(cache)
  BY <1>1, AllocatedFacts
<1>4. \A s \in Conns : Busy(s) => conn[s].uri \in Uris
  BY <1>2 DEF ConnOK, Connection, Busy
<1>5. ASSUME dialog # NoDialog PROVE dialog.at \in Allocated(cache)
  <2>1. PICK e \in Listed(cache) : e.at = dialog.at
    BY <1>1, <1>2, <1>5 DEF DialogOK, Balanced
  <2> QED BY <2>1 DEF Listed, Allocated
<1>6. TypeOK
  BY <1>2, <1>3, <1>4, <1>5 DEF TypeOK
<1>7. ASSUME NEW i \in 1 .. Len(cache), NEW j \in 1 .. Len(cache),
             cache[i].valid, cache[j].valid, cache[i].uri = cache[j].uri
      PROVE  i = j
  <2>1. cache[i] \in Listed(cache) /\ cache[j] \in Listed(cache)
    BY DEF Listed
  <2>2. cache[i] = cache[j]
    BY <1>1, <1>7, <2>1 DEF Balanced, OneEach
  <2> QED BY <1>1, <2>2 DEF Good
<1> QED BY <1>6, <1>7 DEF OneValid

\* The cache never holds two valid entries for a URI, however loads, reloads,
\* detached connections, the collection and the cache manager interleave:
\* get_cache_entry() looks before it makes one, and what detach_connection()
\* has stripped is not valid any more.  The types of the variables are part
\* of it: no lock count is ever negative.
THEOREM NeverTwoEditions == Spec => []OneValid
<1>1. IInv => OneValid
  BY CacheAssumption, OneValidFollows
<1> QED BY <1>1, CacheInvariant, PTL

LEMMA LocksExactFollows ==
    ASSUME IInv
    PROVE  LocksExact
<1>1. Good(cache) /\ Balanced(cache, docs, 1 .. Len(docs), dialog.at)
  BY Before
<1>2. ASSUME NEW i \in 1 .. Len(cache)
      PROVE  cache[i].locks =
                Cardinality({k \in 1 .. Len(docs) : docs[k].at = cache[i].at})
                  + (IF dialog.at = cache[i].at THEN 1 ELSE 0)
  <2>1. cache[i] \in Listed(cache)
    BY DEF Listed
  <2> QED BY <1>1, <2>1 DEF Balanced, Holders, Asking
<1>3. ASSUME NEW k \in 1 .. Len(docs)
      PROVE  /\ Known(cache, docs[k].uri)
             /\ FindInCache(cache, docs[k].uri)[1].at = docs[k].at
  <2> DEFINE u == docs[k].uri
             c == FindInCache(cache, u)
  <2>1. PICK e \in Listed(cache) : e.valid /\ e.uri = u /\ e.at = docs[k].at
    BY <1>1 DEF Balanced, Finds
  <2>2. Known(cache, u)
    BY <1>1, <2>1, KnownFacts
  <2>3. c[1] \in Listed(cache) /\ c[1].valid /\ c[1].uri = u
    BY <1>1, <2>2, FoundFacts
  <2>4. c[1] = e
    BY <1>1, <2>1, <2>3 DEF Balanced, OneEach
  <2> QED BY <2>1, <2>2, <2>4
<1> QED BY <1>2, <1>3 DEF LocksExact

\* At every moment the lock count of an entry is exactly the documents
\* formatted from it and the dialog about it, and every document still finds
\* its entry by its URI.  Releasing, shrinking the format cache, showing an
\* old document again and answering a dialog all give back what they took.
THEOREM LocksAreExact == Spec => []LocksExact
<1>1. IInv => LocksExact
  BY LocksExactFollows
<1> QED BY <1>1, CacheInvariant, PTL

LEMMA LoadingKeptFollows ==
    ASSUME IInv
    PROVE  LoadingKept
<1>1. Good(cache)
  BY Before
<1>2. ASSUME ~broken, NEW s \in Conns, conn[s].cached # Null
      PROVE  /\ conn[s].cached \in Allocated(cache)
             /\ cache[At(cache, conn[s].cached)].uri = conn[s].uri
  <2>1. PICK e \in Listed(cache) : e.at = conn[s].cached /\ e.uri = conn[s].uri
    BY <1>2 DEF IInv, Loads
  <2>2. cache[At(cache, conn[s].cached)] = e
    BY <1>1, <2>1, AtFacts
  <2>3. e.at \in Allocated(cache)
    BY <2>1 DEF Listed, Allocated
  <2> QED BY <2>1, <2>2, <2>3
<1> QED BY <1>2 DEF LoadingKept

\* As long as no assertion has failed, the entry that a connection loads into
\* exists and is for its URI: no collection, deletion or flushing takes it
\* away under the connection, and no later entry has its address.
THEOREM LoadingEntriesKept == Spec => []LoadingKept
<1>1. IInv => LoadingKept
  BY LoadingKeptFollows
<1> QED BY <1>1, CacheInvariant, PTL

-----------------------------------------------------------------------------
(* What is left of the unused entries.                                     *)

\* g is the sum after each entry.
SizeSteps(g, c, is) ==
    /\ g \in [0 .. Len(c) -> Nat] /\ g[0] = 0
    /\ \A n \in 1 .. Len(c) :
         g[n] = g[n - 1] + (IF n \in is THEN c[n].size ELSE 0)

\* Sizes are natural numbers.
LEMMA SizeType ==
    ASSUME NEW c \in Seq(Wide), NEW n \in 1 .. Len(c)
    PROVE  c[n].size \in Nat
<1>1. c[n] \in Wide
  BY ElementOfSeq
<1> QED BY <1>1 DEF Wide

\* SizeOf is the last of these sums.
LEMMA SizeOfSteps ==
    ASSUME NEW c \in Seq(Wide), NEW is
    PROVE  \E g : SizeSteps(g, c, is) /\ SizeOf(c, is) = g[Len(c)]
<1> DEFINE N == Len(c)
           V == Nat
           F == [n \in 1 .. N |-> [v \in V |-> v + (IF n \in is THEN c[n].size ELSE 0)]]
<1>0. N \in Nat /\ 0 \in V
  OBVIOUS
<1>1. ASSUME NEW n \in 1 .. N, NEW v \in V
      PROVE  (v + (IF n \in is THEN c[n].size ELSE 0)) \in V
  BY SizeType
<1>2. StepsOn(F, N, V)
  <2> HIDE DEF V
  <2> QED BY <1>1 DEF StepsOn
<1>3. \A n \in 1 .. N : \A v \in V :
         F[n][v] = v + (IF n \in is THEN c[n].size ELSE 0)
  <2> HIDE DEF V
  <2> QED OBVIOUS
<1> HIDE DEF F, N, V
<1>4. PICK g \in [0 .. N -> V] : g[0] = 0 /\ \A n \in 1 .. N : g[n] = F[n][g[n - 1]]
  <2>1. PICK g : Follows(g, F, N, V, 0)
    BY <1>0, <1>2, StepByStep
  <2> QED BY <2>1 DEF Follows
<1>5. \A n \in 1 .. N : n - 1 \in 0 .. N /\ n \in 0 .. N /\ n # 0 /\ n \in Nat
  BY <1>0
<1>6. \A n \in 1 .. N :
         g[n] = g[n - 1] + (IF n \in is THEN c[n].size ELSE 0)
  <2>1. \A n \in 1 .. N : g[n - 1] \in V
    BY <1>4, <1>5
  <2> QED BY <1>3, <1>4, <2>1
<1> DEFINE body(n, f) == IF n = 0 THEN 0
                         ELSE f[n - 1] + (IF n \in is THEN c[n].size ELSE 0)
<1>7. \A n \in 0 .. N : g[n] = body(n, g)
  <2>1. \A n \in 0 .. N : n # 0 => n \in 1 .. N
    BY <1>0
  <2> QED BY <1>4, <1>6, <2>1
<1>8. g = [n \in 0 .. N |-> body(n, g)]
  <2> HIDE DEF body
  <2> QED BY <1>7
<1> DEFINE h == CHOOSE f : f = [n \in 0 .. N |-> body(n, f)]
<1>9. h = [n \in 0 .. N |-> body(n, h)]
  <2> HIDE DEF body
  <2> QED BY <1>8, Zenon
<1>10. SizeOf(c, is) = h[Len(c)]
  BY Zenon DEF SizeOf, N
<1> HIDE DEF h
<1>11. \A n \in 0 .. N : h[n] = body(n, h)
  <2> HIDE DEF body
  <2> QED BY <1>9
<1>12. h[0] = 0
  <2>1. 0 \in 0 .. N
    BY <1>0
  <2> QED BY <1>11, <2>1
<1>13. \A n \in 1 .. N :
          h[n] = h[n - 1] + (IF n \in is THEN c[n].size ELSE 0)
  BY <1>5, <1>11
<1> DEFINE T == {n \in 0 .. N : h[n] \in V}
<1>14. 0 \in T
  BY <1>0, <1>12
<1>15. ASSUME NEW n \in 1 .. N, n - 1 \in T PROVE n \in T
  BY <1>1, <1>5, <1>13, <1>15
<1> HIDE DEF T
<1>16. \A n \in 0 .. N : n \in T
  BY <1>0, <1>14, <1>15, CountInduction
<1>17. h \in [0 .. N -> V]
  <2>1. \A n \in 0 .. N : h[n] \in V
    BY <1>16 DEF T
  <2>2. DOMAIN h = 0 .. N /\ h = [n \in 0 .. N |-> h[n]]
    <3> HIDE DEF body
    <3> QED BY <1>9
  <2> QED BY <2>1, <2>2
<1> QED BY <1>10, <1>12, <1>13, <1>17 DEF SizeSteps, N, V

\* No entries have no size.
LEMMA SizeOfNone ==
    ASSUME NEW c \in Seq(Wide)
    PROVE  SizeOf(c, {}) = 0
<1> DEFINE N == Len(c)
<1>1. PICK g : SizeSteps(g, c, {}) /\ SizeOf(c, {}) = g[N]
  BY SizeOfSteps
<1> DEFINE T == {n \in 0 .. N : g[n] = 0}
<1>2. N \in Nat /\ g[0] = 0 /\ \A n \in 1 .. N : g[n] = g[n - 1] + 0
  BY <1>1 DEF SizeSteps
<1>3. 0 \in T
  BY <1>2
<1>4. ASSUME NEW n \in 1 .. N, n - 1 \in T PROVE n \in T
  BY <1>2, <1>4
<1> HIDE DEF T
<1>5. \A n \in 0 .. N : n \in T
  BY <1>2, <1>3, <1>4, CountInduction
<1> QED BY <1>1, <1>2, <1>5 DEF T

\* More entries are not smaller.
LEMMA SizeOfLess ==
    ASSUME NEW c \in Seq(Wide), NEW A, NEW B, A \subseteq B
    PROVE  SizeOf(c, A) \in Nat /\ SizeOf(c, B) \in Nat /\ SizeOf(c, A) <= SizeOf(c, B)
<1> DEFINE N == Len(c)
<1>1. PICK g : SizeSteps(g, c, A) /\ SizeOf(c, A) = g[N]
  BY SizeOfSteps
<1>2. PICK h : SizeSteps(h, c, B) /\ SizeOf(c, B) = h[N]
  BY SizeOfSteps
<1> DEFINE T == {n \in 0 .. N : g[n] <= h[n]}
<1>3. N \in Nat /\ \A n \in 0 .. N : g[n] \in Nat /\ h[n] \in Nat
  BY <1>1, <1>2 DEF SizeSteps
<1>4. 0 \in T
  BY <1>1, <1>2, <1>3 DEF SizeSteps
<1>5. ASSUME NEW n \in 1 .. N, n - 1 \in T PROVE n \in T
  <2>1. c[n].size \in Nat
    BY SizeType
  <2>2. /\ g[n] = g[n - 1] + (IF n \in A THEN c[n].size ELSE 0)
        /\ h[n] = h[n - 1] + (IF n \in B THEN c[n].size ELSE 0)
    BY <1>1, <1>2 DEF SizeSteps
  <2>3. g[n - 1] <= h[n - 1] /\ n - 1 \in 0 .. N /\ n \in 0 .. N
    BY <1>3, <1>5
  <2> QED BY <1>3, <2>1, <2>2, <2>3
<1> HIDE DEF T
<1>6. \A n \in 0 .. N : n \in T
  BY <1>3, <1>4, <1>5, CountInduction
<1>7. g[N] <= h[N]
  BY <1>3, <1>6 DEF T
<1> QED BY <1>1, <1>2, <1>3, <1>7

\* One more entry.
LEMMA SizeOfMore ==
    ASSUME NEW c \in Seq(Wide), NEW k \in 1 .. Len(c), NEW A, k \notin A,
           NEW B, B = A \cup {k}
    PROVE  SizeOf(c, B) = SizeOf(c, A) + c[k].size
<1> DEFINE N == Len(c)
           x == c[k].size
<1>1. PICK g : SizeSteps(g, c, A) /\ SizeOf(c, A) = g[N]
  BY SizeOfSteps
<1>2. PICK h : SizeSteps(h, c, B) /\ SizeOf(c, B) = h[N]
  BY SizeOfSteps
<1> DEFINE T == {n \in 0 .. N : h[n] = g[n] + (IF n < k THEN 0 ELSE x)}
<1>3. N \in Nat /\ x \in Nat /\ \A n \in 0 .. N : g[n] \in Nat /\ h[n] \in Nat
  <2>1. x \in Nat
    BY SizeType
  <2>2. g \in [0 .. N -> Nat] /\ h \in [0 .. N -> Nat] /\ N \in Nat
    BY <1>1, <1>2 DEF SizeSteps
  <2> HIDE DEF x
  <2> QED BY <2>1, <2>2
<1>4. 0 \in T
  BY <1>1, <1>2, <1>3 DEF SizeSteps
<1>5. ASSUME NEW n \in 1 .. N, n - 1 \in T PROVE n \in T
  <2>1. c[n].size \in Nat
    BY SizeType
  <2>2. /\ g[n] = g[n - 1] + (IF n \in A THEN c[n].size ELSE 0)
        /\ h[n] = h[n - 1] + (IF n \in B THEN c[n].size ELSE 0)
    BY <1>1, <1>2 DEF SizeSteps
  <2>3. /\ h[n - 1] = g[n - 1] + (IF n - 1 < k THEN 0 ELSE x)
        /\ n - 1 \in 0 .. N /\ n \in 0 .. N
    BY <1>3, <1>5
  <2>4. CASE n = k
    <3>1. g[n] = g[n - 1] /\ h[n] = h[n - 1] + x /\ h[n - 1] = g[n - 1]
      BY <1>3, <2>2, <2>3, <2>4
    <3> QED BY <1>3, <2>3, <2>4, <3>1
  <2>5. CASE n # k
    <3>1. (n \in A <=> n \in B) /\ (n - 1 < k <=> n < k)
      BY <2>5
    <3> HIDE DEF x
    <3> QED BY <1>3, <2>1, <2>2, <2>3, <3>1
  <2> QED BY <2>4, <2>5
<1> HIDE DEF T
<1>6. \A n \in 0 .. N : n \in T
  BY <1>3, <1>4, <1>5, CountInduction
<1>7. h[N] = g[N] + x
  BY <1>3, <1>6 DEF T
<1> QED BY <1>1, <1>2, <1>7

\* The first n numbers are in A if they are in B.
SameUpTo(n, A, B) == \A j \in 1 .. n : j \in A <=> j \in B

\* An entry more at the end.
Longer(w, c, e) == w = Append(c, e)

LEMMA SizeOfAppend ==
    ASSUME NEW c \in Seq(Wide), NEW e \in Wide, NEW w, Longer(w, c, e),
           NEW A, NEW B, SameUpTo(Len(c), A, B)
    PROVE  SizeOf(w, B) = SizeOf(c, A) + (IF Len(c) + 1 \in B THEN e.size ELSE 0)
<1> DEFINE N == Len(c)
           M == N + 1
<1>0. /\ w \in Seq(Wide) /\ Len(w) = M /\ N \in Nat
      /\ w[M] = e /\ \A n \in 1 .. N : w[n] = c[n]
  BY DEF Longer
<1>1. PICK g : SizeSteps(g, c, A) /\ SizeOf(c, A) = g[N]
  BY SizeOfSteps
<1>2. PICK h : SizeSteps(h, w, B) /\ SizeOf(w, B) = h[Len(w)]
  BY <1>0, SizeOfSteps
<1> DEFINE T == {n \in 0 .. N : h[n] = g[n]}
<1>3. /\ g[0] = 0 /\ h[0] = 0
      /\ \A n \in 1 .. N : g[n] = g[n - 1] + (IF n \in A THEN c[n].size ELSE 0)
      /\ \A n \in 1 .. M : h[n] = h[n - 1] + (IF n \in B THEN w[n].size ELSE 0)
  BY <1>0, <1>1, <1>2 DEF SizeSteps
<1>4. 0 \in T
  BY <1>0, <1>3
<1>5. ASSUME NEW n \in 1 .. N, n - 1 \in T PROVE n \in T
  <2>1. n \in 1 .. M /\ n \in 0 .. N /\ w[n] = c[n] /\ h[n - 1] = g[n - 1]
    BY <1>0, <1>5
  <2>2. n \in A <=> n \in B
    BY DEF SameUpTo
  <2> QED BY <1>3, <2>1, <2>2
<1> HIDE DEF T
<1>6. \A n \in 0 .. N : n \in T
  BY <1>0, <1>4, <1>5, CountInduction
<1>7. h[N] = g[N] /\ M - 1 = N /\ M \in 1 .. M
  BY <1>0, <1>6 DEF T
<1>8. h[M] = h[M - 1] + (IF M \in B THEN w[M].size ELSE 0)
  BY <1>3, <1>7
<1> QED BY <1>0, <1>1, <1>2, <1>7, <1>8

LEMMA UnusedAppend ==
    ASSUME NEW c \in Seq(Wide), NEW e \in Wide, NEW w, w = Append(c, e)
    PROVE  UnusedSize(w) = UnusedSize(c) + (IF Used(e) THEN 0 ELSE e.size)
<1> DEFINE A == Unused(c)
           B == Unused(w)
           M == Len(c) + 1
<1>1. Len(w) = M /\ Len(c) \in Nat /\ w[M] = e /\ \A n \in 1 .. Len(c) : w[n] = c[n]
  OBVIOUS
<1>2. SameUpTo(Len(c), A, B)
  BY <1>1 DEF Unused, SameUpTo
<1>3. M \in B <=> ~Used(e)
  BY <1>1 DEF Unused
<1> HIDE DEF A, B
<1>4. SizeOf(w, B) = SizeOf(c, A) + (IF Len(c) + 1 \in B THEN e.size ELSE 0)
  <2>1. Longer(w, c, e)
    BY DEF Longer
  <2> HIDE DEF M
  <2> QED BY <1>2, <2>1, SizeOfAppend
<1> QED BY <1>3, <1>4 DEF UnusedSize, A, B

\* What is unused in the list that is left.
LEMMA UnusedWithout ==
    ASSUME NEW c \in Seq(Wide), NEW is
    PROVE  UnusedSize(Without(c, is)) = SizeOf(c, Unused(c) \ is)
<1> DEFINE N == Len(c)
           kept(n) == {j \in Unused(c) : j <= n /\ j \notin is}
<1>1. PICK d : KeptSteps(d, Wide, c, is) /\ Without(c, is) = d[N]
  BY WithoutSteps
<1> DEFINE T == {n \in 0 .. N : UnusedSize(d[n]) = SizeOf(c, kept(n))}
<1>2. N \in Nat /\ \A n \in 0 .. N : d[n] \in Seq(Wide)
  BY <1>1 DEF KeptSteps
<1>3. 0 \in T
  <2>1. kept(0) = {} /\ d[0] = << >>
    BY <1>1 DEF KeptSteps, Unused
  <2>2. UnusedSize(<< >>) = 0
    <3> DEFINE l == << >>
    <3>1. l \in Seq(Wide) /\ Unused(l) = {}
      BY EmptySeq DEF Unused
    <3> HIDE DEF l
    <3> QED BY <3>1, SizeOfNone DEF UnusedSize, l
  <2>3. SizeOf(c, {}) = 0
    BY SizeOfNone
  <2> HIDE DEF kept
  <2>4. UnusedSize(d[0]) = SizeOf(c, kept(0))
    BY <2>1, <2>2, <2>3
  <2> QED BY <1>2, <2>4
<1>4. ASSUME NEW n \in 1 .. N, n - 1 \in T PROVE n \in T
  <2> DEFINE l == d[n - 1]
             A == kept(n - 1)
  <2>1. UnusedSize(l) = SizeOf(c, A) /\ n - 1 \in 0 .. N /\ n \in 0 .. N
    BY <1>2, <1>4
  <2>2. d[n] = IF n \in is THEN l ELSE Append(l, c[n])
    BY <1>1 DEF KeptSteps
  <2>3. n \notin A /\ (n \in is \/ Used(c[n]) => kept(n) = A)
    BY DEF Unused
  <2>4. n \notin is /\ ~Used(c[n]) => kept(n) = A \cup {n}
    BY DEF Unused
  <2>5. l \in Seq(Wide) /\ c[n] \in Wide
    BY <1>2, <2>1, ElementOfSeq
  <2> HIDE DEF kept, l, A
  <2>6. UnusedSize(d[n]) = SizeOf(c, kept(n))
    <3>1. CASE n \in is
      BY <2>1, <2>2, <2>3, <3>1
    <3>2. CASE n \notin is /\ Used(c[n])
      <4>1. d[n] = Append(l, c[n])
        BY <2>2, <3>2
      <4>2. UnusedSize(d[n]) = UnusedSize(l) + (IF Used(c[n]) THEN 0 ELSE c[n].size)
        BY <2>5, <4>1, UnusedAppend
      <4>3. SizeOf(c, A) \in Nat
        BY SizeOfLess
      <4> QED BY <2>1, <2>3, <3>2, <4>2, <4>3
    <3>3. CASE n \notin is /\ ~Used(c[n])
      <4>1. d[n] = Append(l, c[n])
        BY <2>2, <3>3
      <4>2. UnusedSize(d[n]) = UnusedSize(l) + (IF Used(c[n]) THEN 0 ELSE c[n].size)
        BY <2>5, <4>1, UnusedAppend
      <4>3. kept(n) = A \cup {n}
        BY <2>4, <3>3
      <4>4. SizeOf(c, kept(n)) = SizeOf(c, A) + c[n].size
        BY <2>3, <4>3, SizeOfMore
      <4> QED BY <2>1, <3>3, <4>2, <4>4
    <3> QED BY <3>1, <3>2, <3>3
  <2> QED BY <2>1, <2>6
<1> HIDE DEF T
<1>5. \A n \in 0 .. N : n \in T
  BY <1>2, <1>3, <1>4, CountInduction
<1>6. UnusedSize(d[N]) = SizeOf(c, kept(N))
  BY <1>2, <1>5 DEF T
<1>7. kept(N) = Unused(c) \ is
  BY <1>2 DEF Unused
<1> HIDE DEF kept
<1> QED BY <1>1, <1>6, <1>7

\* GC_PERCENT is at most 100.
LEMMA GcFacts ==
    ASSUME CacheAssumption
    PROVE  GcSize \in Nat /\ CacheSize \in Nat /\ GcSize <= CacheSize
<1> DEFINE a == CacheSize * GcPercent
<1>1. CacheSize \in Nat /\ GcPercent \in Nat /\ GcPercent <= 100
  BY DEF CacheAssumption
<1>2. a \in Int /\ a <= CacheSize * 100
  <2>1. GcPercent \in Int /\ 100 \in Int
    BY <1>1
  <2> QED BY <1>1, <2>1, TimesMonotone
<1>3. a \in Nat
  BY <1>1
<1> HIDE DEF a
<1>4. 100 \in Nat \ {0}
  OBVIOUS
<1>5. a \div 100 \in Nat /\ a % 100 \in 0 .. 100 - 1 /\ a = 100 * (a \div 100) + (a % 100)
  BY <1>3, <1>4, ModParts
<1>6. a \div 100 <= CacheSize
  BY <1>1, <1>2, <1>3, <1>5
<1> QED BY <1>1, <1>5, <1>6 DEF GcSize, a

\* The unused entries before the number m.
Young(c, m) == {j \in Unused(c) : j < m}

\* Unless they all fit, the unused entries are looked at from the newest on
\* until they would not.
LEMMA OldestFacts ==
    ASSUME CacheAssumption, NEW c \in Seq(Wide), ~SmallEnough(c), NEW m, m = Oldest(c)
    PROVE  m \in 1 .. Len(c) /\ SizeOf(c, Young(c, m)) <= GcSize
<1> DEFINE N == Len(c)
           I == {i \in 1 .. N : Left(c, i) <= GcSize}
<1>1. N \in Nat /\ GcSize \in Nat /\ CacheSize \in Nat
  BY GcFacts
<1>2. N # 0
  <2> SUFFICES ASSUME N = 0 PROVE FALSE
    OBVIOUS
  <2>1. Unused(c) = {}
    BY <1>1 DEF Unused
  <2>2. UnusedSize(c) = 0
    BY <2>1, SizeOfNone DEF UnusedSize
  <2> QED BY <1>1, <2>2 DEF SmallEnough
<1>3. 1 \in I
  <2>1. {j \in Unused(c) : j < 1} = {}
    BY <1>1 DEF Unused
  <2>2. Left(c, 1) = 0
    BY <2>1, SizeOfNone DEF Left
  <2> QED BY <1>1, <1>2, <2>2
<1>4. I \in SUBSET (0 .. N) /\ I # {} /\ m = Max(I)
  BY <1>1, <1>3 DEF Oldest
<1>5. I \in SUBSET (1 .. N) /\ \A i \in I : Left(c, i) <= GcSize
  OBVIOUS
<1> HIDE DEF I
<1>6. m \in I
  BY <1>1, <1>4, MaxFacts
<1> QED BY <1>5, <1>6 DEF Left, Young

\* What pass #3 knows: the size it has come to and whom it has unmarked.
Progress(c) == [size : Nat, back : SUBSET (1 .. Len(c))]

FirstProgress(c, m) == [size |-> Left(c, m), back |-> {}]

\* What it does to the entry with the number n.
Pass(c, m, n, v) ==
    IF n < m THEN FirstProgress(c, m)
    ELSE IF v.size + c[n].size > GcSize THEN v
    ELSE [size |-> v.size + c[n].size, back |-> v.back \cup {n}]

LEMMA PassType ==
    ASSUME NEW c \in Seq(Wide), NEW m, NEW n \in 1 .. Len(c), NEW v \in Progress(c)
    PROVE  FirstProgress(c, m) \in Progress(c) /\ Pass(c, m, n, v) \in Progress(c)
<1>1. Left(c, m) \in Nat
  BY SizeOfLess DEF Left
<1>2. FirstProgress(c, m) \in Progress(c)
  BY <1>1 DEF FirstProgress, Progress
<1>3. c[n].size \in Nat
  BY SizeType
<1>4. v.size + c[n].size \in Nat /\ v.back \cup {n} \in SUBSET (1 .. Len(c))
  BY <1>3 DEF Progress
<1>5. [size |-> v.size + c[n].size, back |-> v.back \cup {n}] \in Progress(c)
  BY <1>4 DEF Progress
<1> QED BY <1>2, <1>5 DEF Pass

\* g is what it knows after each entry.
PassSteps(g, c, m) ==
    /\ g \in [0 .. Len(c) -> Progress(c)] /\ g[0] = FirstProgress(c, m)
    /\ \A n \in 1 .. Len(c) : g[n] = Pass(c, m, n, g[n - 1])

\* Spared is what it has unmarked in the end.
LEMMA SparedSteps ==
    ASSUME NEW c \in Seq(Wide), NEW m \in Nat, m >= 1, m = Oldest(c)
    PROVE  \E g : PassSteps(g, c, m) /\ Spared(c) = g[Len(c)].back
<1> DEFINE N == Len(c)
           V == Progress(c)
           F == [n \in 1 .. N |-> [v \in V |-> Pass(c, m, n, v)]]
<1>0. N \in Nat /\ FirstProgress(c, m) \in V
  BY SizeOfLess DEF Left, FirstProgress, Progress
<1>1. ASSUME NEW n \in 1 .. N, NEW v \in V
      PROVE  Pass(c, m, n, v) \in V
  BY PassType
<1>2. StepsOn(F, N, V)
  <2> HIDE DEF V
  <2> QED BY <1>1 DEF StepsOn
<1>3. \A n \in 1 .. N : \A v \in V :
         F[n][v] = Pass(c, m, n, v)
  <2> HIDE DEF V
  <2> QED OBVIOUS
<1> HIDE DEF F, N, V
<1>4. PICK g \in [0 .. N -> V] :
         g[0] = FirstProgress(c, m) /\ \A n \in 1 .. N : g[n] = F[n][g[n - 1]]
  <2>1. PICK g : Follows(g, F, N, V, FirstProgress(c, m))
    BY <1>0, <1>2, StepByStep
  <2> QED BY <2>1 DEF Follows
<1>5. \A n \in 1 .. N : n - 1 \in 0 .. N /\ n \in 0 .. N /\ n # 0 /\ n \in Nat
  BY <1>0
<1>6. \A n \in 1 .. N :
         g[n] = Pass(c, m, n, g[n - 1])
  <2>1. \A n \in 1 .. N : g[n - 1] \in V
    BY <1>4, <1>5
  <2> QED BY <1>3, <1>4, <2>1
<1> DEFINE body(n, f) == IF n < m THEN [size |-> Left(c, m), back |-> {}]
               ELSE LET r == f[n - 1]
                        size == r.size + c[n].size
                    IN  IF size > GcSize THEN r
                        ELSE [size |-> size, back |-> r.back \cup {n}]
<1>7. \A n, f : body(n, f) = Pass(c, m, n, f[n - 1])
  BY Zenon DEF Pass, FirstProgress
<1>8. \A f : body(0, f) = FirstProgress(c, m)
  <2>1. \A f : Pass(c, m, 0, f[0 - 1]) = FirstProgress(c, m)
    BY DEF Pass
  <2> HIDE DEF body
  <2> QED BY <1>7, <2>1
<1>9. \A n \in 0 .. N : g[n] = body(n, g)
  <2>1. \A n \in 0 .. N : n # 0 => n \in 1 .. N
    BY <1>0
  <2> HIDE DEF body
  <2> QED BY <1>4, <1>6, <1>7, <1>8, <2>1
<1>10. g = [n \in 0 .. N |-> body(n, g)]
  <2> HIDE DEF body
  <2> QED BY <1>9
<1> DEFINE h == CHOOSE f : f = [n \in 0 .. N |-> body(n, f)]
<1>11. h = [n \in 0 .. N |-> body(n, h)]
  <2> HIDE DEF body
  <2> QED BY <1>10, Zenon
<1>12. Spared(c) = h[Len(c)].back
  BY Zenon DEF Spared, N
<1> HIDE DEF h
<1>13. \A n \in 0 .. N : h[n] = body(n, h)
  <2> HIDE DEF body
  <2> QED BY <1>11
<1>14. h[0] = FirstProgress(c, m)
  <2>1. 0 \in 0 .. N
    BY <1>0
  <2> HIDE DEF body
  <2> QED BY <1>13, <1>8, <2>1
<1>15. \A n \in 1 .. N :
          h[n] = Pass(c, m, n, h[n - 1])
  <2> HIDE DEF body
  <2> QED BY <1>5, <1>13, <1>7
<1> DEFINE T == {n \in 0 .. N : h[n] \in V}
<1>16. 0 \in T
  BY <1>0, <1>14
<1>17. ASSUME NEW n \in 1 .. N, n - 1 \in T PROVE n \in T
  BY <1>1, <1>5, <1>15, <1>17
<1> HIDE DEF T
<1>18. \A n \in 0 .. N : n \in T
  BY <1>0, <1>16, <1>17, CountInduction
<1>19. h \in [0 .. N -> V]
  <2>1. \A n \in 0 .. N : h[n] \in V
    BY <1>18 DEF T
  <2>2. DOMAIN h = 0 .. N /\ h = [n \in 0 .. N |-> h[n]]
    <3> HIDE DEF body
    <3> QED BY <1>11
  <2> QED BY <2>1, <2>2
<1> QED BY <1>12, <1>14, <1>15, <1>19 DEF PassSteps, N, V

\* What has been spared still fits in.
LEMMA SparedFits ==
    ASSUME CacheAssumption, NEW c \in Seq(Wide), ~SmallEnough(c), NEW m, m = Oldest(c)
    PROVE  SizeOf(c, Young(c, m) \cup Spared(c)) <= GcSize
<1> DEFINE N == Len(c)
           Y == Young(c, m)
<1>1. m \in 1 .. N /\ m \in Nat /\ m >= 1 /\ SizeOf(c, Y) <= GcSize
  <2>1. m \in 1 .. N /\ SizeOf(c, Y) <= GcSize
    BY OldestFacts
  <2> QED BY <2>1
<1>2. PICK g : PassSteps(g, c, m) /\ Spared(c) = g[N].back
  BY <1>1, SparedSteps
<1>3. Left(c, m) = SizeOf(c, Y)
  BY DEF Left, Young
<1>4. N \in Nat /\ GcSize \in Nat
  BY GcFacts
<1>5. \A j \in Y : j < m
  BY DEF Young
<1> HIDE DEF Y
<1> DEFINE Fits(x, n) ==
              /\ \A j \in x.back : m <= j /\ j <= n
              /\ SizeOf(c, Y \cup x.back) = x.size /\ x.size <= GcSize
           T == {n \in 0 .. N : Fits(g[n], n)}
           x0 == FirstProgress(c, m)
<1>6. \A n : Fits(x0, n)
  <2>1. x0.back = {} /\ x0.size = SizeOf(c, Y) /\ Y \cup {} = Y
    BY <1>3 DEF FirstProgress
  <2> HIDE DEF x0
  <2> QED BY <1>1, <2>1
<1>7. 0 \in T
  <2>1. g[0] = x0 /\ 0 \in 0 .. N
    BY <1>2, <1>4 DEF PassSteps
  <2> HIDE DEF Fits, x0
  <2> QED BY <1>6, <2>1
<1>8. ASSUME NEW n \in 1 .. N, n - 1 \in T PROVE n \in T
  <2> DEFINE p == g[n - 1]
             s == c[n].size
  <2>1. n \in 0 .. N /\ Fits(p, n - 1)
    BY <1>4, <1>8
  <2>2. g[n] = IF n < m THEN x0 ELSE IF p.size + s > GcSize THEN p
               ELSE [size |-> p.size + s, back |-> p.back \cup {n}]
    BY <1>2 DEF PassSteps, Pass
  <2>3. s \in Nat
    BY SizeType
  <2>4. p \in [size : Nat, back : SUBSET (1 .. Len(c))]
    <3>1. p \in Progress(c)
      BY <1>2, <1>4 DEF PassSteps
    <3> HIDE DEF p
    <3> QED BY <3>1 DEF Progress
  <2>5. p.size \in Nat /\ p.back \in SUBSET (1 .. N)
    BY <2>4
  <2> HIDE DEF p, s, x0
  <2>6. CASE n < m
    BY <1>6, <2>1, <2>2, <2>6
  <2>7. CASE ~(n < m) /\ p.size + s > GcSize
    <3>1. g[n] = p
      BY <2>2, <2>7
    <3>2. \A j \in p.back : m <= j /\ j <= n
      BY <1>1, <2>1, <2>5
    <3> QED BY <2>1, <3>1, <3>2
  <2>8. CASE ~(n < m) /\ ~(p.size + s > GcSize)
    <3> DEFINE q == [size |-> p.size + s, back |-> p.back \cup {n}]
               A == Y \cup p.back
    <3>1. g[n] = q /\ q.size = p.size + s /\ q.back = p.back \cup {n}
      BY <2>2, <2>8
    <3>2. n \notin A
      BY <1>1, <1>5, <2>1, <2>5, <2>8
    <3>3. Y \cup q.back = A \cup {n}
      BY <3>1
    <3>4. SizeOf(c, A) = p.size
      BY <2>1
    <3> DEFINE B == A \cup {n}
    <3>5. B = A \cup {n}
      OBVIOUS
    <3> HIDE DEF q, A, B
    <3>6. SizeOf(c, B) = SizeOf(c, A) + s
      BY <3>2, <3>5, SizeOfMore DEF s
    <3>7. \A j \in q.back : m <= j /\ j <= n
      BY <1>1, <2>1, <2>5, <2>8, <3>1
    <3>8. SizeOf(c, Y \cup q.back) = q.size
      BY <3>1, <3>3, <3>4, <3>5, <3>6
    <3>9. q.size <= GcSize
      <4>1. p.size + s \in Nat /\ p.size + s <= GcSize
        BY <1>4, <2>3, <2>5, <2>8
      <4> QED BY <3>1, <4>1
    <3> QED BY <2>1, <3>1, <3>7, <3>8, <3>9
  <2> QED BY <2>6, <2>7, <2>8
<1> HIDE DEF T
<1>9. \A n \in 0 .. N : n \in T
  BY <1>4, <1>7, <1>8, CountInduction
<1>10. Fits(g[N], N)
  <2>1. N \in T
    BY <1>4, <1>9
  <2> HIDE DEF Fits
  <2> QED BY <2>1 DEF T
<1> QED BY <1>2, <1>4, <1>10 DEF Y

\* So that is the most that the collection leaves.
LEMMA CollectionSize ==
    ASSUME CacheAssumption, NEW c \in Seq(Wide), ~SmallEnough(c),
           NEW r, r = GarbageCollection(c, FALSE)
    PROVE  UnusedSize(r) <= GcSize
<1> DEFINE m == Oldest(c)
           M == Marked(c, FALSE)
           A == Unused(c) \ M
           B == Young(c, m) \cup Spared(c)
<1>1. r = Without(c, M)
  BY DEF GarbageCollection
<1>2. m \in 1 .. Len(c)
  BY OldestFacts
<1>3. SizeOf(c, B) <= GcSize
  BY SparedFits
<1>4. M = (Unused(c) \cap (m .. Len(c))) \ Spared(c)
  BY DEF Marked
<1> HIDE DEF m, M
<1>5. A \subseteq B
  BY <1>2, <1>4 DEF Unused, Young
<1>6. UnusedSize(r) = SizeOf(c, A)
  BY <1>1, UnusedWithout
<1> HIDE DEF A, B
<1>7. SizeOf(c, A) \in Nat /\ SizeOf(c, B) \in Nat /\ SizeOf(c, A) <= SizeOf(c, B)
  BY <1>5, SizeOfLess
<1>8. GcSize \in Nat
  BY GcFacts
<1>9. \A p, q, t \in Nat : p <= q /\ q <= t => p <= t
  OBVIOUS
<1>10. SizeOf(c, A) <= GcSize
  BY <1>3, <1>7, <1>8, <1>9
<1> QED BY <1>6, <1>10

LEMMA CollectionFitsFollows ==
    ASSUME CacheAssumption, IInv
    PROVE  CollectionFits
<1> SUFFICES ASSUME NEW sizes \in [1 .. Len(cache) -> 0 .. CacheSize]
             PROVE  LET before == [i \in 1 .. Len(cache) |->
                                      [cache[i] EXCEPT !.size = sizes[i]]]
                        after == GarbageCollection(before, FALSE)
                    IN  /\ UnusedSize(after)
                             <= IF after = before THEN CacheSize ELSE GcSize
                        /\ \A i \in 1 .. Len(cache) :
                              Used(cache[i]) => cache[i].at \in Allocated(after)
  BY DEF CollectionFits
<1> DEFINE N == Len(cache)
           o(i) == [cache[i] EXCEPT !.size = sizes[i]]
           before == [i \in 1 .. N |-> o(i)]
           after == GarbageCollection(before, FALSE)
<1>1. Good(cache) /\ N \in Nat
  BY Before, EntryFacts
<1>2. CacheSize \in Nat /\ GcSize \in Nat /\ GcSize <= CacheSize
  BY GcFacts
<1>3. \A i \in 1 .. N :
         o(i) \in Wide /\ o(i).at = cache[i].at /\ o(i).locks = cache[i].locks
  <2>1. ASSUME NEW e \in Wide, NEW n \in Nat
        PROVE  /\ [e EXCEPT !.size = n] \in Wide
               /\ [e EXCEPT !.size = n].at = e.at /\ [e EXCEPT !.size = n].locks = e.locks
    BY DEF Wide
  <2>2. \A i \in 1 .. N : cache[i] \in Wide /\ sizes[i] \in Nat
    BY <1>1, <1>2, EntryFacts
  <2> QED BY <2>1, <2>2
<1> HIDE DEF o
<1>4. before \in Seq(Wide) /\ Len(before) = N /\ \A i \in 1 .. N : before[i] = o(i)
  BY <1>1, <1>3, IsASeq
<1> HIDE DEF before
<1>5. Good(before)
  BY <1>1, <1>3, <1>4 DEF Good
<1>6. UnusedSize(after) <= IF after = before THEN CacheSize ELSE GcSize
  <2>1. CASE SmallEnough(before)
    <3>1. after = before
      BY <2>1 DEF GarbageCollection
    <3> QED BY <2>1, <3>1 DEF SmallEnough
  <2>2. CASE ~SmallEnough(before)
    <3>1. UnusedSize(after) <= GcSize
      BY <1>4, <2>2, CollectionSize
    <3>2. UnusedSize(after) \in Nat
      <4>1. Good(after)
        BY <1>5, CollectedFacts
      <4> QED BY <4>1, SizeOfLess DEF UnusedSize, Good
    <3> HIDE DEF after
    <3> QED BY <1>2, <3>1, <3>2
  <2> QED BY <2>1, <2>2
<1>7. ASSUME NEW i \in 1 .. N, Used(cache[i]) PROVE cache[i].at \in Allocated(after)
  <2>1. before[i] \in Listed(before) /\ before[i].at = cache[i].at /\ Used(before[i])
    BY <1>3, <1>4, <1>7 DEF Listed, Used
  <2>2. \A e \in Listed(before) : Used(e) => e \in Listed(after)
    BY <1>5, CollectedFacts
  <2>3. before[i] \in Listed(after)
    BY <2>1, <2>2
  <2> QED BY <2>1, <2>3 DEF Listed, Allocated
<1> QED BY <1>6, <1>7 DEF before, o

\* Whatever the sizes of the entries and whoever uses them, the three passes of
\* garbage_collection() bring the unused ones down to GC_PERCENT of the cache
\* once they do not fit in, and never free one that is used.
THEOREM CollectionsFit == Spec => []CollectionFits
<1>1. IInv => CollectionFits
  BY CacheAssumption, CollectionFitsFollows
<1> QED BY <1>1, CacheInvariant, PTL

=============================================================================
