-------------------------- MODULE FragmentsProofs ---------------------------
(***************************************************************************)
(* What holds of Fragments for every length of a document and any number   *)
(* of its editions: the list of fragments stays well formed, and it        *)
(* implements Document.                                                    *)
(***************************************************************************)
EXTENDS MCFragments, ListLemmas

\* Sorted, and no two overlap.
Disjoint(fs) ==
    \A i, j \in 1 .. Len(fs) : i < j => End(fs[i]) <= fs[j].offset

\* The same but for what the fragment k covers of those behind it.
DisjointBut(fs, k) ==
    \A i, j \in 1 .. Len(fs) : i < j /\ i # k => End(fs[i]) <= fs[j].offset

\* Every fragment has memory for its data.
Roomy(fs) == \A i \in 1 .. Len(fs) : Len(fs[i].data) <= fs[i].real_length

\* No fragment goes beyond n.
Within(fs, n) == \A i \in 1 .. Len(fs) : End(fs[i]) <= n

\* The byte at offset x is in fs[k].
Has(fs, k, x) == x \in fs[k].offset .. End(fs[k]) - 1

\* That byte.
Byte(fs, k, x) == fs[k].data[x - fs[k].offset + 1]

-----------------------------------------------------------------------------
(* Fragments and the bytes in them.                                        *)

\* Where a fragment begins and ends.
LEMMA FragmentFacts ==
    ASSUME NEW f \in Fragment
    PROVE  /\ f.offset \in Nat /\ f.offset \in 0 .. MaxEnd
           /\ f.real_length \in Nat /\ f.data \in Seq(Versions)
           /\ Len(f.data) \in Nat /\ End(f) \in Nat
           /\ f.offset <= End(f) /\ Len(f.data) = End(f) - f.offset
<1>1. f.offset \in 0 .. MaxEnd /\ f.real_length \in Nat /\ f.data \in Seq(Versions)
  BY DEF Fragment
<1>2. Len(f.data) \in Nat /\ f.offset \in Nat
  BY <1>1, LenProperties
<1> QED BY <1>1, <1>2 DEF End

\* The same for the fragments of a list.
LEMMA ListFacts ==
    ASSUME NEW fs \in Seq(Fragment)
    PROVE  /\ Len(fs) \in Nat
           /\ \A i \in 1 .. Len(fs) :
                /\ fs[i] \in Fragment /\ fs[i].offset \in Nat /\ End(fs[i]) \in Nat
                /\ fs[i].data \in Seq(Versions) /\ Len(fs[i].data) \in Nat
                /\ fs[i].offset <= End(fs[i])
                /\ Len(fs[i].data) = End(fs[i]) - fs[i].offset
<1>1. \A i \in 1 .. Len(fs) : fs[i] \in Fragment
  BY ElementOfSeq
<1> QED BY <1>1, FragmentFacts

\* The index of a byte in the data of its fragment.
LEMMA HasIndex ==
    ASSUME NEW fs \in Seq(Fragment), NEW k \in 1 .. Len(fs), NEW x
    PROVE  Has(fs, k, x) =>
             /\ x \in Nat /\ x - fs[k].offset + 1 \in 1 .. Len(fs[k].data)
             /\ fs[k].offset <= x /\ x < End(fs[k])
BY ListFacts DEF Has

\* A byte is in one fragment only.
LEMMA HasOnce ==
    ASSUME NEW fs \in Seq(Fragment), Disjoint(fs), NEW x,
           NEW j \in 1 .. Len(fs), NEW k \in 1 .. Len(fs),
           Has(fs, j, x), Has(fs, k, x)
    PROVE  j = k
<1>1. /\ x \in Nat /\ fs[j].offset <= x /\ x < End(fs[j])
      /\ fs[k].offset <= x /\ x < End(fs[k])
  BY HasIndex
<1>2. /\ fs[j].offset \in Nat /\ End(fs[j]) \in Nat
      /\ fs[k].offset \in Nat /\ End(fs[k]) \in Nat
  BY ListFacts
<1>3. (j < k => End(fs[j]) <= fs[k].offset) /\ (k < j => End(fs[k]) <= fs[j].offset)
  BY DEF Disjoint
<1>4. j \in Int /\ k \in Int
  OBVIOUS
<1> QED BY <1>1, <1>2, <1>3, <1>4

\* BytesOf collects the bytes of all fragments.
LEMMA BytesFacts ==
    ASSUME NEW fs \in Seq(Fragment), Disjoint(fs), Within(fs, MaxEnd)
    PROVE  /\ DOMAIN BytesOf(fs) \subseteq 0 .. MaxEnd
           /\ \A x : x \in DOMAIN BytesOf(fs) <=> \E k \in 1 .. Len(fs) : Has(fs, k, x)
           /\ \A k \in 1 .. Len(fs) : \A x :
                Has(fs, k, x) => BytesOf(fs)[x] = Byte(fs, k, x)
<1> DEFINE at(i) == {k \in 1 .. Len(fs) : i \in fs[k].offset .. End(fs[k]) - 1}
           known == {i \in 0 .. MaxEnd : at(i) # {}}
           val(i) == fs[Min(at(i))].data[i - fs[Min(at(i))].offset + 1]
<1>1. BytesOf(fs) = [i \in known |-> val(i)]
  BY DEF BytesOf
<1>2. \A i : at(i) = {k \in 1 .. Len(fs) : Has(fs, k, i)}
  BY DEF Has
<1>3. ASSUME NEW x, NEW k \in 1 .. Len(fs), Has(fs, k, x) PROVE x \in 0 .. MaxEnd
  <2>1. x \in Nat /\ x < End(fs[k]) /\ End(fs[k]) \in Nat
    BY <1>3, HasIndex, ListFacts
  <2>2. End(fs[k]) <= MaxEnd
    BY DEF Within
  <2> QED BY <2>1, <2>2, FragmentsAssumption
<1>4. ASSUME NEW x, NEW k \in 1 .. Len(fs), Has(fs, k, x)
      PROVE  x \in known /\ val(x) = Byte(fs, k, x)
  <2>1. k \in at(x) /\ x \in known
    BY <1>2, <1>3, <1>4
  <2>2. at(x) \in SUBSET Nat /\ at(x) # {}
    BY <2>1
  <2>3. Min(at(x)) \in at(x)
    <3> HIDE DEF at
    <3> QED BY <2>2, MinFacts
  <2>4. Min(at(x)) \in 1 .. Len(fs) /\ Has(fs, Min(at(x)), x)
    BY <1>2, <2>3
  <2>5. Min(at(x)) = k
    <3> DEFINE j == Min(at(x))
    <3>1. j \in 1 .. Len(fs) /\ Has(fs, j, x)
      BY <2>4
    <3> HIDE DEF j
    <3>2. j = k
      BY <1>4, <3>1, HasOnce
    <3> QED BY <3>2 DEF j
  <2> HIDE DEF at
  <2> QED BY <2>1, <2>5 DEF Byte
<1>5. \A x : x \in known => \E k \in 1 .. Len(fs) : Has(fs, k, x)
  BY <1>2
<1> HIDE DEF at, known, val
<1>6. DOMAIN BytesOf(fs) = known /\ \A x \in known : BytesOf(fs)[x] = val(x)
  BY <1>1
<1>7. known \subseteq 0 .. MaxEnd
  BY DEF known
<1> QED BY <1>4, <1>5, <1>6, <1>7

-----------------------------------------------------------------------------
(* Cutting fragments.                                                      *)

\* Fragments of fs, in their places, that may have been cut at the end.
Shrinks(gs, fs) ==
    /\ gs \in Seq(Fragment) /\ Len(gs) <= Len(fs)
    /\ \A i \in 1 .. Len(gs) :
        /\ gs[i].offset = fs[i].offset
        /\ Len(gs[i].data) <= Len(fs[i].data)
        /\ \A x \in 1 .. Len(gs[i].data) : gs[i].data[x] = fs[i].data[x]

\* Cutting keeps the order, and the bytes that are left.
LEMMA ShrinksFacts ==
    ASSUME NEW fs \in Seq(Fragment), NEW gs, Shrinks(gs, fs)
    PROVE  /\ Disjoint(fs) => Disjoint(gs)
           /\ \A n \in Int : Within(fs, n) => Within(gs, n)
           /\ \A k \in 1 .. Len(gs) : \A x : Has(gs, k, x) =>
                /\ k \in 1 .. Len(fs) /\ Has(fs, k, x)
                /\ Byte(gs, k, x) = Byte(fs, k, x)
<1>1. /\ gs \in Seq(Fragment) /\ Len(gs) \in Nat /\ Len(fs) \in Nat
      /\ \A i \in 1 .. Len(gs) : i \in 1 .. Len(fs)
  BY ListFacts DEF Shrinks
<1>2. ASSUME NEW i \in 1 .. Len(gs)
      PROVE  /\ gs[i].offset = fs[i].offset /\ End(gs[i]) <= End(fs[i])
             /\ fs[i].offset \in Nat /\ End(gs[i]) \in Nat /\ End(fs[i]) \in Nat
  <2>1. gs[i].offset = fs[i].offset /\ Len(gs[i].data) <= Len(fs[i].data)
    BY DEF Shrinks
  <2>2. /\ End(fs[i]) \in Nat /\ fs[i].offset \in Nat /\ Len(fs[i].data) \in Nat
        /\ Len(fs[i].data) = End(fs[i]) - fs[i].offset
    BY <1>1, ListFacts
  <2>3. /\ End(gs[i]) \in Nat /\ gs[i].offset \in Nat /\ Len(gs[i].data) \in Nat
        /\ Len(gs[i].data) = End(gs[i]) - gs[i].offset
    BY <1>1, ListFacts
  <2> QED BY <2>1, <2>2, <2>3
<1>3. ASSUME Disjoint(fs) PROVE Disjoint(gs)
  <2> SUFFICES ASSUME NEW i \in 1 .. Len(gs), NEW j \in 1 .. Len(gs), i < j
               PROVE  End(gs[i]) <= gs[j].offset
    BY DEF Disjoint
  <2>1. End(fs[i]) <= fs[j].offset
    BY <1>1, <1>3 DEF Disjoint
  <2> QED BY <1>2, <2>1
<1>4. ASSUME NEW n \in Int, Within(fs, n) PROVE Within(gs, n)
  <2> SUFFICES ASSUME NEW i \in 1 .. Len(gs) PROVE End(gs[i]) <= n
    BY DEF Within
  <2>1. End(fs[i]) <= n
    BY <1>1, <1>4 DEF Within
  <2> QED BY <1>2, <2>1
<1>5. ASSUME NEW k \in 1 .. Len(gs), NEW x, Has(gs, k, x)
      PROVE  k \in 1 .. Len(fs) /\ Has(fs, k, x) /\ Byte(gs, k, x) = Byte(fs, k, x)
  <2>1. /\ x \in Nat /\ x - gs[k].offset + 1 \in 1 .. Len(gs[k].data)
        /\ gs[k].offset <= x /\ x < End(gs[k])
    BY <1>1, <1>5, HasIndex
  <2>2. Has(fs, k, x)
    BY <1>2, <2>1 DEF Has
  <2>3. gs[k].data[x - gs[k].offset + 1] = fs[k].data[x - gs[k].offset + 1]
    BY <2>1 DEF Shrinks
  <2> QED BY <1>1, <1>2, <2>2, <2>3 DEF Byte
<1> QED BY <1>3, <1>4, <1>5

\* A fragment that is cut to n bytes.
LEMMA ShortenedFacts ==
    ASSUME NEW f \in Fragment, NEW n \in 0 .. Len(f.data)
    PROVE  /\ Shortened(f, n) \in Fragment
           /\ Shortened(f, n).offset = f.offset
           /\ Shortened(f, n).real_length = f.real_length
           /\ Len(Shortened(f, n).data) = n
           /\ \A x \in 1 .. n : Shortened(f, n).data[x] = f.data[x]
<1> DEFINE d == SubSeq(f.data, 1, n)
<1>1. f.data \in Seq(Versions)
  BY FragmentFacts
<1>2. d \in Seq(Versions) /\ Len(d) = n /\ \A x \in 1 .. n : d[x] = f.data[x]
  BY <1>1, PrefixFacts
<1>3. Shortened(f, n) = [f EXCEPT !.data = d]
  BY DEF Shortened
<1> HIDE DEF d
<1>4. /\ [f EXCEPT !.data = d] \in Fragment
      /\ [f EXCEPT !.data = d].offset = f.offset
      /\ [f EXCEPT !.data = d].real_length = f.real_length
      /\ [f EXCEPT !.data = d].data = d
  BY <1>2 DEF Fragment
<1> QED BY <1>2, <1>3, <1>4

\* truncate_entry(): what begins before the end stays up to the end, and
\* nothing goes beyond it.
LEMMA TruncateFacts ==
    ASSUME NEW fs \in Seq(Fragment), Disjoint(fs), Roomy(fs),
           NEW end \in Nat, NEW final \in BOOLEAN
    PROVE  /\ Shrinks(Truncate(fs, end, final), fs)
           /\ Roomy(Truncate(fs, end, final))
           /\ Within(Truncate(fs, end, final), end)
           /\ \A k \in 1 .. Len(fs) : \A x : Has(fs, k, x) /\ x < end =>
                /\ k \in 1 .. Len(Truncate(fs, end, final))
                /\ Has(Truncate(fs, end, final), k, x)
<1> DEFINE g == Truncate(fs, end, final)
           over == {i \in DOMAIN fs : end - fs[i].offset < Len(fs[i].data)}
           k == Min(over)
           n == end - fs[k].offset
           cut == Shortened(fs[k], n)
           last == IF final THEN [cut EXCEPT !.real_length = n] ELSE cut
           before == SubSeq(fs, 1, k - 1)
<1>0. Len(fs) \in Nat /\ DOMAIN fs = 1 .. Len(fs)
  BY LenProperties
<1>1. over = {i \in 1 .. Len(fs) : end < End(fs[i])}
  <2>1. \A i \in 1 .. Len(fs) :
           fs[i].offset \in Nat /\ Len(fs[i].data) \in Nat
    BY ListFacts
  <2>2. \A i \in 1 .. Len(fs) :
           end - fs[i].offset < Len(fs[i].data) <=> end < End(fs[i])
    BY <2>1 DEF End
  <2> QED BY <1>0, <2>2
<1>2. CASE over = {}
  <2>1. g = fs
    BY <1>2 DEF Truncate
  <2>2. Within(fs, end)
    BY <1>1, <1>2, ListFacts DEF Within
  <2>3. Shrinks(fs, fs)
    BY <1>0, ListFacts DEF Shrinks
  <2> HIDE DEF g
  <2> QED BY <2>1, <2>2, <2>3 DEF g
<1>3. CASE over # {}
  <2>0. over \in SUBSET Nat
    BY <1>1
  <2>1. k \in over /\ \A i \in over : k <= i
    <3> HIDE DEF over
    <3> QED BY <1>3, <2>0, MinFacts
  <2>2. /\ g = before \o (IF n <= 0 THEN << >> ELSE <<last>>)
    BY <1>3 DEF Truncate
  <2> HIDE DEF g, k
  <2>3. k \in 1 .. Len(fs) /\ end < End(fs[k]) /\ k \in Nat /\ k - 1 \in 0 .. Len(fs)
    BY <1>0, <1>1, <2>1
  <2>4. \A i \in 1 .. Len(fs) : i < k => End(fs[i]) <= end
    <3> SUFFICES ASSUME NEW i \in 1 .. Len(fs), i < k PROVE End(fs[i]) <= end
      OBVIOUS
    <3>1. ~(i \in over)
      BY <2>1, <2>3
    <3>2. End(fs[i]) \in Nat
      BY ListFacts
    <3> QED BY <1>1, <3>1, <3>2
  <2>5. /\ before \in Seq(Fragment) /\ Len(before) = k - 1
        /\ \A i \in 1 .. k - 1 : before[i] = fs[i]
    BY <2>3, PrefixFacts
  <2>6. /\ fs[k] \in Fragment /\ fs[k].offset \in Nat /\ End(fs[k]) \in Nat
        /\ Len(fs[k].data) = End(fs[k]) - fs[k].offset /\ Len(fs[k].data) \in Nat
    BY <2>3, ListFacts
  <2>7. n \in Int /\ n < Len(fs[k].data)
    BY <2>3, <2>6
  <2>8. ASSUME NEW i \in 1 .. Len(fs), k <= i, NEW x, Has(fs, i, x), x < end
        PROVE  i = k /\ n > 0
    <3>1. x \in Nat /\ fs[i].offset <= x /\ fs[i].offset \in Nat
      BY <2>8, HasIndex, ListFacts
    <3>2. k < i => End(fs[k]) <= fs[i].offset
      BY <2>3 DEF Disjoint
    <3>3. i \in Nat /\ (i = k \/ k < i)
      BY <2>3, <2>8
    <3> QED BY <2>3, <2>6, <2>8, <3>1, <3>2, <3>3
  <2>9. CASE n <= 0
    <3>1. g = before
      BY <2>2, <2>5, <2>9, ConcatEmptySeq
    <3>2. /\ g \in Seq(Fragment) /\ Len(g) = k - 1 /\ Len(g) <= Len(fs)
          /\ \A i \in 1 .. Len(g) : g[i] = fs[i] /\ i \in 1 .. Len(fs) /\ i < k
      BY <1>0, <2>3, <2>5, <3>1
    <3>3. Shrinks(g, fs) /\ Roomy(g) /\ Within(g, end)
      <4>1. \A i \in 1 .. Len(g) : /\ Len(fs[i].data) <= Len(fs[i].data)
                                    /\ Len(fs[i].data) <= fs[i].real_length
                                    /\ End(fs[i]) <= end
        BY <2>4, <3>2, ListFacts DEF Roomy
      <4>2. Shrinks(g, fs)
        BY <3>2, <4>1 DEF Shrinks
      <4> QED BY <3>2, <4>1, <4>2 DEF Roomy, Within
    <3>4. ASSUME NEW i \in 1 .. Len(fs), NEW x, Has(fs, i, x), x < end
          PROVE  i \in 1 .. Len(g) /\ Has(g, i, x)
      <4>1. ~(k <= i)
        BY <2>7, <2>8, <2>9, <3>4
      <4>2. i \in 1 .. Len(g)
        BY <2>3, <3>2, <4>1
      <4> QED BY <3>2, <3>4, <4>2 DEF Has
    <3> QED BY <3>3, <3>4 DEF g
  <2>10. CASE n > 0
    <3>1. n \in 0 .. Len(fs[k].data) /\ n \in Nat
      BY <2>6, <2>7, <2>10
    <3>2. /\ cut \in Fragment /\ cut.offset = fs[k].offset
          /\ cut.real_length = fs[k].real_length /\ Len(cut.data) = n
          /\ \A x \in 1 .. n : cut.data[x] = fs[k].data[x]
      <4> HIDE DEF n
      <4> QED BY <2>6, <3>1, ShortenedFacts
    <3>3. /\ last \in Fragment /\ last.offset = fs[k].offset
          /\ Len(last.data) = n /\ n <= last.real_length
          /\ \A x \in 1 .. n : last.data[x] = fs[k].data[x]
      <4>1. n <= fs[k].real_length
        <5>1. Len(fs[k].data) <= fs[k].real_length /\ fs[k].real_length \in Nat
          BY <2>3, <2>6, FragmentFacts DEF Roomy
        <5> QED BY <2>6, <2>7, <5>1
      <4> HIDE DEF cut, n
      <4>2. CASE final
        <5>1. /\ [cut EXCEPT !.real_length = n] \in Fragment
              /\ [cut EXCEPT !.real_length = n].offset = cut.offset
              /\ [cut EXCEPT !.real_length = n].data = cut.data
              /\ [cut EXCEPT !.real_length = n].real_length = n
          BY <3>1, <3>2 DEF Fragment
        <5> QED BY <3>1, <3>2, <4>2, <5>1
      <4>3. CASE ~final
        BY <3>2, <4>1, <4>3
      <4> QED BY <4>2, <4>3
    <3> HIDE DEF last
    <3>4. g = before \o <<last>>
      <4>1. ~(n <= 0)
        BY <2>7, <2>10
      <4> QED BY <2>2, <4>1
    <3> HIDE DEF before
    <3>5. /\ g \in Seq(Fragment) /\ Len(g) = k
          /\ \A i \in 1 .. k - 1 : g[i] = fs[i]
          /\ g[k] = last
      <4>1. <<last>> \in Seq(Fragment) /\ Len(<<last>>) = 1 /\ <<last>>[1] = last
        BY <3>3
      <4>2. /\ g \in Seq(Fragment) /\ Len(g) = Len(before) + Len(<<last>>)
            /\ \A i \in 1 .. Len(before) + Len(<<last>>) :
                 g[i] = IF i <= Len(before) THEN before[i]
                        ELSE <<last>>[i - Len(before)]
        BY <2>5, <3>4, <4>1, ConcatProperties
      <4>3. Len(before) + Len(<<last>>) = k /\ k - Len(before) = 1 /\ ~(k <= Len(before))
        BY <2>3, <2>5, <4>1
      <4>4. \A i \in 1 .. k - 1 : i \in 1 .. k /\ i <= Len(before)
        BY <2>3, <2>5
      <4>5. k \in 1 .. k
        BY <2>3
      <4> QED BY <2>5, <4>1, <4>2, <4>3, <4>4, <4>5
    <3>6. \A i \in 1 .. k : i = k \/ i \in 1 .. k - 1
      BY <2>3
    <3>7. \A i \in 1 .. k : i \in 1 .. Len(fs)
      BY <1>0, <2>3
    <3>8. ASSUME NEW i \in 1 .. k
          PROVE  /\ g[i].offset = fs[i].offset /\ Len(g[i].data) <= Len(fs[i].data)
                 /\ \A x \in 1 .. Len(g[i].data) : g[i].data[x] = fs[i].data[x]
                 /\ Len(g[i].data) <= g[i].real_length
                 /\ End(g[i]) <= end
      <4>1. CASE i = k
        <5>1. End(last) = end
          BY <2>6, <3>3 DEF End
        <5>2. End(last) <= end
          BY <5>1
        <5>3. n <= Len(fs[k].data)
          BY <2>6, <2>7
        <5> QED BY <3>3, <3>5, <4>1, <5>2, <5>3
      <4>2. CASE i \in 1 .. k - 1
        <5>1. g[i] = fs[i] /\ i \in 1 .. Len(fs) /\ i < k
          BY <2>3, <3>5, <3>7, <4>2
        <5>2. Len(fs[i].data) <= fs[i].real_length /\ Len(fs[i].data) \in Nat
          BY <5>1, ListFacts DEF Roomy
        <5> QED BY <2>4, <5>1, <5>2
      <4> QED BY <3>6, <4>1, <4>2
    <3>9. Shrinks(g, fs)
      <4>1. k <= Len(fs)
        BY <1>0, <2>3
      <4> QED BY <3>5, <3>8, <4>1 DEF Shrinks
    <3>10. Roomy(g) /\ Within(g, end)
      BY <3>5, <3>8 DEF Roomy, Within
    <3>11. ASSUME NEW i \in 1 .. Len(fs), NEW x, Has(fs, i, x), x < end
           PROVE  i \in 1 .. Len(g) /\ Has(g, i, x)
      <4>1. i < k \/ i = k
        BY <2>3, <2>8, <3>11
      <4>2. CASE i < k
        <5>1. i \in 1 .. k - 1 /\ i \in 1 .. Len(g)
          BY <2>3, <3>5, <4>2
        <5> QED BY <3>5, <3>11, <5>1 DEF Has
      <4>3. CASE i = k
        <5>1. i \in 1 .. Len(g) /\ g[i] = last
          BY <2>3, <3>5, <4>3
        <5>2. End(last) = end
          BY <2>6, <3>3 DEF End
        <5>3. x \in Nat /\ fs[i].offset <= x
          BY <3>11, HasIndex
        <5>4. x \in last.offset .. End(last) - 1
          BY <2>6, <3>3, <3>11, <4>3, <5>2, <5>3
        <5> QED BY <5>1, <5>4 DEF Has
      <4> QED BY <4>1, <4>2, <4>3
    <3> QED BY <3>9, <3>10, <3>11 DEF g
  <2>11. n <= 0 \/ n > 0
    BY <2>7
  <2> QED BY <2>9, <2>10, <2>11
<1> QED BY <1>2, <1>3

-----------------------------------------------------------------------------
(* Joining fragments.                                                      *)

\* What is behind fs[k] and overlaps it is all that begins before its end.
LEMMA OverlapFacts ==
    ASSUME NEW fs \in Seq(Fragment), NEW k \in 1 .. Len(fs), DisjointBut(fs, k),
           NEW m, m = Max(Overlapped(fs, k) \cup {k})
    PROVE  /\ m \in k .. Len(fs)
           /\ m # k => fs[m].offset < End(fs[k])
           /\ \A j \in m + 1 .. Len(fs) : End(fs[k]) <= fs[j].offset
<1> DEFINE T == Overlapped(fs, k) \cup {k}
           n == Len(fs)
<1>0. n \in Nat /\ k \in Nat
  BY ListFacts
<1>1. T \in SUBSET (0 .. n) /\ T # {}
  BY <1>0 DEF Overlapped
<1>2. m \in T /\ \A y \in T : m >= y
  <2> HIDE DEF T, n
  <2> QED BY <1>0, <1>1, MaxFacts DEF T
<1>3. m \in k .. n /\ (m # k => fs[m].offset < End(fs[k]))
  BY <1>0, <1>2 DEF Overlapped
<1>4. ASSUME NEW j \in m + 1 .. n PROVE End(fs[k]) <= fs[j].offset
  <2>1. j \in k + 1 .. n /\ ~(m >= j) /\ j \in 1 .. n
    BY <1>0, <1>3
  <2>2. ~(fs[j].offset < End(fs[k]))
    BY <1>2, <2>1 DEF Overlapped
  <2>3. fs[j].offset \in Nat /\ End(fs[k]) \in Nat
    BY <2>1, ListFacts
  <2> QED BY <2>2, <2>3
<1> QED BY <1>3, <1>4

\* The tail of the last one is appended: the data of f stays, what follows is
\* that of l at the same offsets.
LEMMA JoinFacts ==
    ASSUME NEW f \in Fragment, NEW l \in Fragment,
           l.offset < End(f), End(f) < End(l)
    PROVE  LET tail == SubSeq(l.data, End(f) - l.offset + 1, Len(l.data))
               g == [f EXCEPT !.data = @ \o tail, !.real_length = End(l) - f.offset]
           IN  /\ g \in Fragment /\ g.offset = f.offset
               /\ End(g) = End(l) /\ Len(g.data) = g.real_length
               /\ \A x \in 1 .. Len(f.data) : g.data[x] = f.data[x]
               /\ \A x \in Nat : End(f) <= x /\ x < End(l) =>
                    /\ l.offset <= x
                    /\ g.data[x - f.offset + 1] = l.data[x - l.offset + 1]
<1> DEFINE m == End(f) - l.offset
           tail == SubSeq(l.data, m + 1, Len(l.data))
           d == f.data \o tail
           r == End(l) - f.offset
           g == [f EXCEPT !.data = d, !.real_length = r]
<1>1. /\ f.offset \in Nat /\ f.data \in Seq(Versions) /\ Len(f.data) \in Nat
      /\ End(f) \in Nat /\ Len(f.data) = End(f) - f.offset /\ f.offset <= End(f)
  BY FragmentFacts
<1>2. /\ l.offset \in Nat /\ l.data \in Seq(Versions) /\ Len(l.data) \in Nat
      /\ End(l) \in Nat /\ Len(l.data) = End(l) - l.offset
  BY FragmentFacts
<1>3. m \in 0 .. Len(l.data) /\ r \in Nat
  BY <1>1, <1>2
<1>4. /\ tail \in Seq(Versions) /\ Len(tail) = Len(l.data) - m
      /\ \A i \in 1 .. Len(l.data) - m : tail[i] = l.data[m + i]
  <2> HIDE DEF m
  <2> QED BY <1>2, <1>3, RestFacts
<1>5. Len(tail) = End(l) - End(f)
  BY <1>1, <1>2, <1>4
<1> HIDE DEF tail
<1>6. /\ d \in Seq(Versions) /\ Len(d) = Len(f.data) + Len(tail)
      /\ \A i \in 1 .. Len(f.data) + Len(tail) :
           d[i] = IF i <= Len(f.data) THEN f.data[i] ELSE tail[i - Len(f.data)]
  BY <1>1, <1>4, ConcatProperties
<1>7. Len(d) = r
  <2>1. \A a, b, c \in Nat : (b - a) + (c - b) = c - a
    OBVIOUS
  <2> HIDE DEF d
  <2>2. Len(d) = (End(f) - f.offset) + (End(l) - End(f))
    BY <1>1, <1>5, <1>6
  <2> QED BY <1>1, <1>2, <2>1, <2>2
<1> HIDE DEF d, r
<1>8. g \in Fragment /\ g.offset = f.offset /\ g.data = d /\ g.real_length = r
  BY <1>3, <1>6 DEF Fragment
<1>9. End(g) = End(l)
  <2>1. End(g) = f.offset + r
    BY <1>7, <1>8 DEF End
  <2> QED BY <1>1, <1>2, <2>1 DEF r
<1>10. ASSUME NEW x \in 1 .. Len(f.data) PROVE d[x] = f.data[x]
  BY <1>1, <1>4, <1>6
<1>11. ASSUME NEW x \in Nat, End(f) <= x, x < End(l)
       PROVE  l.offset <= x /\ d[x - f.offset + 1] = l.data[x - l.offset + 1]
  <2> DEFINE i == x - f.offset + 1
  <2>1. i \in Int /\ i \in 1 .. Len(f.data) + Len(tail) /\ ~(i <= Len(f.data))
    <3>1. \A a, b, c, y \in Nat : a <= b /\ b <= y /\ y < c =>
             /\ y - a + 1 \in Int /\ y - a + 1 \in 1 .. (b - a) + (c - b)
             /\ ~(y - a + 1 <= b - a)
      OBVIOUS
    <3>2. f.offset \in Nat /\ End(f) \in Nat /\ End(l) \in Nat /\ x \in Nat
          /\ f.offset <= End(f) /\ End(f) <= x /\ x < End(l)
      BY <1>1, <1>2, <1>11
    <3>3. /\ i \in Int /\ i \in 1 .. (End(f) - f.offset) + (End(l) - End(f))
          /\ ~(i <= End(f) - f.offset)
      BY <3>1, <3>2, Zenon
    <3>4. Len(f.data) = End(f) - f.offset /\ Len(tail) = End(l) - End(f)
      BY <1>1, <1>5
    <3> HIDE DEF i
    <3> QED BY <3>3, <3>4, Zenon
  <2>2. i - Len(f.data) = x - End(f) + 1
    BY <1>1
  <2>3. x - End(f) + 1 \in 1 .. Len(l.data) - m /\ m + (x - End(f) + 1) = x - l.offset + 1
    <3>1. \A a, b, c \in Nat : \A y \in Nat :
             a < b /\ b <= y /\ y < c =>
               /\ y - b + 1 \in 1 .. (c - a) - (b - a)
               /\ (b - a) + (y - b + 1) = y - a + 1
      OBVIOUS
    <3>2. l.offset \in Nat /\ End(f) \in Nat /\ End(l) \in Nat /\ x \in Nat
          /\ l.offset < End(f) /\ End(f) <= x /\ x < End(l)
      BY <1>1, <1>2, <1>11
    <3>3. /\ x - End(f) + 1 \in 1 .. (End(l) - l.offset) - (End(f) - l.offset)
          /\ (End(f) - l.offset) + (x - End(f) + 1) = x - l.offset + 1
      BY <3>1, <3>2, Zenon
    <3> QED BY <1>2, <3>3
  <2>4. d[i] = tail[i - Len(f.data)]
    <3> HIDE DEF i
    <3> QED BY <1>6, <2>1
  <2>5. tail[x - End(f) + 1] = l.data[x - l.offset + 1]
    <3> HIDE DEF m
    <3> QED BY <1>4, <2>3
  <2>6. l.offset <= x
    BY <1>1, <1>2, <1>11
  <2> QED BY <2>2, <2>4, <2>5, <2>6
<1> HIDE DEF g
<1>12. g = [f EXCEPT !.data = @ \o tail, !.real_length = End(l) - f.offset]
  BY DEF g, d, r
<1> QED BY <1>7, <1>8, <1>9, <1>10, <1>11, <1>12 DEF tail, m

\* remove_overlaps(): a list without overlaps in which the fragment k has its
\* data and behind that, perhaps, that of fragments which were there.
LEMMA RemoveOverlapsFacts ==
    ASSUME NEW fs \in Seq(Fragment), NEW k \in 1 .. Len(fs), DisjointBut(fs, k),
           Roomy(fs), NEW mem \in BOOLEAN, NEW g, g = RemoveOverlaps(fs, k, mem)
    PROVE  /\ g \in Seq(Fragment) /\ Disjoint(g) /\ Roomy(g)
           /\ k \in 1 .. Len(g)
           /\ g[k].offset = fs[k].offset /\ End(fs[k]) <= End(g[k])
           /\ \A x \in 1 .. Len(fs[k].data) : g[k].data[x] = fs[k].data[x]
           /\ \A i \in 1 .. k - 1 : g[i] = fs[i]
           /\ \A n \in Int : Within(fs, n) => Within(g, n)
           /\ \A j \in 1 .. Len(g) : \A x : Has(g, j, x) =>
                \/ j = k /\ Has(fs, k, x)
                \/ \E i \in 1 .. Len(fs) :
                     i # k /\ Has(fs, i, x) /\ Byte(g, j, x) = Byte(fs, i, x)
<1> DEFINE f == fs[k]
           m == Max(Overlapped(fs, k) \cup {k})
           l == fs[m]
           tail == SubSeq(l.data, End(f) - l.offset + 1, Len(l.data))
           long == [f EXCEPT !.data = @ \o tail, !.real_length = End(l) - f.offset]
           joined == IF End(l) <= End(f) \/ ~mem THEN f ELSE long
           n == Len(fs)
<1>1. g = SubSeq(fs, 1, k - 1) \o <<joined>> \o SubSeq(fs, m + 1, n)
  BY DEF RemoveOverlaps
<1>2. /\ m \in k .. n /\ (m # k => l.offset < End(f))
      /\ \A j \in m + 1 .. n : End(f) <= fs[j].offset
  <2> HIDE DEF f
  <2> QED BY OverlapFacts DEF f
<1> HIDE DEF m
<1>3. n \in Nat /\ m \in Nat /\ k \in Nat /\ m \in 1 .. n /\ k <= m /\ k \in 1 .. n
  BY <1>2, ListFacts
<1>4. f \in Fragment /\ l \in Fragment /\ End(f) \in Nat /\ End(l) \in Nat
      /\ f.offset \in Nat /\ l.offset \in Nat /\ f.offset <= End(f)
  BY <1>3, ListFacts
<1>5. /\ joined \in Fragment /\ joined.offset = f.offset
      /\ End(f) <= End(joined) /\ End(joined) \in {End(f), End(l)}
      /\ Len(joined.data) <= joined.real_length
      /\ \A x \in 1 .. Len(f.data) : joined.data[x] = f.data[x]
      /\ \A x \in Nat : End(f) <= x /\ x < End(joined) =>
           /\ m # k /\ l.offset <= x /\ x < End(l)
           /\ joined.data[x - f.offset + 1] = l.data[x - l.offset + 1]
  <2>1. CASE End(l) <= End(f) \/ ~mem
    <3>1. joined = f
      BY <2>1
    <3>2. Len(f.data) <= f.real_length
      BY DEF Roomy
    <3>3. End(f) <= End(f) /\ \A x \in Nat : ~(End(f) <= x /\ x < End(f))
      BY <1>4
    <3> HIDE DEF joined
    <3> QED BY <1>4, <3>1, <3>2, <3>3
  <2>2. CASE ~(End(l) <= End(f) \/ ~mem)
    <3>1. joined = long
      BY <2>2
    <3>2. End(f) < End(l) /\ m # k
      BY <1>4, <2>2
    <3>3. l.offset < End(f)
      BY <1>2, <3>2
    <3> HIDE DEF joined, f, l
    <3>4. /\ long \in Fragment /\ long.offset = f.offset
          /\ End(long) = End(l) /\ Len(long.data) = long.real_length
          /\ \A x \in 1 .. Len(f.data) : long.data[x] = f.data[x]
          /\ \A x \in Nat : End(f) <= x /\ x < End(l) =>
               /\ l.offset <= x
               /\ long.data[x - f.offset + 1] = l.data[x - l.offset + 1]
      BY <1>4, <3>2, <3>3, JoinFacts
    <3> HIDE DEF long
    <3>5. long.real_length \in Nat
      BY <3>4, FragmentFacts
    <3>6. Len(long.data) <= long.real_length
      BY <3>4, <3>5
    <3>7. End(f) <= End(long)
      BY <1>4, <3>2, <3>4
    <3> QED BY <3>1, <3>2, <3>4, <3>6, <3>7
  <2> QED BY <2>1, <2>2
<1> HIDE DEF joined
<1>6. /\ g \in Seq(Fragment) /\ Len(g) = n - m + k
      /\ \A j \in 1 .. n - m + k :
           g[j] = IF j < k THEN fs[j] ELSE IF j = k THEN joined ELSE fs[j + m - k]
  <2>1. k \in 1 .. Len(fs) /\ m \in k .. Len(fs) /\ joined \in Fragment
    BY <1>2, <1>5
  <2>2. g = Splice(fs, k, m, joined)
    BY <1>1 DEF Splice
  <2>3. Splice(fs, k, m, joined) \in Seq(Fragment)
    BY <2>1, SpliceFacts
  <2>4. Len(Splice(fs, k, m, joined)) = Len(fs) - m + k
    BY <2>1, SpliceFacts
  <2>5. \A j \in 1 .. Len(fs) - m + k :
          Splice(fs, k, m, joined)[j] = IF j < k THEN fs[j]
                                        ELSE IF j = k THEN joined ELSE fs[j + m - k]
    BY <2>1, SpliceFacts
  <2> QED BY <2>2, <2>3, <2>4, <2>5
<1> DEFINE N == n - m + k
<1>7. N \in Nat /\ k \in 1 .. N /\ Len(g) = N
  BY <1>2, <1>3, <1>6
<1>8. ASSUME NEW j \in 1 .. N, j < k PROVE g[j] = fs[j] /\ j \in 1 .. n /\ j # k
  BY <1>3, <1>6, <1>8
<1>9. g[k] = joined
  BY <1>3, <1>6, <1>7
<1>10. ASSUME NEW j \in 1 .. N, j > k
       PROVE  g[j] = fs[j + m - k] /\ j + m - k \in m + 1 .. n
              /\ j + m - k \in 1 .. n /\ j + m - k # k
  <2>1. ~(j < k) /\ j # k
    BY <1>3, <1>7, <1>10
  <2>2. g[j] = fs[j + m - k]
    BY <1>6, <2>1
  <2> QED BY <1>3, <1>10, <2>2
<1>11. \A j \in 1 .. N : j < k \/ j = k \/ j > k
  BY <1>3, <1>7
<1> HIDE DEF N, n, f, l
<1>12. Disjoint(g)
  <2> SUFFICES ASSUME NEW i \in 1 .. N, NEW j \in 1 .. N, i < j
               PROVE  End(g[i]) <= g[j].offset
    BY <1>7 DEF Disjoint
  <2>1. \A a, b \in 1 .. n : a < b /\ a # k => End(fs[a]) <= fs[b].offset
    BY DEF DisjointBut, n
  <2>2. i \in Int /\ j \in Int
    BY <1>7
  <2>3. CASE j < k
    BY <1>3, <1>8, <2>1, <2>2, <2>3
  <2>4. CASE j = k
    <3>1. i < k
      BY <2>4
    <3>2. End(fs[i]) <= fs[k].offset
      BY <1>3, <1>8, <2>1, <3>1
    <3> QED BY <1>5, <1>8, <1>9, <2>4, <3>1, <3>2 DEF f
  <2>5. CASE j > k
    <3> DEFINE q == j + m - k
    <3>1. g[j] = fs[q] /\ q \in m + 1 .. n /\ q \in 1 .. n /\ q # k
      BY <1>10, <2>5
    <3>2. q > m /\ q > k /\ q = j + m - k
      BY <1>3, <3>1
    <3> HIDE DEF q
    <3>3. CASE i < k
      <4>1. i < q
        BY <1>3, <2>2, <3>1, <3>2, <3>3
      <4> QED BY <1>8, <2>1, <3>1, <3>3, <4>1
    <3>4. CASE i = k
      <4>1. End(f) <= fs[q].offset
        BY <1>2, <3>1
      <4>2. End(l) <= fs[q].offset
        <5>1. CASE m = k
          BY <4>1, <5>1 DEF f, l
        <5>2. CASE m # k
          BY <1>3, <2>1, <3>1, <3>2, <5>2 DEF l
        <5> QED BY <5>1, <5>2
      <4> QED BY <1>5, <1>9, <3>1, <3>4, <4>1, <4>2
    <3>5. CASE i > k
      <4>1. g[i] = fs[i + m - k] /\ i + m - k \in 1 .. n /\ i + m - k # k
        BY <1>10, <3>5
      <4>2. i + m - k < q
        BY <1>3, <2>2, <3>2
      <4> QED BY <2>1, <3>1, <4>1, <4>2
    <3> QED BY <1>11, <3>3, <3>4, <3>5
  <2> QED BY <1>11, <2>3, <2>4, <2>5
<1>13. Roomy(g)
  <2> SUFFICES ASSUME NEW j \in 1 .. N PROVE Len(g[j].data) <= g[j].real_length
    BY <1>7 DEF Roomy
  <2>1. \A a \in 1 .. n : Len(fs[a].data) <= fs[a].real_length
    BY DEF Roomy, n
  <2>2. CASE j < k
    BY <1>8, <2>1, <2>2
  <2>3. CASE j = k
    BY <1>5, <1>9, <2>3
  <2>4. CASE j > k
    <3>1. g[j] = fs[j + m - k] /\ j + m - k \in 1 .. n
      BY <1>10, <2>4
    <3> QED BY <2>1, <3>1
  <2> QED BY <1>11, <2>2, <2>3, <2>4
<1>14. ASSUME NEW w \in Int, Within(fs, w) PROVE Within(g, w)
  <2> SUFFICES ASSUME NEW j \in 1 .. N PROVE End(g[j]) <= w
    BY <1>7 DEF Within
  <2>1. \A a \in 1 .. n : End(fs[a]) <= w
    BY <1>14 DEF Within, n
  <2>2. CASE j < k
    BY <1>8, <2>1, <2>2
  <2>3. CASE j = k
    BY <1>3, <1>5, <1>9, <2>1, <2>3 DEF f, l
  <2>4. CASE j > k
    <3>1. g[j] = fs[j + m - k] /\ j + m - k \in 1 .. n
      BY <1>10, <2>4
    <3> QED BY <2>1, <3>1
  <2> QED BY <1>11, <2>2, <2>3, <2>4
<1>15. ASSUME NEW j \in 1 .. N, NEW x, Has(g, j, x)
       PROVE  \/ j = k /\ Has(fs, k, x)
              \/ \E i \in 1 .. n :
                   i # k /\ Has(fs, i, x) /\ Byte(g, j, x) = Byte(fs, i, x)
  <2>1. CASE j < k
    <3>1. g[j] = fs[j] /\ j \in 1 .. n /\ j # k
      BY <1>8, <2>1
    <3>2. Has(fs, j, x) /\ Byte(g, j, x) = Byte(fs, j, x)
      BY <1>15, <3>1 DEF Has, Byte
    <3> QED BY <3>1, <3>2
  <2>2. CASE j > k
    <3>1. g[j] = fs[j + m - k] /\ j + m - k \in 1 .. n /\ j + m - k # k
      BY <1>10, <2>2
    <3>2. Has(fs, j + m - k, x) /\ Byte(g, j, x) = Byte(fs, j + m - k, x)
      BY <1>15, <3>1 DEF Has, Byte
    <3> QED BY <3>1, <3>2
  <2>3. CASE j = k
    <3>1. x \in Nat /\ g[k].offset <= x /\ x < End(g[k])
      BY <1>6, <1>7, <1>15, <2>3, HasIndex
    <3>2. CASE x < End(f)
      <4>1. x \in fs[k].offset .. End(fs[k]) - 1
        BY <1>4, <1>5, <1>9, <3>1, <3>2 DEF f
      <4> QED BY <2>3, <4>1 DEF Has
    <3>3. CASE End(f) <= x
      <4>1. /\ m # k /\ l.offset <= x /\ x < End(l)
            /\ joined.data[x - f.offset + 1] = l.data[x - l.offset + 1]
        BY <1>5, <1>9, <3>1, <3>3
      <4>2. Has(fs, m, x)
        BY <1>4, <3>1, <4>1 DEF Has, l
      <4>3. Byte(g, k, x) = Byte(fs, m, x)
        BY <1>5, <1>9, <4>1 DEF Byte, l
      <4> QED BY <1>3, <2>3, <4>1, <4>2, <4>3
    <3> QED BY <1>4, <3>1, <3>2, <3>3
  <2> QED BY <1>11, <2>1, <2>2, <2>3
<1>16. \A i \in 1 .. k - 1 : g[i] = fs[i]
  <2>1. \A i \in 1 .. k - 1 : i \in 1 .. N /\ i < k
    BY <1>3, <1>7
  <2> QED BY <1>8, <2>1
<1>17. /\ g[k].offset = fs[k].offset /\ End(fs[k]) <= End(g[k])
       /\ \A x \in 1 .. Len(fs[k].data) : g[k].data[x] = fs[k].data[x]
  BY <1>5, <1>9 DEF f
<1> QED BY <1>6, <1>7, <1>12, <1>13, <1>14, <1>15, <1>16, <1>17 DEF n

-----------------------------------------------------------------------------
(* Adding a fragment.                                                      *)

\* A list that get_cache_fragment() has no complaint about.
Good(fs) == fs \in Seq(Fragment) /\ Disjoint(fs) /\ Roomy(fs)

\* As fs becomes gs no byte outside lost goes, and none outside fresh is new
\* or different.
Kept(fs, gs, lost, fresh) ==
    /\ \A k \in 1 .. Len(fs) : \A x : Has(fs, k, x) /\ x \notin lost =>
         \E j \in 1 .. Len(gs) : Has(gs, j, x)
    /\ \A j \in 1 .. Len(gs) : \A x : Has(gs, j, x) /\ x \notin fresh =>
         \E k \in 1 .. Len(fs) : Has(fs, k, x) /\ Byte(gs, j, x) = Byte(fs, k, x)

\* The bytes from o up to e are v.
Filled(fs, o, e, v) ==
    \A x \in o .. e - 1 :
        \E k \in 1 .. Len(fs) : Has(fs, k, x) /\ Byte(fs, k, x) = v

\* Where the search for offset o stops.
LEMMA PlaceFacts ==
    ASSUME frag \in Seq(Fragment), Disjoint(frag), NEW o \in Nat, NEW p, p = Place(o)
    PROVE  /\ p \in 1 .. Len(frag) + 1
           /\ \A i \in 1 .. Len(frag) : i < p => End(frag[i]) < o
           /\ Touches(o) <=> p \in 1 .. Len(frag) /\ frag[p].offset <= o
           /\ Touches(o) => o <= End(frag[p])
           /\ \A i \in 1 .. Len(frag) : i > p => o <= frag[i].offset
           /\ ~Touches(o) => \A i \in 1 .. Len(frag) : i >= p => o <= frag[i].offset
<1> DEFINE n == Len(frag)
           T == {i \in 1 .. n : frag[i].offset > o \/ End(frag[i]) >= o} \cup {n + 1}
<1>1. n \in Nat
  BY ListFacts
<1>2. \A i \in 1 .. n : /\ frag[i].offset \in Nat /\ End(frag[i]) \in Nat
                        /\ frag[i].offset <= End(frag[i])
  BY ListFacts
<1>3. p \in T /\ \A y \in T : p <= y
  <2>1. T \in SUBSET Nat /\ T # {}
    BY <1>1
  <2>2. p = Min(T)
    BY DEF Place
  <2> HIDE DEF T
  <2> QED BY <2>1, <2>2, MinFacts
<1>4. p \in 1 .. n + 1 /\ p \in Nat
  BY <1>1, <1>3
<1>5. ASSUME NEW i \in 1 .. n, i < p PROVE End(frag[i]) < o
  <2>1. ~(i \in T)
    BY <1>3, <1>4, <1>5
  <2> QED BY <1>2, <2>1
<1>6. Touches(o) <=> p \in 1 .. n /\ frag[p].offset <= o
  BY <1>1, <1>4 DEF Touches
<1>7. ASSUME p \in 1 .. n PROVE frag[p].offset > o \/ End(frag[p]) >= o
  BY <1>1, <1>3, <1>7
<1>8. ASSUME NEW i \in 1 .. n, i > p
      PROVE  p \in 1 .. n /\ End(frag[p]) <= frag[i].offset
  BY <1>1, <1>4, <1>8 DEF Disjoint
<1>9. ASSUME NEW i \in 1 .. n, i > p PROVE o <= frag[i].offset
  BY <1>2, <1>7, <1>8, <1>9
<1>10. Touches(o) => o <= End(frag[p])
  BY <1>2, <1>6, <1>7
<1>11. ASSUME ~Touches(o), NEW i \in 1 .. n, i >= p PROVE o <= frag[i].offset
  <2>1. CASE i = p
    BY <1>2, <1>6, <1>11, <2>1
  <2>2. CASE i > p
    BY <1>9, <2>2
  <2> QED BY <1>1, <1>4, <1>11, <2>1, <2>2
<1> QED BY <1>4, <1>5, <1>6, <1>9, <1>10, <1>11

\* The list after the bytes from o up to e have been written as v, into the
\* fragment k, and before those behind it have been seen to.
Written(ad, k, o, e, v) ==
    /\ ad \in Seq(Fragment) /\ k \in 1 .. Len(ad)
    /\ DisjointBut(ad, k) /\ Roomy(ad)
    /\ ad[k].offset <= o /\ e <= End(ad[k])
    /\ \A x \in o .. e - 1 : Byte(ad, k, x) = v
    /\ \A i \in 1 .. Len(ad) : \A x : Has(ad, i, x) =>
         \/ i = k /\ x \in o .. e - 1
         \/ \E q \in 1 .. Len(frag) :
               Has(frag, q, x) /\ Byte(ad, i, x) = Byte(frag, q, x)
    /\ \A q \in 1 .. Len(frag) : \A x : Has(frag, q, x) /\ x < o =>
         \E i \in 1 .. k : Has(ad, i, x)

\* What remove_overlaps() makes of that, and truncate_entry() then.
Joined(h, ad, k) == \E mem \in BOOLEAN : h = RemoveOverlaps(ad, k, mem)

Ended(h, ad, k, e) == \E g : Joined(g, ad, k) /\ h = Truncate(g, e, FALSE)

\* What these leave of the list: a good one, which holds the new bytes and
\* those outside of them as they were.
LEMMA WriteFacts ==
    ASSUME Good(frag), Within(frag, MaxEnd),
           NEW o \in Nat, NEW e \in Nat, o <= e, NEW v,
           NEW ad, NEW k, Written(ad, k, o, e, v),
           NEW h, Joined(h, ad, k) \/ Ended(h, ad, k, e)
    PROVE  /\ Good(h) /\ Filled(h, o, e, v)
           /\ Kept(frag, h, o .. MaxEnd, o .. e - 1)
           /\ \A m \in Int : Within(ad, m) => Within(h, m)
           /\ Ended(h, ad, k, e) => Within(h, e)
<1> SUFFICES ASSUME NEW g, Joined(g, ad, k), h = g \/ h = Truncate(g, e, FALSE)
             PROVE  /\ Good(h) /\ Filled(h, o, e, v)
                    /\ Kept(frag, h, o .. MaxEnd, o .. e - 1)
                    /\ \A m \in Int : Within(ad, m) => Within(h, m)
                    /\ h = Truncate(g, e, FALSE) => Within(h, e)
  BY DEF Ended
<1> DEFINE fresh == o .. e - 1
<1>0. /\ ad \in Seq(Fragment) /\ k \in 1 .. Len(ad)
      /\ DisjointBut(ad, k) /\ Roomy(ad)
      /\ ad[k].offset <= o /\ e <= End(ad[k])
      /\ \A x \in o .. e - 1 : Byte(ad, k, x) = v
  BY DEF Written
<1>2. \A i \in 1 .. Len(ad) : \A x : Has(ad, i, x) =>
         \/ i = k /\ x \in o .. e - 1
         \/ \E q \in 1 .. Len(frag) : Has(frag, q, x) /\ Byte(ad, i, x) = Byte(frag, q, x)
  BY DEF Written
<1>3. \A q \in 1 .. Len(frag) : \A x : Has(frag, q, x) /\ x < o =>
         \E i \in 1 .. k : Has(ad, i, x)
  BY DEF Written
<1> PICK mem \in BOOLEAN : g = RemoveOverlaps(ad, k, mem)
  BY DEF Joined
<1>1. /\ g \in Seq(Fragment) /\ Disjoint(g) /\ Roomy(g)
      /\ k \in 1 .. Len(g) /\ k \in Nat
      /\ g[k].offset = ad[k].offset /\ End(ad[k]) <= End(g[k])
  BY <1>0, RemoveOverlapsFacts
<1>4. /\ \A x \in 1 .. Len(ad[k].data) : g[k].data[x] = ad[k].data[x]
      /\ \A i \in 1 .. k - 1 : g[i] = ad[i]
  BY <1>0, RemoveOverlapsFacts
<1>5. \A m \in Int : Within(ad, m) => Within(g, m)
  BY <1>0, RemoveOverlapsFacts
<1>6. \A j \in 1 .. Len(g) : \A x : Has(g, j, x) =>
         \/ j = k /\ Has(ad, k, x)
         \/ \E i \in 1 .. Len(ad) :
              i # k /\ Has(ad, i, x) /\ Byte(g, j, x) = Byte(ad, i, x)
  BY <1>0, RemoveOverlapsFacts
<1>7. ASSUME NEW x, Has(ad, k, x) PROVE Has(g, k, x) /\ Byte(g, k, x) = Byte(ad, k, x)
  <2>1. /\ x \in Nat /\ x - ad[k].offset + 1 \in 1 .. Len(ad[k].data)
        /\ ad[k].offset <= x /\ x < End(ad[k])
    BY <1>0, <1>7, HasIndex
  <2>2. End(ad[k]) \in Nat /\ End(g[k]) \in Nat /\ g[k].offset \in Nat
    BY <1>0, <1>1, ListFacts
  <2>3. x \in g[k].offset .. End(g[k]) - 1
    BY <1>1, <2>1, <2>2
  <2> QED BY <1>1, <1>4, <2>1, <2>3 DEF Has, Byte
<1>8. ASSUME NEW x \in fresh PROVE Has(g, k, x) /\ Byte(g, k, x) = v
  <2>1. ad[k].offset \in Nat /\ End(ad[k]) \in Nat
    BY <1>0, ListFacts
  <2>2. Has(ad, k, x)
    BY <1>0, <2>1 DEF Has
  <2> QED BY <1>0, <1>7, <2>2
<1>9. ASSUME NEW j \in 1 .. Len(g), NEW x, Has(g, j, x), x \notin fresh
      PROVE  \E q \in 1 .. Len(frag) : Has(frag, q, x) /\ Byte(g, j, x) = Byte(frag, q, x)
  <2>1. CASE j = k /\ Has(ad, k, x)
    <3>1. Byte(g, j, x) = Byte(ad, k, x)
      BY <1>7, <2>1
    <3>2. \E q \in 1 .. Len(frag) : Has(frag, q, x) /\ Byte(ad, k, x) = Byte(frag, q, x)
      BY <1>0, <1>9, <1>2, <2>1
    <3> QED BY <3>1, <3>2
  <2>2. CASE \E i \in 1 .. Len(ad) :
                i # k /\ Has(ad, i, x) /\ Byte(g, j, x) = Byte(ad, i, x)
    <3>1. PICK i \in 1 .. Len(ad) :
             i # k /\ Has(ad, i, x) /\ Byte(g, j, x) = Byte(ad, i, x)
      BY <2>2
    <3>2. \E q \in 1 .. Len(frag) : Has(frag, q, x) /\ Byte(ad, i, x) = Byte(frag, q, x)
      BY <1>2, <3>1
    <3> QED BY <3>1, <3>2
  <2> QED BY <1>6, <1>9, <2>1, <2>2
<1>10. ASSUME NEW q \in 1 .. Len(frag), NEW x, Has(frag, q, x), x < o
      PROVE  \E j \in 1 .. Len(g) : Has(g, j, x)
  <2>1. PICK i \in 1 .. k : Has(ad, i, x)
    BY <1>10, <1>3
  <2>2. CASE i = k
    BY <1>1, <1>7, <2>1, <2>2
  <2>3. CASE i # k
    <3>1. i \in 1 .. k - 1 /\ i \in 1 .. Len(g)
      BY <1>1, <2>3, ListFacts
    <3>2. Has(g, i, x)
      BY <1>4, <2>1, <3>1 DEF Has
    <3> QED BY <3>1, <3>2
  <2> QED BY <2>2, <2>3
<1>11. ASSUME NEW q \in 1 .. Len(frag), NEW x, Has(frag, q, x), x \notin o .. MaxEnd
      PROVE  x < o /\ x \in Nat
  <2>1. frag \in Seq(Fragment)
    BY DEF Good
  <2>2. x \in Nat /\ x < End(frag[q]) /\ End(frag[q]) \in Nat
    BY <1>11, <2>1, HasIndex, ListFacts
  <2>3. End(frag[q]) <= MaxEnd /\ MaxEnd \in Nat
    BY FragmentsAssumption DEF Within
  <2> QED BY <1>11, <2>2, <2>3
<1>12. ASSUME h = Truncate(g, e, FALSE)
       PROVE  /\ Shrinks(h, g) /\ Roomy(h) /\ Within(h, e)
              /\ \A i \in 1 .. Len(g) : \A x : Has(g, i, x) /\ x < e =>
                   i \in 1 .. Len(h) /\ Has(h, i, x)
  <2>1. FALSE \in BOOLEAN
    OBVIOUS
  <2> QED BY <1>1, <1>12, <2>1, TruncateFacts
<1>13. CASE h = g
  <2>1. Good(g)
    BY <1>1 DEF Good
  <2>2. Filled(g, o, e, v)
    BY <1>1, <1>8 DEF Filled
  <2>3. Kept(frag, g, o .. MaxEnd, fresh)
    <3> HIDE DEF fresh
    <3> QED BY <1>9, <1>10, <1>11 DEF Kept
  <2> QED BY <1>5, <1>13, <1>12, <2>1, <2>2, <2>3
<1>14. CASE h = Truncate(g, e, FALSE)
  <2>1. /\ Shrinks(h, g) /\ Roomy(h) /\ Within(h, e)
        /\ \A i \in 1 .. Len(g) : \A x : Has(g, i, x) /\ x < e =>
             i \in 1 .. Len(h) /\ Has(h, i, x)
    BY <1>14, <1>12
  <2>2. /\ Disjoint(h) /\ \A m \in Int : Within(g, m) => Within(h, m)
        /\ \A i \in 1 .. Len(h) : \A x : Has(h, i, x) =>
             /\ i \in 1 .. Len(g) /\ Has(g, i, x)
             /\ Byte(h, i, x) = Byte(g, i, x)
    BY <1>1, <2>1, ShrinksFacts
  <2>3. Good(h)
    BY <2>1, <2>2 DEF Good, Shrinks
  <2>4. Filled(h, o, e, v)
    <3> SUFFICES ASSUME NEW x \in fresh
                 PROVE  \E i \in 1 .. Len(h) : Has(h, i, x) /\ Byte(h, i, x) = v
      BY DEF Filled
    <3>1. x < e
      OBVIOUS
    <3>2. k \in 1 .. Len(h) /\ Has(h, k, x)
      BY <1>1, <1>8, <2>1, <3>1
    <3> QED BY <1>8, <2>2, <3>2
  <2>5. Kept(frag, h, o .. MaxEnd, fresh)
    <3>1. ASSUME NEW q \in 1 .. Len(frag), NEW x, Has(frag, q, x), x \notin o .. MaxEnd
          PROVE  \E j \in 1 .. Len(h) : Has(h, j, x)
      <4>1. x < o /\ x \in Nat
        BY <1>11, <3>1
      <4>2. PICK j \in 1 .. Len(g) : Has(g, j, x)
        BY <1>10, <3>1, <4>1
      <4>3. x < e
        BY <4>1
      <4> QED BY <2>1, <4>2, <4>3
    <3>2. ASSUME NEW j \in 1 .. Len(h), NEW x, Has(h, j, x), x \notin fresh
          PROVE  \E q \in 1 .. Len(frag) : Has(frag, q, x) /\ Byte(h, j, x) = Byte(frag, q, x)
      <4>1. j \in 1 .. Len(g) /\ Has(g, j, x) /\ Byte(h, j, x) = Byte(g, j, x)
        BY <2>2, <3>2
      <4>2. \E q \in 1 .. Len(frag) : Has(frag, q, x) /\ Byte(g, j, x) = Byte(frag, q, x)
        BY <1>9, <3>2, <4>1
      <4> QED BY <4>1, <4>2
    <3> HIDE DEF fresh
    <3> QED BY <3>1, <3>2 DEF Kept
  <2> QED BY <1>5, <2>1, <2>2, <2>3, <2>4, <2>5
<1> QED BY <1>13, <1>14

\* Offsets and indices, for a fragment at a of L bytes that gets k ones behind
\* its first m and is w bytes long then.
LEMMA CopyIndex ==
    ASSUME NEW a \in Nat, NEW m \in Nat, NEW L \in Nat, NEW k \in Nat, NEW w \in Nat,
           m <= L, w = IF L >= m + k THEN L ELSE m + k
    PROVE  /\ L <= w /\ m + k <= w
           /\ \A i \in 1 .. w : i \notin m + 1 .. m + k => i \in 1 .. L
           /\ \A x \in a + m .. a + m + k - 1 :
                x - a + 1 \in m + 1 .. m + k /\ x - a + 1 \in 1 .. w
           /\ \A x \in a .. a + w - 1 : x \notin a + m .. a + m + k - 1 =>
                x - a + 1 \notin m + 1 .. m + k /\ x - a + 1 \in 1 .. w
<1>1. L <= w /\ m + k <= w
  OBVIOUS
<1>2. \A i \in 1 .. w : i \notin m + 1 .. m + k => i \in 1 .. L
  OBVIOUS
<1>3. \A x \in a + m .. a + m + k - 1 :
         x - a + 1 \in m + 1 .. m + k /\ x - a + 1 \in 1 .. w
  BY <1>1
<1>4. \A x \in a .. a + w - 1 : x \notin a + m .. a + m + k - 1 =>
         x - a + 1 \notin m + 1 .. m + k /\ x - a + 1 \in 1 .. w
  OBVIOUS
<1> QED BY <1>1, <1>2, <1>3, <1>4

\* memcpy() writes n bytes at o and leaves the other ones.
LEMMA CopiedFacts ==
    ASSUME NEW f \in Fragment, NEW o \in Nat, NEW n \in Nat, NEW v \in Versions,
           f.offset <= o, o <= End(f), NEW c, c = Copied(f, o, n, v)
    PROVE  /\ c \in Fragment /\ c.offset = f.offset
           /\ c.real_length = f.real_length
           /\ End(c) = IF End(f) >= o + n THEN End(f) ELSE o + n
           /\ \A x \in o .. o + n - 1 : c.data[x - f.offset + 1] = v
           /\ \A x \in f.offset .. End(c) - 1 : x \notin o .. o + n - 1 =>
                /\ x < End(f)
                /\ c.data[x - f.offset + 1] = f.data[x - f.offset + 1]
<1> DEFINE m == o - f.offset
           L == Len(f.data)
           w == Max({L, m + n})
           d == [i \in 1 .. w |-> IF i \in m + 1 .. m + n THEN v ELSE f.data[i]]
<1>1. /\ f.offset \in Nat /\ f.data \in Seq(Versions) /\ L \in Nat
      /\ End(f) \in Nat /\ L = End(f) - f.offset
  BY FragmentFacts
<1>2. m \in Nat /\ m <= L /\ m + n \in Nat /\ o = f.offset + m /\ End(f) = f.offset + L
  BY <1>1
<1>3. w = IF L >= m + n THEN L ELSE m + n
  <2> HIDE DEF L, m
  <2>1. \A a, b \in Nat : Max({a, b}) = IF a >= b THEN a ELSE b
    BY MaxOfTwo
  <2> QED BY <1>1, <1>2, <2>1
<1>4. c = [f EXCEPT !.data = d]
  BY DEF Copied
<1> HIDE DEF w
<1>5. /\ L <= w /\ m + n <= w /\ w \in Nat
      /\ \A i \in 1 .. w : i \notin m + 1 .. m + n => i \in 1 .. L
      /\ \A x \in f.offset + m .. f.offset + m + n - 1 :
           x - f.offset + 1 \in m + 1 .. m + n /\ x - f.offset + 1 \in 1 .. w
      /\ \A x \in f.offset .. f.offset + w - 1 :
           x \notin f.offset + m .. f.offset + m + n - 1 =>
             x - f.offset + 1 \notin m + 1 .. m + n /\ x - f.offset + 1 \in 1 .. w
  <2> HIDE DEF m, L
  <2>1. w \in Nat
    BY <1>1, <1>2, <1>3
  <2>2. f.offset \in Nat /\ m \in Nat /\ L \in Nat /\ n \in Nat /\ m <= L
    BY <1>1, <1>2
  <2> QED BY <1>3, <2>1, <2>2, CopyIndex
<1>6. ASSUME NEW i \in 1 .. w
      PROVE  /\ i \in m + 1 .. m + n => d[i] = v
             /\ i \notin m + 1 .. m + n => i \in 1 .. L /\ d[i] = f.data[i]
             /\ d[i] \in Versions
  <2>1. i \in m + 1 .. m + n => d[i] = v
    OBVIOUS
  <2>2. i \notin m + 1 .. m + n => i \in 1 .. L /\ d[i] = f.data[i]
    <3>1. d[i] = IF i \in m + 1 .. m + n THEN v ELSE f.data[i]
      OBVIOUS
    <3> HIDE DEF d, m, L
    <3>2. i \notin m + 1 .. m + n => i \in 1 .. L
      BY <1>5
    <3> QED BY <3>1, <3>2
  <2>3. \A j \in 1 .. L : f.data[j] \in Versions
    BY <1>1, ElementOfSeq
  <2> HIDE DEF d
  <2> QED BY <2>1, <2>2, <2>3
<1>7. d \in Seq(Versions) /\ Len(d) = w
  <2>1. DOMAIN d = 1 .. w
    OBVIOUS
  <2>2. d \in [1 .. w -> Versions]
    <3>1. d = [i \in 1 .. w |-> d[i]]
      OBVIOUS
    <3> HIDE DEF d
    <3> QED BY <1>6, <3>1
  <2> HIDE DEF d
  <2> QED BY <1>5, <2>1, <2>2, LenProperties, IsASeq
<1> HIDE DEF d
<1>8. /\ [f EXCEPT !.data = d] \in Fragment /\ [f EXCEPT !.data = d].data = d
      /\ [f EXCEPT !.data = d].offset = f.offset
      /\ [f EXCEPT !.data = d].real_length = f.real_length
  BY <1>7 DEF Fragment
<1>9. c \in Fragment /\ c.data = d /\ c.offset = f.offset /\ c.real_length = f.real_length
  BY <1>4, <1>8
<1>10. End(c) = f.offset + w
  BY <1>7, <1>9 DEF End
<1>11. End(c) = IF End(f) >= o + n THEN End(f) ELSE o + n
  BY <1>1, <1>3, <1>10
<1>12. ASSUME NEW x \in o .. o + n - 1 PROVE d[x - f.offset + 1] = v
  <2>1. x - f.offset + 1 \in m + 1 .. m + n /\ x - f.offset + 1 \in 1 .. w
    <3> HIDE DEF m, L
    <3> QED BY <1>2, <1>5
  <2> QED BY <1>6, <2>1
<1>13. ASSUME NEW x \in f.offset .. End(c) - 1, x \notin o .. o + n - 1
       PROVE  x < End(f) /\ d[x - f.offset + 1] = f.data[x - f.offset + 1]
  <2>1. x - f.offset + 1 \notin m + 1 .. m + n /\ x - f.offset + 1 \in 1 .. w
    <3> HIDE DEF m, L
    <3>1. x \in f.offset .. f.offset + w - 1
      <4>0. f.offset \in Nat /\ w \in Nat
        BY <1>1, <1>5
      <4>1. End(c) - 1 = f.offset + w - 1
        BY <1>10, <4>0
      <4> QED BY <4>1, Zenon
    <3>2. x \notin f.offset + m .. f.offset + m + n - 1
      BY <1>2, <1>13
    <3> QED BY <1>5, <3>1, <3>2
  <2>2. x - f.offset + 1 \in 1 .. L
    BY <1>6, <2>1
  <2>3. x < End(f)
    BY <1>1, <2>2
  <2> QED BY <1>6, <2>1, <2>3
<1> QED BY <1>9, <1>11, <1>12, <1>13

\* frag_alloc() rounds up.
LEMMA PadFacts ==
    ASSUME NEW n \in Nat
    PROVE  CachePad(n) \in Nat /\ n <= CachePad(n)
<1> DEFINE q == n \div PadUnit
           r == n % PadUnit
<1>1. PadUnit \in Nat \ {0}
  BY FragmentsAssumption
<1>2. q \in Nat /\ r \in 0 .. PadUnit - 1 /\ n = PadUnit * q + r
  BY <1>1, ModParts
<1>3. CachePad(n) = (q + 1) * PadUnit
  BY DEF CachePad
<1> HIDE DEF q, r
<1>4. (q + 1) * PadUnit = PadUnit * q + PadUnit /\ PadUnit * q \in Nat
  BY <1>1, <1>2
<1> QED BY <1>1, <1>2, <1>3, <1>4

\* The list that a new fragment at o is put into: what is before k ends before
\* o, the rest begins behind it.
LEMMA RoomFacts ==
    ASSUME Good(frag), NEW o \in Nat, NEW R, R = MadeRoom(o), NEW k, k = NewPlace(o)
    PROVE  /\ R \in Seq(Fragment) /\ Len(R) = Len(frag)
           /\ Shrinks(R, frag) /\ Roomy(R)
           /\ k \in 1 .. Len(R) + 1
           /\ \A i \in 1 .. Len(R) : i < k => End(R[i]) <= o
           /\ \A i \in 1 .. Len(R) : i >= k => o <= R[i].offset
           /\ \A i \in 1 .. Len(frag) : \A x :
                Has(frag, i, x) /\ x < o => i < k /\ Has(R, i, x)
           /\ \A n \in Nat : (Touches(o) => ~Fits(o, n)) =>
                \A i \in 1 .. Len(frag) : \A x :
                   Has(frag, i, x) /\ x \notin o .. o + n - 1 => Has(R, i, x)
<1> DEFINE N == Len(frag)
           p == Place(o)
<1>0. frag \in Seq(Fragment) /\ Disjoint(frag) /\ Roomy(frag) /\ N \in Nat
  BY ListFacts DEF Good
<1>1. /\ p \in 1 .. N + 1
      /\ \A i \in 1 .. N : i < p => End(frag[i]) < o
      /\ Touches(o) <=> p \in 1 .. N /\ frag[p].offset <= o
      /\ Touches(o) => o <= End(frag[p])
      /\ \A i \in 1 .. N : i > p => o <= frag[i].offset
      /\ ~Touches(o) => \A i \in 1 .. N : i >= p => o <= frag[i].offset
  <2>1. p = Place(o)
    OBVIOUS
  <2> HIDE DEF p
  <2> QED BY <1>0, <2>1, PlaceFacts
<1>2. \A i \in 1 .. N : /\ frag[i].offset \in Nat /\ End(frag[i]) \in Nat
                        /\ frag[i].offset <= End(frag[i]) /\ Len(frag[i].data) \in Nat
                        /\ frag[i] \in Fragment
  BY <1>0, ListFacts
<1>3. ASSUME NEW i \in 1 .. N, NEW x, Has(frag, i, x), x < o
      PROVE  i < k
  <2>1. x \in Nat /\ frag[i].offset <= x
    BY <1>0, <1>3, HasIndex
  <2>2. ~(o <= frag[i].offset)
    BY <1>2, <1>3, <2>1
  <2>3. p \in Nat /\ i \in Nat
    BY <1>0, <1>1
  <2> QED BY <1>1, <2>2, <2>3 DEF NewPlace
<1>4. CASE ~Touches(o)
  <2>1. R = frag /\ k = p
    BY <1>4 DEF MadeRoom, NewPlace
  <2>2. Shrinks(frag, frag)
    BY <1>0, <1>2 DEF Shrinks
  <2>3. \A i \in 1 .. N : i < p => End(frag[i]) <= o
    BY <1>1, <1>2
  <2> HIDE DEF p
  <2> QED BY <1>0, <1>1, <1>3, <1>4, <2>1, <2>2, <2>3
<1>5. CASE Touches(o)
  <2> DEFINE n == o - frag[p].offset
             s == Shortened(frag[p], n)
  <2>1. p \in 1 .. N /\ frag[p].offset <= o /\ o <= End(frag[p]) /\ frag[p] \in Fragment
    BY <1>1, <1>2, <1>5
  <2>2. n \in 0 .. Len(frag[p].data)
    BY <1>0, <1>2, <2>1, FragmentFacts
  <2>3. /\ s \in Fragment /\ s.offset = frag[p].offset
        /\ s.real_length = frag[p].real_length /\ Len(s.data) = n
        /\ \A x \in 1 .. n : s.data[x] = frag[p].data[x]
    <3> HIDE DEF n, p
    <3> QED BY <2>1, <2>2, ShortenedFacts
  <2>4. R = [frag EXCEPT ![p] = s] /\ k = p + 1
    BY <1>5 DEF MadeRoom, NewPlace
  <2> HIDE DEF s, p
  <2>5. R \in Seq(Fragment) /\ Len(R) = N
    BY <1>0, <2>1, <2>3, <2>4, ExceptSeq
  <2>6. R[p] = s /\ \A i \in 1 .. N : i # p => R[i] = frag[i]
    BY <1>0, <2>1, <2>4
  <2>7. End(s) = o
    BY <1>2, <2>1, <2>3 DEF End
  <2>8. Shrinks(R, frag)
    <3> SUFFICES ASSUME NEW i \in 1 .. N
                 PROVE  /\ R[i].offset = frag[i].offset
                        /\ Len(R[i].data) <= Len(frag[i].data)
                        /\ \A x \in 1 .. Len(R[i].data) : R[i].data[x] = frag[i].data[x]
      BY <1>0, <2>5 DEF Shrinks
    <3>1. CASE i = p
      BY <1>2, <2>2, <2>3, <2>6, <3>1
    <3>2. CASE i # p
      BY <1>2, <2>6, <3>2
    <3> QED BY <3>1, <3>2
  <2>9. Roomy(R)
    <3> SUFFICES ASSUME NEW i \in 1 .. N PROVE Len(R[i].data) <= R[i].real_length
      BY <2>5 DEF Roomy
    <3>1. Len(frag[i].data) <= frag[i].real_length /\ frag[i].real_length \in Nat
      BY <1>0, <1>2, FragmentFacts DEF Roomy
    <3>2. CASE i = p
      BY <1>2, <2>2, <2>3, <2>6, <3>1, <3>2
    <3>3. CASE i # p
      BY <2>6, <3>1, <3>3
    <3> QED BY <3>2, <3>3
  <2>10. \A i \in 1 .. N : i < k => End(R[i]) <= o
    <3> SUFFICES ASSUME NEW i \in 1 .. N, i < k PROVE End(R[i]) <= o
      OBVIOUS
    <3>1. CASE i = p
      BY <2>6, <2>7, <3>1
    <3>2. CASE i # p
      <4>1. i < p
        BY <2>1, <2>4, <3>2
      <4> QED BY <1>1, <1>2, <2>6, <3>2, <4>1 DEF p
    <3> QED BY <3>1, <3>2
  <2>11. \A i \in 1 .. N : i >= k => o <= R[i].offset
    <3> SUFFICES ASSUME NEW i \in 1 .. N, i >= k PROVE o <= R[i].offset
      OBVIOUS
    <3>1. i > p /\ i # p
      BY <2>1, <2>4
    <3> QED BY <1>1, <2>6, <3>1 DEF p
  <2>12. ASSUME NEW i \in 1 .. N, NEW x, Has(frag, i, x), i # p \/ x < o
         PROVE  Has(R, i, x)
    <3>1. x \in Nat /\ frag[i].offset <= x
      BY <1>0, <2>12, HasIndex
    <3>2. CASE i # p
      BY <2>6, <2>12, <3>2 DEF Has
    <3>3. CASE i = p
      <4>1. x \in s.offset .. End(s) - 1
        BY <1>2, <2>3, <2>7, <2>12, <3>1, <3>3
      <4> QED BY <2>6, <3>3, <4>1 DEF Has
    <3> QED BY <3>2, <3>3
  <2>13. ASSUME NEW w \in Nat, ~Fits(o, w), NEW i \in 1 .. N, NEW x,
                Has(frag, i, x), x \notin o .. o + w - 1
         PROVE  i # p \/ x < o
    <3>1. ~(o + w <= End(frag[p]))
      BY <2>13 DEF Fits, p
    <3>2. x \in Nat /\ x < End(frag[i])
      BY <1>0, <2>13, HasIndex
    <3> QED BY <1>2, <2>1, <2>13, <3>1, <3>2
  <2>14. k \in 1 .. N + 1
    BY <1>0, <2>1, <2>4
  <2>15. \A i \in 1 .. N : \A x : Has(frag, i, x) /\ x < o => i < k /\ Has(R, i, x)
    BY <1>3, <2>12
  <2>16. \A w \in Nat : (Touches(o) => ~Fits(o, w)) =>
           \A i \in 1 .. N : \A x :
             Has(frag, i, x) /\ x \notin o .. o + w - 1 => Has(R, i, x)
    BY <1>5, <2>12, <2>13
  <2> QED BY <2>5, <2>8, <2>9, <2>10, <2>11, <2>14, <2>15, <2>16
<1> QED BY <1>4, <1>5

\* The new bytes are written into the fragment they touch.
LEMMA IntoFacts ==
    ASSUME Good(frag), Within(frag, MaxEnd),
           NEW o \in Nat, NEW n \in Nat, NEW e \in Nat, e = o + n,
           NEW v \in Versions, Touches(o), Fits(o, n),
           NEW k, k = Place(o), NEW ad, ad = [frag EXCEPT ![k] = Copied(@, o, n, v)],
           NEW h, Ended(h, ad, k, e)
    PROVE  /\ Good(h) /\ Filled(h, o, e, v)
           /\ Kept(frag, h, o .. MaxEnd, o .. e - 1)
           /\ Within(h, e)
<1> DEFINE N == Len(frag)
           f == frag[k]
           c == Copied(f, o, n, v)
<1>0. frag \in Seq(Fragment) /\ Disjoint(frag) /\ Roomy(frag) /\ N \in Nat
  BY ListFacts DEF Good
<1>1. /\ k \in 1 .. N /\ f.offset <= o /\ o <= End(f)
      /\ \A i \in 1 .. N : i > k => o <= frag[i].offset
  BY <1>0, PlaceFacts
<1>2. \A i \in 1 .. N : /\ frag[i].offset \in Nat /\ End(frag[i]) \in Nat
                        /\ frag[i].offset <= End(frag[i]) /\ Len(frag[i].data) \in Nat
                        /\ frag[i] \in Fragment
  BY <1>0, ListFacts
<1>3. /\ c \in Fragment /\ c.offset = f.offset
      /\ c.real_length = f.real_length
      /\ End(c) = IF End(f) >= o + n THEN End(f) ELSE o + n
      /\ \A x \in o .. o + n - 1 : c.data[x - f.offset + 1] = v
      /\ \A x \in f.offset .. End(c) - 1 : x \notin o .. o + n - 1 =>
           x < End(f) /\ c.data[x - f.offset + 1] = f.data[x - f.offset + 1]
  <2>1. f \in Fragment /\ f.offset <= o /\ o <= End(f)
    BY <1>1, <1>2
  <2> HIDE DEF f
  <2> QED BY <2>1, CopiedFacts
<1>4. ad = [frag EXCEPT ![k] = c]
  BY <1>0, <1>1
<1> HIDE DEF c
<1>5. /\ ad \in Seq(Fragment) /\ Len(ad) = N /\ ad[k] = c
      /\ \A i \in 1 .. N : i # k => ad[i] = frag[i]
  BY <1>0, <1>1, <1>3, <1>4, ExceptSeq
<1>6. f \in Fragment /\ f.offset \in Nat /\ End(f) \in Nat /\ End(c) \in Nat
  BY <1>1, <1>2, <1>3, FragmentFacts
<1>7. End(f) <= End(c) /\ o + n <= End(c)
  BY <1>3, <1>6
<1>8. DisjointBut(ad, k)
  <2> SUFFICES ASSUME NEW i \in 1 .. N, NEW j \in 1 .. N, i < j, i # k
               PROVE  End(ad[i]) <= ad[j].offset
    BY <1>5 DEF DisjointBut
  <2>1. End(frag[i]) <= frag[j].offset
    BY <1>0 DEF Disjoint
  <2>2. ad[j].offset = frag[j].offset
    BY <1>3, <1>5
  <2> QED BY <1>5, <2>1, <2>2
<1>9. Roomy(ad)
  <2> SUFFICES ASSUME NEW i \in 1 .. N PROVE Len(ad[i].data) <= ad[i].real_length
    BY <1>5 DEF Roomy
  <2>1. Len(frag[i].data) <= frag[i].real_length
    BY <1>0 DEF Roomy
  <2>2. CASE i # k
    BY <1>5, <2>1, <2>2
  <2>3. CASE i = k
    <3>1. o + n <= End(f) \/ o + n - f.offset <= f.real_length
      BY DEF Fits
    <3>2. Len(f.data) = End(f) - f.offset /\ Len(c.data) = End(c) - f.offset
      BY <1>3, <1>6, FragmentFacts
    <3>3. Len(f.data) <= f.real_length /\ f.real_length \in Nat
      BY <1>6, <2>1, <2>3, FragmentFacts
    <3>4. Len(c.data) <= f.real_length
      BY <1>3, <1>6, <3>1, <3>2, <3>3
    <3> QED BY <1>3, <1>5, <2>3, <3>4
  <2> QED BY <2>2, <2>3
<1>10. \A x \in o .. e - 1 : Byte(ad, k, x) = v
  BY <1>3, <1>5 DEF Byte
<1>11. ASSUME NEW i \in 1 .. N, NEW x, Has(ad, i, x)
       PROVE  \/ i = k /\ x \in o .. e - 1
              \/ \E q \in 1 .. N : Has(frag, q, x) /\ Byte(ad, i, x) = Byte(frag, q, x)
  <2>1. CASE i # k
    <3>1. Has(frag, i, x) /\ Byte(ad, i, x) = Byte(frag, i, x)
      BY <1>5, <1>11, <2>1 DEF Has, Byte
    <3> QED BY <3>1
  <2>2. CASE i = k /\ x \notin o .. e - 1
    <3>1. x \in f.offset .. End(c) - 1
      BY <1>3, <1>5, <1>11, <2>2 DEF Has
    <3>2. x < End(f) /\ c.data[x - f.offset + 1] = f.data[x - f.offset + 1]
      BY <1>3, <2>2, <3>1
    <3>3. x \in f.offset .. End(f) - 1
      BY <1>6, <3>1, <3>2
    <3>4. Has(frag, k, x)
      BY <3>3 DEF Has
    <3>5. Byte(ad, i, x) = Byte(frag, k, x)
      BY <1>3, <1>5, <2>2, <3>2 DEF Byte
    <3> QED BY <1>1, <3>4, <3>5
  <2> QED BY <2>1, <2>2
<1>12. ASSUME NEW q \in 1 .. N, NEW x, Has(frag, q, x), x < o
       PROVE  \E i \in 1 .. k : Has(ad, i, x)
  <2>1. x \in Nat /\ frag[q].offset <= x /\ x < End(frag[q])
    BY <1>0, <1>12, HasIndex
  <2>2. q \in 1 .. k
    <3>1. ~(o <= frag[q].offset)
      BY <1>2, <1>12, <2>1
    <3>2. ~(q > k)
      BY <1>1, <3>1
    <3> QED BY <1>1, <3>2
  <2>3. CASE q # k
    BY <1>5, <1>12, <2>2, <2>3 DEF Has
  <2>4. CASE q = k
    <3>1. x \in c.offset .. End(c) - 1
      BY <1>3, <1>6, <1>7, <2>1, <2>4
    <3>2. Has(ad, k, x)
      BY <1>5, <3>1 DEF Has
    <3> QED BY <2>2, <2>4, <3>2
  <2> QED BY <2>3, <2>4
<1>13. ad[k].offset <= o /\ e <= End(ad[k]) /\ k \in 1 .. Len(ad)
  BY <1>1, <1>3, <1>5, <1>7
<1>14. \A i \in 1 .. Len(ad) : \A x : Has(ad, i, x) =>
         \/ i = k /\ x \in o .. e - 1
         \/ \E q \in 1 .. Len(frag) : Has(frag, q, x) /\ Byte(ad, i, x) = Byte(frag, q, x)
  BY <1>5, <1>11
<1>15. \A q \in 1 .. Len(frag) : \A x : Has(frag, q, x) /\ x < o =>
         \E i \in 1 .. k : Has(ad, i, x)
  BY <1>12
<1>16. Written(ad, k, o, e, v)
  BY <1>5, <1>8, <1>9, <1>10, <1>13, <1>14, <1>15 DEF Written
<1>17. o <= e
  OBVIOUS
<1>18. Good(h) /\ Filled(h, o, e, v)
  BY <1>16, <1>17, WriteFacts
<1>19. Kept(frag, h, o .. MaxEnd, o .. e - 1)
  BY <1>16, <1>17, WriteFacts
<1>20. Within(h, e)
  BY <1>16, <1>17, WriteFacts
<1> QED BY <1>18, <1>19, <1>20

\* frag_alloc() and the new bytes.
NewFragment(o, n, v) ==
    [offset |-> o, real_length |-> CachePad(n), data |-> [i \in 1 .. n |-> v]]

\* They fit into the memory it allocates.
LEMMA NewFragmentFacts ==
    ASSUME NEW o \in 0 .. MaxEnd, NEW n \in Nat, NEW v \in Versions,
           NEW f, f = NewFragment(o, n, v)
    PROVE  /\ f \in Fragment /\ f.offset = o /\ End(f) = o + n
           /\ Len(f.data) = n /\ Len(f.data) <= f.real_length
           /\ \A i \in 1 .. n : f.data[i] = v
<1> DEFINE d == [i \in 1 .. n |-> v]
<1>1. d \in Seq(Versions) /\ Len(d) = n /\ \A i \in 1 .. n : d[i] = v
  <2>1. DOMAIN d = 1 .. n /\ d \in [1 .. n -> Versions] /\ \A i \in 1 .. n : d[i] = v
    OBVIOUS
  <2> HIDE DEF d
  <2> QED BY <2>1, LenProperties, IsASeq
<1>2. f = [offset |-> o, real_length |-> CachePad(n), data |-> d]
  BY DEF NewFragment
<1> HIDE DEF d
<1>3. /\ f \in Fragment /\ f.offset = o /\ f.data = d
      /\ f.real_length = CachePad(n)
  BY <1>1, <1>2, PadFacts DEF Fragment
<1> QED BY <1>1, <1>3, PadFacts DEF End

\* The list with a new fragment k for them, behind which nothing is changed.
Inserted(ad, k, o, e, v) ==
    /\ Written(ad, k, o, e, v)
    /\ ad[k].offset = o /\ End(ad[k]) = e
    /\ \A q \in 1 .. Len(frag) : k <= q =>
         q + 1 \in k + 1 .. Len(ad) /\ ad[q + 1] = MadeRoom(o)[q]

\* The new bytes become a fragment of the list.
LEMMA NewList ==
    ASSUME Good(frag),
           NEW o \in 0 .. MaxEnd, NEW n \in Nat, NEW e \in Nat, e = o + n,
           NEW v \in Versions,
           NEW k, k = NewPlace(o),
           NEW ad, ad = InsertAt(MadeRoom(o), k, NewFragment(o, n, v))
    PROVE  /\ Inserted(ad, k, o, e, v)
           /\ \A m \in Int : Within(frag, m) /\ e <= m => Within(ad, m)
<1> DEFINE N == Len(frag)
           R == MadeRoom(o)
           f == NewFragment(o, n, v)
<1>0. frag \in Seq(Fragment) /\ Disjoint(frag) /\ Roomy(frag) /\ N \in Nat /\ o \in Nat
  BY ListFacts DEF Good
<1>1. /\ R \in Seq(Fragment) /\ Len(R) = N /\ Shrinks(R, frag) /\ Roomy(R)
      /\ k \in 1 .. N + 1
  BY <1>0, RoomFacts
<1>2. /\ \A i \in 1 .. N : i < k => End(R[i]) <= o
      /\ \A i \in 1 .. N : i >= k => o <= R[i].offset
  BY <1>0, <1>1, RoomFacts
<1>3. \A i \in 1 .. N : \A x : Has(frag, i, x) /\ x < o => i < k /\ Has(R, i, x)
  BY <1>0, RoomFacts
<1>4. /\ f \in Fragment /\ f.offset = o /\ End(f) = o + n
      /\ Len(f.data) = n /\ Len(f.data) <= f.real_length
      /\ \A i \in 1 .. n : f.data[i] = v
  <2>1. f = NewFragment(o, n, v)
    OBVIOUS
  <2> HIDE DEF f
  <2>2. f \in Fragment /\ f.offset = o
    BY <2>1, NewFragmentFacts
  <2>3. End(f) = o + n /\ Len(f.data) = n
    BY <2>1, NewFragmentFacts
  <2>4. Len(f.data) <= f.real_length
    BY <2>1, NewFragmentFacts
  <2>5. \A i \in 1 .. n : f.data[i] = v
    <3>1. f.data = [i \in 1 .. n |-> v]
      BY <2>1 DEF NewFragment
    <3> QED BY <3>1, Zenon
  <2> QED BY <2>2, <2>3, <2>4, <2>5
<1>5. /\ Disjoint(R) /\ \A m \in Int : Within(frag, m) => Within(R, m)
      /\ \A i \in 1 .. N : \A x : Has(R, i, x) =>
           Has(frag, i, x) /\ Byte(R, i, x) = Byte(frag, i, x)
  BY <1>0, <1>1, ShrinksFacts
<1>6. ad = InsertAt(R, k, f)
  OBVIOUS
<1> HIDE DEF R, f
<1>7. /\ ad \in Seq(Fragment) /\ Len(ad) = N + 1
      /\ \A j \in 1 .. N + 1 :
           ad[j] = IF j < k THEN R[j] ELSE IF j = k THEN f ELSE R[j - 1]
  <2>1. R \in Seq(Fragment) /\ k \in 1 .. Len(R) + 1 /\ f \in Fragment
    BY <1>1, <1>4
  <2>2. InsertAt(R, k, f) \in Seq(Fragment) /\ Len(InsertAt(R, k, f)) = Len(R) + 1
    BY <2>1, InsertAtFacts
  <2>3. \A j \in 1 .. Len(R) + 1 :
          InsertAt(R, k, f)[j] = IF j < k THEN R[j] ELSE IF j = k THEN f ELSE R[j - 1]
    BY <2>1, InsertAtFacts
  <2> QED BY <1>1, <1>6, <2>2, <2>3
<1>8. k \in Nat /\ ad[k] = f
  BY <1>0, <1>1, <1>7
<1>9. ASSUME NEW j \in 1 .. N + 1, j < k PROVE j \in 1 .. N /\ ad[j] = R[j]
  BY <1>0, <1>1, <1>7, <1>9
<1>10. ASSUME NEW j \in 1 .. N + 1, j > k
       PROVE  j - 1 \in 1 .. N /\ j - 1 >= k /\ ad[j] = R[j - 1]
  BY <1>0, <1>1, <1>7, <1>10
<1>11. \A j \in 1 .. N + 1 : j \in Nat /\ (j < k \/ j = k \/ j > k)
  BY <1>0, <1>8
<1>12. DisjointBut(ad, k)
  <2> SUFFICES ASSUME NEW i \in 1 .. N + 1, NEW j \in 1 .. N + 1, i < j, i # k
               PROVE  End(ad[i]) <= ad[j].offset
    BY <1>7 DEF DisjointBut
  <2>0. \A a, b \in 1 .. N : a < b => End(R[a]) <= R[b].offset
    BY <1>1, <1>5 DEF Disjoint
  <2>1. \A a \in 1 .. N : End(R[a]) \in Nat /\ R[a].offset \in Nat
    BY <1>1, ListFacts
  <2>2. CASE j < k
    <3>1. i < k
      BY <1>8, <1>11, <2>2
    <3> QED BY <1>9, <2>0, <2>2, <3>1
  <2>3. CASE j = k
    BY <1>2, <1>4, <1>8, <1>9, <2>3
  <2>4. CASE j > k /\ i < k
    <3>1. i \in 1 .. N /\ ad[i] = R[i] /\ End(R[i]) <= o
      BY <1>2, <1>9, <2>4
    <3>2. ad[j] = R[j - 1] /\ o <= R[j - 1].offset /\ j - 1 \in 1 .. N
      BY <1>2, <1>10, <2>4
    <3> QED BY <1>0, <2>1, <3>1, <3>2
  <2>5. CASE j > k /\ i > k
    <3>1. /\ i - 1 \in 1 .. N /\ ad[i] = R[i - 1]
          /\ j - 1 \in 1 .. N /\ ad[j] = R[j - 1]
      BY <1>10, <2>5
    <3>2. i - 1 < j - 1
      BY <1>11
    <3> QED BY <2>0, <3>1, <3>2
  <2> QED BY <1>11, <2>2, <2>3, <2>4, <2>5
<1>13. Roomy(ad)
  <2> SUFFICES ASSUME NEW j \in 1 .. N + 1 PROVE Len(ad[j].data) <= ad[j].real_length
    BY <1>7 DEF Roomy
  <2>1. \A a \in 1 .. N : Len(R[a].data) <= R[a].real_length
    BY <1>1 DEF Roomy
  <2> QED BY <1>4, <1>8, <1>9, <1>10, <1>11, <2>1
<1>14. ASSUME NEW m \in Int, Within(frag, m), e <= m PROVE Within(ad, m)
  <2> SUFFICES ASSUME NEW j \in 1 .. N + 1 PROVE End(ad[j]) <= m
    BY <1>7 DEF Within
  <2>1. \A a \in 1 .. N : End(R[a]) <= m
    BY <1>1, <1>5, <1>14 DEF Within
  <2> QED BY <1>4, <1>8, <1>9, <1>10, <1>11, <1>14, <2>1
<1>15. \A x \in o .. o + n - 1 : Byte(ad, k, x) = v
  <2> SUFFICES ASSUME NEW x \in o .. o + n - 1 PROVE f.data[x - f.offset + 1] = v
    BY <1>8 DEF Byte
  <2>1. x - o + 1 \in 1 .. n
    BY <1>0
  <2> QED BY <1>4, <2>1
<1>16. ASSUME NEW j \in 1 .. N + 1, NEW x, Has(ad, j, x)
       PROVE  \/ j = k /\ x \in o .. o + n - 1
              \/ \E q \in 1 .. N : Has(frag, q, x) /\ Byte(ad, j, x) = Byte(frag, q, x)
  <2>1. CASE j = k
    BY <1>4, <1>8, <1>16, <2>1 DEF Has
  <2>2. CASE j < k
    <3>1. j \in 1 .. N /\ Has(R, j, x) /\ Byte(ad, j, x) = Byte(R, j, x)
      BY <1>9, <1>16, <2>2 DEF Has, Byte
    <3> QED BY <1>5, <3>1
  <2>3. CASE j > k
    <3>1. j - 1 \in 1 .. N /\ Has(R, j - 1, x) /\ Byte(ad, j, x) = Byte(R, j - 1, x)
      BY <1>10, <1>16, <2>3 DEF Has, Byte
    <3>2. Has(frag, j - 1, x) /\ Byte(R, j - 1, x) = Byte(frag, j - 1, x)
      BY <1>5, <3>1
    <3> QED BY <3>1, <3>2
  <2> QED BY <1>11, <2>1, <2>2, <2>3
<1>17. ASSUME NEW q \in 1 .. N, NEW x, Has(frag, q, x), x < o
       PROVE  \E i \in 1 .. k : Has(ad, i, x)
  <2>1. q < k /\ Has(R, q, x)
    BY <1>3, <1>17
  <2>2. q \in 1 .. N + 1 /\ q \in 1 .. k
    BY <1>0, <1>8, <2>1
  <2>3. Has(ad, q, x)
    BY <1>9, <2>1, <2>2 DEF Has
  <2> QED BY <2>2, <2>3
<1>18. /\ k \in 1 .. Len(ad) /\ ad[k].offset <= o /\ o + n <= End(ad[k])
  BY <1>0, <1>1, <1>4, <1>7, <1>8
<1>19. \A i \in 1 .. Len(ad) : \A x : Has(ad, i, x) =>
         \/ i = k /\ x \in o .. o + n - 1
         \/ \E q \in 1 .. Len(frag) : Has(frag, q, x) /\ Byte(ad, i, x) = Byte(frag, q, x)
  BY <1>7, <1>16
<1>20. \A q \in 1 .. Len(frag) : \A x : Has(frag, q, x) /\ x < o =>
         \E i \in 1 .. k : Has(ad, i, x)
  BY <1>17
<1>21. Written(ad, k, o, e, v)
  BY <1>7, <1>12, <1>13, <1>15, <1>18, <1>19, <1>20 DEF Written
<1>22. ASSUME NEW q \in 1 .. N, k <= q
       PROVE  q + 1 \in k + 1 .. Len(ad) /\ ad[q + 1] = R[q]
  <2>1. q + 1 \in 1 .. N + 1 /\ q + 1 > k /\ (q + 1) - 1 = q /\ q + 1 \in k + 1 .. N + 1
    BY <1>0, <1>1, <1>8, <1>22
  <2>2. ad[q + 1] = R[(q + 1) - 1]
    BY <1>10, <2>1
  <2> QED BY <1>7, <2>1, <2>2
<1>23. ad[k].offset = o /\ End(ad[k]) = e
  BY <1>4, <1>8
<1>24. Inserted(ad, k, o, e, v)
  BY <1>21, <1>22, <1>23 DEF Inserted, R
<1> QED BY <1>14, <1>24

\* What is left of it then.
LEMMA NewFacts ==
    ASSUME Good(frag), Within(frag, MaxEnd),
           NEW o \in 0 .. MaxEnd, NEW n \in Nat, NEW e \in Nat, e = o + n,
           NEW v \in Versions,
           NEW k, k = NewPlace(o),
           NEW ad, ad = InsertAt(MadeRoom(o), k, NewFragment(o, n, v)),
           NEW h, Joined(h, ad, k) \/ Ended(h, ad, k, e)
    PROVE  /\ Good(h) /\ Filled(h, o, e, v)
           /\ Kept(frag, h, o .. MaxEnd, o .. e - 1)
           /\ \A m \in Int : Within(frag, m) /\ e <= m => Within(h, m)
           /\ Ended(h, ad, k, e) => Within(h, e)
<1>0. o \in Nat /\ o <= e
  OBVIOUS
<1>1. Written(ad, k, o, e, v)
  BY NewList DEF Inserted
<1>2. \A m \in Int : Within(frag, m) /\ e <= m => Within(ad, m)
  BY NewList
<1>3. Good(h) /\ Filled(h, o, e, v)
  BY <1>0, <1>1, WriteFacts
<1>4. Kept(frag, h, o .. MaxEnd, o .. e - 1)
  BY <1>0, <1>1, WriteFacts
<1>5. \A m \in Int : Within(ad, m) => Within(h, m)
  BY <1>0, <1>1, WriteFacts
<1>6. Ended(h, ad, k, e) => Within(h, e)
  BY <1>0, <1>1, WriteFacts
<1> QED BY <1>2, <1>3, <1>4, <1>5, <1>6

-----------------------------------------------------------------------------
(* The bytes of a list, added up and put together.                         *)

\* d[k] is what the first k fragments hold.
Sums(d, fs) ==
    /\ \A k \in 0 .. Len(fs) : d[k] \in Nat
    /\ d[0] = 0
    /\ \A k \in 1 .. Len(fs) : d[k] = d[k - 1] + Len(fs[k].data)

\* Total is the last of these sums.
LEMMA TotalSums ==
    ASSUME NEW fs \in Seq(Fragment)
    PROVE  \E d : Sums(d, fs) /\ Total(fs) = d[Len(fs)]
<1> DEFINE N == Len(fs)
           F == [n \in 1 .. N |-> [s \in Nat |-> s + Len(fs[n].data)]]
<1>0. N \in Nat /\ \A n \in 1 .. N : Len(fs[n].data) \in Nat
  BY ListFacts
<1>1. StepsOn(F, N, Nat)
  <2>1. ASSUME NEW n \in 1 .. N, NEW s \in Nat PROVE s + Len(fs[n].data) \in Nat
    BY <1>0
  <2> QED BY <2>1 DEF StepsOn
<1>2. \A n \in 1 .. N : \A s \in Nat : F[n][s] = s + Len(fs[n].data)
  OBVIOUS
<1> HIDE DEF F, N
<1>3. PICK g \in [0 .. N -> Nat] : g[0] = 0 /\ \A n \in 1 .. N : g[n] = F[n][g[n - 1]]
  <2>1. N \in Nat /\ 0 \in Nat
    BY <1>0
  <2>2. PICK g : Follows(g, F, N, Nat, 0)
    BY <1>1, <2>1, StepByStep
  <2> QED BY <2>2 DEF Follows
<1>4. \A n \in 1 .. N : g[n] = g[n - 1] + Len(fs[n].data)
  <2>1. ASSUME NEW n \in 1 .. N PROVE g[n - 1] \in Nat
    <3>1. n - 1 \in 0 .. N
      BY <1>0
    <3> QED BY <3>1
  <2> QED BY <1>2, <1>3, <2>1
<1> DEFINE body(n, f) == IF n = 0 THEN 0 ELSE f[n - 1] + Len(fs[n].data)
<1>5. \A n \in 0 .. N : g[n] = body(n, g)
  <2>1. \A n \in 0 .. N : n # 0 => n \in 1 .. N
    BY <1>0
  <2> QED BY <1>3, <1>4, <2>1
<1>6. g = [n \in 0 .. N |-> body(n, g)]
  <2> HIDE DEF body
  <2> QED BY <1>5
<1> DEFINE d == CHOOSE f : f = [n \in 0 .. N |-> body(n, f)]
<1>7. d = [n \in 0 .. N |-> body(n, d)]
  <2> HIDE DEF body
  <2> QED BY <1>6, Zenon
<1>8. Total(fs) = d[Len(fs)]
  BY Zenon DEF Total, N
<1> HIDE DEF d
<1>9. \A n \in 0 .. N : d[n] = body(n, d)
  <2> HIDE DEF body
  <2> QED BY <1>7
<1>10. d[0] = 0 /\ \A n \in 1 .. N : d[n] = d[n - 1] + Len(fs[n].data)
  <2>1. 0 \in 0 .. N /\ \A n \in 1 .. N : n \in 0 .. N /\ n # 0
    BY <1>0
  <2> QED BY <1>9, <2>1
<1> DEFINE T == {n \in 0 .. N : d[n] \in Nat}
<1>11. 0 \in T
  BY <1>0, <1>10
<1>12. ASSUME NEW n \in 1 .. N, n - 1 \in T PROVE n \in T
  <2>1. d[n - 1] \in Nat /\ Len(fs[n].data) \in Nat /\ n \in 0 .. N
    BY <1>0, <1>12
  <2>2. d[n] = d[n - 1] + Len(fs[n].data)
    BY <1>10
  <2>3. d[n] \in Nat
    BY <2>1, <2>2
  <2> QED BY <2>1, <2>3
<1>13. \A n \in 0 .. N : n \in T
  <2> HIDE DEF T
  <2> QED BY <1>0, <1>11, <1>12, CountInduction
<1> QED BY <1>8, <1>10, <1>13 DEF Sums, N

\* A list of as many fragments that are no longer holds no more.
LEMMA TotalSmaller ==
    ASSUME NEW fs \in Seq(Fragment), NEW gs \in Seq(Fragment), Len(gs) = Len(fs),
           \A i \in 1 .. Len(fs) : Len(gs[i].data) <= Len(fs[i].data)
    PROVE  Total(gs) <= Total(fs)
<1> DEFINE N == Len(fs)
<1>0. /\ N \in Nat
      /\ \A i \in 1 .. N : Len(fs[i].data) \in Nat /\ Len(gs[i].data) \in Nat
  BY ListFacts
<1>1. PICK a : Sums(a, fs) /\ Total(fs) = a[N]
  BY TotalSums
<1>2. PICK b : Sums(b, gs) /\ Total(gs) = b[N]
  BY TotalSums
<1>3. /\ a[0] = 0 /\ b[0] = 0
      /\ \A k \in 0 .. N : a[k] \in Nat /\ b[k] \in Nat
      /\ \A k \in 1 .. N : /\ a[k] = a[k - 1] + Len(fs[k].data)
                           /\ b[k] = b[k - 1] + Len(gs[k].data)
  BY <1>1, <1>2 DEF Sums
<1> DEFINE T == {n \in 0 .. N : b[n] <= a[n]}
<1>4. 0 \in T
  BY <1>0, <1>3
<1>5. ASSUME NEW n \in 1 .. N, n - 1 \in T PROVE n \in T
  <2>1. n - 1 \in 0 .. N /\ n \in 0 .. N /\ b[n - 1] <= a[n - 1]
    BY <1>5
  <2>2. /\ Len(gs[n].data) <= Len(fs[n].data)
        /\ Len(gs[n].data) \in Nat /\ Len(fs[n].data) \in Nat
        /\ a[n - 1] \in Nat /\ b[n - 1] \in Nat
    BY <1>0, <1>3, <2>1
  <2>3. a[n] = a[n - 1] + Len(fs[n].data) /\ b[n] = b[n - 1] + Len(gs[n].data)
    BY <1>3
  <2>4. b[n] <= a[n]
    BY <2>1, <2>2, <2>3
  <2> QED BY <2>1, <2>4
<1>6. \A n \in 0 .. N : n \in T
  <2> HIDE DEF T, N
  <2> QED BY <1>0, <1>4, <1>5, CountInduction
<1>7. b[N] <= a[N]
  BY <1>0, <1>6
<1> QED BY <1>1, <1>2, <1>7

\* The first m fragments become one.
LEMMA TotalMerged ==
    ASSUME NEW fs \in Seq(Fragment), NEW gs \in Seq(Fragment), NEW a, Sums(a, fs),
           NEW m \in 1 .. Len(fs), Len(gs) = Len(fs) - m + 1,
           Len(gs[1].data) = a[m],
           \A j \in 2 .. Len(gs) : gs[j] = fs[j + m - 1]
    PROVE  Total(gs) = a[Len(fs)]
<1> DEFINE N == Len(fs)
           M == N - m
<1>0. N \in Nat /\ m \in Nat /\ M \in Nat /\ Len(gs) = M + 1 /\ N = M + m
  BY ListFacts
<1>1. PICK b : Sums(b, gs) /\ Total(gs) = b[Len(gs)]
  BY TotalSums
<1>2. /\ \A k \in 0 .. N : a[k] \in Nat
      /\ \A k \in 1 .. N : a[k] = a[k - 1] + Len(fs[k].data)
  BY DEF Sums
<1>3. /\ b[0] = 0 /\ \A k \in 0 .. M + 1 : b[k] \in Nat
      /\ \A k \in 1 .. M + 1 : b[k] = b[k - 1] + Len(gs[k].data)
  BY <1>0, <1>1 DEF Sums
<1> HIDE DEF N, M
<1> DEFINE T == {n \in 0 .. M : b[n + 1] = a[n + m]}
<1>4. 0 \in T
  <2>1. b[1] = b[1 - 1] + Len(gs[1].data)
    BY <1>0, <1>3
  <2>2. a[m] \in Nat
    BY <1>0, <1>2
  <2>3. b[0 + 1] = a[0 + m]
    BY <1>0, <1>3, <2>1, <2>2
  <2> QED BY <1>0, <2>3
<1>5. ASSUME NEW n \in 1 .. M, n - 1 \in T PROVE n \in T
  <2>1. b[n] = a[n + m - 1]
    <3>1. n - 1 + 1 = n /\ n - 1 + m = n + m - 1
      BY <1>0
    <3> QED BY <1>5, <3>1
  <2>2. b[n + 1] = b[n] + Len(gs[n + 1].data)
    <3>1. n + 1 \in 1 .. M + 1 /\ n + 1 - 1 = n
      BY <1>0
    <3> QED BY <1>3, <3>1
  <2>3. a[n + m] = a[n + m - 1] + Len(fs[n + m].data)
    <3>1. n + m \in 1 .. N
      BY <1>0
    <3> QED BY <1>2, <3>1
  <2>4. gs[n + 1] = fs[n + m]
    <3>1. n + 1 \in 2 .. Len(gs) /\ n + 1 + m - 1 = n + m
      BY <1>0
    <3> QED BY <3>1
  <2>5. n \in 0 .. M
    BY <1>0
  <2> QED BY <2>1, <2>2, <2>3, <2>4, <2>5
<1>6. \A n \in 0 .. M : n \in T
  <2> HIDE DEF T
  <2> QED BY <1>0, <1>4, <1>5, CountInduction
<1>7. b[M + 1] = a[M + m]
  BY <1>0, <1>6
<1> QED BY <1>0, <1>1, <1>7 DEF N

\* Up to which fragment the list has no gap.
LEMMA AdjacentFacts ==
    ASSUME Good(frag), Begins, NEW m, m = Adjacent
    PROVE  /\ m \in 1 .. Len(frag)
           /\ \A i \in 2 .. m : frag[i].offset = End(frag[i - 1])
           /\ \A i \in m + 1 .. Len(frag) : End(frag[m]) < frag[i].offset
<1> DEFINE N == Len(frag)
           A == {k \in 1 .. N : \A i \in 2 .. k : frag[i].offset = End(frag[i - 1])}
<1>0. frag \in Seq(Fragment) /\ Disjoint(frag) /\ frag # << >>
  BY DEF Good, Begins
<1>1. N \in Nat /\ \A i \in 1 .. N : /\ frag[i].offset \in Nat /\ End(frag[i]) \in Nat
                                     /\ frag[i].offset <= End(frag[i])
  BY <1>0, ListFacts
<1>2. 1 \in A
  <2>1. N # 0
    BY <1>0, EmptySeq
  <2> QED BY <1>1, <2>1
<1>3. m \in A /\ \A k \in A : m >= k
  <2>1. A \in SUBSET (0 .. N) /\ A # {}
    BY <1>1, <1>2
  <2>2. m = Max(A)
    BY DEF Adjacent
  <2> HIDE DEF A
  <2> QED BY <1>1, <2>1, <2>2, MaxFacts
<1>4. m \in 1 .. N /\ m \in Nat /\ \A i \in 2 .. m : frag[i].offset = End(frag[i - 1])
  BY <1>1, <1>3
<1>5. ASSUME m + 1 \in 1 .. N PROVE End(frag[m]) < frag[m + 1].offset
  <2>1. ~(m + 1 \in A)
    BY <1>3, <1>4
  <2>2. frag[m + 1].offset # End(frag[m])
    <3> SUFFICES ASSUME frag[m + 1].offset = End(frag[m]) PROVE m + 1 \in A
      BY <2>1
    <3>1. ASSUME NEW i \in 2 .. m + 1 PROVE frag[i].offset = End(frag[i - 1])
      <4>1. CASE i \in 2 .. m
        BY <1>4, <4>1
      <4>2. CASE i = m + 1
        <5>1. i - 1 = m
          BY <1>4, <4>2
        <5> QED BY <4>2, <5>1
      <4> QED BY <1>4, <4>1, <4>2
    <3> QED BY <1>5, <3>1
  <2>3. End(frag[m]) <= frag[m + 1].offset
    BY <1>0, <1>4, <1>5 DEF Disjoint
  <2> QED BY <1>1, <1>4, <1>5, <2>2, <2>3
<1>6. ASSUME NEW i \in m + 1 .. N PROVE End(frag[m]) < frag[i].offset
  <2>1. m + 1 \in 1 .. N /\ i \in 1 .. N
    BY <1>1, <1>4
  <2>2. CASE i = m + 1
    BY <1>5, <2>1, <2>2
  <2>3. CASE i # m + 1
    <3>1. m + 1 < i
      BY <1>4, <2>3
    <3>2. End(frag[m + 1]) <= frag[i].offset
      BY <1>0, <2>1, <3>1 DEF Disjoint
    <3> QED BY <1>1, <1>4, <1>5, <2>1, <3>2
  <2> QED BY <2>2, <2>3
<1> QED BY <1>4, <1>6

\* j[k] is the data of the first k fragments, one behind the other.
Concatenates(j) ==
    /\ \A k \in 0 .. Len(frag) : j[k] \in Seq(Versions)
    /\ j[0] = << >>
    /\ \A k \in 1 .. Len(frag) : j[k] = j[k - 1] \o frag[k].data

\* What get_cache_fragment() puts together is one of these.
LEMMA JoinedSteps ==
    ASSUME frag \in Seq(Fragment), Begins
    PROVE  \E j : Concatenates(j) /\ CacheFragment = j[Adjacent]
<1> DEFINE N == Len(frag)
           V == Seq(Versions)
           F == [n \in 1 .. N |-> [s \in V |-> s \o frag[n].data]]
<1>0. N \in Nat /\ \A n \in 1 .. N : frag[n].data \in V
  BY ListFacts
<1>1. StepsOn(F, N, V)
  <2>1. ASSUME NEW n \in 1 .. N, NEW s \in V PROVE s \o frag[n].data \in V
    BY <1>0, ConcatProperties
  <2> HIDE DEF V
  <2> QED BY <2>1 DEF StepsOn
<1>2. \A n \in 1 .. N : \A s \in V : F[n][s] = s \o frag[n].data
  <2> HIDE DEF V
  <2> QED OBVIOUS
<1>3. << >> \in V
  OBVIOUS
<1> HIDE DEF F, N, V
<1>4. PICK g \in [0 .. N -> V] : g[0] = << >> /\ \A n \in 1 .. N : g[n] = F[n][g[n - 1]]
  <2>1. PICK g : Follows(g, F, N, V, << >>)
    BY <1>0, <1>1, <1>3, StepByStep
  <2> QED BY <2>1 DEF Follows
<1>5. \A n \in 1 .. N : g[n] = g[n - 1] \o frag[n].data
  <2>1. ASSUME NEW n \in 1 .. N PROVE g[n - 1] \in V
    <3>1. n - 1 \in 0 .. N
      BY <1>0
    <3> QED BY <3>1
  <2> QED BY <1>2, <1>4, <2>1
<1> DEFINE body(n, f) == IF n = 0 THEN << >> ELSE f[n - 1] \o frag[n].data
<1>6. \A n \in 0 .. N : g[n] = body(n, g)
  <2>1. \A n \in 0 .. N : n # 0 => n \in 1 .. N
    BY <1>0
  <2> QED BY <1>4, <1>5, <2>1
<1>7. g = [n \in 0 .. N |-> body(n, g)]
  <2> HIDE DEF body
  <2> QED BY <1>6
<1> DEFINE d == CHOOSE f : f = [n \in 0 .. N |-> body(n, f)]
<1>8. d = [n \in 0 .. N |-> body(n, d)]
  <2> HIDE DEF body
  <2> QED BY <1>7, Zenon
<1>9. CacheFragment = d[Adjacent]
  <2>1. CacheFragment = IF Begins THEN d[Adjacent] ELSE << >>
    BY Zenon DEF CacheFragment, N
  <2> HIDE DEF d
  <2> QED BY <2>1
<1> HIDE DEF d
<1>10. \A n \in 0 .. N : d[n] = body(n, d)
  <2> HIDE DEF body
  <2> QED BY <1>8
<1>11. d[0] = << >> /\ \A n \in 1 .. N : d[n] = d[n - 1] \o frag[n].data
  <2>1. 0 \in 0 .. N /\ \A n \in 1 .. N : n \in 0 .. N /\ n # 0
    BY <1>0
  <2> QED BY <1>10, <2>1
<1> DEFINE T == {n \in 0 .. N : d[n] \in V}
<1>12. 0 \in T
  BY <1>0, <1>3, <1>11
<1>13. ASSUME NEW n \in 1 .. N, n - 1 \in T PROVE n \in T
  <2>1. d[n - 1] \in V /\ frag[n].data \in V /\ n \in 0 .. N
    BY <1>0, <1>13
  <2>2. d[n - 1] \o frag[n].data \in V
    BY <2>1, ConcatProperties DEF V
  <2>3. d[n] \in V
    BY <1>11, <2>2
  <2> QED BY <2>1, <2>3
<1>14. \A n \in 0 .. N : n \in T
  <2> HIDE DEF T
  <2> QED BY <1>0, <1>12, <1>13, CountInduction
<1> QED BY <1>9, <1>11, <1>14 DEF Concatenates, N, V

\* What get_cache_fragment() returns: all bytes up to the first gap.
LEMMA ReadFacts ==
    ASSUME Good(frag), Begins, NEW m, m = Adjacent, NEW c, c = CacheFragment,
           NEW a, Sums(a, frag)
    PROVE  /\ c \in Seq(Versions) /\ Len(c) = End(frag[m]) /\ a[m] = End(frag[m])
           /\ \A x \in 0 .. End(frag[m]) - 1 :
                \E i \in 1 .. m : Has(frag, i, x) /\ c[x + 1] = Byte(frag, i, x)
<1> DEFINE N == Len(frag)
<1>0. frag \in Seq(Fragment) /\ frag[1].offset = 0
  BY DEF Good, Begins
<1>1. m \in 1 .. N /\ \A i \in 2 .. m : frag[i].offset = End(frag[i - 1])
  BY AdjacentFacts
<1>2. N \in Nat /\ m \in Nat /\
      \A i \in 1 .. N : /\ frag[i].offset \in Nat /\ End(frag[i]) \in Nat
                        /\ frag[i].offset <= End(frag[i])
                        /\ frag[i].data \in Seq(Versions) /\ Len(frag[i].data) \in Nat
                        /\ Len(frag[i].data) = End(frag[i]) - frag[i].offset
  BY <1>0, <1>1, ListFacts
<1>3. PICK j : Concatenates(j) /\ CacheFragment = j[Adjacent]
  BY <1>0, JoinedSteps
<1>4. /\ \A k \in 0 .. N : j[k] \in Seq(Versions)
      /\ j[0] = << >>
      /\ \A k \in 1 .. N : j[k] = j[k - 1] \o frag[k].data
  BY <1>3 DEF Concatenates
<1>5. /\ \A k \in 0 .. N : a[k] \in Nat
      /\ a[0] = 0
      /\ \A k \in 1 .. N : a[k] = a[k - 1] + Len(frag[k].data)
  BY DEF Sums
<1> DEFINE e(n) == IF n = 0 THEN 0 ELSE End(frag[n])
           P(n) == /\ Len(j[n]) = e(n) /\ a[n] = e(n)
                   /\ \A x \in 0 .. e(n) - 1 :
                        \E i \in 1 .. n : Has(frag, i, x) /\ j[n][x + 1] = Byte(frag, i, x)
           T == {n \in 0 .. m : P(n)}
<1>6. \A n \in 0 .. m : e(n) \in Nat /\ (n # 0 => e(n) = End(frag[n]))
  BY <1>1, <1>2
<1>7. ASSUME NEW n \in 1 .. m
      PROVE  /\ n \in 1 .. N /\ n - 1 \in 0 .. N /\ n - 1 \in 0 .. m
             /\ frag[n].offset = e(n - 1) /\ n # 0
  <2>1. n \in 1 .. N /\ n - 1 \in 0 .. N /\ n - 1 \in 0 .. m /\ n # 0
    BY <1>1, <1>2
  <2>2. CASE n = 1
    BY <1>0, <2>1, <2>2
  <2>3. CASE n # 1
    <3>1. n \in 2 .. m /\ n - 1 # 0
      BY <1>2, <2>3
    <3>2. frag[n].offset = End(frag[n - 1])
      BY <1>1, <3>1
    <3> QED BY <2>1, <3>1, <3>2
  <2> QED BY <2>1, <2>2, <2>3
<1> HIDE DEF e, N
<1>8. 0 \in T
  <2>1. e(0) = 0
    BY DEF e
  <2>2. Len(j[0]) = 0
    BY <1>4
  <2> QED BY <1>2, <1>5, <2>1, <2>2
<1>9. ASSUME NEW n \in 1 .. m, n - 1 \in T PROVE n \in T
  <2> DEFINE p == n - 1
             f == frag[n]
             s == j[p]
             t == j[n]
  <2>0. n \in 1 .. N /\ p \in 0 .. N /\ p \in 0 .. m /\ n \in 0 .. m /\ n # 0
    <3>1. n \in 1 .. N /\ n - 1 \in 0 .. N /\ n - 1 \in 0 .. m /\ n # 0
      BY <1>7, Zenon
    <3>2. n \in 0 .. m
      BY <1>2
    <3> QED BY <3>1, <3>2, Zenon
  <2>1. /\ Len(s) = e(p) /\ a[p] = e(p)
        /\ \A x \in 0 .. e(p) - 1 :
             \E i \in 1 .. p : Has(frag, i, x) /\ s[x + 1] = Byte(frag, i, x)
    BY <1>9
  <2>2. t = s \o f.data /\ s \in Seq(Versions) /\ a[n] = a[p] + Len(f.data)
    BY <1>4, <1>5, <2>0
  <2>3. /\ f.data \in Seq(Versions) /\ f.offset \in Nat /\ End(f) \in Nat
        /\ f.offset <= End(f)
        /\ Len(f.data) = End(f) - f.offset /\ f.offset = e(p) /\ e(n) = End(f)
    BY <1>2, <1>6, <1>7, <2>0
  <2> HIDE DEF f, s, t
  <2>4. /\ t \in Seq(Versions) /\ Len(t) = Len(s) + Len(f.data)
        /\ \A i \in 1 .. Len(s) + Len(f.data) :
             t[i] = IF i <= Len(s) THEN s[i] ELSE f.data[i - Len(s)]
    BY <2>2, <2>3, ConcatProperties
  <2>5. Len(t) = e(n) /\ a[n] = e(n) /\ Len(s) + Len(f.data) = End(f)
    BY <2>1, <2>2, <2>3, <2>4
  <2>6. ASSUME NEW x \in 0 .. e(n) - 1
        PROVE  \E i \in 1 .. n : Has(frag, i, x) /\ t[x + 1] = Byte(frag, i, x)
    <3>0. x \in Nat /\ x < End(f) /\ x + 1 \in 1 .. Len(s) + Len(f.data)
      BY <2>3, <2>5
    <3>1. t[x + 1] = IF x + 1 <= Len(s) THEN s[x + 1] ELSE f.data[x + 1 - Len(s)]
      BY <2>4, <3>0
    <3>2. CASE x < e(p)
      <4>1. x \in 0 .. e(p) - 1 /\ x + 1 <= Len(s)
        BY <2>1, <2>3, <3>0, <3>2
      <4>2. PICK i \in 1 .. p : Has(frag, i, x) /\ s[x + 1] = Byte(frag, i, x)
        BY <2>1, <4>1
      <4>3. i \in 1 .. n
        BY <1>2, <2>0
      <4> QED BY <3>1, <4>1, <4>2, <4>3
    <3>3. CASE ~(x < e(p))
      <4>1. ~(x + 1 <= Len(s)) /\ x + 1 - Len(s) = x - f.offset + 1
        BY <2>1, <2>3, <3>0, <3>3
      <4>2. t[x + 1] = f.data[x - f.offset + 1]
        BY <3>1, <4>1
      <4>3. x \in f.offset .. End(f) - 1
        BY <2>3, <3>0, <3>3
      <4>4. Has(frag, n, x) /\ t[x + 1] = Byte(frag, n, x)
        BY <4>2, <4>3 DEF Has, Byte, f
      <4>5. n \in 1 .. n
        BY <2>0
      <4> QED BY <4>4, <4>5
    <3> QED BY <3>2, <3>3
  <2> QED BY <2>0, <2>5, <2>6 DEF t
<1>10. \A n \in 0 .. m : n \in T
  <2> HIDE DEF T
  <2> QED BY <1>2, <1>8, <1>9, CountInduction
<1>11. P(m) /\ e(m) = End(frag[m]) /\ m \in 0 .. N
  BY <1>1, <1>2, <1>6, <1>10
<1> QED BY <1>3, <1>4, <1>11

-----------------------------------------------------------------------------
(* One lemma for each operation.                                           *)

\* WellFormed in the terms of this module.
LEMMA Parts ==
    ASSUME WellFormed
    PROVE  /\ Good(frag) /\ Within(frag, length) /\ Within(frag, MaxEnd)
           /\ length \in 0 .. MaxEnd /\ length \in Nat
           /\ data_size \in Nat /\ data_size >= Total(frag)
           /\ incomplete \in BOOLEAN /\ id \in 0 .. 1
<1>1. /\ frag \in Seq(Fragment) /\ length \in 0 .. MaxEnd /\ data_size \in Nat
      /\ incomplete \in BOOLEAN /\ id \in 0 .. 1
  BY DEF WellFormed, TypeOK
<1>2. length \in Nat /\ length <= MaxEnd /\ MaxEnd \in Nat
  BY <1>1, FragmentsAssumption
<1>3. Disjoint(frag) /\ Roomy(frag) /\ Within(frag, length) /\ data_size >= Total(frag)
  BY DEF WellFormed, Disjoint, Roomy, Within
<1>4. Within(frag, MaxEnd)
  <2> SUFFICES ASSUME NEW i \in 1 .. Len(frag) PROVE End(frag[i]) <= MaxEnd
    BY DEF Within
  <2>1. End(frag[i]) <= length /\ End(frag[i]) \in Nat
    BY <1>1, <1>3, ListFacts DEF Within
  <2> QED BY <1>2, <2>1
<1> QED BY <1>1, <1>2, <1>3, <1>4 DEF Good

\* The account after enlarge_entry() covers the new list if it did the old.
LEMMA EnlargedFacts ==
    ASSUME NEW fs \in Seq(Fragment), NEW gs \in Seq(Fragment), data_size \in Nat,
           data_size >= Total(fs)
    PROVE  /\ Enlarged(fs, gs) \in Nat /\ Enlarged(fs, gs) >= Total(gs)
           /\ Total(gs) \in Nat
<1>1. PICK a : Sums(a, fs) /\ Total(fs) = a[Len(fs)]
  BY TotalSums
<1>2. PICK b : Sums(b, gs) /\ Total(gs) = b[Len(gs)]
  BY TotalSums
<1>3. Len(fs) \in 0 .. Len(fs) /\ Len(gs) \in 0 .. Len(gs)
  BY ListFacts
<1>4. Total(fs) \in Nat /\ Total(gs) \in Nat
  BY <1>1, <1>2, <1>3 DEF Sums
<1> QED BY <1>4 DEF Enlarged

\* What a step has to do to keep the entry well formed.
Fine == /\ Good(frag') /\ Within(frag', length')
        /\ length' \in 0 .. MaxEnd
        /\ data_size' \in Nat /\ data_size' >= Total(frag')

\* It does, if the other fields keep their types.
LEMMA Whole ==
    ASSUME Fine, incomplete' \in BOOLEAN, id' \in 0 .. 1
    PROVE  WellFormed'
<1>1. TypeOK'
  BY DEF TypeOK, Fine, Good
<1> QED BY <1>1 DEF WellFormed, Fine, Good, Disjoint, Roomy, Within

\* Another id.
LEMMA IdFacts ==
    ASSUME id \in 0 .. 1, NewId
    PROVE  id' \in 0 .. 1 /\ id' # id
BY DEF NewId

\* add_fragment() with memory for the new bytes: they are there afterwards,
\* and what was before them.
LEMMA WriteStep ==
    ASSUME WellFormed, NEW o \in 0 .. MaxEnd, NEW n \in 1 .. MaxEnd - o,
           NEW e, e = o + n, NEW v \in Versions, NEW mem \in BOOLEAN,
           InsertInto(o, n, v, mem) \/ InsertNew(o, n, v, mem)
    PROVE  /\ Fine /\ Filled(frag', o, e, v)
           /\ Kept(frag, frag', o .. MaxEnd, o .. e - 1)
           /\ length' \in {e, Max({length, e})}
           /\ incomplete' \in BOOLEAN /\ NewId
<1>0. /\ Good(frag) /\ Within(frag, length) /\ Within(frag, MaxEnd)
      /\ length \in 0 .. MaxEnd /\ length \in Nat
      /\ data_size \in Nat /\ data_size >= Total(frag)
      /\ incomplete \in BOOLEAN
  BY Parts
<1>1. /\ o \in Nat /\ n \in Nat /\ e \in Nat /\ e <= MaxEnd /\ MaxEnd \in Nat
      /\ e \in 0 .. MaxEnd
  BY FragmentsAssumption
<1>2. frag \in Seq(Fragment)
  BY <1>0 DEF Good
<1>3. CASE InsertInto(o, n, v, mem)
  <2> DEFINE k == Place(o)
             ad == [frag EXCEPT ![k] = Copied(@, o, n, v)]
             g == RemoveOverlaps(ad, k, mem)
  <2>1. /\ Touches(o) /\ Fits(o, n)
        /\ frag' = Truncate(g, o + n, FALSE) /\ data_size' = Enlarged(frag, frag')
        /\ length' = o + n /\ incomplete' = (incomplete \/ length > o + n) /\ NewId
    BY <1>3 DEF InsertInto
  <2>2. Ended(frag', ad, k, e)
    <3>1. Joined(g, ad, k)
      BY DEF Joined
    <3> HIDE DEF g
    <3> QED BY <2>1, <3>1 DEF Ended
  <2>3. k = Place(o) /\ ad = [frag EXCEPT ![k] = Copied(@, o, n, v)]
    OBVIOUS
  <2> HIDE DEF k, ad
  <2>4. /\ Good(frag') /\ Filled(frag', o, e, v)
        /\ Kept(frag, frag', o .. MaxEnd, o .. e - 1) /\ Within(frag', e)
    BY <1>0, <1>1, <2>1, <2>2, <2>3, IntoFacts
  <2>5. data_size' \in Nat /\ data_size' >= Total(frag')
    <3>1. frag' \in Seq(Fragment)
      BY <2>4 DEF Good
    <3> QED BY <1>0, <1>2, <2>1, <3>1, EnlargedFacts
  <2>6. length' = e /\ incomplete' \in BOOLEAN
    BY <1>0, <2>1
  <2> QED BY <1>1, <2>1, <2>4, <2>5, <2>6 DEF Fine
<1>4. CASE InsertNew(o, n, v, mem)
  <2> DEFINE k == NewPlace(o)
             R == MadeRoom(o)
             f == NewFragment(o, n, v)
             ad == InsertAt(R, k, f)
             g == RemoveOverlaps(ad, k, mem)
             end == Max({length, e})
  <2>0. end = IF length >= e THEN length ELSE e
    BY <1>0, <1>1, MaxOfTwo
  <2>1. /\ frag' = IF Trunc(ad, k, mem) THEN Truncate(g, e, FALSE) ELSE g
        /\ data_size' = Enlarged(R, frag')
        /\ length' = IF Trunc(ad, k, mem) THEN e ELSE end
        /\ incomplete' = (incomplete \/ length' < end) /\ NewId
    BY <1>4 DEF InsertNew, NewFragment
  <2>2. ad = InsertAt(MadeRoom(o), k, NewFragment(o, n, v)) /\ k = NewPlace(o)
    OBVIOUS
  <2>3. Joined(g, ad, k)
    BY DEF Joined
  <2>4. R \in Seq(Fragment) /\ Total(R) <= Total(frag)
    <3>1. R \in Seq(Fragment) /\ Len(R) = Len(frag) /\ Shrinks(R, frag)
      BY <1>0, <1>1, RoomFacts
    <3> HIDE DEF R
    <3>2. \A i \in 1 .. Len(frag) : Len(R[i].data) <= Len(frag[i].data)
      BY <3>1 DEF Shrinks
    <3> QED BY <1>2, <3>1, <3>2, TotalSmaller
  <2> HIDE DEF k, ad, g, R, end
  <2>5. /\ Joined(frag', ad, k) \/ Ended(frag', ad, k, e)
        /\ Trunc(ad, k, mem) => Ended(frag', ad, k, e)
    <3>1. CASE Trunc(ad, k, mem)
      <4>1. frag' = Truncate(g, e, FALSE)
        BY <2>1, <3>1
      <4> QED BY <2>3, <4>1 DEF Ended
    <3>2. CASE ~Trunc(ad, k, mem)
      BY <2>1, <2>3, <3>2
    <3> QED BY <3>1, <3>2
  <2>6. Good(frag') /\ Filled(frag', o, e, v)
    BY <1>0, <1>1, <2>2, <2>5, NewFacts
  <2>7. Kept(frag, frag', o .. MaxEnd, o .. e - 1)
    BY <1>0, <1>1, <2>2, <2>5, NewFacts
  <2>8. \A m \in Int : Within(frag, m) /\ e <= m => Within(frag', m)
    BY <1>0, <1>1, <2>2, <2>5, NewFacts
  <2>9. Ended(frag', ad, k, e) => Within(frag', e)
    BY <1>0, <1>1, <2>2, <2>5, NewFacts
  <2>10. end \in 0 .. MaxEnd /\ end \in Int /\ e <= end /\ length <= end
    BY <1>0, <1>1, <2>0
  <2>11. Within(frag', end)
    <3>1. Within(frag, end)
      <4> SUFFICES ASSUME NEW i \in 1 .. Len(frag) PROVE End(frag[i]) <= end
        BY DEF Within
      <4>1. End(frag[i]) <= length /\ End(frag[i]) \in Nat
        BY <1>0, <1>2, ListFacts DEF Within
      <4> QED BY <1>0, <2>10, <4>1
    <3> QED BY <2>8, <2>10, <3>1
  <2>12. /\ Within(frag', length') /\ length' \in 0 .. MaxEnd
         /\ length' \in {e, end} /\ incomplete' \in BOOLEAN
    <3>1. CASE Trunc(ad, k, mem)
      BY <1>0, <1>1, <2>1, <2>5, <2>9, <2>10, <3>1
    <3>2. CASE ~Trunc(ad, k, mem)
      BY <1>0, <2>1, <2>10, <2>11, <3>2
    <3> QED BY <3>1, <3>2
  <2>13. data_size' \in Nat /\ data_size' >= Total(frag')
    <3>1. frag' \in Seq(Fragment)
      BY <2>6 DEF Good
    <3>2. data_size >= Total(R)
      <4>1. Total(R) \in Nat /\ Total(frag) \in Nat
        BY <1>0, <1>2, <2>4, EnlargedFacts
      <4> QED BY <1>0, <2>4, <4>1
    <3> QED BY <1>0, <2>1, <2>4, <3>1, <3>2, EnlargedFacts
  <2> QED BY <2>1, <2>6, <2>7, <2>12, <2>13 DEF Fine, end
<1> QED BY <1>3, <1>4

\* A byte of those that are replaced has to be like the new ones.
Looked(o, e, x) ==
    /\ x \in o .. e - 1
    /\ \/ x = e - 1
       \/ \E y \in o .. x : \A q \in 1 .. Len(frag) : ~Has(frag, q, y)

\* A fragment with such a byte is behind the place of a new one, and not cut.
LEMMA LookedBehind ==
    ASSUME Good(frag), NEW o \in Nat, NEW n \in Nat, NEW e \in Nat, e = o + n,
           Touches(o) => ~Fits(o, n), NEW k, k = NewPlace(o),
           NEW q \in 1 .. Len(frag), NEW x, Has(frag, q, x), Looked(o, e, x)
    PROVE  k <= q /\ MadeRoom(o)[q] = frag[q]
<1> DEFINE N == Len(frag)
           p == Place(o)
<1>0. frag \in Seq(Fragment) /\ Disjoint(frag) /\ N \in Nat
  BY ListFacts DEF Good
<1>1. /\ p \in 1 .. N + 1
      /\ \A i \in 1 .. N : i < p => End(frag[i]) < o
      /\ Touches(o) <=> p \in 1 .. N /\ frag[p].offset <= o
  <2>1. p = Place(o)
    OBVIOUS
  <2> HIDE DEF p
  <2> QED BY <1>0, <2>1, PlaceFacts
<1>2. /\ frag[q].offset \in Nat /\ End(frag[q]) \in Nat
      /\ x \in Nat /\ frag[q].offset <= x /\ x < End(frag[q])
  BY <1>0, HasIndex, ListFacts
<1>3. x \in o .. e - 1 /\ o <= x /\ x <= e - 1
  BY DEF Looked
<1>4. p <= q
  <2>1. ~(End(frag[q]) < o)
    BY <1>2, <1>3
  <2> QED BY <1>0, <1>1, <2>1
<1>5. CASE ~Touches(o)
  BY <1>4, <1>5 DEF NewPlace, MadeRoom
<1>6. CASE Touches(o)
  <2>1. ~(o + n <= End(frag[p])) /\ p \in 1 .. N /\ frag[p].offset <= o
    BY <1>1, <1>6 DEF Fits
  <2>2. q # p
    <3> SUFFICES ASSUME q = p PROVE FALSE
      OBVIOUS
    <3>1. frag[q].offset <= o /\ ~(e <= End(frag[q]))
      BY <2>1
    <3> HIDE DEF p
    <3>2. x # e - 1
      BY <1>2, <3>1
    <3>3. PICK y \in o .. x : \A i \in 1 .. Len(frag) : ~Has(frag, i, y)
      BY <3>2 DEF Looked
    <3>4. y \in frag[q].offset .. End(frag[q]) - 1
      BY <1>2, <3>1
    <3> QED BY <3>3, <3>4 DEF Has
  <2>3. k = p + 1 /\ p + 1 <= q
    BY <1>4, <1>6, <2>1, <2>2 DEF NewPlace
  <2>4. MadeRoom(o)[q] = frag[q]
    <3>1. MadeRoom(o) = [frag EXCEPT ![p] = Shortened(@, o - @.offset)]
      BY <1>6 DEF MadeRoom
    <3> HIDE DEF p
    <3> QED BY <1>0, <2>2, <3>1
  <2> QED BY <2>3, <2>4
<1> QED BY <1>5, <1>6

\* Without memory an overlapped fragment goes with the byte next to the end.
LEMMA LostNext ==
    ASSUME NEW fs \in Seq(Fragment), NEW k \in 1 .. Len(fs), DisjointBut(fs, k),
           Roomy(fs), NEW j \in Overlapped(fs, k), NEW e \in Nat, e = End(fs[k]),
           e < End(fs[j]), NEW g, g = RemoveOverlaps(fs, k, FALSE)
    PROVE  \A i \in 1 .. Len(g) : ~Has(g, i, e)
<1> DEFINE m == Max(Overlapped(fs, k) \cup {k})
           n == Len(fs)
<1>0. n \in Nat /\ k \in Nat /\ j \in k + 1 .. n /\ j \in 1 .. n
  BY ListFacts DEF Overlapped
<1>1. \A i \in 1 .. n : /\ fs[i] \in Fragment /\ fs[i].offset \in Nat
                        /\ End(fs[i]) \in Nat /\ fs[i].offset <= End(fs[i])
  BY ListFacts
<1>2. /\ m \in k .. n /\ j <= m
      /\ \A i \in m + 1 .. n : e <= fs[i].offset
  <2>1. m = Max(Overlapped(fs, k) \cup {k})
    OBVIOUS
  <2> HIDE DEF m
  <2>2. m \in k .. n /\ \A i \in m + 1 .. n : e <= fs[i].offset
    BY <2>1, OverlapFacts
  <2>3. ~(e <= fs[j].offset)
    BY <1>0, <1>1 DEF Overlapped
  <2> QED BY <1>0, <2>2, <2>3
<1> DEFINE f == fs[k]
<1>3. g = Splice(fs, k, m, f)
  BY DEF RemoveOverlaps, Splice
<1>4. /\ f \in Fragment /\ f.offset \in Nat /\ End(f) = e /\ e \in Nat
      /\ m \in Nat /\ k \in 1 .. n /\ f.offset <= e
  BY <1>0, <1>1, <1>2
<1>5. \A a, b \in 1 .. n : a < b /\ a # k => End(fs[a]) <= fs[b].offset
  BY DEF DisjointBut
<1>6. \A b \in 1 .. n : b < k => End(fs[b]) <= f.offset
  BY <1>0, <1>5
<1> HIDE DEF m, f
<1>7. /\ g \in Seq(Fragment) /\ Len(g) = n - m + k
      /\ \A i \in 1 .. n - m + k :
           g[i] = IF i < k THEN fs[i] ELSE IF i = k THEN f ELSE fs[i + m - k]
  <2>1. k \in 1 .. Len(fs) /\ m \in k .. Len(fs) /\ f \in Fragment
    BY <1>2, <1>4
  <2>2. Splice(fs, k, m, f) \in Seq(Fragment)
    BY <2>1, SpliceFacts
  <2>3. Len(Splice(fs, k, m, f)) = Len(fs) - m + k
    BY <2>1, SpliceFacts
  <2>4. \A i \in 1 .. Len(fs) - m + k :
          Splice(fs, k, m, f)[i] = IF i < k THEN fs[i]
                                   ELSE IF i = k THEN f ELSE fs[i + m - k]
    BY <2>1, SpliceFacts
  <2> QED BY <1>3, <2>2, <2>3, <2>4
<1> DEFINE N == n - m + k
<1>8. N \in Nat /\ Len(g) = N
  <2>1. N \in Nat
    BY <1>0, <1>2, <1>4
  <2> QED BY <1>7, <2>1
<1> SUFFICES ASSUME NEW i \in 1 .. N, Has(g, i, e) PROVE FALSE
  BY <1>8
<1>9. g[i].offset <= e /\ g[i].offset \in Nat /\ End(g[i]) \in Nat /\ e < End(g[i])
  <2>1. i \in 1 .. Len(g)
    BY <1>8
  <2> QED BY <1>7, <2>1, HasIndex, ListFacts
<1>10. i \in 1 .. N /\ i \in Nat /\ k \in Nat /\ m \in Nat /\ N = n - m + k /\ k <= m /\ m <= n
  BY <1>0, <1>2, <1>8
<1>11. \A a \in 1 .. N :
         g[a] = IF a < k THEN fs[a] ELSE IF a = k THEN f ELSE fs[a + m - k]
  BY <1>7
<1> HIDE DEF N, n
<1>12. CASE i < k
  <2>1. i \in 1 .. n
    BY <1>0, <1>12, <1>10
  <2>2. g[i] = fs[i]
    BY <1>12, <1>10, <1>11
  <2>3. End(fs[i]) <= f.offset
    BY <1>6, <1>12, <2>1
  <2>4. End(fs[i]) \in Nat
    BY <1>1, <2>1
  <2>5. e < End(fs[i])
    BY <1>9, <2>2
  <2> QED BY <1>4, <2>3, <2>4, <2>5
<1>13. CASE i = k
  <2>1. k \in 1 .. N /\ ~(k < k)
    BY <1>13, <1>10
  <2>2. g[k] = f
    BY <1>11, <2>1
  <2>3. g[i] = f
    BY <1>13, <2>2
  <2>4. e < End(f)
    BY <1>9, <2>3
  <2> QED BY <1>4, <2>4
<1>14. CASE i > k
  <2> DEFINE z == i + m - k
  <2>1. ~(i < k) /\ i # k
    BY <1>14, <1>10
  <2>2. g[i] = fs[z]
    BY <1>10, <1>11, <2>1
  <2>3. z \in m + 1 .. n /\ z \in 1 .. n /\ j < z /\ j # k
    BY <1>0, <1>2, <1>14, <1>10
  <2> HIDE DEF z
  <2>4. End(fs[j]) <= fs[z].offset
    BY <1>0, <1>5, <2>3
  <2>5. End(fs[j]) \in Nat /\ fs[z].offset \in Nat
    BY <1>0, <1>1, <2>3
  <2>6. fs[z].offset <= e
    BY <1>9, <2>2
  <2> QED BY <1>4, <2>4, <2>5, <2>6
<1> QED BY <1>12, <1>13, <1>14, <1>10

\* What is behind the new bytes is left only if the old ones that count are
\* the same, or without memory and then not next to them.
LEMMA TailStep ==
    ASSUME WellFormed, NEW o \in 0 .. MaxEnd, NEW n \in 1 .. MaxEnd - o,
           NEW e \in Nat, e = o + n, NEW v \in Versions, NEW mem \in BOOLEAN,
           InsertInto(o, n, v, mem) \/ InsertNew(o, n, v, mem)
    PROVE  \/ length' = e
           \/ \A q \in 1 .. Len(frag) : \A x :
                Has(frag, q, x) /\ Looked(o, e, x) => Byte(frag, q, x) = v
           \/ /\ \E q \in 1 .. Len(frag) : Has(frag, q, e)
              /\ \A i \in 1 .. Len(frag') : ~Has(frag', i, e)
<1>0. /\ Good(frag) /\ o \in Nat /\ n \in Nat /\ e \in Nat
      /\ frag \in Seq(Fragment)
  BY Parts, FragmentsAssumption DEF Good
<1>1. CASE InsertInto(o, n, v, mem)
  BY <1>1 DEF InsertInto
<1>2. CASE InsertNew(o, n, v, mem)
  <2> DEFINE k == NewPlace(o)
             R == MadeRoom(o)
             f == NewFragment(o, n, v)
             ad == InsertAt(R, k, f)
  <2>1. /\ Touches(o) => ~Fits(o, n)
        /\ Trunc(ad, k, mem) => length' = e
        /\ ~Trunc(ad, k, mem) => frag' = RemoveOverlaps(ad, k, mem)
    BY <1>2 DEF InsertNew, NewFragment
  <2> SUFFICES ASSUME ~Trunc(ad, k, mem),
                      NEW q \in 1 .. Len(frag), NEW x,
                      Has(frag, q, x), Looked(o, e, x), Byte(frag, q, x) # v
               PROVE  /\ Has(frag, q, e)
                      /\ \A i \in 1 .. Len(frag') : ~Has(frag', i, e)
    BY <2>1
  <2>2. k <= q /\ R[q] = frag[q]
    <3>1. k = NewPlace(o)
      OBVIOUS
    <3> HIDE DEF k
    <3> QED BY <1>0, <2>1, <3>1, LookedBehind
  <2>3. Inserted(ad, k, o, e, v)
    <3>1. k = NewPlace(o) /\ ad = InsertAt(MadeRoom(o), k, NewFragment(o, n, v))
      OBVIOUS
    <3> HIDE DEF k, ad
    <3> QED BY <1>0, <3>1, NewList
  <2>4. q + 1 \in k + 1 .. Len(ad) /\ ad[q + 1] = frag[q]
    <3> HIDE DEF k, ad
    <3>1. q + 1 \in k + 1 .. Len(ad) /\ ad[q + 1] = R[q]
      BY <2>2, <2>3 DEF Inserted
    <3> QED BY <2>2, <3>1
  <2> HIDE DEF k, ad, R, f
  <2>5. /\ ad \in Seq(Fragment) /\ k \in 1 .. Len(ad) /\ DisjointBut(ad, k) /\ Roomy(ad)
        /\ \A y \in o .. e - 1 : Byte(ad, k, y) = v
    BY <2>3 DEF Inserted, Written
  <2>6. ad[k].offset = o /\ End(ad[k]) = e
    BY <2>3 DEF Inserted
  <2>7. /\ frag[q].offset \in Nat /\ End(frag[q]) \in Nat
        /\ x \in Nat /\ frag[q].offset <= x /\ x < End(frag[q])
        /\ x - frag[q].offset + 1 \in 1 .. Len(frag[q].data)
    BY <1>0, HasIndex, ListFacts
  <2>8. x \in o .. e - 1 /\ o <= x /\ x <= e - 1
    BY DEF Looked
  <2>9. q + 1 \in Overlapped(ad, k)
    BY <1>0, <2>6, <2>4, <2>7, <2>8 DEF Overlapped
  <2>10. ~Agree(ad[k], ad[q + 1])
    <3>1. Byte(ad, k, x) = v
      BY <2>5, <2>8
    <3>2. ad[k].data[x - o + 1] # frag[q].data[x - frag[q].offset + 1]
      BY <2>6, <3>1 DEF Byte
    <3>3. x - o + 1 \in 1 .. Len(ad[k].data)
      <4>1. Has(ad, k, x)
        BY <2>8, <2>6 DEF Has
      <4> QED BY <2>5, <2>6, <4>1, HasIndex
    <3>4. o + (x - o + 1) = frag[q].offset + (x - frag[q].offset + 1)
      BY <1>0, <2>7
    <3> QED BY <2>4, <2>7, <2>6, <3>2, <3>3, <3>4 DEF Agree
  <2>11. mem = FALSE /\ ~(End(ad[q + 1]) <= e)
    BY <2>9, <2>10, <2>6 DEF Trunc
  <2>12. e < End(ad[q + 1]) /\ Has(frag, q, e)
    BY <1>0, <2>4, <2>7, <2>8, <2>11 DEF Has
  <2>13. frag' = RemoveOverlaps(ad, k, FALSE)
    BY <2>1, <2>11
  <2>14. \A i \in 1 .. Len(frag') : ~Has(frag', i, e)
    BY <2>5, <2>9, <2>12, <2>13, <2>6, LostNext
  <2> QED BY <2>12, <2>14
<1> QED BY <1>1, <1>2

\* add_fragment() without: what was in the way of the new bytes may be gone.
LEMMA FailsStep ==
    ASSUME WellFormed, NEW o \in 0 .. MaxEnd, NEW n \in 1 .. MaxEnd - o,
           NEW e, e = o + n, InsertFails(o, n)
    PROVE  /\ Fine /\ Kept(frag, frag', o .. e - 1, {})
           /\ length' = Max({length, e})
           /\ incomplete' = incomplete /\ NewId
<1>0. /\ Good(frag) /\ Within(frag, length)
      /\ length \in 0 .. MaxEnd /\ length \in Nat
      /\ data_size \in Nat /\ data_size >= Total(frag)
  BY Parts
<1>1. /\ o \in Nat /\ n \in Nat /\ e \in Nat /\ e <= MaxEnd /\ MaxEnd \in Nat
  BY FragmentsAssumption
<1>2. frag \in Seq(Fragment) /\ Disjoint(frag)
  BY <1>0 DEF Good
<1>3. /\ Touches(o) => ~Fits(o, n)
      /\ frag' = MadeRoom(o) /\ length' = Max({length, e}) /\ NewId
      /\ data_size' = data_size /\ incomplete' = incomplete
  BY DEF InsertFails
<1>4. frag' \in Seq(Fragment) /\ Len(frag') = Len(frag) /\ Shrinks(frag', frag) /\ Roomy(frag')
  BY <1>0, <1>1, <1>3, RoomFacts
<1>5. \A i \in 1 .. Len(frag) : \A x :
         Has(frag, i, x) /\ x \notin o .. e - 1 => Has(frag', i, x)
  <2>1. \A w \in Nat : (Touches(o) => ~Fits(o, w)) =>
          \A i \in 1 .. Len(frag) : \A x :
             Has(frag, i, x) /\ x \notin o .. o + w - 1 => Has(frag', i, x)
    BY <1>0, <1>1, <1>3, RoomFacts
  <2>2. \A i \in 1 .. Len(frag) : \A x :
             Has(frag, i, x) /\ x \notin o .. o + n - 1 => Has(frag', i, x)
    BY <1>1, <1>3, <2>1
  <2> QED BY <2>2
<1>6. /\ Disjoint(frag')
      /\ \A m \in Int : Within(frag, m) => Within(frag', m)
      /\ \A k \in 1 .. Len(frag') : \A x : Has(frag', k, x) =>
           /\ k \in 1 .. Len(frag) /\ Has(frag, k, x)
           /\ Byte(frag', k, x) = Byte(frag, k, x)
  BY <1>2, <1>4, ShrinksFacts
<1>7. Kept(frag, frag', o .. e - 1, {})
  BY <1>4, <1>5, <1>6 DEF Kept
<1>8. length' = IF length >= e THEN length ELSE e
  BY <1>0, <1>1, <1>3, MaxOfTwo
<1>9. length' \in 0 .. MaxEnd /\ length <= length' /\ length' \in Nat
  BY <1>0, <1>1, <1>8
<1>10. Within(frag', length')
  <2> SUFFICES ASSUME NEW i \in 1 .. Len(frag') PROVE End(frag'[i]) <= length'
    BY DEF Within
  <2>1. Within(frag', length)
    BY <1>0, <1>6
  <2>2. End(frag'[i]) <= length /\ End(frag'[i]) \in Nat
    BY <1>4, <2>1, ListFacts DEF Within
  <2> QED BY <1>0, <1>9, <2>2
<1>11. data_size' \in Nat /\ data_size' >= Total(frag')
  <2>1. \A i \in 1 .. Len(frag) : Len(frag'[i].data) <= Len(frag[i].data)
    BY <1>4 DEF Shrinks
  <2>2. Total(frag') <= Total(frag)
    BY <1>2, <1>4, <2>1, TotalSmaller
  <2>3. Total(frag') \in Nat /\ Total(frag) \in Nat
    BY <1>0, <1>2, <1>4, EnlargedFacts
  <2> QED BY <1>0, <1>3, <2>2, <2>3
<1> QED BY <1>3, <1>4, <1>6, <1>7, <1>9, <1>10, <1>11 DEF Fine, Good

\* normalize_cache_entry(): the document ends at n.
LEMMA CutStep ==
    ASSUME WellFormed, NEW n \in 0 .. MaxEnd, NormalizeCacheEntry(n)
    PROVE  /\ Fine /\ Within(frag', n)
           /\ Kept(frag, frag', n .. MaxEnd, {})
           /\ length' = Min({length, n})
           /\ incomplete' \in BOOLEAN /\ id' = id
<1>0. /\ Good(frag) /\ Within(frag, length) /\ Within(frag, MaxEnd)
      /\ length \in 0 .. MaxEnd /\ length \in Nat
      /\ data_size \in Nat /\ data_size >= Total(frag)
  BY Parts
<1>1. n \in Nat /\ MaxEnd \in Nat /\ TRUE \in BOOLEAN
  BY FragmentsAssumption
<1>2. frag \in Seq(Fragment) /\ Disjoint(frag) /\ Roomy(frag)
  BY <1>0 DEF Good
<1>3. /\ frag' = Truncate(frag, n, TRUE) /\ data_size' = Enlarged(frag, frag')
      /\ length' = Min({length, n}) /\ incomplete' = FALSE /\ id' = id
  BY DEF NormalizeCacheEntry
<1>4. /\ Shrinks(frag', frag) /\ Roomy(frag') /\ Within(frag', n)
      /\ \A k \in 1 .. Len(frag) : \A x : Has(frag, k, x) /\ x < n =>
           k \in 1 .. Len(frag') /\ Has(frag', k, x)
  BY <1>1, <1>2, <1>3, TruncateFacts
<1>5. /\ Disjoint(frag')
      /\ \A m \in Int : Within(frag, m) => Within(frag', m)
      /\ \A k \in 1 .. Len(frag') : \A x : Has(frag', k, x) =>
           /\ k \in 1 .. Len(frag) /\ Has(frag, k, x)
           /\ Byte(frag', k, x) = Byte(frag, k, x)
  BY <1>2, <1>4, ShrinksFacts
<1>6. frag' \in Seq(Fragment) /\ Good(frag')
  BY <1>4, <1>5 DEF Shrinks, Good
<1>7. Kept(frag, frag', n .. MaxEnd, {})
  <2>1. ASSUME NEW k \in 1 .. Len(frag), NEW x, Has(frag, k, x), x \notin n .. MaxEnd
        PROVE  x < n
    <3>1. x \in Nat /\ x < End(frag[k]) /\ End(frag[k]) \in Nat
      BY <1>2, <2>1, HasIndex, ListFacts
    <3>2. End(frag[k]) <= MaxEnd
      BY <1>0 DEF Within
    <3> QED BY <1>1, <2>1, <3>1, <3>2
  <2> QED BY <1>4, <1>5, <2>1 DEF Kept
<1>8. length' = length \/ length' = n
  <2>1. {length, n} \in SUBSET Nat /\ {length, n} # {}
    BY <1>0, <1>1
  <2>2. Min({length, n}) \in {length, n}
    BY <2>1, MinFacts
  <2> QED BY <1>3, <2>2
<1>9. Within(frag', length') /\ length' \in 0 .. MaxEnd
  <2>1. Within(frag', length)
    BY <1>0, <1>5
  <2> QED BY <1>0, <1>4, <1>8, <2>1
<1>10. data_size' \in Nat /\ data_size' >= Total(frag')
  BY <1>0, <1>2, <1>3, <1>6, EnlargedFacts
<1> QED BY <1>3, <1>4, <1>6, <1>7, <1>9, <1>10 DEF Fine

\* A fragment without what is before o.
Stripped(f, o) ==
    IF f.offset >= o THEN f
    ELSE [f EXCEPT !.offset = o, !.data = SubSeq(@, o - f.offset + 1, Len(@))]

\* It ends where it did.
LEMMA StrippedFacts ==
    ASSUME NEW f \in Fragment, NEW o \in 0 .. MaxEnd, o <= End(f),
           Len(f.data) <= f.real_length, NEW g, g = Stripped(f, o)
    PROVE  /\ g \in Fragment /\ End(g) = End(f)
           /\ g.offset = IF f.offset >= o THEN f.offset ELSE o
           /\ Len(g.data) <= g.real_length
           /\ \A x \in g.offset .. End(g) - 1 :
                g.data[x - g.offset + 1] = f.data[x - f.offset + 1]
<1>0. /\ f.offset \in Nat /\ f.real_length \in Nat /\ f.data \in Seq(Versions)
      /\ Len(f.data) \in Nat /\ End(f) \in Nat
      /\ f.offset <= End(f) /\ Len(f.data) = End(f) - f.offset /\ o \in Nat
  BY FragmentFacts
<1>1. CASE f.offset >= o
  BY <1>0, <1>1 DEF Stripped
<1>2. CASE ~(f.offset >= o)
  <2> DEFINE m == o - f.offset
             d == SubSeq(f.data, m + 1, Len(f.data))
  <2>1. g = [f EXCEPT !.offset = o, !.data = d]
    BY <1>2 DEF Stripped
  <2>2. m \in 0 .. Len(f.data) /\ m \in Nat /\ o = f.offset + m
    BY <1>0, <1>2
  <2> HIDE DEF m
  <2>3. /\ d \in Seq(Versions) /\ Len(d) = Len(f.data) - m
        /\ \A i \in 1 .. Len(f.data) - m : d[i] = f.data[m + i]
    BY <1>0, <2>2, RestFacts
  <2> HIDE DEF d
  <2>4. /\ [f EXCEPT !.offset = o, !.data = d] \in Fragment
        /\ [f EXCEPT !.offset = o, !.data = d].offset = o
        /\ [f EXCEPT !.offset = o, !.data = d].data = d
        /\ [f EXCEPT !.offset = o, !.data = d].real_length = f.real_length
    BY <2>3 DEF Fragment
  <2>5. g \in Fragment /\ g.offset = o /\ g.data = d /\ g.real_length = f.real_length
    BY <2>1, <2>4
  <2>6. End(g) = End(f)
    <3>1. End(g) = o + Len(d)
      BY <2>5 DEF End
    <3> QED BY <1>0, <2>2, <2>3, <3>1
  <2>7. Len(d) <= f.real_length
    BY <1>0, <2>2, <2>3
  <2>8. ASSUME NEW x \in o .. End(f) - 1 PROVE d[x - o + 1] = f.data[x - f.offset + 1]
    <3>1. x - o + 1 \in 1 .. Len(f.data) - m /\ m + (x - o + 1) = x - f.offset + 1
      <4>1. PICK a \in Nat : a = f.offset
        BY <1>0
      <4>2. PICK c \in Nat : c = End(f)
        BY <1>0
      <4>3. PICK L \in Nat : L = Len(f.data)
        BY <1>0
      <4>4. x \in Nat /\ o <= x /\ x < c /\ L = c - a /\ m = o - a
        BY <1>0, <2>2, <4>1, <4>2, <4>3
      <4>5. x - o + 1 \in 1 .. L - m /\ m + (x - o + 1) = x - a + 1
        BY <4>4
      <4> QED BY <4>1, <4>3, <4>5
    <3> QED BY <2>3, <3>1
  <2> QED BY <1>2, <2>5, <2>6, <2>7, <2>8
<1> QED BY <1>1, <1>2

\* free_entry_to(): nothing before o is left, everything behind it is.
LEMMA StripStep ==
    ASSUME WellFormed, NEW o \in 1 .. MaxEnd, FreeEntryTo(o)
    PROVE  /\ Fine /\ Kept(frag, frag', 0 .. o - 1, {})
           /\ \A j \in 1 .. Len(frag') : \A x : Has(frag', j, x) => x >= o
           /\ length' = length /\ incomplete' = incomplete /\ id' = id
<1> DEFINE N == Len(frag)
           S == {i \in 1 .. N : End(frag[i]) > o} \cup {N + 1}
           p == Min(S)
           M == N + 1 - p
<1>0. /\ Good(frag) /\ Within(frag, length)
      /\ length \in 0 .. MaxEnd /\ length \in Nat
      /\ data_size \in Nat /\ data_size >= Total(frag)
  BY Parts
<1>1. o \in Nat /\ o \in 0 .. MaxEnd /\ MaxEnd \in Nat
  BY FragmentsAssumption
<1>2. frag \in Seq(Fragment) /\ Disjoint(frag) /\ Roomy(frag) /\ N \in Nat
  BY <1>0, ListFacts DEF Good
<1>3. /\ frag' = [i \in 1 .. M |-> Stripped(frag[p + i - 1], o)]
      /\ data_size' = Enlarged(frag, frag')
      /\ length' = length /\ incomplete' = incomplete /\ id' = id
  BY DEF FreeEntryTo, Stripped
<1>4. p \in S /\ \A y \in S : p <= y
  <2>1. S \in SUBSET Nat /\ S # {}
    BY <1>2
  <2> HIDE DEF S
  <2> QED BY <2>1, MinFacts
<1> HIDE DEF p
<1>5. p \in 1 .. N + 1 /\ p \in Nat /\ M \in Nat
  BY <1>2, <1>4
<1>6. \A i \in 1 .. N : /\ frag[i].offset \in Nat /\ End(frag[i]) \in Nat
                        /\ frag[i].offset <= End(frag[i]) /\ frag[i] \in Fragment
  BY <1>2, ListFacts
<1>7. ASSUME NEW i \in 1 .. N, End(frag[i]) > o PROVE p <= i
  BY <1>4, <1>7
<1>8. ASSUME NEW i \in 1 .. N, p <= i PROVE End(frag[i]) > o
  <2>1. p \in 1 .. N
    BY <1>2, <1>5, <1>8
  <2>2. End(frag[p]) > o
    BY <1>2, <1>4, <2>1
  <2>3. CASE p = i
    BY <2>2, <2>3
  <2>4. CASE p < i
    <3>1. End(frag[p]) <= frag[i].offset
      BY <1>2, <2>1, <2>4 DEF Disjoint
    <3> QED BY <1>1, <1>6, <2>1, <2>2, <3>1
  <2> QED BY <1>5, <1>8, <2>3, <2>4
<1> HIDE DEF S
<1> DEFINE g == frag'
           q(j) == p + j - 1
<1>9. ASSUME NEW j \in 1 .. M
      PROVE  /\ q(j) \in 1 .. N /\ p <= q(j) /\ q(j) \in Nat
             /\ g[j] = Stripped(frag[q(j)], o)
  <2>1. q(j) \in 1 .. N /\ p <= q(j) /\ q(j) \in Nat
    BY <1>2, <1>5
  <2> QED BY <1>3, <2>1
<1>10. ASSUME NEW j \in 1 .. M
       PROVE  LET f == frag[q(j)] IN
              /\ g[j] \in Fragment /\ End(g[j]) = End(f)
              /\ g[j].offset = IF f.offset >= o THEN f.offset ELSE o
              /\ Len(g[j].data) <= g[j].real_length
              /\ \A x \in g[j].offset .. End(g[j]) - 1 :
                   g[j].data[x - g[j].offset + 1] = f.data[x - f.offset + 1]
  <2> DEFINE f == frag[q(j)]
             h == g[j]
  <2>0. q(j) \in 1 .. N /\ p <= q(j)
    BY <1>9
  <2>1. f \in Fragment /\ End(f) \in Nat /\ End(f) > o
    BY <1>6, <1>8, <2>0
  <2>2. Len(f.data) <= f.real_length
    BY <1>2, <2>0 DEF Roomy
  <2>3. h = Stripped(f, o) /\ o <= End(f)
    BY <1>1, <1>9, <2>1
  <2> HIDE DEF f, h
  <2>4. h \in Fragment /\ End(h) = End(f)
    BY <1>1, <2>1, <2>2, <2>3, StrippedFacts
  <2>5. h.offset = IF f.offset >= o THEN f.offset ELSE o
    BY <1>1, <2>1, <2>2, <2>3, StrippedFacts
  <2>6. Len(h.data) <= h.real_length
    BY <1>1, <2>1, <2>2, <2>3, StrippedFacts
  <2>7. \A x \in h.offset .. End(h) - 1 :
          h.data[x - h.offset + 1] = f.data[x - f.offset + 1]
    BY <1>1, <2>1, <2>2, <2>3, StrippedFacts
  <2> QED BY <2>4, <2>5, <2>6, <2>7 DEF f, h
<1>11. g \in Seq(Fragment) /\ Len(g) = M
  <2>1. DOMAIN g = 1 .. M
    BY <1>3
  <2>2. g \in [1 .. M -> Fragment]
    <3>1. g = [j \in 1 .. M |-> g[j]]
      BY <1>3
    <3>2. \A j \in 1 .. M : g[j] \in Fragment
      BY <1>10
    <3> HIDE DEF g, M
    <3> QED BY <3>1, <3>2
  <2> HIDE DEF g, M
  <2> QED BY <1>5, <2>1, <2>2, LenProperties, IsASeq
<1> HIDE DEF g, M
<1>12. ASSUME NEW j \in 1 .. M
       PROVE  /\ g[j].offset \in Nat /\ o <= g[j].offset
              /\ frag[q(j)].offset <= g[j].offset /\ End(g[j]) = End(frag[q(j)])
  BY <1>1, <1>6, <1>9, <1>10
<1>13. Disjoint(g)
  <2> SUFFICES ASSUME NEW i \in 1 .. M, NEW j \in 1 .. M, i < j
               PROVE  End(g[i]) <= g[j].offset
    BY <1>11 DEF Disjoint
  <2>1. q(i) \in 1 .. N /\ q(j) \in 1 .. N /\ q(i) < q(j)
    BY <1>5, <1>9
  <2>2. End(frag[q(i)]) <= frag[q(j)].offset
    BY <1>2, <2>1 DEF Disjoint
  <2> HIDE DEF q
  <2> QED BY <1>6, <1>12, <2>1, <2>2
<1>14. Roomy(g) /\ Within(g, length)
  <2>1. \A j \in 1 .. M : Len(g[j].data) <= g[j].real_length
    BY <1>10
  <2>2. \A j \in 1 .. M : End(g[j]) <= length
    BY <1>0, <1>9, <1>12 DEF Within
  <2> QED BY <1>11, <2>1, <2>2 DEF Roomy, Within
<1>15. ASSUME NEW j \in 1 .. M, NEW x, Has(g, j, x)
       PROVE  /\ x >= o /\ q(j) \in 1 .. N /\ Has(frag, q(j), x)
              /\ Byte(g, j, x) = Byte(frag, q(j), x)
  <2>0. x \in g[j].offset .. End(g[j]) - 1
    BY <1>15 DEF Has
  <2>1. x \in Nat /\ g[j].offset <= x /\ x < End(g[j])
    BY <1>11, <1>15, HasIndex
  <2>2. q(j) \in 1 .. N
    BY <1>9
  <2>3. g[j].data[x - g[j].offset + 1] = frag[q(j)].data[x - frag[q(j)].offset + 1]
    BY <1>10, <2>0
  <2> HIDE DEF q
  <2>4. x >= o /\ x \in frag[q(j)].offset .. End(frag[q(j)]) - 1
    BY <1>1, <1>6, <1>12, <2>1, <2>2
  <2> QED BY <2>2, <2>3, <2>4 DEF Has, Byte
<1>16. ASSUME NEW k \in 1 .. N, NEW x, Has(frag, k, x), x \notin 0 .. o - 1
       PROVE  \E j \in 1 .. M : Has(g, j, x)
  <2>1. x \in Nat /\ frag[k].offset <= x /\ x < End(frag[k]) /\ o <= x
    BY <1>1, <1>2, <1>16, HasIndex
  <2>2. p <= k
    BY <1>1, <1>6, <1>7, <2>1
  <2> DEFINE j == k - p + 1
  <2>3. j \in 1 .. M /\ q(j) = k
    BY <1>2, <1>5, <2>2 DEF M
  <2> HIDE DEF j, q
  <2>4. x \in g[j].offset .. End(g[j]) - 1
    <3>1. g[j].offset = (IF frag[k].offset >= o THEN frag[k].offset ELSE o)
          /\ End(g[j]) = End(frag[k])
      BY <1>10, <2>3
    <3> QED BY <1>1, <1>6, <2>1, <3>1
  <2> QED BY <2>3, <2>4 DEF Has
<1>17. Kept(frag, g, 0 .. o - 1, {})
  BY <1>11, <1>15, <1>16 DEF Kept
<1>18. data_size' \in Nat /\ data_size' >= Total(frag')
  BY <1>0, <1>2, <1>3, <1>11, EnlargedFacts DEF g
<1> QED BY <1>0, <1>3, <1>11, <1>13, <1>14, <1>15, <1>17, <1>18 DEF Fine, Good, g

\* get_cache_fragment(): the bytes stay as they are, and those up to the first
\* gap are now in one fragment.
LEMMA ReadStep ==
    ASSUME WellFormed, GetCacheFragment
    PROVE  /\ Fine /\ Kept(frag, frag', {}, {})
           /\ Begins => Begins' /\ frag'[1].data = CacheFragment
           /\ ~Begins => frag' = frag
           /\ length' = length /\ incomplete' = incomplete /\ id' = id
<1> DEFINE N == Len(frag)
           m == Adjacent
           c == CacheFragment
           f == [offset |-> 0, data |-> c,
                 real_length |-> IF m = 1 THEN frag[1].real_length ELSE Len(c)]
           g == frag'
<1>0. /\ Good(frag) /\ Within(frag, length)
      /\ length \in 0 .. MaxEnd /\ length \in Nat
      /\ data_size \in Nat /\ data_size >= Total(frag)
  BY Parts
<1>1. frag \in Seq(Fragment) /\ Disjoint(frag) /\ Roomy(frag) /\ N \in Nat
  BY <1>0, ListFacts DEF Good
<1>2. /\ g = IF Begins THEN <<f>> \o SubSeq(frag, m + 1, N) ELSE frag
      /\ length' = length /\ data_size' = data_size
      /\ incomplete' = incomplete /\ id' = id
  BY DEF GetCacheFragment
<1>3. CASE ~Begins
  <2>1. frag' = frag
    BY <1>2, <1>3
  <2>2. Kept(frag, frag, {}, {})
    BY DEF Kept
  <2> QED BY <1>0, <1>2, <1>3, <2>1, <2>2 DEF Fine
<1>4. CASE Begins
  <2>1. /\ m \in 1 .. N /\ m \in Nat
        /\ \A i \in m + 1 .. N : End(frag[m]) < frag[i].offset
    <3> HIDE DEF m
    <3>1. /\ m \in 1 .. N /\ \A i \in m + 1 .. N : End(frag[m]) < frag[i].offset
      BY <1>0, <1>4, AdjacentFacts DEF m
    <3> QED BY <1>1, <3>1
  <2>2. PICK a : Sums(a, frag) /\ Total(frag) = a[N]
    BY <1>1, TotalSums
  <2>3. /\ c \in Seq(Versions) /\ Len(c) = End(frag[m]) /\ a[m] = End(frag[m])
        /\ \A x \in 0 .. End(frag[m]) - 1 :
             \E i \in 1 .. m : Has(frag, i, x) /\ c[x + 1] = Byte(frag, i, x)
    <3>1. m = Adjacent /\ c = CacheFragment
      OBVIOUS
    <3> HIDE DEF m, c
    <3> QED BY <1>0, <1>4, <2>2, <3>1, ReadFacts
  <2> HIDE DEF m, c
  <2>4. \A i \in 1 .. N : /\ frag[i].offset \in Nat /\ End(frag[i]) \in Nat
                          /\ frag[i].offset <= End(frag[i])
                          /\ frag[i] \in Fragment /\ frag[i].real_length \in Nat
    BY <1>1, ListFacts, FragmentFacts
  <2>5. Len(c) \in Nat /\ 1 \in 1 .. N
    BY <1>1, <2>1, <2>3, <2>4
  <2>6. /\ f \in Fragment /\ f.offset = 0 /\ f.data = c
        /\ f.real_length = IF m = 1 THEN frag[1].real_length ELSE Len(c)
    <3>1. 0 \in 0 .. MaxEnd
      BY FragmentsAssumption
    <3>2. (IF m = 1 THEN frag[1].real_length ELSE Len(c)) \in Nat
      BY <2>4, <2>5
    <3> QED BY <2>3, <3>1, <3>2 DEF Fragment
  <2> HIDE DEF f
  <2>7. End(f) = End(frag[m])
    BY <2>1, <2>3, <2>4, <2>6 DEF End
  <2>8. Len(f.data) <= f.real_length
    <3>1. CASE m = 1
      <4>1. frag[1].offset = 0 /\ Len(frag[1].data) <= frag[1].real_length
        BY <1>1, <1>4, <2>5 DEF Begins, Roomy
      <4>2. Len(frag[1].data) = End(frag[1])
        <5>1. Len(frag[1].data) = End(frag[1]) - frag[1].offset
          BY <1>1, <2>5, ListFacts
        <5> QED BY <2>4, <2>5, <4>1, <5>1
      <4> QED BY <2>3, <2>6, <3>1, <4>1, <4>2
    <3>2. CASE m # 1
      BY <2>5, <2>6, <3>2
    <3> QED BY <3>1, <3>2
  <2>9. g = Splice(frag, 1, m, f)
    <3>1. SubSeq(frag, 1, 1 - 1) = << >>
      <4>1. 0 \in 0 .. Len(frag)
        BY <1>1
      <4>2. SubSeq(frag, 1, 0) \in Seq(Fragment) /\ Len(SubSeq(frag, 1, 0)) = 0
        BY <1>1, <4>1, PrefixFacts
      <4>3. SubSeq(frag, 1, 0) = << >>
        BY <4>2, EmptySeq
      <4> QED BY <4>3
    <3>2. << >> \o <<f>> = <<f>>
      <4>1. <<f>> \in Seq(Fragment)
        BY <2>6
      <4> QED BY <4>1, ConcatEmptySeq
    <3>3. g = <<f>> \o SubSeq(frag, m + 1, N)
      BY <1>2, <1>4
    <3>4. Splice(frag, 1, m, f)
            = SubSeq(frag, 1, 1 - 1) \o <<f>> \o SubSeq(frag, m + 1, N)
      BY DEF Splice
    <3> HIDE DEF g
    <3> QED BY <3>1, <3>2, <3>3, <3>4
  <2>10. /\ g \in Seq(Fragment) /\ Len(g) = N - m + 1
         /\ \A j \in 1 .. N - m + 1 :
              g[j] = IF j < 1 THEN frag[j] ELSE IF j = 1 THEN f ELSE frag[j + m - 1]
    <3> DEFINE s == Splice(frag, 1, m, f)
    <3>1. 1 \in 1 .. Len(frag) /\ m \in 1 .. Len(frag) /\ f \in Fragment
      BY <2>1, <2>5, <2>6
    <3>2. s \in Seq(Fragment)
      BY <1>1, <3>1, SpliceFacts
    <3>3. Len(s) = Len(frag) - m + 1
      BY <1>1, <3>1, SpliceFacts
    <3>4. \A j \in 1 .. Len(frag) - m + 1 :
            s[j] = IF j < 1 THEN frag[j] ELSE IF j = 1 THEN f ELSE frag[j + m - 1]
      BY <1>1, <3>1, SpliceFacts
    <3> HIDE DEF s
    <3>5. g = s
      BY <2>9 DEF s
    <3> QED BY <3>2, <3>3, <3>4, <3>5
  <2> HIDE DEF g
  <2> DEFINE M == N - m + 1
  <2>11. M \in Nat /\ 1 \in 1 .. M /\ Len(g) = M /\ g[1] = f
    BY <1>1, <2>1, <2>10
  <2>12. ASSUME NEW j \in 2 .. M
         PROVE  /\ g[j] = frag[j + m - 1] /\ j + m - 1 \in m + 1 .. N
                /\ j + m - 1 \in 1 .. N
    BY <1>1, <2>1, <2>10
  <2>13. \A j \in 1 .. M : j = 1 \/ j \in 2 .. M
    BY <2>11
  <2> HIDE DEF M
  <2>14. Disjoint(g)
    <3> SUFFICES ASSUME NEW i \in 1 .. M, NEW j \in 1 .. M, i < j
                 PROVE  End(g[i]) <= g[j].offset
      BY <2>11 DEF Disjoint
    <3>1. j \in 2 .. M
      BY <2>11, <2>13
    <3>2. g[j] = frag[j + m - 1] /\ j + m - 1 \in m + 1 .. N /\ j + m - 1 \in 1 .. N
      BY <2>12, <3>1
    <3>3. CASE i = 1
      <4>1. End(frag[m]) < frag[j + m - 1].offset
        BY <2>1, <3>2
      <4>2. End(frag[m]) \in Nat /\ frag[j + m - 1].offset \in Nat
        BY <2>1, <2>4, <3>2
      <4>3. End(frag[m]) <= frag[j + m - 1].offset
        BY <4>1, <4>2
      <4> QED BY <2>7, <2>11, <3>2, <3>3, <4>3
    <3>4. CASE i \in 2 .. M
      <4>1. g[i] = frag[i + m - 1] /\ i + m - 1 \in 1 .. N
        BY <2>12, <3>4
      <4>2. i + m - 1 < j + m - 1
        BY <2>1, <2>11
      <4> QED BY <1>1, <3>2, <4>1, <4>2 DEF Disjoint
    <3> QED BY <2>13, <3>3, <3>4
  <2>15. Roomy(g)
    <3> SUFFICES ASSUME NEW j \in 1 .. M PROVE Len(g[j].data) <= g[j].real_length
      BY <2>11 DEF Roomy
    <3>1. CASE j = 1
      BY <2>8, <2>11, <3>1
    <3>2. CASE j \in 2 .. M
      <4>1. g[j] = frag[j + m - 1] /\ j + m - 1 \in 1 .. N
        BY <2>12, <3>2
      <4> QED BY <1>1, <4>1 DEF Roomy
    <3> QED BY <2>13, <3>1, <3>2
  <2>16. Within(g, length)
    <3> SUFFICES ASSUME NEW j \in 1 .. M PROVE End(g[j]) <= length
      BY <2>11 DEF Within
    <3>1. CASE j = 1
      BY <1>0, <2>1, <2>7, <2>11, <3>1 DEF Within
    <3>2. CASE j \in 2 .. M
      <4>1. g[j] = frag[j + m - 1] /\ j + m - 1 \in 1 .. N
        BY <2>12, <3>2
      <4> QED BY <1>0, <4>1 DEF Within
    <3> QED BY <2>13, <3>1, <3>2
  <2>17. Total(g) = Total(frag)
    <3>1. Len(g[1].data) = a[m]
      BY <2>3, <2>6, <2>11
    <3>2. \A j \in 2 .. Len(g) : g[j] = frag[j + m - 1]
      BY <2>11, <2>12
    <3>3. Total(g) = a[Len(frag)]
      BY <1>1, <2>1, <2>2, <2>10, <3>1, <3>2, TotalMerged
    <3> QED BY <2>2, <3>3
  <2>18. ASSUME NEW k \in 1 .. N, NEW x, Has(frag, k, x)
         PROVE  \E j \in 1 .. M : Has(g, j, x)
    <3>1. x \in Nat /\ x < End(frag[k])
      BY <1>1, <2>18, HasIndex
    <3>2. CASE k <= m
      <4>1. End(frag[k]) <= End(frag[m])
        <5>1. CASE k = m
          BY <2>4, <5>1
        <5>2. CASE k < m
          <6>1. End(frag[k]) <= frag[m].offset
            BY <1>1, <2>1, <5>2 DEF Disjoint
          <6> QED BY <2>1, <2>4, <6>1
        <5> QED BY <2>1, <3>2, <5>1, <5>2
      <4>2. x \in f.offset .. End(f) - 1
        BY <2>1, <2>4, <2>6, <2>7, <3>1, <4>1
      <4>3. Has(g, 1, x)
        BY <2>11, <4>2 DEF Has
      <4> QED BY <2>11, <4>3
    <3>3. CASE ~(k <= m)
      <4> DEFINE j == k - m + 1
      <4>1. j \in 2 .. M /\ j \in 1 .. M /\ j + m - 1 = k
        BY <1>1, <2>1, <3>3 DEF M
      <4> HIDE DEF j
      <4>2. g[j] = frag[k]
        BY <2>12, <4>1
      <4>3. Has(g, j, x)
        BY <2>18, <4>2 DEF Has
      <4> QED BY <4>1, <4>3
    <3> QED BY <3>2, <3>3
  <2>19. ASSUME NEW j \in 1 .. M, NEW x, Has(g, j, x)
         PROVE  \E k \in 1 .. N : Has(frag, k, x) /\ Byte(g, j, x) = Byte(frag, k, x)
    <3>1. CASE j = 1
      <4>1. x \in f.offset .. End(f) - 1 /\ Byte(g, j, x) = f.data[x - f.offset + 1]
        BY <2>11, <2>19, <3>1 DEF Has, Byte
      <4>2. x \in 0 .. End(frag[m]) - 1 /\ Byte(g, j, x) = c[x - 0 + 1]
        BY <2>6, <2>7, <4>1
      <4>3. x - 0 + 1 = x + 1
        BY <2>1, <2>4, <4>2
      <4>4. PICK i \in 1 .. m : Has(frag, i, x) /\ c[x + 1] = Byte(frag, i, x)
        BY <2>3, <4>2
      <4>5. i \in 1 .. N
        BY <1>1, <2>1
      <4> QED BY <4>2, <4>3, <4>4, <4>5
    <3>2. CASE j \in 2 .. M
      <4>1. g[j] = frag[j + m - 1] /\ j + m - 1 \in 1 .. N
        BY <2>12, <3>2
      <4>2. Has(frag, j + m - 1, x) /\ Byte(g, j, x) = Byte(frag, j + m - 1, x)
        BY <2>19, <4>1 DEF Has, Byte
      <4> QED BY <4>1, <4>2
    <3> QED BY <2>13, <3>1, <3>2
  <2>20. Kept(frag, g, {}, {})
    BY <2>11, <2>18, <2>19 DEF Kept
  <2>21. Good(g)
    BY <2>10, <2>14, <2>15 DEF Good
  <2>22. Begins' /\ frag'[1].data = CacheFragment
    <3>1. g # << >>
      BY <2>11
    <3> QED BY <2>6, <2>11, <3>1 DEF Begins, g, c
  <2>23. Fine
    BY <1>0, <1>2, <2>16, <2>17, <2>21 DEF Fine, g
  <2> QED BY <1>2, <1>4, <2>20, <2>22, <2>23 DEF g
<1> QED BY <1>3, <1>4

\* delete_entry_content(): nothing is left.
LEMMA DeleteStep ==
    ASSUME WellFormed, DeleteEntryContent
    PROVE  /\ Fine /\ Within(frag', 0) /\ Kept(frag, frag', 0 .. MaxEnd, {})
           /\ length' = 0 /\ incomplete' \in BOOLEAN /\ NewId
<1>0. Good(frag) /\ Within(frag, MaxEnd)
  BY Parts
<1>1. /\ frag' = << >> /\ data_size' = 0 /\ length' = 0 /\ incomplete' = TRUE /\ NewId
  BY DEF DeleteEntryContent
<1>2. frag' \in Seq(Fragment) /\ Len(frag') = 0
  BY <1>1
<1>3. Good(frag') /\ Within(frag', 0)
  BY <1>2 DEF Good, Disjoint, Roomy, Within
<1>4. Total(frag') = 0
  <2>1. PICK a : Sums(a, frag') /\ Total(frag') = a[Len(frag')]
    BY <1>2, TotalSums
  <2> QED BY <1>2, <2>1 DEF Sums
<1>5. Kept(frag, frag', 0 .. MaxEnd, {})
  <2>1. ASSUME NEW k \in 1 .. Len(frag), NEW x, Has(frag, k, x) PROVE x \in 0 .. MaxEnd
    <3>0. frag \in Seq(Fragment)
      BY <1>0 DEF Good
    <3>1. x \in Nat /\ x < End(frag[k]) /\ End(frag[k]) \in Nat
      BY <2>1, <3>0, HasIndex, ListFacts
    <3>2. End(frag[k]) <= MaxEnd /\ MaxEnd \in Nat
      BY <1>0, FragmentsAssumption DEF Within
    <3> QED BY <3>1, <3>2
  <2> QED BY <1>2, <2>1 DEF Kept
<1>6. Fine
  BY <1>1, <1>3, <1>4, FragmentsAssumption DEF Fine
<1> QED BY <1>1, <1>3, <1>5, <1>6

-----------------------------------------------------------------------------
(* The list of fragments is always well formed.                            *)

\* Nothing is in the list at first.
LEMMA InitWellFormed == Init => WellFormed
<1> SUFFICES ASSUME Init PROVE WellFormed
  OBVIOUS
<1>1. /\ frag = << >> /\ length = 0 /\ data_size = 0 /\ incomplete = TRUE /\ id = 0
  BY DEF Init
<1>2. frag \in Seq(Fragment) /\ Len(frag) = 0
  BY <1>1
<1>3. TypeOK
  BY <1>1, <1>2, FragmentsAssumption DEF TypeOK
<1>4. Total(frag) = 0
  <2>1. PICK a : Sums(a, frag) /\ Total(frag) = a[Len(frag)]
    BY <1>2, TotalSums
  <2> QED BY <1>2, <2>1 DEF Sums
<1> QED BY <1>1, <1>2, <1>3, <1>4 DEF WellFormed

\* No operation breaks it.
LEMMA NextWellFormed == WellFormed /\ Next => WellFormed'
<1> SUFFICES ASSUME WellFormed, Next PROVE WellFormed'
  OBVIOUS
<1>0. incomplete \in BOOLEAN /\ id \in 0 .. 1
  BY Parts
<1>1. ASSUME NEW o \in 0 .. MaxEnd, NEW v \in Versions, NEW n \in 1 .. MaxEnd - o,
             AddFragment(o, n, v)
      PROVE  WellFormed'
  <2>1. ASSUME NEW mem \in BOOLEAN, InsertInto(o, n, v, mem) \/ InsertNew(o, n, v, mem)
        PROVE  WellFormed'
    <3>1. Fine /\ incomplete' \in BOOLEAN /\ NewId
      BY <2>1, WriteStep
    <3> QED BY <1>0, <3>1, IdFacts, Whole
  <2>2. ASSUME InsertFails(o, n) PROVE WellFormed'
    <3>1. Fine /\ incomplete' = incomplete /\ NewId
      BY <2>2, FailsStep
    <3> QED BY <1>0, <3>1, IdFacts, Whole
  <2> QED BY <1>1, <2>1, <2>2 DEF AddFragment
<1>2. ASSUME GetCacheFragment PROVE WellFormed'
  <2>1. Fine /\ incomplete' = incomplete /\ id' = id
    BY <1>2, ReadStep
  <2> QED BY <1>0, <2>1, Whole
<1>3. ASSUME GetFirstFragment PROVE WellFormed'
  <2>1. vars' = vars
    BY <1>3 DEF GetFirstFragment
  <2> QED BY <2>1 DEF vars, WellFormed, TypeOK
<1>4. ASSUME NEW n \in 0 .. MaxEnd, NormalizeCacheEntry(n) PROVE WellFormed'
  <2>1. Fine /\ incomplete' \in BOOLEAN /\ id' = id
    BY <1>4, CutStep
  <2> QED BY <1>0, <2>1, Whole
<1>5. ASSUME NEW o \in 1 .. MaxEnd, FreeEntryTo(o) PROVE WellFormed'
  <2>1. Fine /\ incomplete' = incomplete /\ id' = id
    BY <1>5, StripStep
  <2> QED BY <1>0, <2>1, Whole
<1>6. ASSUME DeleteEntryContent PROVE WellFormed'
  <2>1. Fine /\ incomplete' \in BOOLEAN /\ NewId
    BY <1>6, DeleteStep
  <2> QED BY <1>0, <2>1, IdFacts, Whole
<1> QED BY <1>1, <1>2, <1>3, <1>4, <1>5, <1>6 DEF Next

\* get_cache_fragment() never meets fragments that overlap or are out of
\* order, no fragment outgrows its memory or the entry, and the account covers
\* what is kept: for every length of a document, with every allocation
\* failing or not.
THEOREM AlwaysWellFormed == Spec => []WellFormed
<1>1. WellFormed /\ UNCHANGED vars => WellFormed'
  BY DEF vars, WellFormed, TypeOK
<1>2. WellFormed /\ [Next]_vars => WellFormed'
  BY <1>1, NextWellFormed
<1> QED BY InitWellFormed, <1>2, PTL DEF Spec

-----------------------------------------------------------------------------
(* The fragments implement Document.                                       *)

\* Document's bytes are those of the fragments.
MCInv == WellFormed /\ bytes = BytesOf(frag)

\* Document's Keeps, for the bytes of two lists.
LEMMA KeptBytes ==
    ASSUME NEW fs, NEW gs, Good(fs), Good(gs), Within(fs, MaxEnd), Within(gs, MaxEnd),
           NEW lost, NEW fresh, Kept(fs, gs, lost, fresh)
    PROVE  /\ DOMAIN BytesOf(fs) \ lost \subseteq DOMAIN BytesOf(gs)
           /\ \A i \in DOMAIN BytesOf(gs) \ fresh :
                i \in DOMAIN BytesOf(fs) /\ BytesOf(gs)[i] = BytesOf(fs)[i]
<1>0. /\ fs \in Seq(Fragment) /\ Disjoint(fs) /\ gs \in Seq(Fragment) /\ Disjoint(gs)
  BY DEF Good
<1>1. /\ \A x : x \in DOMAIN BytesOf(fs) <=> \E k \in 1 .. Len(fs) : Has(fs, k, x)
      /\ \A k \in 1 .. Len(fs) : \A x :
           Has(fs, k, x) => BytesOf(fs)[x] = Byte(fs, k, x)
  BY <1>0, BytesFacts
<1>2. /\ \A x : x \in DOMAIN BytesOf(gs) <=> \E k \in 1 .. Len(gs) : Has(gs, k, x)
      /\ \A k \in 1 .. Len(gs) : \A x :
           Has(gs, k, x) => BytesOf(gs)[x] = Byte(gs, k, x)
  BY <1>0, BytesFacts
<1>3. ASSUME NEW x \in DOMAIN BytesOf(fs) \ lost PROVE x \in DOMAIN BytesOf(gs)
  BY <1>1, <1>2 DEF Kept
<1>4. ASSUME NEW x \in DOMAIN BytesOf(gs) \ fresh
      PROVE  x \in DOMAIN BytesOf(fs) /\ BytesOf(gs)[x] = BytesOf(fs)[x]
  <2>1. PICK j \in 1 .. Len(gs) : Has(gs, j, x)
    BY <1>2
  <2>2. PICK k \in 1 .. Len(fs) : Has(fs, k, x) /\ Byte(gs, j, x) = Byte(fs, k, x)
    BY <2>1 DEF Kept
  <2>3. BytesOf(gs)[x] = Byte(gs, j, x) /\ BytesOf(fs)[x] = Byte(fs, k, x)
    BY <1>1, <1>2, <2>1, <2>2
  <2> QED BY <1>1, <2>2, <2>3
<1> QED BY <1>3, <1>4

\* The bytes that have been written are there.
LEMMA FilledBytes ==
    ASSUME NEW gs, Good(gs), Within(gs, MaxEnd), NEW o, NEW e, NEW v, Filled(gs, o, e, v)
    PROVE  \A i \in o .. e - 1 : i \in DOMAIN BytesOf(gs) /\ BytesOf(gs)[i] = v
<1>0. gs \in Seq(Fragment) /\ Disjoint(gs)
  BY DEF Good
<1>1. /\ \A x : x \in DOMAIN BytesOf(gs) <=> \E k \in 1 .. Len(gs) : Has(gs, k, x)
      /\ \A k \in 1 .. Len(gs) : \A x :
           Has(gs, k, x) => BytesOf(gs)[x] = Byte(gs, k, x)
  BY <1>0, BytesFacts
<1> SUFFICES ASSUME NEW i \in o .. e - 1
             PROVE  i \in DOMAIN BytesOf(gs) /\ BytesOf(gs)[i] = v
  OBVIOUS
<1>2. PICK k \in 1 .. Len(gs) : Has(gs, k, i) /\ Byte(gs, k, i) = v
  BY DEF Filled
<1>3. BytesOf(gs)[i] = Byte(gs, k, i)
  BY <1>1, <1>2
<1> QED BY <1>1, <1>2, <1>3

\* No byte is beyond the end.
LEMMA WithinBytes ==
    ASSUME NEW gs, Good(gs), Within(gs, MaxEnd), NEW n \in Nat, Within(gs, n)
    PROVE  \A i \in DOMAIN BytesOf(gs) : i < n
<1>0. gs \in Seq(Fragment) /\ Disjoint(gs)
  BY DEF Good
<1> SUFFICES ASSUME NEW i \in DOMAIN BytesOf(gs) PROVE i < n
  OBVIOUS
<1>1. PICK k \in 1 .. Len(gs) : Has(gs, k, i)
  BY <1>0, BytesFacts
<1>2. i \in Nat /\ i < End(gs[k]) /\ End(gs[k]) \in Nat
  BY <1>0, <1>1, HasIndex, ListFacts
<1>3. End(gs[k]) <= n
  BY DEF Within
<1> QED BY <1>2, <1>3

\* A list that keeps all bytes and adds none has the same.
LEMMA SameBytes ==
    ASSUME NEW fs, NEW gs, Good(fs), Good(gs), Within(fs, MaxEnd), Within(gs, MaxEnd),
           Kept(fs, gs, {}, {})
    PROVE  BytesOf(gs) = BytesOf(fs)
<1>1. /\ DOMAIN BytesOf(fs) \ {} \subseteq DOMAIN BytesOf(gs)
      /\ \A i \in DOMAIN BytesOf(gs) \ {} :
           i \in DOMAIN BytesOf(fs) /\ BytesOf(gs)[i] = BytesOf(fs)[i]
  BY KeptBytes
<1>2. /\ BytesOf(fs) = [i \in DOMAIN BytesOf(fs) |-> BytesOf(fs)[i]]
      /\ BytesOf(gs) = [i \in DOMAIN BytesOf(gs) |-> BytesOf(gs)[i]]
  BY DEF BytesOf
<1>3. DOMAIN BytesOf(fs) = DOMAIN BytesOf(gs)
  BY <1>1
<1>4. \A i \in DOMAIN BytesOf(gs) : BytesOf(gs)[i] = BytesOf(fs)[i]
  BY <1>1
<1> QED BY <1>2, <1>3, <1>4

\* Document takes the least and the greatest of a set as Fragments does.
LEMMA SameMinMax ==
    ASSUME NEW S
    PROVE  Doc!Min(S) = Min(S) /\ Doc!Max(S) = Max(S)
BY DEF Doc!Min, Min, Doc!Max, Max

\* What a reader gets: get_cache_fragment() returns Document's Beginning, and
\* the first fragment is a part of it.
LEMMA BeginningFacts ==
    ASSUME MCInv
    PROVE  /\ Begins => Doc!Beginning = CacheFragment
           /\ ~Begins => Doc!Beginning = << >>
           /\ Begins => \E n \in 0 .. Len(Doc!Beginning) :
                           frag[1].data = SubSeq(Doc!Beginning, 1, n)
<1> DEFINE N == Len(frag)
           D == DOMAIN bytes
           U == {i \in 0 .. MaxEnd + 1 : i \notin D}
           n == Min(U)
<1>0. /\ Good(frag) /\ Within(frag, MaxEnd) /\ MaxEnd \in Nat /\ bytes = BytesOf(frag)
  BY Parts, FragmentsAssumption DEF MCInv
<1>1. frag \in Seq(Fragment) /\ Disjoint(frag) /\ N \in Nat
  BY <1>0, ListFacts DEF Good
<1>2. /\ D \subseteq 0 .. MaxEnd
      /\ \A x : x \in D <=> \E k \in 1 .. N : Has(frag, k, x)
      /\ \A k \in 1 .. N : \A x : Has(frag, k, x) => bytes[x] = Byte(frag, k, x)
  BY <1>0, <1>1, BytesFacts
<1>3. \A i \in 1 .. N : /\ frag[i].offset \in Nat /\ End(frag[i]) \in Nat
                        /\ frag[i].offset <= End(frag[i]) /\ End(frag[i]) <= MaxEnd
                        /\ frag[i].data \in Seq(Versions)
                        /\ Len(frag[i].data) = End(frag[i]) - frag[i].offset
  BY <1>0, <1>1, ListFacts DEF Within
<1>4. Doc!Beginning = [i \in 1 .. n |-> bytes[i - 1]]
  BY SameMinMax DEF Doc!Beginning
<1> HIDE DEF D
<1>5. n \in U /\ \A y \in U : n <= y
  <2>1. MaxEnd + 1 \in U
    BY <1>0, <1>2
  <2>2. U \in SUBSET Nat /\ U # {}
    BY <1>0, <2>1
  <2> HIDE DEF U
  <2> QED BY <2>2, MinFacts
<1> HIDE DEF n
<1>6. CASE ~Begins
  <2>1. 0 \notin D
    <3> SUFFICES ASSUME NEW k \in 1 .. N, Has(frag, k, 0) PROVE FALSE
      BY <1>2
    <3>1. frag[k].offset = 0
      <4>1. frag[k].offset <= 0
        BY <1>1, HasIndex
      <4> QED BY <1>3, <4>1
    <3>2. frag # << >> /\ 1 \in 1 .. N
      BY <1>1
    <3>3. CASE k = 1
      BY <1>6, <3>1, <3>2, <3>3 DEF Begins
    <3>4. CASE k # 1
      <4>1. 1 < k
        BY <1>1, <3>4
      <4>2. End(frag[1]) <= frag[k].offset
        BY <1>1, <3>2, <4>1 DEF Disjoint
      <4>3. frag[1].offset = 0
        BY <1>3, <3>1, <3>2, <4>2
      <4> QED BY <1>6, <3>2, <4>3 DEF Begins
    <3> QED BY <3>3, <3>4
  <2>2. 0 \in U
    BY <1>0, <2>1
  <2>3. n = 0
    BY <1>0, <1>5, <2>2
  <2>4. [i \in 1 .. n |-> bytes[i - 1]] = << >>
    BY <2>3
  <2> QED BY <1>4, <1>6, <2>4
<1>7. CASE Begins
  <2> DEFINE m == Adjacent
             c == CacheFragment
             e == End(frag[m])
  <2>1. m \in 1 .. N /\ m \in Nat /\ \A i \in m + 1 .. N : e < frag[i].offset
    <3>1. m = Adjacent
      OBVIOUS
    <3> HIDE DEF m
    <3>2. m \in 1 .. N /\ \A i \in m + 1 .. N : End(frag[m]) < frag[i].offset
      BY <1>0, <1>7, <3>1, AdjacentFacts
    <3> QED BY <1>1, <3>2
  <2>2. /\ c \in Seq(Versions) /\ Len(c) = e
        /\ \A x \in 0 .. e - 1 :
             \E i \in 1 .. m : Has(frag, i, x) /\ c[x + 1] = Byte(frag, i, x)
    <3>1. PICK a : Sums(a, frag)
      BY <1>1, TotalSums
    <3>2. m = Adjacent /\ c = CacheFragment
      OBVIOUS
    <3> HIDE DEF m, c
    <3> QED BY <1>0, <1>7, <3>1, <3>2, ReadFacts
  <2> HIDE DEF m
  <2>3. e \in Nat /\ e <= MaxEnd
    BY <1>3, <2>1
  <2>4. ASSUME NEW x \in 0 .. e - 1 PROVE x \in D /\ c[x + 1] = bytes[x]
    <3>1. PICK i \in 1 .. m : Has(frag, i, x) /\ c[x + 1] = Byte(frag, i, x)
      BY <2>2
    <3>2. i \in 1 .. N
      BY <1>1, <2>1
    <3> HIDE DEF c
    <3> QED BY <1>2, <3>1, <3>2
  <2>5. e \notin D
    <3> SUFFICES ASSUME NEW k \in 1 .. N, Has(frag, k, e) PROVE FALSE
      BY <1>2
    <3>1. frag[k].offset <= e /\ e < End(frag[k])
      BY <1>1, HasIndex
    <3>2. CASE k = m
      BY <2>3, <3>1, <3>2
    <3>3. CASE k < m
      <4>1. End(frag[k]) <= frag[m].offset
        BY <1>1, <2>1, <3>3 DEF Disjoint
      <4> QED BY <1>3, <2>1, <3>1, <4>1
    <3>4. CASE k > m
      <4>1. k \in m + 1 .. N
        BY <1>1, <2>1, <3>4
      <4>2. e < frag[k].offset
        BY <2>1, <4>1
      <4> QED BY <1>3, <2>3, <3>1, <4>2
    <3> QED BY <2>1, <3>2, <3>3, <3>4
  <2> HIDE DEF c, e
  <2>6. n = e
    <3>1. e \in U
      BY <1>0, <2>3, <2>5
    <3>2. n <= e /\ n \in Nat
      BY <1>0, <1>5, <3>1
    <3>3. ~(n < e)
      <4> SUFFICES ASSUME n < e PROVE FALSE
        OBVIOUS
      <4>1. n \in 0 .. e - 1
        BY <2>3, <3>2
      <4>2. n \in D
        BY <2>4, <4>1
      <4> QED BY <1>5, <4>2
    <3> QED BY <2>3, <3>2, <3>3
  <2>7. Doc!Beginning = c
    <3>1. ASSUME NEW i \in 1 .. e PROVE bytes[i - 1] = c[i]
      <4>1. i - 1 \in 0 .. e - 1 /\ i - 1 + 1 = i
        BY <2>3
      <4> QED BY <2>4, <4>1
    <3>2. c = [i \in 1 .. e |-> c[i]]
      <4>1. c = [i \in 1 .. Len(c) |-> c[i]]
        BY <2>2
      <4> QED BY <2>2, <4>1
    <3>3. [i \in 1 .. n |-> bytes[i - 1]] = [i \in 1 .. e |-> c[i]]
      BY <2>6, <3>1
    <3> QED BY <1>4, <3>2, <3>3
  <2>8. 1 \in 1 .. N /\ frag[1].offset = 0
    BY <1>1, <1>7, <2>1 DEF Begins
  <2> DEFINE d == frag[1].data
             w == End(frag[1])
  <2>9. d \in Seq(Versions) /\ w \in Nat /\ Len(d) = w /\ w <= e
    <3>1. d \in Seq(Versions) /\ w \in Nat /\ Len(d) = w
      BY <1>3, <2>8
    <3>2. CASE m = 1
      <4>1. w = e
        BY <3>2 DEF e
      <4> QED BY <3>1, <4>1
    <3>3. CASE m # 1
      <4>1. End(frag[1]) <= frag[m].offset
        BY <1>1, <2>1, <2>8, <3>3 DEF Disjoint
      <4>2. frag[m].offset <= End(frag[m]) /\ frag[m].offset \in Nat /\ End(frag[m]) \in Nat
        BY <1>3, <2>1
      <4>3. w <= End(frag[m])
        BY <3>1, <4>1, <4>2
      <4> QED BY <3>1, <4>3 DEF e
    <3> QED BY <3>1, <3>2, <3>3
  <2>10. ASSUME NEW i \in 1 .. w PROVE c[i] = d[i]
    <3>1. i - 1 \in 0 .. e - 1 /\ i - 1 + 1 = i /\ i - 1 \in 0 .. w - 1
      BY <2>3, <2>9
    <3>2. c[i] = bytes[i - 1]
      BY <2>4, <3>1
    <3>3. Has(frag, 1, i - 1)
      BY <2>8, <3>1 DEF Has
    <3>4. bytes[i - 1] = Byte(frag, 1, i - 1)
      BY <1>2, <2>8, <3>3
    <3>5. i - 1 - frag[1].offset + 1 = i
      BY <2>8, <2>9
    <3> QED BY <3>2, <3>4, <3>5 DEF Byte
  <2>11. d = SubSeq(c, 1, w) /\ w \in 0 .. Len(c)
    <3>0. w \in 0 .. Len(c)
      BY <2>2, <2>3, <2>9
    <3>1. /\ SubSeq(c, 1, w) \in Seq(Versions) /\ Len(SubSeq(c, 1, w)) = w
          /\ \A i \in 1 .. w : SubSeq(c, 1, w)[i] = c[i]
      <4> HIDE DEF w
      <4> QED BY <2>2, <3>0, PrefixFacts
    <3> DEFINE t == SubSeq(c, 1, w)
    <3>2. t \in Seq(Versions) /\ Len(t) = w /\ \A i \in 1 .. w : t[i] = d[i]
      BY <2>10, <3>1
    <3> HIDE DEF t, d, w
    <3>3. t = d
      BY <2>9, <3>2, SeqEqual
    <3> QED BY <3>0, <3>3 DEF t
  <2> HIDE DEF d, w
  <2>12. \E k \in 0 .. Len(c) : d = SubSeq(c, 1, k)
    BY <2>11
  <2> QED BY <1>7, <2>7, <2>12 DEF c, d
<1> QED BY <1>6, <1>7

\* A step that keeps the bytes of the list keeps those of the document.
LEMMA KeepsStep ==
    ASSUME MCInv, Fine, bytes' = BytesOf(frag')
    PROVE  /\ Good(frag') /\ Within(frag', MaxEnd) /\ length' \in Nat
           /\ \A lost, fresh : Kept(frag, frag', lost, fresh) => Doc!Keeps(lost, fresh)
           /\ \A i \in DOMAIN bytes' : i < length'
<1>0. Good(frag) /\ Within(frag, MaxEnd) /\ bytes = BytesOf(frag)
  BY Parts DEF MCInv
<1>1. /\ Good(frag') /\ Within(frag', length') /\ length' \in Nat /\ length' <= MaxEnd
      /\ frag' \in Seq(Fragment) /\ MaxEnd \in Nat
  BY FragmentsAssumption DEF Fine, Good
<1>2. Within(frag', MaxEnd)
  <2> SUFFICES ASSUME NEW i \in 1 .. Len(frag') PROVE End(frag'[i]) <= MaxEnd
    BY DEF Within
  <2>1. End(frag'[i]) <= length' /\ End(frag'[i]) \in Nat
    BY <1>1, ListFacts DEF Within
  <2> QED BY <1>1, <2>1
<1>3. ASSUME NEW lost, NEW fresh, Kept(frag, frag', lost, fresh)
      PROVE  Doc!Keeps(lost, fresh)
  <2>1. /\ DOMAIN BytesOf(frag) \ lost \subseteq DOMAIN BytesOf(frag')
        /\ \A i \in DOMAIN BytesOf(frag') \ fresh :
             i \in DOMAIN BytesOf(frag) /\ BytesOf(frag')[i] = BytesOf(frag)[i]
    BY <1>0, <1>1, <1>2, <1>3, KeptBytes
  <2> QED BY <1>0, <2>1 DEF Doc!Keeps
<1>4. \A i \in DOMAIN BytesOf(frag') : i < length'
  BY <1>1, <1>2, WithinBytes
<1> QED BY <1>1, <1>2, <1>3, <1>4

\* A byte that is lost needs no new id.
LEMMA KeepsMarks ==
    ASSUME NEW lost, DOMAIN bytes \subseteq 0 .. MaxEnd, Doc!Keeps(lost, {})
    PROVE  Doc!Marked
BY DEF Doc!Keeps, Doc!Marked

\* One operation of the entry is one of Document.
LEMMA NextImplements == MCInv /\ MCNext => Doc!DocNext
<1> SUFFICES ASSUME MCInv, MCNext PROVE Doc!DocNext
  OBVIOUS
<1>0. /\ WellFormed /\ id \in 0 .. 1 /\ Good(frag) /\ Within(frag, MaxEnd)
      /\ length \in Nat /\ bytes = BytesOf(frag)
  BY Parts DEF MCInv
<1>1. DOMAIN bytes \subseteq 0 .. MaxEnd
  BY <1>0, BytesFacts DEF Good
<1>2. ASSUME NEW o \in 0 .. MaxEnd, NEW v \in Versions, NEW n \in 1 .. MaxEnd - o,
             AddFragment(o, n, v), Call(<<"write", o, n, v>>)
      PROVE  Doc!DocNext
  <2> DEFINE e == o + n
  <2>0. call' = <<"write", o, n, v>> /\ bytes' = BytesOf(frag')
    BY <1>2 DEF Call
  <2>1. ASSUME NEW mem \in BOOLEAN, InsertInto(o, n, v, mem) \/ InsertNew(o, n, v, mem)
        PROVE  Doc!DocNext
    <3>1. e = o + n
      OBVIOUS
    <3> HIDE DEF e
    <3>2. Fine /\ Filled(frag', o, e, v) /\ NewId
      BY <1>0, <2>1, <3>1, WriteStep
    <3>3. Kept(frag, frag', o .. MaxEnd, o .. e - 1)
      BY <1>0, <2>1, <3>1, WriteStep
    <3>4. length' \in {e, Max({length, e})}
      BY <1>0, <2>1, <3>1, WriteStep
    <3>5. /\ Good(frag') /\ Within(frag', MaxEnd)
          /\ Doc!Keeps(o .. MaxEnd, o .. e - 1)
          /\ \A i \in DOMAIN bytes' : i < length'
      BY <2>0, <3>2, <3>3, KeepsStep
    <3>6. \A i \in o .. e - 1 : i \in DOMAIN bytes' /\ bytes'[i] = v
      BY <2>0, <3>2, <3>5, FilledBytes
    <3>7. Doc!Marked
      BY <1>0, <3>2, IdFacts DEF Doc!Marked
    <3>8. \/ length' = e
          \/ \A i \in Doc!Compared(o, n) : bytes[i] = v
          \/ e \in DOMAIN bytes \ DOMAIN bytes'
      <4>1. \/ length' = e
            \/ \A q \in 1 .. Len(frag) : \A x :
                 Has(frag, q, x) /\ Looked(o, e, x) => Byte(frag, q, x) = v
            \/ /\ \E q \in 1 .. Len(frag) : Has(frag, q, e)
               /\ \A i \in 1 .. Len(frag') : ~Has(frag', i, e)
        <5>1. e \in Nat /\ e = o + n
          BY <3>1, FragmentsAssumption
        <5> QED BY <1>0, <2>1, <5>1, TailStep
      <4>2. /\ \A x : x \in DOMAIN bytes <=> \E q \in 1 .. Len(frag) : Has(frag, q, x)
            /\ \A q \in 1 .. Len(frag) : \A x :
                 Has(frag, q, x) => bytes[x] = Byte(frag, q, x)
        BY <1>0, BytesFacts DEF Good
      <4>3. \A x : x \in DOMAIN bytes' <=> \E q \in 1 .. Len(frag') : Has(frag', q, x)
        BY <2>0, <3>5, BytesFacts DEF Good
      <4>4. ASSUME \A q \in 1 .. Len(frag) : \A x :
                      Has(frag, q, x) /\ Looked(o, e, x) => Byte(frag, q, x) = v,
                   NEW i \in Doc!Compared(o, n)
            PROVE  bytes[i] = v
        <5>1. i \in DOMAIN bytes /\ Looked(o, e, i)
          BY <3>1, <4>2 DEF Doc!Compared, Looked
        <5>2. PICK q \in 1 .. Len(frag) : Has(frag, q, i)
          BY <4>2, <5>1
        <5> QED BY <4>2, <4>4, <5>1, <5>2
      <4> QED BY <4>1, <4>2, <4>3, <4>4
    <3>9. Doc!Write(o, n, v)
      BY <2>0, <3>1, <3>4, <3>5, <3>6, <3>8, SameMinMax DEF Doc!Write
    <3> QED BY <3>7, <3>9 DEF Doc!DocNext
  <2>2. ASSUME InsertFails(o, n) PROVE Doc!DocNext
    <3>1. e = o + n
      OBVIOUS
    <3> HIDE DEF e
    <3>2. /\ Fine /\ Kept(frag, frag', o .. e - 1, {})
          /\ length' = Max({length, e}) /\ NewId
      BY <1>0, <2>2, <3>1, FailsStep
    <3>3. Doc!Keeps(o .. e - 1, {})
      BY <2>0, <3>2, KeepsStep
    <3>4. Doc!Marked
      BY <1>0, <3>2, IdFacts DEF Doc!Marked
    <3>5. Doc!WriteFails(o, n, v)
      BY <2>0, <3>1, <3>2, <3>3, SameMinMax DEF Doc!WriteFails
    <3> QED BY <3>4, <3>5 DEF Doc!DocNext
  <2> QED BY <1>2, <2>1, <2>2 DEF AddFragment
<1>3. ASSUME GetCacheFragment, Call(<<"read", Returned'>>) PROVE Doc!DocNext
  <2>0. call' = <<"read", Returned'>> /\ bytes' = BytesOf(frag')
    BY <1>3 DEF Call
  <2>1. /\ Fine /\ Kept(frag, frag', {}, {})
        /\ Begins => Begins' /\ frag'[1].data = CacheFragment
        /\ ~Begins => frag' = frag
        /\ length' = length
    BY <1>0, <1>3, ReadStep
  <2>2. /\ Good(frag') /\ Within(frag', MaxEnd) /\ Doc!Keeps({}, {})
    BY <2>0, <2>1, KeepsStep
  <2>3. bytes' = bytes
    BY <1>0, <2>0, <2>1, <2>2, SameBytes
  <2>4. Returned' = Doc!Beginning
    <3>1. CASE Begins
      <4>1. Returned' = frag'[1].data
        BY <2>1, <3>1 DEF Returned
      <4> QED BY <2>1, <3>1, <4>1, BeginningFacts
    <3>2. CASE ~Begins
      <4>1. ~Begins'
        BY <2>1, <3>2 DEF Begins
      <4>2. Returned' = << >>
        BY <4>1 DEF Returned
      <4> QED BY <3>2, <4>2, BeginningFacts
    <3> QED BY <3>1, <3>2
  <2>5. Doc!Read
    BY <2>0, <2>1, <2>3, <2>4 DEF Doc!Read
  <2>6. Doc!Marked
    BY <1>1, <2>2, KeepsMarks
  <2> QED BY <2>5, <2>6 DEF Doc!DocNext
<1>4. ASSUME GetFirstFragment, Call(<<"part", Returned'>>) PROVE Doc!DocNext
  <2>0. call' = <<"part", Returned'>> /\ bytes' = BytesOf(frag')
    BY <1>4 DEF Call
  <2>1. Begins /\ frag' = frag /\ length' = length
    BY <1>4 DEF GetFirstFragment, vars
  <2>2. bytes' = bytes
    BY <1>0, <2>0, <2>1
  <2>3. Returned' = frag[1].data
    BY <2>1 DEF Returned, Begins
  <2>4. PICK n \in 0 .. Len(Doc!Beginning) : frag[1].data = SubSeq(Doc!Beginning, 1, n)
    BY <2>1, BeginningFacts
  <2>5. call' = <<"part", SubSeq(Doc!Beginning, 1, n)>>
    BY <2>0, <2>3, <2>4
  <2>6. Doc!ReadPart
    BY <2>1, <2>2, <2>4, <2>5 DEF Doc!ReadPart
  <2>7. Doc!Marked
    BY <2>2 DEF Doc!Marked, Doc!Keeps
  <2> QED BY <2>6, <2>7 DEF Doc!DocNext
<1>5. ASSUME NEW n \in 0 .. MaxEnd, NormalizeCacheEntry(n), Call(<<"cut", n>>)
      PROVE  Doc!DocNext
  <2>0. call' = <<"cut", n>> /\ bytes' = BytesOf(frag')
    BY <1>5 DEF Call
  <2>1. /\ Fine /\ Within(frag', n) /\ Kept(frag, frag', n .. MaxEnd, {})
        /\ length' = Min({length, n})
    BY <1>0, <1>5, CutStep
  <2>2. Good(frag') /\ Within(frag', MaxEnd) /\ Doc!Keeps(n .. MaxEnd, {})
    BY <2>0, <2>1, KeepsStep
  <2>3. \A i \in DOMAIN bytes' : i < n
    <3>1. n \in Nat
      BY FragmentsAssumption
    <3> QED BY <2>0, <2>1, <2>2, <3>1, WithinBytes
  <2>4. Doc!Cut(n)
    BY <2>0, <2>1, <2>2, <2>3, SameMinMax DEF Doc!Cut
  <2>5. Doc!Marked
    BY <1>1, <2>2, KeepsMarks
  <2> QED BY <2>4, <2>5 DEF Doc!DocNext
<1>6. ASSUME NEW o \in 1 .. MaxEnd, FreeEntryTo(o), Call(<<"strip", o>>)
      PROVE  Doc!DocNext
  <2>0. call' = <<"strip", o>> /\ bytes' = BytesOf(frag')
    BY <1>6 DEF Call
  <2>1. /\ Fine /\ Kept(frag, frag', 0 .. o - 1, {})
        /\ \A j \in 1 .. Len(frag') : \A x : Has(frag', j, x) => x >= o
        /\ length' = length
    BY <1>0, <1>6, StripStep
  <2>2. Good(frag') /\ Within(frag', MaxEnd) /\ Doc!Keeps(0 .. o - 1, {})
    BY <2>0, <2>1, KeepsStep
  <2>3. \A i \in DOMAIN bytes' : i >= o
    <3>1. \A x : x \in DOMAIN BytesOf(frag') <=> \E k \in 1 .. Len(frag') : Has(frag', k, x)
      BY <2>2, BytesFacts DEF Good
    <3> QED BY <2>0, <2>1, <3>1
  <2>4. Doc!Strip(o)
    BY <2>0, <2>1, <2>2, <2>3 DEF Doc!Strip
  <2>5. Doc!Marked
    BY <1>1, <2>2, KeepsMarks
  <2>6. o \in 0 .. MaxEnd
    BY FragmentsAssumption
  <2> QED BY <2>4, <2>5, <2>6 DEF Doc!DocNext
<1>7. ASSUME DeleteEntryContent, Call(<<"cut", 0>>) PROVE Doc!DocNext
  <2>0. call' = <<"cut", 0>> /\ bytes' = BytesOf(frag')
    BY <1>7 DEF Call
  <2>1. /\ Fine /\ Within(frag', 0) /\ Kept(frag, frag', 0 .. MaxEnd, {})
        /\ length' = 0
    BY <1>0, <1>7, DeleteStep
  <2>2. Good(frag') /\ Within(frag', MaxEnd) /\ Doc!Keeps(0 .. MaxEnd, {})
    BY <2>0, <2>1, KeepsStep
  <2>3. \A i \in DOMAIN bytes' : i < 0
    BY <2>0, <2>1, <2>2, WithinBytes
  <2>4. length' = Min({length, 0})
    <3>1. {length, 0} \in SUBSET Nat /\ {length, 0} # {}
      BY <1>0
    <3>2. Min({length, 0}) \in {length, 0} /\ Min({length, 0}) <= 0
      BY <3>1, MinFacts
    <3> QED BY <1>0, <2>1, <3>2
  <2>5. Doc!Cut(0)
    BY <2>0, <2>2, <2>3, <2>4, SameMinMax DEF Doc!Cut
  <2>6. Doc!Marked
    BY <1>1, <2>2, KeepsMarks
  <2>7. 0 \in 0 .. MaxEnd
    BY FragmentsAssumption
  <2> QED BY <2>5, <2>6, <2>7 DEF Doc!DocNext
<1> QED BY <1>2, <1>3, <1>4, <1>5, <1>6, <1>7 DEF MCNext

\* The fragments implement Document, for every length of a document and any
\* set of editions: whatever is written where and in whatever order, with or
\* without memory, a write is there afterwards, nothing else is invented or
\* altered, and get_cache_fragment() returns every byte up to the first one
\* that is missing.
THEOREM Refinement == MCSpec => ImplementsDocument
<1>1. MCInit => MCInv /\ Doc!DocInit
  <2> SUFFICES ASSUME MCInit PROVE MCInv /\ Doc!DocInit
    OBVIOUS
  <2>1. Init /\ bytes = BytesOf(frag) /\ call = << >>
    BY DEF MCInit
  <2>2. WellFormed
    BY <2>1, InitWellFormed
  <2>3. frag = << >> /\ length = 0 /\ id = 0
    BY <2>1 DEF Init
  <2>4. bytes = << >>
    <3>1. Good(frag) /\ Within(frag, MaxEnd)
      BY <2>2, Parts
    <3>2. DOMAIN BytesOf(frag) = {}
      <4>1. \A x : x \in DOMAIN BytesOf(frag) <=> \E k \in 1 .. Len(frag) : Has(frag, k, x)
        BY <3>1, BytesFacts DEF Good
      <4>2. 1 .. Len(frag) = {}
        BY <2>3
      <4>3. \A x : x \notin DOMAIN BytesOf(frag)
        BY <4>1, <4>2
      <4> QED BY <4>3
    <3>3. BytesOf(frag) = [i \in DOMAIN BytesOf(frag) |-> BytesOf(frag)[i]]
      BY DEF BytesOf
    <3>4. [i \in {} |-> BytesOf(frag)[i]] = << >>
      OBVIOUS
    <3> QED BY <2>1, <3>2, <3>3, <3>4
  <2> QED BY <2>1, <2>2, <2>3, <2>4 DEF MCInv, Doc!DocInit
<1>2. MCInv /\ [MCNext]_<<vars, bytes, call>> => MCInv'
  <2> SUFFICES ASSUME MCInv, [MCNext]_<<vars, bytes, call>> PROVE MCInv'
    OBVIOUS
  <2>1. CASE MCNext
    <3>1. Next /\ bytes' = BytesOf(frag')
      BY <2>1 DEF MCNext, Next, Call
    <3> QED BY <3>1, NextWellFormed DEF MCInv
  <2>2. CASE UNCHANGED <<vars, bytes, call>>
    BY <2>2 DEF vars, MCInv, WellFormed, TypeOK
  <2> QED BY <2>1, <2>2
<1>3. MCInv /\ [MCNext]_<<vars, bytes, call>> => [Doc!DocNext]_Doc!docVars
  <2>1. UNCHANGED <<vars, bytes, call>> => UNCHANGED Doc!docVars
    BY DEF vars, Doc!docVars
  <2> QED BY <2>1, NextImplements
<1> QED BY <1>1, <1>2, <1>3, PTL DEF MCSpec, ImplementsDocument, Doc!DocSpec

=============================================================================
