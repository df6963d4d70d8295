----------------------------- MODULE HeapProofs -----------------------------
(***************************************************************************)
(* Theorems about Heap, for every heap size and every set of requests.     *)
(***************************************************************************)
EXTENDS Heap, TLAPS, FiniteSetTheorems, WellFoundedInduction

(* Sums over finite sets.  The library's induction theorems take an        *)
(* operator; the two below take a set instead, so they can be cited.       *)

(* Every nonempty set of naturals has a smallest member. *)
LEMMA Smallest ==
  ASSUME NEW S, S \subseteq Nat, S # {}
  PROVE  \E n \in S : \A m \in S : n <= m
<1> DEFINE less == OpToRel(<, Nat)
<1>1. IsWellFoundedOn(less, Nat)
  BY NatLessThanWellFounded
<1>2. \A x, y \in Nat : x < y => <<x, y>> \in less
  BY DEF OpToRel
<1> HIDE DEF less
<1>3. PICK x \in S : \A y \in S : ~(<<y, x>> \in less)
  BY <1>1, WFMin
<1>4. ASSUME NEW m \in S PROVE x <= m
  <2>1. x \in Nat /\ m \in Nat
    OBVIOUS
  <2>2. ~(m < x)
    BY <1>2, <1>3, <2>1
  <2>3. QED
    BY <2>1, <2>2
<1>5. QED
  BY <1>4

(* What holds of a set as soon as it holds of it without any one member,   *)
(* holds of every subset of a finite set.                                  *)
LEMMA SubsetInduction ==
  ASSUME NEW S, IsFiniteSet(S), NEW Q, {} \in Q,
         \A T \in SUBSET S : T # {} /\ (\A x \in T : T \ {x} \in Q) => T \in Q
  PROVE  \A T \in SUBSET S : T \in Q
<1> SUFFICES ASSUME NEW T0 \in SUBSET S, T0 \notin Q PROVE FALSE
  OBVIOUS
<1> DEFINE Bad == {T \in SUBSET S : T \notin Q}
           Counts == {Cardinality(T) : T \in Bad}
<1>1. \A T \in SUBSET S : IsFiniteSet(T) /\ Cardinality(T) \in Nat
  BY FS_Subset, FS_CardinalityType
<1>2. Counts \subseteq Nat /\ Counts # {}
  BY <1>1
<1> HIDE DEF Counts
<1>3. PICK n \in Counts : \A m \in Counts : n <= m
  BY <1>2, Smallest
<1>4. PICK T \in SUBSET S : T \notin Q /\ n = Cardinality(T)
  BY <1>3 DEF Counts
<1>5. PICK x \in T : T \ {x} \notin Q
  BY <1>4
<1>6. Cardinality(T \ {x}) = n - 1
  BY <1>1, <1>4, FS_RemoveElement
<1>7. T \ {x} \in SUBSET S
  OBVIOUS
<1>8. Cardinality(T \ {x}) \in Counts
  BY <1>5, <1>7 DEF Counts
<1>9. QED
  BY <1>2, <1>3, <1>6, <1>8

(* A set with f[x] elements for each x in S: its cardinality is the sum. *)
Pairs(f, S) == UNION {{x} \X (1..f[x]) : x \in S}

(* One more member of S adds its f[x] pairs. *)
LEMMA PairsOfMore ==
  ASSUME NEW f, NEW S, NEW x \in S, f[x] \in Nat, IsFiniteSet(Pairs(f, S \ {x}))
  PROVE  /\ IsFiniteSet(Pairs(f, S))
         /\ Cardinality(Pairs(f, S)) = f[x] + Cardinality(Pairs(f, S \ {x}))
<1> DEFINE one == {x} \X (1..f[x])
           rest == Pairs(f, S \ {x})
<1>1. Pairs(f, S) = one \cup rest
  BY DEF Pairs
<1>2. one \cap rest = {}
  BY DEF Pairs
<1>3. IsFiniteSet({x}) /\ Cardinality({x}) = 1
  BY FS_Singleton
<1>4. IsFiniteSet(1..f[x]) /\ Cardinality(1..f[x]) = f[x]
  BY FS_Interval, SMTT(30)
<1>5. IsFiniteSet(one) /\ Cardinality(one) = Cardinality({x}) * Cardinality(1..f[x])
  BY <1>3, <1>4, FS_Product
<1>6. Cardinality(one) = f[x]
  BY <1>3, <1>4, <1>5
<1> HIDE DEF one, rest
<1>7. /\ IsFiniteSet(one \cup rest)
      /\ Cardinality(one \cup rest) = Cardinality(one) + Cardinality(rest) - Cardinality(one \cap rest)
  BY <1>5, FS_Union DEF rest
<1>8. Cardinality(one \cap rest) = 0
  BY <1>2, FS_EmptySet
<1>9. Cardinality(rest) \in Nat
  BY FS_CardinalityType DEF rest
<1>10. QED
  BY <1>1, <1>6, <1>7, <1>8, <1>9 DEF rest

(* The pairs are finitely many, so that they can be counted. *)
LEMMA PairsFinite ==
  ASSUME NEW f, NEW S, IsFiniteSet(S), \A x \in S : f[x] \in Nat
  PROVE  \A T \in SUBSET S : IsFiniteSet(Pairs(f, T))
<1> DEFINE Q == {T \in SUBSET S : IsFiniteSet(Pairs(f, T))}
<1>1. Pairs(f, {}) = {}
  BY DEF Pairs
<1>2. {} \in Q
  BY <1>1, FS_EmptySet
<1>3. \A T \in SUBSET S : T # {} /\ (\A x \in T : T \ {x} \in Q) => T \in Q
  BY PairsOfMore
<1> HIDE DEF Q
<1>4. \A T \in SUBSET S : T \in Q
  BY <1>2, <1>3, SubsetInduction
<1>5. QED
  BY <1>4 DEF Q

(* The library's recursive sum is the number of pairs: both satisfy the    *)
(* recursion over subsets of S, and it has a single solution.              *)
LEMMA SumIsCount ==
  ASSUME NEW f, NEW S, IsFiniteSet(S), \A x \in S : f[x] \in Nat
  PROVE  SumFunctionOnSet(f, S) = Cardinality(Pairs(f, S))
<1> DEFINE Choice(s) == CHOOSE x \in s : TRUE
           Sums(g) == g = [s \in SUBSET S |->
                             IF s = {} THEN 0 ELSE f[Choice(s)] + g[s \ {Choice(s)}]]
           count == [s \in SUBSET S |-> Cardinality(Pairs(f, s))]
<1>1. Pairs(f, {}) = {} /\ Cardinality({}) = 0
  BY FS_EmptySet DEF Pairs
<1>2. \A s \in SUBSET S : s # {} => Choice(s) \in s
  OBVIOUS
<1> HIDE DEF Choice
<1>3. \A s \in SUBSET S : s # {} =>
        Cardinality(Pairs(f, s)) = f[Choice(s)] + Cardinality(Pairs(f, s \ {Choice(s)}))
  BY <1>2, PairsOfMore, PairsFinite
<1>4. Sums(count)
  BY <1>1, <1>2, <1>3
<1>5. SumFunctionOnSet(f, S) = (CHOOSE g : Sums(g))[S]
  BY DEF SumFunctionOnSet, FoldFunctionOnSet, MapThenFoldSet, Choice
<1> HIDE DEF Sums, count
<1>6. PICK g : g = CHOOSE h : Sums(h)
  OBVIOUS
<1>7. Sums(g)
  BY <1>4, <1>6
<1> DEFINE Q == {s \in SUBSET S : g[s] = count[s]}
<1> USE DEF Sums
<1>8. {} \in Q
  BY <1>1, <1>7 DEF count
<1>9. ASSUME NEW T \in SUBSET S, \A x \in T : T \ {x} \in Q, T # {} PROVE T \in Q
  BY <1>2, <1>4, <1>7, <1>9
<1>10. \A T \in SUBSET S : T \in Q
  <2> HIDE DEF Q
  <2> QED
    BY <1>8, <1>9, SubsetInduction
<1>11. QED
  BY <1>5, <1>6, <1>10 DEF count

(* The sum over no member at all. *)
LEMMA SumOfNothing ==
  ASSUME NEW f
  PROVE  SumFunctionOnSet(f, {}) = 0
  BY SumIsCount, FS_EmptySet DEF Pairs

(* One member taken out of the sum. *)
LEMMA SumOfMore ==
  ASSUME NEW f, NEW S, IsFiniteSet(S), \A x \in S : f[x] \in Nat, NEW x \in S
  PROVE  SumFunctionOnSet(f, S) = f[x] + SumFunctionOnSet(f, S \ {x})
<1>1. IsFiniteSet(S \ {x})
  BY FS_RemoveElement
<1>2. IsFiniteSet(Pairs(f, S \ {x}))
  BY PairsFinite
<1>3. QED
  BY <1>1, <1>2, SumIsCount, PairsOfMore

(* Functions that agree on S have the same sum over S. *)
LEMMA SumOfSame ==
  ASSUME NEW f, NEW g, NEW S, IsFiniteSet(S), \A x \in S : f[x] \in Nat /\ f[x] = g[x]
  PROVE  SumFunctionOnSet(f, S) = SumFunctionOnSet(g, S)
<1>1. Pairs(f, S) = Pairs(g, S)
  BY DEF Pairs
<1>2. QED
  BY <1>1, SumIsCount

(* A sum of naturals is a natural. *)
LEMMA SumIsNat ==
  ASSUME NEW f, NEW S, IsFiniteSet(S), \A x \in S : f[x] \in Nat
  PROVE  SumFunctionOnSet(f, S) \in Nat
  BY SumIsCount, PairsFinite, FS_CardinalityType

-----------------------------------------------------------------------------

(* A well-formed list: everything about headers, links and extents that    *)
(* does not depend on which blocks are free.                               *)
WellFormed(hdr) ==
  /\ HeadersOK(hdr)
  /\ NextTiles(hdr)
  /\ PrevMirrorsNext(hdr)
  /\ Apart(hdr)

LEMMA RoundedFacts ==
  ASSUME NEW n \in Nat, n > 0
  PROVE  Rounded(n) \in Nat /\ Rounded(n) >= n /\ Rounded(n) % 16 = 0 /\ Rounded(n) >= 16
  BY DEF Rounded, Alignment

(* What each of the three edits of the list leaves behind.  The lemmas     *)
(* below conclude with one of these names, so that a proof that cites them *)
(* sees a single fact and expands it where it needs the parts.             *)
MarkOutcome(hdr, a, free, new) ==
  /\ WellFormed(new)
  /\ DOMAIN new = DOMAIN hdr
  /\ \A x \in DOMAIN hdr : /\ new[x].size = hdr[x].size
                           /\ new[x].next = hdr[x].next
                           /\ new[x].prev = hdr[x].prev
  /\ new[a].is_free = free
  /\ \A x \in DOMAIN hdr \ {a} : new[x].is_free = hdr[x].is_free

SplitOutcome(hdr, a, n, b, new) ==
  /\ WellFormed(new)
  /\ b \notin DOMAIN hdr
  /\ DOMAIN new = DOMAIN hdr \cup {b}
  /\ new[a].size = n /\ new[a].next = b /\ new[a].is_free = hdr[a].is_free
  /\ new[b].is_free /\ new[b].next = hdr[a].next
  /\ new[b].size = hdr[a].size - n - Overhead
  /\ \A x \in DOMAIN hdr \ {a} : /\ new[x].size = hdr[x].size
                                 /\ new[x].next = hdr[x].next
                                 /\ new[x].is_free = hdr[x].is_free

AbsorbOutcome(hdr, a, b, new) ==
  /\ WellFormed(new)
  /\ b \in DOMAIN hdr /\ b # a /\ hdr[b].prev = a
  /\ DOMAIN new = DOMAIN hdr \ {b}
  /\ new[a].next = hdr[b].next
  /\ new[a].prev = hdr[a].prev
  /\ new[a].is_free = hdr[a].is_free
  /\ new[a].size = hdr[a].size + Overhead + hdr[b].size
  /\ \A x \in DOMAIN hdr \ {a, b} : /\ new[x].size = hdr[x].size
                                    /\ new[x].next = hdr[x].next
                                    /\ new[x].is_free = hdr[x].is_free

LEMMA MarkingKeepsShape ==
  ASSUME NEW hdr, WellFormed(hdr), NEW a \in DOMAIN hdr, NEW free \in BOOLEAN
  PROVE  MarkOutcome(hdr, a, free, SetFree(hdr, a, free))
<1> DEFINE new == SetFree(hdr, a, free)
<1>1. hdr \in [DOMAIN hdr -> HeaderType]
  BY DEF WellFormed, HeadersOK
<1>2. new \in [DOMAIN hdr -> HeaderType] /\ DOMAIN new = DOMAIN hdr
  BY <1>1 DEF HeaderType, SetFree
<1>3. /\ \A x \in DOMAIN hdr : /\ new[x].size = hdr[x].size
                               /\ new[x].next = hdr[x].next
                               /\ new[x].prev = hdr[x].prev
      /\ new[a].is_free = free
      /\ \A x \in DOMAIN hdr \ {a} : new[x].is_free = hdr[x].is_free
  BY <1>1 DEF HeaderType, SetFree
<1> HIDE DEF new
<1>4. HeadersOK(new)
  BY <1>2, <1>3 DEF WellFormed, HeadersOK
<1>5. NextTiles(new)
  BY <1>2, <1>3 DEF WellFormed, NextTiles, End
<1>6. PrevMirrorsNext(new)
  BY <1>2, <1>3 DEF WellFormed, HeadersOK, NextTiles, PrevMirrorsNext
<1>7. Apart(new)
  BY <1>2, <1>3 DEF WellFormed, Apart, End
<1>8. QED
  BY <1>2, <1>3, <1>4, <1>5, <1>6, <1>7 DEF WellFormed, MarkOutcome, new

LEMMA SplitKeepsShape ==
  ASSUME NEW hdr, WellFormed(hdr), NEW a \in DOMAIN hdr,
         NEW n \in Nat, n % 16 = 0, n >= 16, Splits(hdr, a, n)
  PROVE  SplitOutcome(hdr, a, n, a + Overhead + n, Split(hdr, a, n))
<1> DEFINE new == Split(hdr, a, n)
           b == a + Overhead + n
           c == hdr[a].next
<1> USE DEF Overhead, Header, Footer, MinSplit, NULL
<1>1. hdr \in [DOMAIN hdr -> HeaderType] /\ a \in Nat /\ hdr[a].size \in Nat
      /\ hdr[a] \in HeaderType
  BY DEF WellFormed, HeadersOK, HeaderType
<1>2. b \in Nat /\ b > a /\ b < End(hdr, a) /\ b % 16 = 0 /\ hdr[a].size - n - Overhead >= 32
  BY <1>1 DEF WellFormed, HeadersOK, Splits, End
<1>3. b \notin DOMAIN hdr
  BY <1>1, <1>2 DEF WellFormed, Apart, End
<1>4. c # a /\ c # b
  BY <1>1, <1>2, <1>3, HeapAssumption DEF WellFormed, NextTiles, End, HeadersOK
<1>5. DOMAIN new = DOMAIN hdr \cup {b}
  BY DEF Split
<1>6. new[b] = [size |-> hdr[a].size - n - Overhead, is_free |-> TRUE, next |-> c, prev |-> a]
  BY <1>2, <1>4 DEF Split, Remainder
<1>7. new[a] = [hdr[a] EXCEPT !.size = n, !.next = b]
  BY <1>2, <1>3, <1>4 DEF Split
<1>8. c \in DOMAIN hdr => new[c] = [hdr[c] EXCEPT !.prev = b]
  BY <1>4, <1>3 DEF Split
<1>9. \A x \in DOMAIN hdr : x # a /\ x # c => new[x] = hdr[x]
  BY <1>3 DEF Split
<1> HIDE DEF new, b, c
<1>10. /\ new[b].size = hdr[a].size - n - Overhead /\ new[b].is_free = TRUE
       /\ new[b].next = c /\ new[b].prev = a /\ new[b] \in HeaderType
  BY <1>1, <1>2, <1>6 DEF HeaderType, c
<1>11. /\ new[a].size = n /\ new[a].is_free = hdr[a].is_free
       /\ new[a].next = b /\ new[a].prev = hdr[a].prev /\ new[a] \in HeaderType
  BY <1>1, <1>2, <1>7 DEF HeaderType
<1>12. c \in DOMAIN hdr =>
         /\ new[c].size = hdr[c].size /\ new[c].is_free = hdr[c].is_free
         /\ new[c].next = hdr[c].next /\ new[c].prev = b /\ new[c] \in HeaderType
  BY <1>1, <1>2, <1>8 DEF HeaderType
<1>13. \A x \in DOMAIN hdr \ {a} : /\ new[x].size = hdr[x].size
                                   /\ new[x].next = hdr[x].next
                                   /\ new[x].is_free = hdr[x].is_free
                                   /\ new[x] \in HeaderType
                                   /\ new[x].prev = IF x = c THEN b ELSE hdr[x].prev
  BY <1>1, <1>9, <1>12
<1>14. HeadersOK(new)
  <2>1. new \in [DOMAIN new -> HeaderType]
    <3>1. \A x \in DOMAIN new : new[x] \in HeaderType
      BY <1>5, <1>10, <1>11, <1>13
    <3>2. new = [x \in DOMAIN new |-> new[x]]
      BY DEF new, Split
    <3>3. QED
      BY <3>1, <3>2
  <2>2. \A x \in DOMAIN new : /\ x \in Nat /\ x >= HeapStart /\ x % 16 = 0
                              /\ new[x].size % 16 = 0 /\ new[x].size >= 16
    <3>1. a >= HeapStart /\ a % 16 = 0 /\ hdr[a].size % 16 = 0
      BY DEF WellFormed, HeadersOK
    <3>2. b >= HeapStart /\ (hdr[a].size - n - Overhead) % 16 = 0
      BY <1>1, <1>2, <3>1, HeapAssumption
    <3>3. QED
      BY <1>1, <1>2, <1>5, <1>10, <1>11, <1>13, <3>1, <3>2 DEF WellFormed, HeadersOK
  <2>3. QED
    BY <1>5, <2>1, <2>2 DEF WellFormed, HeadersOK
<1>15. NextTiles(new)
  <2> SUFFICES ASSUME NEW x \in DOMAIN new
               PROVE  IF new[x].next = NULL
                      THEN End(new, x) = HeapEnd
                      ELSE new[x].next \in DOMAIN new /\ new[x].next = End(new, x)
    BY DEF NextTiles
  <2>1. CASE x = a
    BY <1>1, <1>2, <1>5, <1>11, <2>1 DEF End, b
  <2>2. CASE x = b
    BY <1>1, <1>2, <1>5, <1>10, <2>2 DEF End, b, c, WellFormed, NextTiles
  <2>3. CASE x # a /\ x # b
    BY <1>5, <1>13, <2>3 DEF End, WellFormed, NextTiles
  <2>4. QED
    BY <2>1, <2>2, <2>3
<1>16. PrevMirrorsNext(new)
  <2>1. new[HeapStart].prev = NULL
    <3>1. HeapStart \in DOMAIN hdr /\ hdr[HeapStart].prev = NULL /\ a # NULL
      BY <1>1, HeapAssumption DEF WellFormed, HeadersOK, PrevMirrorsNext
    <3>2. c # HeapStart
      BY <3>1, HeapAssumption DEF WellFormed, PrevMirrorsNext, c
    <3>3. QED
      BY <1>11, <1>13, <3>1, <3>2
  <2>2. ASSUME NEW x \in DOMAIN new, x # HeapStart
        PROVE  new[x].prev \in DOMAIN new /\ new[new[x].prev].next = x
    <3>1. CASE x = a
      BY <1>5, <1>11, <1>13, <1>1, <2>2, <3>1 DEF WellFormed, PrevMirrorsNext, NextTiles, HeadersOK, End
    <3>2. CASE x = b
      BY <1>5, <1>10, <1>11, <3>2
    <3>3. CASE x # a /\ x # b /\ x = c
      BY <1>5, <1>10, <1>13, <3>3
    <3>4. CASE x # a /\ x # b /\ x # c
      BY <1>5, <1>13, <2>2, <3>4 DEF WellFormed, PrevMirrorsNext, c
    <3>5. QED
      BY <3>1, <3>2, <3>3, <3>4
  <2>3. ASSUME NEW x \in DOMAIN new, new[x].next # NULL
        PROVE  new[new[x].next].prev = x
    <3>1. CASE x = a
      BY <1>10, <1>11, <3>1
    <3>2. CASE x = b
      BY <1>4, <1>5, <1>10, <1>13, <2>3, <3>2 DEF WellFormed, NextTiles, c
    <3>3. CASE x # a /\ x # b
      <4>1. x \in DOMAIN hdr /\ new[x].next = hdr[x].next /\ hdr[x].next \in DOMAIN hdr
        BY <1>5, <1>13, <2>3, <3>3 DEF WellFormed, NextTiles
      <4>2. hdr[hdr[x].next].prev = x
        BY <4>1, <2>3 DEF WellFormed, PrevMirrorsNext
      <4>3. hdr[x].next # c
        BY <4>1, <4>2, <3>3, <2>3 DEF WellFormed, PrevMirrorsNext, c
      <4>4. CASE hdr[x].next = a
        BY <4>1, <4>2, <4>4, <1>11
      <4>5. CASE hdr[x].next # a
        BY <4>1, <4>2, <4>3, <4>5, <1>13
      <4>6. QED
        BY <4>4, <4>5
    <3>4. QED
      BY <3>1, <3>2, <3>3
  <2>4. QED
    BY <2>1, <2>2, <2>3 DEF PrevMirrorsNext
<1>17. Apart(new)
  <2>1. End(new, a) = b /\ End(new, b) = End(hdr, a)
    BY <1>1, <1>10, <1>11 DEF End, b
  <2>2. \A x \in DOMAIN hdr \ {a} : End(new, x) = End(hdr, x)
    BY <1>13 DEF End
  <2>3. \A x \in DOMAIN hdr : x \in Nat /\ End(hdr, x) \in Nat /\ End(hdr, x) > x
    BY DEF WellFormed, HeadersOK, HeaderType, End
  <2>4. HeapEnd \in Nat
    BY HeapAssumption DEF HeapEnd
  <2>5. \A x \in DOMAIN new : End(new, x) <= HeapEnd
    BY <1>2, <1>5, <2>1, <2>2, <2>3, <2>4 DEF WellFormed, Apart
  <2>6. ASSUME NEW x \in DOMAIN new, NEW y \in DOMAIN new, x < y
        PROVE  End(new, x) <= y
    BY <1>2, <1>5, <2>1, <2>2, <2>3, <2>6 DEF WellFormed, Apart
  <2>7. QED
    BY <2>5, <2>6 DEF Apart
<1>18. QED
  BY <1>3, <1>5, <1>10, <1>11, <1>13, <1>14, <1>15, <1>16, <1>17
     DEF WellFormed, SplitOutcome, new, b, c

LEMMA AbsorbKeepsShape ==
  ASSUME NEW hdr, WellFormed(hdr), NEW a \in DOMAIN hdr, hdr[a].next # NULL
  PROVE  AbsorbOutcome(hdr, a, hdr[a].next, AbsorbNext(hdr, a))
<1> DEFINE new == AbsorbNext(hdr, a)
           b == hdr[a].next
           c == hdr[b].next
<1> USE DEF Overhead, Header, Footer, NULL
<1>1. /\ hdr \in [DOMAIN hdr -> HeaderType] /\ b \in DOMAIN hdr
      /\ a \in Nat /\ hdr[a].size \in Nat /\ hdr[a] \in HeaderType
      /\ b \in Nat /\ hdr[b].size \in Nat /\ hdr[b] \in HeaderType
      /\ a > 0 /\ b = End(hdr, a) /\ hdr[b].prev = a /\ c \in Nat
  BY HeapAssumption DEF WellFormed, HeadersOK, HeaderType, NextTiles, PrevMirrorsNext
<1>2. b > a /\ End(hdr, b) > b
  BY <1>1 DEF End
<1>3. c # a /\ c # b
  BY <1>1, <1>2 DEF WellFormed, NextTiles, End
<1>4. DOMAIN new = DOMAIN hdr \ {b}
  BY DEF AbsorbNext
<1>5. new[a] = [hdr[a] EXCEPT !.size = @ + Overhead + hdr[b].size, !.next = c]
  BY <1>2, <1>3 DEF AbsorbNext
<1>6. c \in DOMAIN hdr => new[c] = [hdr[c] EXCEPT !.prev = a]
  BY <1>3 DEF AbsorbNext
<1>7. \A x \in DOMAIN hdr \ {a, b, c} : new[x] = hdr[x]
  BY DEF AbsorbNext
<1>8. new = [x \in DOMAIN new |-> new[x]]
  BY DEF AbsorbNext
<1> HIDE DEF new, b, c
<1>9. /\ new[a].size = hdr[a].size + Overhead + hdr[b].size
      /\ new[a].is_free = hdr[a].is_free
      /\ new[a].next = c /\ new[a].prev = hdr[a].prev /\ new[a] \in HeaderType
  <2>1. hdr[a].size + Overhead + hdr[b].size \in Nat
    BY <1>1
  <2>2. QED
    BY <1>1, <1>5, <2>1 DEF HeaderType
<1>10. c \in DOMAIN hdr =>
         /\ new[c].size = hdr[c].size /\ new[c].is_free = hdr[c].is_free
         /\ new[c].next = hdr[c].next /\ new[c].prev = a /\ new[c] \in HeaderType
  BY <1>1, <1>6 DEF HeaderType
<1>11. \A x \in DOMAIN hdr \ {a, b} : /\ new[x].size = hdr[x].size
                                      /\ new[x].next = hdr[x].next
                                      /\ new[x].is_free = hdr[x].is_free
                                      /\ new[x] \in HeaderType
                                      /\ new[x].prev = IF x = c THEN a ELSE hdr[x].prev
  BY <1>1, <1>7, <1>10
<1>12. a \in DOMAIN new
  BY <1>2, <1>1, <1>4
<1>13. HeadersOK(new)
  <2>1. new \in [DOMAIN new -> HeaderType]
    BY <1>4, <1>8, <1>9, <1>11
  <2>2. /\ hdr[a].size % 16 = 0 /\ hdr[b].size % 16 = 0
        /\ hdr[a].size >= 16 /\ a >= HeapStart /\ a % 16 = 0
    BY <1>1 DEF WellFormed, HeadersOK
  <2>3. (hdr[a].size + Overhead + hdr[b].size) % 16 = 0
    BY <1>1, <2>2
  <2>4. \A x \in DOMAIN new : /\ x \in Nat /\ x >= HeapStart /\ x % 16 = 0
                              /\ new[x].size % 16 = 0 /\ new[x].size >= 16
    BY <1>1, <1>4, <1>9, <1>11, <2>2, <2>3 DEF WellFormed, HeadersOK
  <2>5. HeapStart \in DOMAIN new
    BY <1>1, <1>2, <1>4, <2>2, HeapAssumption DEF WellFormed, HeadersOK
  <2>6. QED
    BY <2>1, <2>4, <2>5 DEF HeadersOK
<1>14. NextTiles(new)
  <2> SUFFICES ASSUME NEW x \in DOMAIN new
               PROVE  IF new[x].next = NULL
                      THEN End(new, x) = HeapEnd
                      ELSE new[x].next \in DOMAIN new /\ new[x].next = End(new, x)
    BY DEF NextTiles
  <2>1. CASE x = a
    <3>1. End(new, x) = End(hdr, b)
      BY <1>1, <1>9, <2>1 DEF End
    <3>2. QED
      BY <1>1, <1>3, <1>4, <1>9, <2>1, <3>1 DEF c, WellFormed, NextTiles
  <2>2. CASE x # a
    <3>1. End(new, x) = End(hdr, x) /\ new[x].next = hdr[x].next /\ x \in DOMAIN hdr
      BY <1>4, <1>11, <2>2 DEF End
    <3>2. hdr[x].next # b
      BY <1>1, <2>2, <3>1 DEF WellFormed, PrevMirrorsNext
    <3>3. QED
      BY <1>4, <3>1, <3>2 DEF WellFormed, NextTiles
  <2>3. QED
    BY <2>1, <2>2
<1>15. PrevMirrorsNext(new)
  <2>1. new[HeapStart].prev = NULL
    <3>1. HeapStart \in DOMAIN hdr /\ hdr[HeapStart].prev = NULL
      BY DEF WellFormed, HeadersOK, PrevMirrorsNext
    <3>2. HeapStart # b /\ c # HeapStart
      BY <1>1, <3>1, HeapAssumption DEF WellFormed, PrevMirrorsNext, c
    <3>3. QED
      BY <1>9, <1>11, <3>1, <3>2
  <2>2. ASSUME NEW x \in DOMAIN new, x # HeapStart
        PROVE  new[x].prev \in DOMAIN new /\ new[new[x].prev].next = x
    <3>1. CASE x = c
      BY <1>3, <1>4, <1>9, <1>11, <1>12, <3>1
    <3>2. CASE x # c
      <4>1. x \in DOMAIN hdr /\ x # b /\ new[x].prev = hdr[x].prev
        BY <1>4, <1>9, <1>11, <3>2
      <4>2. hdr[x].prev \in DOMAIN hdr /\ hdr[hdr[x].prev].next = x
        BY <2>2, <4>1 DEF WellFormed, PrevMirrorsNext
      <4>3. hdr[x].prev # b /\ hdr[x].prev # a
        BY <3>2, <4>1, <4>2 DEF b, c
      <4>4. QED
        BY <1>4, <1>11, <4>1, <4>2, <4>3
    <3>3. QED
      BY <3>1, <3>2
  <2>3. ASSUME NEW x \in DOMAIN new, new[x].next # NULL
        PROVE  new[new[x].next].prev = x
    <3>1. CASE x = a
      <4>1. c # NULL /\ c \in DOMAIN hdr
        BY <1>1, <1>9, <2>3, <3>1 DEF WellFormed, NextTiles, c
      <4>2. QED
        BY <1>3, <1>9, <1>11, <3>1, <4>1
    <3>2. CASE x # a
      <4>1. x \in DOMAIN hdr /\ x # b /\ new[x].next = hdr[x].next /\ hdr[x].next \in DOMAIN hdr
        BY <1>4, <1>11, <2>3, <3>2 DEF WellFormed, NextTiles
      <4>2. hdr[hdr[x].next].prev = x
        BY <4>1, <2>3 DEF WellFormed, PrevMirrorsNext
      <4>3. hdr[x].next # b
        BY <1>1, <3>2, <4>2
      <4>4. hdr[x].next # c
        BY <1>1, <2>3, <4>1, <4>2 DEF WellFormed, PrevMirrorsNext, c
      <4>5. QED
        BY <1>9, <1>11, <4>1, <4>2, <4>3, <4>4
    <3>3. QED
      BY <3>1, <3>2
  <2>4. QED
    BY <2>1, <2>2, <2>3 DEF PrevMirrorsNext
<1>16. Apart(new)
  <2>1. End(new, a) = End(hdr, b)
    BY <1>1, <1>9 DEF End
  <2>2. \A x \in DOMAIN new \ {a} : End(new, x) = End(hdr, x)
    BY <1>4, <1>11 DEF End
  <2>3. \A x \in DOMAIN hdr : x \in Nat /\ End(hdr, x) \in Nat /\ End(hdr, x) > x
    BY DEF WellFormed, HeadersOK, HeaderType, End
  <2>4. \A x \in DOMAIN new : End(new, x) <= HeapEnd
    BY <1>1, <1>4, <2>1, <2>2 DEF WellFormed, Apart
  <2>5. ASSUME NEW x \in DOMAIN new, NEW y \in DOMAIN new, x < y
        PROVE  End(new, x) <= y
    <3>1. CASE x = a
      <4>1. End(hdr, a) <= y
        BY <1>4, <2>5, <3>1 DEF WellFormed, Apart
      <4>2. y \in DOMAIN hdr /\ y # b
        BY <1>4
      <4>3. b < y
        BY <1>1, <2>3, <4>1, <4>2
      <4>4. QED
        BY <1>1, <2>1, <3>1, <4>2, <4>3 DEF WellFormed, Apart
    <3>2. CASE x # a
      BY <1>4, <2>2, <2>5, <3>2 DEF WellFormed, Apart
    <3>3. QED
      BY <3>1, <3>2
  <2>6. QED
    BY <2>4, <2>5 DEF Apart
<1>17. QED
  BY <1>1, <1>2, <1>4, <1>9, <1>11, <1>13, <1>14, <1>15, <1>16
     DEF WellFormed, AbsorbOutcome, new, b, c

-----------------------------------------------------------------------------
(* The heap on its own: a well-formed list with no two free neighbours,    *)
(* and the counters that follow it.                                        *)
Payload(hdr, S) == SumFunctionOnSet(Sizes(hdr), S)

PayloadCounted(h) ==
  /\ h.total_allocated = Payload(h.hdr, InUse(h.hdr))
  /\ h.total_free = Payload(h.hdr, FreeBlocks(h.hdr)) + (h.block_count - 1) * Overhead

CountersOK(h) ==
  /\ IsFiniteSet(DOMAIN h.hdr)
  /\ h.block_count = Cardinality(DOMAIN h.hdr)
  /\ h.total_allocated \in Int /\ h.total_free \in Int
  /\ h.total_allocated + h.total_free = InitialSize
  /\ PayloadCounted(h)

HeapOK(h) ==
  /\ WellFormed(h.hdr)
  /\ Coalesced(h.hdr)
  /\ CountersOK(h)

(* Sums of block sizes: naturals, taken apart block by block, and the same *)
(* in two lists that agree on the sizes.                                   *)
LEMMA PayloadIsNat ==
  ASSUME NEW hdr, WellFormed(hdr), IsFiniteSet(DOMAIN hdr), NEW S, S \subseteq DOMAIN hdr
  PROVE  Payload(hdr, S) \in Nat
<1>1. IsFiniteSet(S) /\ \A x \in S : Sizes(hdr)[x] \in Nat
  BY FS_Subset DEF WellFormed, HeadersOK, HeaderType, Sizes
<1>2. QED
  BY <1>1, SumIsNat DEF Payload

LEMMA PayloadWithout ==
  ASSUME NEW hdr, WellFormed(hdr), IsFiniteSet(DOMAIN hdr), NEW S, S \subseteq DOMAIN hdr,
         NEW x \in S
  PROVE  Payload(hdr, S) = hdr[x].size + Payload(hdr, S \ {x})
<1>1. IsFiniteSet(S) /\ \A y \in S : Sizes(hdr)[y] \in Nat /\ Sizes(hdr)[y] = hdr[y].size
  BY FS_Subset DEF WellFormed, HeadersOK, HeaderType, Sizes
<1>2. QED
  BY <1>1, SumOfMore DEF Payload

LEMMA PayloadSame ==
  ASSUME NEW hdr, NEW new, WellFormed(hdr), IsFiniteSet(DOMAIN hdr),
         NEW S, S \subseteq DOMAIN hdr, S \subseteq DOMAIN new,
         \A x \in S : new[x].size = hdr[x].size
  PROVE  Payload(new, S) = Payload(hdr, S)
<1>1. /\ IsFiniteSet(S)
      /\ \A y \in S : Sizes(hdr)[y] \in Nat /\ Sizes(hdr)[y] = Sizes(new)[y]
  BY FS_Subset DEF WellFormed, HeadersOK, HeaderType, Sizes
<1>2. QED
  BY <1>1, SumOfSame DEF Payload

(* A block a, free in hdr, is in use in new, and every other block of hdr  *)
(* keeps its size and its state: what that makes of the sums.              *)
Taken(hdr, new, a) ==
  /\ WellFormed(hdr) /\ WellFormed(new)
  /\ IsFiniteSet(DOMAIN hdr) /\ IsFiniteSet(DOMAIN new)
  /\ a \in FreeBlocks(hdr) /\ DOMAIN hdr \subseteq DOMAIN new
  /\ InUse(new) = InUse(hdr) \cup {a}
  /\ \A x \in DOMAIN hdr \ {a} : new[x].size = hdr[x].size

LEMMA PayloadTaken ==
  ASSUME NEW hdr, NEW new, NEW a, Taken(hdr, new, a)
  PROVE  /\ Payload(new, InUse(new)) = new[a].size + Payload(hdr, InUse(hdr))
         /\ Payload(hdr, FreeBlocks(hdr)) = hdr[a].size + Payload(new, FreeBlocks(hdr) \ {a})
         /\ Payload(hdr, InUse(hdr)) \in Nat
         /\ Payload(new, FreeBlocks(hdr) \ {a}) \in Nat
<1> USE DEF Taken
<1> DEFINE rest == FreeBlocks(hdr) \ {a}
<1>1. /\ InUse(hdr) \subseteq DOMAIN hdr \ {a} /\ rest \subseteq DOMAIN hdr \ {a}
      /\ FreeBlocks(hdr) \subseteq DOMAIN hdr /\ InUse(new) \subseteq DOMAIN new
      /\ InUse(new) \ {a} = InUse(hdr) /\ a \in InUse(new)
  BY DEF InUse, FreeBlocks
<1>2. Payload(new, InUse(new)) = new[a].size + Payload(new, InUse(hdr))
  BY <1>1, PayloadWithout
<1>3. Payload(new, InUse(hdr)) = Payload(hdr, InUse(hdr))
  BY <1>1, PayloadSame
<1>4. Payload(hdr, FreeBlocks(hdr)) = hdr[a].size + Payload(hdr, rest)
  BY <1>1, PayloadWithout
<1>5. Payload(new, rest) = Payload(hdr, rest)
  BY <1>1, PayloadSame
<1>6. Payload(hdr, InUse(hdr)) \in Nat /\ Payload(new, rest) \in Nat
  BY <1>1, PayloadIsNat
<1>7. QED
  BY <1>2, <1>3, <1>4, <1>5, <1>6

LEMMA TakeKeepsHeap ==
  ASSUME NEW h, HeapOK(h), NEW n \in Nat, n % 16 = 0, n >= 16, NEW a \in FirstFit(h.hdr, n)
  PROVE  LET new == Take(h, a, n)
         IN /\ HeapOK(new)
            /\ a \in DOMAIN h.hdr /\ h.hdr[a].is_free
            /\ InUse(new.hdr) = InUse(h.hdr) \cup {a}
            /\ new.hdr[a].size >= n
            /\ \A x \in InUse(h.hdr) : new.hdr[x].size = h.hdr[x].size
<1> DEFINE new == Take(h, a, n)
           old == h.hdr
           mid == IF Splits(old, a, n) THEN Split(old, a, n) ELSE old
           b == a + Overhead + n
           marked == SetFree(mid, a, FALSE)
<1>1. /\ a \in DOMAIN old /\ old[a].is_free /\ old[a].size >= n
      /\ WellFormed(old) /\ Coalesced(old) /\ CountersOK(h)
  BY DEF FirstFit, Fits, HeapOK
<1>2. /\ new.hdr = marked
      /\ new.total_allocated = h.total_allocated + mid[a].size
      /\ new.total_free = h.total_free - mid[a].size
      /\ new.block_count = IF Splits(old, a, n) THEN h.block_count + 1 ELSE h.block_count
  BY DEF Take, HeapOf
<1>3. CASE ~Splits(old, a, n)
  <2>1. mid = old
    BY <1>3
  <2>2. /\ WellFormed(marked) /\ DOMAIN marked = DOMAIN old
        /\ \A x \in DOMAIN old : /\ marked[x].size = old[x].size
                                 /\ marked[x].next = old[x].next
        /\ marked[a].is_free = FALSE
        /\ \A x \in DOMAIN old \ {a} : marked[x].is_free = old[x].is_free
    <3>1. MarkOutcome(mid, a, FALSE, marked)
      BY <1>1, <2>1, MarkingKeepsShape
    <3>2. QED
      BY <2>1, <3>1 DEF MarkOutcome
  <2> HIDE DEF new, old, mid, marked
  <2>3. Coalesced(marked)
    BY <1>1, <2>2 DEF Coalesced, WellFormed, NextTiles
  <2>4. old[a].size \in Nat
    BY <1>1 DEF WellFormed, HeadersOK, HeaderType
  <2>5. CountersOK(new)
    <3>1. IsFiniteSet(DOMAIN old) /\ PayloadCounted(h) /\ old = h.hdr
      BY <1>1 DEF CountersOK, old
    <3>2. /\ a \in FreeBlocks(old) /\ InUse(marked) = InUse(old) \cup {a}
          /\ FreeBlocks(marked) = FreeBlocks(old) \ {a}
      BY <1>1, <2>2 DEF InUse, FreeBlocks
    <3>3. /\ Payload(marked, InUse(marked)) = marked[a].size + Payload(old, InUse(old))
          /\ Payload(old, FreeBlocks(old)) = old[a].size + Payload(marked, FreeBlocks(marked))
          /\ Payload(old, InUse(old)) \in Nat /\ Payload(marked, FreeBlocks(marked)) \in Nat
      <4>1. /\ WellFormed(old) /\ WellFormed(marked) /\ IsFiniteSet(DOMAIN marked)
            /\ DOMAIN old \subseteq DOMAIN marked
            /\ \A x \in DOMAIN old \ {a} : marked[x].size = old[x].size
        BY <1>1, <2>2, <3>1
      <4>2. Taken(old, marked, a)
        BY <3>1, <3>2, <4>1 DEF Taken
      <4>3. Payload(marked, FreeBlocks(marked)) = Payload(marked, FreeBlocks(old) \ {a})
        BY <3>2
      <4>4. /\ Payload(marked, InUse(marked)) = marked[a].size + Payload(old, InUse(old))
            /\ Payload(old, FreeBlocks(old))
                 = old[a].size + Payload(marked, FreeBlocks(old) \ {a})
            /\ Payload(old, InUse(old)) \in Nat
            /\ Payload(marked, FreeBlocks(old) \ {a}) \in Nat
        BY <4>2, PayloadTaken
      <4>5. QED
        BY <4>3, <4>4
    <3>4. h.block_count \in Int
      BY <1>1, FS_CardinalityType DEF CountersOK
    <3>5. PayloadCounted(new)
      BY <1>1, <1>2, <1>3, <2>1, <2>2, <2>4, <3>1, <3>3, <3>4
         DEF PayloadCounted, Overhead, Header, Footer
    <3>6. QED
      BY <1>1, <1>2, <1>3, <2>1, <2>2, <2>4, <3>5 DEF CountersOK, old
  <2>6. HeapOK(new)
    BY <1>2, <2>2, <2>3, <2>5 DEF HeapOK
  <2>7. InUse(marked) = InUse(old) \cup {a}
    BY <1>1, <2>2 DEF InUse
  <2>8. /\ marked[a].size >= n
        /\ \A x \in InUse(old) : marked[x].size = old[x].size
    BY <1>1, <2>2 DEF InUse
  <2>9. QED
    BY <1>1, <1>2, <2>6, <2>7, <2>8 DEF new, old
<1>4. CASE Splits(old, a, n)
  <2>1. mid = Split(old, a, n)
    BY <1>4
  <2>2. /\ WellFormed(mid) /\ b \notin DOMAIN old /\ DOMAIN mid = DOMAIN old \cup {b}
        /\ mid[a].size = n /\ mid[a].next = b /\ mid[b].is_free /\ mid[b].next = old[a].next
        /\ mid[b].size = old[a].size - n - Overhead
        /\ \A x \in DOMAIN old \ {a} : /\ mid[x].size = old[x].size
                                       /\ mid[x].next = old[x].next
                                       /\ mid[x].is_free = old[x].is_free
    <3>1. SplitOutcome(old, a, n, b, mid)
      BY <1>1, <1>4, <2>1, SplitKeepsShape
    <3>2. QED
      BY <3>1 DEF SplitOutcome
  <2> HIDE DEF mid
  <2>3. /\ WellFormed(marked) /\ DOMAIN marked = DOMAIN mid
        /\ \A x \in DOMAIN mid : /\ marked[x].size = mid[x].size
                                 /\ marked[x].next = mid[x].next
        /\ marked[a].is_free = FALSE
        /\ \A x \in DOMAIN mid \ {a} : marked[x].is_free = mid[x].is_free
    <3>1. MarkOutcome(mid, a, FALSE, marked)
      BY <1>1, <2>2, MarkingKeepsShape
    <3>2. QED
      BY <3>1 DEF MarkOutcome
  <2> HIDE DEF new, old, marked, b
  <2>4. Coalesced(marked)
    <3> SUFFICES ASSUME NEW x \in DOMAIN marked, marked[x].next # NULL,
                        marked[x].is_free, marked[marked[x].next].is_free
                 PROVE  FALSE
      BY DEF Coalesced
    <3>1. x # a
      BY <1>1, <2>2, <2>3
    <3>2. CASE x = b
      <4>1. old[a].next # NULL /\ old[a].next \in DOMAIN old
        BY <1>1, <2>2, <2>3, <3>2 DEF WellFormed, NextTiles
      <4>2. ~old[old[a].next].is_free
        BY <1>1, <4>1 DEF Coalesced
      <4>3. QED
        BY <1>1, <2>2, <2>3, <3>2, <4>1, <4>2
    <3>3. CASE x # b
      <4>1. x \in DOMAIN old /\ old[x].next = marked[x].next /\ old[x].is_free
        BY <2>2, <2>3, <3>1, <3>3
      <4>2. old[x].next \in DOMAIN old /\ ~old[old[x].next].is_free
        BY <1>1, <4>1 DEF Coalesced, WellFormed, NextTiles
      <4>3. QED
        BY <1>1, <2>2, <2>3, <4>1, <4>2
    <3>4. QED
      BY <3>2, <3>3
  <2>5. CountersOK(new)
    <3>1. /\ IsFiniteSet(DOMAIN marked)
          /\ Cardinality(DOMAIN marked) = Cardinality(DOMAIN old) + 1
      BY <1>1, <2>2, <2>3, FS_AddElement DEF CountersOK, old
    <3>2. IsFiniteSet(DOMAIN old) /\ PayloadCounted(h) /\ old = h.hdr /\ old[a].size \in Nat
      BY <1>1 DEF CountersOK, old, WellFormed, HeadersOK, HeaderType
    <3>3. /\ a \in FreeBlocks(old) /\ InUse(marked) = InUse(old) \cup {a}
          /\ FreeBlocks(marked) \ {b} = FreeBlocks(old) \ {a}
          /\ b \in FreeBlocks(marked) /\ FreeBlocks(marked) \subseteq DOMAIN marked
      BY <1>1, <2>2, <2>3 DEF InUse, FreeBlocks
    <3>4. /\ Payload(marked, InUse(marked)) = marked[a].size + Payload(old, InUse(old))
          /\ Payload(old, FreeBlocks(old)) = old[a].size + Payload(marked, FreeBlocks(old) \ {a})
          /\ Payload(old, InUse(old)) \in Nat /\ Payload(marked, FreeBlocks(old) \ {a}) \in Nat
      <4>1. /\ WellFormed(old) /\ WellFormed(marked) /\ DOMAIN old \subseteq DOMAIN marked
            /\ \A x \in DOMAIN old \ {a} : marked[x].size = old[x].size
        BY <1>1, <2>2, <2>3
      <4>2. Taken(old, marked, a)
        BY <3>1, <3>2, <3>3, <4>1 DEF Taken
      <4>3. QED
        BY <4>2, PayloadTaken
    <3>5. Payload(marked, FreeBlocks(marked))
            = marked[b].size + Payload(marked, FreeBlocks(old) \ {a})
      BY <2>3, <3>1, <3>3, PayloadWithout
    <3>6. h.block_count \in Int
      BY <1>1, FS_CardinalityType DEF CountersOK
    <3>7. PayloadCounted(new)
      <4> DEFINE rest == Payload(marked, FreeBlocks(old) \ {a})
      <4>1. /\ marked[a].size = n /\ marked[b].size = old[a].size - n - Overhead
            /\ mid[a].size = n
        BY <1>1, <2>2, <2>3
      <4>2. Payload(marked, FreeBlocks(marked)) = old[a].size - n - Overhead + rest
        BY <3>5, <4>1
      <4>3. h.total_free = old[a].size + rest + (h.block_count - 1) * Overhead
        BY <3>2, <3>4 DEF PayloadCounted
      <4> HIDE DEF rest
      <4>4. rest \in Nat
        BY <3>4 DEF rest
      <4>5. new.total_free = Payload(marked, FreeBlocks(marked)) + (new.block_count - 1) * Overhead
        BY <1>2, <1>4, <3>2, <3>6, <4>1, <4>2, <4>3, <4>4 DEF Overhead, Header, Footer
      <4>6. new.total_allocated = Payload(marked, InUse(marked))
        BY <1>2, <3>2, <3>4, <4>1 DEF PayloadCounted
      <4>7. QED
        BY <1>2, <4>5, <4>6 DEF PayloadCounted
    <3>8. QED
      BY <1>1, <1>2, <1>4, <2>2, <3>1, <3>2, <3>7 DEF CountersOK, old
  <2>6. HeapOK(new)
    BY <1>2, <2>3, <2>4, <2>5 DEF HeapOK
  <2>7. InUse(marked) = InUse(old) \cup {a}
    BY <1>1, <2>2, <2>3 DEF InUse
  <2>8. /\ marked[a].size >= n
        /\ \A x \in InUse(old) : marked[x].size = old[x].size
    BY <1>1, <2>2, <2>3 DEF InUse
  <2>9. QED
    BY <1>1, <1>2, <2>6, <2>7, <2>8 DEF new, old
<1>5. QED
  BY <1>3, <1>4

(* A merge of a block with the one behind it, when both are free. *)
LEMMA MergeKeepsHeap ==
  ASSUME NEW h, NEW a \in DOMAIN h.hdr, WellFormed(h.hdr), CountersOK(h),
         h.hdr[a].is_free, FreeNext(h.hdr, a)
  PROVE  LET new == MergeInto(h, a)
         IN /\ new.hdr = AbsorbNext(h.hdr, a)
            /\ CountersOK(new)
            /\ InUse(new.hdr) = InUse(h.hdr)
            /\ \A x \in InUse(h.hdr) : new.hdr[x].size = h.hdr[x].size
<1> DEFINE new == MergeInto(h, a)
           hdr == AbsorbNext(h.hdr, a)
           b == h.hdr[a].next
<1>1. /\ new.hdr = hdr
      /\ new.total_allocated = h.total_allocated /\ new.total_free = h.total_free
      /\ new.block_count = h.block_count - 1
  BY DEF MergeInto, HeapOf
<1>2. /\ h.hdr[a].next # NULL /\ h.hdr[b].is_free
  BY DEF FreeNext
<1>3. /\ b \in DOMAIN h.hdr /\ b # a /\ DOMAIN hdr = DOMAIN h.hdr \ {b}
      /\ hdr[a].is_free /\ WellFormed(hdr)
      /\ hdr[a].size = h.hdr[a].size + Overhead + h.hdr[b].size
      /\ \A x \in DOMAIN h.hdr \ {a, b} : /\ hdr[x].size = h.hdr[x].size
                                          /\ hdr[x].is_free = h.hdr[x].is_free
  <2>1. AbsorbOutcome(h.hdr, a, b, hdr)
    BY <1>2, AbsorbKeepsShape
  <2>2. QED
    BY <2>1 DEF AbsorbOutcome
<1> HIDE DEF new, hdr, b
<1>4. CountersOK(new)
  <2>1. IsFiniteSet(DOMAIN hdr) /\ Cardinality(DOMAIN hdr) = Cardinality(DOMAIN h.hdr) - 1
    BY <1>3, FS_RemoveElement, ZenonT(30) DEF CountersOK
  <2>2. /\ IsFiniteSet(DOMAIN h.hdr) /\ PayloadCounted(h)
        /\ h.hdr[a].size \in Nat /\ h.hdr[b].size \in Nat
    BY <1>3 DEF CountersOK, WellFormed, HeadersOK, HeaderType
  <2> DEFINE rest == FreeBlocks(h.hdr) \ {a, b}
  <2>3. /\ InUse(hdr) = InUse(h.hdr) /\ InUse(h.hdr) \subseteq DOMAIN h.hdr \ {a, b}
        /\ FreeBlocks(hdr) \ {a} = rest /\ a \in FreeBlocks(hdr)
        /\ FreeBlocks(hdr) \subseteq DOMAIN hdr
        /\ a \in FreeBlocks(h.hdr) /\ b \in FreeBlocks(h.hdr) \ {a}
        /\ FreeBlocks(h.hdr) \subseteq DOMAIN h.hdr
        /\ (FreeBlocks(h.hdr) \ {a}) \ {b} = rest
        /\ rest \subseteq DOMAIN h.hdr \ {a, b}
    BY <1>2, <1>3 DEF InUse, FreeBlocks
  <2> HIDE DEF rest
  <2>4. Payload(hdr, InUse(hdr)) = Payload(h.hdr, InUse(h.hdr))
    BY <1>3, <2>2, <2>3, PayloadSame
  <2>5. /\ Payload(hdr, FreeBlocks(hdr)) = hdr[a].size + Payload(hdr, rest)
        /\ Payload(hdr, rest) = Payload(h.hdr, rest)
    BY <1>3, <2>1, <2>2, <2>3, PayloadWithout, PayloadSame
  <2>6. /\ Payload(h.hdr, FreeBlocks(h.hdr))
             = h.hdr[a].size + Payload(h.hdr, FreeBlocks(h.hdr) \ {a})
        /\ Payload(h.hdr, FreeBlocks(h.hdr) \ {a}) = h.hdr[b].size + Payload(h.hdr, rest)
        /\ Payload(h.hdr, rest) \in Nat
    <3>1. FreeBlocks(h.hdr) \ {a} \subseteq DOMAIN h.hdr /\ rest \subseteq DOMAIN h.hdr
      BY <2>3
    <3>2. QED
      BY <2>2, <2>3, <3>1, PayloadWithout, PayloadIsNat
  <2>7. h.block_count \in Int
    BY FS_CardinalityType DEF CountersOK
  <2>8. PayloadCounted(new)
    BY <1>1, <1>3, <2>2, <2>4, <2>5, <2>6, <2>7 DEF PayloadCounted, Overhead, Header, Footer
  <2>9. QED
    BY <1>1, <2>1, <2>8 DEF CountersOK
<1>5. InUse(hdr) = InUse(h.hdr) /\ \A x \in InUse(h.hdr) : hdr[x].size = h.hdr[x].size
  BY <1>2, <1>3 DEF InUse
<1>6. QED
  BY <1>1, <1>4, <1>5 DEF new, hdr

(* No two free neighbours, but for the pair that ends in block a. *)
CoalescedBefore(hdr, a) ==
  \A x \in DOMAIN hdr :
    hdr[x].next # NULL /\ hdr[x].next # a => ~(hdr[x].is_free /\ hdr[hdr[x].next].is_free)

(* A block that is free, on an otherwise sound heap whose block set in use *)
(* is `used` with the payload sizes of `sizes`.                            *)
Releasing(h, a, used, sizes) ==
  /\ WellFormed(h.hdr) /\ CountersOK(h)
  /\ a \in DOMAIN h.hdr /\ h.hdr[a].is_free
  /\ InUse(h.hdr) = used
  /\ \A x \in used : h.hdr[x].size = sizes[x].size

LEMMA MarkFreeStep ==
  ASSUME NEW h, HeapOK(h), NEW a \in InUse(h.hdr)
  PROVE  /\ Releasing(MarkFree(h, a), a, InUse(h.hdr) \ {a}, h.hdr)
         /\ \A x \in DOMAIN MarkFree(h, a).hdr :
              /\ MarkFree(h, a).hdr[x].next = h.hdr[x].next
              /\ x # a => MarkFree(h, a).hdr[x].is_free = h.hdr[x].is_free
<1> DEFINE old == h.hdr
           hdr == SetFree(old, a, TRUE)
           new == MarkFree(h, a)
<1>1. a \in DOMAIN old /\ ~old[a].is_free
  BY DEF InUse
<1>2. /\ WellFormed(hdr) /\ DOMAIN hdr = DOMAIN old
      /\ \A x \in DOMAIN old : hdr[x].size = old[x].size /\ hdr[x].next = old[x].next
      /\ hdr[a].is_free = TRUE
      /\ \A x \in DOMAIN old \ {a} : hdr[x].is_free = old[x].is_free
  <2>1. MarkOutcome(old, a, TRUE, hdr)
    BY <1>1, MarkingKeepsShape DEF HeapOK
  <2>2. QED
    BY <2>1 DEF MarkOutcome
<1>3. /\ new.hdr = hdr
      /\ new.total_allocated = h.total_allocated - old[a].size
      /\ new.total_free = h.total_free + old[a].size
      /\ new.block_count = h.block_count
  BY DEF MarkFree, HeapOf
<1> HIDE DEF hdr, new
<1>4. old[a].size \in Nat
  BY <1>1 DEF HeapOK, WellFormed, HeadersOK, HeaderType
<1>5. CountersOK(new)
  <2>1. IsFiniteSet(DOMAIN old) /\ PayloadCounted(h) /\ WellFormed(old)
    BY DEF HeapOK, CountersOK
  <2>2. /\ a \in FreeBlocks(hdr) /\ InUse(old) = InUse(hdr) \cup {a}
        /\ FreeBlocks(hdr) \ {a} = FreeBlocks(old)
    BY <1>1, <1>2 DEF InUse, FreeBlocks
  <2>3. /\ Payload(old, InUse(old)) = old[a].size + Payload(hdr, InUse(hdr))
        /\ Payload(hdr, FreeBlocks(hdr)) = hdr[a].size + Payload(old, FreeBlocks(old))
        /\ Payload(hdr, InUse(hdr)) \in Nat /\ Payload(old, FreeBlocks(old)) \in Nat
    <3>1. /\ IsFiniteSet(DOMAIN hdr) /\ DOMAIN hdr \subseteq DOMAIN old
          /\ \A x \in DOMAIN hdr \ {a} : old[x].size = hdr[x].size
      BY <1>2, <2>1
    <3>2. Taken(hdr, old, a)
      BY <1>2, <2>1, <2>2, <3>1 DEF Taken
    <3>3. Payload(old, FreeBlocks(hdr) \ {a}) = Payload(old, FreeBlocks(old))
      BY <2>2
    <3>4. /\ Payload(old, InUse(old)) = old[a].size + Payload(hdr, InUse(hdr))
          /\ Payload(hdr, FreeBlocks(hdr)) = hdr[a].size + Payload(old, FreeBlocks(hdr) \ {a})
          /\ Payload(hdr, InUse(hdr)) \in Nat
          /\ Payload(old, FreeBlocks(hdr) \ {a}) \in Nat
      BY <3>2, PayloadTaken
    <3>5. QED
      BY <3>3, <3>4
  <2>4. h.block_count \in Int
    BY FS_CardinalityType DEF HeapOK, CountersOK
  <2>5. PayloadCounted(new)
    BY <1>1, <1>2, <1>3, <1>4, <2>1, <2>3, <2>4 DEF PayloadCounted, Overhead, Header, Footer
  <2>6. QED
    BY <1>2, <1>3, <1>4, <2>5 DEF HeapOK, CountersOK
<1>6. InUse(hdr) = InUse(old) \ {a}
  BY <1>1, <1>2 DEF InUse
<1>7. \A x \in InUse(old) \ {a} : hdr[x].size = old[x].size
  BY <1>2 DEF InUse
<1>8. Releasing(new, a, InUse(old) \ {a}, old)
  BY <1>1, <1>2, <1>3, <1>5, <1>6, <1>7 DEF Releasing
<1>9. QED
  BY <1>2, <1>3, <1>8 DEF new

LEMMA MergeNextStep ==
  ASSUME NEW h, NEW a, NEW used, NEW sizes, Releasing(h, a, used, sizes),
         \A x \in DOMAIN h.hdr : h.hdr[x].next # NULL /\ x # a /\ h.hdr[x].next # a
                                   => ~(h.hdr[x].is_free /\ h.hdr[h.hdr[x].next].is_free)
  PROVE  /\ Releasing(MergeNext(h, a), a, used, sizes)
         /\ CoalescedBefore(MergeNext(h, a).hdr, a)
<1>1. CASE ~FreeNext(h.hdr, a)
  <2>1. MergeNext(h, a) = h
    BY <1>1 DEF MergeNext
  <2>2. CoalescedBefore(h.hdr, a)
    BY <1>1 DEF CoalescedBefore, FreeNext
  <2>3. QED
    BY <2>1, <2>2
<1>2. CASE FreeNext(h.hdr, a)
  <2> DEFINE b == h.hdr[a].next
             new == MergeInto(h, a)
             hdr == AbsorbNext(h.hdr, a)
  <2>1. a \in DOMAIN h.hdr /\ b # NULL /\ h.hdr[b].is_free
    BY <1>2 DEF FreeNext, Releasing
  <2>2. /\ WellFormed(hdr) /\ b \in DOMAIN h.hdr /\ b # a
        /\ h.hdr[b].prev = a /\ DOMAIN hdr = DOMAIN h.hdr \ {b}
        /\ hdr[a].next = h.hdr[b].next
        /\ hdr[a].is_free = h.hdr[a].is_free
        /\ \A x \in DOMAIN h.hdr \ {a, b} : /\ hdr[x].next = h.hdr[x].next
                                            /\ hdr[x].is_free = h.hdr[x].is_free
    <3>1. AbsorbOutcome(h.hdr, a, b, hdr)
      BY <2>1, AbsorbKeepsShape DEF Releasing
    <3>2. QED
      BY <3>1 DEF AbsorbOutcome
  <2>3. /\ new.hdr = hdr /\ CountersOK(new) /\ InUse(hdr) = InUse(h.hdr)
        /\ \A x \in InUse(h.hdr) : hdr[x].size = h.hdr[x].size
    BY <1>2, MergeKeepsHeap DEF Releasing
  <2>4. MergeNext(h, a) = new
    BY <1>2 DEF MergeNext
  <2> HIDE DEF b, new, hdr
  <2>5. Releasing(new, a, used, sizes)
    BY <2>1, <2>2, <2>3 DEF Releasing
  <2>6. CoalescedBefore(hdr, a)
    <3> SUFFICES ASSUME NEW x \in DOMAIN hdr, hdr[x].next # NULL, hdr[x].next # a,
                        hdr[x].is_free, hdr[hdr[x].next].is_free
                 PROVE  FALSE
      BY DEF CoalescedBefore
    <3>1. WellFormed(h.hdr)
      BY DEF Releasing
    <3>2. CASE x = a
      <4>1. /\ h.hdr[b].next # NULL /\ h.hdr[b].next # a
            /\ h.hdr[b].next \in DOMAIN h.hdr
        BY <2>2, <3>1, <3>2 DEF WellFormed, NextTiles
      <4>2. ~h.hdr[h.hdr[b].next].is_free
        BY <2>1, <2>2, <4>1
      <4>3. h.hdr[b].next # b
        BY <2>1, <4>2
      <4>4. QED
        BY <2>2, <3>2, <4>1, <4>2, <4>3
    <3>3. CASE x # a
      <4>1. /\ x \in DOMAIN h.hdr /\ x # b /\ h.hdr[x].next = hdr[x].next /\ h.hdr[x].is_free
            /\ h.hdr[x].next \in DOMAIN h.hdr
        BY <2>2, <3>1, <3>3 DEF WellFormed, NextTiles
      <4>2. ~h.hdr[h.hdr[x].next].is_free
        BY <3>3, <4>1
      <4>3. h.hdr[x].next # b
        BY <2>1, <4>2
      <4>4. QED
        BY <2>2, <4>1, <4>2, <4>3
    <3>4. QED
      BY <3>2, <3>3
  <2>7. QED
    BY <2>3, <2>4, <2>5, <2>6
<1>3. QED
  BY <1>1, <1>2

LEMMA MergePrevStep ==
  ASSUME NEW h, NEW a, NEW used, NEW sizes, Releasing(h, a, used, sizes),
         CoalescedBefore(h.hdr, a)
  PROVE  /\ HeapOK(MergePrev(h, a))
         /\ InUse(MergePrev(h, a).hdr) = used
         /\ \A x \in used : MergePrev(h, a).hdr[x].size = sizes[x].size
<1> DEFINE p == h.hdr[a].prev
<1>1. WellFormed(h.hdr) /\ CountersOK(h) /\ a \in DOMAIN h.hdr /\ h.hdr[a].is_free
  BY DEF Releasing
<1>2. \A x \in DOMAIN h.hdr : h.hdr[x].next = a => x = p
  BY <1>1, HeapAssumption DEF WellFormed, HeadersOK, PrevMirrorsNext, NULL
<1>3. CASE ~FreePrev(h.hdr, a)
  <2>1. MergePrev(h, a) = h
    BY <1>3 DEF MergePrev
  <2>2. Coalesced(h.hdr)
    <3> SUFFICES ASSUME NEW x \in DOMAIN h.hdr, h.hdr[x].next # NULL, h.hdr[x].is_free,
                        h.hdr[h.hdr[x].next].is_free
                 PROVE  FALSE
      BY DEF Coalesced
    <3>1. h.hdr[x].next = a
      BY DEF CoalescedBefore
    <3>2. x = p /\ x # NULL
      BY <1>1, <1>2, <3>1, HeapAssumption DEF WellFormed, HeadersOK, NULL
    <3>3. QED
      BY <1>3, <3>2 DEF FreePrev
  <2>3. QED
    BY <1>1, <2>1, <2>2 DEF HeapOK, Releasing
<1>4. CASE FreePrev(h.hdr, a)
  <2> DEFINE new == MergeInto(h, p)
             hdr == AbsorbNext(h.hdr, p)
  <2>1. p # NULL /\ h.hdr[p].is_free
    BY <1>4 DEF FreePrev
  <2>2. p \in DOMAIN h.hdr /\ h.hdr[p].next = a /\ a # NULL
    BY <1>1, <2>1, HeapAssumption DEF WellFormed, HeadersOK, PrevMirrorsNext, NULL
  <2>3. FreeNext(h.hdr, p)
    BY <1>1, <2>2 DEF FreeNext
  <2>4. /\ WellFormed(hdr) /\ DOMAIN hdr = DOMAIN h.hdr \ {a} /\ a # p
        /\ hdr[p].next = h.hdr[a].next
        /\ \A x \in DOMAIN h.hdr \ {a, p} : /\ hdr[x].next = h.hdr[x].next
                                            /\ hdr[x].is_free = h.hdr[x].is_free
    <3>1. AbsorbOutcome(h.hdr, p, a, hdr)
      BY <1>1, <2>2, AbsorbKeepsShape
    <3>2. QED
      BY <3>1 DEF AbsorbOutcome
  <2>5. /\ new.hdr = hdr /\ CountersOK(new) /\ InUse(hdr) = InUse(h.hdr)
        /\ \A x \in InUse(h.hdr) : hdr[x].size = h.hdr[x].size
    BY <1>1, <2>1, <2>2, <2>3, MergeKeepsHeap
  <2>6. MergePrev(h, a) = new
    BY <1>4 DEF MergePrev
  <2> HIDE DEF p, new, hdr
  <2>7. Coalesced(hdr)
    <3> SUFFICES ASSUME NEW x \in DOMAIN hdr, hdr[x].next # NULL, hdr[x].is_free,
                        hdr[hdr[x].next].is_free
                 PROVE  FALSE
      BY DEF Coalesced
    <3>1. hdr[x].next \in DOMAIN hdr
      BY <2>4 DEF WellFormed, NextTiles
    <3>2. CASE x = p
      <4>1. h.hdr[a].next # NULL /\ h.hdr[a].next # a /\ h.hdr[a].next \in DOMAIN h.hdr
        BY <2>4, <3>1, <3>2
      <4>2. ~h.hdr[h.hdr[a].next].is_free
        BY <1>1, <4>1 DEF CoalescedBefore
      <4>3. h.hdr[a].next # p
        BY <2>1, <4>2
      <4>4. QED
        BY <2>4, <3>2, <4>1, <4>2, <4>3
    <3>3. CASE x # p
      <4>1. /\ x \in DOMAIN h.hdr /\ x # a /\ h.hdr[x].next = hdr[x].next /\ h.hdr[x].is_free
            /\ hdr[x].next # a /\ hdr[x].next \in DOMAIN h.hdr
        BY <2>4, <3>1, <3>3
      <4>2. ~h.hdr[h.hdr[x].next].is_free
        BY <4>1 DEF CoalescedBefore
      <4>3. h.hdr[x].next # p
        BY <2>1, <4>2
      <4>4. QED
        BY <2>4, <4>1, <4>2, <4>3
    <3>4. QED
      BY <3>2, <3>3
  <2>8. QED
    BY <2>4, <2>5, <2>6, <2>7 DEF HeapOK, Releasing
<1>5. QED
  BY <1>3, <1>4

LEMMA ReleaseKeepsHeap ==
  ASSUME NEW h, HeapOK(h), NEW a \in InUse(h.hdr)
  PROVE  /\ HeapOK(Release(h, a))
         /\ InUse(Release(h, a).hdr) = InUse(h.hdr) \ {a}
         /\ \A x \in InUse(h.hdr) \ {a} : Release(h, a).hdr[x].size = h.hdr[x].size
<1> DEFINE h1 == MarkFree(h, a)
           h2 == MergeNext(h1, a)
           used == InUse(h.hdr) \ {a}
<1>1. /\ Releasing(h1, a, used, h.hdr)
      /\ \A x \in DOMAIN h1.hdr : /\ h1.hdr[x].next = h.hdr[x].next
                                  /\ x # a => h1.hdr[x].is_free = h.hdr[x].is_free
      /\ DOMAIN h1.hdr = DOMAIN h.hdr
  BY MarkFreeStep, ZenonT(30) DEF MarkFree, HeapOf, SetFree
<1>2. Release(h, a) = MergePrev(h2, a)
  BY DEF Release
<1> HIDE DEF h1
<1>3. \A x \in DOMAIN h1.hdr : h1.hdr[x].next # NULL /\ x # a /\ h1.hdr[x].next # a
                                 => ~(h1.hdr[x].is_free /\ h1.hdr[h1.hdr[x].next].is_free)
  BY <1>1 DEF HeapOK, Coalesced, WellFormed, NextTiles
<1>4. Releasing(h2, a, used, h.hdr) /\ CoalescedBefore(h2.hdr, a)
  BY <1>1, <1>3, MergeNextStep
<1> HIDE DEF h2, used
<1>5. QED
  BY <1>2, <1>4, MergePrevStep DEF used

-----------------------------------------------------------------------------
(* The inductive invariant: a sound heap whose blocks in use are exactly   *)
(* the buffers the callers hold.                                           *)
Holders(h, held) ==
  /\ held \in [DOMAIN held -> Nat]
  /\ DOMAIN held = {Ptr(a) : a \in InUse(h.hdr)}
  /\ \A p \in DOMAIN held : held[p] > 0 /\ held[p] <= h.hdr[Block(p)].size

IInv == HeapOK(heap) /\ Holders(heap, live)

LEMMA InitHoldsIInv == Init => IInv
<1> SUFFICES ASSUME Init PROVE IInv
  OBVIOUS
<1> USE DEF Overhead, Header, Footer, NULL
<1>1. /\ heap.hdr = InitialHdr /\ heap.total_allocated = 0
      /\ heap.total_free = InitialSize /\ heap.block_count = 1
  BY DEF Init, HeapOf
<1>2. InitialSize \in Nat /\ InitialSize % 16 = 0 /\ InitialSize >= 16
  BY HeapAssumption DEF InitialSize
<1>3. /\ DOMAIN InitialHdr = {HeapStart}
      /\ InitialHdr[HeapStart] = [size |-> InitialSize, is_free |-> TRUE, next |-> 0, prev |-> 0]
      /\ InitialHdr[HeapStart] \in HeaderType
  BY <1>2 DEF InitialHdr, HeaderType
<1>4. InitialHdr \in [DOMAIN InitialHdr -> HeaderType]
  BY <1>2 DEF InitialHdr, HeaderType
<1>5. HeadersOK(InitialHdr)
  BY <1>2, <1>3, <1>4, HeapAssumption DEF HeadersOK
<1>6. NextTiles(InitialHdr) /\ PrevMirrorsNext(InitialHdr) /\ Apart(InitialHdr)
  BY <1>2, <1>3, HeapAssumption
     DEF NextTiles, PrevMirrorsNext, Apart, End, HeapEnd, InitialSize
<1>7. Coalesced(InitialHdr) /\ InUse(InitialHdr) = {}
  BY <1>3 DEF Coalesced, InUse
<1>8. CountersOK(heap)
  <2>1. IsFiniteSet({HeapStart}) /\ Cardinality({HeapStart}) = 1
    BY FS_Singleton
  <2>2. FreeBlocks(InitialHdr) = {HeapStart} /\ {HeapStart} \ {HeapStart} = {}
    BY <1>3 DEF FreeBlocks
  <2>3. WellFormed(InitialHdr)
    BY <1>5, <1>6 DEF WellFormed
  <2>4. Payload(InitialHdr, {HeapStart}) = InitialSize + Payload(InitialHdr, {})
    BY <1>3, <2>1, <2>2, <2>3, PayloadWithout
  <2>5. Payload(InitialHdr, {}) = 0
    BY SumOfNothing DEF Payload
  <2>6. PayloadCounted(heap)
    BY <1>1, <1>2, <1>7, <2>2, <2>4, <2>5 DEF PayloadCounted
  <2>7. QED
    BY <1>1, <1>2, <1>3, <2>1, <2>6 DEF CountersOK
<1>9. Holders(heap, live)
  BY <1>1, <1>7 DEF Holders, Init
<1>10. QED
  BY <1>1, <1>5, <1>6, <1>7, <1>8, <1>9 DEF IInv, HeapOK, WellFormed

LEMMA BlockOfHolder ==
  ASSUME NEW h, NEW held, HeapOK(h), Holders(h, held), NEW p \in DOMAIN held
  PROVE  Block(p) \in InUse(h.hdr) /\ p = Ptr(Block(p)) /\ p \in Nat
  BY DEF Holders, HeapOK, WellFormed, HeadersOK, Ptr, Block, Header, InUse

LEMMA HoldStep ==
  ASSUME NEW h, NEW held, NEW new, NEW a, NEW n \in Nat,
         HeapOK(h), Holders(h, held), HeapOK(new), n > 0,
         InUse(new.hdr) = InUse(h.hdr) \cup {a}, a \in DOMAIN h.hdr, h.hdr[a].is_free,
         new.hdr[a].size >= n,
         \A x \in InUse(h.hdr) : new.hdr[x].size = h.hdr[x].size
  PROVE  Holders(new, Hold(held, Ptr(a), n)) /\ Ptr(a) \notin DOMAIN held
<1>1. a \in Nat /\ Block(Ptr(a)) = a
  BY DEF HeapOK, WellFormed, HeadersOK, Ptr, Block, Header
<1>2. Ptr(a) \notin DOMAIN held
  BY <1>1, BlockOfHolder DEF InUse
<1>3. /\ DOMAIN Hold(held, Ptr(a), n) = DOMAIN held \cup {Ptr(a)}
      /\ Hold(held, Ptr(a), n)[Ptr(a)] = n
      /\ \A p \in DOMAIN held : p # Ptr(a) => Hold(held, Ptr(a), n)[p] = held[p]
      /\ Hold(held, Ptr(a), n) \in [DOMAIN held \cup {Ptr(a)} -> Nat]
  BY DEF Hold, Holders
<1>4. \A p \in DOMAIN held : new.hdr[Block(p)].size = h.hdr[Block(p)].size
  BY BlockOfHolder
<1>5. DOMAIN held \cup {Ptr(a)} = {Ptr(x) : x \in InUse(new.hdr)}
  BY DEF Holders
<1>6. QED
  BY <1>1, <1>2, <1>3, <1>4, <1>5 DEF Holders

LEMMA DropStep ==
  ASSUME NEW h, NEW held, NEW new, NEW p \in DOMAIN held,
         HeapOK(h), Holders(h, held),
         InUse(new.hdr) = InUse(h.hdr) \ {Block(p)},
         \A x \in InUse(h.hdr) \ {Block(p)} : new.hdr[x].size = h.hdr[x].size
  PROVE  Holders(new, Drop(held, p))
<1>1. \A q \in DOMAIN held : Block(q) \in InUse(h.hdr) /\ q = Ptr(Block(q)) /\ q \in Nat
  BY BlockOfHolder
<1>2. \A x \in InUse(h.hdr) : x \in Nat /\ Block(Ptr(x)) = x
  BY DEF HeapOK, WellFormed, HeadersOK, Ptr, Block, Header, InUse
<1>3. /\ DOMAIN Drop(held, p) = DOMAIN held \ {p}
      /\ \A q \in DOMAIN held \ {p} : Drop(held, p)[q] = held[q]
      /\ Drop(held, p) \in [DOMAIN held \ {p} -> Nat]
  BY DEF Drop, Holders
<1>4. DOMAIN held \ {p} = {Ptr(x) : x \in InUse(new.hdr)}
  BY <1>1, <1>2 DEF Holders
<1>5. \A q \in DOMAIN held \ {p} : Block(q) \in InUse(h.hdr) \ {Block(p)}
  BY <1>1
<1>6. QED
  BY <1>3, <1>4, <1>5 DEF Holders

LEMMA NextKeepsIInv == IInv /\ [Next]_vars => IInv'
<1> SUFFICES ASSUME IInv, [Next]_vars PROVE IInv'
  OBVIOUS
<1> USE HeapAssumption
<1>1. ASSUME NEW n \in Requests, Kmalloc(n) PROVE IInv'
  <2>1. n \in Nat /\ n > 0
    BY <1>1 DEF Kmalloc, Acceptable
  <2>2. PICK a \in FirstFit(heap.hdr, Rounded(n)) :
          heap' = Take(heap, a, Rounded(n)) /\ live' = Hold(live, Ptr(a), n)
    BY <1>1 DEF Kmalloc
  <2>3. Rounded(n) \in Nat /\ Rounded(n) >= n /\ Rounded(n) % 16 = 0 /\ Rounded(n) >= 16
    BY <2>1, RoundedFacts
  <2> DEFINE new == Take(heap, a, Rounded(n))
  <2>4. /\ HeapOK(new) /\ a \in DOMAIN heap.hdr /\ heap.hdr[a].is_free
        /\ InUse(new.hdr) = InUse(heap.hdr) \cup {a} /\ new.hdr[a].size >= Rounded(n)
        /\ \A x \in InUse(heap.hdr) : new.hdr[x].size = heap.hdr[x].size
    BY <2>2, <2>3, TakeKeepsHeap DEF IInv
  <2>5. new.hdr[a].size \in Nat
    BY <2>4 DEF HeapOK, WellFormed, HeadersOK, HeaderType, InUse
  <2> HIDE DEF new
  <2>6. Holders(new, Hold(live, Ptr(a), n))
    BY <2>1, <2>3, <2>4, <2>5, HoldStep DEF IInv
  <2>7. QED
    BY <2>2, <2>4, <2>6 DEF IInv, new
<1>2. ASSUME NEW p \in DOMAIN live, Kfree(p) PROVE IInv'
  <2> DEFINE new == Release(heap, Block(p))
  <2>1. Block(p) \in InUse(heap.hdr)
    BY BlockOfHolder DEF IInv
  <2>2. /\ HeapOK(new) /\ InUse(new.hdr) = InUse(heap.hdr) \ {Block(p)}
        /\ \A x \in InUse(heap.hdr) \ {Block(p)} : new.hdr[x].size = heap.hdr[x].size
    BY <2>1, ReleaseKeepsHeap DEF IInv
  <2>3. heap' = new /\ live' = Drop(live, p)
    BY <1>2 DEF Kfree
  <2> HIDE DEF new
  <2>4. Holders(new, Drop(live, p))
    BY <2>2, DropStep DEF IInv
  <2>5. QED
    BY <2>2, <2>3, <2>4 DEF IInv
<1>3. ASSUME NEW p \in DOMAIN live, NEW n \in Requests, KreallocInPlace(p, n) PROVE IInv'
  <2>1. /\ heap' = heap /\ live' = [live EXCEPT ![p] = n]
        /\ n > 0 /\ n \in Nat /\ n <= heap.hdr[Block(p)].size
    <3>1. heap.hdr[Block(p)].size \in Nat
      BY BlockOfHolder DEF IInv, HeapOK, WellFormed, HeadersOK, HeaderType, InUse
    <3>2. QED
      BY <1>3, <3>1 DEF KreallocInPlace
  <2>2. Holders(heap, live')
    BY <2>1 DEF IInv, Holders
  <2>3. QED
    BY <2>1, <2>2 DEF IInv
<1>4. ASSUME NEW p \in DOMAIN live, NEW n \in Requests, KreallocMoves(p, n) PROVE IInv'
  <2>1. n \in Nat /\ n > 0
    <3>1. Acceptable(n)
      BY <1>4 DEF KreallocMoves
    <3>2. QED
      BY <3>1 DEF Acceptable
  <2>2. PICK a \in FirstFit(heap.hdr, Rounded(n)) :
          /\ heap' = Release(Take(heap, a, Rounded(n)), Block(p))
          /\ live' = Hold(Drop(live, p), Ptr(a), n)
    BY <1>4 DEF KreallocMoves
  <2>3. Rounded(n) \in Nat /\ Rounded(n) >= n /\ Rounded(n) % 16 = 0 /\ Rounded(n) >= 16
    BY <2>1, RoundedFacts
  <2> DEFINE mid == Take(heap, a, Rounded(n))
             new == Release(mid, Block(p))
  <2>4. /\ HeapOK(mid) /\ a \in DOMAIN heap.hdr /\ heap.hdr[a].is_free
        /\ InUse(mid.hdr) = InUse(heap.hdr) \cup {a} /\ mid.hdr[a].size >= Rounded(n)
        /\ \A x \in InUse(heap.hdr) : mid.hdr[x].size = heap.hdr[x].size
    BY <2>2, <2>3, TakeKeepsHeap DEF IInv
  <2>5. mid.hdr[a].size \in Nat
    BY <2>4 DEF HeapOK, WellFormed, HeadersOK, HeaderType, InUse
  <2> HIDE DEF mid
  <2>6. Holders(mid, Hold(live, Ptr(a), n)) /\ Ptr(a) \notin DOMAIN live
    BY <2>1, <2>3, <2>4, <2>5, HoldStep DEF IInv
  <2>7. Block(p) \in InUse(mid.hdr) /\ Block(p) \in InUse(heap.hdr)
    BY <2>4, BlockOfHolder DEF IInv
  <2>8. /\ HeapOK(new) /\ InUse(new.hdr) = InUse(mid.hdr) \ {Block(p)}
        /\ \A x \in InUse(mid.hdr) \ {Block(p)} : new.hdr[x].size = mid.hdr[x].size
    BY <2>4, <2>7, ReleaseKeepsHeap
  <2> HIDE DEF new
  <2>9. p \in DOMAIN Hold(live, Ptr(a), n)
    BY DEF Hold
  <2>10. Holders(new, Drop(Hold(live, Ptr(a), n), p))
    BY <2>4, <2>6, <2>8, <2>9, DropStep
  <2>11. Drop(Hold(live, Ptr(a), n), p) = Hold(Drop(live, p), Ptr(a), n)
    BY <2>6 DEF Drop, Hold
  <2>12. QED
    BY <2>2, <2>8, <2>10, <2>11 DEF IInv, new, mid
<1>5. ASSUME UNCHANGED vars PROVE IInv'
  BY <1>5 DEF IInv, vars
<1>6. QED
  BY <1>1, <1>2, <1>3, <1>4, <1>5 DEF Next, KmallocFails, KfreeIgnored

-----------------------------------------------------------------------------
(* The invariant holds in every reachable state, and each property follows. *)
THEOREM Invariance == Spec => []IInv
  BY InitHoldsIInv, NextKeepsIInv, PTL DEF Spec

(* Type correctness, alignment included. *)
THEOREM TypeCorrect == Spec => []TypeOK
<1>1. IInv => TypeOK
  <2> SUFFICES ASSUME IInv PROVE TypeOK
    OBVIOUS
  <2>1. heap.block_count \in Int
    BY FS_CardinalityType DEF IInv, HeapOK, CountersOK
  <2>2. QED
    BY <2>1 DEF IInv, HeapOK, WellFormed, CountersOK, Holders, TypeOK
<1>2. QED
  BY <1>1, Invariance, PTL

(* The list of blocks covers the heap and can be walked both ways. *)
THEOREM ListAlwaysTilesHeap == Spec => []ListTilesHeap
<1>1. IInv => ListTilesHeap
  BY DEF IInv, HeapOK, WellFormed, ListTilesHeap
<1>2. QED
  BY <1>1, Invariance, PTL

(* No byte belongs to two blocks. *)
THEOREM BlocksAlwaysApart == Spec => []BlocksApart
<1>1. IInv => BlocksApart
  BY DEF IInv, HeapOK, WellFormed, BlocksApart
<1>2. QED
  BY <1>1, Invariance, PTL

(* Two free blocks are never neighbours. *)
THEOREM AlwaysCoalesced == Spec => []NoFreeNeighbours
<1>1. IInv => NoFreeNeighbours
  BY DEF IInv, HeapOK, NoFreeNeighbours
<1>2. QED
  BY <1>1, Invariance, PTL

(* Blocks in use and buffers held are the same, and each is long enough. *)
THEOREM HoldersAlwaysMatch == Spec => []HoldersMatchBlocks
<1>1. IInv => HoldersMatchBlocks
  BY DEF IInv, Holders, HoldersMatchBlocks
<1>2. QED
  BY <1>1, Invariance, PTL

(* The figures of the RAM monitor are the sums over the blocks, whatever   *)
(* was split and merged on the way.                                        *)
THEOREM CountersAlwaysMatch == Spec => []CountersMatchBlocks
<1>1. IInv => CountersMatchBlocks
  BY DEF IInv, HeapOK, CountersOK, PayloadCounted, Payload, CountersMatchBlocks
<1>2. QED
  BY <1>1, Invariance, PTL

(* The order in which buffers are freed never matters: with none left, the *)
(* heap is again the one block of memory_init.                             *)
THEOREM FreeingAllRestores == Spec => []AllFreedRestoresHeap
<1>1. IInv => AllFreedRestoresHeap
  <2> SUFFICES ASSUME IInv, DOMAIN live = {} PROVE heap.hdr = InitialHdr
    BY DEF AllFreedRestoresHeap
  <2> USE DEF Overhead, Header, Footer
  <2> DEFINE hdr == heap.hdr
  <2>1. WellFormed(hdr) /\ Coalesced(hdr) /\ InUse(hdr) = {}
    BY DEF IInv, HeapOK, Holders
  <2> HIDE DEF hdr
  <2>2. \A a \in DOMAIN hdr : hdr[a].is_free
    BY <2>1 DEF InUse
  <2>3. \A a \in DOMAIN hdr : hdr[a].next = NULL
    BY <2>1, <2>2 DEF Coalesced, WellFormed, NextTiles
  <2>4. HeapStart \in DOMAIN hdr /\ hdr[HeapStart] \in HeaderType /\ HeapEnd \in Nat
    BY <2>1, HeapAssumption DEF WellFormed, HeadersOK, HeapEnd
  <2>5. End(hdr, HeapStart) = HeapEnd /\ hdr[HeapStart].prev = NULL
    BY <2>1, <2>3, <2>4 DEF WellFormed, NextTiles, PrevMirrorsNext
  <2>6. DOMAIN hdr = {HeapStart}
    <3>1. ASSUME NEW a \in DOMAIN hdr, a # HeapStart PROVE FALSE
      BY <2>1, <2>3, <2>4, <3>1, HeapAssumption
         DEF WellFormed, HeadersOK, PrevMirrorsNext, NULL
    <3>2. QED
      BY <2>4, <3>1
  <2>7. hdr[HeapStart].size = InitialSize
    BY <2>4, <2>5, HeapAssumption DEF End, HeapEnd, InitialSize, HeaderType
  <2>8. hdr[HeapStart] = [size |-> InitialSize, is_free |-> TRUE, next |-> NULL, prev |-> NULL]
    BY <2>2, <2>3, <2>4, <2>5, <2>7 DEF HeaderType
  <2>9. hdr = [a \in {HeapStart} |-> hdr[a]]
    BY <2>1, <2>6 DEF WellFormed, HeadersOK
  <2>10. QED
    BY <2>8, <2>9 DEF InitialHdr, hdr
<1>2. QED
  BY <1>1, Invariance, PTL

-----------------------------------------------------------------------------
(* The block list implements the allocator: every step of the heap is an   *)
(* allocation, a release, a resize or nothing in terms of live buffers.    *)

(* The bytes behind the pointer of a block in use are free for its holder. *)
LEMMA HolderExtent ==
  ASSUME NEW h, NEW held, HeapOK(h), Holders(h, held), NEW p \in DOMAIN held
  PROVE  /\ p \in Promise!Aligned
         /\ p + held[p] <= HeapEnd
         /\ \A q \in DOMAIN held : q # p => Promise!Apart(p, held[p], q, held[q])
<1> USE DEF Overhead, Header, Footer
<1> DEFINE a == Block(p)
<1>1. a \in DOMAIN h.hdr /\ p = a + 48 /\ a \in Nat /\ a % 16 = 0 /\ a >= HeapStart
  BY BlockOfHolder DEF InUse, HeapOK, WellFormed, HeadersOK, Ptr
<1>2. held[p] \in Nat /\ held[p] <= h.hdr[a].size /\ h.hdr[a].size \in Nat
  BY <1>1 DEF Holders, HeapOK, WellFormed, HeadersOK, HeaderType
<1>3. End(h.hdr, a) <= HeapEnd /\ HeapEnd \in Nat
  BY <1>1, HeapAssumption DEF HeapOK, WellFormed, Apart, HeapEnd
<1>4. p + held[p] <= HeapEnd /\ p \in Promise!Aligned
  BY <1>1, <1>2, <1>3, HeapAssumption DEF End, Promise!Aligned
<1>5. ASSUME NEW q \in DOMAIN held, q # p
      PROVE  Promise!Apart(p, held[p], q, held[q])
  <2> DEFINE b == Block(q)
  <2>1. b \in DOMAIN h.hdr /\ q = b + 48 /\ b \in Nat
    BY BlockOfHolder DEF InUse, HeapOK, WellFormed, HeadersOK, Ptr
  <2>2. held[q] \in Nat /\ held[q] <= h.hdr[b].size /\ h.hdr[b].size \in Nat
    BY <2>1 DEF Holders, HeapOK, WellFormed, HeadersOK, HeaderType
  <2> HIDE DEF a, b
  <2>3. /\ a < b => End(h.hdr, a) <= b
        /\ b < a => End(h.hdr, b) <= a
        /\ a # b
    BY <1>1, <1>5, <2>1 DEF HeapOK, WellFormed, Apart
  <2>4. QED
    BY <1>1, <1>2, <2>1, <2>2, <2>3 DEF End, Promise!Apart
<1>6. QED
  BY <1>4, <1>5

(* What the callers hold after a step is available beside what they kept. *)
LEMMA NewHolderAvailable ==
  ASSUME NEW h, NEW held, NEW kept, NEW p, NEW n,
         HeapOK(h), Holders(h, held), held = Hold(kept, p, n), p \notin DOMAIN kept
  PROVE  p \in Promise!Aligned /\ Promise!Available(kept, p, n)
<1>1. /\ DOMAIN held = DOMAIN kept \cup {p} /\ held[p] = n
      /\ \A q \in DOMAIN kept : held[q] = kept[q]
  BY DEF Hold
<1>2. /\ p \in Promise!Aligned /\ p + held[p] <= HeapEnd
      /\ \A q \in DOMAIN held : q # p => Promise!Apart(p, held[p], q, held[q])
  BY <1>1, HolderExtent
<1>3. QED
  BY <1>1, <1>2 DEF Promise!Available

LEMMA StepImplementsPromise ==
  IInv /\ IInv' /\ [Next]_vars => [Promise!Next]_live
<1> SUFFICES ASSUME IInv, IInv', [Next]_vars PROVE [Promise!Next]_live
  OBVIOUS
<1>1. ASSUME NEW n \in Requests, Kmalloc(n) PROVE Promise!Next
  <2>1. n \in Nat /\ n > 0
    BY <1>1, HeapAssumption DEF Kmalloc, Acceptable
  <2>2. PICK a \in FirstFit(heap.hdr, Rounded(n)) : live' = Hold(live, Ptr(a), n)
    BY <1>1 DEF Kmalloc
  <2>3. Ptr(a) \notin DOMAIN live
    <3>1. a \in DOMAIN heap.hdr /\ heap.hdr[a].is_free
      BY <2>2 DEF FirstFit, Fits
    <3>2. \A p \in DOMAIN live : Block(p) # a
      BY <3>1, BlockOfHolder DEF IInv, InUse
    <3>3. Block(Ptr(a)) = a
      BY <3>1 DEF IInv, HeapOK, WellFormed, HeadersOK, Block, Ptr, Header
    <3>4. QED
      BY <3>2, <3>3
  <2>4. Ptr(a) \in Promise!Aligned /\ Promise!Available(live, Ptr(a), n)
    BY <2>2, <2>3, NewHolderAvailable DEF IInv
  <2>5. Promise!Alloc
    BY <2>1, <2>2, <2>3, <2>4 DEF Promise!Alloc, Promise!With, Hold
  <2>6. QED
    BY <2>5 DEF Promise!Next
<1>2. ASSUME NEW p \in DOMAIN live, Kfree(p) PROVE Promise!Next
  BY <1>2 DEF Kfree, Drop, Promise!Next, Promise!Free, Promise!Without
<1>3. ASSUME NEW p \in DOMAIN live, NEW n \in Requests, KreallocInPlace(p, n)
      PROVE  Promise!Next
  <2>1. n \in Nat /\ n > 0 /\ live' = [live EXCEPT ![p] = n]
    BY <1>3, HeapAssumption DEF KreallocInPlace
  <2>2. live' = Hold(Drop(live, p), p, n) /\ p \notin DOMAIN Drop(live, p)
    BY <2>1 DEF Hold, Drop, IInv, Holders
  <2>3. p \in Promise!Aligned /\ Promise!Available(Drop(live, p), p, n)
    BY <2>2, NewHolderAvailable DEF IInv
  <2>4. Promise!Resize
    <3>1. /\ Promise!Without(live, p) = Drop(live, p)
          /\ Promise!With(Drop(live, p), p, n) = Hold(Drop(live, p), p, n)
      BY DEF Promise!With, Promise!Without, Hold, Drop
    <3>2. QED
      BY <2>1, <2>2, <2>3, <3>1 DEF Promise!Resize
  <2>5. QED
    BY <2>4 DEF Promise!Next
<1>4. ASSUME NEW p \in DOMAIN live, NEW n \in Requests, KreallocMoves(p, n)
      PROVE  Promise!Next
  <2>1. n \in Nat /\ n > 0
    <3>1. Acceptable(n)
      BY <1>4 DEF KreallocMoves
    <3>2. QED
      BY <3>1, HeapAssumption DEF Acceptable
  <2>2. PICK a \in FirstFit(heap.hdr, Rounded(n)) : live' = Hold(Drop(live, p), Ptr(a), n)
    BY <1>4 DEF KreallocMoves
  <2>3. Ptr(a) \notin DOMAIN live
    <3>1. a \in DOMAIN heap.hdr /\ heap.hdr[a].is_free
      BY <2>2 DEF FirstFit, Fits
    <3>2. \A q \in DOMAIN live : Block(q) # a
      BY <3>1, BlockOfHolder DEF IInv, InUse
    <3>3. Block(Ptr(a)) = a
      BY <3>1 DEF IInv, HeapOK, WellFormed, HeadersOK, Block, Ptr, Header
    <3>4. QED
      BY <3>2, <3>3
  <2>4. Ptr(a) \notin DOMAIN Drop(live, p)
    BY <2>3 DEF Drop
  <2>5. Ptr(a) \in Promise!Aligned /\ Promise!Available(Drop(live, p), Ptr(a), n)
    BY <2>2, <2>4, NewHolderAvailable DEF IInv
  <2>6. Promise!Resize
    BY <2>1, <2>2, <2>3, <2>5
       DEF Promise!Resize, Promise!With, Promise!Without, Hold, Drop
  <2>7. QED
    BY <2>6 DEF Promise!Next
<1>5. ASSUME UNCHANGED vars PROVE UNCHANGED live
  BY <1>5 DEF vars
<1>6. QED
  BY <1>1, <1>2, <1>3, <1>4, <1>5 DEF Next, KmallocFails, KfreeIgnored

(* Refinement, for every heap size and every set of request sizes. *)
THEOREM HeapImplementsAllocator == Spec => ImplementsAllocator
<1>1. Init => Promise!Init
  BY DEF Init, Promise!Init
<1>2. QED
  BY <1>1, Invariance, StepImplementsPromise, PTL DEF Spec, ImplementsAllocator, Promise!Spec
=============================================================================
