---------------------------- MODULE FilesOps_proofs ----------------------------
(***************************************************************************)
(* Proofs about file requests, for any file system, any names, share lists *)
(* and client paths, any number of requests, crashes and failing calls.    *)
(***************************************************************************)
EXTENDS FilesOps, Settings_proofs, SequenceTheorems, FiniteSetTheorems, WellFoundedInduction

----------------------------------------------------------------------------
(* Paths                                                                   *)

AnyPath == Seq(Names)

\* The path of p below a, taken below b.
Swap(a, b, p) == b \o SubSeq(p, Len(a) + 1, Len(p))

LEMMA PathLen == ASSUME NEW p \in AnyPath PROVE Len(p) \in Nat /\ (Len(p) = 0 <=> p = << >>)
BY EmptySeq, LenProperties DEF AnyPath

LEMMA PathEqual ==
  ASSUME NEW p \in AnyPath, NEW q \in AnyPath, Len(p) = Len(q), \A i \in 1 .. Len(p) : p[i] = q[i]
  PROVE  p = q
BY SeqEqual DEF AnyPath

\* The first n names of a path.
LEMMA Top ==
  ASSUME NEW p \in AnyPath, NEW n \in 0 .. Len(p)
  PROVE  /\ SubSeq(p, 1, n) \in AnyPath /\ Len(SubSeq(p, 1, n)) = n
         /\ \A i \in 1 .. n : SubSeq(p, 1, n)[i] = p[i]
<1>1. Len(p) \in Nat /\ \A i \in 1 .. n : p[i] \in Names
  BY LenProperties, ElementOfSeq DEF AnyPath
<1> QED
  BY <1>1, SubSeqProperties DEF AnyPath

\* What comes after them.
LEMMA Rest ==
  ASSUME NEW p \in AnyPath, NEW n \in 0 .. Len(p)
  PROVE  /\ SubSeq(p, n + 1, Len(p)) \in AnyPath /\ Len(SubSeq(p, n + 1, Len(p))) = Len(p) - n
         /\ \A i \in 1 .. Len(p) - n : SubSeq(p, n + 1, Len(p))[i] = p[n + i]
<1>1. Len(p) \in Nat /\ \A i \in n + 1 .. Len(p) : p[i] \in Names
  BY LenProperties, ElementOfSeq DEF AnyPath
<1> DEFINE rest == SubSeq(p, n + 1, Len(p))
<1>2. /\ rest \in AnyPath /\ Len(rest) = IF n + 1 <= Len(p) THEN Len(p) - (n + 1) + 1 ELSE 0
      /\ \A i \in 1 .. Len(p) - (n + 1) + 1 : rest[i] = p[(n + 1) + i - 1]
  BY <1>1, SubSeqProperties DEF AnyPath
<1> HIDE DEF rest
<1>3. Len(rest) = Len(p) - n
  BY <1>1, <1>2
<1>4. \A i \in 1 .. Len(p) - n : rest[i] = p[n + i]
  BY <1>1, <1>2
<1> QED
  BY <1>2, <1>3, <1>4 DEF rest

LEMMA Joined ==
  ASSUME NEW p \in AnyPath, NEW q \in AnyPath
  PROVE  /\ p \o q \in AnyPath /\ Len(p \o q) = Len(p) + Len(q)
         /\ \A i \in 1 .. Len(p) : (p \o q)[i] = p[i]
         /\ \A i \in 1 .. Len(q) : (p \o q)[Len(p) + i] = q[i]
<1>1. /\ p \o q \in AnyPath /\ Len(p \o q) = Len(p) + Len(q)
      /\ \A i \in 1 .. Len(p) + Len(q) :
           (p \o q)[i] = IF i <= Len(p) THEN p[i] ELSE q[i - Len(p)]
  BY ConcatProperties DEF AnyPath
<1>2. Len(p) \in Nat /\ Len(q) \in Nat
  BY PathLen
<1> QED
  BY <1>1, <1>2

LEMMA PrefixByEntry ==
  ASSUME NEW p \in AnyPath, NEW q \in AnyPath
  PROVE  IsPrefix(p, q) <=> Len(p) <= Len(q) /\ \A i \in 1 .. Len(p) : p[i] = q[i]
<1>1. Len(p) \in Nat /\ Len(q) \in Nat
  BY PathLen
<1>2. /\ SubSeq(p, 1, Len(p)) \in AnyPath /\ Len(SubSeq(p, 1, Len(p))) = Len(p)
      /\ \A i \in 1 .. Len(p) : SubSeq(p, 1, Len(p))[i] = p[i]
  BY <1>1, Top
<1>3. ASSUME Len(p) <= Len(q)
      PROVE  /\ SubSeq(q, 1, Len(p)) \in AnyPath /\ Len(SubSeq(q, 1, Len(p))) = Len(p)
             /\ \A i \in 1 .. Len(p) : SubSeq(q, 1, Len(p))[i] = q[i]
  BY <1>1, <1>3, Top
<1>4. ASSUME IsPrefix(p, q) PROVE Len(p) <= Len(q) /\ \A i \in 1 .. Len(p) : p[i] = q[i]
  BY <1>2, <1>3, <1>4 DEF IsPrefix
<1>5. ASSUME Len(p) <= Len(q), \A i \in 1 .. Len(p) : p[i] = q[i] PROVE IsPrefix(p, q)
  <2>1. SubSeq(p, 1, Len(p)) = SubSeq(q, 1, Len(p))
    BY <1>2, <1>3, <1>5, PathEqual
  <2> QED
    BY <1>5, <2>1 DEF IsPrefix
<1> QED
  BY <1>4, <1>5

LEMMA PrefixOrder ==
  ASSUME NEW p \in AnyPath, NEW q \in AnyPath, NEW s \in AnyPath
  PROVE  /\ IsPrefix(p, p)
         /\ IsPrefix(p, q) /\ IsPrefix(q, s) => IsPrefix(p, s)
         /\ IsPrefix(p, q) /\ IsPrefix(q, p) => p = q
         /\ IsPrefix(p, q) /\ Len(p) = Len(q) => p = q
         /\ IsPrefix(p, s) /\ IsPrefix(q, s) => IsPrefix(p, q) \/ IsPrefix(q, p)
<1>1. Len(p) \in Nat /\ Len(q) \in Nat /\ Len(s) \in Nat
  BY PathLen
<1> USE <1>1, PrefixByEntry
<1>2. IsPrefix(p, p)
  OBVIOUS
<1>3. IsPrefix(p, q) /\ IsPrefix(q, s) => IsPrefix(p, s)
  OBVIOUS
<1>4. IsPrefix(p, q) /\ Len(p) = Len(q) => p = q
  BY PathEqual
<1>5. IsPrefix(p, q) /\ IsPrefix(q, p) => p = q
  BY <1>4
<1>6. IsPrefix(p, s) /\ IsPrefix(q, s) => IsPrefix(p, q) \/ IsPrefix(q, p)
  OBVIOUS
<1> QED
  BY <1>2, <1>3, <1>4, <1>5, <1>6

\* A path is its beginning and its rest.
LEMMA SplitPath ==
  ASSUME NEW a \in AnyPath, NEW p \in AnyPath, IsPrefix(a, p)
  PROVE  a \o SubSeq(p, Len(a) + 1, Len(p)) = p
<1> DEFINE rest == SubSeq(p, Len(a) + 1, Len(p))
<1>1. Len(a) \in 0 .. Len(p) /\ Len(p) \in Nat /\ \A i \in 1 .. Len(a) : a[i] = p[i]
  BY PathLen, PrefixByEntry
<1>2. /\ rest \in AnyPath /\ Len(rest) = Len(p) - Len(a)
      /\ \A i \in 1 .. Len(p) - Len(a) : rest[i] = p[Len(a) + i]
  BY <1>1, Rest
<1> HIDE DEF rest
<1>3. /\ a \o rest \in AnyPath /\ Len(a \o rest) = Len(a) + Len(rest)
      /\ \A i \in 1 .. Len(a) : (a \o rest)[i] = a[i]
      /\ \A i \in 1 .. Len(rest) : (a \o rest)[Len(a) + i] = rest[i]
  BY <1>2, Joined
<1>4. ASSUME NEW i \in 1 .. Len(p) PROVE (a \o rest)[i] = p[i]
  <2>1. CASE i <= Len(a)
    BY <1>1, <1>3, <2>1
  <2>2. CASE i > Len(a)
    <3>1. i - Len(a) \in 1 .. Len(rest) /\ Len(a) + (i - Len(a)) = i
      BY <1>1, <1>2, <2>2
    <3> QED
      BY <1>2, <1>3, <3>1
  <2>3. i <= Len(a) \/ i > Len(a)
    BY ONLY <1>1, i \in 1 .. Len(p)
  <2> QED
    BY <2>1, <2>2, <2>3
<1>5. Len(a \o rest) = Len(p)
  BY <1>1, <1>2, <1>3
<1> QED
  BY <1>3, <1>4, <1>5, PathEqual DEF rest

LEMMA JoinPath ==
  ASSUME NEW a \in AnyPath, NEW q \in AnyPath
  PROVE  /\ IsPrefix(a, a \o q)
         /\ SubSeq(a \o q, Len(a) + 1, Len(a \o q)) = q
<1> DEFINE p == a \o q
<1>1. /\ p \in AnyPath /\ Len(p) = Len(a) + Len(q)
      /\ \A i \in 1 .. Len(a) : p[i] = a[i]
      /\ \A i \in 1 .. Len(q) : p[Len(a) + i] = q[i]
  BY Joined
<1>2. Len(a) \in Nat /\ Len(q) \in Nat
  BY PathLen
<1> HIDE DEF p
<1>3. IsPrefix(a, p) /\ Len(a) \in 0 .. Len(p)
  BY <1>1, <1>2, PrefixByEntry
<1>4. /\ SubSeq(p, Len(a) + 1, Len(p)) \in AnyPath
      /\ Len(SubSeq(p, Len(a) + 1, Len(p))) = Len(p) - Len(a)
      /\ \A i \in 1 .. Len(p) - Len(a) : SubSeq(p, Len(a) + 1, Len(p))[i] = p[Len(a) + i]
  BY <1>1, <1>3, Rest
<1>5. Len(p) - Len(a) = Len(q)
  BY <1>1, <1>2
<1>6. SubSeq(p, Len(a) + 1, Len(p)) = q
  BY <1>1, <1>4, <1>5, PathEqual
<1> QED
  BY <1>3, <1>6 DEF p

LEMMA FrontPath ==
  ASSUME NEW p \in AnyPath, Len(p) > 0
  PROVE  /\ Front(p) \in AnyPath /\ Len(Front(p)) = Len(p) - 1 /\ IsPrefix(Front(p), p)
         /\ Front(p) = SubSeq(p, 1, Len(p) - 1)
         /\ \A a \in AnyPath : IsPrefix(a, p) /\ a # p => IsPrefix(a, Front(p))
         /\ \A n \in 0 .. Len(p) - 1 : SubSeq(Front(p), 1, n) = SubSeq(p, 1, n)
<1>1. Len(p) \in Nat /\ Len(p) - 1 \in 0 .. Len(p)
  BY PathLen
<1> DEFINE f == SubSeq(p, 1, Len(p) - 1)
<1>2. f \in AnyPath /\ Len(f) = Len(p) - 1 /\ \A i \in 1 .. Len(p) - 1 : f[i] = p[i]
  BY <1>1, Top
<1> HIDE DEF f
<1>3. IsPrefix(f, p)
  BY <1>1, <1>2, PrefixByEntry
<1>4. ASSUME NEW a \in AnyPath, IsPrefix(a, p), a # p PROVE IsPrefix(a, f)
  <2>1. Len(a) \in Nat /\ Len(a) # Len(p)
    BY <1>4, PathLen, PrefixOrder
  <2>2. Len(a) <= Len(p) /\ \A i \in 1 .. Len(a) : a[i] = p[i]
    BY <1>4, PrefixByEntry
  <2> QED
    BY <1>1, <1>2, <2>1, <2>2, PrefixByEntry
<1>5. ASSUME NEW n \in 0 .. Len(p) - 1 PROVE SubSeq(f, 1, n) = SubSeq(p, 1, n)
  <2>1. n \in 0 .. Len(p) /\ n \in 0 .. Len(f)
    BY <1>1, <1>2
  <2>2. /\ SubSeq(f, 1, n) \in AnyPath /\ Len(SubSeq(f, 1, n)) = n
        /\ \A i \in 1 .. n : SubSeq(f, 1, n)[i] = f[i]
    BY <1>2, <2>1, Top
  <2>3. /\ SubSeq(p, 1, n) \in AnyPath /\ Len(SubSeq(p, 1, n)) = n
        /\ \A i \in 1 .. n : SubSeq(p, 1, n)[i] = p[i]
    BY <2>1, Top
  <2>4. \A i \in 1 .. n : f[i] = p[i]
    BY <1>1, <1>2
  <2> QED
    BY <2>2, <2>3, <2>4, PathEqual
<1>6. Front(p) = f
  BY DEF Front, f
<1> QED
  BY <1>2, <1>3, <1>4, <1>5, <1>6 DEF f

\* A directory's path with one more name.
LEMMA ChildPath ==
  ASSUME NEW a \in AnyPath, NEW name \in Names
  PROVE  /\ a \o <<name>> \in AnyPath /\ Len(a \o <<name>>) = Len(a) + 1
         /\ Front(a \o <<name>>) = a /\ IsPrefix(a, a \o <<name>>)
<1>1. <<name>> \in AnyPath /\ Len(<<name>>) = 1
  BY DEF AnyPath
<1> DEFINE p == a \o <<name>>
<1>2. p \in AnyPath /\ Len(p) = Len(a) + 1 /\ \A i \in 1 .. Len(a) : p[i] = a[i]
  BY <1>1, Joined
<1>3. IsPrefix(a, p)
  BY <1>1, JoinPath
<1> HIDE DEF p
<1>4. Len(a) \in Nat /\ Len(p) > 0
  BY <1>2, PathLen
<1>5. Front(p) \in AnyPath /\ Len(Front(p)) = Len(a) /\ IsPrefix(a, Front(p))
  <2>1. a # p /\ Len(p) - 1 = Len(a)
    BY <1>2, <1>4
  <2> QED
    BY <1>2, <1>3, <1>4, <2>1, FrontPath
<1>6. Front(p) = a
  BY <1>5, PrefixOrder
<1> QED
  BY <1>2, <1>3, <1>6 DEF p

LEMMA Swapped ==
  ASSUME NEW a \in AnyPath, NEW b \in AnyPath, NEW p \in AnyPath, IsPrefix(a, p)
  PROVE  /\ Swap(a, b, p) \in AnyPath /\ IsPrefix(b, Swap(a, b, p))
         /\ Len(Swap(a, b, p)) = Len(b) + Len(p) - Len(a)
         /\ \A i \in 1 .. Len(b) : Swap(a, b, p)[i] = b[i]
         /\ \A i \in 1 .. Len(p) - Len(a) : Swap(a, b, p)[Len(b) + i] = p[Len(a) + i]
         /\ Swap(b, a, Swap(a, b, p)) = p
         /\ Swap(a, b, a) = b
<1> DEFINE rest == SubSeq(p, Len(a) + 1, Len(p))
<1>1. Len(a) \in 0 .. Len(p) /\ Len(p) \in Nat /\ Len(b) \in Nat
  BY PathLen, PrefixByEntry
<1>2. /\ rest \in AnyPath /\ Len(rest) = Len(p) - Len(a)
      /\ \A i \in 1 .. Len(p) - Len(a) : rest[i] = p[Len(a) + i]
  BY <1>1, Rest
<1>3. a \o rest = p
  BY SplitPath
<1>4. Swap(a, b, p) = b \o rest
  BY DEF Swap
<1> HIDE DEF rest
<1> DEFINE q == b \o rest
<1>5. /\ q \in AnyPath /\ Len(q) = Len(b) + Len(rest)
      /\ \A i \in 1 .. Len(b) : q[i] = b[i]
      /\ \A i \in 1 .. Len(rest) : q[Len(b) + i] = rest[i]
  BY <1>2, Joined
<1>6. IsPrefix(b, q) /\ SubSeq(q, Len(b) + 1, Len(q)) = rest
  BY <1>2, JoinPath
<1> HIDE DEF q
<1>7. Swap(b, a, q) = p
  BY <1>3, <1>6 DEF Swap
<1>8. Swap(a, b, a) = b
  <2>1. SubSeq(a, Len(a) + 1, Len(a)) = << >>
    BY <1>1, SubSeqEmpty
  <2>2. b \o << >> = b
    BY ConcatEmptySeq DEF AnyPath
  <2> QED
    BY <2>1, <2>2 DEF Swap
<1>9. Swap(a, b, p) = q
  BY <1>4 DEF q
<1>10. Len(q) = Len(b) + Len(p) - Len(a)
  BY <1>1, <1>2, <1>5
<1>11. \A i \in 1 .. Len(p) - Len(a) : q[Len(b) + i] = p[Len(a) + i]
  BY <1>2, <1>5
<1> QED
  BY <1>5, <1>6, <1>7, <1>8, <1>9, <1>10, <1>11

LEMMA SwapPrefix ==
  ASSUME NEW a \in AnyPath, NEW b \in AnyPath, NEW p \in AnyPath, NEW s \in AnyPath,
         IsPrefix(a, p), IsPrefix(p, s)
  PROVE  IsPrefix(Swap(a, b, p), Swap(a, b, s))
<1>1. IsPrefix(a, s)
  BY PrefixOrder
<1> DEFINE x == Swap(a, b, p)
           y == Swap(a, b, s)
<1>2. /\ x \in AnyPath /\ Len(x) = Len(b) + Len(p) - Len(a)
      /\ \A i \in 1 .. Len(b) : x[i] = b[i]
      /\ \A i \in 1 .. Len(p) - Len(a) : x[Len(b) + i] = p[Len(a) + i]
  BY Swapped
<1>3. /\ y \in AnyPath /\ Len(y) = Len(b) + Len(s) - Len(a)
      /\ \A i \in 1 .. Len(b) : y[i] = b[i]
      /\ \A i \in 1 .. Len(s) - Len(a) : y[Len(b) + i] = s[Len(a) + i]
  BY <1>1, Swapped
<1> HIDE DEF x, y
<1>4. /\ Len(p) <= Len(s) /\ Len(a) <= Len(p) /\ \A i \in 1 .. Len(p) : p[i] = s[i]
      /\ Len(a) \in Nat /\ Len(b) \in Nat /\ Len(p) \in Nat /\ Len(s) \in Nat
  BY PrefixByEntry, PathLen
<1>5. Len(x) <= Len(y) /\ Len(x) \in Nat
  BY <1>2, <1>3, <1>4
<1>6. ASSUME NEW i \in 1 .. Len(x) PROVE x[i] = y[i]
  <2>1. CASE i <= Len(b)
    BY <1>2, <1>3, <1>4, <2>1
  <2>2. CASE i > Len(b)
    <3>1. PICK j \in 1 .. Len(p) - Len(a) : i = Len(b) + j
      <4>1. i - Len(b) \in 1 .. Len(p) - Len(a) /\ i = Len(b) + (i - Len(b))
        BY ONLY <1>2, <1>4, <1>5, <2>2, i \in 1 .. Len(x)
      <4> QED
        BY <4>1
    <3>2. j \in 1 .. Len(s) - Len(a) /\ Len(a) + j \in 1 .. Len(p)
      BY ONLY <1>4, j \in 1 .. Len(p) - Len(a)
    <3>3. x[i] = p[Len(a) + j] /\ y[i] = s[Len(a) + j]
      BY <1>2, <1>3, <3>1, <3>2
    <3> QED
      BY <1>4, <3>2, <3>3
  <2>3. i <= Len(b) \/ i > Len(b)
    BY ONLY <1>4, <1>5, i \in 1 .. Len(x)
  <2> QED
    BY <2>1, <2>2, <2>3
<1>7. IsPrefix(x, y)
  BY <1>2, <1>3, <1>5, <1>6, PrefixByEntry
<1> QED
  BY <1>7 DEF x, y

LEMMA SwapOne ==
  ASSUME NEW a \in AnyPath, NEW b \in AnyPath, NEW p \in AnyPath, NEW s \in AnyPath,
         IsPrefix(a, p), IsPrefix(a, s)
  PROVE  /\ Swap(a, b, p) = Swap(a, b, s) => p = s
         /\ IsPrefix(Swap(a, b, p), Swap(a, b, s)) => IsPrefix(p, s)
<1>1. /\ Swap(a, b, p) \in AnyPath /\ IsPrefix(b, Swap(a, b, p)) /\ Swap(b, a, Swap(a, b, p)) = p
      /\ Swap(a, b, s) \in AnyPath /\ IsPrefix(b, Swap(a, b, s)) /\ Swap(b, a, Swap(a, b, s)) = s
  BY Swapped
<1> DEFINE x == Swap(a, b, p)
           y == Swap(a, b, s)
<1>2. IsPrefix(x, y) => IsPrefix(Swap(b, a, x), Swap(b, a, y))
  BY <1>1, SwapPrefix
<1> QED
  BY <1>1, <1>2

----------------------------------------------------------------------------
(* Client paths                                                            *)

SmallerThan == {e \in Nat \X Nat : e[1] < e[2]}

\* A set of numbers that is not empty has a least one.
LEMMA LeastOf ==
  ASSUME NEW S \in SUBSET Nat, S # {}
  PROVE  \E i \in S : \A j \in S : i <= j
<1>1. OpToRel(<, Nat) = SmallerThan
  BY DEF OpToRel, SmallerThan
<1>2. IsWellFoundedOn(SmallerThan, Nat)
  BY <1>1, NatLessThanWellFounded, Zenon
<1>3. PICK i \in S : \A j \in S : ~ (<<j, i>> \in SmallerThan)
  BY <1>2, WFMin
<1>4. ASSUME NEW j \in S PROVE i <= j
  <2>1. ~ (j < i)
    BY <1>3 DEF SmallerThan
  <2> QED
    BY <2>1
<1> QED
  BY <1>4

LEMMA RootPath == Root \in AnyPath /\ Len(Root) > 0 /\ NewNames \subseteq Names /\ ClientPaths \subseteq AnyPath
BY FilesAssumption DEF IsTree, AnyPath

\* The live shares have directories, and names of their own.
LEMMA LiveShares ==
  ASSUME SettingsTypeOK
  PROVE  /\ live # << >> <=> DOMAIN live # {}
         /\ \A i \in DOMAIN live : /\ live[i].name \in Names /\ live[i].dir \in AnyPath
                                   /\ i \in Nat /\ i > 0
         /\ \A i, j \in DOMAIN live : live[i].name = live[j].name => i = j
<1>1. live \in ShareLists /\ live \in Seq([name : Names, dir : Seq(Names)])
  BY FilesAssumption DEF SettingsTypeOK
<1>2. DOMAIN live = 1 .. Len(live) /\ Len(live) \in Nat
  BY <1>1, LenProperties
<1>3. ASSUME NEW i \in DOMAIN live PROVE live[i] \in [name : Names, dir : Seq(Names)]
  BY <1>1, <1>2, <1>3, ElementOfSeq
<1>4. live # << >> <=> DOMAIN live # {}
  <2>1. live = << >> => Len(live) = 0
    BY <1>1, EmptySeq
  <2>2. live # << >> => Len(live) \in Nat \ {0}
    BY <1>1, EmptySeq
  <2> QED
    BY <1>2, <2>1, <2>2
<1>5. \A i, j \in DOMAIN live : live[i].name = live[j].name => i = j
  BY <1>1, FilesAssumption
<1> QED
  BY <1>2, <1>3, <1>4, <1>5 DEF AnyPath

LEMMA ShareOfName ==
  ASSUME SettingsTypeOK, NEW i \in DOMAIN live, NEW rel \in AnyPath, rel # << >>,
         Head(rel) = live[i].name
  PROVE  Resolve(rel) = live[i].dir \o Tail(rel)
<1>1. live # << >> /\ \E j \in DOMAIN live : live[j].name = Head(rel)
  BY LiveShares
<1>2. (CHOOSE j \in DOMAIN live : live[j].name = Head(rel)) = i
  BY LiveShares
<1> QED
  BY <1>1, <1>2 DEF Resolve, Inside

\* What a client's path leads to.
LEMMA ResolveParts ==
  ASSUME SettingsTypeOK, NEW rel \in AnyPath
  PROVE  /\ Resolve(rel) \in AnyPath
         /\ \/ live = << >> /\ Resolve(rel) = Root \o rel
            \/ live # << >> /\ Resolve(rel) = << >>
            \/ /\ live # << >> /\ rel # << >> /\ Tail(rel) \in AnyPath
               /\ \E i \in DOMAIN live : Resolve(rel) = live[i].dir \o Tail(rel)
<1>1. CASE live = << >>
  BY <1>1, RootPath, Joined DEF Resolve, Inside
<1>2. CASE live # << >> /\ (rel = << >> \/ \A i \in DOMAIN live : live[i].name # Head(rel))
  BY <1>2, EmptySeq DEF Resolve, Nowhere, AnyPath
<1>3. ASSUME live # << >>, rel # << >>, NEW i \in DOMAIN live, live[i].name = Head(rel)
      PROVE  /\ Resolve(rel) \in AnyPath /\ Tail(rel) \in AnyPath
             /\ Resolve(rel) = live[i].dir \o Tail(rel)
  <2>1. Tail(rel) \in AnyPath
    BY <1>3, HeadTailProperties DEF AnyPath
  <2>2. Resolve(rel) = live[i].dir \o Tail(rel)
    BY <1>3, ShareOfName
  <2> QED
    BY <2>1, <2>2, LiveShares, Joined
<1> QED
  BY <1>1, <1>2, <1>3

\* The way back, by the share that is chosen.
LEMMA RelPathParts ==
  ASSUME SettingsTypeOK, NEW abs \in AnyPath
  PROVE  /\ RelPath(abs) \in AnyPath
         /\ \A j \in DOMAIN live : IsPrefix(live[j].dir, abs) =>
              \E i \in DOMAIN live : /\ IsPrefix(live[i].dir, abs)
                                     /\ RelPath(abs) = <<live[i].name>>
                                                       \o SubSeq(abs, Len(live[i].dir) + 1, Len(abs))
         /\ live = << >> /\ IsPrefix(Root, abs) => RelPath(abs) = SubSeq(abs, Len(Root) + 1, Len(abs))
<1> DEFINE holders == {i \in DOMAIN live : IsPrefix(live[i].dir, abs)}
           rest(d) == SubSeq(abs, Len(d) + 1, Len(abs))
<1>1. ASSUME NEW d \in AnyPath, IsPrefix(d, abs) PROVE rest(d) \in AnyPath
  <2>1. Len(d) \in 0 .. Len(abs)
    BY <1>1, PathLen, PrefixByEntry
  <2> QED
    BY <2>1, Rest
<1>2. CASE holders # {}
  <2> DEFINE first == CHOOSE i \in holders : \A j \in holders : i <= j
  <2>1. holders \subseteq Nat
    BY LiveShares
  <2>2. \E i \in holders : \A j \in holders : i <= j
    BY <1>2, <2>1, LeastOf
  <2>3. first \in holders
    BY <2>2
  <2>4. RelPath(abs) = <<live[first].name>> \o rest(live[first].dir)
    BY <1>2 DEF RelPath
  <2> HIDE DEF first
  <2>5. live[first].dir \in AnyPath /\ <<live[first].name>> \in AnyPath /\ live # << >>
    BY <2>3, LiveShares DEF AnyPath
  <2>6. rest(live[first].dir) \in AnyPath
    BY <1>1, <2>3, <2>5
  <2>7. RelPath(abs) \in AnyPath
    BY <2>4, <2>5, <2>6, Joined
  <2> QED
    BY <2>3, <2>4, <2>5, <2>7
<1>3. CASE holders = {}
  <2>1. RelPath(abs) = IF IsPrefix(Root, abs) THEN rest(Root) ELSE abs
    BY <1>3 DEF RelPath
  <2>2. RelPath(abs) \in AnyPath
    BY <1>1, <2>1, RootPath
  <2> QED
    BY <1>3, <2>1, <2>2
<1> QED
  BY <1>2, <1>3

LEMMA HeadOfName ==
  ASSUME NEW name \in Names, NEW q \in AnyPath
  PROVE  /\ <<name>> \o q \in AnyPath /\ <<name>> \o q # << >>
         /\ Head(<<name>> \o q) = name /\ Tail(<<name>> \o q) = q
<1> DEFINE p == <<name>> \o q
<1>1. <<name>> \in AnyPath /\ Len(<<name>>) = 1 /\ <<name>>[1] = name
  BY DEF AnyPath
<1>2. /\ p \in AnyPath /\ Len(p) = 1 + Len(q) /\ p[1] = name
      /\ \A i \in 1 .. Len(q) : p[1 + i] = q[i]
  BY <1>1, Joined
<1> HIDE DEF p
<1>3. Len(q) \in Nat /\ p # << >>
  BY <1>2, PathLen
<1>4. Head(p) = name
  BY <1>2, <1>3 DEF AnyPath
<1>5. Tail(p) \in AnyPath /\ Len(Tail(p)) = Len(q) /\ \A i \in 1 .. Len(Tail(p)) : Tail(p)[i] = p[i + 1]
  BY <1>2, <1>3, HeadTailProperties DEF AnyPath
<1>6. \A i \in 1 .. Len(q) : p[i + 1] = q[i]
  BY <1>2, <1>3
<1>7. Tail(p) = q
  BY <1>5, <1>6, PathEqual
<1> QED
  BY <1>2, <1>3, <1>4, <1>7 DEF p

\* Every path below what a client's path leads to has a client's path that leads to it.
LEMMA RelPathResolves ==
  ASSUME SettingsTypeOK, NEW rel \in AnyPath, Resolve(rel) # << >>,
         NEW p \in AnyPath, IsPrefix(Resolve(rel), p)
  PROVE  Resolve(RelPath(p)) = p
<1>1. CASE live = << >>
  <2>1. Resolve(rel) = Root \o rel
    BY <1>1, ResolveParts
  <2>2. IsPrefix(Root, p)
    <3>1. IsPrefix(Root, Root \o rel) /\ Root \o rel \in AnyPath
      BY RootPath, JoinPath, Joined
    <3> QED
      BY <2>1, <3>1, RootPath, PrefixOrder
  <2>3. RelPath(p) = SubSeq(p, Len(Root) + 1, Len(p))
    BY <1>1, <2>2, RelPathParts
  <2>4. Root \o RelPath(p) = p
    BY <2>2, <2>3, RootPath, SplitPath
  <2> QED
    BY <1>1, <2>4 DEF Resolve, Inside
<1>2. CASE live # << >>
  <2>1. PICK j \in DOMAIN live : Tail(rel) \in AnyPath /\ Resolve(rel) = live[j].dir \o Tail(rel)
    BY <1>2, ResolveParts
  <2>2. IsPrefix(live[j].dir, p)
    <3>1. live[j].dir \in AnyPath
      BY LiveShares
    <3>2. IsPrefix(live[j].dir, Resolve(rel)) /\ Resolve(rel) \in AnyPath
      BY <2>1, <3>1, JoinPath, Joined
    <3> QED
      BY <3>1, <3>2, PrefixOrder
  <2>3. PICK i \in DOMAIN live :
          /\ IsPrefix(live[i].dir, p)
          /\ RelPath(p) = <<live[i].name>> \o SubSeq(p, Len(live[i].dir) + 1, Len(p))
    BY <2>2, RelPathParts
  <2> DEFINE d == live[i].dir
             rest == SubSeq(p, Len(d) + 1, Len(p))
             back == <<live[i].name>> \o rest
  <2>4. d \in AnyPath /\ live[i].name \in Names
    BY LiveShares
  <2>5. rest \in AnyPath /\ d \o rest = p
    <3>1. Len(d) \in 0 .. Len(p)
      BY <2>3, <2>4, PathLen, PrefixByEntry
    <3> QED
      BY <2>3, <2>4, <3>1, Rest, SplitPath
  <2>6. back \in AnyPath /\ back # << >> /\ Head(back) = live[i].name /\ Tail(back) = rest
    BY <2>4, <2>5, HeadOfName
  <2>7. Resolve(back) = d \o Tail(back)
    BY <2>6, ShareOfName
  <2> QED
    BY <2>3, <2>5, <2>6, <2>7
<1> QED
  BY <1>1, <1>2

\* A listing shows paths that lead back to what it lists.
LEMMA ListingsResolve ==
  ASSUME SettingsTypeOK, IsTree(tree)
  PROVE  ListedPathsResolve
<1> SUFFICES ASSUME NEW rel \in ClientPaths \cup {<< >>}
             PROVE  LET shown == {Resolve(q) : q \in Listed(rel)}
                    IN IF rel = << >> /\ live # << >> THEN shown = {live[i].dir : i \in DOMAIN live}
                       ELSE IsDir(Resolve(rel)) => shown = Children(Resolve(rel))
  BY DEF ListedPathsResolve
<1> DEFINE shown == {Resolve(q) : q \in Listed(rel)}
<1>0. rel \in AnyPath
  BY RootPath, EmptySeq DEF AnyPath
<1>1. CASE rel = << >> /\ live # << >>
  <2>1. Listed(rel) = {<<live[i].name>> : i \in DOMAIN live}
    BY <1>1 DEF Listed
  <2>2. ASSUME NEW i \in DOMAIN live PROVE Resolve(<<live[i].name>>) = live[i].dir
    <3>1. live[i].dir \in AnyPath /\ live[i].name \in Names
      BY LiveShares
    <3>2. /\ <<live[i].name>> \in AnyPath /\ <<live[i].name>> # << >>
          /\ Head(<<live[i].name>>) = live[i].name /\ Tail(<<live[i].name>>) = << >>
      BY <3>1 DEF AnyPath
    <3>3. Resolve(<<live[i].name>>) = live[i].dir \o << >>
      BY <3>2, ShareOfName
    <3> QED
      BY <3>1, <3>3, ConcatEmptySeq DEF AnyPath
  <2>3. shown = {Resolve(<<live[i].name>>) : i \in DOMAIN live}
    BY <2>1
  <2>4. shown = {live[i].dir : i \in DOMAIN live}
    BY <2>2, <2>3
  <2> QED
    BY <1>1, <2>4
<1>2. CASE ~ (rel = << >> /\ live # << >>)
  <2> SUFFICES ASSUME IsDir(Resolve(rel)) PROVE shown = Children(Resolve(rel))
    BY <1>2
  <2>1. Listed(rel) = {RelPath(p) : p \in Children(Resolve(rel))}
    BY <1>2 DEF Listed
  <2>2. Resolve(rel) # << >>
    <3>1. Len(Resolve(rel)) > 0
      BY DEF IsDir, Exists, IsTree
    <3> QED
      BY <3>1, EmptySeq DEF AnyPath
  <2>3. ASSUME NEW p \in Children(Resolve(rel)) PROVE Resolve(RelPath(p)) = p
    <3>1. p \in AnyPath /\ IsPrefix(Resolve(rel), p)
      BY DEF Children, Under, IsTree, AnyPath
    <3> QED
      BY <1>0, <2>2, <3>1, RelPathResolves
  <2> QED
    BY <2>1, <2>3
<1> QED
  BY <1>1, <1>2

----------------------------------------------------------------------------
(* File systems                                                            *)

\* The directories above a path, and the path itself.
LEMMA TopsExist ==
  ASSUME NEW t, IsTree(t), NEW p \in DOMAIN t, NEW a \in AnyPath, IsPrefix(a, p), Len(a) > 0
  PROVE  a \in DOMAIN t /\ (a # p => t[a] = Dir)
<1>1. p \in AnyPath
  BY DEF IsTree, AnyPath
<1>2. Len(a) \in Nat /\ Len(p) \in Nat /\ Len(a) <= Len(p)
  BY <1>1, PathLen, PrefixByEntry
<1>3. CASE a = p
  BY <1>3
<1>4. CASE a # p
  <2>1. Len(a) # Len(p)
    BY <1>1, <1>4, PrefixOrder
  <2>2. Len(a) \in 1 .. Len(p) - 1 /\ Len(a) \in 0 .. Len(p)
    BY <1>2, <2>1
  <2>3. SubSeq(p, 1, Len(a)) = a
    <3>1. /\ SubSeq(p, 1, Len(a)) \in AnyPath /\ Len(SubSeq(p, 1, Len(a))) = Len(a)
          /\ \A i \in 1 .. Len(a) : SubSeq(p, 1, Len(a))[i] = p[i]
      BY <1>1, <2>2, Top
    <3>2. \A i \in 1 .. Len(a) : a[i] = p[i]
      BY <1>1, PrefixByEntry
    <3> QED
      BY <3>1, <3>2, PathEqual
  <2> QED
    BY <1>4, <2>2, <2>3 DEF IsTree
<1> QED
  BY <1>3, <1>4

\* It is enough to look at prefixes.
LEMMA TreeByPrefix ==
  ASSUME NEW t,
         \A p \in DOMAIN t : p \in AnyPath /\ Len(p) > 0 /\ t[p] \in Files \cup {Dir},
         \A p \in DOMAIN t : \A a \in AnyPath :
            IsPrefix(a, p) /\ a # p /\ Len(a) > 0 => a \in DOMAIN t /\ t[a] = Dir,
         \A p, q \in DOMAIN t : t[p] = t[q] => t[p] = Dir \/ p = q
  PROVE  IsTree(t)
<1>1. ASSUME NEW p \in DOMAIN t, NEW n \in 1 .. Len(p) - 1
      PROVE  SubSeq(p, 1, n) \in DOMAIN t /\ t[SubSeq(p, 1, n)] = Dir
  <2>1. p \in AnyPath /\ Len(p) \in Nat
    BY PathLen
  <2>2. n \in 0 .. Len(p) /\ n # Len(p) /\ n > 0
    BY <2>1
  <2> DEFINE a == SubSeq(p, 1, n)
  <2>3. a \in AnyPath /\ Len(a) = n /\ \A i \in 1 .. n : a[i] = p[i]
    BY <2>1, <2>2, Top
  <2> HIDE DEF a
  <2>4. IsPrefix(a, p) /\ a # p /\ Len(a) > 0
    BY <2>1, <2>2, <2>3, PrefixByEntry
  <2>5. a \in DOMAIN t /\ t[a] = Dir
    BY <2>3, <2>4
  <2> QED
    BY <2>5 DEF a
<1> QED
  BY <1>1 DEF IsTree, AnyPath

\* A file, or a directory, is made in a directory.
LEMMA AddEntry ==
  ASSUME NEW t, IsTree(t), NEW u, NEW p \in AnyPath, NEW node \in Files \cup {Dir},
         Len(p) > 1, Front(p) \in DOMAIN t, t[Front(p)] = Dir, p \notin DOMAIN t,
         node # Dir => \A q \in DOMAIN t : t[q] # node,
         DOMAIN u = DOMAIN t \cup {p}, u[p] = node, \A q \in DOMAIN t : u[q] = t[q]
  PROVE  IsTree(u)
<1>1. \A q \in DOMAIN u : q \in AnyPath /\ Len(q) > 0 /\ u[q] \in Files \cup {Dir}
  BY DEF IsTree, AnyPath
<1>2. ASSUME NEW q \in DOMAIN u, NEW a \in AnyPath, IsPrefix(a, q), a # q, Len(a) > 0
      PROVE  a \in DOMAIN u /\ u[a] = Dir
  <2>1. CASE q \in DOMAIN t
    BY <1>2, <2>1, TopsExist
  <2>2. CASE q = p
    <3>1. IsPrefix(a, Front(p)) /\ Len(p) > 0
      BY <1>2, <2>2, FrontPath
    <3>2. a \in DOMAIN t /\ (a # Front(p) => t[a] = Dir)
      BY <1>2, <3>1, TopsExist
    <3> QED
      BY <3>2
  <2> QED
    BY <2>1, <2>2
<1>3. \A q, s \in DOMAIN u : u[q] = u[s] => u[q] = Dir \/ q = s
  BY DEF IsTree
<1> QED
  BY <1>1, <1>2, <1>3, TreeByPrefix

\* A path with no entry in it goes.
LEMMA RemoveLeaf ==
  ASSUME NEW t, IsTree(t), NEW u, NEW p \in DOMAIN t,
         \A q \in DOMAIN t : ~ (IsPrefix(p, q) /\ Len(q) = Len(p) + 1),
         DOMAIN u = DOMAIN t \ {p}, \A q \in DOMAIN u : u[q] = t[q]
  PROVE  IsTree(u) /\ \A q \in DOMAIN t : IsPrefix(p, q) => q = p
<1>0. \A q \in DOMAIN t : q \in AnyPath /\ Len(q) > 0 /\ Len(q) \in Nat
  BY PathLen DEF IsTree, AnyPath
<1>1. ASSUME NEW q \in DOMAIN t, IsPrefix(p, q), q # p PROVE FALSE
  <2>1. Len(p) < Len(q) /\ Len(p) + 1 \in 0 .. Len(q)
    <3>1. Len(p) <= Len(q) /\ Len(p) # Len(q)
      BY <1>0, <1>1, PrefixByEntry, PrefixOrder
    <3> QED
      BY <1>0, <3>1
  <2> DEFINE a == SubSeq(q, 1, Len(p) + 1)
  <2>2. a \in AnyPath /\ Len(a) = Len(p) + 1 /\ \A i \in 1 .. Len(p) + 1 : a[i] = q[i]
    BY <1>0, <2>1, Top
  <2> HIDE DEF a
  <2>3. IsPrefix(p, a) /\ IsPrefix(a, q) /\ Len(a) > 0
    BY <1>0, <1>1, <2>1, <2>2, PrefixByEntry
  <2>4. a \in DOMAIN t
    BY <2>2, <2>3, TopsExist
  <2> QED
    BY <2>2, <2>3, <2>4
<1>2. ASSUME NEW q \in DOMAIN u, NEW a \in AnyPath, IsPrefix(a, q), a # q, Len(a) > 0
      PROVE  a \in DOMAIN u /\ u[a] = Dir
  <2>1. a \in DOMAIN t /\ t[a] = Dir
    BY <1>2, TopsExist
  <2>2. a # p
    BY <1>1, <1>2
  <2> QED
    BY <2>1, <2>2
<1>3. \A q \in DOMAIN u : q \in AnyPath /\ Len(q) > 0 /\ u[q] \in Files \cup {Dir}
  BY DEF IsTree, AnyPath
<1>4. \A q, s \in DOMAIN u : u[q] = u[s] => u[q] = Dir \/ q = s
  BY DEF IsTree
<1>5. IsTree(u)
  BY <1>2, <1>3, <1>4, TreeByPrefix
<1> QED
  BY <1>1, <1>5

\* os.Rename: what lies below a goes below b.
MovedTo(t, a, b) == {Swap(a, b, p) : p \in {p \in DOMAIN t : IsPrefix(a, p)}}
TreeMoved(t, u, a, b) ==
  /\ DOMAIN u = {p \in DOMAIN t : ~ IsPrefix(a, p)} \cup MovedTo(t, a, b)
  /\ \A p \in DOMAIN t : IsPrefix(a, p) => u[Swap(a, b, p)] = t[p]
  /\ \A p \in DOMAIN t : ~ IsPrefix(a, p) /\ p \notin MovedTo(t, a, b) => u[p] = t[p]

LEMMA MoveTree ==
  ASSUME NEW t, IsTree(t), NEW u, NEW a \in DOMAIN t, NEW b \in AnyPath,
         Len(b) > 1, Front(b) \in DOMAIN t, t[Front(b)] = Dir, ~ IsPrefix(a, b),
         b \in DOMAIN t =>
           IF t[a] = Dir THEN t[b] = Dir /\ \A q \in DOMAIN t : ~ (IsPrefix(b, q) /\ Len(q) = Len(b) + 1)
                         ELSE t[b] # Dir,
         TreeMoved(t, u, a, b)
  PROVE  /\ IsTree(u)
         /\ \A q \in DOMAIN t : IsPrefix(b, q) => q = b
<1> DEFINE new(p) == Swap(a, b, p)
<1>0. /\ \A q \in DOMAIN t : q \in AnyPath /\ Len(q) > 0 /\ Len(q) \in Nat
      /\ a \in AnyPath /\ Len(b) \in Nat
  BY PathLen DEF IsTree, AnyPath
<1>1. ASSUME NEW p \in DOMAIN t, IsPrefix(a, p)
      PROVE  /\ new(p) \in AnyPath /\ IsPrefix(b, new(p)) /\ Len(new(p)) >= Len(b)
             /\ new(p) \in DOMAIN u /\ u[new(p)] = t[p] /\ new(p) \in MovedTo(t, a, b)
  <2>1. new(p) \in AnyPath /\ IsPrefix(b, new(p))
    BY <1>0, <1>1, Swapped
  <2>2. Len(new(p)) >= Len(b)
    BY <1>0, <2>1, PathLen, PrefixByEntry
  <2>3. new(p) \in MovedTo(t, a, b)
    BY <1>1 DEF MovedTo
  <2> QED
    BY <1>1, <2>1, <2>2, <2>3 DEF TreeMoved
<1>2. ASSUME NEW q \in DOMAIN t, IsPrefix(b, q) PROVE q = b
  <2> SUFFICES ASSUME q # b PROVE FALSE
    OBVIOUS
  <2>1. b \in DOMAIN t /\ t[b] = Dir
    BY <1>0, <1>2, TopsExist
  <2>2. \A s \in DOMAIN t : ~ (IsPrefix(b, s) /\ Len(s) = Len(b) + 1)
    BY <2>1
  <2> DEFINE v == [x \in DOMAIN t \ {b} |-> t[x]]
  <2>3. DOMAIN v = DOMAIN t \ {b} /\ \A x \in DOMAIN v : v[x] = t[x]
    OBVIOUS
  <2> HIDE DEF v
  <2> QED
    BY <1>2, <2>1, <2>2, <2>3, RemoveLeaf
<1>3. a \in DOMAIN t /\ IsPrefix(a, a) /\ new(a) = b
  BY <1>0, PrefixOrder, Swapped
<1>4. \A q \in DOMAIN u : \/ \E p \in DOMAIN t : IsPrefix(a, p) /\ q = new(p) /\ u[q] = t[p]
                          \/ q \in DOMAIN t /\ ~ IsPrefix(a, q) /\ u[q] = t[q] /\ ~ IsPrefix(b, q)
  <2> SUFFICES ASSUME NEW q \in DOMAIN u, q \notin MovedTo(t, a, b)
               PROVE  q \in DOMAIN t /\ ~ IsPrefix(a, q) /\ u[q] = t[q] /\ ~ IsPrefix(b, q)
    BY <1>1 DEF MovedTo
  <2>1. q \in DOMAIN t /\ ~ IsPrefix(a, q) /\ u[q] = t[q]
    BY DEF TreeMoved
  <2>2. q # b
    BY <1>1, <1>3
  <2> QED
    BY <1>2, <2>1, <2>2
<1>5. \A q \in DOMAIN u : q \in AnyPath /\ Len(q) > 0 /\ u[q] \in Files \cup {Dir}
  <2> SUFFICES ASSUME NEW q \in DOMAIN u PROVE q \in AnyPath /\ Len(q) > 0 /\ u[q] \in Files \cup {Dir}
    OBVIOUS
  <2>1. ASSUME NEW p \in DOMAIN t, IsPrefix(a, p), q = new(p), u[q] = t[p]
        PROVE  q \in AnyPath /\ Len(q) > 0 /\ u[q] \in Files \cup {Dir}
    <3>1. q \in AnyPath /\ Len(q) >= Len(b)
      BY <1>1, <2>1
    <3>2. Len(q) > 0
      BY <1>0, <3>1, PathLen
    <3> QED
      BY <2>1, <3>1, <3>2 DEF IsTree
  <2>2. CASE q \in DOMAIN t /\ u[q] = t[q]
    BY <1>0, <2>2 DEF IsTree
  <2> QED
    BY <1>4, <2>1, <2>2
<1>6. ASSUME NEW q \in DOMAIN u, NEW c \in AnyPath, IsPrefix(c, q), c # q, Len(c) > 0
      PROVE  c \in DOMAIN u /\ u[c] = Dir
  <2>1. ASSUME NEW p \in DOMAIN t, IsPrefix(a, p), q = new(p) PROVE c \in DOMAIN u /\ u[c] = Dir
    <3>0. q \in AnyPath /\ IsPrefix(b, q) /\ p \in AnyPath
      BY <1>0, <1>1, <2>1
    <3>1. CASE IsPrefix(b, c)
      <4> DEFINE d == Swap(b, a, c)
      <4>1. d \in AnyPath /\ IsPrefix(a, d) /\ new(d) = c
        BY <1>0, <3>1, Swapped
      <4>2. IsPrefix(d, p)
        BY <1>0, <1>6, <2>1, <3>0, <4>1, SwapOne
      <4>3. d # p
        BY <1>6, <2>1, <4>1
      <4>4. Len(d) > 0
        <5>1. Len(a) <= Len(d) /\ Len(d) \in Nat /\ Len(a) \in Nat /\ Len(a) > 0
          BY <1>0, <4>1, PathLen, PrefixByEntry
        <5> QED
          BY <5>1
      <4>5. d \in DOMAIN t /\ t[d] = Dir
        BY <4>1, <4>2, <4>3, <4>4, TopsExist
      <4> QED
        BY <1>1, <4>1, <4>5
    <3>2. CASE ~ IsPrefix(b, c)
      <4>1. IsPrefix(c, b) /\ c # b
        BY <1>6, <3>0, <3>2, PrefixOrder
      <4>2. IsPrefix(c, Front(b)) /\ Len(b) > 0
        BY <1>0, <4>1, FrontPath
      <4>3. c \in DOMAIN t /\ t[c] = Dir
        BY <1>6, <4>2, TopsExist
      <4>4. ~ IsPrefix(a, c)
        BY <1>0, <4>1, PrefixOrder
      <4>5. c \notin MovedTo(t, a, b)
        BY <1>1, <3>2 DEF MovedTo
      <4> QED
        BY <4>3, <4>4, <4>5 DEF TreeMoved
    <3> QED
      BY <3>1, <3>2
  <2>2. CASE q \in DOMAIN t /\ ~ IsPrefix(a, q) /\ ~ IsPrefix(b, q)
    <3>1. c \in DOMAIN t /\ t[c] = Dir
      BY <1>6, <2>2, TopsExist
    <3>2. ~ IsPrefix(a, c) /\ ~ IsPrefix(b, c)
      BY <1>0, <1>6, <2>2, PrefixOrder
    <3>3. c \notin MovedTo(t, a, b)
      BY <1>1, <3>2 DEF MovedTo
    <3> QED
      BY <3>1, <3>2, <3>3 DEF TreeMoved
  <2> QED
    BY <1>4, <2>1, <2>2
<1>7. ASSUME NEW q \in DOMAIN u, NEW s \in DOMAIN u, u[q] = u[s], u[q] # Dir PROVE q = s
  <2>0. \A p, r \in DOMAIN t : t[p] = t[r] => t[p] = Dir \/ p = r
    BY DEF IsTree
  <2>1. CASE \E p \in DOMAIN t : IsPrefix(a, p) /\ q = new(p) /\ u[q] = t[p]
    <3>1. PICK p \in DOMAIN t : IsPrefix(a, p) /\ q = new(p) /\ u[q] = t[p]
      BY <2>1
    <3>2. \A r \in DOMAIN t : u[s] = t[r] => r = p
      BY <1>7, <2>0, <3>1
    <3> QED
      BY <1>4, <3>1, <3>2
  <2>2. CASE q \in DOMAIN t /\ ~ IsPrefix(a, q) /\ u[q] = t[q]
    <3>1. \A r \in DOMAIN t : u[s] = t[r] => r = q
      BY <1>7, <2>0, <2>2
    <3> QED
      BY <1>4, <2>2, <3>1
  <2> QED
    BY <1>4, <2>1, <2>2
<1>8. IsTree(u)
  BY <1>5, <1>6, <1>7, TreeByPrefix
<1> QED
  BY <1>2, <1>8

\* The new file system of os.Rename.
LEMMA RenamedParts ==
  ASSUME IsTree(tree), NEW a \in DOMAIN tree, NEW b \in AnyPath
  PROVE  TreeMoved(tree, Renamed(a, b), a, b)
<1> DEFINE moved == MovedTo(tree, a, b)
           stay == DOMAIN tree \ Under(a)
<1>0. a \in AnyPath /\ \A p \in DOMAIN tree : p \in AnyPath
  BY DEF IsTree, AnyPath
<1>1. moved = {b \o SubSeq(p, Len(a) + 1, Len(p)) : p \in Under(a)}
  BY DEF MovedTo, Swap, Under
<1>2. Renamed(a, b) = [q \in stay \cup moved |-> IF q \in moved THEN tree[Swap(b, a, q)] ELSE tree[q]]
  BY <1>1 DEF Renamed, Swap
<1>3. stay = {p \in DOMAIN tree : ~ IsPrefix(a, p)}
  BY DEF Under
<1>4. ASSUME NEW p \in DOMAIN tree, IsPrefix(a, p) PROVE Renamed(a, b)[Swap(a, b, p)] = tree[p]
  <2>1. Swap(a, b, p) \in moved
    BY <1>4 DEF MovedTo
  <2>2. Swap(b, a, Swap(a, b, p)) = p
    BY <1>0, <1>4, Swapped
  <2> QED
    BY <1>2, <2>1, <2>2
<1>5. DOMAIN Renamed(a, b) = stay \cup moved
  BY <1>2
<1>6. ASSUME NEW p \in DOMAIN tree, ~ IsPrefix(a, p), p \notin moved PROVE Renamed(a, b)[p] = tree[p]
  BY <1>2, <1>3, <1>6
<1> QED
  BY <1>3, <1>4, <1>5, <1>6 DEF TreeMoved

----------------------------------------------------------------------------
(* Types                                                                   *)

Taking == {"renaming", "moving", "copying", "copying file", "removing"}

\* What a request has, by where it is.
Serves(q) ==
  /\ q.at \in {"next", "removing"} => q.op \in {"move", "delete"}
  /\ q.at \in {"moving", "copying", "copying file"} => q.op = "move"
  /\ q.at \in Taking => q.from # << >>
  /\ q.at = "resolving" => Len(q.rels) = 1
  /\ q.at \in {"receiving", "copying file"} => q.writes \in Files
  /\ q.at = "copying file" => q.reads \in Files
  /\ q.at \in {"copying", "copying file"} => \A p \in q.left : IsPrefix(q.from, p)

FilesInv == FilesTypeOK /\ \A r \in Requests : Serves(req[r])

LEMMA FilesInvInit == ServerInit => FilesInv
<1> SUFFICES ASSUME ServerInit PROVE FilesInv
  OBVIOUS
<1>1. SettingsTypeOK
  BY SettingsInitTyped DEF ServerInit
<1>2. IsTree(tree) /\ ops \in 0 .. MaxOps /\ taken \subseteq Contents /\ overlapped \in BOOLEAN
  <2>1. IsTree(FirstTree) /\ MaxOps \in Nat
    BY FilesAssumption
  <2>2. tree = FirstTree /\ ops = 0 /\ taken = {} /\ overlapped = FALSE
    BY DEF ServerInit, FilesInit
  <2>3. IsTree(tree)
    BY <2>1, <2>2, Zenon
  <2>4. ops \in 0 .. MaxOps
    BY <2>1, <2>2
  <2>5. taken \subseteq Contents /\ overlapped \in BOOLEAN
    BY <2>2
  <2> QED
    BY <2>3, <2>4, <2>5
<1>3. body \in [Files -> Contents]
  <2>1. \A f \in DOMAIN FirstBody : FirstBody[f] \in Contents
    BY FilesAssumption DEF Contents
  <2> QED
    BY <2>1 DEF ServerInit, FilesInit, Contents
<1>4. NoRequest \in FileRequest /\ Serves(NoRequest)
  BY FilesAssumption, EmptySeq DEF NoRequest, FileRequest, Serves, Taking
<1>5. req \in [Requests -> FileRequest] /\ \A r \in Requests : Serves(req[r])
  BY <1>4 DEF ServerInit, FilesInit
<1> QED
  BY <1>1, <1>2, <1>3, <1>5 DEF FilesInv, FilesTypeOK

\* What the steps of a request do to the settings: nothing, but for the count of failures.
LEMMA FileStepSettings ==
  ASSUME NEW r \in Requests, FileStep(r)
  PROVE  UNCHANGED settingsVars \/ Disturb
BY DEF FileStep, StartNew, StartRename, StartMove, StartDelete, Begin, NameNew, Look, OpenUpload,
       Receive, StatNewDir, MakeDir, DoRename, NextSource, MoveSource, CopyFile, Copied, Removed,
       CopyEntry, RemoveEntry

LEMMA StepOfSettings ==
  ASSUME [ServerNext]_serverVars
  PROVE  [SettingsNext]_settingsVars \/ Disturb
BY FileStepSettings DEF ServerNext, SettingsNext, serverVars

LEMMA SettingsStayTyped ==
  ASSUME SettingsTypeOK, [ServerNext]_serverVars
  PROVE  SettingsTypeOK'
<1>1. CASE [SettingsNext]_settingsVars
  BY <1>1, SettingsNextTyped
<1>2. CASE Disturb
  BY <1>2, SettingsAssumption DEF SettingsTypeOK, Disturb, disk, memory
<1> QED
  BY <1>1, <1>2, StepOfSettings

\* A request goes on as q.
LEMMA SetParts ==
  ASSUME FilesInv, NEW r \in Requests, NEW q \in FileRequest, Serves(q), Set(r, q)
  PROVE  /\ req' \in [Requests -> FileRequest] /\ \A s \in Requests : Serves(req'[s])
         /\ req'[r] = q /\ \A s \in Requests \ {r} : req'[s] = req[s]
BY DEF FilesInv, FilesTypeOK, Set

LEMMA Resting == NoRequest \in FileRequest /\ Serves(NoRequest) /\ NoRequest.at = "idle"
BY FilesAssumption, EmptySeq DEF NoRequest, FileRequest, Serves, Taking

\* What a request has in its record, and where its paths lead.
LEMMA RequestParts ==
  ASSUME FilesInv, NEW r \in Requests
  PROVE  /\ req[r] \in FileRequest /\ Serves(req[r])
         /\ req[r].from \in AnyPath /\ req[r].to \in AnyPath /\ req[r].left \subseteq AnyPath
         /\ req[r].at = "resolving" => req[r].rels[1] \in AnyPath
         /\ req[r].rels # << >> =>
              Head(req[r].rels) \in AnyPath /\ Tail(req[r].rels) \in Seq(Seq(Names))
         /\ req[r].at \in Taking =>
              /\ Len(req[r].from) > 0 /\ Last(req[r].from) \in Names
              /\ Target(r) \in AnyPath /\ Len(Target(r)) = Len(req[r].to) + 1
              /\ Front(Target(r)) = req[r].to /\ IsPrefix(req[r].to, Target(r))
<1>1. req[r] \in FileRequest /\ Serves(req[r])
  BY DEF FilesInv, FilesTypeOK
<1>2. /\ req[r].from \in AnyPath /\ req[r].to \in AnyPath /\ req[r].left \subseteq AnyPath
      /\ req[r].rels \in Seq(Seq(Names))
  BY <1>1 DEF FileRequest, AnyPath
<1>3. req[r].at = "resolving" => req[r].rels[1] \in AnyPath
  <2>1. ASSUME req[r].at = "resolving" PROVE 1 \in 1 .. Len(req[r].rels)
    BY <1>1, <2>1 DEF Serves
  <2> QED
    BY <1>2, <2>1, ElementOfSeq DEF AnyPath
<1>4. req[r].rels # << >> => Head(req[r].rels) \in AnyPath /\ Tail(req[r].rels) \in Seq(Seq(Names))
  BY <1>2, HeadTailProperties DEF AnyPath
<1>5. ASSUME req[r].at \in Taking PROVE Len(req[r].from) > 0 /\ Last(req[r].from) \in Names
  <2>1. Len(req[r].from) \in Nat /\ Len(req[r].from) # 0
    BY <1>1, <1>2, <1>5, PathLen DEF Serves
  <2>2. Len(req[r].from) \in 1 .. Len(req[r].from)
    BY <2>1
  <2> QED
    BY <1>2, <2>1, <2>2, ElementOfSeq DEF AnyPath, Last
<1>6. ASSUME req[r].at \in Taking
      PROVE  /\ Target(r) \in AnyPath /\ Len(Target(r)) = Len(req[r].to) + 1
             /\ Front(Target(r)) = req[r].to /\ IsPrefix(req[r].to, Target(r))
  BY <1>2, <1>5, <1>6, ChildPath DEF Target
<1> QED
  BY <1>1, <1>2, <1>3, <1>4, <1>5, <1>6

\* os.Create, on a path of its own or over a file.
LEMMA CreateParts ==
  ASSUME FilesInv, NEW p \in AnyPath, NEW f \in Files, Create(p, f)
  PROVE  /\ IsTree(tree') /\ body' = [body EXCEPT ![f] = Partial] /\ body' \in [Files -> Contents]
         /\ p \in DOMAIN tree => tree' = tree /\ tree[p] = f
         /\ p \notin DOMAIN tree =>
              /\ DOMAIN tree' = DOMAIN tree \cup {p} /\ tree'[p] = f
              /\ \A q \in DOMAIN tree : tree'[q] = tree[q] /\ tree[q] # f
         /\ tree'[p] = f
<1>1. IsTree(tree) /\ body \in [Files -> Contents] /\ f # Dir
  BY FilesAssumption DEF FilesInv, FilesTypeOK
<1>2. body' = [body EXCEPT ![f] = Partial] /\ body' \in [Files -> Contents]
  BY <1>1 DEF Create, Contents
<1>3. CASE p \in DOMAIN tree
  BY <1>1, <1>2, <1>3 DEF Create, Exists
<1>4. CASE p \notin DOMAIN tree
  <2>1. f \in Unused /\ tree' = Bind(p, f)
    BY <1>4 DEF Create, Exists
  <2>2. \A q \in DOMAIN tree : tree[q] # f
    BY <2>1 DEF Unused, Range
  <2>3. /\ DOMAIN tree' = DOMAIN tree \cup {p} /\ tree'[p] = f
        /\ \A q \in DOMAIN tree : tree'[q] = tree[q]
    BY <1>4, <2>1 DEF Bind
  <2>4. Len(p) > 1 /\ Front(p) \in DOMAIN tree /\ tree[Front(p)] = Dir
    BY DEF Create, CanCreate, IsDir, Exists
  <2>5. IsTree(tree')
    BY <1>1, <1>4, <2>2, <2>3, <2>4, AddEntry
  <2> QED
    BY <1>2, <1>4, <2>2, <2>3, <2>5
<1> QED
  BY <1>3, <1>4

\* os.Mkdir where nothing is.
LEMMA MkdirParts ==
  ASSUME FilesInv, NEW p \in AnyPath, CanCreate(p), ~ Exists(p), tree' = Bind(p, Dir)
  PROVE  /\ IsTree(tree') /\ DOMAIN tree' = DOMAIN tree \cup {p} /\ tree'[p] = Dir
         /\ \A q \in DOMAIN tree : tree'[q] = tree[q]
<1>1. /\ DOMAIN tree' = DOMAIN tree \cup {p} /\ tree'[p] = Dir
      /\ \A q \in DOMAIN tree : tree'[q] = tree[q]
  BY DEF Exists, Bind
<1>2. IsTree(tree) /\ Len(p) > 1 /\ Front(p) \in DOMAIN tree /\ tree[Front(p)] = Dir /\ p \notin DOMAIN tree
  BY DEF FilesInv, FilesTypeOK, CanCreate, IsDir, Exists
<1>3. IsTree(tree')
  BY <1>1, <1>2, AddEntry
<1> QED
  BY <1>1, <1>3

\* os.Rename.
LEMMA RenameParts ==
  ASSUME FilesInv, NEW a \in AnyPath, NEW b \in AnyPath, CanRename(a, b), tree' = Renamed(a, b)
  PROVE  /\ IsTree(tree') /\ TreeMoved(tree, tree', a, b) /\ a \in DOMAIN tree /\ ~ IsPrefix(a, b)
         /\ \A q \in DOMAIN tree : IsPrefix(b, q) => q = b
<1>1. IsTree(tree) /\ a \in DOMAIN tree /\ ~ IsPrefix(a, b)
  BY DEF FilesInv, FilesTypeOK, CanRename, Exists
<1>2. TreeMoved(tree, tree', a, b)
  BY <1>1, RenamedParts
<1>3. Len(b) > 1 /\ Front(b) \in DOMAIN tree /\ tree[Front(b)] = Dir
  BY DEF CanRename, CanCreate, IsDir, Exists
<1>4. b \in DOMAIN tree =>
           IF tree[a] = Dir
           THEN tree[b] = Dir /\ \A q \in DOMAIN tree : ~ (IsPrefix(b, q) /\ Len(q) = Len(b) + 1)
           ELSE tree[b] # Dir
  BY <1>1 DEF CanRename, IsDir, Exists, Children, Under
<1> QED
  BY <1>1, <1>2, <1>3, <1>4, MoveTree

LEMMA Advance ==
  ASSUME FilesInv, SettingsTypeOK', NEW r \in Requests, NEW q \in FileRequest, Serves(q), Set(r, q),
         IsTree(tree'), body' \in [Files -> Contents], ops' \in 0 .. MaxOps,
         taken' \subseteq Contents, overlapped' \in BOOLEAN
  PROVE  FilesInv'
<1>1. req' \in [Requests -> FileRequest] /\ \A s \in Requests : Serves(req'[s])
  BY SetParts
<1>2. IsTree(tree)'
  BY DEF IsTree
<1>3. \A s \in Requests : Serves(req[s])'
  BY <1>1 DEF Serves
<1> QED
  BY <1>1, <1>2, <1>3 DEF FilesInv, FilesTypeOK

LEMMA NamesInSeq ==
  ASSUME NEW p \in AnyPath
  PROVE  /\ <<p>> \in Seq(Seq(Names)) /\ Len(<<p>>) = 1 /\ <<p>>[1] = p
         /\ \A q \in AnyPath : <<p, q>> \in Seq(Seq(Names))
BY DEF AnyPath

\* A request that starts: it looks, and is there.
LEMMA StartTyped ==
  ASSUME FilesInv, SettingsTypeOK', NEW r \in Requests,
         \/ \E rel \in ClientPaths, name \in NewNames, op \in {"upload", "mkdir"} : StartNew(r, op, rel, name)
         \/ \E rel \in ClientPaths, name \in NewNames : StartRename(r, rel, name)
         \/ \E a, b \in ClientPaths, dest \in ClientPaths :
              StartMove(r, IF a = b THEN <<a>> ELSE <<a, b>>, dest)
         \/ \E a \in ClientPaths : StartDelete(r, <<a>>)
  PROVE  FilesInv'
<1>a. /\ FilesTypeOK /\ SettingsTypeOK /\ IsTree(tree) /\ body \in [Files -> Contents]
      /\ ops \in 0 .. MaxOps /\ taken \subseteq Contents /\ overlapped \in BOOLEAN /\ MaxOps \in Nat
  BY FilesAssumption DEF FilesInv, FilesTypeOK
<1>b. ASSUME Begin(r)
      PROVE  /\ IsTree(tree') /\ body' \in [Files -> Contents] /\ ops' \in 0 .. MaxOps
             /\ taken' \subseteq Contents /\ overlapped' \in BOOLEAN
  <2>1. tree' = tree /\ body' = body /\ taken' = taken /\ ops' = ops + 1 /\ ops < MaxOps
    BY <1>b DEF Begin
  <2>2. overlapped' \in BOOLEAN
    BY <1>b DEF Begin
  <2>3. ops' \in 0 .. MaxOps
    BY <1>a, <2>1
  <2>4. IsTree(tree')
    BY <1>a, <2>1
  <2> QED
    BY <1>a, <2>1, <2>2, <2>3, <2>4
<1>c. ClientPaths \subseteq AnyPath /\ NewNames \subseteq Names
  BY RootPath
<1>1. ASSUME NEW rel \in ClientPaths, NEW name \in NewNames, NEW op \in {"upload", "mkdir"},
             StartNew(r, op, rel, name)
      PROVE  FilesInv'
  <2> DEFINE to == Resolve(rel) \o <<name>>
             q == [NoRequest EXCEPT !.at = "named", !.op = op, !.to = to]
  <2>1. to \in AnyPath
    BY <1>a, <1>c, ResolveParts, ChildPath
  <2> HIDE DEF to
  <2>2. q \in FileRequest /\ Serves(q)
    BY <2>1, Resting DEF NoRequest, FileRequest, Serves, Taking, AnyPath
  <2>3. Set(r, q) /\ Begin(r)
    BY <1>1 DEF StartNew, to
  <2> HIDE DEF q
  <2> QED
    BY <1>b, <2>2, <2>3, Advance
<1>2. ASSUME NEW rel \in ClientPaths, NEW name \in NewNames, StartRename(r, rel, name) PROVE FilesInv'
  <2> DEFINE abs == Resolve(rel)
             target == Front(abs) \o <<name>>
             q == [NoRequest EXCEPT !.at = "renaming", !.op = "rename", !.from = abs, !.to = target]
  <2>1. abs \in AnyPath /\ abs # << >>
    BY <1>2, <1>a, <1>c, ResolveParts DEF StartRename, Nowhere
  <2>2. target \in AnyPath
    <3>1. Len(abs) > 0
      BY <2>1, PathLen
    <3>2. Front(abs) \in AnyPath
      BY <2>1, <3>1, FrontPath
    <3> QED
      BY <1>c, <3>2, ChildPath
  <2>3. Set(r, q) /\ Begin(r)
    BY <1>2 DEF StartRename
  <2> HIDE DEF abs, target
  <2>4. q \in FileRequest /\ Serves(q)
    BY <2>1, <2>2, Resting DEF NoRequest, FileRequest, Serves, Taking, AnyPath
  <2> HIDE DEF q
  <2> QED
    BY <1>b, <2>3, <2>4, Advance
<1>3. ASSUME NEW a \in ClientPaths, NEW b \in ClientPaths, NEW dest \in ClientPaths,
             StartMove(r, IF a = b THEN <<a>> ELSE <<a, b>>, dest)
      PROVE  FilesInv'
  <2> DEFINE rels == IF a = b THEN <<a>> ELSE <<a, b>>
             to == Resolve(dest)
             q == [NoRequest EXCEPT !.at = "next", !.op = "move", !.rels = rels, !.to = to]
  <2>1. to \in AnyPath /\ rels \in Seq(Seq(Names))
    BY <1>a, <1>c, ResolveParts, NamesInSeq
  <2>2. Set(r, q) /\ Begin(r)
    BY <1>3 DEF StartMove
  <2> HIDE DEF rels, to
  <2>3. q \in FileRequest /\ Serves(q)
    BY <2>1, Resting DEF NoRequest, FileRequest, Serves, Taking, AnyPath
  <2> HIDE DEF q
  <2> QED
    BY <1>b, <2>2, <2>3, Advance
<1>4. ASSUME NEW a \in ClientPaths, StartDelete(r, <<a>>) PROVE FilesInv'
  <2> DEFINE rels == <<a>>
             q == [NoRequest EXCEPT !.at = "next", !.op = "delete", !.rels = rels]
  <2>1. rels \in Seq(Seq(Names))
    BY <1>c, NamesInSeq
  <2>2. Set(r, q) /\ Begin(r)
    BY <1>4 DEF StartDelete
  <2> HIDE DEF rels
  <2>3. q \in FileRequest /\ Serves(q)
    BY <2>1, Resting DEF NoRequest, FileRequest, Serves, Taking, AnyPath
  <2> HIDE DEF q
  <2> QED
    BY <1>b, <2>2, <2>3, Advance
<1> QED
  BY <1>1, <1>2, <1>3, <1>4

LEMMA Unmoved ==
  ASSUME FilesInv, UNCHANGED <<tree, body, ops, taken, overlapped>>
  PROVE  /\ IsTree(tree') /\ body' \in [Files -> Contents] /\ ops' \in 0 .. MaxOps
         /\ taken' \subseteq Contents /\ overlapped' \in BOOLEAN
<1>1. IsTree(tree) /\ body \in [Files -> Contents] /\ ops \in 0 .. MaxOps
      /\ taken \subseteq Contents /\ overlapped \in BOOLEAN
  BY DEF FilesInv, FilesTypeOK
<1>2. IsTree(tree')
  BY <1>1, Zenon
<1> QED
  BY <1>1, <1>2

\* Uploads and new directories.
LEMMA NewTyped ==
  ASSUME FilesInv, SettingsTypeOK', NEW r \in Requests,
         NameNew(r) \/ OpenUpload(r) \/ Receive(r) \/ StatNewDir(r) \/ MakeDir(r)
  PROVE  FilesInv'
<1>a. /\ SettingsTypeOK /\ IsTree(tree) /\ body \in [Files -> Contents]
      /\ ops \in 0 .. MaxOps /\ taken \subseteq Contents /\ overlapped \in BOOLEAN
  BY DEF FilesInv, FilesTypeOK
<1>b. /\ req[r] \in FileRequest /\ Serves(req[r]) /\ req[r].from \in AnyPath /\ req[r].to \in AnyPath
      /\ req[r].at = "resolving" => req[r].rels[1] \in AnyPath
  BY RequestParts
<1> DEFINE dst == Resolve(req[r].rels[1])
<1>c. req[r].at = "resolving" => dst \in AnyPath
  BY <1>a, <1>b, ResolveParts
<1>1. CASE NameNew(r)
  <2> DEFINE rels == <<RelPath(req[r].to)>>
             q == [req[r] EXCEPT !.at = "resolving", !.rels = rels]
  <2>1. rels \in Seq(Seq(Names)) /\ Len(rels) = 1
    BY <1>a, <1>b, RelPathParts, NamesInSeq
  <2>2. Set(r, q)
    BY <1>1 DEF NameNew
  <2> HIDE DEF rels
  <2>3. q \in FileRequest /\ Serves(q)
    BY <1>b, <2>1 DEF FileRequest, Serves, Taking
  <2> HIDE DEF q
  <2> QED
    BY <1>1, <2>2, <2>3, Unmoved, Advance DEF NameNew, Look
<1>2. CASE OpenUpload(r)
  <2>0. req[r].at = "resolving" /\ dst \in AnyPath /\ UNCHANGED <<ops, overlapped>>
    BY <1>2, <1>c DEF OpenUpload
  <2>1. ASSUME NEW f \in Files, Create(dst, f),
               Set(r, [req[r] EXCEPT !.at = "receiving", !.from = dst, !.writes = f]),
               taken' = taken \cup (IF Exists(dst) THEN {body[f]} ELSE {})
        PROVE  FilesInv'
    <3> DEFINE q == [req[r] EXCEPT !.at = "receiving", !.from = dst, !.writes = f]
    <3>1. IsTree(tree') /\ body' \in [Files -> Contents]
      BY <2>0, <2>1, CreateParts
    <3>2. taken' \subseteq Contents
      BY <1>a, <2>1
    <3>f. MaxFiles \in Nat /\ f \in 0 .. MaxFiles
      BY FilesAssumption DEF Files
    <3>3. q \in FileRequest
      BY <1>b, <2>0, <3>f DEF FileRequest, AnyPath
    <3>5. q.at = "receiving" /\ q.writes = f
      BY <1>b DEF FileRequest
    <3>6. Serves(q)
      BY <3>5 DEF Serves, Taking
    <3> HIDE DEF q
    <3>4. Set(r, q)
      BY <2>1 DEF q
    <3> QED
      BY <1>a, <2>0, <3>1, <3>2, <3>3, <3>6, <3>4, Advance
  <2>2. CASE Done(r) /\ UNCHANGED <<tree, body, taken>>
    <3>1. Set(r, NoRequest)
      BY <2>2 DEF Done
    <3> QED
      BY <2>0, <2>2, <3>1, Resting, Unmoved, Advance
  <2> QED
    BY <1>2, <2>1, <2>2 DEF OpenUpload
<1>3. CASE Receive(r)
  <2>1. Set(r, NoRequest) /\ UNCHANGED <<tree, ops, taken, overlapped>>
    BY <1>3 DEF Receive, Done
  <2>2. body' \in [Files -> Contents]
    BY <1>3, <1>a DEF Receive, Contents
  <2>3. IsTree(tree')
    BY <1>a, <2>1, Zenon
  <2> QED
    BY <1>a, <2>1, <2>2, <2>3, Resting, Advance
<1>4. CASE StatNewDir(r)
  <2>1. UNCHANGED <<tree, body, ops, taken, overlapped>>
    BY <1>4 DEF StatNewDir, Look
  <2>2. CASE Set(r, NoRequest)
    BY <2>1, <2>2, Resting, Unmoved, Advance
  <2>3. CASE Set(r, [req[r] EXCEPT !.at = "making", !.to = dst])
    <3>1. dst \in AnyPath
      BY <1>4, <1>c DEF StatNewDir
    <3> HIDE DEF dst
    <3> DEFINE q == [req[r] EXCEPT !.at = "making", !.to = dst]
    <3>2. q \in FileRequest /\ Serves(q)
      BY <1>b, <3>1 DEF FileRequest, Serves, Taking, AnyPath
    <3>3. Set(r, q)
      BY <2>3
    <3> HIDE DEF q
    <3> QED
      BY <2>1, <3>2, <3>3, Unmoved, Advance
  <2> QED
    BY <1>4, <2>2, <2>3 DEF StatNewDir, Done
<1>5. CASE MakeDir(r)
  <2>1. Set(r, NoRequest) /\ UNCHANGED <<body, ops, taken, overlapped>>
    BY <1>5 DEF MakeDir, Done
  <2>2. IsTree(tree')
    <3>1. CASE CanCreate(req[r].to) /\ ~ Exists(req[r].to) /\ tree' = Bind(req[r].to, Dir)
      BY <1>b, <3>1, MkdirParts
    <3>2. CASE tree' = tree
      BY <1>a, <3>2, Zenon
    <3> QED
      BY <1>5, <3>1, <3>2 DEF MakeDir
  <2> QED
    BY <1>a, <2>1, <2>2, Resting, Advance
<1> QED
  BY <1>1, <1>2, <1>3, <1>4, <1>5

LEMMA TwinPath ==
  ASSUME FilesInv, NEW r \in Requests, req[r].at \in {"copying", "copying file", "removing"},
         NEW p \in AnyPath, IsPrefix(req[r].from, p)
  PROVE  /\ Twin(r, p) = Swap(req[r].from, Target(r), p)
         /\ Twin(r, p) \in AnyPath /\ IsPrefix(Target(r), Twin(r, p))
BY RequestParts, Swapped DEF Twin, Swap, Taking

\* Renames, and the sources of moves and deletes.
LEMMA SourceTyped ==
  ASSUME FilesInv, SettingsTypeOK', NEW r \in Requests,
         DoRename(r) \/ NextSource(r) \/ MoveSource(r) \/ CopyFile(r) \/ Copied(r) \/ Removed(r)
  PROVE  FilesInv'
<1>a. /\ SettingsTypeOK /\ IsTree(tree) /\ body \in [Files -> Contents]
      /\ ops \in 0 .. MaxOps /\ taken \subseteq Contents /\ overlapped \in BOOLEAN
  BY DEF FilesInv, FilesTypeOK
<1>b. req[r] \in FileRequest /\ Serves(req[r]) /\ req[r].from \in AnyPath /\ req[r].to \in AnyPath
  BY RequestParts
<1>1. CASE DoRename(r)
  <2>1. Set(r, NoRequest) /\ UNCHANGED <<body, ops, taken, overlapped>>
    BY <1>1 DEF DoRename, Done
  <2>2. IsTree(tree')
    <3>1. CASE CanRename(req[r].from, req[r].to) /\ tree' = Renamed(req[r].from, req[r].to)
      BY <1>b, <3>1, RenameParts
    <3>2. CASE tree' = tree
      BY <1>a, <3>2, Zenon
    <3> QED
      BY <1>1, <3>1, <3>2 DEF DoRename
  <2> QED
    BY <1>a, <2>1, <2>2, Resting, Advance
<1>2. CASE NextSource(r)
  <2>1. UNCHANGED <<tree, body, ops, taken, overlapped>> /\ req[r].at = "next"
    BY <1>2 DEF NextSource, Look
  <2>2. CASE Set(r, NoRequest)
    BY <2>1, <2>2, Resting, Unmoved, Advance
  <2>3. ASSUME req[r].rels # << >>, Resolve(Head(req[r].rels)) # Nowhere
        PROVE  LET rest == [req[r] EXCEPT !.rels = Tail(req[r].rels), !.from = Resolve(Head(req[r].rels))]
               IN /\ rest \in FileRequest /\ Serves(rest)
                  /\ req[r].op = "delete" =>
                       [rest EXCEPT !.at = "removing"] \in FileRequest /\ Serves([rest EXCEPT !.at = "removing"])
                  /\ req[r].op # "delete" =>
                       [rest EXCEPT !.at = "moving"] \in FileRequest /\ Serves([rest EXCEPT !.at = "moving"])
    <3> DEFINE abs == Resolve(Head(req[r].rels))
               rels == Tail(req[r].rels)
    <3>1. rels \in Seq(Seq(Names)) /\ Head(req[r].rels) \in AnyPath
      BY <2>3, RequestParts
    <3>2. abs \in AnyPath /\ abs # << >>
      BY <1>a, <2>3, <3>1, ResolveParts DEF Nowhere
    <3> HIDE DEF abs, rels
    <3> DEFINE rest == [req[r] EXCEPT !.rels = rels, !.from = abs]
    <3>3. rest \in FileRequest /\ Serves(rest)
      BY <1>b, <2>1, <3>1, <3>2 DEF FileRequest, Serves, Taking, AnyPath
    <3>4. rest.op = req[r].op /\ rest.from = abs /\ rest.at = "next"
      BY <1>b, <2>1 DEF FileRequest
    <3> HIDE DEF rest
    <3>5. ASSUME req[r].op = "delete"
          PROVE  [rest EXCEPT !.at = "removing"] \in FileRequest /\ Serves([rest EXCEPT !.at = "removing"])
      BY <3>2, <3>3, <3>4, <3>5 DEF FileRequest, Serves, Taking
    <3>6. ASSUME req[r].op # "delete"
          PROVE  [rest EXCEPT !.at = "moving"] \in FileRequest /\ Serves([rest EXCEPT !.at = "moving"])
      BY <2>1, <1>b, <3>2, <3>3, <3>4, <3>6 DEF FileRequest, Serves, Taking
    <3> QED
      BY <3>3, <3>5, <3>6 DEF rest, abs, rels
  <2> DEFINE rest == [req[r] EXCEPT !.rels = Tail(req[r].rels), !.from = Resolve(Head(req[r].rels))]
             removing == [rest EXCEPT !.at = "removing"]
             moving == [rest EXCEPT !.at = "moving"]
  <2>4. \/ Set(r, NoRequest)
        \/ /\ req[r].rels # << >> /\ Resolve(Head(req[r].rels)) # Nowhere
           /\ \/ Set(r, rest)
              \/ req[r].op = "delete" /\ Set(r, removing)
              \/ req[r].op # "delete" /\ Set(r, moving)
    BY <1>2 DEF NextSource, Done
  <2>5. req[r].rels # << >> /\ Resolve(Head(req[r].rels)) # Nowhere =>
          /\ rest \in FileRequest /\ Serves(rest)
          /\ req[r].op = "delete" => removing \in FileRequest /\ Serves(removing)
          /\ req[r].op # "delete" => moving \in FileRequest /\ Serves(moving)
    BY <2>3
  <2> HIDE DEF rest, removing, moving
  <2> QED
    BY <2>1, <2>2, <2>4, <2>5, Unmoved, Advance
<1>3. CASE MoveSource(r)
  <2>1. UNCHANGED <<body, ops, taken, overlapped>> /\ req[r].at = "moving"
    BY <1>3 DEF MoveSource
  <2>2. Target(r) \in AnyPath
    BY <2>1, RequestParts DEF Taking
  <2>3. CASE CanRename(req[r].from, Target(r)) /\ tree' = Renamed(req[r].from, Target(r))
             /\ Set(r, [req[r] EXCEPT !.at = "next"])
    <3>1. IsTree(tree')
      BY <1>b, <2>2, <2>3, RenameParts
    <3> DEFINE q == [req[r] EXCEPT !.at = "next"]
    <3>2. q \in FileRequest /\ Serves(q)
      BY <1>b, <2>1 DEF FileRequest, Serves, Taking
    <3> HIDE DEF q
    <3>3. Set(r, q)
      BY <2>3 DEF q
    <3> QED
      BY <1>a, <2>1, <3>1, <3>2, <3>3, Advance
  <2>4. CASE tree' = tree /\ Set(r, [req[r] EXCEPT !.at = "copying", !.left = {req[r].from}])
    <3> DEFINE q == [req[r] EXCEPT !.at = "copying", !.left = {req[r].from}]
    <3>1. IsPrefix(req[r].from, req[r].from)
      BY <1>b, PrefixOrder
    <3>2. q \in FileRequest /\ Serves(q)
      BY <1>b, <2>1, <3>1 DEF FileRequest, Serves, Taking, AnyPath
    <3> HIDE DEF q
    <3>3. Set(r, q)
      BY <2>4 DEF q
    <3> QED
      BY <2>1, <2>4, <3>2, <3>3, Unmoved, Advance
  <2> QED
    BY <1>3, <2>3, <2>4 DEF MoveSource
<1>4. CASE CopyFile(r)
  <2>1. req[r].at = "copying file" /\ UNCHANGED <<tree, ops, taken, overlapped>>
    BY <1>4 DEF CopyFile
  <2>2. IsTree(tree')
    BY <1>a, <2>1, Zenon
  <2>3. CASE body' = [body EXCEPT ![req[r].writes] = body[req[r].reads]]
             /\ Set(r, [req[r] EXCEPT !.at = "copying", !.reads = 0, !.writes = 0])
    <3> DEFINE q == [req[r] EXCEPT !.at = "copying", !.reads = 0, !.writes = 0]
    <3>1. body' \in [Files -> Contents]
      BY <1>a, <1>b, <2>1, <2>3 DEF Serves
    <3>f. 0 \in 0 .. MaxFiles
      BY FilesAssumption
    <3>2. q \in FileRequest /\ Serves(q)
      BY <1>b, <2>1, <3>f DEF FileRequest, Serves, Taking
    <3> HIDE DEF q
    <3>3. Set(r, q)
      BY <2>3 DEF q
    <3> QED
      BY <1>a, <2>1, <2>2, <3>1, <3>2, <3>3, Advance
  <2>4. CASE Set(r, NoRequest) /\ body' = body
    BY <2>1, <2>4, Resting, Unmoved, Advance
  <2> QED
    BY <1>4, <2>3, <2>4 DEF CopyFile, Done
<1>5. CASE Copied(r)
  <2> DEFINE q == [req[r] EXCEPT !.at = "removing"]
  <2>1. q \in FileRequest /\ Serves(q)
    BY <1>b, <1>5 DEF FileRequest, Serves, Taking, Copied
  <2>2. Set(r, q)
    BY <1>5 DEF Copied
  <2> HIDE DEF q
  <2> QED
    BY <1>5, <2>1, <2>2, Unmoved, Advance DEF Copied, Look
<1>6. CASE Removed(r)
  <2> DEFINE q == [req[r] EXCEPT !.at = "next"]
  <2>1. q \in FileRequest /\ Serves(q)
    BY <1>b, <1>6 DEF FileRequest, Serves, Taking, Removed
  <2>2. Set(r, q)
    BY <1>6 DEF Removed
  <2> HIDE DEF q
  <2> QED
    BY <1>6, <2>1, <2>2, Unmoved, Advance DEF Removed, Look
<1> QED
  BY <1>1, <1>2, <1>3, <1>4, <1>5, <1>6


\* What one entry of a copy does: a directory, a file that is begun, or nothing.
LEMMA CopyParts ==
  ASSUME FilesInv, NEW r \in Requests, NEW p, CopyEntry(r, p)
  PROVE  LET dst == Twin(r, p)
             others == req[r].left \ {p}
         IN /\ req[r].at = "copying" /\ p \in req[r].left /\ p \in AnyPath
            /\ IsPrefix(req[r].from, p) /\ dst \in AnyPath
            /\ UNCHANGED <<settingsVars, ops, taken, overlapped>>
            /\ IsTree(tree') /\ body' \in [Files -> Contents]
            /\ \/ /\ IsDir(p)
                  /\ dst \in DOMAIN tree => tree[dst] = Dir
                  /\ DOMAIN tree' = DOMAIN tree \cup {dst} /\ tree'[dst] = Dir
                  /\ \A q \in DOMAIN tree : tree'[q] = tree[q]
                  /\ body' = body
                  /\ Set(r, [req[r] EXCEPT !.left = others \cup Children(p)])
               \/ /\ Exists(p) /\ ~ IsDir(p) /\ ~ IsDir(dst)
                  /\ \E f \in Files :
                       /\ Create(dst, f)
                       /\ Set(r, [req[r] EXCEPT !.at = "copying file", !.left = others,
                                                !.reads = tree[p], !.writes = f])
               \/ /\ \/ ~ Exists(p)
                     \/ ~ IsDir(dst) /\ (~ CanCreate(dst) \/ (IsDir(p) /\ Exists(dst)))
                     \/ ~ IsDir(p) /\ IsDir(dst)
                  /\ Set(r, NoRequest) /\ UNCHANGED <<tree, body>>
<1> DEFINE dst == Twin(r, p)
           others == req[r].left \ {p}
<1>1. req[r].at = "copying" /\ p \in req[r].left /\ UNCHANGED <<settingsVars, ops, taken, overlapped>>
  BY DEF CopyEntry
<1>2. p \in AnyPath /\ IsPrefix(req[r].from, p)
  BY <1>1, RequestParts DEF Serves
<1>3. dst \in AnyPath
  BY <1>1, <1>2, TwinPath
<1>a. IsTree(tree) /\ body \in [Files -> Contents]
  BY DEF FilesInv, FilesTypeOK
<1> HIDE DEF dst
<1>4. \/ /\ IsDir(p) /\ (IsDir(dst) \/ (CanCreate(dst) /\ ~ Exists(dst)))
         /\ tree' = Bind(dst, Dir) /\ UNCHANGED body
         /\ Set(r, [req[r] EXCEPT !.left = others \cup Children(p)])
      \/ /\ Exists(p) /\ ~ IsDir(p) /\ CanCreate(dst) /\ ~ IsDir(dst)
         /\ \E f \in Files :
              /\ Create(dst, f)
              /\ Set(r, [req[r] EXCEPT !.at = "copying file", !.left = others,
                                       !.reads = tree[p], !.writes = f])
      \/ /\ \/ ~ Exists(p)
            \/ ~ IsDir(dst) /\ (~ CanCreate(dst) \/ (IsDir(p) /\ Exists(dst)))
            \/ ~ IsDir(p) /\ IsDir(dst)
         /\ Set(r, NoRequest) /\ UNCHANGED <<tree, body>>
  BY DEF CopyEntry, Done, dst
<1>5. CASE /\ IsDir(p) /\ (IsDir(dst) \/ (CanCreate(dst) /\ ~ Exists(dst)))
           /\ tree' = Bind(dst, Dir) /\ UNCHANGED body
           /\ Set(r, [req[r] EXCEPT !.left = others \cup Children(p)])
  <2>1. /\ DOMAIN tree' = DOMAIN tree \cup {dst} /\ tree'[dst] = Dir
        /\ \A q \in DOMAIN tree : q # dst => tree'[q] = tree[q]
    <3>1. tree' = Bind(dst, Dir)
      BY <1>5
    <3>2. /\ DOMAIN Bind(dst, Dir) = DOMAIN tree \cup {dst} /\ Bind(dst, Dir)[dst] = Dir
          /\ \A q \in DOMAIN tree : q # dst => Bind(dst, Dir)[q] = tree[q]
      BY DEF Bind
    <3> QED
      BY ONLY <3>1, <3>2
  <2>2. dst \in DOMAIN tree => tree[dst] = Dir
    BY <1>5 DEF IsDir, Exists
  <2>3. \A q \in DOMAIN tree : tree'[q] = tree[q]
    BY <2>1, <2>2
  <2>4. IsTree(tree')
    <3>1. CASE dst \in DOMAIN tree
      <4>1. DOMAIN tree' = DOMAIN tree
        BY <2>1, <3>1
      <4> QED
        BY <1>a, <4>1, <2>3 DEF IsTree
    <3>2. CASE dst \notin DOMAIN tree
      BY <1>3, <1>5, <3>2, MkdirParts DEF Exists, IsDir
    <3> QED
      BY <3>1, <3>2
  <2> QED
    BY <1>1, <1>2, <1>3, <1>a, <1>5, <2>1, <2>2, <2>3, <2>4 DEF dst
<1>6. CASE /\ Exists(p) /\ ~ IsDir(p) /\ CanCreate(dst) /\ ~ IsDir(dst)
           /\ \E f \in Files :
                /\ Create(dst, f)
                /\ Set(r, [req[r] EXCEPT !.at = "copying file", !.left = others,
                                         !.reads = tree[p], !.writes = f])
  <2>1. IsTree(tree') /\ body' \in [Files -> Contents]
    BY <1>3, <1>6, CreateParts
  <2> QED
    BY <1>1, <1>2, <1>3, <1>6, <2>1 DEF dst
<1>7. CASE /\ \/ ~ Exists(p)
              \/ ~ IsDir(dst) /\ (~ CanCreate(dst) \/ (IsDir(p) /\ Exists(dst)))
              \/ ~ IsDir(p) /\ IsDir(dst)
           /\ Set(r, NoRequest) /\ UNCHANGED <<tree, body>>
  <2>1. tree' = tree /\ body' = body
    BY <1>7
  <2>2. IsTree(tree')
    BY <1>a, <2>1, Zenon
  <2> QED
    BY <1>1, <1>2, <1>3, <1>a, <1>7, <2>1, <2>2 DEF dst
<1> QED
  BY <1>4, <1>5, <1>6, <1>7

LEMMA CopyTyped ==
  ASSUME FilesInv, SettingsTypeOK', NEW r \in Requests, NEW p, CopyEntry(r, p)
  PROVE  FilesInv'
<1> DEFINE others == req[r].left \ {p}
<1>a. /\ ops \in 0 .. MaxOps /\ taken \subseteq Contents /\ overlapped \in BOOLEAN
  BY DEF FilesInv, FilesTypeOK
<1>b. /\ req[r] \in FileRequest /\ Serves(req[r]) /\ req[r].left \subseteq AnyPath
      /\ req[r].from \in AnyPath
  BY RequestParts
<1>0. /\ req[r].at = "copying" /\ p \in req[r].left /\ p \in AnyPath
      /\ IsPrefix(req[r].from, p)
      /\ UNCHANGED <<ops, taken, overlapped>>
      /\ IsTree(tree') /\ body' \in [Files -> Contents]
  BY CopyParts
<1>1. \/ IsDir(p) /\ Set(r, [req[r] EXCEPT !.left = others \cup Children(p)])
      \/ Exists(p) /\ ~ IsDir(p)
         /\ \E f \in Files : Set(r, [req[r] EXCEPT !.at = "copying file", !.left = others,
                                                   !.reads = tree[p], !.writes = f])
      \/ Set(r, NoRequest)
  BY Zenon DEF CopyEntry, Done
<1>2. CASE IsDir(p) /\ Set(r, [req[r] EXCEPT !.left = others \cup Children(p)])
  <2> DEFINE new == others \cup Children(p)
             q == [req[r] EXCEPT !.left = new]
  <2>1. new \subseteq AnyPath
    BY <1>b DEF Children, Under, FilesInv, FilesTypeOK, IsTree, AnyPath
  <2>2. ASSUME NEW s \in new PROVE IsPrefix(req[r].from, s)
    <3>1. CASE s \in others
      BY <1>0, <1>b, <3>1 DEF Serves
    <3>2. CASE s \in Children(p)
      <4>1. IsPrefix(p, s) /\ s \in AnyPath
        BY <2>1, <3>2 DEF Children, Under
      <4> QED
        BY <1>0, <1>b, <4>1, PrefixOrder
    <3> QED
      BY <3>1, <3>2
  <2> HIDE DEF new
  <2>3. q \in FileRequest
    BY <1>b, <2>1 DEF FileRequest, AnyPath
  <2>4. q.at = "copying" /\ q.left = new /\ q.from = req[r].from /\ q.op = req[r].op
    BY <1>0, <1>b DEF FileRequest
  <2>5. Set(r, q)
    BY <1>2 DEF new
  <2> HIDE DEF q
  <2>6. Serves(q)
    BY <1>0, <1>b, <2>2, <2>4 DEF Serves, Taking
  <2> QED
    BY <1>0, <1>a, <2>3, <2>5, <2>6, Advance
<1>3. ASSUME NEW f \in Files, Exists(p), ~ IsDir(p),
             Set(r, [req[r] EXCEPT !.at = "copying file", !.left = others,
                                   !.reads = tree[p], !.writes = f])
      PROVE  FilesInv'
  <2> DEFINE q == [req[r] EXCEPT !.at = "copying file", !.left = others,
                                 !.reads = tree[p], !.writes = f]
  <2>1. tree[p] \in Files
    BY <1>3 DEF Exists, IsDir, FilesInv, FilesTypeOK, IsTree
  <2>2. f \in 0 .. MaxFiles /\ tree[p] \in 0 .. MaxFiles
    BY <2>1, FilesAssumption DEF Files
  <2>3. q \in FileRequest
    BY <1>b, <2>2 DEF FileRequest, AnyPath
  <2>4. /\ q.at = "copying file" /\ q.left = others /\ q.from = req[r].from /\ q.op = req[r].op
        /\ q.writes = f /\ q.reads = tree[p]
    BY <1>b DEF FileRequest
  <2>5. Set(r, q)
    BY <1>3
  <2> HIDE DEF q
  <2>6. Serves(q)
    BY <1>0, <1>b, <2>1, <2>4 DEF Serves, Taking
  <2> QED
    BY <1>0, <1>a, <2>3, <2>5, <2>6, Advance
<1>4. CASE Set(r, NoRequest)
  BY <1>0, <1>a, <1>4, Resting, Advance
<1> HIDE DEF others
<1> QED
  BY <1>1, <1>2, <1>3, <1>4 DEF others

\* An entry that is removed has no entries below it.
LEMMA RemoveParts ==
  ASSUME FilesInv, NEW r \in Requests, NEW p, RemoveEntry(r, p)
  PROVE  /\ req[r].at = "removing" /\ p \in DOMAIN tree /\ p \in AnyPath
         /\ IsPrefix(req[r].from, p) /\ UNCHANGED <<body, ops, overlapped>>
         /\ IsTree(tree') /\ taken' \subseteq Contents
         /\ \/ /\ DOMAIN tree' = DOMAIN tree \ {p} /\ \A q \in DOMAIN tree' : tree'[q] = tree[q]
               /\ \A q \in DOMAIN tree : IsPrefix(p, q) => q = p
               /\ taken' = taken \cup (IF req[r].op = "delete" /\ ~ IsDir(p) THEN {body[tree[p]]} ELSE {})
               /\ UNCHANGED <<settingsVars, req>>
            \/ Disturb /\ Set(r, NoRequest) /\ UNCHANGED <<tree, taken>>
<1>a. IsTree(tree) /\ body \in [Files -> Contents] /\ taken \subseteq Contents
  BY DEF FilesInv, FilesTypeOK
<1>1. /\ req[r].at = "removing" /\ p \in DOMAIN tree /\ IsPrefix(req[r].from, p)
      /\ \A q \in DOMAIN tree : ~ (IsPrefix(p, q) /\ Len(q) = Len(p) + 1)
      /\ UNCHANGED <<body, ops, overlapped>>
  BY DEF RemoveEntry, Under, Children
<1>2. p \in AnyPath /\ tree[p] \in Files \cup {Dir}
  BY <1>1, <1>a DEF IsTree, AnyPath
<1>3. CASE /\ tree' = [q \in DOMAIN tree \ {p} |-> tree[q]]
           /\ taken' = taken \cup (IF req[r].op = "delete" /\ ~ IsDir(p) THEN {body[tree[p]]} ELSE {})
           /\ UNCHANGED <<settingsVars, req>>
  <2>1. DOMAIN tree' = DOMAIN tree \ {p} /\ \A q \in DOMAIN tree' : tree'[q] = tree[q]
    BY <1>3
  <2>2. IsTree(tree') /\ \A q \in DOMAIN tree : IsPrefix(p, q) => q = p
    BY <1>a, <1>1, <2>1, RemoveLeaf
  <2>3. ~ IsDir(p) => body[tree[p]] \in Contents
    BY <1>a, <1>1, <1>2 DEF IsDir, Exists
  <2>4. taken' \subseteq Contents
    BY <1>a, <1>3, <2>3
  <2> QED
    BY <1>1, <1>2, <1>3, <2>1, <2>2, <2>4
<1>4. CASE Disturb /\ Set(r, NoRequest) /\ UNCHANGED <<tree, taken>>
  <2>1. IsTree(tree')
    BY <1>a, <1>4, Zenon
  <2> QED
    BY <1>1, <1>2, <1>a, <1>4, <2>1
<1> QED
  BY <1>3, <1>4 DEF RemoveEntry, Done

LEMMA RemoveTyped ==
  ASSUME FilesInv, SettingsTypeOK', NEW r \in Requests, NEW p, RemoveEntry(r, p)
  PROVE  FilesInv'
<1>a. /\ body \in [Files -> Contents] /\ ops \in 0 .. MaxOps /\ overlapped \in BOOLEAN
      /\ req \in [Requests -> FileRequest]
  BY DEF FilesInv, FilesTypeOK
<1>1. /\ UNCHANGED <<body, ops, overlapped>> /\ IsTree(tree') /\ taken' \subseteq Contents
      /\ UNCHANGED req \/ Set(r, NoRequest)
  BY RemoveParts
<1>2. CASE UNCHANGED req
  BY <1>a, <1>1, <1>2 DEF FilesInv, FilesTypeOK, IsTree, Serves
<1>3. CASE Set(r, NoRequest)
  BY <1>a, <1>1, <1>3, Resting, Advance
<1> QED
  BY <1>1, <1>2, <1>3

LEMMA FilesInvNext == FilesInv /\ [ServerNext]_serverVars => FilesInv'
<1> SUFFICES ASSUME FilesInv, [ServerNext]_serverVars PROVE FilesInv'
  OBVIOUS
<1>0. SettingsTypeOK'
  BY SettingsStayTyped DEF FilesInv, FilesTypeOK
<1>a. /\ IsTree(tree) /\ body \in [Files -> Contents] /\ ops \in 0 .. MaxOps
      /\ req \in [Requests -> FileRequest] /\ taken \subseteq Contents /\ overlapped \in BOOLEAN
  BY DEF FilesInv, FilesTypeOK
<1>1. ASSUME NEW r \in Requests, FileStep(r) PROVE FilesInv'
  <2>1. CASE \E p \in DOMAIN tree \cup req[r].left : CopyEntry(r, p) \/ RemoveEntry(r, p)
    BY <1>0, <2>1, CopyTyped, RemoveTyped
  <2> QED
    BY <1>0, <1>1, <2>1, StartTyped, NewTyped, SourceTyped DEF FileStep
<1>2. CASE UNCHANGED <<tree, body, req, ops, taken>> /\ overlapped' \in BOOLEAN
  <2>1. IsTree(tree')
    BY <1>a, <1>2, Zenon
  <2> QED
    BY <1>0, <1>a, <1>2, <2>1 DEF FilesInv, FilesTypeOK, Serves
<1>3. CASE Restart /\ req' = [r \in Requests |-> NoRequest] /\ UNCHANGED <<tree, body, ops, taken, overlapped>>
  <2>1. IsTree(tree')
    BY <1>a, <1>3, Zenon
  <2>2. req' \in [Requests -> FileRequest] /\ \A r \in Requests : Serves(req'[r])
    BY <1>3, Resting
  <2> QED
    BY <1>0, <1>a, <1>3, <2>1, <2>2 DEF FilesInv, FilesTypeOK, Serves
<1> QED
  BY <1>a, <1>1, <1>2, <1>3 DEF ServerNext, serverVars, filesVars

LEMMA FilesInvariant == ServerSpec => []FilesInv
BY FilesInvInit, FilesInvNext, PTL DEF ServerSpec

\* internal/files: the file system stays a tree whose files have one name each, and every
\* request in flight works on paths and files that exist in the model, whatever the requests,
\* the share lists and the first file system are.
THEOREM FilesTypeCorrect == ServerSpec => []FilesTypeOK
BY FilesInvariant, PTL DEF FilesInv

\* handlers.go List, service.go relPath and resolve: the paths that a listing shows lead back
\* to exactly the entries that it lists, for every share list and every file system.
THEOREM ListingsLeadBack == ServerSpec => []ListedPathsResolve
<1>1. FilesInv => ListedPathsResolve
  BY ListingsResolve DEF FilesInv, FilesTypeOK
<1> QED
  BY <1>1, FilesInvariant, PTL


----------------------------------------------------------------------------
(* One request at a time                                                   *)

\* Until requests overlap, one is in flight at most, and none serves files and settings at once.
LoneInv ==
  /\ raced => overlapped
  /\ \A r \in Requests : writer[r].at = "idle" \/ req[r].at = "idle"
  /\ ~ overlapped => \A r, s \in Busy : r = s

\* A file request begins while no other is in flight, or goes on with what it has.
LEMMA FileStepFrame ==
  ASSUME NEW r \in Requests, FileStep(r)
  PROVE  /\ UNCHANGED <<onFile, onTmp, stored, live, writer, restarts, raced>>
         /\ \/ req[r].at = "idle" /\ writer[r].at = "idle" /\ overlapped' = (overlapped \/ Busy # {})
            \/ req[r].at # "idle" /\ UNCHANGED overlapped
         /\ UNCHANGED req \/ \E q : Set(r, q)
<1>1. CASE \/ \E rel \in ClientPaths, name \in NewNames, op \in {"upload", "mkdir"} : StartNew(r, op, rel, name)
           \/ \E rel \in ClientPaths, name \in NewNames : StartRename(r, rel, name)
           \/ \E a, b \in ClientPaths, dest \in ClientPaths :
                StartMove(r, IF a = b THEN <<a>> ELSE <<a, b>>, dest)
           \/ \E a \in ClientPaths : StartDelete(r, <<a>>)
  BY <1>1 DEF StartNew, StartRename, StartMove, StartDelete, Begin, settingsVars, disk, memory,
              settingsBounds
<1>2. CASE NameNew(r) \/ OpenUpload(r) \/ Receive(r) \/ StatNewDir(r) \/ MakeDir(r) \/ DoRename(r)
  BY <1>2 DEF NameNew, OpenUpload, Receive, StatNewDir, MakeDir, DoRename, Look, Done, Disturb,
              settingsVars, disk, memory, settingsBounds
<1>3. CASE NextSource(r) \/ MoveSource(r) \/ CopyFile(r) \/ Copied(r) \/ Removed(r)
  BY <1>3 DEF NextSource, MoveSource, CopyFile, Copied, Removed, Look, Done, Disturb,
              settingsVars, disk, memory, settingsBounds
<1>4. ASSUME NEW p, CopyEntry(r, p) \/ RemoveEntry(r, p)
      PROVE  /\ UNCHANGED <<onFile, onTmp, stored, live, writer, restarts, raced>>
             /\ req[r].at # "idle" /\ UNCHANGED overlapped
             /\ UNCHANGED req \/ \E q : Set(r, q)
  BY <1>4 DEF CopyEntry, RemoveEntry, Done, Disturb, settingsVars, disk, memory, settingsBounds
<1> QED
  BY <1>1, <1>2, <1>3, <1>4 DEF FileStep

LEMMA OthersStay ==
  ASSUME FilesInv, NEW r \in Requests, UNCHANGED req \/ \E q : Set(r, q)
  PROVE  \A s \in Requests \ {r} : req'[s] = req[s]
BY DEF FilesInv, FilesTypeOK, Set

\* A request of the settings ends, or goes on; no other begins.
LEMMA WriteStepFrame ==
  ASSUME SettingsTypeOK, NEW r \in Requests, WriteStep(r)
  PROVE  /\ writer[r].at # "idle" /\ UNCHANGED <<raced, restarts>>
         /\ \A s \in Requests : writer[s].at = "idle" => writer'[s].at = "idle"
<1>t. writer \in [Requests -> Write] /\ NoWrite.at = "idle"
  BY DEF SettingsTypeOK, NoWrite
<1>1. CASE OpenTmp(r) \/ WriteTmp(r)
  BY <1>1, <1>t DEF OpenTmp, WriteTmp, Fail, At, settingsBounds
<1>2. CASE RenameTmp(r)
  <2>1. writer[r].at = "written" /\ UNCHANGED <<raced, restarts>>
    BY <1>2 DEF RenameTmp
  <2>2. CASE writer' = [q \in Requests |-> [Moved(writer[q]) EXCEPT
                          !.at = IF q = r THEN "renamed" ELSE writer[q].at]]
    <3>1. \A s \in Requests \ {r} : writer'[s].at = writer[s].at
      BY <2>2, <1>t DEF Moved, Write
    <3> QED
      BY <2>1, <3>1
  <2>3. CASE At(r, "cleaning")
    BY <1>t, <2>1, <2>3 DEF At
  <2> QED
    BY <1>2, <2>1, <2>2, <2>3 DEF RenameTmp
<1>3. CASE RemoveTmp(r)
  BY <1>3, <1>t DEF RemoveTmp, settingsBounds, Write
<1>4. CASE Remember(r)
  BY <1>4, <1>t DEF Remember, settingsBounds
<1>5. CASE ReadBack(r) \/ GoLive(r)
  BY <1>5, <1>t DEF ReadBack, GoLive, settingsBounds
<1> QED
  BY <1>1, <1>2, <1>3, <1>4, <1>5 DEF WriteStep

LEMMA LoneInvInit == ServerInit => LoneInv
BY DEF ServerInit, SettingsInit, FilesInit, LoneInv, Busy, Writing, NoWrite, NoRequest

LEMMA LoneInvNext == FilesInv /\ LoneInv /\ [ServerNext]_serverVars => LoneInv'
<1> SUFFICES ASSUME FilesInv, LoneInv, [ServerNext]_serverVars PROVE LoneInv'
  OBVIOUS
<1>t. /\ SettingsTypeOK /\ writer \in [Requests -> Write]
      /\ req \in [Requests -> FileRequest] /\ overlapped \in BOOLEAN /\ raced \in BOOLEAN
  BY DEF FilesInv, FilesTypeOK, SettingsTypeOK
<1>1. ASSUME NEW r \in Requests, FileStep(r) PROVE LoneInv'
  <2>1. \A s \in Requests \ {r} : req'[s] = req[s]
    BY <1>1, FileStepFrame, OthersStay
  <2>2. UNCHANGED <<writer, raced>>
    BY <1>1, FileStepFrame
  <2>3. CASE req[r].at = "idle" /\ writer[r].at = "idle" /\ overlapped' = (overlapped \/ Busy # {})
    BY <2>1, <2>2, <2>3 DEF LoneInv, Busy, Writing
  <2>4. CASE req[r].at # "idle" /\ UNCHANGED overlapped
    BY <2>1, <2>2, <2>4 DEF LoneInv, Busy, Writing
  <2> QED
    BY <1>1, <2>3, <2>4, FileStepFrame
<1>2. ASSUME NEW r \in Requests, Marshal(r), req[r].at = "idle",
             overlapped' = (overlapped \/ Busy # {}), UNCHANGED req
      PROVE  LoneInv'
  <2>1. raced' = (raced \/ Writing # {}) /\ \A s \in Requests \ {r} : writer'[s] = writer[s]
    BY <1>2, <1>t DEF Marshal
  <2> QED
    BY <1>2, <2>1 DEF LoneInv, Busy, Writing
<1>3. ASSUME NEW r \in Requests, WriteStep(r), UNCHANGED <<req, overlapped>> PROVE LoneInv'
  <2>1. /\ UNCHANGED raced
        /\ \A s \in Requests : writer[s].at = "idle" => writer'[s].at = "idle"
    BY <1>3, <1>t, WriteStepFrame
  <2> QED
    BY <1>3, <2>1 DEF LoneInv, Busy, Writing
<1>4. CASE Restart /\ req' = [r \in Requests |-> NoRequest] /\ UNCHANGED overlapped
  BY <1>4 DEF Restart, LoneInv, Busy, Writing, NoWrite, NoRequest
<1>5. CASE UNCHANGED serverVars
  BY <1>5 DEF LoneInv, Busy, Writing, serverVars, settingsVars, filesVars
<1> QED
  BY <1>1, <1>2, <1>3, <1>4, <1>5 DEF ServerNext, filesVars

LEMMA StoreStays ==
  ASSUME SettingsTypeOK, StoreInv, [ServerNext]_serverVars
  PROVE  StoreInv'
<1>1. CASE Disturb
  BY <1>1 DEF Disturb, disk, memory, StoreInv, Writing, Settled, Standing, Prepared, Load
<1> QED
  BY <1>1, StepOfSettings, StoreInvNext

\* Types, the lone request, and the store that a lone request leaves.
Sound == FilesInv /\ LoneInv /\ StoreInv

LEMMA SoundInvariant == ServerSpec => []Sound
<1>1. ServerInit => Sound
  BY FilesInvInit, LoneInvInit, StoreInvInit DEF Sound, ServerInit
<1>2. Sound /\ [ServerNext]_serverVars => Sound'
  BY FilesInvNext, LoneInvNext, StoreStays DEF Sound, FilesInv, FilesTypeOK
<1> QED
  BY <1>1, <1>2, PTL DEF ServerSpec

\* While a lone file request is in flight, no other is, and the settings are settled.
LEMMA Alone ==
  ASSUME Sound, ~ overlapped, NEW r \in Requests, req[r].at # "idle"
  PROVE  Writing = {} /\ (\A s \in Requests \ {r} : req[s].at = "idle") /\ Settled
BY DEF Sound, LoneInv, Busy, Writing, StoreInv


----------------------------------------------------------------------------
(* The directories of the shares                                           *)

\* Every share of a list has its directory, or lies in the directory of another share.
Stands(t, list) ==
  \A i \in DOMAIN list :
    \/ list[i].dir \in DOMAIN t /\ t[list[i].dir] = Dir
    \/ \E j \in DOMAIN list : j # i /\ IsPrefix(list[j].dir, list[i].dir)

\* A path inside a live share, and the directory of none.
Guarded(p) ==
  live = << >> \/ /\ \E j \in DOMAIN live : IsPrefix(live[j].dir, p)
                  /\ \A i \in DOMAIN live : live[i].dir # p

OuterInv ==
  ~ overlapped =>
    /\ Stands(tree, live) /\ Stands(tree, Load(onFile).shares)
    /\ \A r \in Writing : Stands(tree, writer[r].doc.shares)
    /\ \A r \in Requests : req[r].at \in Taking => Guarded(req[r].from)

\* A share below a guarded path is nested.
LEMMA GuardedNests ==
  ASSUME SettingsTypeOK, NEW a \in AnyPath, Guarded(a), NEW i \in DOMAIN live, IsPrefix(a, live[i].dir)
  PROVE  \E j \in DOMAIN live : j # i /\ IsPrefix(live[j].dir, live[i].dir)
<1>0. live # << >>
  BY LiveShares
<1>1. PICK j \in DOMAIN live : IsPrefix(live[j].dir, a)
  BY <1>0 DEF Guarded
<1>2. live[i].dir \in AnyPath /\ live[j].dir \in AnyPath /\ live[i].dir # a
  BY <1>0, LiveShares DEF Guarded
<1>3. IsPrefix(live[j].dir, live[i].dir)
  BY <1>1, <1>2, PrefixOrder
<1>4. j # i
  BY <1>1, <1>2, PrefixOrder
<1> QED
  BY <1>3, <1>4

\* What a client's path leads to is guarded, unless it is a root.
LEMMA SourceGuarded ==
  ASSUME SettingsTypeOK, NEW rel \in AnyPath, Resolve(rel) # << >>, ~ IsVirtualRoot(Resolve(rel))
  PROVE  Guarded(Resolve(rel))
<1>1. CASE live = << >>
  BY <1>1 DEF Guarded
<1>2. CASE live # << >>
  <2>1. PICK i \in DOMAIN live : Resolve(rel) = live[i].dir \o Tail(rel) /\ Tail(rel) \in AnyPath
    BY <1>2, ResolveParts
  <2>2. IsPrefix(live[i].dir, Resolve(rel))
    BY <2>1, LiveShares, JoinPath
  <2> QED
    BY <2>2 DEF Guarded, IsVirtualRoot
<1> QED
  BY <1>1, <1>2

LEMMA StandsGrow ==
  ASSUME NEW t, NEW u, NEW list, Stands(t, list),
         \A p \in DOMAIN t : t[p] = Dir => p \in DOMAIN u /\ u[p] = Dir
  PROVE  Stands(u, list)
BY DEF Stands

\* A rename takes no share along but nested ones.
LEMMA StandsMoved ==
  ASSUME FilesInv, NEW a \in AnyPath, NEW b \in AnyPath, CanRename(a, b),
         tree' = Renamed(a, b), Guarded(a), Stands(tree, live)
  PROVE  Stands(tree', live)
<1>0. SettingsTypeOK /\ IsTree(tree)
  BY DEF FilesInv, FilesTypeOK
<1>1. /\ TreeMoved(tree, tree', a, b) /\ a \in DOMAIN tree
      /\ \A q \in DOMAIN tree : IsPrefix(b, q) => q = b
      /\ b \in DOMAIN tree /\ tree[b] = Dir => tree[a] = Dir
  BY RenameParts DEF CanRename, IsDir, Exists
<1>2. ASSUME NEW d \in DOMAIN tree, tree[d] = Dir, ~ IsPrefix(a, d)
      PROVE  d \in DOMAIN tree' /\ tree'[d] = Dir
  <2>1. CASE d \notin MovedTo(tree, a, b)
    BY <1>1, <1>2, <2>1 DEF TreeMoved
  <2>2. CASE d \in MovedTo(tree, a, b)
    <3>1. PICK p \in DOMAIN tree : IsPrefix(a, p) /\ d = Swap(a, b, p)
      BY <2>2 DEF MovedTo
    <3>2. p \in AnyPath
      BY <1>0 DEF IsTree, AnyPath
    <3>3. IsPrefix(b, d)
      BY <3>1, <3>2, Swapped
    <3>4. d = b /\ tree[a] = Dir
      BY <1>1, <1>2, <3>3
    <3>5. IsPrefix(a, a) /\ Swap(a, b, a) = b
      BY PrefixOrder, Swapped
    <3> QED
      BY <1>1, <2>2, <3>4, <3>5 DEF TreeMoved
  <2> QED
    BY <2>1, <2>2
<1>3. ASSUME NEW i \in DOMAIN live, IsPrefix(a, live[i].dir)
      PROVE  \E j \in DOMAIN live : j # i /\ IsPrefix(live[j].dir, live[i].dir)
  BY <1>0, <1>3, GuardedNests
<1> QED
  BY <1>2, <1>3 DEF Stands

LEMMA StandsRemoved ==
  ASSUME FilesInv, NEW r \in Requests, NEW p, RemoveEntry(r, p), Guarded(req[r].from),
         Stands(tree, live)
  PROVE  Stands(tree', live)
<1>0. SettingsTypeOK /\ req[r].from \in AnyPath
  BY RequestParts DEF FilesInv, FilesTypeOK
<1>1. /\ p \in AnyPath /\ IsPrefix(req[r].from, p)
      /\ \A q \in DOMAIN tree : q # p => q \in DOMAIN tree' /\ tree'[q] = tree[q]
  BY RemoveParts
<1>2. ASSUME NEW i \in DOMAIN live, live[i].dir = p
      PROVE  \E j \in DOMAIN live : j # i /\ IsPrefix(live[j].dir, live[i].dir)
  BY <1>0, <1>1, <1>2, GuardedNests
<1> QED
  BY <1>1, <1>2 DEF Stands

\* The directories that stood before a step that creates or copies stand after it.
LEMMA DirsStay ==
  ASSUME FilesInv, NEW r \in Requests, OpenUpload(r) \/ MakeDir(r) \/ \E p : CopyEntry(r, p)
  PROVE  \A d \in DOMAIN tree : tree[d] = Dir => d \in DOMAIN tree' /\ tree'[d] = Dir
<1>0. SettingsTypeOK
  BY DEF FilesInv, FilesTypeOK
<1>1. ASSUME NEW p \in AnyPath, NEW f \in Files, Create(p, f)
      PROVE  \A d \in DOMAIN tree : tree[d] = Dir => d \in DOMAIN tree' /\ tree'[d] = Dir
  BY <1>1, CreateParts
<1>2. CASE OpenUpload(r)
  <2>1. Resolve(req[r].rels[1]) \in AnyPath
    BY <1>0, <1>2, RequestParts, ResolveParts DEF OpenUpload
  <2> QED
    BY <1>1, <1>2, <2>1 DEF OpenUpload
<1>3. CASE MakeDir(r)
  <2>1. CASE CanCreate(req[r].to) /\ ~ Exists(req[r].to) /\ tree' = Bind(req[r].to, Dir)
    BY <2>1, RequestParts, MkdirParts
  <2> QED
    BY <1>3, <2>1 DEF MakeDir
<1>4. ASSUME NEW p, CopyEntry(r, p)
      PROVE  \A d \in DOMAIN tree : tree[d] = Dir => d \in DOMAIN tree' /\ tree'[d] = Dir
  <2>1. /\ Twin(r, p) \in AnyPath
        /\ \/ \A q \in DOMAIN tree : q \in DOMAIN tree' /\ tree'[q] = tree[q]
           \/ \E f \in Files : Create(Twin(r, p), f)
           \/ UNCHANGED tree
    BY <1>4, CopyParts
  <2> QED
    BY <1>1, <2>1
<1> QED
  BY <1>2, <1>3, <1>4


\* A source stays guarded until it is done with.
LEMMA SourcesGuarded ==
  ASSUME FilesInv, NEW r \in Requests, FileStep(r),
         req[r].at \in Taking => Guarded(req[r].from)
  PROVE  req'[r].at \in Taking => Guarded(req'[r].from)
<1>0. SettingsTypeOK /\ req \in [Requests -> FileRequest] /\ req[r] \in FileRequest
  BY DEF FilesInv, FilesTypeOK
<1>n. ASSUME Set(r, NoRequest) PROVE req'[r].at \notin Taking
  BY <1>n, <1>0 DEF Set, NoRequest, Taking
<1>s. ASSUME NEW q, Set(r, q) PROVE req'[r] = q
  BY <1>s, <1>0 DEF Set
<1>1. CASE \/ \E rel \in ClientPaths, name \in NewNames, op \in {"upload", "mkdir"} : StartNew(r, op, rel, name)
           \/ \E a, b \in ClientPaths, dest \in ClientPaths :
                StartMove(r, IF a = b THEN <<a>> ELSE <<a, b>>, dest)
  BY <1>0, <1>1 DEF StartNew, StartMove, Set, NoRequest, Taking
<1>2. CASE \E a \in ClientPaths : StartDelete(r, <<a>>)
  BY <1>0, <1>2 DEF StartDelete, Set, NoRequest, Taking
<1>3. ASSUME NEW rel \in ClientPaths, NEW name \in NewNames, StartRename(r, rel, name)
      PROVE  Guarded(req'[r].from)
  <2>1. req'[r].from = Resolve(rel) /\ Resolve(rel) # << >> /\ ~ IsVirtualRoot(Resolve(rel))
    BY <1>0, <1>3 DEF StartRename, Set, NoRequest, Nowhere
  <2> QED
    BY <1>0, <2>1, RootPath, SourceGuarded
<1>4. CASE NameNew(r)
  <2>1. Set(r, [req[r] EXCEPT !.at = "resolving", !.rels = <<RelPath(req[r].to)>>])
    BY <1>4 DEF NameNew
  <2>2. [req[r] EXCEPT !.at = "resolving", !.rels = <<RelPath(req[r].to)>>].at = "resolving"
    BY <1>0 DEF FileRequest
  <2> QED
    BY <1>s, <2>1, <2>2 DEF Taking
<1>5. CASE StatNewDir(r) \/ MakeDir(r) \/ DoRename(r) \/ Receive(r)
  <2> DEFINE q == [req[r] EXCEPT !.at = "making", !.to = Resolve(req[r].rels[1])]
  <2>1. Set(r, NoRequest) \/ Set(r, q)
    BY <1>5 DEF StatNewDir, MakeDir, DoRename, Receive, Done
  <2>2. q.at = "making"
    BY <1>0 DEF FileRequest
  <2> HIDE DEF q
  <2> QED
    BY <1>n, <1>s, <2>1, <2>2 DEF Taking
<1>9. CASE OpenUpload(r)
  <2>1. Set(r, NoRequest) \/ \E f \in Files :
          Set(r, [req[r] EXCEPT !.at = "receiving", !.from = Resolve(req[r].rels[1]), !.writes = f])
    BY <1>9 DEF OpenUpload, Done
  <2>2. \A f : [req[r] EXCEPT !.at = "receiving", !.from = Resolve(req[r].rels[1]), !.writes = f].at
               = "receiving"
    BY <1>0 DEF FileRequest
  <2> QED
    BY <1>n, <1>s, <2>1, <2>2 DEF Taking
<1>6. CASE NextSource(r)
  <2> DEFINE abs == Resolve(Head(req[r].rels))
             rest == [req[r] EXCEPT !.rels = Tail(req[r].rels), !.from = abs]
             removing == [rest EXCEPT !.at = "removing"]
             going == [rest EXCEPT !.at = "moving"]
  <2>1. \/ Set(r, NoRequest)
        \/ /\ req[r].rels # << >> /\ abs # << >> /\ ~ IsVirtualRoot(abs)
           /\ Set(r, rest) \/ Set(r, removing) \/ Set(r, going)
    BY <1>6 DEF NextSource, Done, Nowhere
  <2>2. req[r].rels # << >> => Head(req[r].rels) \in AnyPath
    BY RequestParts
  <2>3. rest.from = abs /\ removing.from = abs /\ going.from = abs
    BY <1>0 DEF FileRequest
  <2> HIDE DEF rest, removing, going
  <2>4. CASE req[r].rels # << >> /\ abs # << >> /\ ~ IsVirtualRoot(abs)
             /\ (Set(r, rest) \/ Set(r, removing) \/ Set(r, going))
    <3>1. Guarded(abs)
      BY <1>0, <2>2, <2>4, SourceGuarded
    <3>2. req'[r].from = abs
      BY <1>s, <2>3, <2>4
    <3> QED
      BY <3>1, <3>2
  <2> QED
    BY <1>n, <2>1, <2>4
<1>7. CASE MoveSource(r) \/ CopyFile(r) \/ Copied(r) \/ Removed(r)
  <2> DEFINE next == [req[r] EXCEPT !.at = "next"]
             copying == [req[r] EXCEPT !.at = "copying", !.left = {req[r].from}]
             copied == [req[r] EXCEPT !.at = "copying", !.reads = 0, !.writes = 0]
             removing == [req[r] EXCEPT !.at = "removing"]
  <2>1. Set(r, NoRequest) \/ Set(r, next) \/ Set(r, copying) \/ Set(r, copied) \/ Set(r, removing)
    BY <1>7 DEF MoveSource, CopyFile, Copied, Removed, Done
  <2>2. req[r].at \in Taking
    BY <1>7 DEF MoveSource, CopyFile, Copied, Removed, Taking
  <2>3. /\ next.from = req[r].from /\ copying.from = req[r].from
        /\ copied.from = req[r].from /\ removing.from = req[r].from
    BY <1>0 DEF FileRequest
  <2> HIDE DEF next, copying, copied, removing
  <2> QED
    BY <1>n, <1>s, <2>1, <2>2, <2>3
<1>8. ASSUME NEW p, CopyEntry(r, p) \/ RemoveEntry(r, p)
      PROVE  req'[r].at \in Taking => Guarded(req'[r].from)
  <2> DEFINE others == req[r].left \ {p}
             deeper == [req[r] EXCEPT !.left = others \cup Children(p)]
             copy(f) == [req[r] EXCEPT !.at = "copying file", !.left = others,
                                       !.reads = tree[p], !.writes = f]
  <2>1. req[r].at \in Taking
    BY <1>8 DEF CopyEntry, RemoveEntry, Taking
  <2>2. Set(r, NoRequest) \/ UNCHANGED req \/ Set(r, deeper) \/ \E f \in Files : Set(r, copy(f))
    BY <1>8 DEF CopyEntry, RemoveEntry, Done
  <2>3. deeper.from = req[r].from /\ \A f : copy(f).from = req[r].from
    BY <1>0 DEF FileRequest
  <2> HIDE DEF deeper, copy
  <2> QED
    BY <1>n, <1>s, <2>1, <2>2, <2>3
<1> QED
  BY <1>1, <1>2, <1>3, <1>4, <1>5, <1>6, <1>7, <1>8, <1>9 DEF FileStep


LEMMA FileStepStands ==
  ASSUME Sound, OuterInv, NEW r \in Requests, FileStep(r), ~ overlapped'
  PROVE  OuterInv'
<1>0. FilesInv /\ SettingsTypeOK /\ IsTree(tree) /\ writer \in [Requests -> Write]
  BY DEF Sound, FilesInv, FilesTypeOK, SettingsTypeOK
<1>1. /\ UNCHANGED <<onFile, stored, live, writer>> /\ ~ overlapped
      /\ \A s \in Requests \ {r} : req'[s] = req[s]
  BY <1>0, FileStepFrame, OthersStay
<1>2. Writing = {} /\ (\A s \in Requests \ {r} : req[s].at = "idle") /\ Settled
  <2>1. CASE req[r].at # "idle"
    BY <1>1, <2>1, Alone
  <2>2. CASE req[r].at = "idle" /\ Busy = {}
    <3>1. Writing = {} /\ \A s \in Requests : req[s].at = "idle"
      BY <2>2 DEF Busy
    <3> QED
      BY <1>1, <3>1 DEF Sound, StoreInv, LoneInv
  <2> QED
    BY <1>1, <2>1, <2>2, FileStepFrame
<1>3. /\ Stands(tree, live)
      /\ \A s \in Requests : req[s].at \in Taking => Guarded(req[s].from)
  BY <1>1 DEF OuterInv
<1>4. Stands(tree', live)
  <2>1. CASE UNCHANGED tree
    BY <1>3, <2>1
  <2>2. CASE OpenUpload(r) \/ MakeDir(r) \/ \E p : CopyEntry(r, p)
    <3>1. \A d \in DOMAIN tree : tree[d] = Dir => d \in DOMAIN tree' /\ tree'[d] = Dir
      BY <1>0, <2>2, DirsStay
    <3> QED
      BY <1>3, <3>1, StandsGrow
  <2>3. CASE DoRename(r)
    <3>1. CASE CanRename(req[r].from, req[r].to) /\ tree' = Renamed(req[r].from, req[r].to)
      <4>1. Guarded(req[r].from)
        BY <1>3, <2>3 DEF DoRename, Taking
      <4> QED
        BY <1>0, <1>3, <3>1, <4>1, RequestParts, StandsMoved
    <3> QED
      BY <2>1, <2>3, <3>1 DEF DoRename
  <2>4. CASE MoveSource(r)
    <3>1. CASE CanRename(req[r].from, Target(r)) /\ tree' = Renamed(req[r].from, Target(r))
      <4>1. Guarded(req[r].from) /\ Target(r) \in AnyPath /\ req[r].from \in AnyPath
        BY <1>0, <1>3, <2>4, RequestParts DEF MoveSource, Taking
      <4> QED
        BY <1>0, <1>3, <3>1, <4>1, StandsMoved
    <3> QED
      BY <2>1, <2>4, <3>1 DEF MoveSource
  <2>5. ASSUME NEW p, RemoveEntry(r, p) PROVE Stands(tree', live)
    <3>1. Guarded(req[r].from)
      BY <1>3, <2>5 DEF RemoveEntry, Taking
    <3> QED
      BY <1>0, <1>3, <2>5, <3>1, StandsRemoved
  <2>6. CASE NameNew(r) \/ StatNewDir(r) \/ NextSource(r) \/ Copied(r) \/ Removed(r)
    BY <2>1, <2>6 DEF NameNew, StatNewDir, NextSource, Copied, Removed, Look
  <2>7. CASE Receive(r) \/ CopyFile(r)
    BY <2>1, <2>7 DEF Receive, CopyFile
  <2>8. CASE \/ \E rel \in ClientPaths, name \in NewNames, op \in {"upload", "mkdir"} : StartNew(r, op, rel, name)
             \/ \E rel \in ClientPaths, name \in NewNames : StartRename(r, rel, name)
             \/ \E a, b \in ClientPaths, dest \in ClientPaths :
                  StartMove(r, IF a = b THEN <<a>> ELSE <<a, b>>, dest)
             \/ \E a \in ClientPaths : StartDelete(r, <<a>>)
    BY <2>1, <2>8 DEF StartNew, StartRename, StartMove, StartDelete, Begin
  <2> QED
    BY <2>2, <2>3, <2>4, <2>5, <2>6, <2>7, <2>8 DEF FileStep
<1>5. Load(onFile).shares = live
  BY <1>0, <1>2 DEF Settled, SettingsTypeOK, Document
<1>6. Stands(tree', live') /\ Stands(tree', Load(onFile').shares)
  BY <1>1, <1>4, <1>5
<1>7. Writing' = {}
  BY <1>1, <1>2 DEF Writing
<1>8. ASSUME NEW s \in Requests, req'[s].at \in Taking PROVE Guarded(req[s].from)'
  <2>1. s = r
    BY <1>1, <1>2, <1>8 DEF Taking
  <2>2. Guarded(req'[s].from)
    BY <1>0, <1>3, <1>8, <2>1, SourcesGuarded
  <2> QED
    BY <1>1, <2>2 DEF Guarded
<1> QED
  BY <1>6, <1>7, <1>8 DEF OuterInv

\* The settings: a list is checked before it is stored, and nothing else is stored.
LEMMA WriteStepSharesStand ==
  ASSUME Sound, OuterInv, ~ overlapped, NEW r \in Requests, WriteStep(r)
  PROVE  /\ Stands(tree, live') /\ Stands(tree, Load(onFile').shares)
         /\ \A s \in Requests : writer'[s].at # "idle" => Stands(tree, writer'[s].doc.shares)
<1>0. /\ SettingsTypeOK /\ writer \in [Requests -> Write] /\ NoWrite.at = "idle"
      /\ stored \in Document /\ onFile \in Text /\ onTmp \in Text
  BY DEF Sound, FilesInv, FilesTypeOK, SettingsTypeOK, NoWrite
<1>1. writer[r].at # "idle"
  BY <1>0, WriteStepFrame
<1>2. Writing = {r} /\ Standing(writer[r]) /\ onFile # Torn
  BY <1>1 DEF Sound, LoneInv, StoreInv, Writing
<1>3. /\ Stands(tree, live) /\ Stands(tree, Load(onFile).shares)
      /\ Stands(tree, writer[r].doc.shares) /\ writer[r] \in Write /\ writer[r].doc \in Document
  BY <1>0, <1>2 DEF OuterInv, Write
<1>4. \A s \in Requests \ {r} : writer'[s].at = "idle"
  BY <1>0, <1>2, WriteStepFrame DEF Writing
<1>5. CASE OpenTmp(r)
  <2>1. UNCHANGED <<onFile, live>>
    BY <1>5 DEF OpenTmp, memory
  <2>2. writer'[r].at = "idle" \/ writer'[r].doc = writer[r].doc
    BY <1>0, <1>5 DEF OpenTmp, Fail, Write
  <2> QED
    BY <1>3, <1>4, <2>1, <2>2
<1>6. CASE WriteTmp(r)
  <2>1. UNCHANGED live /\ onFile' = onFile
    BY <1>2, <1>6 DEF WriteTmp, SetText, memory, Standing
  <2>2. writer'[r].at = "idle" \/ writer'[r].doc = writer[r].doc
    BY <1>0, <1>6 DEF WriteTmp, Fail, At, Write
  <2> QED
    BY <1>3, <1>4, <2>1, <2>2
<1>7. CASE RenameTmp(r)
  <2>1. UNCHANGED live /\ (UNCHANGED onFile \/ onFile' = writer[r].doc)
    BY <1>2, <1>7 DEF RenameTmp, memory, disk, Standing
  <2>2. Load(writer[r].doc) = writer[r].doc
    BY <1>3, Agreed
  <2>5. writer'[r].doc = writer[r].doc
    <3>1. CASE writer' = [q \in Requests |-> [Moved(writer[q]) EXCEPT
                          !.at = IF q = r THEN "renamed" ELSE writer[q].at]]
      BY <1>0, <3>1 DEF Moved, Write
    <3>2. CASE At(r, "cleaning")
      BY <1>0, <3>2 DEF At, Write
    <3> QED
      BY <1>7, <3>1, <3>2 DEF RenameTmp
  <2> QED
    BY <1>3, <1>4, <2>1, <2>2, <2>5
<1>8. CASE RemoveTmp(r)
  BY <1>0, <1>3, <1>4, <1>8 DEF RemoveTmp, memory
<1>9. CASE Remember(r)
  <2>1. UNCHANGED <<onFile, live>>
    BY <1>9 DEF Remember, disk
  <2>2. writer'[r].at = "idle" \/ writer'[r].doc = writer[r].doc
    BY <1>0, <1>9 DEF Remember, Write
  <2> QED
    BY <1>3, <1>4, <2>1, <2>2
<1>10. CASE ReadBack(r)
  <2>1. UNCHANGED <<onFile, live>> /\ writer[r].at = "publishing"
    BY <1>10 DEF ReadBack, disk, memory
  <2>2. Load(onFile) = stored
    BY <1>0, <1>2, <2>1, Agreed DEF Standing
  <2>3. writer'[r].doc.shares = stored.shares
    BY <1>0, <1>3, <1>10 DEF ReadBack, Write, Document
  <2> QED
    BY <1>3, <1>4, <2>1, <2>2, <2>3
<1>11. CASE GoLive(r)
  <2>1. UNCHANGED onFile /\ live' = writer[r].doc.shares
    BY <1>11 DEF GoLive, disk
  <2>2. writer'[r].at = "idle"
    BY <1>0, <1>11 DEF GoLive
  <2> QED
    BY <1>3, <1>4, <2>1, <2>2
<1> QED
  BY <1>5, <1>6, <1>7, <1>8, <1>9, <1>10, <1>11 DEF WriteStep

LEMMA MarshalSharesStand ==
  ASSUME Sound, OuterInv, NEW r \in Requests, Marshal(r), req[r].at = "idle", ValidList(r),
         overlapped' = (overlapped \/ Busy # {}), UNCHANGED <<tree, req>>, ~ overlapped'
  PROVE  OuterInv'
<1>0. SettingsTypeOK /\ writer \in [Requests -> Write]
  BY DEF Sound, FilesInv, FilesTypeOK, SettingsTypeOK
<1>1. ~ overlapped /\ Busy = {} /\ Writing = {} /\ \A s \in Requests : req[s].at = "idle"
  BY DEF Busy
<1>2. Settled /\ Stands(tree, live) /\ Stands(tree, Load(onFile).shares)
  BY <1>1 DEF Sound, LoneInv, StoreInv, OuterInv
<1>3. UNCHANGED <<onFile, live>> /\ \A s \in Requests \ {r} : writer'[s].at = "idle"
  BY <1>0, <1>1 DEF Marshal, disk, memory, Writing
<1>4. Stands(tree, writer'[r].doc.shares)
  <2>1. PICK half \in {"shares", "faces"} :
          \E new \in IF half = "shares" THEN ShareLists ELSE Profiles :
            writer' = [writer EXCEPT ![r] = [at |-> "marshalled", half |-> half,
                                             doc |-> Edited(half, new), holds |-> "nothing"]]
    BY DEF Marshal
  <2>2. PICK new \in IF half = "shares" THEN ShareLists ELSE Profiles :
          writer' = [writer EXCEPT ![r] = [at |-> "marshalled", half |-> half,
                                           doc |-> Edited(half, new), holds |-> "nothing"]]
    BY <2>1
  <2>3. writer'[r].half = half /\ writer'[r].doc = Edited(half, new)
    BY <1>0, <2>2
  <2>4. CASE half = "shares"
    BY <2>3, <2>4 DEF ValidList, Stands, IsDir, Exists
  <2>5. CASE half = "faces"
    <3>1. writer'[r].doc.shares = live
      BY <1>2, <2>3, <2>5 DEF Edited, Settled
    <3> QED
      BY <1>2, <3>1
  <2> QED
    BY <2>4, <2>5
<1>5. \A s \in Requests : req'[s].at \notin Taking
  BY <1>1 DEF Taking
<1>6. \A s \in Writing' : s = r
  BY <1>3 DEF Writing
<1> QED
  BY <1>2, <1>3, <1>4, <1>5, <1>6 DEF OuterInv

LEMMA OuterInvInit == ServerInit => OuterInv
<1> SUFFICES ASSUME ServerInit PROVE OuterInv
  OBVIOUS
<1>1. Load(onFile) = Empty /\ live = << >> /\ Empty.shares = << >>
  BY DEF ServerInit, SettingsInit, Load, Empty
<1>2. Stands(tree, << >>)
  BY DEF Stands
<1>3. Writing = {} /\ \A r \in Requests : req[r].at \notin Taking
  BY DEF ServerInit, SettingsInit, FilesInit, Writing, NoWrite, NoRequest, Taking
<1> QED
  BY <1>1, <1>2, <1>3 DEF OuterInv

LEMMA OuterInvNext == Sound /\ OuterInv /\ [ServerNext]_serverVars => OuterInv'
<1> SUFFICES ASSUME Sound, OuterInv, [ServerNext]_serverVars, ~ overlapped' PROVE OuterInv'
  BY DEF OuterInv
<1>0. SettingsTypeOK
  BY DEF Sound, FilesInv, FilesTypeOK
<1>1. ASSUME NEW r \in Requests, FileStep(r) PROVE OuterInv'
  BY <1>1, FileStepStands
<1>2. ASSUME NEW r \in Requests, Marshal(r), req[r].at = "idle", ValidList(r),
             overlapped' = (overlapped \/ Busy # {}), UNCHANGED <<tree, req>>
      PROVE  OuterInv'
  BY <1>2, MarshalSharesStand
<1>3. ASSUME NEW r \in Requests, WriteStep(r), UNCHANGED filesVars PROVE OuterInv'
  <2>1. ~ overlapped /\ UNCHANGED <<tree, req>> /\ writer[r].at # "idle"
    BY <1>0, <1>3, WriteStepFrame DEF filesVars
  <2>2. \A s \in Requests : req[s].at = "idle"
    BY <2>1 DEF Sound, LoneInv, Busy, Writing
  <2>3. /\ Stands(tree, live') /\ Stands(tree, Load(onFile').shares)
        /\ \A s \in Requests : writer'[s].at # "idle" => Stands(tree, writer'[s].doc.shares)
    BY <1>3, <2>1, WriteStepSharesStand
  <2> QED
    BY <2>1, <2>2, <2>3 DEF OuterInv, Writing, Taking
<1>4. CASE Restart /\ req' = [r \in Requests |-> NoRequest] /\ UNCHANGED <<tree, overlapped>>
  <2>1. UNCHANGED onFile /\ live' = Load(onFile).shares
    BY <1>4 DEF Restart, disk
  <2>2. Writing' = {} /\ \A s \in Requests : req'[s].at \notin Taking
    BY <1>4 DEF Restart, Writing, NoWrite, NoRequest, Taking
  <2> QED
    BY <1>4, <2>1, <2>2 DEF OuterInv
<1>5. CASE UNCHANGED serverVars
  <2>1. UNCHANGED <<onFile, live, writer, tree, req, overlapped>>
    BY <1>5 DEF serverVars, settingsVars, filesVars, disk, memory
  <2> QED
    BY <2>1 DEF OuterInv, Writing, Guarded
<1> QED
  BY <1>1, <1>2, <1>3, <1>4, <1>5 DEF ServerNext

LEMMA OuterInvariant == ServerSpec => []OuterInv
<1>1. Sound /\ OuterInv /\ [ServerNext]_serverVars => OuterInv'
  BY OuterInvNext
<1> QED
  BY <1>1, OuterInvInit, SoundInvariant, PTL DEF ServerSpec

\* service.go IsVirtualRoot, Rename, Move and Delete: unless requests overlapped, the directory
\* of a live share stands, or lies in the directory of another live share, for every file
\* system, every share list that was checked, and every request that fails or that a crash ends.
THEOREM SharesStand == ServerSpec => []OuterSharesStand
<1>1. OuterInv => OuterSharesStand
  BY DEF OuterInv, OuterSharesStand, Stands, IsDir, Exists
<1> QED
  BY <1>1, OuterInvariant, PTL

\* settings.go write, under the file requests of the same server: as long as no two requests
\* of the settings met, the file is whole, and file and memory agree between requests.
THEOREM StoreStandsInServer == ServerSpec => [](FileIsWhole /\ SettingsAgree)
<1>1. Sound => FileIsWhole /\ SettingsAgree
  BY DEF Sound, StoreInv, FileIsWhole, SettingsAgree, Settled
<1> QED
  BY <1>1, SoundInvariant, PTL

\* settings.go SetShares and SetFaces: among the file requests of the server, too, the store
\* implements the register of two halves.
THEOREM ServerIsRegister == ServerSpec => ActsAsRegister
<1>1. ServerInit => Register!RegisterInit
  BY DEF ServerInit, SettingsInit, Register!RegisterInit, Load
<1>2. Sound /\ Sound' /\ [ServerNext]_serverVars
        => [Register!Put \/ Register!Meet \/ Register!Anything]_<<Load(onFile), raced>>
  <2> SUFFICES ASSUME Sound, Sound', [ServerNext]_serverVars
               PROVE  [Register!Put \/ Register!Meet \/ Register!Anything]_<<Load(onFile), raced>>
    OBVIOUS
  <2>1. SettingsTypeOK /\ SettingsTypeOK' /\ StoreInv
    BY DEF Sound, FilesInv, FilesTypeOK
  <2>2. CASE [SettingsNext]_settingsVars
    BY <2>1, <2>2, StepRefines
  <2>3. CASE Disturb
    <3>1. UNCHANGED <<onFile, raced>>
      BY <2>3 DEF Disturb, disk
    <3> QED
      BY <3>1 DEF Load
  <2> QED
    BY <2>2, <2>3, StepOfSettings
<1> QED
  BY <1>1, <1>2, SoundInvariant, PTL DEF ServerSpec, ActsAsRegister, Register!RegisterSpec


----------------------------------------------------------------------------
(* Moves between volumes                                                   *)

Apart(a, b) == ~ IsPrefix(a, b) /\ ~ IsPrefix(b, a)

\* The target of a source, and the place of an entry below it.
To(q) == q.to \o <<Last(q.from)>>
CopyOf(q, p) == Swap(q.from, To(q), p)

\* s is in t what p is: a directory, or a file of the same content.
Same(t, b, p, s) ==
  s \in DOMAIN t /\ IF t[p] = Dir THEN t[s] = Dir ELSE t[s] # Dir /\ b[t[s]] = b[t[p]]

\* The entry is still to be copied; it is the file whose copy has begun.
Pending(q, p) == \E l \in q.left : IsPrefix(l, p)
BeingCopied(t, q, p) == q.at = "copying file" /\ t[p] = q.reads /\ ~ Pending(q, p)

\* The place to which a request renames, or moves, is as its checks have found it.
Placed(t, q) ==
  /\ q.at \in {"next", "moving", "copying", "copying file", "removing"} /\ q.op = "move" =>
       q.to \in DOMAIN t /\ t[q.to] = Dir
  /\ q.at = "renaming" => q.to \notin DOMAIN t
  /\ q.at = "moving" => To(q) \notin DOMAIN t /\ q.from \in DOMAIN t /\ Apart(q.from, To(q))

\* Below the target lies what was copied, and nothing of what is still to be copied.
Mirrors(t, b, q) ==
  q.at \in {"copying", "copying file"} =>
    /\ q.from \in DOMAIN t /\ Apart(q.from, To(q)) /\ q.left \subseteq DOMAIN t
    /\ \A l, m \in q.left : IsPrefix(l, m) => l = m
    /\ \A p \in DOMAIN t : IsPrefix(q.from, p) =>
         IF Pending(q, p) THEN CopyOf(q, p) \notin DOMAIN t
         ELSE BeingCopied(t, q, p) \/ Same(t, b, p, CopyOf(q, p))

\* A file that is written is part of one, and no file of the first file system.
Filling(t, b, q) ==
  /\ q.at \in {"receiving", "copying file"} => b[q.writes] = Partial
  /\ q.at = "copying file" =>
       \E p \in DOMAIN t : /\ IsPrefix(q.from, p) /\ BeingCopied(t, q, p)
                           /\ CopyOf(q, p) \in DOMAIN t /\ t[CopyOf(q, p)] = q.writes

\* What a move removes has been copied.
Mirrored(t, b, q) ==
  q.at = "removing" /\ q.op = "move" =>
    /\ Apart(q.from, To(q))
    /\ \A p \in DOMAIN t : IsPrefix(q.from, p) => Same(t, b, p, CopyOf(q, p))

Copies(t, b, q) == Placed(t, q) /\ Mirrors(t, b, q) /\ Filling(t, b, q) /\ Mirrored(t, b, q)

MoveInv == ~ overlapped => \A r \in Requests : Copies(tree, body, req[r])

LEMMA NoCopies ==
  ASSUME NEW t, NEW b, NEW q, q.at \in {"idle", "named", "resolving", "making"}
  PROVE  Copies(t, b, q)
BY DEF Copies, Placed, Mirrors, Filling, Mirrored

LEMMA ApartBelow ==
  ASSUME NEW a \in AnyPath, NEW b \in AnyPath, Apart(a, b), NEW p \in AnyPath, NEW s \in AnyPath,
         IsPrefix(a, p), IsPrefix(b, s)
  PROVE  p # s /\ ~ IsPrefix(a, s) /\ ~ IsPrefix(b, p)
BY PrefixOrder DEF Apart

\* Paths of a request that takes a source.
LEMMA CopyPaths ==
  ASSUME FilesInv, NEW r \in Requests, req[r].at \in Taking
  PROVE  /\ req[r].from \in AnyPath /\ Len(req[r].from) > 0 /\ To(req[r]) \in AnyPath
         /\ req[r].to \in AnyPath /\ Len(To(req[r])) = Len(req[r].to) + 1
         /\ Front(To(req[r])) = req[r].to /\ IsPrefix(req[r].to, To(req[r]))
         /\ Target(r) = To(req[r])
         /\ \A p \in AnyPath : IsPrefix(req[r].from, p) =>
              /\ CopyOf(req[r], p) = Twin(r, p) /\ CopyOf(req[r], p) \in AnyPath
              /\ IsPrefix(To(req[r]), CopyOf(req[r], p))
<1>1. Target(r) = To(req[r])
  BY DEF Target, To
<1>2. /\ req[r].from \in AnyPath /\ Len(req[r].from) > 0 /\ To(req[r]) \in AnyPath
      /\ req[r].to \in AnyPath /\ Len(To(req[r])) = Len(req[r].to) + 1
      /\ Front(To(req[r])) = req[r].to /\ IsPrefix(req[r].to, To(req[r]))
  BY <1>1, RequestParts
<1>3. ASSUME NEW p \in AnyPath, IsPrefix(req[r].from, p)
      PROVE  /\ CopyOf(req[r], p) = Twin(r, p) /\ CopyOf(req[r], p) \in AnyPath
             /\ IsPrefix(To(req[r]), CopyOf(req[r], p))
  BY <1>1, <1>2, <1>3, Swapped DEF CopyOf, Twin, Swap
<1> QED
  BY <1>1, <1>2, <1>3

LEMMA TreePaths ==
  ASSUME FilesInv
  PROVE  /\ DOMAIN tree \subseteq AnyPath
         /\ \A p \in DOMAIN tree : Len(p) > 0 /\ tree[p] \in Files \cup {Dir}
         /\ \A p, q \in DOMAIN tree : tree[p] = tree[q] => tree[p] = Dir \/ p = q
         /\ \A p \in DOMAIN tree : \A a \in AnyPath :
              IsPrefix(a, p) /\ Len(a) > 0 => a \in DOMAIN tree /\ (a # p => tree[a] = Dir)
         /\ Dir \notin Files
<1>1. IsTree(tree) /\ Dir \notin Files
  BY FilesAssumption DEF FilesInv, FilesTypeOK
<1>2. ASSUME NEW p \in DOMAIN tree, NEW a \in AnyPath, IsPrefix(a, p), Len(a) > 0
      PROVE  a \in DOMAIN tree /\ (a # p => tree[a] = Dir)
  BY <1>1, <1>2, TopsExist
<1>3. /\ DOMAIN tree \subseteq AnyPath
      /\ \A p \in DOMAIN tree : Len(p) > 0 /\ tree[p] \in Files \cup {Dir}
      /\ \A p, q \in DOMAIN tree : tree[p] = tree[q] => tree[p] = Dir \/ p = q
  BY <1>1 DEF IsTree, AnyPath
<1> QED
  BY <1>1, <1>2, <1>3

\* Requests that begin, or do not move.
LEMMA StartCopies ==
  ASSUME FilesInv, NEW r \in Requests,
         \/ \E rel \in ClientPaths, name \in NewNames, op \in {"upload", "mkdir"} : StartNew(r, op, rel, name)
         \/ \E rel \in ClientPaths, name \in NewNames : StartRename(r, rel, name)
         \/ \E a, b \in ClientPaths, dest \in ClientPaths :
              StartMove(r, IF a = b THEN <<a>> ELSE <<a, b>>, dest)
         \/ \E a \in ClientPaths : StartDelete(r, <<a>>)
         \/ NameNew(r) \/ OpenUpload(r) \/ Receive(r) \/ StatNewDir(r) \/ MakeDir(r) \/ DoRename(r)
  PROVE  Copies(tree', body', req'[r])
<1>0. req \in [Requests -> FileRequest] /\ req[r] \in FileRequest /\ body \in [Files -> Contents]
  BY DEF FilesInv, FilesTypeOK
<1>s. ASSUME NEW q, Set(r, q) PROVE req'[r] = q
  BY <1>s, <1>0 DEF Set
<1>n. ASSUME Set(r, NoRequest) PROVE Copies(tree', body', req'[r])
  <2>1. req'[r].at = "idle"
    BY <1>s, <1>n, Resting
  <2> QED
    BY <2>1, NoCopies
<1>1. ASSUME NEW rel \in ClientPaths, NEW name \in NewNames, NEW op \in {"upload", "mkdir"},
             StartNew(r, op, rel, name)
      PROVE  Copies(tree', body', req'[r])
  <2>1. req'[r].at = "named"
    BY <1>s, <1>1 DEF StartNew, NoRequest
  <2> QED
    BY <2>1, NoCopies
<1>2. ASSUME NEW rel \in ClientPaths, NEW name \in NewNames, StartRename(r, rel, name)
      PROVE  Copies(tree', body', req'[r])
  <2>1. tree' = tree /\ req'[r].at = "renaming" /\ req'[r].to \notin DOMAIN tree
    BY <1>s, <1>2 DEF StartRename, NoRequest, Begin, Free, Exists
  <2> QED
    BY <2>1 DEF Copies, Placed, Mirrors, Filling, Mirrored
<1>3. ASSUME NEW rels, NEW dest \in ClientPaths, StartMove(r, rels, dest)
      PROVE  Copies(tree', body', req'[r])
  <2>1. /\ tree' = tree /\ req'[r].at = "next"
        /\ req'[r].to \in DOMAIN tree /\ tree[req'[r].to] = Dir
    BY <1>s, <1>3 DEF StartMove, NoRequest, Begin, IsDir, Exists
  <2> QED
    BY <2>1 DEF Copies, Placed, Mirrors, Filling, Mirrored
<1>4. ASSUME NEW rels, StartDelete(r, rels)
      PROVE  Copies(tree', body', req'[r])
  <2>1. req'[r].at = "next" /\ req'[r].op = "delete"
    BY <1>s, <1>4 DEF StartDelete, NoRequest
  <2> QED
    BY <2>1 DEF Copies, Placed, Mirrors, Filling, Mirrored
<1>5. CASE NameNew(r)
  <2> DEFINE q == [req[r] EXCEPT !.at = "resolving", !.rels = <<RelPath(req[r].to)>>]
  <2>1. Set(r, q) /\ q.at = "resolving"
    BY <1>0, <1>5 DEF NameNew, FileRequest
  <2> HIDE DEF q
  <2> QED
    BY <1>s, <2>1, NoCopies
<1>6. CASE OpenUpload(r)
  <2> DEFINE dst == Resolve(req[r].rels[1])
             q(f) == [req[r] EXCEPT !.at = "receiving", !.from = dst, !.writes = f]
  <2>1. Set(r, NoRequest) \/ \E f \in Files : Create(dst, f) /\ Set(r, q(f))
    BY <1>6 DEF OpenUpload, Done
  <2>2. \A f : q(f).at = "receiving" /\ q(f).writes = f
    BY <1>0 DEF FileRequest
  <2> HIDE DEF dst, q
  <2>3. ASSUME NEW f \in Files, Create(dst, f), Set(r, q(f)) PROVE Copies(tree', body', req'[r])
    <3>1. body'[f] = Partial
      BY <1>0, <2>3 DEF Create
    <3>2. req'[r].at = "receiving" /\ req'[r].writes = f
      BY <1>s, <2>2, <2>3
    <3> QED
      BY <3>1, <3>2 DEF Copies, Placed, Mirrors, Filling, Mirrored
  <2> QED
    BY <1>n, <2>1, <2>3
<1>7. CASE Receive(r) \/ MakeDir(r) \/ DoRename(r)
  BY <1>n, <1>7 DEF Receive, MakeDir, DoRename, Done
<1>8. CASE StatNewDir(r)
  <2> DEFINE q == [req[r] EXCEPT !.at = "making", !.to = Resolve(req[r].rels[1])]
  <2>1. (Set(r, NoRequest) \/ Set(r, q)) /\ q.at = "making"
    BY <1>0, <1>8 DEF StatNewDir, FileRequest, Done
  <2> HIDE DEF q
  <2> QED
    BY <1>n, <1>s, <2>1, NoCopies
<1> QED
  BY <1>1, <1>2, <1>3, <1>4, <1>5, <1>6, <1>7, <1>8


\* Where a copy in progress stands, for the entry that is next.
LEMMA CopyFacts ==
  ASSUME FilesInv, NEW r \in Requests, NEW p, CopyEntry(r, p), Copies(tree, body, req[r])
  PROVE  LET q == req[r]
         IN /\ p \in q.left /\ p \in DOMAIN tree /\ IsPrefix(q.from, p) /\ q.at = "copying"
            /\ q.from \in DOMAIN tree /\ Apart(q.from, To(q)) /\ q.left \subseteq DOMAIN tree
            /\ \A l, m \in q.left : IsPrefix(l, m) => l = m
            /\ \A s \in DOMAIN tree : IsPrefix(q.from, s) =>
                 IF Pending(q, s) THEN CopyOf(q, s) \notin DOMAIN tree
                 ELSE Same(tree, body, s, CopyOf(q, s))
            /\ Twin(r, p) = CopyOf(q, p) /\ CopyOf(q, p) \notin DOMAIN tree
            /\ q.op = "move" /\ q.to \in DOMAIN tree /\ tree[q.to] = Dir
<1> DEFINE q == req[r]
<1>1. q.at = "copying" /\ p \in q.left /\ p \in AnyPath /\ IsPrefix(q.from, p)
  BY CopyParts
<1>2. q.op = "move"
  BY <1>1, RequestParts DEF Serves
<1>3. /\ q.from \in DOMAIN tree /\ Apart(q.from, To(q)) /\ q.left \subseteq DOMAIN tree
      /\ \A l, m \in q.left : IsPrefix(l, m) => l = m
      /\ \A s \in DOMAIN tree : IsPrefix(q.from, s) =>
           IF Pending(q, s) THEN CopyOf(q, s) \notin DOMAIN tree
           ELSE Same(tree, body, s, CopyOf(q, s))
      /\ q.to \in DOMAIN tree /\ tree[q.to] = Dir
  BY <1>1, <1>2 DEF Copies, Mirrors, Placed, BeingCopied
<1>4. Pending(q, p) /\ p \in DOMAIN tree
  BY <1>1, <1>3, PrefixOrder DEF Pending
<1>5. Twin(r, p) = CopyOf(q, p)
  BY <1>1, CopyPaths DEF Taking
<1> QED
  BY <1>1, <1>2, <1>3, <1>4, <1>5

\* One entry of a copy is made: the others are as they were.
LEMMA EntryCopied ==
  ASSUME FilesInv, NEW r \in Requests, NEW p, CopyEntry(r, p), Copies(tree, body, req[r]),
         DOMAIN tree' = DOMAIN tree \cup {Twin(r, p)},
         \A s \in DOMAIN tree : /\ tree'[s] = tree[s]
                                /\ tree[s] # Dir => body'[tree[s]] = body[tree[s]],
         NEW n, n = req'[r], n.from = req[r].from, n.to = req[r].to, n.left \subseteq DOMAIN tree,
         \A l, m \in n.left : IsPrefix(l, m) => l = m,
         \A s \in DOMAIN tree : IsPrefix(req[r].from, s) =>
           (Pending(n, s) <=> Pending(req[r], s) /\ s # p),
         BeingCopied(tree', n, p) \/ Same(tree', body', p, Twin(r, p))
  PROVE  Mirrors(tree', body', n)
<1> DEFINE q == req[r]
           dst == Twin(r, p)
<1>1. /\ p \in q.left /\ p \in DOMAIN tree /\ IsPrefix(q.from, p) /\ q.at = "copying"
      /\ q.from \in DOMAIN tree /\ Apart(q.from, To(q)) /\ q.left \subseteq DOMAIN tree
      /\ \A s \in DOMAIN tree : IsPrefix(q.from, s) =>
           IF Pending(q, s) THEN CopyOf(q, s) \notin DOMAIN tree
           ELSE Same(tree, body, s, CopyOf(q, s))
      /\ dst = CopyOf(q, p) /\ dst \notin DOMAIN tree
  BY CopyFacts
<1>2. /\ To(n) = To(q) /\ \A s : CopyOf(n, s) = CopyOf(q, s)
  BY DEF To, CopyOf
<1>3. /\ q.from \in AnyPath /\ To(q) \in AnyPath /\ dst \in AnyPath /\ IsPrefix(To(q), dst)
      /\ DOMAIN tree \subseteq AnyPath
  <2>1. DOMAIN tree \subseteq AnyPath
    BY TreePaths
  <2>2. req[r].at \in Taking
    BY <1>1 DEF Taking
  <2>3. p \in AnyPath
    BY <1>1, <2>1
  <2> QED
    BY <1>1, <2>1, <2>2, <2>3, CopyPaths
<1>4. ~ IsPrefix(q.from, dst)
  BY <1>1, <1>3, PrefixOrder DEF Apart
<1>5. ASSUME NEW s \in DOMAIN tree, IsPrefix(q.from, s), s # p PROVE CopyOf(q, s) # dst
  BY <1>1, <1>3, <1>5, SwapOne DEF CopyOf
<1>6. ASSUME NEW s \in DOMAIN tree', IsPrefix(n.from, s)
      PROVE  IF Pending(n, s) THEN CopyOf(n, s) \notin DOMAIN tree'
             ELSE BeingCopied(tree', n, s) \/ Same(tree', body', s, CopyOf(n, s))
  <2>1. s \in DOMAIN tree /\ IsPrefix(q.from, s)
    BY <1>4, <1>6
  <2>2. CASE s = p
    BY <1>1, <1>2, <2>1, <2>2
  <2>3. CASE s # p
    <3>1. CASE Pending(n, s)
      BY <1>1, <1>2, <1>5, <2>1, <2>3, <3>1
    <3>2. CASE ~ Pending(n, s)
      <4>1. Same(tree, body, s, CopyOf(q, s))
        BY <1>1, <2>1, <2>3, <3>2
      <4>2. Same(tree', body', s, CopyOf(q, s))
        BY <2>1, <4>1 DEF Same
      <4> QED
        BY <1>2, <3>2, <4>2
    <3> QED
      BY <3>1, <3>2
  <2> QED
    BY <2>2, <2>3
<1> QED
  BY <1>1, <1>2, <1>6 DEF Mirrors

LEMMA CopyEntryCopies ==
  ASSUME FilesInv, NEW r \in Requests, NEW p, CopyEntry(r, p), Copies(tree, body, req[r])
  PROVE  Copies(tree', body', req'[r])
<1> DEFINE q == req[r]
           dst == Twin(r, p)
           others == q.left \ {p}
           n == req'[r]
<1>0. req \in [Requests -> FileRequest] /\ q \in FileRequest /\ body \in [Files -> Contents]
  BY DEF FilesInv, FilesTypeOK
<1>s. ASSUME NEW e, Set(r, e) PROVE n = e
  BY <1>s, <1>0 DEF Set
<1>1. /\ p \in q.left /\ p \in DOMAIN tree /\ IsPrefix(q.from, p) /\ q.at = "copying"
      /\ q.from \in DOMAIN tree /\ q.left \subseteq DOMAIN tree
      /\ \A l, m \in q.left : IsPrefix(l, m) => l = m
      /\ dst \notin DOMAIN tree /\ dst = CopyOf(q, p)
      /\ q.op = "move" /\ q.to \in DOMAIN tree /\ tree[q.to] = Dir
  BY CopyFacts
<1>2. DOMAIN tree \subseteq AnyPath /\ dst \in AnyPath
  BY <1>1, TreePaths, CopyParts
<1>3. \/ /\ IsDir(p)
         /\ DOMAIN tree' = DOMAIN tree \cup {dst} /\ tree'[dst] = Dir
         /\ \A s \in DOMAIN tree : tree'[s] = tree[s]
         /\ body' = body
         /\ Set(r, [q EXCEPT !.left = others \cup Children(p)])
      \/ /\ Exists(p) /\ ~ IsDir(p) /\ ~ IsDir(dst)
         /\ \E f \in Files :
              /\ Create(dst, f)
              /\ Set(r, [q EXCEPT !.at = "copying file", !.left = others,
                                  !.reads = tree[p], !.writes = f])
      \/ Set(r, NoRequest)
  BY CopyParts
<1>4. CASE /\ IsDir(p)
           /\ DOMAIN tree' = DOMAIN tree \cup {dst} /\ tree'[dst] = Dir
           /\ \A s \in DOMAIN tree : tree'[s] = tree[s]
           /\ body' = body
           /\ Set(r, [q EXCEPT !.left = others \cup Children(p)])
  <2>1. /\ n.left = others \cup Children(p) /\ n.at = "copying" /\ n.op = "move"
        /\ n.from = q.from /\ n.to = q.to
    BY <1>0, <1>1, <1>4, <1>s DEF FileRequest
  <2>2. \A m \in Children(p) : m \in DOMAIN tree /\ IsPrefix(p, m) /\ Len(m) = Len(p) + 1
    BY DEF Children, Under
  <2>3. ASSUME NEW l \in n.left, NEW m \in n.left, IsPrefix(l, m) PROVE l = m
    <3>1. CASE l \in others /\ m \in others
      BY <1>1, <2>3, <3>1
    <3>2. CASE l \in others /\ m \in Children(p)
      <4>1. IsPrefix(l, p) \/ IsPrefix(p, l)
        BY <1>1, <1>2, <2>2, <2>3, <3>2, PrefixOrder
      <4> QED
        BY <1>1, <3>2, <4>1
    <3>3. CASE l \in Children(p) /\ m \in others
      <4>1. IsPrefix(p, m)
        BY <1>1, <1>2, <2>2, <2>3, <3>3, PrefixOrder
      <4> QED
        BY <1>1, <3>3, <4>1
    <3>4. CASE l \in Children(p) /\ m \in Children(p)
      BY <1>2, <2>2, <2>3, <3>4, PrefixOrder
    <3> QED
      BY <2>1, <3>1, <3>2, <3>3, <3>4
  <2>4. ASSUME NEW s \in DOMAIN tree, IsPrefix(q.from, s)
        PROVE  Pending(n, s) <=> Pending(q, s) /\ s # p
    <3>1. ASSUME Pending(n, s) PROVE Pending(q, s) /\ s # p
      <4>1. PICK l \in n.left : IsPrefix(l, s)
        BY <3>1 DEF Pending
      <4>2. CASE l \in others
        BY <1>1, <4>1, <4>2 DEF Pending
      <4>3. CASE l \in Children(p)
        <5>1. IsPrefix(p, s)
          BY <1>1, <1>2, <2>2, <4>1, <4>3, PrefixOrder
        <5>2. s # p
          <6>1. ~ IsPrefix(l, p)
            BY <1>1, <1>2, <2>2, <4>3, PathLen, PrefixByEntry
          <6> QED
            BY <4>1, <6>1
        <5> QED
          BY <1>1, <5>1, <5>2 DEF Pending
      <4> QED
        BY <2>1, <4>2, <4>3
    <3>2. ASSUME Pending(q, s), s # p PROVE Pending(n, s)
      <4>1. PICK l \in q.left : IsPrefix(l, s)
        BY <3>2 DEF Pending
      <4>2. CASE l \in others
        BY <2>1, <4>1, <4>2 DEF Pending
      <4>3. CASE l = p
        <5> DEFINE m == SubSeq(s, 1, Len(p) + 1)
        <5>1. Len(p) \in Nat /\ Len(s) \in Nat /\ Len(p) < Len(s)
          <6>1. Len(p) <= Len(s) /\ Len(p) # Len(s)
            BY <1>1, <1>2, <3>2, <4>1, <4>3, PrefixByEntry, PrefixOrder
          <6> QED
            BY <1>1, <1>2, <6>1, PathLen
        <5>2. Len(p) + 1 \in 0 .. Len(s)
          BY ONLY <5>1
        <5>3. /\ m \in AnyPath /\ Len(m) = Len(p) + 1
              /\ \A i \in 1 .. Len(p) + 1 : m[i] = s[i]
          BY <1>2, <5>2, Top
        <5> HIDE DEF m
        <5>4. IsPrefix(m, s)
          BY <1>2, <5>1, <5>2, <5>3, PrefixByEntry
        <5>5. IsPrefix(p, m)
          <6>1. \A i \in 1 .. Len(p) : p[i] = s[i]
            BY <1>1, <1>2, <4>1, <4>3, PrefixByEntry
          <6>2. \A i \in 1 .. Len(p) : p[i] = m[i]
            BY <5>1, <5>3, <6>1
          <6> QED
            BY <1>1, <1>2, <5>1, <5>3, <6>2, PrefixByEntry
        <5>6. m \in DOMAIN tree
          BY <5>1, <5>3, <5>4, TreePaths
        <5> QED
          BY <2>1, <5>3, <5>4, <5>5, <5>6 DEF Pending, Children, Under
      <4> QED
        BY <4>2, <4>3
    <3> QED
      BY <3>1, <3>2
  <2>5. Same(tree', body', p, dst)
    BY <1>1, <1>4 DEF Same, IsDir, Exists
  <2>6. n.left \subseteq DOMAIN tree
    BY <1>1, <2>1, <2>2
  <2>7. Mirrors(tree', body', n)
    BY <1>4, <2>1, <2>3, <2>4, <2>5, <2>6, EntryCopied
  <2>8. n.to \in DOMAIN tree' /\ tree'[n.to] = Dir
    BY <1>1, <1>4, <2>1
  <2> QED
    BY <2>1, <2>7, <2>8 DEF Copies, Placed, Filling, Mirrored
<1>5. ASSUME NEW f \in Files, Exists(p), ~ IsDir(p), Create(dst, f),
             Set(r, [q EXCEPT !.at = "copying file", !.left = others,
                              !.reads = tree[p], !.writes = f])
      PROVE  Copies(tree', body', n)
  <2>1. /\ n.left = others /\ n.at = "copying file" /\ n.op = "move"
        /\ n.from = q.from /\ n.to = q.to /\ n.reads = tree[p] /\ n.writes = f
    BY <1>0, <1>1, <1>5, <1>s DEF FileRequest
  <2>2. /\ DOMAIN tree' = DOMAIN tree \cup {dst} /\ tree'[dst] = f
        /\ \A s \in DOMAIN tree : tree'[s] = tree[s] /\ tree[s] # f
        /\ body' = [body EXCEPT ![f] = Partial]
    BY <1>1, <1>2, <1>5, CreateParts
  <2>3. \A s \in DOMAIN tree : tree[s] # Dir => body'[tree[s]] = body[tree[s]]
    BY <1>0, <2>2, TreePaths
  <2>4. ASSUME NEW s \in DOMAIN tree, IsPrefix(q.from, s)
        PROVE  Pending(n, s) <=> Pending(q, s) /\ s # p
    <3>1. ASSUME Pending(n, s) PROVE Pending(q, s) /\ s # p
      <4>1. PICK l \in others : IsPrefix(l, s)
        BY <2>1, <3>1 DEF Pending
      <4> QED
        BY <1>1, <4>1 DEF Pending
    <3>2. ASSUME Pending(q, s), s # p PROVE Pending(n, s)
      <4>1. PICK l \in q.left : IsPrefix(l, s)
        BY <3>2 DEF Pending
      <4>2. l # p
        <5>1. p \in AnyPath /\ Len(p) > 0 /\ tree[p] # Dir
          BY <1>1, <1>5, TreePaths DEF IsDir, Exists
        <5> QED
          BY <3>2, <4>1, <5>1, TreePaths
      <4> QED
        BY <2>1, <4>1, <4>2 DEF Pending
    <3> QED
      BY <3>1, <3>2
  <2>5. BeingCopied(tree', n, p)
    <3>1. ~ Pending(n, p)
      BY <1>1, <2>4
    <3> QED
      BY <1>1, <2>1, <2>2, <3>1 DEF BeingCopied
  <2>6. n.left \subseteq DOMAIN tree /\ \A l, m \in n.left : IsPrefix(l, m) => l = m
    BY <1>1, <2>1
  <2>7. Mirrors(tree', body', n)
    <3>1. \A s \in DOMAIN tree : /\ tree'[s] = tree[s]
                                 /\ tree[s] # Dir => body'[tree[s]] = body[tree[s]]
      BY <2>2, <2>3
    <3>2. DOMAIN tree' = DOMAIN tree \cup {Twin(r, p)} /\ n.from = req[r].from /\ n.to = req[r].to
      BY <2>1, <2>2
    <3>3. n = req'[r]
      OBVIOUS
    <3> HIDE DEF n
    <3> QED
      BY <2>4, <2>5, <2>6, <3>1, <3>2, <3>3, EntryCopied
  <2>8. n.to \in DOMAIN tree' /\ tree'[n.to] = Dir
    BY <1>1, <2>1, <2>2
  <2>9. Filling(tree', body', n)
    <3>1. body'[n.writes] = Partial
      BY <1>0, <2>1, <2>2
    <3>2. CopyOf(n, p) = dst
      BY <1>1, <2>1 DEF CopyOf, To
    <3>3. p \in DOMAIN tree' /\ IsPrefix(n.from, p) /\ dst \in DOMAIN tree' /\ tree'[dst] = n.writes
      BY <1>1, <2>1, <2>2
    <3> QED
      BY <2>5, <3>1, <3>2, <3>3 DEF Filling
  <2> QED
    BY <2>1, <2>7, <2>8, <2>9 DEF Copies, Placed, Mirrored
<1>6. CASE Set(r, NoRequest)
  <2>1. n.at = "idle"
    BY <1>s, <1>6, Resting
  <2> HIDE DEF n
  <2> QED
    BY <2>1, NoCopies DEF n
<1> QED
  BY <1>3, <1>4, <1>5, <1>6


\* The next source of a move lies apart from its target.
LEMMA NextSourceCopies ==
  ASSUME FilesInv, NEW r \in Requests, NextSource(r), Copies(tree, body, req[r])
  PROVE  Copies(tree', body', req'[r])
<1> DEFINE q == req[r]
           abs == Resolve(Head(q.rels))
           rest == [q EXCEPT !.rels = Tail(q.rels), !.from = abs]
           removing == [rest EXCEPT !.at = "removing"]
           going == [rest EXCEPT !.at = "moving"]
           target == q.to \o <<Last(abs)>>
           n == req'[r]
<1>0. req \in [Requests -> FileRequest] /\ q \in FileRequest /\ SettingsTypeOK
  BY DEF FilesInv, FilesTypeOK
<1>s. ASSUME NEW e, Set(r, e) PROVE n = e
  BY <1>s, <1>0 DEF Set
<1>1. /\ q.at = "next" /\ tree' = tree /\ body' = body
      /\ \/ Set(r, NoRequest)
         \/ q.op = "delete" /\ Set(r, removing)
         \/ q.op # "delete" /\ Set(r, rest)
         \/ /\ q.op # "delete" /\ Set(r, going)
            /\ q.rels # << >> /\ abs # << >> /\ Exists(abs)
            /\ ~ (IsDir(abs) /\ IsPrefix(abs, q.to)) /\ target # abs /\ Free(target)
  BY DEF NextSource, Done, Nowhere, Look
<1>2. /\ rest.at = "next" /\ rest.op = q.op /\ rest.from = abs /\ rest.to = q.to
      /\ removing.at = "removing" /\ removing.op = q.op
      /\ going.at = "moving" /\ going.op = q.op /\ going.from = abs /\ going.to = q.to
  BY <1>0, <1>1 DEF FileRequest
<1>3. q.op \in {"move", "delete"} /\ q.to \in AnyPath
  BY <1>1, RequestParts DEF Serves
<1>4. CASE Set(r, NoRequest)
  <2>1. n.at = "idle"
    BY <1>s, <1>4, Resting
  <2> HIDE DEF n
  <2> QED
    BY <2>1, NoCopies DEF n
<1>5. CASE q.op = "delete" /\ Set(r, removing)
  <2>1. n.at = "removing" /\ n.op = "delete"
    BY <1>s, <1>2, <1>5
  <2> QED
    BY <2>1 DEF Copies, Placed, Mirrors, Filling, Mirrored
<1>6. CASE q.op # "delete" /\ Set(r, rest)
  <2>1. n.at = "next" /\ n.to = q.to
    BY <1>s, <1>2, <1>6
  <2>2. q.to \in DOMAIN tree /\ tree[q.to] = Dir
    BY <1>1, <1>3, <1>6 DEF Copies, Placed
  <2> QED
    BY <1>1, <2>1, <2>2 DEF Copies, Placed, Mirrors, Filling, Mirrored
<1>7. CASE /\ q.op # "delete" /\ Set(r, going)
           /\ q.rels # << >> /\ abs # << >> /\ Exists(abs)
           /\ ~ (IsDir(abs) /\ IsPrefix(abs, q.to)) /\ target # abs /\ Free(target)
  <2>1. n.at = "moving" /\ n.from = abs /\ n.to = q.to
    BY <1>s, <1>2, <1>7
  <2>2. q.to \in DOMAIN tree /\ tree[q.to] = Dir
    BY <1>1, <1>3, <1>7 DEF Copies, Placed
  <2>3. abs \in DOMAIN tree /\ abs \in AnyPath /\ Len(abs) > 0
    BY <1>7, TreePaths DEF Exists
  <2> HIDE DEF abs
  <2>4. Last(abs) \in Names
    BY <2>3, PathLen DEF Last, AnyPath
  <2>5. /\ target \in AnyPath /\ Front(target) = q.to /\ Len(target) = Len(q.to) + 1
    BY <1>3, <2>4, ChildPath
  <2>6. target \notin DOMAIN tree /\ target # abs
    BY <1>7 DEF Free, Exists
  <2> HIDE DEF target
  <2>7. Len(target) > 0
    BY <1>3, <2>5, PathLen
  <2>8. ~ IsPrefix(target, abs)
    BY <2>3, <2>5, <2>6, <2>7, TreePaths
  <2>9. ~ IsPrefix(abs, target)
    <3>1. ASSUME IsPrefix(abs, target) PROVE IsPrefix(abs, q.to)
      BY <2>3, <2>5, <2>6, <2>7, <3>1, FrontPath
    <3>2. ASSUME IsPrefix(abs, q.to) PROVE IsDir(abs)
      BY <2>2, <2>3, <3>2, TreePaths DEF IsDir, Exists
    <3> QED
      BY <1>7, <3>1, <3>2
  <2>10. To(n) = target
    BY <2>1 DEF To, target
  <2>11. Placed(tree', n)
    BY <1>1, <2>1, <2>2, <2>3, <2>6, <2>8, <2>9, <2>10 DEF Placed, Apart
  <2> QED
    BY <2>1, <2>11 DEF Copies, Mirrors, Filling, Mirrored
<1> QED
  BY <1>1, <1>4, <1>5, <1>6, <1>7

\* A source is renamed, or begins to be copied.
LEMMA MoveSourceCopies ==
  ASSUME FilesInv, NEW r \in Requests, MoveSource(r), Copies(tree, body, req[r])
  PROVE  Copies(tree', body', req'[r])
<1> DEFINE q == req[r]
           next == [q EXCEPT !.at = "next"]
           copying == [q EXCEPT !.at = "copying", !.left = {q.from}]
           n == req'[r]
<1>0. req \in [Requests -> FileRequest] /\ q \in FileRequest
  BY DEF FilesInv, FilesTypeOK
<1>s. ASSUME NEW e, Set(r, e) PROVE n = e
  BY <1>s, <1>0 DEF Set
<1>1. /\ q.at = "moving" /\ body' = body /\ q.op = "move"
      /\ \/ CanRename(q.from, Target(r)) /\ tree' = Renamed(q.from, Target(r)) /\ Set(r, next)
         \/ tree' = tree /\ Set(r, copying)
  BY RequestParts DEF MoveSource, Serves
<1>2. /\ next.at = "next" /\ next.to = q.to
      /\ copying.at = "copying" /\ copying.from = q.from /\ copying.to = q.to
      /\ copying.left = {q.from} /\ copying.op = q.op
  BY <1>0, <1>1 DEF FileRequest
<1>3. /\ q.to \in DOMAIN tree /\ tree[q.to] = Dir
      /\ To(q) \notin DOMAIN tree /\ q.from \in DOMAIN tree /\ Apart(q.from, To(q))
  BY <1>1 DEF Copies, Placed
<1>4. q.at \in Taking
  BY <1>1 DEF Taking
<1>5. /\ q.from \in AnyPath /\ To(q) \in AnyPath /\ q.to \in AnyPath /\ Target(r) = To(q)
      /\ IsPrefix(q.to, To(q)) /\ Len(To(q)) = Len(q.to) + 1
  BY <1>4, CopyPaths
<1>6. CASE CanRename(q.from, Target(r)) /\ tree' = Renamed(q.from, Target(r)) /\ Set(r, next)
  <2>1. TreeMoved(tree, tree', q.from, To(q))
    BY <1>5, <1>6, RenameParts
  <2>2. ~ IsPrefix(q.from, q.to)
    BY <1>3, <1>5, PrefixOrder DEF Apart
  <2>3. q.to \notin MovedTo(tree, q.from, To(q))
    <3>1. ASSUME NEW s \in DOMAIN tree, IsPrefix(q.from, s) PROVE Swap(q.from, To(q), s) # q.to
      <4>1. s \in AnyPath
        BY TreePaths
      <4>2. IsPrefix(To(q), Swap(q.from, To(q), s))
        BY <1>5, <3>1, <4>1, Swapped
      <4>3. ~ IsPrefix(To(q), q.to)
        BY <1>5, PathLen, PrefixByEntry
      <4> QED
        BY <4>2, <4>3
    <3> QED
      BY <3>1 DEF MovedTo
  <2>4. q.to \in DOMAIN tree' /\ tree'[q.to] = Dir
    BY <1>3, <2>1, <2>2, <2>3 DEF TreeMoved
  <2>5. n.at = "next" /\ n.to = q.to
    BY <1>s, <1>2, <1>6
  <2> QED
    BY <2>4, <2>5 DEF Copies, Placed, Mirrors, Filling, Mirrored
<1>7. CASE tree' = tree /\ Set(r, copying)
  <2>1. n.at = "copying" /\ n.from = q.from /\ n.to = q.to /\ n.left = {q.from}
    BY <1>s, <1>2, <1>7
  <2>2. To(n) = To(q) /\ \A s : CopyOf(n, s) = CopyOf(q, s)
    BY <2>1 DEF To, CopyOf
  <2>3. ASSUME NEW s \in DOMAIN tree, IsPrefix(q.from, s)
        PROVE  Pending(n, s) /\ CopyOf(n, s) \notin DOMAIN tree
    <3>1. Pending(n, s)
      BY <2>1, <2>3 DEF Pending
    <3>2. s \in AnyPath
      BY TreePaths
    <3>3. IsPrefix(To(q), CopyOf(q, s))
      BY <1>4, <2>3, <3>2, CopyPaths
    <3>4. Len(To(q)) > 0
      BY <1>5, PathLen
    <3>5. CopyOf(q, s) \notin DOMAIN tree
      BY <1>3, <1>5, <3>3, <3>4, TreePaths
    <3> QED
      BY <2>2, <3>1, <3>5
  <2>4. Mirrors(tree', body', n)
    BY <1>3, <1>7, <2>1, <2>2, <2>3 DEF Mirrors
  <2>5. Placed(tree', n)
    BY <1>3, <1>7, <2>1 DEF Placed
  <2> QED
    BY <2>1, <2>4, <2>5 DEF Copies, Filling, Mirrored
<1> QED
  BY <1>1, <1>6, <1>7

\* The copy of a file is complete.
LEMMA CopyFileCopies ==
  ASSUME FilesInv, NEW r \in Requests, CopyFile(r), Copies(tree, body, req[r])
  PROVE  Copies(tree', body', req'[r])
<1> DEFINE q == req[r]
           copied == [q EXCEPT !.at = "copying", !.reads = 0, !.writes = 0]
           n == req'[r]
<1>0. req \in [Requests -> FileRequest] /\ q \in FileRequest /\ body \in [Files -> Contents]
  BY DEF FilesInv, FilesTypeOK
<1>s. ASSUME NEW e, Set(r, e) PROVE n = e
  BY <1>s, <1>0 DEF Set
<1>1. /\ q.at = "copying file" /\ q.op = "move" /\ tree' = tree
      /\ q.reads \in Files /\ q.writes \in Files
      /\ \/ body' = [body EXCEPT ![q.writes] = body[q.reads]] /\ Set(r, copied)
         \/ Set(r, NoRequest)
  BY RequestParts DEF CopyFile, Serves, Done
<1>2. copied.at = "copying" /\ copied.from = q.from /\ copied.to = q.to /\ copied.left = q.left
  BY <1>0, <1>1 DEF FileRequest
<1>3. CASE Set(r, NoRequest)
  <2>1. n.at = "idle"
    BY <1>s, <1>3, Resting
  <2> HIDE DEF n
  <2> QED
    BY <2>1, NoCopies DEF n
<1>4. CASE body' = [body EXCEPT ![q.writes] = body[q.reads]] /\ Set(r, copied)
  <2>1. n.at = "copying" /\ n.from = q.from /\ n.to = q.to /\ n.left = q.left
    BY <1>s, <1>2, <1>4
  <2>2. To(n) = To(q) /\ (\A s : CopyOf(n, s) = CopyOf(q, s)) /\ \A s : Pending(n, s) <=> Pending(q, s)
    BY <2>1 DEF To, CopyOf, Pending
  <2>3. /\ q.from \in DOMAIN tree /\ Apart(q.from, To(q)) /\ q.left \subseteq DOMAIN tree
        /\ \A l, m \in q.left : IsPrefix(l, m) => l = m
        /\ \A s \in DOMAIN tree : IsPrefix(q.from, s) =>
             IF Pending(q, s) THEN CopyOf(q, s) \notin DOMAIN tree
             ELSE BeingCopied(tree, q, s) \/ Same(tree, body, s, CopyOf(q, s))
    BY <1>1 DEF Copies, Mirrors
  <2>4. PICK p \in DOMAIN tree : /\ IsPrefix(q.from, p) /\ BeingCopied(tree, q, p)
                                 /\ CopyOf(q, p) \in DOMAIN tree /\ tree[CopyOf(q, p)] = q.writes
    BY <1>1 DEF Copies, Filling
  <2>5. DOMAIN tree \subseteq AnyPath /\ q.at \in Taking
    BY <1>1, TreePaths DEF Taking
  <2>6. q.from \in AnyPath /\ To(q) \in AnyPath
    BY <2>5, CopyPaths
  <2>7. ASSUME NEW s \in DOMAIN tree, IsPrefix(q.from, s)
        PROVE  CopyOf(q, s) \in AnyPath /\ IsPrefix(To(q), CopyOf(q, s))
    BY <2>5, <2>7, CopyPaths
  <2>8. ASSUME NEW s \in DOMAIN tree, IsPrefix(q.from, s) PROVE tree[s] # q.writes
    <3>1. s # CopyOf(q, p)
      BY <2>3, <2>4, <2>5, <2>6, <2>7, <2>8, ApartBelow
    <3>2. q.writes # Dir
      BY <1>1, TreePaths
    <3> QED
      BY <2>4, <3>1, <3>2, TreePaths
  <2>9. q.reads # q.writes
    BY <2>4, <2>8 DEF BeingCopied
  <2>10. body'[q.writes] = body[q.reads] /\ \A f \in Files \ {q.writes} : body'[f] = body[f]
    BY <1>0, <1>1, <1>4
  <2>11. ASSUME NEW s \in DOMAIN tree, IsPrefix(q.from, s), ~ Pending(q, s)
         PROVE  Same(tree, body', s, CopyOf(q, s))
    <3>1. CASE s = p
      <4>1. tree[p] = q.reads /\ tree[CopyOf(q, p)] = q.writes
        BY <2>4 DEF BeingCopied
      <4>2. body'[q.reads] = body[q.reads] /\ q.reads # Dir /\ q.writes # Dir
        BY <1>1, <2>9, <2>10, TreePaths
      <4> QED
        BY <2>4, <2>10, <3>1, <4>1, <4>2 DEF Same
    <3>2. CASE s # p
      <4>1. ~ BeingCopied(tree, q, s)
        <5>1. tree[s] # q.reads
          BY <1>1, <2>4, <3>2, TreePaths DEF BeingCopied
        <5> QED
          BY <5>1 DEF BeingCopied
      <4>2. Same(tree, body, s, CopyOf(q, s))
        BY <2>3, <2>11, <4>1
      <4>3. CopyOf(q, s) # CopyOf(q, p)
        BY <2>4, <2>5, <2>6, <2>11, <3>2, SwapOne DEF CopyOf
      <4>4. CopyOf(q, s) \in DOMAIN tree /\ tree[CopyOf(q, s)] # q.writes
        <5>1. q.writes # Dir
          BY <1>1, TreePaths
        <5> QED
          BY <2>4, <4>2, <4>3, <5>1, TreePaths DEF Same
      <4>5. \A e \in DOMAIN tree : tree[e] # Dir /\ tree[e] # q.writes => body'[tree[e]] = body[tree[e]]
        BY <2>10, TreePaths
      <4> QED
        BY <2>8, <2>11, <4>2, <4>4, <4>5 DEF Same
    <3> QED
      BY <3>1, <3>2
  <2>12. Mirrors(tree', body', n)
    BY <1>1, <2>1, <2>2, <2>3, <2>11 DEF Mirrors
  <2>13. Placed(tree', n)
    BY <1>1, <2>1 DEF Copies, Placed
  <2> QED
    BY <2>1, <2>12, <2>13 DEF Copies, Filling, Mirrored
<1> QED
  BY <1>1, <1>3, <1>4

\* The copy is complete, and its source is removed.
LEMMA RemoveCopies ==
  ASSUME FilesInv, NEW r \in Requests, Copied(r) \/ Removed(r) \/ \E p : RemoveEntry(r, p),
         Copies(tree, body, req[r])
  PROVE  Copies(tree', body', req'[r])
<1> DEFINE q == req[r]
           n == req'[r]
<1>0. req \in [Requests -> FileRequest] /\ q \in FileRequest
  BY DEF FilesInv, FilesTypeOK
<1>s. ASSUME NEW e, Set(r, e) PROVE n = e
  BY <1>s, <1>0 DEF Set
<1>1. CASE Copied(r)
  <2> DEFINE removing == [q EXCEPT !.at = "removing"]
  <2>1. /\ q.at = "copying" /\ q.left = {} /\ q.op = "move" /\ tree' = tree /\ body' = body
        /\ Set(r, removing)
    BY <1>1, RequestParts DEF Copied, Look, Serves
  <2>2. removing.at = "removing" /\ removing.from = q.from /\ removing.to = q.to
    BY <1>0 DEF FileRequest
  <2>3. n.at = "removing" /\ n.from = q.from /\ n.to = q.to
    BY <1>s, <2>1, <2>2
  <2>4. To(n) = To(q) /\ \A s : CopyOf(n, s) = CopyOf(q, s)
    BY <2>3 DEF To, CopyOf
  <2>5. /\ Apart(q.from, To(q))
        /\ \A s \in DOMAIN tree : IsPrefix(q.from, s) => Same(tree, body, s, CopyOf(q, s))
    BY <2>1 DEF Copies, Mirrors, Pending, BeingCopied
  <2>6. Mirrored(tree', body', n)
    BY <2>1, <2>3, <2>4, <2>5 DEF Mirrored
  <2>7. Placed(tree', n)
    BY <2>1, <2>3 DEF Copies, Placed
  <2> QED
    BY <2>3, <2>6, <2>7 DEF Copies, Mirrors, Filling
<1>2. CASE Removed(r)
  <2> DEFINE next == [q EXCEPT !.at = "next"]
  <2>1. q.at = "removing" /\ tree' = tree /\ Set(r, next)
    BY <1>2 DEF Removed, Look
  <2>2. next.at = "next" /\ next.to = q.to /\ next.op = q.op
    BY <1>0 DEF FileRequest
  <2>3. n.at = "next" /\ n.to = q.to /\ n.op = q.op
    BY <1>s, <2>1, <2>2
  <2>4. Placed(tree', n)
    BY <2>1, <2>3 DEF Copies, Placed
  <2> QED
    BY <2>3, <2>4 DEF Copies, Mirrors, Filling, Mirrored
<1>3. ASSUME NEW p, RemoveEntry(r, p) PROVE Copies(tree', body', n)
  <2>1. /\ q.at = "removing" /\ p \in DOMAIN tree /\ IsPrefix(q.from, p) /\ body' = body
        /\ \/ /\ DOMAIN tree' = DOMAIN tree \ {p} /\ \A s \in DOMAIN tree' : tree'[s] = tree[s]
              /\ req' = req
           \/ Set(r, NoRequest)
    BY <1>3, RemoveParts
  <2>2. CASE Set(r, NoRequest)
    <3>1. n.at = "idle"
      BY <1>s, <2>2, Resting
    <3> HIDE DEF n
    <3> QED
      BY <3>1, NoCopies DEF n
  <2>3. CASE /\ DOMAIN tree' = DOMAIN tree \ {p} /\ \A s \in DOMAIN tree' : tree'[s] = tree[s]
             /\ req' = req
    <3>1. n = q
      BY <2>3
    <3>2. CASE q.op # "move"
      BY <2>1, <3>1, <3>2 DEF Copies, Placed, Mirrors, Filling, Mirrored
    <3>3. CASE q.op = "move"
      <4>1. /\ Apart(q.from, To(q)) /\ q.to \in DOMAIN tree /\ tree[q.to] = Dir
            /\ \A s \in DOMAIN tree : IsPrefix(q.from, s) => Same(tree, body, s, CopyOf(q, s))
        BY <2>1, <3>3 DEF Copies, Mirrored, Placed
      <4>2. /\ DOMAIN tree \subseteq AnyPath /\ q.from \in AnyPath /\ To(q) \in AnyPath
            /\ q.to \in AnyPath /\ IsPrefix(q.to, To(q))
        <5>1. q.at \in Taking
          BY <2>1 DEF Taking
        <5> QED
          BY <5>1, TreePaths, CopyPaths
      <4>3. ASSUME NEW s \in DOMAIN tree, IsPrefix(q.from, s) PROVE CopyOf(q, s) # p
        <5>1. CopyOf(q, s) \in AnyPath /\ IsPrefix(To(q), CopyOf(q, s))
          BY <4>2, <4>3, Swapped DEF CopyOf
        <5> QED
          BY <2>1, <4>1, <4>2, <5>1, ApartBelow
      <4>4. p # q.to
        BY <2>1, <4>1, <4>2, PrefixOrder DEF Apart
      <4>5. ASSUME NEW s \in DOMAIN tree', IsPrefix(q.from, s)
            PROVE  Same(tree', body', s, CopyOf(q, s))
        <5>1. s \in DOMAIN tree /\ Same(tree, body, s, CopyOf(q, s))
          BY <2>3, <4>1, <4>5
        <5> QED
          BY <2>1, <2>3, <4>3, <4>5, <5>1 DEF Same
      <4>6. Mirrored(tree', body', n)
        BY <3>1, <4>1, <4>5 DEF Mirrored
      <4>7. Placed(tree', n)
        BY <2>1, <2>3, <3>1, <4>1, <4>4 DEF Placed
      <4> QED
        BY <2>1, <3>1, <4>6, <4>7 DEF Copies, Mirrors, Filling
    <3> QED
      BY <3>2, <3>3
  <2> QED
    BY <2>1, <2>2, <2>3
<1> QED
  BY <1>1, <1>2, <1>3


LEMMA FileStepCopies ==
  ASSUME FilesInv, NEW r \in Requests, FileStep(r), Copies(tree, body, req[r])
  PROVE  Copies(tree', body', req'[r])
<1>1. ASSUME NEW p, CopyEntry(r, p) \/ RemoveEntry(r, p) PROVE Copies(tree', body', req'[r])
  BY <1>1, CopyEntryCopies, RemoveCopies
<1> QED
  BY <1>1, StartCopies, NextSourceCopies, MoveSourceCopies, CopyFileCopies, RemoveCopies DEF FileStep

\* A lone file request begins or goes on: the others rest.
LEMMA OthersRest ==
  ASSUME Sound, NEW r \in Requests, FileStep(r), ~ overlapped'
  PROVE  ~ overlapped /\ (\A s \in Requests \ {r} : req[s].at = "idle" /\ req'[s].at = "idle")
<1>1. ~ overlapped /\ \A s \in Requests \ {r} : req'[s] = req[s]
  BY FileStepFrame, OthersStay DEF Sound
<1>2. CASE req[r].at # "idle"
  BY <1>1, <1>2, Alone
<1>3. CASE Busy = {}
  BY <1>1, <1>3 DEF Busy
<1> QED
  BY <1>1, <1>2, <1>3, FileStepFrame

\* The steps that are of no file request leave the files as they are.
LEMMA OtherSteps ==
  ASSUME [ServerNext]_serverVars
  PROVE  \/ \E r \in Requests : FileStep(r)
         \/ UNCHANGED <<tree, body, req, taken>> /\ (overlapped => overlapped')
         \/ UNCHANGED <<tree, body, taken, overlapped>> /\ req' = [r \in Requests |-> NoRequest]
<1>1. ASSUME NEW r \in Requests, overlapped' = (overlapped \/ Busy # {}) PROVE overlapped => overlapped'
  BY <1>1
<1>2. CASE \E r \in Requests : /\ Marshal(r) /\ overlapped' = (overlapped \/ Busy # {})
                               /\ UNCHANGED <<tree, body, req, ops, taken>>
  BY <1>1, <1>2
<1>3. CASE UNCHANGED filesVars
  BY <1>3 DEF filesVars
<1> QED
  BY <1>2, <1>3, Zenon DEF ServerNext, serverVars

LEMMA MoveInvInit == ServerInit => MoveInv
BY NoCopies DEF ServerInit, FilesInit, MoveInv, NoRequest

LEMMA MoveInvNext == Sound /\ MoveInv /\ [ServerNext]_serverVars => MoveInv'
<1> SUFFICES ASSUME Sound, MoveInv, [ServerNext]_serverVars, ~ overlapped' PROVE MoveInv'
  BY DEF MoveInv
<1>1. ASSUME NEW r \in Requests, FileStep(r) PROVE MoveInv'
  <2>1. ~ overlapped /\ \A s \in Requests \ {r} : req'[s].at = "idle"
    BY <1>1, OthersRest
  <2>2. Copies(tree', body', req'[r])
    BY <1>1, <2>1, FileStepCopies DEF MoveInv, Sound
  <2>3. \A s \in Requests : Copies(tree', body', req'[s])
    BY <2>1, <2>2, NoCopies
  <2> QED
    BY <2>3 DEF MoveInv
<1>2. CASE UNCHANGED <<tree, body, req>> /\ (overlapped => overlapped')
  BY <1>2 DEF MoveInv
<1>3. CASE req' = [r \in Requests |-> NoRequest]
  BY <1>3, NoCopies DEF MoveInv, NoRequest
<1> QED
  BY <1>1, <1>2, <1>3, OtherSteps

LEMMA MoveInvariant == ServerSpec => []MoveInv
<1>1. Sound /\ MoveInv /\ [ServerNext]_serverVars => MoveInv'
  BY MoveInvNext
<1> QED
  BY <1>1, MoveInvInit, SoundInvariant, PTL DEF ServerSpec

----------------------------------------------------------------------------
(* Contents                                                                *)

Held(t, b, c) == \E p \in DOMAIN t : t[p] # Dir /\ b[t[p]] = c

LEMMA FirstContents ==
  /\ Partial \notin Range(FirstBody) /\ Fresh \notin Range(FirstBody) /\ Partial # Fresh
  /\ Dir \notin Files
BY FilesAssumption

\* A step of a lone file request takes no content away but those it was aimed at.
LEMMA ContentsStay ==
  ASSUME FilesInv, NEW r \in Requests, FileStep(r), Copies(tree, body, req[r]),
         NEW c \in Range(FirstBody), Held(tree, body, c)
  PROVE  c \in taken' \/ Held(tree', body', c)
<1>0. IsTree(tree) /\ body \in [Files -> Contents] /\ SettingsTypeOK
  BY DEF FilesInv, FilesTypeOK
<1>1. PICK p \in DOMAIN tree : tree[p] \in Files /\ tree[p] # Dir /\ body[tree[p]] = c
  BY TreePaths DEF Held
<1>p. p \in AnyPath
  BY TreePaths
<1>2. CASE UNCHANGED <<tree, body>>
  BY <1>1, <1>2 DEF Held
<1>3. ASSUME NEW dst \in AnyPath, NEW f \in Files, Create(dst, f), f # tree[p]
      PROVE  Held(tree', body', c)
  <2>1. p \in DOMAIN tree' /\ tree'[p] = tree[p]
    BY <1>3, CreateParts
  <2>2. body' = [body EXCEPT ![f] = Partial]
    BY <1>3, CreateParts
  <2> QED
    BY <1>0, <1>1, <1>3, <2>1, <2>2 DEF Held
<1>4. CASE OpenUpload(r)
  <2> DEFINE dst == Resolve(req[r].rels[1])
  <2>1. dst \in AnyPath
    BY <1>0, <1>4, RequestParts, ResolveParts DEF OpenUpload
  <2>2. ASSUME NEW f \in Files, Create(dst, f),
               taken' = taken \cup (IF Exists(dst) THEN {body[f]} ELSE {})
        PROVE  c \in taken' \/ Held(tree', body', c)
    <3>1. CASE f # tree[p]
      BY <1>3, <2>1, <2>2, <3>1
    <3>2. CASE f = tree[p]
      <4>1. Exists(dst)
        BY <1>1, <2>1, <2>2, <3>2, CreateParts DEF Exists
      <4> QED
        BY <1>1, <2>2, <3>2, <4>1
    <3> QED
      BY <3>1, <3>2
  <2> HIDE DEF dst
  <2>3. \/ UNCHANGED <<tree, body>>
        \/ \E f \in Files : /\ Create(dst, f)
                            /\ taken' = taken \cup (IF Exists(dst) THEN {body[f]} ELSE {})
    BY <1>4 DEF OpenUpload, dst
  <2> QED
    BY <1>2, <2>2, <2>3
<1>5. ASSUME tree' = tree, body[req[r].writes] = Partial,
             \A f \in Files : f # req[r].writes => body'[f] = body[f]
      PROVE  Held(tree', body', c)
  <2>1. tree[p] # req[r].writes
    BY <1>1, <1>5, FirstContents
  <2> QED
    BY <1>1, <1>5, <2>1 DEF Held
<1>6. CASE Receive(r) \/ CopyFile(r)
  <2>1. tree' = tree /\ req[r].at \in {"receiving", "copying file"}
    BY <1>6 DEF Receive, CopyFile
  <2>2. body[req[r].writes] = Partial
    BY <2>1 DEF Copies, Filling
  <2>3. \A f \in Files : f # req[r].writes => body'[f] = body[f]
    BY <1>0, <1>6 DEF Receive, CopyFile
  <2> QED
    BY <1>5, <2>1, <2>2, <2>3
<1>7. CASE MakeDir(r)
  <2>1. CASE CanCreate(req[r].to) /\ ~ Exists(req[r].to) /\ tree' = Bind(req[r].to, Dir)
    <3>1. p \in DOMAIN tree' /\ tree'[p] = tree[p]
      BY <1>1, <2>1, RequestParts, MkdirParts
    <3> QED
      BY <1>1, <1>7, <3>1 DEF MakeDir, Held
  <2> QED
    BY <1>2, <1>7, <2>1 DEF MakeDir
<1>8. ASSUME NEW a \in AnyPath, NEW b \in AnyPath, CanRename(a, b), tree' = Renamed(a, b),
             b \notin DOMAIN tree, body' = body
      PROVE  Held(tree', body', c)
  <2>1. TreeMoved(tree, tree', a, b) /\ \A q \in DOMAIN tree : IsPrefix(b, q) => q = b
    BY <1>8, RenameParts
  <2>2. CASE IsPrefix(a, p)
    <3>1. Swap(a, b, p) \in DOMAIN tree' /\ tree'[Swap(a, b, p)] = tree[p]
      BY <1>1, <2>1, <2>2 DEF TreeMoved, MovedTo
    <3> QED
      BY <1>1, <1>8, <3>1 DEF Held
  <2>3. CASE ~ IsPrefix(a, p)
    <3>1. p \notin MovedTo(tree, a, b)
      <4>1. ASSUME NEW s \in DOMAIN tree, IsPrefix(a, s) PROVE Swap(a, b, s) # p
        <5>1. s \in AnyPath
          BY TreePaths
        <5>2. IsPrefix(b, Swap(a, b, s))
          BY <4>1, <5>1, Swapped
        <5> QED
          BY <1>1, <1>8, <2>1, <5>2
      <4> QED
        BY <4>1 DEF MovedTo
    <3>2. p \in DOMAIN tree' /\ tree'[p] = tree[p]
      BY <1>1, <2>1, <2>3, <3>1 DEF TreeMoved
    <3> QED
      BY <1>1, <1>8, <3>2 DEF Held
  <2> QED
    BY <2>2, <2>3
<1>9. CASE DoRename(r)
  <2>1. req[r].to \notin DOMAIN tree /\ body' = body
    BY <1>9 DEF DoRename, Copies, Placed
  <2> QED
    BY <1>2, <1>8, <1>9, <2>1, RequestParts DEF DoRename
<1>10. CASE MoveSource(r)
  <2>1. req[r].at = "moving" /\ body' = body
    BY <1>10 DEF MoveSource
  <2>2. /\ To(req[r]) \notin DOMAIN tree /\ To(req[r]) = Target(r) /\ Target(r) \in AnyPath
        /\ req[r].from \in AnyPath
    <3>1. req[r].at \in Taking
      BY <2>1 DEF Taking
    <3> QED
      BY <2>1, <3>1, CopyPaths DEF Copies, Placed
  <2> QED
    BY <1>2, <1>8, <1>10, <2>1, <2>2 DEF MoveSource
<1>11. ASSUME NEW e, CopyEntry(r, e) PROVE Held(tree', body', c)
  <2>1. Twin(r, e) \in AnyPath /\ Twin(r, e) \notin DOMAIN tree
    <3>1. Twin(r, e) \in AnyPath
      BY <1>11, CopyParts
    <3>2. Twin(r, e) \notin DOMAIN tree
      BY <1>11, CopyFacts
    <3> QED
      BY <3>1, <3>2
  <2>2. \/ body' = body /\ \A s \in DOMAIN tree : s \in DOMAIN tree' /\ tree'[s] = tree[s]
        \/ \E f \in Files : Create(Twin(r, e), f)
        \/ UNCHANGED <<tree, body>>
    BY <1>11, CopyParts
  <2>3. ASSUME NEW f \in Files, Create(Twin(r, e), f) PROVE f # tree[p]
    BY <1>1, <2>1, <2>3, CreateParts
  <2>4. CASE body' = body /\ \A s \in DOMAIN tree : s \in DOMAIN tree' /\ tree'[s] = tree[s]
    BY <1>1, <2>4 DEF Held
  <2> QED
    BY <1>2, <1>3, <2>1, <2>2, <2>3, <2>4
<1>12. ASSUME NEW e, RemoveEntry(r, e) PROVE c \in taken' \/ Held(tree', body', c)
  <2>1. /\ req[r].at = "removing" /\ e \in DOMAIN tree /\ IsPrefix(req[r].from, e) /\ body' = body
        /\ \/ /\ DOMAIN tree' = DOMAIN tree \ {e} /\ \A s \in DOMAIN tree' : tree'[s] = tree[s]
              /\ taken' = taken \cup (IF req[r].op = "delete" /\ ~ IsDir(e) THEN {body[tree[e]]} ELSE {})
           \/ UNCHANGED tree
    BY <1>12, RemoveParts
  <2>2. CASE UNCHANGED tree
    BY <1>2, <2>1, <2>2
  <2>3. CASE /\ DOMAIN tree' = DOMAIN tree \ {e} /\ \A s \in DOMAIN tree' : tree'[s] = tree[s]
             /\ taken' = taken \cup (IF req[r].op = "delete" /\ ~ IsDir(e) THEN {body[tree[e]]} ELSE {})
    <3>1. CASE e # p
      BY <1>1, <2>1, <2>3, <3>1 DEF Held
    <3>2. CASE e = p /\ req[r].op = "delete"
      BY <1>1, <2>3, <3>2 DEF IsDir
    <3>3. CASE e = p /\ req[r].op = "move"
      <4> DEFINE twin == CopyOf(req[r], p)
      <4>1. Apart(req[r].from, To(req[r])) /\ Same(tree, body, p, twin)
        BY <2>1, <3>3 DEF Copies, Mirrored
      <4>2. req[r].at \in Taking
        BY <2>1 DEF Taking
      <4>3. twin # p
        <5>1. /\ req[r].from \in AnyPath /\ To(req[r]) \in AnyPath
              /\ twin \in AnyPath /\ IsPrefix(To(req[r]), twin)
          BY <1>p, <2>1, <3>3, <4>2, CopyPaths
        <5> HIDE DEF twin
        <5> QED
          BY <1>p, <2>1, <3>3, <4>1, <5>1, ApartBelow
      <4>4. twin \in DOMAIN tree /\ tree[twin] # Dir /\ body[tree[twin]] = c
        BY <1>1, <4>1 DEF Same
      <4> HIDE DEF twin
      <4>5. twin \in DOMAIN tree' /\ tree'[twin] = tree[twin]
        BY <2>3, <3>3, <4>3, <4>4
      <4> QED
        BY <2>1, <4>4, <4>5 DEF Held
    <3>4. req[r].op \in {"move", "delete"}
      BY <2>1, RequestParts DEF Serves
    <3> QED
      BY <3>1, <3>2, <3>3, <3>4
  <2> QED
    BY <2>1, <2>2, <2>3
<1>13. CASE NameNew(r) \/ StatNewDir(r) \/ NextSource(r) \/ Copied(r) \/ Removed(r)
  BY <1>2, <1>13 DEF NameNew, StatNewDir, NextSource, Copied, Removed, Look
<1>14. CASE \/ \E rel \in ClientPaths, name \in NewNames, op \in {"upload", "mkdir"} : StartNew(r, op, rel, name)
            \/ \E rel \in ClientPaths, name \in NewNames : StartRename(r, rel, name)
            \/ \E a, b \in ClientPaths, dest \in ClientPaths :
                 StartMove(r, IF a = b THEN <<a>> ELSE <<a, b>>, dest)
            \/ \E a \in ClientPaths : StartDelete(r, <<a>>)
  BY <1>2, <1>14 DEF StartNew, StartRename, StartMove, StartDelete, Begin
<1> QED
  BY <1>4, <1>6, <1>7, <1>9, <1>10, <1>11, <1>12, <1>13, <1>14 DEF FileStep

\* Nothing that was taken comes back into question.
LEMMA TakenGrows ==
  ASSUME [ServerNext]_serverVars
  PROVE  taken \subseteq taken' /\ (overlapped => overlapped')
<1>1. ASSUME NEW r \in Requests, FileStep(r) PROVE taken \subseteq taken'
  <2>1. CASE OpenUpload(r)
    BY <2>1 DEF OpenUpload
  <2>2. ASSUME NEW p, RemoveEntry(r, p) PROVE taken \subseteq taken'
    BY <2>2 DEF RemoveEntry
  <2>3. CASE \/ \E rel \in ClientPaths, name \in NewNames, op \in {"upload", "mkdir"} : StartNew(r, op, rel, name)
             \/ \E rel \in ClientPaths, name \in NewNames : StartRename(r, rel, name)
             \/ \E a, b \in ClientPaths, dest \in ClientPaths :
                  StartMove(r, IF a = b THEN <<a>> ELSE <<a, b>>, dest)
             \/ \E a \in ClientPaths : StartDelete(r, <<a>>)
    BY <2>3 DEF StartNew, StartRename, StartMove, StartDelete, Begin
  <2>4. CASE NameNew(r) \/ Receive(r) \/ StatNewDir(r) \/ MakeDir(r) \/ DoRename(r)
    BY <2>4 DEF NameNew, Receive, StatNewDir, MakeDir, DoRename, Look
  <2>5. CASE NextSource(r) \/ MoveSource(r) \/ CopyFile(r) \/ Copied(r) \/ Removed(r)
    BY <2>5 DEF NextSource, MoveSource, CopyFile, Copied, Removed, Look
  <2>6. ASSUME NEW p, CopyEntry(r, p) PROVE taken \subseteq taken'
    BY <2>6 DEF CopyEntry
  <2> QED
    BY <1>1, <2>1, <2>2, <2>3, <2>4, <2>5, <2>6 DEF FileStep
<1>2. ASSUME NEW r \in Requests, FileStep(r) PROVE overlapped => overlapped'
  BY <1>2, FileStepFrame
<1> QED
  BY <1>1, <1>2, OtherSteps

NothingInv == overlapped \/ \A c \in Range(FirstBody) : c \in taken \/ Held(tree, body, c)

LEMMA NothingInvInit == ServerInit => NothingInv
<1> SUFFICES ASSUME ServerInit, NEW c \in Range(FirstBody) PROVE Held(tree, body, c)
  BY DEF NothingInv
<1>1. PICK f \in DOMAIN FirstBody : FirstBody[f] = c
  BY DEF Range
<1>2. DOMAIN FirstBody = Range(FirstTree) \ {Dir} /\ IsTree(FirstTree)
  BY FilesAssumption
<1>3. PICK p \in DOMAIN FirstTree : FirstTree[p] = f /\ f # Dir
  BY <1>1, <1>2 DEF Range
<1>4. f \in Files
  BY <1>2, <1>3 DEF IsTree
<1>5. tree = FirstTree /\ body[f] = FirstBody[f]
  BY <1>1, <1>4 DEF ServerInit, FilesInit
<1> QED
  BY <1>1, <1>3, <1>5 DEF Held

LEMMA NothingInvNext == Sound /\ MoveInv /\ NothingInv /\ [ServerNext]_serverVars => NothingInv'
<1> SUFFICES ASSUME Sound, MoveInv, NothingInv, [ServerNext]_serverVars, ~ overlapped',
                    NEW c \in Range(FirstBody), c \notin taken
             PROVE  c \in taken' \/ Held(tree', body', c)
  BY TakenGrows DEF NothingInv, Held
<1>1. ~ overlapped /\ Held(tree, body, c)
  BY TakenGrows DEF NothingInv
<1>2. ASSUME NEW r \in Requests, FileStep(r) PROVE c \in taken' \/ Held(tree', body', c)
  BY <1>1, <1>2, ContentsStay DEF MoveInv, Sound
<1>3. CASE UNCHANGED <<tree, body>>
  BY <1>1, <1>3 DEF Held
<1> QED
  BY <1>2, <1>3, OtherSteps

\* service.go SaveUpload, Rename, Move, copyTree and Delete: unless requests overlapped, a content
\* that no delete and no upload was aimed at has a whole file, for every file system, whichever
\* call fails and wherever a crash ends the requests.
THEOREM NothingIsLost == ServerSpec => []NothingLost
<1>1. Sound /\ MoveInv /\ NothingInv /\ [ServerNext]_serverVars => NothingInv'
  BY NothingInvNext
<1>2. NothingInv => NothingLost
  BY DEF NothingInv, NothingLost, Held, Whole
<1> QED
  BY <1>1, <1>2, NothingInvInit, MoveInvariant, SoundInvariant, PTL DEF ServerSpec


----------------------------------------------------------------------------
(* Second copies                                                           *)

Calm == ~ overlapped /\ errors = 0 /\ restarts = 0

\* s is the place of the copy of p in a move that has begun.
Twins(t, q, p, s) ==
  /\ q.at \in {"copying", "copying file", "removing"} /\ q.op = "move"
  /\ p \in DOMAIN t /\ IsPrefix(q.from, p) /\ s = CopyOf(q, p)

\* A content has one file, or two while a move copies it.
OneFile(t, b, q) ==
  \A p, s \in DOMAIN t :
    /\ t[p] # Dir /\ t[s] # Dir /\ b[t[p]] = b[t[s]] /\ b[t[p]] \in Range(FirstBody)
    => p = s \/ Twins(t, q, p, s) \/ Twins(t, q, s, p)

\* A part of a file is the file that is being written.
PartIsWritten(t, b, q) ==
  \A p \in DOMAIN t : t[p] # Dir /\ b[t[p]] = Partial =>
    q.at \in {"receiving", "copying file"} /\ q.writes = t[p]

Lone(t, b, q) == OneFile(t, b, q) /\ PartIsWritten(t, b, q)

UniqueInv ==
  Calm => /\ \A r \in Requests : req[r].at # "idle" => Lone(tree, body, req[r])
          /\ (\A r \in Requests : req[r].at = "idle") => Lone(tree, body, NoRequest)

LEMMA CalmBefore ==
  ASSUME SettingsTypeOK, [ServerNext]_serverVars, Calm'
  PROVE  Calm /\ ~ Disturb
<1>0. errors \in Nat /\ restarts \in Nat
  BY SettingsAssumption DEF SettingsTypeOK
<1>1. ASSUME NEW r \in Requests, WriteStep(r)
      PROVE  (errors' = errors \/ errors' = errors + 1) /\ restarts' = restarts
  <2>1. CASE OpenTmp(r) \/ WriteTmp(r) \/ RenameTmp(r)
    BY <2>1 DEF OpenTmp, WriteTmp, RenameTmp, Fail
  <2>2. CASE RemoveTmp(r) \/ Remember(r) \/ ReadBack(r) \/ GoLive(r)
    BY <2>2 DEF RemoveTmp, Remember, ReadBack, GoLive, settingsBounds
  <2> QED
    BY <1>1, <2>1, <2>2 DEF WriteStep
<1>2. ASSUME NEW r \in Requests, Marshal(r) PROVE errors' = errors /\ restarts' = restarts
  BY <1>2 DEF Marshal
<1>3. ASSUME Restart PROVE errors' = errors /\ restarts' = restarts + 1
  BY <1>3 DEF Restart
<1>4. ASSUME Disturb PROVE errors' = errors + 1 /\ restarts' = restarts
  BY <1>4 DEF Disturb
<1>5. ASSUME UNCHANGED settingsVars PROVE errors' = errors /\ restarts' = restarts
  BY <1>5 DEF settingsVars, settingsBounds
<1>6. /\ errors' = errors \/ errors' = errors + 1
      /\ restarts' = restarts \/ restarts' = restarts + 1
  BY <1>1, <1>2, <1>3, <1>4, <1>5, StepOfSettings DEF SettingsNext
<1>7. errors' = 0 /\ restarts' = 0 /\ ~ overlapped'
  BY DEF Calm
<1>8. errors = 0 /\ restarts = 0
  BY <1>0, <1>6, <1>7
<1>9. ~ Disturb
  BY <1>7, <1>8 DEF Disturb
<1> QED
  BY <1>7, <1>8, <1>9, TakenGrows DEF Calm

\* The parent of a copied entry is the copy of its parent.
LEMMA FrontSwap ==
  ASSUME NEW a \in AnyPath, NEW b \in AnyPath, NEW p \in AnyPath, IsPrefix(a, p), a # p
  PROVE  /\ Len(p) > 0 /\ IsPrefix(a, Front(p)) /\ Len(Swap(a, b, p)) > 0
         /\ Front(Swap(a, b, p)) = Swap(a, b, Front(p))
<1>1. Len(a) \in Nat /\ Len(b) \in Nat /\ Len(p) \in Nat /\ Len(a) < Len(p)
  <2>1. Len(a) <= Len(p) /\ Len(a) # Len(p)
    BY PrefixByEntry, PrefixOrder
  <2> QED
    BY <2>1, PathLen
<1>2. Len(p) > 0
  BY ONLY <1>1
<1>3. /\ Front(p) \in AnyPath /\ Len(Front(p)) = Len(p) - 1 /\ IsPrefix(Front(p), p)
      /\ IsPrefix(a, Front(p))
  BY <1>2, FrontPath
<1> DEFINE s == Swap(a, b, p)
           f == Swap(a, b, Front(p))
<1>4. s \in AnyPath /\ Len(s) = Len(b) + Len(p) - Len(a)
  BY Swapped
<1>5. f \in AnyPath /\ Len(f) = Len(b) + Len(Front(p)) - Len(a)
  BY <1>3, Swapped
<1>6. IsPrefix(f, s)
  BY <1>3, SwapPrefix
<1> HIDE DEF s, f
<1>7. Len(s) > 0 /\ Len(f) = Len(s) - 1
  BY ONLY <1>1, <1>3, <1>4, <1>5
<1>8. Front(s) \in AnyPath /\ Len(Front(s)) = Len(s) - 1 /\ IsPrefix(Front(s), s)
  BY <1>4, <1>7, FrontPath
<1>9. Front(s) = f
  BY <1>4, <1>5, <1>6, <1>7, <1>8, PrefixOrder
<1> QED
  BY <1>2, <1>3, <1>7, <1>9 DEF s, f

\* A lone copy finds the directory of its target, and the target free.
LEMMA CopyGoesOn ==
  ASSUME FilesInv, NEW r \in Requests, NEW p, CopyEntry(r, p), Copies(tree, body, req[r])
  PROVE  CanCreate(Twin(r, p)) /\ Exists(p) /\ ~ Exists(Twin(r, p))
<1> DEFINE q == req[r]
           dst == CopyOf(q, p)
<1>1. /\ p \in q.left /\ p \in DOMAIN tree /\ IsPrefix(q.from, p) /\ q.at = "copying"
      /\ q.from \in DOMAIN tree /\ q.left \subseteq DOMAIN tree
      /\ \A l, m \in q.left : IsPrefix(l, m) => l = m
      /\ \A s \in DOMAIN tree : IsPrefix(q.from, s) =>
           IF Pending(q, s) THEN CopyOf(q, s) \notin DOMAIN tree
           ELSE Same(tree, body, s, CopyOf(q, s))
      /\ Twin(r, p) = dst /\ dst \notin DOMAIN tree
      /\ q.to \in DOMAIN tree /\ tree[q.to] = Dir
  BY CopyFacts
<1>2. DOMAIN tree \subseteq AnyPath /\ q.at \in Taking /\ p \in AnyPath
  BY <1>1, TreePaths DEF Taking
<1>3. /\ q.from \in AnyPath /\ To(q) \in AnyPath /\ q.to \in AnyPath
      /\ Len(To(q)) = Len(q.to) + 1 /\ Front(To(q)) = q.to
  BY <1>2, CopyPaths
<1>4. Len(q.to) > 0 /\ Len(q.to) \in Nat
  BY <1>1, <1>3, TreePaths, PathLen
<1>5. CASE p = q.from
  <2>1. dst = To(q)
    BY <1>3, <1>5, PrefixOrder, Swapped DEF CopyOf
  <2>2. Len(dst) > 1 /\ Front(dst) = q.to
    BY <1>3, <1>4, <2>1
  <2> QED
    BY <1>1, <2>2 DEF CanCreate, IsDir, Exists
<1>6. CASE p # q.from
  <2>1. /\ Len(p) > 0 /\ IsPrefix(q.from, Front(p)) /\ Len(dst) > 0
        /\ Front(dst) = CopyOf(q, Front(p))
    BY <1>1, <1>2, <1>3, <1>6, FrontSwap DEF CopyOf
  <2>2. Front(p) \in AnyPath /\ Len(Front(p)) = Len(p) - 1 /\ IsPrefix(Front(p), p)
    BY <1>2, <2>1, FrontPath
  <2>3. Front(p) # p /\ ~ IsPrefix(p, Front(p))
    BY <1>2, <2>2, PathLen, PrefixOrder
  <2>4. Len(Front(p)) > 0
    <3>1. Len(q.from) > 0 /\ Len(q.from) <= Len(Front(p))
      BY <1>1, <1>3, <2>1, <2>2, TreePaths, PrefixByEntry
    <3>2. Len(q.from) \in Nat /\ Len(Front(p)) \in Nat
      BY <1>3, <2>2, PathLen
    <3> QED
      BY ONLY <3>1, <3>2
  <2>5. Front(p) \in DOMAIN tree /\ tree[Front(p)] = Dir
    BY <1>1, <2>2, <2>3, <2>4, TreePaths
  <2>6. ~ Pending(q, Front(p))
    <3>1. ASSUME NEW l \in q.left, IsPrefix(l, Front(p)) PROVE FALSE
      <4>1. l \in AnyPath /\ IsPrefix(l, p)
        BY <1>1, <1>2, <2>2, <3>1, PrefixOrder
      <4> QED
        BY <1>1, <2>3, <3>1, <4>1
    <3> QED
      BY <3>1 DEF Pending
  <2>7. Front(dst) \in DOMAIN tree /\ tree[Front(dst)] = Dir
    BY <1>1, <2>1, <2>5, <2>6 DEF Same
  <2>8. dst \in AnyPath
    BY <1>1, <1>2, CopyPaths
  <2>9. Len(dst) > 1
    <3>1. Len(Front(dst)) > 0 /\ Len(Front(dst)) = Len(dst) - 1
      BY <2>1, <2>7, <2>8, FrontPath, TreePaths
    <3>2. Len(dst) \in Nat
      BY <2>8, PathLen
    <3> QED
      BY ONLY <3>1, <3>2
  <2> QED
    BY <1>1, <2>7, <2>9 DEF CanCreate, IsDir, Exists
<1> QED
  BY <1>5, <1>6

\* Where an entry of a renamed tree comes from.
LEMMA MovedFrom ==
  ASSUME NEW t, NEW u, NEW a, NEW b, TreeMoved(t, u, a, b), NEW p \in DOMAIN u
  PROVE  \E o \in DOMAIN t : u[p] = t[o] /\ p = IF IsPrefix(a, o) THEN Swap(a, b, o) ELSE o
<1>1. CASE p \in MovedTo(t, a, b)
  BY <1>1 DEF MovedTo, TreeMoved
<1>2. CASE p \notin MovedTo(t, a, b)
  BY <1>2 DEF TreeMoved
<1> QED
  BY <1>1, <1>2

\* Renaming makes no second copy.
LEMMA RenameLeavesOne ==
  ASSUME NEW t, NEW u, NEW a, NEW b, NEW c, NEW q, NEW n, TreeMoved(t, u, a, b),
         Lone(t, c, q), q.at \in {"renaming", "moving"}
  PROVE  Lone(u, c, n)
<1>1. ASSUME NEW p \in DOMAIN u, NEW s \in DOMAIN u, u[p] # Dir, u[s] # Dir, c[u[p]] = c[u[s]],
             c[u[p]] \in Range(FirstBody)
      PROVE  p = s
  <2>1. PICK o \in DOMAIN t : u[p] = t[o] /\ p = IF IsPrefix(a, o) THEN Swap(a, b, o) ELSE o
    BY MovedFrom
  <2>2. PICK e \in DOMAIN t : u[s] = t[e] /\ s = IF IsPrefix(a, e) THEN Swap(a, b, e) ELSE e
    BY MovedFrom
  <2>3. o = e
    BY <1>1, <2>1, <2>2 DEF Lone, OneFile, Twins
  <2> QED
    BY <2>1, <2>2, <2>3
<1>2. ASSUME NEW p \in DOMAIN u, u[p] # Dir, c[u[p]] = Partial PROVE FALSE
  <2>1. PICK o \in DOMAIN t : u[p] = t[o]
    BY MovedFrom
  <2> QED
    BY <1>2, <2>1 DEF Lone, PartIsWritten
<1> QED
  BY <1>1, <1>2 DEF Lone, OneFile, PartIsWritten


\* A request that neither writes nor copies leaves one file of each content.
LEMMA LoneRests ==
  ASSUME NEW t, NEW b, NEW q, NEW n, Lone(t, b, q),
         q.at \notin {"receiving", "copying", "copying file", "removing"}
  PROVE  Lone(t, b, n)
BY DEF Lone, OneFile, PartIsWritten, Twins

\* A file f is created, and the file system is otherwise as it was.
PartMade(t, b, u, c, f) ==
  /\ c[f] = Partial
  /\ \A s \in DOMAIN u : u[s] # f /\ u[s] # Dir =>
       s \in DOMAIN t /\ u[s] = t[s] /\ c[u[s]] = b[t[s]]

\* The request q becomes n, which writes f, and keeps its copies in progress.
PartBegun(t, q, u, n, f) ==
  /\ q.at \notin {"receiving", "copying file"}
  /\ n.at \in {"receiving", "copying file"} /\ n.writes = f
  /\ \A e, s : Twins(t, q, e, s) => Twins(u, n, e, s)

\* A file is created: it is the part that is being written.
LEMMA CreateLone ==
  ASSUME NEW t, NEW u, NEW b, NEW c, NEW f, NEW q, NEW n,
         Lone(t, b, q), PartMade(t, b, u, c, f), PartBegun(t, q, u, n, f)
  PROVE  Lone(u, c, n)
<1> USE DEF PartMade, PartBegun
<1>1. OneFile(u, c, n)
  <2>1. ASSUME NEW e \in DOMAIN u, NEW s \in DOMAIN u, u[e] # Dir, u[s] # Dir,
               c[u[e]] = c[u[s]], c[u[e]] \in Range(FirstBody)
        PROVE  e = s \/ Twins(u, n, e, s) \/ Twins(u, n, s, e)
    <3>1. u[e] # f /\ u[s] # f
      BY <2>1, FirstContents
    <3>2. /\ e \in DOMAIN t /\ u[e] = t[e] /\ c[u[e]] = b[t[e]]
          /\ s \in DOMAIN t /\ u[s] = t[s] /\ c[u[s]] = b[t[s]]
      BY <2>1, <3>1
    <3>3. e = s \/ Twins(t, q, e, s) \/ Twins(t, q, s, e)
      BY <2>1, <3>2 DEF Lone, OneFile
    <3> QED
      BY <3>3
  <2> QED
    BY <2>1 DEF OneFile
<1>2. PartIsWritten(u, c, n)
  <2>1. ASSUME NEW s \in DOMAIN u, u[s] # Dir, c[u[s]] = Partial PROVE u[s] = f
    BY <2>1 DEF Lone, PartIsWritten
  <2> QED
    BY <2>1 DEF PartIsWritten
<1> QED
  BY <1>1, <1>2 DEF Lone

LEMMA CreatedFile ==
  ASSUME FilesInv, NEW p \in AnyPath, NEW f \in Files, Create(p, f)
  PROVE  PartMade(tree, body, tree', body', f)
<1>1. /\ body \in [Files -> Contents] /\ body' = [body EXCEPT ![f] = Partial]
      /\ \A s \in DOMAIN tree' : tree'[s] # f => s \in DOMAIN tree /\ tree'[s] = tree[s]
  BY CreateParts DEF FilesInv, FilesTypeOK
<1>2. \A s \in DOMAIN tree : tree[s] \in Files \cup {Dir}
  BY TreePaths
<1> QED
  BY <1>1, <1>2 DEF PartMade

\* A directory more changes no file.
LEMMA DirLone ==
  ASSUME NEW t, NEW u, NEW b, NEW q, NEW n, NEW p, Lone(t, b, q),
         DOMAIN u = DOMAIN t \cup {p}, u[p] = Dir, \A s \in DOMAIN t : u[s] = t[s],
         \A e, s : Twins(t, q, e, s) => Twins(u, n, e, s),
         q.at \in {"receiving", "copying file"} => n.at = q.at /\ n.writes = q.writes
  PROVE  Lone(u, b, n)
<1>1. \A s \in DOMAIN u : u[s] # Dir => s \in DOMAIN t /\ u[s] = t[s]
  OBVIOUS
<1>2. OneFile(u, b, n)
  <2>1. ASSUME NEW e \in DOMAIN u, NEW s \in DOMAIN u, u[e] # Dir, u[s] # Dir,
               b[u[e]] = b[u[s]], b[u[e]] \in Range(FirstBody)
        PROVE  e = s \/ Twins(u, n, e, s) \/ Twins(u, n, s, e)
    <3>1. e = s \/ Twins(t, q, e, s) \/ Twins(t, q, s, e)
      BY <1>1, <2>1 DEF Lone, OneFile
    <3> QED
      BY <3>1
  <2> QED
    BY <2>1 DEF OneFile
<1>3. PartIsWritten(u, b, n)
  BY <1>1 DEF Lone, PartIsWritten
<1> QED
  BY <1>2, <1>3 DEF Lone

\* The upload is complete.
LEMMA ReceiveLone ==
  ASSUME FilesInv, NEW r \in Requests, Receive(r), ~ Disturb, Lone(tree, body, req[r]), NEW n
  PROVE  Lone(tree', body', n)
<1> DEFINE q == req[r]
<1>1. /\ q.at = "receiving" /\ tree' = tree /\ body' = [body EXCEPT ![q.writes] = Fresh]
      /\ q.writes \in Files /\ body \in [Files -> Contents]
  BY RequestParts DEF Receive, Serves, FilesInv, FilesTypeOK
<1>2. ASSUME NEW s \in DOMAIN tree, tree[s] # Dir
      PROVE  body'[tree[s]] = IF tree[s] = q.writes THEN Fresh ELSE body[tree[s]]
  BY <1>1, <1>2, TreePaths
<1>3. ASSUME NEW e \in DOMAIN tree, NEW s \in DOMAIN tree, tree[e] # Dir, tree[s] # Dir,
             body'[tree[e]] = body'[tree[s]], body'[tree[e]] \in Range(FirstBody)
      PROVE  e = s
  <2>1. tree[e] # q.writes /\ tree[s] # q.writes
    BY <1>2, <1>3, FirstContents
  <2>2. body[tree[e]] = body[tree[s]] /\ body[tree[e]] \in Range(FirstBody)
    BY <1>2, <1>3, <2>1
  <2> QED
    BY <1>1, <1>3, <2>2 DEF Lone, OneFile, Twins
<1>4. ASSUME NEW s \in DOMAIN tree, tree[s] # Dir, body'[tree[s]] = Partial PROVE FALSE
  <2>1. tree[s] # q.writes
    BY <1>2, <1>4, FirstContents
  <2>2. body[tree[s]] = Partial
    BY <1>2, <1>4, <2>1
  <2> QED
    BY <1>4, <2>1, <2>2 DEF Lone, PartIsWritten
<1>5. OneFile(tree, body', n)
  BY <1>3 DEF OneFile
<1>6. PartIsWritten(tree, body', n)
  BY <1>4 DEF PartIsWritten
<1> QED
  BY <1>1, <1>5, <1>6 DEF Lone

\* The copy of a file is complete: it is the twin of its source.
LEMMA CopyFileLone ==
  ASSUME FilesInv, NEW r \in Requests, CopyFile(r), ~ Disturb,
         Copies(tree, body, req[r]), Lone(tree, body, req[r])
  PROVE  Lone(tree', body', req'[r])
<1> DEFINE q == req[r]
           copied == [q EXCEPT !.at = "copying", !.reads = 0, !.writes = 0]
           n == req'[r]
<1>0. req \in [Requests -> FileRequest] /\ q \in FileRequest /\ body \in [Files -> Contents]
  BY DEF FilesInv, FilesTypeOK
<1>1. /\ q.at = "copying file" /\ q.op = "move" /\ tree' = tree
      /\ q.reads \in Files /\ q.writes \in Files
      /\ body' = [body EXCEPT ![q.writes] = body[q.reads]] /\ Set(r, copied)
  BY RequestParts DEF CopyFile, Serves
<1>2. n = copied /\ copied.at = "copying" /\ copied.from = q.from /\ copied.to = q.to
      /\ copied.op = "move"
  BY <1>0, <1>1 DEF FileRequest, Set
<1>3. n.at = "copying" /\ n.from = q.from /\ n.to = q.to /\ n.op = "move"
  BY <1>2
<1> HIDE DEF copied, n
<1>4. \A e, s : Twins(tree, q, e, s) => Twins(tree, n, e, s)
  BY <1>1, <1>3 DEF Twins, CopyOf, To
<1>5. PICK p \in DOMAIN tree : /\ IsPrefix(q.from, p) /\ BeingCopied(tree, q, p)
                               /\ CopyOf(q, p) \in DOMAIN tree /\ tree[CopyOf(q, p)] = q.writes
  BY <1>1 DEF Copies, Filling
<1> DEFINE d == CopyOf(q, p)
<1>6. /\ tree[p] = q.reads /\ tree[d] = q.writes /\ d \in DOMAIN tree
      /\ q.reads # Dir /\ q.writes # Dir /\ Apart(q.from, To(q))
  BY <1>1, <1>5, TreePaths DEF BeingCopied, Copies, Mirrors
<1>7. /\ q.at \in Taking /\ p \in AnyPath /\ d \in AnyPath /\ q.from \in AnyPath /\ To(q) \in AnyPath
      /\ IsPrefix(To(q), d)
  <2>1. q.at \in Taking /\ p \in AnyPath
    BY <1>1, TreePaths DEF Taking
  <2> QED
    BY <1>5, <2>1, CopyPaths
<1>8. p # d
  BY <1>5, <1>6, <1>7, ApartBelow
<1>9. Twins(tree, n, p, d)
  BY <1>1, <1>3, <1>5 DEF Twins, CopyOf, To
<1>10. ASSUME NEW s \in DOMAIN tree, Twins(tree, q, s, p) PROVE FALSE
  <2>1. s \in AnyPath /\ IsPrefix(q.from, s) /\ p = CopyOf(q, s)
    BY <1>10, TreePaths DEF Twins
  <2>2. IsPrefix(To(q), p)
    BY <1>7, <2>1, CopyPaths
  <2> QED
    BY <1>5, <1>6, <1>7, <2>2, ApartBelow
<1> HIDE DEF d
<1>11. ASSUME NEW s \in DOMAIN tree, tree[s] # Dir
       PROVE  IF s = d THEN body'[tree[s]] = body[tree[p]] ELSE body'[tree[s]] = body[tree[s]]
  <2>1. CASE s = d
    BY <1>0, <1>1, <1>6, <2>1
  <2>2. CASE s # d
    <3>1. tree[s] # q.writes /\ tree[s] \in Files
      BY <1>6, <1>11, <2>2, TreePaths
    <3> QED
      BY <1>0, <1>1, <2>2, <3>1
  <2> QED
    BY <2>1, <2>2
\* A file of the same content as the new one is its source.
<1>12. ASSUME NEW s \in DOMAIN tree, tree[s] # Dir, s # d, body[tree[s]] = body[tree[p]],
              body[tree[p]] \in Range(FirstBody)
       PROVE  s = p
  <2>1. s = p \/ Twins(tree, q, p, s) \/ Twins(tree, q, s, p)
    BY <1>5, <1>6, <1>12 DEF Lone, OneFile
  <2>2. ~ Twins(tree, q, p, s)
    BY <1>12 DEF Twins, d
  <2> QED
    BY <1>10, <1>12, <2>1, <2>2
<1>13. ASSUME NEW e \in DOMAIN tree, NEW s \in DOMAIN tree, tree[e] # Dir, tree[s] # Dir,
              body'[tree[e]] = body'[tree[s]], body'[tree[e]] \in Range(FirstBody)
       PROVE  e = s \/ Twins(tree, n, e, s) \/ Twins(tree, n, s, e)
  <2>1. CASE e # d /\ s # d
    <3>1. body[tree[e]] = body[tree[s]] /\ body[tree[e]] \in Range(FirstBody)
      BY <1>11, <1>13, <2>1
    <3>2. e = s \/ Twins(tree, q, e, s) \/ Twins(tree, q, s, e)
      BY <1>13, <3>1 DEF Lone, OneFile
    <3> QED
      BY <1>4, <3>2
  <2>2. CASE e = d /\ s # d
    <3>1. body[tree[s]] = body[tree[p]] /\ body[tree[p]] \in Range(FirstBody)
      BY <1>11, <1>13, <2>2
    <3>2. s = p
      BY <1>12, <1>13, <2>2, <3>1
    <3> QED
      BY <1>9, <2>2, <3>2
  <2>3. CASE e # d /\ s = d
    <3>1. body[tree[e]] = body[tree[p]] /\ body[tree[p]] \in Range(FirstBody)
      BY <1>11, <1>13, <2>3
    <3>2. e = p
      BY <1>12, <1>13, <2>3, <3>1
    <3> QED
      BY <1>9, <2>3, <3>2
  <2> QED
    BY <2>1, <2>2, <2>3
<1>14. ASSUME NEW s \in DOMAIN tree, tree[s] # Dir, body'[tree[s]] = Partial PROVE FALSE
  <2>1. CASE s = d
    <3>1. body[tree[p]] = Partial
      BY <1>11, <1>14, <2>1
    <3>2. tree[p] = tree[d]
      BY <1>5, <1>6, <3>1 DEF Lone, PartIsWritten
    <3> QED
      BY <1>5, <1>6, <1>8, <3>2, TreePaths
  <2>2. CASE s # d
    <3>1. body[tree[s]] = Partial
      BY <1>11, <1>14, <2>2
    <3>2. tree[s] = tree[d]
      BY <1>6, <1>14, <3>1 DEF Lone, PartIsWritten
    <3> QED
      BY <1>6, <1>14, <2>2, <3>2, TreePaths
  <2> QED
    BY <2>1, <2>2
<1>15. OneFile(tree, body', n)
  BY <1>13 DEF OneFile
<1>16. PartIsWritten(tree, body', n)
  BY <1>14 DEF PartIsWritten
<1> QED
  BY <1>1, <1>15, <1>16 DEF Lone, n


LEMMA CopyEntryLone ==
  ASSUME FilesInv, NEW r \in Requests, NEW p, CopyEntry(r, p),
         Copies(tree, body, req[r]), Lone(tree, body, req[r])
  PROVE  Lone(tree', body', req'[r])
<1> DEFINE q == req[r]
           dst == Twin(r, p)
           others == q.left \ {p}
           n == req'[r]
<1>0. req \in [Requests -> FileRequest] /\ q \in FileRequest
  BY DEF FilesInv, FilesTypeOK
<1>s. ASSUME NEW e, Set(r, e) PROVE n = e
  BY <1>s, <1>0 DEF Set
<1>1. q.at = "copying" /\ q.op = "move" /\ dst \notin DOMAIN tree /\ CanCreate(dst) /\ Exists(p)
  BY CopyFacts, CopyGoesOn DEF Exists
<1>2. dst \in AnyPath
  BY CopyParts
<1>3. \/ /\ IsDir(p)
         /\ DOMAIN tree' = DOMAIN tree \cup {dst} /\ tree'[dst] = Dir
         /\ \A s \in DOMAIN tree : tree'[s] = tree[s]
         /\ body' = body
         /\ Set(r, [q EXCEPT !.left = others \cup Children(p)])
      \/ \E f \in Files :
           /\ Create(dst, f)
           /\ Set(r, [q EXCEPT !.at = "copying file", !.left = others,
                               !.reads = tree[p], !.writes = f])
      \/ \/ ~ Exists(p)
         \/ ~ IsDir(dst) /\ (~ CanCreate(dst) \/ (IsDir(p) /\ Exists(dst)))
         \/ ~ IsDir(p) /\ IsDir(dst)
  BY CopyParts
<1>4. CASE /\ IsDir(p)
           /\ DOMAIN tree' = DOMAIN tree \cup {dst} /\ tree'[dst] = Dir
           /\ \A s \in DOMAIN tree : tree'[s] = tree[s]
           /\ body' = body
           /\ Set(r, [q EXCEPT !.left = others \cup Children(p)])
  <2>1. n.at = "copying" /\ n.op = "move" /\ n.from = q.from /\ n.to = q.to
    BY <1>0, <1>1, <1>4, <1>s DEF FileRequest
  <2> HIDE DEF n, dst
  <2>2. \A e, s : Twins(tree, q, e, s) => Twins(tree', n, e, s)
    BY <1>1, <1>4, <2>1 DEF Twins, CopyOf, To
  <2>3. Lone(tree', body, n)
    BY <1>1, <1>4, <2>2, DirLone
  <2> QED
    BY <1>4, <2>3 DEF n
<1>5. ASSUME NEW f \in Files, Create(dst, f),
             Set(r, [q EXCEPT !.at = "copying file", !.left = others,
                              !.reads = tree[p], !.writes = f])
      PROVE  Lone(tree', body', n)
  <2>1. /\ n.at = "copying file" /\ n.op = "move" /\ n.from = q.from /\ n.to = q.to
        /\ n.writes = f
    BY <1>0, <1>1, <1>5, <1>s DEF FileRequest
  <2>2. DOMAIN tree' = DOMAIN tree \cup {dst}
    BY <1>1, <1>2, <1>5, CreateParts
  <2> HIDE DEF n, dst
  <2>3. \A e, s : Twins(tree, q, e, s) => Twins(tree', n, e, s)
    BY <1>1, <2>1, <2>2 DEF Twins, CopyOf, To
  <2>4. PartMade(tree, body, tree', body', f)
    BY <1>2, <1>5, CreatedFile
  <2>5. PartBegun(tree, q, tree', n, f)
    BY <1>1, <2>1, <2>3 DEF PartBegun
  <2> QED
    BY ONLY Lone(tree, body, q), <2>4, <2>5, CreateLone
<1> QED
  BY <1>1, <1>3, <1>4, <1>5 DEF IsDir, Exists

\* The source of a copy is removed, and with its last entry the copy is alone.
LEMMA RemoveLone ==
  ASSUME FilesInv, NEW r \in Requests, ~ Disturb, Copied(r) \/ Removed(r) \/ \E p : RemoveEntry(r, p),
         Lone(tree, body, req[r])
  PROVE  Lone(tree', body', req'[r])
<1> DEFINE q == req[r]
           n == req'[r]
<1>0. req \in [Requests -> FileRequest] /\ q \in FileRequest
  BY DEF FilesInv, FilesTypeOK
<1>s. ASSUME NEW e, Set(r, e) PROVE n = e
  BY <1>s, <1>0 DEF Set
<1>1. CASE Copied(r)
  <2> DEFINE removing == [q EXCEPT !.at = "removing"]
  <2>1. /\ q.at = "copying" /\ q.op = "move" /\ tree' = tree /\ body' = body /\ n = removing
    BY <1>1, <1>s, RequestParts DEF Copied, Look, Serves
  <2>2. /\ removing.at = "removing" /\ removing.from = q.from /\ removing.to = q.to
        /\ removing.op = q.op
    BY <1>0 DEF FileRequest
  <2>3. n.at = "removing" /\ n.from = q.from /\ n.to = q.to /\ n.op = "move"
    BY <2>1, <2>2
  <2> HIDE DEF removing, n
  <2>4. \A e, s : Twins(tree, q, e, s) => Twins(tree, n, e, s)
    BY <2>1, <2>3 DEF Twins, CopyOf, To
  <2>5. OneFile(tree, body, n)
    BY <2>4 DEF Lone, OneFile
  <2>6. PartIsWritten(tree, body, n)
    BY <2>1 DEF Lone, PartIsWritten
  <2> QED
    BY <2>1, <2>5, <2>6 DEF Lone, n
<1>2. CASE Removed(r)
  <2>1. q.at = "removing" /\ tree' = tree /\ body' = body /\ q.from \notin DOMAIN tree
    BY <1>2 DEF Removed, Look, Exists
  <2>2. q.from \in AnyPath /\ Len(q.from) > 0
    BY <2>1, RequestParts DEF Taking
  <2>3. \A e, s : ~ Twins(tree, q, e, s)
    BY <2>1, <2>2, TreePaths DEF Twins
  <2>4. OneFile(tree, body, n)
    BY <2>3 DEF Lone, OneFile
  <2>5. PartIsWritten(tree, body, n)
    BY <2>1 DEF Lone, PartIsWritten
  <2> QED
    BY <2>1, <2>4, <2>5 DEF Lone
<1>3. ASSUME NEW p, RemoveEntry(r, p) PROVE Lone(tree', body', n)
  <2>1. /\ q.at = "removing" /\ body' = body /\ n = q
        /\ DOMAIN tree' = DOMAIN tree \ {p} /\ \A s \in DOMAIN tree' : tree'[s] = tree[s]
    BY <1>3, RemoveParts
  <2>2. OneFile(tree', body, q)
    <3>1. ASSUME NEW e \in DOMAIN tree', NEW s \in DOMAIN tree', tree'[e] # Dir, tree'[s] # Dir,
                 body[tree'[e]] = body[tree'[s]], body[tree'[e]] \in Range(FirstBody)
          PROVE  e = s \/ Twins(tree', q, e, s) \/ Twins(tree', q, s, e)
      <4>1. e \in DOMAIN tree /\ s \in DOMAIN tree /\ tree'[e] = tree[e] /\ tree'[s] = tree[s]
        BY <2>1, <3>1
      <4>2. e = s \/ Twins(tree, q, e, s) \/ Twins(tree, q, s, e)
        BY <3>1, <4>1 DEF Lone, OneFile
      <4> QED
        BY <3>1, <4>2 DEF Twins
    <3> QED
      BY <3>1 DEF OneFile
  <2>3. PartIsWritten(tree', body, q)
    BY <2>1 DEF Lone, PartIsWritten
  <2> QED
    BY <2>1, <2>2, <2>3 DEF Lone
<1> QED
  BY <1>1, <1>2, <1>3

LEMMA FileStepLone ==
  ASSUME FilesInv, NEW r \in Requests, FileStep(r), ~ Disturb,
         Copies(tree, body, req[r]), Lone(tree, body, req[r])
  PROVE  Lone(tree', body', req'[r])
<1>0. req \in [Requests -> FileRequest] /\ req[r] \in FileRequest /\ SettingsTypeOK
  BY DEF FilesInv, FilesTypeOK
<1>1. CASE /\ UNCHANGED <<tree, body>>
           /\ req[r].at \notin {"receiving", "copying", "copying file", "removing"}
  BY <1>1, LoneRests
<1>2. CASE \/ \E rel \in ClientPaths, name \in NewNames, op \in {"upload", "mkdir"} : StartNew(r, op, rel, name)
           \/ \E rel \in ClientPaths, name \in NewNames : StartRename(r, rel, name)
           \/ \E a, b \in ClientPaths, dest \in ClientPaths :
                StartMove(r, IF a = b THEN <<a>> ELSE <<a, b>>, dest)
           \/ \E a \in ClientPaths : StartDelete(r, <<a>>)
  BY <1>1, <1>2 DEF StartNew, StartRename, StartMove, StartDelete, Begin
<1>3. CASE NameNew(r) \/ StatNewDir(r) \/ NextSource(r)
  BY <1>1, <1>3 DEF NameNew, StatNewDir, NextSource, Look
<1>4. CASE OpenUpload(r)
  <2> DEFINE dst == Resolve(req[r].rels[1])
             q(f) == [req[r] EXCEPT !.at = "receiving", !.from = dst, !.writes = f]
  <2>1. /\ req[r].at = "resolving"
        /\ UNCHANGED <<tree, body>> \/ \E f \in Files : Create(dst, f) /\ Set(r, q(f))
    BY <1>4 DEF OpenUpload
  <2>2. dst \in AnyPath
    BY <1>0, <2>1, RequestParts, ResolveParts
  <2>3. \A f : q(f).at = "receiving" /\ q(f).writes = f
    BY <1>0 DEF FileRequest
  <2> HIDE DEF dst, q
  <2>4. ASSUME NEW f \in Files, Create(dst, f), Set(r, q(f)) PROVE Lone(tree', body', req'[r])
    <3>1. req'[r].at = "receiving" /\ req'[r].writes = f
      BY <1>0, <2>3, <2>4 DEF Set
    <3>2. \A e, s : ~ Twins(tree, req[r], e, s)
      BY <2>1 DEF Twins
    <3>3. PartMade(tree, body, tree', body', f)
      BY <2>2, <2>4, CreatedFile
    <3>4. PartBegun(tree, req[r], tree', req'[r], f)
      BY <2>1, <3>1, <3>2 DEF PartBegun
    <3> QED
      BY ONLY Lone(tree, body, req[r]), <3>3, <3>4, CreateLone
  <2> QED
    BY <1>1, <2>1, <2>4
<1>5. CASE MakeDir(r)
  <2>1. req[r].at = "making" /\ body' = body
    BY <1>5 DEF MakeDir
  <2>2. CASE CanCreate(req[r].to) /\ ~ Exists(req[r].to) /\ tree' = Bind(req[r].to, Dir)
    <3>1. /\ DOMAIN tree' = DOMAIN tree \cup {req[r].to} /\ tree'[req[r].to] = Dir
          /\ \A s \in DOMAIN tree : tree'[s] = tree[s]
      BY <2>2, RequestParts, MkdirParts
    <3>2. \A e, s : ~ Twins(tree, req[r], e, s)
      BY <2>1 DEF Twins
    <3>3. Lone(tree', body, req'[r])
      BY <2>1, <3>1, <3>2, DirLone
    <3> QED
      BY <2>1, <3>3
  <2> QED
    BY <1>1, <1>5, <2>1, <2>2 DEF MakeDir
<1>6. ASSUME NEW a \in AnyPath, NEW b \in AnyPath, CanRename(a, b), tree' = Renamed(a, b),
             body' = body, req[r].at \in {"renaming", "moving"}
      PROVE  Lone(tree', body', req'[r])
  <2>1. TreeMoved(tree, tree', a, b)
    BY <1>6, RenameParts
  <2>2. Lone(tree', body, req'[r])
    BY <1>6, <2>1, RenameLeavesOne
  <2> QED
    BY <1>6, <2>2
<1>7. CASE DoRename(r)
  <2>1. req[r].at = "renaming" /\ body' = body
    BY <1>7 DEF DoRename
  <2> QED
    BY <1>1, <1>6, <1>7, <2>1, RequestParts DEF DoRename
<1>8. CASE MoveSource(r)
  <2>1. req[r].at = "moving" /\ body' = body
    BY <1>8 DEF MoveSource
  <2>2. req[r].from \in AnyPath /\ Target(r) \in AnyPath
    BY <2>1, RequestParts DEF Taking
  <2> QED
    BY <1>1, <1>6, <1>8, <2>1, <2>2 DEF MoveSource
<1>9. CASE Receive(r)
  BY <1>9, ReceiveLone
<1>10. CASE CopyFile(r)
  BY <1>10, CopyFileLone
<1>11. CASE Copied(r) \/ Removed(r)
  BY <1>11, RemoveLone
<1>12. ASSUME NEW p, CopyEntry(r, p) \/ RemoveEntry(r, p) PROVE Lone(tree', body', req'[r])
  BY <1>12, CopyEntryLone, RemoveLone
<1> QED
  BY <1>2, <1>3, <1>4, <1>5, <1>7, <1>8, <1>9, <1>10, <1>11, <1>12 DEF FileStep

LEMMA UniqueInvInit == ServerInit => UniqueInv
<1> SUFFICES ASSUME ServerInit PROVE Lone(tree, body, NoRequest) /\ \A r \in Requests : req[r].at = "idle"
  BY DEF UniqueInv
<1>1. /\ DOMAIN FirstBody = Range(FirstTree) \ {Dir} /\ IsTree(FirstTree)
      /\ \A f, g \in DOMAIN FirstBody : FirstBody[f] = FirstBody[g] => f = g
  BY FilesAssumption
<1>2. tree = FirstTree /\ \A f \in DOMAIN FirstBody : f \in Files => body[f] = FirstBody[f]
  BY DEF ServerInit, FilesInit
<1>3. ASSUME NEW p \in DOMAIN tree, tree[p] # Dir
      PROVE  tree[p] \in DOMAIN FirstBody /\ body[tree[p]] = FirstBody[tree[p]]
  <2>1. tree[p] \in Files /\ tree[p] \in DOMAIN FirstBody
    BY <1>1, <1>2, <1>3 DEF IsTree, Range
  <2> QED
    BY <1>2, <2>1
<1>4. OneFile(tree, body, NoRequest)
  <2>1. \A p, s \in DOMAIN tree : tree[p] = tree[s] => tree[p] = Dir \/ p = s
    BY <1>1, <1>2 DEF IsTree
  <2> QED
    BY <1>1, <1>3, <2>1 DEF OneFile
<1>5. PartIsWritten(tree, body, NoRequest)
  <2>1. \A f \in DOMAIN FirstBody : FirstBody[f] \in Range(FirstBody)
    BY DEF Range
  <2> QED
    BY <1>3, <2>1, FirstContents DEF PartIsWritten
<1>6. \A r \in Requests : req[r].at = "idle"
  BY DEF ServerInit, FilesInit, NoRequest
<1> QED
  BY <1>4, <1>5, <1>6 DEF Lone

LEMMA UniqueInvNext == Sound /\ MoveInv /\ UniqueInv /\ [ServerNext]_serverVars => UniqueInv'
<1> SUFFICES ASSUME Sound, MoveInv, UniqueInv, [ServerNext]_serverVars, Calm' PROVE UniqueInv'
  BY DEF UniqueInv
<1>0. Calm /\ ~ Disturb
  BY CalmBefore DEF Sound, FilesInv, FilesTypeOK
<1>1. ASSUME NEW r \in Requests, FileStep(r) PROVE UniqueInv'
  <2>1. /\ ~ overlapped
        /\ \A s \in Requests \ {r} : req[s].at = "idle" /\ req'[s].at = "idle"
    BY <1>1, OthersRest DEF Calm
  <2>2. Lone(tree, body, req[r])
    <3>1. CASE req[r].at # "idle"
      BY <1>0, <3>1 DEF UniqueInv
    <3>2. CASE req[r].at = "idle"
      <4>1. Lone(tree, body, NoRequest) /\ NoRequest.at = "idle"
        BY <1>0, <2>1, <3>2, Resting DEF UniqueInv
      <4> QED
        BY <4>1, LoneRests
    <3> QED
      BY <3>1, <3>2
  <2>3. Lone(tree', body', req'[r])
    BY <1>0, <1>1, <2>1, <2>2, FileStepLone DEF MoveInv, Sound
  <2>4. (\A s \in Requests : req'[s].at = "idle") => Lone(tree', body', NoRequest)
    <3>1. ASSUME req'[r].at = "idle" PROVE Lone(tree', body', NoRequest)
      BY <2>3, <3>1, LoneRests
    <3> QED
      BY <3>1
  <2>5. \A s \in Requests : req'[s].at # "idle" => Lone(tree', body', req'[s])
    BY <2>1, <2>3
  <2> QED
    BY <2>4, <2>5 DEF UniqueInv
<1>2. CASE UNCHANGED <<tree, body, req>>
  BY <1>0, <1>2 DEF UniqueInv
<1>3. CASE Restart
  <2>1. restarts' = restarts + 1
    BY <1>3 DEF Restart
  <2> QED
    BY <1>0, <2>1 DEF Calm
<1> QED
  BY <1>1, <1>2, <1>3 DEF ServerNext, serverVars, filesVars

\* service.go Move, copyTree and RemoveAll, SaveUpload: unless requests overlapped, a call failed
\* or a crash struck, no request leaves a second copy or a part of a file, for every file system.
THEOREM MovesKeepOne == ServerSpec => []MovesLeaveOne
<1>1. Sound /\ MoveInv /\ UniqueInv /\ [ServerNext]_serverVars => UniqueInv'
  BY UniqueInvNext
<1>2. Sound /\ UniqueInv => MovesLeaveOne
  <2>0. Sound => errors \in Nat /\ restarts \in Nat
    BY SettingsAssumption DEF Sound, FilesInv, FilesTypeOK, SettingsTypeOK
  <2> SUFFICES ASSUME UniqueInv, Calm, Busy = {} PROVE MovesLeaveOne
    BY <2>0 DEF MovesLeaveOne, Calm
  <2>1. Lone(tree, body, NoRequest)
    BY DEF UniqueInv, Busy
  <2>2. Whole(Partial) = {}
    BY <2>1 DEF Lone, PartIsWritten, NoRequest, Whole
  <2>3. ASSUME NEW c \in Range(FirstBody) PROVE Cardinality(Whole(c)) <= 1
    <3>1. \A p, s \in Whole(c) : p = s
      BY <2>1 DEF Lone, OneFile, Twins, NoRequest, Whole
    <3>2. CASE Whole(c) = {}
      BY <3>2, FS_EmptySet
    <3>3. ASSUME NEW p \in Whole(c) PROVE Cardinality(Whole(c)) <= 1
      <4>1. Whole(c) = {p}
        BY <3>1
      <4>2. Cardinality({p}) = 1
        BY FS_Singleton
      <4> QED
        BY <4>1, <4>2
    <3> QED
      BY <3>2, <3>3
  <2> QED
    BY <2>2, <2>3 DEF MovesLeaveOne
<1> QED
  BY <1>1, <1>2, UniqueInvInit, MoveInvariant, SoundInvariant, PTL DEF ServerSpec
=============================================================================
