--------------------------- MODULE AddrManProofs ----------------------------
(***************************************************************************)
(* Theorems about AddrMan, for any services, buckets, bucket hashes and    *)
(* bucket sizes, and any number of operations, dumps and restarts.         *)
(***************************************************************************)
EXTENDS AddrMan, TLAPS, FiniteSetTheorems, SequenceTheorems, WellFoundedInduction

-----------------------------------------------------------------------------
(* The inductive invariant                                                 *)

CAddrInfo ==
    [addr : Service, source : Source, nLastSuccess : Nat,
     nRefCount : 0 .. ADDRMAN_NEW_BUCKETS_PER_ADDRESS, fInTried : BOOLEAN, nRandomPos : Nat]

\* The members of the CAddrMan.
IsAddrMan(s) ==
    s = [nIdCount |-> s.nIdCount, mapInfo |-> s.mapInfo, mapAddr |-> s.mapAddr,
         vRandom |-> s.vRandom, nTried |-> s.nTried, vvTried |-> s.vvTried,
         nNew |-> s.nNew, vvNew |-> s.vvNew]

Ids(s) == DOMAIN s.mapInfo

BucketsOf(s, id) == {b \in NewBucket : id \in s.vvNew[b]}

EntriesOK(s) ==
    /\ IsAddrMan(s)
    /\ s.nIdCount \in Nat
    /\ Ids(s) \subseteq 0 .. s.nIdCount - 1
    /\ \A id \in Ids(s) : s.mapInfo[id] \in CAddrInfo

\* mapAddr is the inverse of the entries' addresses, so these differ.
AddrsOK(s) ==
    /\ DOMAIN s.mapAddr = {netaddr[s.mapInfo[id].addr] : id \in Ids(s)}
    /\ \A id \in Ids(s) : s.mapAddr[netaddr[s.mapInfo[id].addr]] = id

\* vRandom and nRandomPos are inverse to one another.
RandomOK(s) ==
    /\ s.vRandom \in Seq(Nat)
    /\ Len(s.vRandom) = Cardinality(Ids(s))
    /\ \A p \in 1 .. Len(s.vRandom) :
          s.vRandom[p] \in Ids(s) /\ s.mapInfo[s.vRandom[p]].nRandomPos = p - 1
    /\ \A id \in Ids(s) :
          s.mapInfo[id].nRandomPos < Len(s.vRandom) /\ s.vRandom[s.mapInfo[id].nRandomPos + 1] = id

CountsOK(s) ==
    /\ s.nTried = Cardinality(TriedIds(s))
    /\ s.nNew = Cardinality(Ids(s) \ TriedIds(s))

\* A tried entry is in the bucket of its address, at one place.
TriedOK(s) ==
    /\ s.vvTried \in [TriedBucket -> Seq(Nat)]
    /\ \A kb \in TriedBucket :
          /\ Len(s.vvTried[kb]) <= ADDRMAN_TRIED_BUCKET_SIZE
          /\ \A p \in 1 .. Len(s.vvTried[kb]) :
                /\ s.vvTried[kb][p] \in TriedIds(s)
                /\ GetTriedBucket[s.mapInfo[s.vvTried[kb][p]].addr] = kb
          /\ \A p, q \in 1 .. Len(s.vvTried[kb]) : s.vvTried[kb][p] = s.vvTried[kb][q] => p = q
    /\ \A id \in TriedIds(s) :
          /\ s.mapInfo[id].nLastSuccess # 0 /\ s.mapInfo[id].nRefCount = 0
          /\ LET v == s.vvTried[GetTriedBucket[s.mapInfo[id].addr]]
             IN  \E p \in 1 .. Len(v) : v[p] = id

\* A new entry is in as many buckets as nRefCount says; x has a reference that is
\* not yet in its bucket.
NewOK(s, x) ==
    /\ s.vvNew \in [NewBucket -> SUBSET Nat]
    /\ \A b \in NewBucket :
          /\ s.vvNew[b] \subseteq Ids(s) \ TriedIds(s)
          /\ Cardinality(s.vvNew[b]) <= ADDRMAN_NEW_BUCKET_SIZE
    /\ \A id \in Ids(s) \ TriedIds(s) :
          /\ s.mapInfo[id].nRefCount # 0
          /\ s.mapInfo[id].nRefCount = Cardinality(BucketsOf(s, id)) + (IF id = x THEN 1 ELSE 0)

NoId == -1

TablesOK(s, x) ==
    EntriesOK(s) /\ AddrsOK(s) /\ RandomOK(s) /\ CountsOK(s) /\ TriedOK(s) /\ NewOK(s, x)

\* An entry in peers.dat.
CAddrEntry == [addr : Service, source : Source, nLastSuccess : Nat]

\* The tried entries of a file that belong to bucket kb.
FiledTried(f, kb) == {i \in DOMAIN f.tried : GetTriedBucket[f.tried[i].addr] = kb}

\* peers.dat: no address twice, no bucket too large, every new entry in a bucket.
FileOK(f) ==
    /\ IsFiniteSet(DOMAIN f.new) /\ f.new \in [0 .. Cardinality(DOMAIN f.new) - 1 -> CAddrEntry]
    /\ IsFiniteSet(DOMAIN f.tried) /\ f.tried \in [0 .. Cardinality(DOMAIN f.tried) - 1 -> CAddrEntry]
    /\ \A i, j \in DOMAIN f.new : netaddr[f.new[i].addr] = netaddr[f.new[j].addr] => i = j
    /\ \A i, j \in DOMAIN f.tried : netaddr[f.tried[i].addr] = netaddr[f.tried[j].addr] => i = j
    /\ \A i \in DOMAIN f.new, j \in DOMAIN f.tried : netaddr[f.new[i].addr] # netaddr[f.tried[j].addr]
    /\ \A i \in DOMAIN f.tried : f.tried[i].nLastSuccess # 0
    /\ \A kb \in TriedBucket : Cardinality(FiledTried(f, kb)) <= ADDRMAN_TRIED_BUCKET_SIZE
    /\ f.buckets \in [NewBucket -> SUBSET (DOMAIN f.new)]
    /\ \A b \in NewBucket : Cardinality(f.buckets[b]) <= ADDRMAN_NEW_BUCKET_SIZE
    /\ \A i \in DOMAIN f.new :
          Cardinality({b \in NewBucket : i \in f.buckets[b]}) \in 1 .. ADDRMAN_NEW_BUCKETS_PER_ADDRESS

\* What a file says.
FileContent(f) ==
    [tried |-> {f.tried[i] : i \in DOMAIN f.tried},
     new   |-> [b \in NewBucket |-> {f.new[i] : i \in f.buckets[b]}]]

IInv ==
    /\ TablesOK(am, NoId)
    /\ nShuffled \in Nat
    /\ FileOK(peersDat)
    /\ saved = FileContent(peersDat)

-----------------------------------------------------------------------------
(* The constants, and finite sets                                          *)

\* The limits of addrman.h, as assumed.
LEMMA Sizes ==
    /\ ADDRMAN_NEW_BUCKET_SIZE \in Nat \ {0} /\ ADDRMAN_TRIED_BUCKET_SIZE \in Nat \ {0}
    /\ ADDRMAN_NEW_BUCKETS_PER_ADDRESS \in Nat \ {0}
    /\ ADDRMAN_TRIED_ENTRIES_INSPECT_ON_EVICT \in Nat \ {0}
    /\ \A t \in Time : t \in Nat /\ t # 0
BY Limits

\* The bucket hashes give buckets.
LEMMA Buckets ==
    /\ IsFiniteSet(NewBucket)
    /\ \A a \in Service, src \in Source : GetNewBucket[<<a, src>>] \in NewBucket
    /\ \A a \in Service : GetTriedBucket[a] \in TriedBucket
BY Tables

\* A nonempty set of natural numbers has a least element.
LEMMA LeastExists ==
    ASSUME NEW S, S \subseteq Nat, S # {}
    PROVE  \E x \in S : \A y \in S : x <= y
<1> DEFINE R == OpToRel(<, Nat)
<1>1. IsWellFoundedOn(R, Nat)
  BY NatLessThanWellFounded
<1>2. PICK x \in S : \A y \in S : ~(<<y, x>> \in R)
  <2> HIDE DEF R
  <2> QED BY <1>1, WFMin
<1>3. \A y \in S : x <= y
  <2>1. \A y \in S : y \in Nat /\ x \in Nat /\ ~(y < x)
    BY <1>2 DEF OpToRel
  <2> QED BY <2>1
<1> QED BY <1>3

\* Counting a part of a finite set.
LEMMA SubsetFinite ==
    ASSUME NEW S, NEW T, IsFiniteSet(S), T \subseteq S
    PROVE  IsFiniteSet(T) /\ Cardinality(T) \in Nat /\ Cardinality(T) <= Cardinality(S)
           /\ Cardinality(S) \in Nat /\ (Cardinality(T) = Cardinality(S) => T = S)
<1>1. IsFiniteSet(T) /\ Cardinality(T) <= Cardinality(S) /\ (Cardinality(S) = Cardinality(T) => S = T)
  BY FS_Subset
<1> QED BY <1>1, FS_CardinalityType

\* A proper part has fewer members.
LEMMA ProperSubset ==
    ASSUME NEW S, NEW T, IsFiniteSet(S), T \subseteq S, NEW x \in S, x \notin T
    PROVE  Cardinality(T) < Cardinality(S)
<1>1. /\ Cardinality(T) \in Nat /\ Cardinality(S) \in Nat /\ Cardinality(T) <= Cardinality(S)
      /\ (Cardinality(T) = Cardinality(S) => T = S)
  BY SubsetFinite
<1> QED BY <1>1

\* The numbers below n.
LEMMA Below ==
    ASSUME NEW n \in Nat
    PROVE  IsFiniteSet(0 .. n - 1) /\ Cardinality(0 .. n - 1) = n
<1> DEFINE m == n - 1
<1>1. m \in Int
  OBVIOUS
<1>2. n = m + 1
  OBVIOUS
<1> HIDE DEF m
<1>3. IsFiniteSet(0 .. m) /\ Cardinality(0 .. m) = IF 0 > m THEN 0 ELSE m - 0 + 1
  BY <1>1, FS_Interval
<1>4. Cardinality(0 .. m) = n
  BY <1>1, <1>2, <1>3
<1> QED BY <1>3, <1>4 DEF m

\* Two finite sets of which one lists the other.
LEMMA ListedOnce ==
    ASSUME NEW S, NEW T, IsFiniteSet(T), NEW f \in [S -> T],
           \A x, y \in S : f[x] = f[y] => x = y
    PROVE  IsFiniteSet(S) /\ Cardinality(S) <= Cardinality(T)
<1>1. f \in Injection(S, T)
  BY DEF Injection, IsInjective
<1> QED BY <1>1, FS_Injection

\* The rank of a member numbers a set of natural numbers.
LEMMA IndexIs ==
    ASSUME NEW S, S \subseteq Nat, IsFiniteSet(S)
    PROVE  /\ \A x \in S : Index(S, x) \in 0 .. Cardinality(S) - 1
           /\ \A x, y \in S : Index(S, x) = Index(S, y) => x = y
           /\ \A i \in 0 .. Cardinality(S) - 1 : \E x \in S : Index(S, x) = i
<1> DEFINE below(x) == {j \in S : j < x}
<1>1. Cardinality(S) \in Nat
  BY FS_CardinalityType
<1>2. ASSUME NEW x \in S PROVE Index(S, x) \in 0 .. Cardinality(S) - 1
  <2>1. below(x) \subseteq S /\ x \notin below(x)
    OBVIOUS
  <2>2. IsFiniteSet(below(x)) /\ Cardinality(below(x)) \in Nat
    BY <2>1, SubsetFinite
  <2>3. Cardinality(below(x)) < Cardinality(S)
    <3> HIDE DEF below
    <3> QED BY <2>1, ProperSubset
  <2>4. Index(S, x) = Cardinality(below(x))
    BY DEF Index
  <2> QED BY <1>1, <2>2, <2>3, <2>4
<1>3. ASSUME NEW x \in S, NEW y \in S, x < y PROVE Index(S, x) < Index(S, y)
  <2>0. \A j \in S : j \in Nat
    OBVIOUS
  <2>4. \A j \in S : j < x => j < y
    BY <1>3, <2>0
  <2>5. x \in below(y) /\ x \notin below(x)
    BY <1>3, <2>0
  <2>1. below(x) \subseteq below(y) /\ x \in below(y) /\ x \notin below(x) /\ below(y) \subseteq S
    BY <2>4, <2>5
  <2>2. IsFiniteSet(below(y))
    BY <2>1, SubsetFinite
  <2>3. Cardinality(below(x)) < Cardinality(below(y))
    <3> HIDE DEF below
    <3> QED BY <2>1, <2>2, ProperSubset
  <2> QED BY <2>3 DEF Index
<1>4. ASSUME NEW x \in S, NEW y \in S, Index(S, x) = Index(S, y) PROVE x = y
  <2>1. x \in Nat /\ y \in Nat /\ Index(S, x) \in Int /\ Index(S, y) \in Int
    BY <1>2
  <2>2. ~(x < y) /\ ~(y < x)
    BY <1>3, <1>4, <2>1
  <2> QED BY <2>1, <2>2
<1>5. ASSUME NEW i \in 0 .. Cardinality(S) - 1 PROVE \E x \in S : Index(S, x) = i
  <2> DEFINE f == [x \in S |-> Index(S, x)]
             n == Cardinality(S)
             T == 0 .. n - 1
  <2>1. IsFiniteSet(T) /\ Cardinality(T) = n
    BY <1>1, Below
  <2>2. f \in Injection(S, T)
    BY <1>2, <1>4 DEF Injection, IsInjective
  <2>3. f \in Surjection(S, T)
    <3> HIDE DEF f, T
    <3> QED BY <2>1, <2>2, FS_Injection
  <2> QED BY <2>3 DEF Surjection
<1> QED BY <1>2, <1>4, <1>5

-----------------------------------------------------------------------------
(* Steps that leave the tables alone                                       *)

\* The ids are finitely many natural numbers.
LEMMA IdsFinite ==
    ASSUME NEW s, EntriesOK(s)
    PROVE  /\ IsFiniteSet(Ids(s)) /\ Cardinality(Ids(s)) \in Nat
           /\ \A id \in Ids(s) : id \in Nat /\ id < s.nIdCount
           /\ s.nIdCount \notin Ids(s) /\ NoId \notin Ids(s)
           /\ TriedIds(s) \subseteq Ids(s)
<1>1. s.nIdCount \in Nat /\ Ids(s) \subseteq 0 .. s.nIdCount - 1
  BY DEF EntriesOK
<1>2. IsFiniteSet(0 .. s.nIdCount - 1)
  <2> DEFINE n == s.nIdCount
  <2> HIDE DEF n
  <2>1. n \in Nat
    BY <1>1 DEF n
  <2>2. IsFiniteSet(0 .. n - 1)
    BY <2>1, Below
  <2> QED BY <2>2 DEF n
<1>3. \A id \in Ids(s) : id \in 0 .. s.nIdCount - 1
  BY <1>1
<1>4. \A id \in Ids(s) : id \in Nat /\ id < s.nIdCount
  BY <1>1, <1>3
<1>5. s.nIdCount \notin Ids(s) /\ NoId \notin Ids(s)
  BY <1>1, <1>4 DEF NoId
<1>6. TriedIds(s) \subseteq Ids(s)
  BY DEF TriedIds, Ids
<1> QED BY <1>1, <1>2, <1>4, <1>5, <1>6, SubsetFinite

\* Entries that differ only in nRandomPos.
SameInfo(i, j) ==
    /\ i.addr = j.addr /\ i.source = j.source /\ i.nLastSuccess = j.nLastSuccess
    /\ i.nRefCount = j.nRefCount /\ i.fInTried = j.fInTried

\* s and r differ only in vRandom and nRandomPos.
Reordered(s, r) ==
    /\ r.nIdCount = s.nIdCount /\ r.mapAddr = s.mapAddr /\ r.nTried = s.nTried
    /\ r.vvTried = s.vvTried /\ r.nNew = s.nNew /\ r.vvNew = s.vvNew
    /\ Ids(r) = Ids(s)
    /\ \A id \in Ids(s) : SameInfo(r.mapInfo[id], s.mapInfo[id])

\* SwapRandom exchanges two entries of vRandom.
LEMMA SwapRandomIs ==
    ASSUME NEW s, EntriesOK(s), RandomOK(s),
           NEW p \in 0 .. Len(s.vRandom) - 1, NEW q \in 0 .. Len(s.vRandom) - 1
    PROVE  LET r == SwapRandom(s, p, q)
           IN  /\ EntriesOK(r) /\ RandomOK(r) /\ Reordered(s, r)
               /\ Len(r.vRandom) = Len(s.vRandom)
               /\ r.vRandom[q + 1] = s.vRandom[p + 1]
<1> DEFINE r == SwapRandom(s, p, q)
           v == s.vRandom
           l == Len(v)
           M == s.mapInfo
           x == v[p + 1]
           y == v[q + 1]
           pos(id) == IF id = y THEN p ELSE IF id = x THEN q ELSE M[id].nRandomPos
           N == [id \in Ids(s) |-> [M[id] EXCEPT !.nRandomPos = pos(id)]]
           w == [i \in 1 .. l |-> IF i = q + 1 THEN x ELSE IF i = p + 1 THEN y ELSE v[i]]
<1>1. /\ IsAddrMan(s) /\ s.nIdCount \in Nat /\ Ids(s) \subseteq 0 .. s.nIdCount - 1
      /\ \A id \in Ids(s) : M[id] \in CAddrInfo
  BY DEF EntriesOK
<1>2. /\ v \in Seq(Nat) /\ l \in Nat /\ DOMAIN v = 1 .. l /\ l = Cardinality(Ids(s))
      /\ \A i \in 1 .. l : v[i] \in Ids(s) /\ M[v[i]].nRandomPos = i - 1 /\ v[i] \in Nat
      /\ \A id \in Ids(s) : M[id].nRandomPos < l /\ v[M[id].nRandomPos + 1] = id
  BY DEF RandomOK
<1> HIDE DEF l
<1>3. p \in Nat /\ q \in Nat /\ p + 1 \in 1 .. l /\ q + 1 \in 1 .. l /\ p < l /\ q < l
  BY <1>2 DEF l
<1>4. x \in Ids(s) /\ y \in Ids(s) /\ M[x].nRandomPos = p /\ M[y].nRandomPos = q
  <2>1. \A i \in 1 .. l : v[i] \in Ids(s) /\ M[v[i]].nRandomPos = i - 1
    BY <1>2
  <2>2. (p + 1) - 1 = p /\ (q + 1) - 1 = q
    BY <1>3
  <2> HIDE DEF v, M
  <2> QED BY <1>3, <2>1, <2>2
<1>5. r = [s EXCEPT !.mapInfo = N, !.vRandom = w]
  <2>1. [[M EXCEPT ![x] = [@ EXCEPT !.nRandomPos = q]] EXCEPT ![y] = [@ EXCEPT !.nRandomPos = p]] = N
    <3>1. \A id \in Ids(s) : [[M[id] EXCEPT !.nRandomPos = q] EXCEPT !.nRandomPos = p] = [M[id] EXCEPT !.nRandomPos = p]
      BY <1>1 DEF CAddrInfo
    <3>2. \A id \in Ids(s) : M[id] = [M[id] EXCEPT !.nRandomPos = M[id].nRandomPos]
      BY <1>1 DEF CAddrInfo
    <3> QED BY <1>4, <3>1, <3>2 DEF Ids
  <2>2. [[v EXCEPT ![p + 1] = y] EXCEPT ![q + 1] = x] = w
    BY <1>2, <1>3
  <2> QED BY <1>1, <2>1, <2>2 DEF SwapRandom, IsAddrMan
<1>6. /\ IsAddrMan(r) /\ r.mapInfo = N /\ r.vRandom = w
      /\ r.nIdCount = s.nIdCount /\ r.mapAddr = s.mapAddr /\ r.nTried = s.nTried
      /\ r.vvTried = s.vvTried /\ r.nNew = s.nNew /\ r.vvNew = s.vvNew
  <2> HIDE DEF r, N, w
  <2> QED BY <1>1, <1>5 DEF IsAddrMan
<1> HIDE DEF r
<1>7. Ids(r) = Ids(s)
  BY <1>6 DEF Ids
<1>8. \A id \in Ids(s) : pos(id) \in Nat /\ pos(id) < l
  BY <1>1, <1>2, <1>3 DEF CAddrInfo
<1>9. \A id \in Ids(s) : /\ N[id] \in CAddrInfo /\ SameInfo(N[id], M[id])
                         /\ N[id].nRandomPos = pos(id)
  <2> HIDE DEF pos
  <2> QED BY <1>1, <1>8 DEF CAddrInfo, SameInfo
<1> HIDE DEF N
<1>10. EntriesOK(r) /\ Reordered(s, r)
  BY <1>1, <1>6, <1>7, <1>9 DEF EntriesOK, Reordered
<1>11. w \in Seq(Nat) /\ Len(w) = l /\ w[q + 1] = x
  <2>1. w \in [1 .. l -> Nat]
    BY <1>2, <1>3
  <2>2. w \in Seq(Nat)
    <3> HIDE DEF w
    <3>1. l \in Nat
      BY <1>2
    <3> QED BY <2>1, <3>1, SeqDef
  <2>3. w[q + 1] = x
    BY <1>3
  <2>4. DOMAIN w = 1 .. l
    OBVIOUS
  <2> HIDE DEF w
  <2> QED BY <1>2, <2>2, <2>3, <2>4
<1>12. \A i \in 1 .. l : w[i] \in Ids(s) /\ pos(w[i]) = i - 1
  <2> SUFFICES ASSUME NEW i \in 1 .. l PROVE w[i] \in Ids(s) /\ pos(w[i]) = i - 1
    OBVIOUS
  <2>1. CASE i = q + 1
    <3>1. w[i] = x
      BY <2>1
    <3>2. x = y => p = q
      BY <1>4
    <3> QED BY <1>3, <1>4, <2>1, <3>1, <3>2
  <2>2. CASE i # q + 1 /\ i = p + 1
    BY <1>3, <1>4, <2>2
  <2>3. CASE i # q + 1 /\ i # p + 1
    <3>1. w[i] = v[i] /\ v[i] \in Ids(s) /\ M[v[i]].nRandomPos = i - 1
      BY <1>2, <2>3
    <3>2. v[i] # x /\ v[i] # y
      BY <1>3, <1>4, <2>3, <3>1
    <3> QED BY <3>1, <3>2
  <2> QED BY <2>1, <2>2, <2>3
<1>13. \A id \in Ids(s) : w[pos(id) + 1] = id
  <2> SUFFICES ASSUME NEW id \in Ids(s) PROVE w[pos(id) + 1] = id
    OBVIOUS
  <2>1. CASE id = y
    <3>1. p = q => x = y
      OBVIOUS
    <3> QED BY <1>3, <1>4, <2>1, <3>1
  <2>2. CASE id # y /\ id = x
    BY <1>3, <1>4, <2>2
  <2>3. CASE id # y /\ id # x
    <3>1. /\ pos(id) = M[id].nRandomPos /\ M[id].nRandomPos \in Nat
          /\ M[id].nRandomPos < l /\ v[M[id].nRandomPos + 1] = id
      BY <1>1, <1>2, <2>3 DEF CAddrInfo
    <3>2. M[id].nRandomPos # p /\ M[id].nRandomPos # q
      BY <2>3, <3>1
    <3> DEFINE i == M[id].nRandomPos + 1
    <3>3. i \in 1 .. l /\ i # q + 1 /\ i # p + 1 /\ v[i] = id
      <4> DEFINE m == M[id].nRandomPos
      <4>1. m \in Nat /\ m < l /\ m # p /\ m # q
        BY <3>1, <3>2
      <4>2. l \in Nat
        BY <1>2
      <4> HIDE DEF m
      <4>3. m + 1 \in 1 .. l /\ m + 1 # q + 1 /\ m + 1 # p + 1
        BY <1>3, <4>1, <4>2
      <4> QED BY <3>1, <4>3 DEF m
    <3> HIDE DEF i
    <3>4. w[i] = id
      BY <3>3
    <3> QED BY <3>1, <3>4 DEF i
  <2> QED BY <2>1, <2>2, <2>3
<1> HIDE DEF w, pos
<1>14. RandomOK(r)
  <2>1. r.vRandom \in Seq(Nat) /\ Len(r.vRandom) = l /\ Len(r.vRandom) = Cardinality(Ids(r))
    BY <1>2, <1>6, <1>7, <1>11
  <2>2. \A i \in 1 .. l : r.vRandom[i] \in Ids(r) /\ r.mapInfo[r.vRandom[i]].nRandomPos = i - 1
    BY <1>6, <1>7, <1>9, <1>12
  <2>3. \A id \in Ids(r) : r.mapInfo[id].nRandomPos < l /\ r.vRandom[r.mapInfo[id].nRandomPos + 1] = id
    BY <1>6, <1>7, <1>8, <1>9, <1>13
  <2> QED BY <2>1, <2>2, <2>3 DEF RandomOK
<1> QED BY <1>6, <1>10, <1>11, <1>14 DEF r, l

\* A tried entry is somewhere in its bucket.
LEMMA TriedAt ==
    ASSUME NEW s, TriedOK(s), NEW i \in TriedIds(s)
    PROVE  \E p \in 1 .. Len(s.vvTried[GetTriedBucket[s.mapInfo[i].addr]]) :
              s.vvTried[GetTriedBucket[s.mapInfo[i].addr]][p] = i
BY DEF TriedOK

\* The same for a bucket known to be the entry's.
LEMMA TriedFound ==
    ASSUME NEW s, TriedOK(s), NEW i \in TriedIds(s), NEW kb, kb = GetTriedBucket[s.mapInfo[i].addr]
    PROVE  \E p \in 1 .. Len(s.vvTried[kb]) : s.vvTried[kb][p] = i
BY TriedAt, Zenon

\* What a tried bucket holds is tried and belongs there.
LEMMA TriedIn ==
    ASSUME NEW s, TriedOK(s), NEW kb \in TriedBucket, NEW p \in 1 .. Len(s.vvTried[kb])
    PROVE  s.vvTried[kb][p] \in TriedIds(s) /\ GetTriedBucket[s.mapInfo[s.vvTried[kb][p]].addr] = kb
BY DEF TriedOK

\* The tried entries and their buckets are as they were.
LEMMA TriedSame ==
    ASSUME NEW s, NEW r, TriedOK(s), r.vvTried = s.vvTried, TriedIds(r) = TriedIds(s),
           \A id \in TriedIds(s) : /\ r.mapInfo[id].addr = s.mapInfo[id].addr
                                   /\ \/ r.mapInfo[id].nLastSuccess = s.mapInfo[id].nLastSuccess
                                      \/ r.mapInfo[id].nLastSuccess # 0
                                   /\ r.mapInfo[id].nRefCount = s.mapInfo[id].nRefCount
    PROVE  TriedOK(r)
<1>1. ASSUME NEW kb \in TriedBucket
      PROVE  /\ Len(r.vvTried[kb]) <= ADDRMAN_TRIED_BUCKET_SIZE
             /\ \A p \in 1 .. Len(r.vvTried[kb]) :
                   /\ r.vvTried[kb][p] \in TriedIds(r)
                   /\ GetTriedBucket[r.mapInfo[r.vvTried[kb][p]].addr] = kb
             /\ \A p, q \in 1 .. Len(r.vvTried[kb]) : r.vvTried[kb][p] = r.vvTried[kb][q] => p = q
  <2> DEFINE v == s.vvTried[kb]
  <2>1. /\ Len(v) <= ADDRMAN_TRIED_BUCKET_SIZE
        /\ \A p \in 1 .. Len(v) : v[p] \in TriedIds(s) /\ GetTriedBucket[s.mapInfo[v[p]].addr] = kb
        /\ \A p, q \in 1 .. Len(v) : v[p] = v[q] => p = q
    BY DEF TriedOK
  <2>2. r.vvTried[kb] = v
    OBVIOUS
  <2> HIDE DEF v
  <2>3. \A p \in 1 .. Len(v) : v[p] \in TriedIds(r) /\ GetTriedBucket[r.mapInfo[v[p]].addr] = kb
    BY <2>1
  <2> QED BY <2>1, <2>2, <2>3
<1>2. ASSUME NEW id \in TriedIds(r)
      PROVE  /\ r.mapInfo[id].nLastSuccess # 0 /\ r.mapInfo[id].nRefCount = 0
             /\ LET v == r.vvTried[GetTriedBucket[r.mapInfo[id].addr]]
                IN  \E p \in 1 .. Len(v) : v[p] = id
  <2>1. /\ id \in TriedIds(s) /\ r.mapInfo[id].addr = s.mapInfo[id].addr
        /\ \/ r.mapInfo[id].nLastSuccess = s.mapInfo[id].nLastSuccess
           \/ r.mapInfo[id].nLastSuccess # 0
        /\ r.mapInfo[id].nRefCount = s.mapInfo[id].nRefCount
    OBVIOUS
  <2>2. r.vvTried = s.vvTried
    OBVIOUS
  <2>3. s.mapInfo[id].nLastSuccess # 0 /\ s.mapInfo[id].nRefCount = 0
    BY <2>1 DEF TriedOK
  <2> DEFINE kb == GetTriedBucket[s.mapInfo[id].addr]
  <2>4. \E p \in 1 .. Len(s.vvTried[kb]) : s.vvTried[kb][p] = id
    BY <2>1, TriedAt, Zenon
  <2>5. GetTriedBucket[r.mapInfo[id].addr] = kb
    BY <2>1
  <2> HIDE DEF kb
  <2>6. r.mapInfo[id].nLastSuccess # 0 /\ r.mapInfo[id].nRefCount = 0
    BY <2>1, <2>3
  <2> QED BY <2>2, <2>4, <2>5, <2>6
<1>3. r.vvTried \in [TriedBucket -> Seq(Nat)]
  BY DEF TriedOK
<1> QED BY <1>1, <1>2, <1>3 DEF TriedOK

\* An order of vRandom concerns nothing else.
LEMMA ReorderedKeeps ==
    ASSUME NEW s, NEW r, NEW x, Reordered(s, r), AddrsOK(s), CountsOK(s), TriedOK(s), NewOK(s, x)
    PROVE  /\ AddrsOK(r) /\ CountsOK(r) /\ TriedOK(r) /\ NewOK(r, x)
           /\ TriedIds(r) = TriedIds(s)
<1>1. /\ r.nTried = s.nTried /\ r.vvTried = s.vvTried /\ r.nNew = s.nNew /\ r.vvNew = s.vvNew
      /\ r.mapAddr = s.mapAddr /\ Ids(r) = Ids(s)
      /\ \A id \in Ids(s) : /\ r.mapInfo[id].addr = s.mapInfo[id].addr
                            /\ r.mapInfo[id].nLastSuccess = s.mapInfo[id].nLastSuccess
                            /\ r.mapInfo[id].nRefCount = s.mapInfo[id].nRefCount
                            /\ r.mapInfo[id].fInTried = s.mapInfo[id].fInTried
  BY DEF Reordered, SameInfo
<1>2. TriedIds(r) = TriedIds(s) /\ TriedIds(s) \subseteq Ids(s)
  BY <1>1 DEF TriedIds, Ids
<1>3. AddrsOK(r)
  BY <1>1 DEF AddrsOK
<1>4. CountsOK(r)
  BY <1>1, <1>2 DEF CountsOK
<1>5. TriedOK(r)
  BY <1>1, <1>2, TriedSame
<1>6. NewOK(r, x)
  <2>1. \A id : BucketsOf(r, id) = BucketsOf(s, id)
    BY <1>1 DEF BucketsOf
  <2> QED BY <1>1, <1>2, <2>1 DEF NewOK
<1> QED BY <1>2, <1>3, <1>4, <1>5, <1>6

\* The entries keep their addresses and their places in vRandom.
SameIndex(s, r) ==
    /\ IsAddrMan(r)
    /\ r.nIdCount = s.nIdCount /\ r.mapAddr = s.mapAddr /\ r.vRandom = s.vRandom
    /\ Ids(r) = Ids(s)
    /\ \A id \in Ids(s) :
          /\ r.mapInfo[id] \in CAddrInfo
          /\ r.mapInfo[id].addr = s.mapInfo[id].addr
          /\ r.mapInfo[id].nRandomPos = s.mapInfo[id].nRandomPos

\* The entries, mapAddr and vRandom are sound when no address and no position changed.
LEMMA SameIndexKeeps ==
    ASSUME NEW s, NEW r, EntriesOK(s), AddrsOK(s), RandomOK(s), SameIndex(s, r)
    PROVE  EntriesOK(r) /\ AddrsOK(r) /\ RandomOK(r)
<1>1. EntriesOK(r)
  BY DEF EntriesOK, SameIndex
<1>2. AddrsOK(r)
  BY DEF AddrsOK, SameIndex
<1>3. RandomOK(r)
  BY DEF RandomOK, SameIndex
<1> QED BY <1>1, <1>2, <1>3

-----------------------------------------------------------------------------
(* ShrinkNew                                                               *)

\* Delete takes an entry out of all three indexes.
LEMMA DeleteIs ==
    ASSUME NEW s, EntriesOK(s), AddrsOK(s), RandomOK(s), NEW v \in Ids(s)
    PROVE  LET r == Delete(s, v)
           IN  /\ EntriesOK(r) /\ AddrsOK(r) /\ RandomOK(r)
               /\ Ids(r) = Ids(s) \ {v}
               /\ \A id \in Ids(r) : SameInfo(r.mapInfo[id], s.mapInfo[id])
               /\ r.nIdCount = s.nIdCount /\ r.nTried = s.nTried /\ r.vvTried = s.vvTried
               /\ r.nNew = s.nNew - 1 /\ r.vvNew = s.vvNew
<1> DEFINE p == s.mapInfo[v].nRandomPos
           l == Len(s.vRandom)
           q == l - 1
           t == SwapRandom(s, p, q)
           a == netaddr[s.mapInfo[v].addr]
           r == Delete(s, v)
<1>1. /\ l \in Nat /\ p \in Nat /\ p < l /\ s.vRandom[p + 1] = v /\ s.mapInfo[v] \in CAddrInfo
      /\ l = Cardinality(Ids(s))
  BY DEF RandomOK, EntriesOK, CAddrInfo
<1>2. p \in 0 .. l - 1 /\ q \in 0 .. l - 1 /\ q \in Nat /\ q + 1 = l
  <2> HIDE DEF p, l
  <2> QED BY <1>1
<1>3. EntriesOK(t) /\ RandomOK(t) /\ Reordered(s, t) /\ Len(t.vRandom) = l /\ t.vRandom[l] = v
  <2>1. EntriesOK(t) /\ RandomOK(t) /\ Reordered(s, t) /\ Len(t.vRandom) = Len(s.vRandom)
        /\ t.vRandom[q + 1] = s.vRandom[p + 1]
    <3> HIDE DEF p, q
    <3> QED BY <1>2, SwapRandomIs
  <2> QED BY <1>1, <1>2, <2>1
<1> HIDE DEF t
<1>4. r = [t EXCEPT !.vRandom = SubSeq(@, 1, Len(@) - 1), !.mapAddr = Erase(@, a),
                    !.mapInfo = Erase(@, v), !.nNew = @ - 1]
  BY DEF Delete, t
<1>5. /\ IsAddrMan(t) /\ t.nIdCount = s.nIdCount /\ t.mapAddr = s.mapAddr /\ t.nTried = s.nTried
      /\ t.vvTried = s.vvTried /\ t.nNew = s.nNew /\ t.vvNew = s.vvNew /\ Ids(t) = Ids(s)
      /\ \A id \in Ids(s) : SameInfo(t.mapInfo[id], s.mapInfo[id])
  BY <1>3 DEF Reordered, EntriesOK
<1>6. /\ IsAddrMan(r) /\ r.nIdCount = s.nIdCount /\ r.nTried = s.nTried /\ r.vvTried = s.vvTried
      /\ r.nNew = s.nNew - 1 /\ r.vvNew = s.vvNew
      /\ r.mapInfo = Erase(t.mapInfo, v) /\ r.mapAddr = Erase(s.mapAddr, a)
      /\ r.vRandom = SubSeq(t.vRandom, 1, l - 1)
  <2> HIDE DEF r, a, l
  <2> QED BY <1>3, <1>4, <1>5 DEF IsAddrMan
<1> HIDE DEF r
<1>7. Ids(r) = Ids(s) \ {v} /\ \A id \in Ids(r) : r.mapInfo[id] = t.mapInfo[id]
  BY <1>5, <1>6 DEF Ids, Erase
<1>8. EntriesOK(r)
  BY <1>3, <1>5, <1>6, <1>7 DEF EntriesOK
<1>9. \A id \in Ids(s) : netaddr[s.mapInfo[id].addr] = a => id = v
  BY DEF AddrsOK
<1>10. AddrsOK(r)
  <2>1. \A id \in Ids(r) : id \in Ids(s) /\ id # v /\ r.mapInfo[id].addr = s.mapInfo[id].addr
    BY <1>5, <1>7 DEF SameInfo
  <2>2. \A id \in Ids(s) : id \in Ids(r) \/ id = v
    BY <1>7
  <2>3. DOMAIN r.mapAddr = {netaddr[s.mapInfo[id].addr] : id \in Ids(s)} \ {a}
    BY <1>6 DEF AddrsOK, Erase
  <2>4. DOMAIN r.mapAddr = {netaddr[r.mapInfo[id].addr] : id \in Ids(r)}
    BY <1>9, <2>1, <2>2, <2>3
  <2>5. \A n \in DOMAIN r.mapAddr : r.mapAddr[n] = s.mapAddr[n]
    BY <1>6 DEF Erase
  <2>6. \A id \in Ids(r) : r.mapAddr[netaddr[r.mapInfo[id].addr]] = id
    BY <2>1, <2>4, <2>5 DEF AddrsOK
  <2> QED BY <2>4, <2>6 DEF AddrsOK
<1>11. RandomOK(r)
  <2>1. /\ t.vRandom \in Seq(Nat)
        /\ \A i \in 1 .. l : t.vRandom[i] \in Ids(s) /\ t.mapInfo[t.vRandom[i]].nRandomPos = i - 1
        /\ \A id \in Ids(s) : t.mapInfo[id].nRandomPos < l /\ t.vRandom[t.mapInfo[id].nRandomPos + 1] = id
    BY <1>3, <1>5 DEF RandomOK
  <2> HIDE DEF l
  <2>2. /\ r.vRandom \in Seq(Nat) /\ Len(r.vRandom) = q
        /\ \A i \in 1 .. q : r.vRandom[i] = t.vRandom[i]
    <3>1. r.vRandom = SubSeq(t.vRandom, 1, q) /\ Len(t.vRandom) = q + 1 /\ q \in Nat
      BY <1>2, <1>3, <1>6
    <3> HIDE DEF q
    <3>2. 1 \in 1 .. Len(t.vRandom) + 1 /\ q \in 1 - 1 .. Len(t.vRandom)
      BY <3>1
    <3>3. \A i \in 1 .. Len(t.vRandom) : t.vRandom[i] \in Nat
      BY <2>1
    <3> QED BY <2>1, <3>1, <3>2, <3>3, SubSeqProperties
  <2> HIDE DEF q
  <2>3. t.mapInfo[v].nRandomPos = q
    BY <1>1, <1>2, <1>3, <2>1
  <2>4. q = Cardinality(Ids(r))
    <3>1. IsFiniteSet(Ids(s))
      BY IdsFinite
    <3>2. Cardinality(Ids(s) \ {v}) = Cardinality(Ids(s)) - 1
      BY <3>1, FS_RemoveElement
    <3>3. Ids(r) = Ids(s) \ {v}
      BY <1>7
    <3> QED BY <1>1, <1>2, <3>2, <3>3
  <2>5. ASSUME NEW i \in 1 .. q
        PROVE  r.vRandom[i] \in Ids(r) /\ r.mapInfo[r.vRandom[i]].nRandomPos = i - 1
    <3>1. i \in 1 .. l /\ i - 1 # q
      BY <1>1, <1>2
    <3> DEFINE id == t.vRandom[i]
    <3>2. id \in Ids(s) /\ t.mapInfo[id].nRandomPos = i - 1 /\ r.vRandom[i] = id
      BY <2>1, <2>2, <3>1
    <3> HIDE DEF id
    <3>3. id # v
      BY <2>3, <3>1, <3>2
    <3> QED BY <1>7, <3>2, <3>3
  <2>6. ASSUME NEW id \in Ids(r)
        PROVE  r.mapInfo[id].nRandomPos < q /\ r.vRandom[r.mapInfo[id].nRandomPos + 1] = id
    <3> DEFINE m == t.mapInfo[id].nRandomPos
    <3>1. id \in Ids(s) /\ id # v /\ r.mapInfo[id].nRandomPos = m
      BY <1>7
    <3>2. m \in Nat /\ m < l /\ t.vRandom[m + 1] = id
      BY <1>3, <1>5, <2>1, <3>1 DEF EntriesOK, CAddrInfo
    <3> HIDE DEF m
    <3>3. m # q
      BY <1>2, <1>3, <3>1, <3>2
    <3>4. m < q /\ m + 1 \in 1 .. q
      BY <1>1, <1>2, <3>2, <3>3
    <3> QED BY <2>2, <3>1, <3>2, <3>4
  <2> QED BY <2>2, <2>4, <2>5, <2>6 DEF RandomOK
<1>12. \A id \in Ids(r) : SameInfo(r.mapInfo[id], s.mapInfo[id])
  BY <1>5, <1>7
<1> QED BY <1>6, <1>7, <1>8, <1>10, <1>11, <1>12 DEF r

\* A new entry leaves a bucket, and is deleted when it was its last one.
LEMMA ShrinkNewIs ==
    ASSUME NEW s, NEW x, TablesOK(s, x), NEW b \in NewBucket, NEW v \in s.vvNew[b], v # x
    PROVE  LET r == ShrinkNew(s, b, v)
           IN  /\ TablesOK(r, x)
               /\ r.nIdCount = s.nIdCount /\ r.vvNew[b] = s.vvNew[b] \ {v}
               /\ TriedIds(r) = TriedIds(s)
               /\ Ids(s) \ {v} \subseteq Ids(r)
               /\ \A id \in Ids(r) : id \in Ids(s) /\ r.mapInfo[id].addr = s.mapInfo[id].addr
<1> DEFINE M == s.mapInfo
           n == M[v].nRefCount
           info == [M[v] EXCEPT !.nRefCount = n - 1]
           t == [s EXCEPT !.mapInfo[v].nRefCount = @ - 1]
           u == IF t.mapInfo[v].nRefCount = 0 THEN Delete(t, v) ELSE t
           r == ShrinkNew(s, b, v)
<1>1. EntriesOK(s) /\ AddrsOK(s) /\ RandomOK(s) /\ CountsOK(s) /\ TriedOK(s) /\ NewOK(s, x)
  BY DEF TablesOK
<1>2. IsAddrMan(s) /\ \A id \in Ids(s) : M[id] \in CAddrInfo
  BY <1>1 DEF EntriesOK
<1>3. /\ s.vvNew \in [NewBucket -> SUBSET Nat]
      /\ \A c \in NewBucket : /\ s.vvNew[c] \subseteq Ids(s) \ TriedIds(s)
                              /\ Cardinality(s.vvNew[c]) <= ADDRMAN_NEW_BUCKET_SIZE
      /\ \A id \in Ids(s) \ TriedIds(s) :
            /\ M[id].nRefCount # 0
            /\ M[id].nRefCount = Cardinality(BucketsOf(s, id)) + (IF id = x THEN 1 ELSE 0)
  BY <1>1 DEF NewOK
<1>4. v \in Ids(s) /\ v \notin TriedIds(s) /\ ~M[v].fInTried /\ M[v] \in CAddrInfo
  BY <1>2, <1>3 DEF TriedIds, Ids
<1>5. n # 0 /\ n = Cardinality(BucketsOf(s, v)) /\ n \in 0 .. ADDRMAN_NEW_BUCKETS_PER_ADDRESS
  <2>1. n = Cardinality(BucketsOf(s, v)) + 0 /\ n \in 0 .. ADDRMAN_NEW_BUCKETS_PER_ADDRESS /\ n # 0
    BY <1>3, <1>4 DEF CAddrInfo
  <2>2. BucketsOf(s, v) \subseteq NewBucket
    BY DEF BucketsOf
  <2>3. Cardinality(BucketsOf(s, v)) \in Nat
    BY <2>2, Buckets, SubsetFinite
  <2> QED BY <2>1, <2>3
<1>6. /\ info \in CAddrInfo /\ info.addr = M[v].addr /\ info.nRandomPos = M[v].nRandomPos
      /\ info.nRefCount = n - 1 /\ info.fInTried = M[v].fInTried
  <2>1. n - 1 \in 0 .. ADDRMAN_NEW_BUCKETS_PER_ADDRESS
    BY <1>5, Sizes
  <2> HIDE DEF n
  <2> QED BY <1>4, <2>1 DEF CAddrInfo
<1>7. /\ IsAddrMan(t) /\ t.mapInfo = [M EXCEPT ![v] = info]
      /\ t.nIdCount = s.nIdCount /\ t.mapAddr = s.mapAddr /\ t.vRandom = s.vRandom
      /\ t.nTried = s.nTried /\ t.vvTried = s.vvTried /\ t.nNew = s.nNew /\ t.vvNew = s.vvNew
  BY <1>2, <1>4 DEF IsAddrMan, Ids
<1> HIDE DEF t, info
<1>8. /\ Ids(t) = Ids(s) /\ t.mapInfo[v] = info
      /\ \A id \in Ids(s) : id # v => t.mapInfo[id] = M[id]
  BY <1>4, <1>7 DEF Ids
<1>9. SameIndex(s, t)
  BY <1>2, <1>6, <1>7, <1>8 DEF SameIndex
<1>10. EntriesOK(t) /\ AddrsOK(t) /\ RandomOK(t)
  BY <1>1, <1>9, SameIndexKeeps
<1>11. /\ EntriesOK(u) /\ AddrsOK(u) /\ RandomOK(u)
       /\ Ids(u) = (IF n = 1 THEN Ids(s) \ {v} ELSE Ids(s))
       /\ \A id \in Ids(u) : SameInfo(u.mapInfo[id], t.mapInfo[id])
       /\ u.nIdCount = s.nIdCount /\ u.nTried = s.nTried /\ u.vvTried = s.vvTried /\ u.vvNew = s.vvNew
       /\ u.nNew = (IF n = 1 THEN s.nNew - 1 ELSE s.nNew)
  <2>1. CASE n = 1
    <3>1. u = Delete(t, v)
      BY <1>6, <1>8, <2>1
    <3> HIDE DEF u
    <3>2. v \in Ids(t)
      BY <1>4, <1>8
    <3>3. /\ EntriesOK(u) /\ AddrsOK(u) /\ RandomOK(u)
          /\ Ids(u) = Ids(t) \ {v}
          /\ \A id \in Ids(u) : SameInfo(u.mapInfo[id], t.mapInfo[id])
          /\ u.nIdCount = t.nIdCount /\ u.nTried = t.nTried /\ u.vvTried = t.vvTried
          /\ u.nNew = t.nNew - 1 /\ u.vvNew = t.vvNew
      BY <1>10, <3>1, <3>2, DeleteIs
    <3> QED BY <1>7, <1>8, <2>1, <3>3
  <2>2. CASE n # 1
    <3>1. u = t
      BY <1>5, <1>6, <1>8, <2>2
    <3> HIDE DEF u
    <3> QED BY <1>7, <1>8, <1>10, <2>2, <3>1 DEF SameInfo
  <2> QED BY <2>1, <2>2
<1>12. r = [u EXCEPT !.vvNew[b] = @ \ {v}]
  BY DEF ShrinkNew, t, u
<1> HIDE DEF u
<1>13. /\ IsAddrMan(r) /\ r.vvNew = [s.vvNew EXCEPT ![b] = @ \ {v}] /\ r.mapInfo = u.mapInfo
       /\ r.nIdCount = s.nIdCount /\ r.mapAddr = u.mapAddr /\ r.vRandom = u.vRandom
       /\ r.nTried = s.nTried /\ r.vvTried = s.vvTried /\ r.nNew = u.nNew
  <2>1. IsAddrMan(u)
    BY <1>11 DEF EntriesOK
  <2> HIDE DEF r
  <2> QED BY <1>11, <1>12, <2>1 DEF IsAddrMan
<1> HIDE DEF r
<1>14. Ids(r) = Ids(u) /\ Ids(u) \subseteq Ids(s)
  BY <1>11, <1>13 DEF Ids
<1>15. EntriesOK(r) /\ AddrsOK(r) /\ RandomOK(r)
  <2>1. SameIndex(u, r)
    BY <1>11, <1>13, <1>14 DEF SameIndex, EntriesOK
  <2> QED BY <1>11, <2>1, SameIndexKeeps
<1>16. /\ \A id \in Ids(r) : r.mapInfo[id].addr = M[id].addr /\ r.mapInfo[id].fInTried = M[id].fInTried
       /\ \A id \in Ids(r) : id # v => SameInfo(r.mapInfo[id], M[id])
       /\ v \in Ids(r) => r.mapInfo[v].nRefCount = n - 1
  <2>1. \A id \in Ids(r) : SameInfo(r.mapInfo[id], t.mapInfo[id]) /\ id \in Ids(s)
    BY <1>11, <1>13, <1>14
  <2>2. \A id \in Ids(s) : t.mapInfo[id].addr = M[id].addr /\ t.mapInfo[id].fInTried = M[id].fInTried
    BY <1>4, <1>6, <1>8
  <2> QED BY <1>6, <1>8, <2>1, <2>2 DEF SameInfo
<1>17. TriedIds(r) = TriedIds(s) /\ TriedIds(s) \subseteq Ids(s)
  <2>1. \A id \in Ids(s) : id \in Ids(r) \/ id = v
    BY <1>11, <1>14
  <2> QED BY <1>4, <1>14, <1>16, <2>1 DEF TriedIds, Ids
<1>18. TriedOK(r)
  <2>1. \A id \in TriedIds(s) : id \in Ids(r) /\ id # v
    BY <1>4, <1>17 DEF TriedIds, Ids
  <2> QED BY <1>1, <1>13, <1>16, <1>17, <2>1, TriedSame DEF SameInfo
<1>19. CountsOK(r)
  <2>1. r.nTried = Cardinality(TriedIds(r))
    BY <1>1, <1>13, <1>17 DEF CountsOK
  <2>2. r.nNew = Cardinality(Ids(r) \ TriedIds(r))
    <3> DEFINE S == Ids(s) \ TriedIds(s)
    <3>1. IsFiniteSet(S) /\ v \in S /\ s.nNew = Cardinality(S)
      <4>1. IsFiniteSet(Ids(s)) /\ S \subseteq Ids(s)
        BY <1>1, IdsFinite
      <4>2. IsFiniteSet(S)
        BY <4>1, SubsetFinite
      <4> QED BY <1>1, <1>4, <4>2 DEF CountsOK
    <3>2. Ids(r) \ TriedIds(r) = IF n = 1 THEN S \ {v} ELSE S
      BY <1>11, <1>14, <1>17
    <3> HIDE DEF S
    <3>3. Cardinality(S \ {v}) = Cardinality(S) - 1
      BY <3>1, FS_RemoveElement
    <3> QED BY <1>11, <1>13, <3>1, <3>2, <3>3
  <2> QED BY <2>1, <2>2 DEF CountsOK
<1>20. \A c \in NewBucket : r.vvNew[c] = IF c = b THEN s.vvNew[b] \ {v} ELSE s.vvNew[c]
  BY <1>3, <1>13
<1>21. /\ \A id \in Ids(s) : id # v => BucketsOf(r, id) = BucketsOf(s, id)
       /\ BucketsOf(r, v) = BucketsOf(s, v) \ {b} /\ b \in BucketsOf(s, v)
  BY <1>20 DEF BucketsOf
<1>22. IsFiniteSet(BucketsOf(s, v)) /\ Cardinality(BucketsOf(r, v)) = n - 1
  <2>1. BucketsOf(s, v) \subseteq NewBucket
    BY DEF BucketsOf
  <2>2. IsFiniteSet(BucketsOf(s, v))
    BY <2>1, Buckets, SubsetFinite
  <2>3. Cardinality(BucketsOf(s, v) \ {b}) = Cardinality(BucketsOf(s, v)) - 1
    BY <1>21, <2>2, FS_RemoveElement
  <2> QED BY <1>5, <1>21, <2>2, <2>3
<1>23. ASSUME NEW c \in NewBucket
       PROVE  /\ r.vvNew[c] \subseteq Ids(r) \ TriedIds(r)
              /\ Cardinality(r.vvNew[c]) <= ADDRMAN_NEW_BUCKET_SIZE
  <2>1. r.vvNew[c] \subseteq s.vvNew[c]
    BY <1>20
  <2>2. n = 1 => v \notin r.vvNew[c]
    <3>1. n = 1 => BucketsOf(r, v) = {}
      <4>1. IsFiniteSet(BucketsOf(r, v))
        BY <1>21, <1>22, SubsetFinite
      <4> QED BY <1>22, <4>1, FS_EmptySet
    <3> QED BY <3>1 DEF BucketsOf
  <2>3. IsFiniteSet(s.vvNew[c])
    <3>1. IsFiniteSet(Ids(s)) /\ s.vvNew[c] \subseteq Ids(s)
      BY <1>1, <1>3, IdsFinite
    <3> QED BY <3>1, SubsetFinite
  <2>4. Cardinality(r.vvNew[c]) <= Cardinality(s.vvNew[c]) /\ Cardinality(r.vvNew[c]) \in Nat
        /\ Cardinality(s.vvNew[c]) \in Nat
    BY <2>1, <2>3, SubsetFinite
  <2>5. Cardinality(s.vvNew[c]) <= ADDRMAN_NEW_BUCKET_SIZE
    BY <1>3
  <2>6. Cardinality(r.vvNew[c]) <= ADDRMAN_NEW_BUCKET_SIZE
    BY <2>4, <2>5, Sizes
  <2>7. r.vvNew[c] \subseteq Ids(r)
    BY <1>3, <1>11, <1>14, <2>1, <2>2
  <2> QED BY <1>3, <1>17, <2>1, <2>6, <2>7
<1>24. ASSUME NEW id \in Ids(r) \ TriedIds(r)
       PROVE  /\ r.mapInfo[id].nRefCount # 0
              /\ r.mapInfo[id].nRefCount = Cardinality(BucketsOf(r, id)) + (IF id = x THEN 1 ELSE 0)
  <2>1. id \in Ids(s) \ TriedIds(s)
    BY <1>14, <1>17
  <2>2. CASE id # v
    <3>1. r.mapInfo[id].nRefCount = M[id].nRefCount /\ BucketsOf(r, id) = BucketsOf(s, id)
      BY <1>16, <1>21, <2>1, <2>2 DEF SameInfo
    <3> QED BY <1>3, <2>1, <3>1
  <2>3. CASE id = v
    <3>1. n # 1
      BY <1>11, <1>14, <2>3
    <3>2. r.mapInfo[id].nRefCount = n - 1 /\ n - 1 # 0 /\ n - 1 + 0 = n - 1
      BY <1>5, <1>16, <2>3, <3>1
    <3> QED BY <1>22, <2>3, <3>2
  <2> QED BY <2>2, <2>3
<1>25. r.vvNew \in [NewBucket -> SUBSET Nat]
  BY <1>3, <1>13
<1>26. NewOK(r, x)
  BY <1>23, <1>24, <1>25 DEF NewOK
<1>27. TablesOK(r, x)
  BY <1>15, <1>18, <1>19, <1>26 DEF TablesOK
<1>28. Ids(s) \ {v} \subseteq Ids(r)
  BY <1>11, <1>14
<1> QED BY <1>13, <1>14, <1>16, <1>17, <1>20, <1>27, <1>28 DEF r

-----------------------------------------------------------------------------
(* Add_                                                                    *)

\* The reference of id that was counted gets its place in bucket b.
LEMMA LinkIs ==
    ASSUME NEW s, NEW id \in Ids(s), TablesOK(s, id), id \notin TriedIds(s), NEW b \in NewBucket,
           id \notin s.vvNew[b], Cardinality(s.vvNew[b]) < ADDRMAN_NEW_BUCKET_SIZE
    PROVE  LET r == [s EXCEPT !.vvNew[b] = @ \cup {id}]
           IN  TablesOK(r, NoId) /\ r.mapInfo = s.mapInfo /\ TriedIds(r) = TriedIds(s)
<1> DEFINE r == [s EXCEPT !.vvNew[b] = @ \cup {id}]
           M == s.mapInfo
<1>1. EntriesOK(s) /\ AddrsOK(s) /\ RandomOK(s) /\ CountsOK(s) /\ TriedOK(s) /\ NewOK(s, id)
  BY DEF TablesOK
<1>2. IsAddrMan(s) /\ \A i \in Ids(s) : M[i] \in CAddrInfo
  BY <1>1 DEF EntriesOK
<1>3. /\ s.vvNew \in [NewBucket -> SUBSET Nat]
      /\ \A c \in NewBucket : /\ s.vvNew[c] \subseteq Ids(s) \ TriedIds(s)
                              /\ Cardinality(s.vvNew[c]) <= ADDRMAN_NEW_BUCKET_SIZE
      /\ \A i \in Ids(s) \ TriedIds(s) :
            /\ M[i].nRefCount # 0
            /\ M[i].nRefCount = Cardinality(BucketsOf(s, i)) + (IF i = id THEN 1 ELSE 0)
  BY <1>1 DEF NewOK
<1>4. /\ IsAddrMan(r) /\ r.vvNew = [s.vvNew EXCEPT ![b] = @ \cup {id}] /\ r.mapInfo = M
      /\ r.nIdCount = s.nIdCount /\ r.mapAddr = s.mapAddr /\ r.vRandom = s.vRandom
      /\ r.nTried = s.nTried /\ r.vvTried = s.vvTried /\ r.nNew = s.nNew
  BY <1>2 DEF IsAddrMan
<1> HIDE DEF r
<1>5. Ids(r) = Ids(s) /\ TriedIds(r) = TriedIds(s)
  BY <1>4 DEF Ids, TriedIds
<1>6. EntriesOK(r) /\ AddrsOK(r) /\ RandomOK(r)
  <2>1. SameIndex(s, r)
    BY <1>2, <1>4, <1>5 DEF SameIndex
  <2> QED BY <1>1, <2>1, SameIndexKeeps
<1>7. CountsOK(r)
  BY <1>1, <1>4, <1>5 DEF CountsOK
<1>8. TriedOK(r)
  BY <1>1, <1>4, <1>5, TriedSame
<1>9. IsFiniteSet(Ids(s)) /\ id \in Nat /\ \A i \in Ids(s) : i # NoId
  BY <1>1, IdsFinite
<1>10. \A c \in NewBucket : r.vvNew[c] = IF c = b THEN s.vvNew[b] \cup {id} ELSE s.vvNew[c]
  BY <1>3, <1>4
<1>11. /\ \A i \in Ids(s) : i # id => BucketsOf(r, i) = BucketsOf(s, i)
       /\ BucketsOf(r, id) = BucketsOf(s, id) \cup {b} /\ b \notin BucketsOf(s, id)
  BY <1>10 DEF BucketsOf
<1>12. Cardinality(BucketsOf(r, id)) = Cardinality(BucketsOf(s, id)) + 1
       /\ \A i : Cardinality(BucketsOf(s, i)) \in Nat
  <2>1. \A i : BucketsOf(s, i) \subseteq NewBucket
    BY DEF BucketsOf
  <2>2. \A i : IsFiniteSet(BucketsOf(s, i)) /\ Cardinality(BucketsOf(s, i)) \in Nat
    BY <2>1, Buckets, SubsetFinite
  <2>3. Cardinality(BucketsOf(s, id) \cup {b}) = Cardinality(BucketsOf(s, id)) + 1
    BY <1>11, <2>2, FS_AddElement
  <2> QED BY <1>11, <2>2, <2>3
<1>13. ASSUME NEW c \in NewBucket
       PROVE  /\ r.vvNew[c] \subseteq Ids(r) \ TriedIds(r)
              /\ Cardinality(r.vvNew[c]) <= ADDRMAN_NEW_BUCKET_SIZE
  <2>1. CASE c # b
    BY <1>3, <1>5, <1>10, <2>1
  <2>2. CASE c = b
    <3>1. r.vvNew[c] = s.vvNew[b] \cup {id} /\ s.vvNew[b] \subseteq Ids(s)
      BY <1>3, <1>10, <2>2
    <3>2. IsFiniteSet(s.vvNew[b]) /\ Cardinality(s.vvNew[b]) \in Nat
      BY <1>9, <3>1, SubsetFinite
    <3>3. Cardinality(s.vvNew[b] \cup {id}) = Cardinality(s.vvNew[b]) + 1
      BY <3>2, FS_AddElement
    <3>4. Cardinality(r.vvNew[c]) <= ADDRMAN_NEW_BUCKET_SIZE
      BY <3>1, <3>2, <3>3, Sizes
    <3> QED BY <1>3, <1>5, <3>1, <3>4
  <2> QED BY <2>1, <2>2
<1>14. ASSUME NEW i \in Ids(r) \ TriedIds(r)
       PROVE  /\ r.mapInfo[i].nRefCount # 0
              /\ r.mapInfo[i].nRefCount = Cardinality(BucketsOf(r, i)) + (IF i = NoId THEN 1 ELSE 0)
  <2>1. i \in Ids(s) \ TriedIds(s) /\ r.mapInfo[i] = M[i] /\ i # NoId
    BY <1>4, <1>5, <1>9
  <2>2. M[i].nRefCount # 0 /\ M[i].nRefCount = Cardinality(BucketsOf(s, i)) + (IF i = id THEN 1 ELSE 0)
    BY <1>3, <2>1
  <2>3. M[i].nRefCount = Cardinality(BucketsOf(r, i)) /\ Cardinality(BucketsOf(r, i)) \in Nat
    <3>1. Cardinality(BucketsOf(s, i)) \in Nat /\ Cardinality(BucketsOf(s, id)) \in Nat
      BY <1>12
    <3>2. CASE i = id
      BY <1>12, <2>2, <3>1, <3>2
    <3>3. CASE i # id
      <4>1. BucketsOf(r, i) = BucketsOf(s, i)
        BY <1>11, <2>1, <3>3
      <4> QED BY <2>2, <3>1, <3>3, <4>1
    <3> QED BY <3>2, <3>3
  <2> QED BY <2>1, <2>2, <2>3
<1>15. r.vvNew \in [NewBucket -> SUBSET Nat]
  BY <1>3, <1>4, <1>9
<1>16. NewOK(r, NoId)
  BY <1>13, <1>14, <1>15 DEF NewOK
<1>17. TablesOK(r, NoId)
  BY <1>6, <1>7, <1>8, <1>16 DEF TablesOK
<1> QED BY <1>4, <1>5, <1>17 DEF r

\* Entry id is put into bucket b, which is shrunk when it is full.
LEMMA InsertNewIs ==
    ASSUME NEW s, NEW id \in Ids(s), id \notin TriedIds(s), NEW b \in NewBucket,
           TablesOK([s EXCEPT !.mapInfo[id].nRefCount = @ + 1], id), IsAddrMan(s),
           s.mapInfo[id] \in CAddrInfo,
           id \notin s.vvNew[b], NEW r \in InsertNew(s, id, b)
    PROVE  /\ TablesOK(r, NoId)
           /\ \A i \in TriedIds(s) : i \in Ids(r) /\ r.mapInfo[i].addr = s.mapInfo[i].addr
<1> DEFINE t == [s EXCEPT !.mapInfo[id].nRefCount = @ + 1]
           info == [s.mapInfo[id] EXCEPT !.nRefCount = @ + 1]
<1>1. /\ t.vvNew = s.vvNew /\ t.mapInfo = [s.mapInfo EXCEPT ![id] = info]
  BY DEF IsAddrMan, Ids
<1>2. info.fInTried = s.mapInfo[id].fInTried /\ info.addr = s.mapInfo[id].addr
  BY DEF CAddrInfo
<1>3. TablesOK(t, id)
  OBVIOUS
<1>4. r \in {[u EXCEPT !.vvNew[b] = @ \cup {id}] :
               u \in IF Cardinality(s.vvNew[b]) = ADDRMAN_NEW_BUCKET_SIZE
                     THEN {ShrinkNew(t, b, v) : v \in s.vvNew[b]} ELSE {t}}
  BY DEF InsertNew
<1> HIDE DEF t, info
<1>5. /\ Ids(t) = Ids(s) /\ \A i \in Ids(s) : t.mapInfo[i].addr = s.mapInfo[i].addr
      /\ TriedIds(t) = TriedIds(s) /\ TriedIds(s) \subseteq Ids(s)
  <2>1. Ids(t) = Ids(s) /\ t.mapInfo[id] = info /\ \A i \in Ids(s) : i # id => t.mapInfo[i] = s.mapInfo[i]
    BY <1>1 DEF Ids
  <2> QED BY <1>2, <2>1 DEF TriedIds, Ids
<1>6. IsFiniteSet(t.vvNew[b]) /\ Cardinality(t.vvNew[b]) \in Nat
      /\ Cardinality(t.vvNew[b]) <= ADDRMAN_NEW_BUCKET_SIZE /\ t.vvNew[b] \subseteq Ids(t) \ TriedIds(t)
  <2>1. /\ IsFiniteSet(Ids(t)) /\ t.vvNew[b] \subseteq Ids(t) \ TriedIds(t)
        /\ Cardinality(t.vvNew[b]) <= ADDRMAN_NEW_BUCKET_SIZE
    BY <1>3, IdsFinite DEF TablesOK, NewOK
  <2>2. t.vvNew[b] \subseteq Ids(t)
    BY <2>1
  <2> QED BY <2>1, <2>2, SubsetFinite
<1>7. CASE Cardinality(s.vvNew[b]) = ADDRMAN_NEW_BUCKET_SIZE
  <2>1. PICK v \in s.vvNew[b] : r = [ShrinkNew(t, b, v) EXCEPT !.vvNew[b] = @ \cup {id}]
    BY <1>4, <1>7
  <2> DEFINE u == ShrinkNew(t, b, v)
  <2>2. v \in t.vvNew[b] /\ v # id
    BY <1>1
  <2>3. /\ TablesOK(u, id) /\ u.vvNew[b] = t.vvNew[b] \ {v} /\ TriedIds(u) = TriedIds(t)
        /\ Ids(t) \ {v} \subseteq Ids(u)
        /\ \A i \in Ids(u) : i \in Ids(t) /\ u.mapInfo[i].addr = t.mapInfo[i].addr
    BY <1>3, <2>2, ShrinkNewIs
  <2>4. r = [u EXCEPT !.vvNew[b] = @ \cup {id}]
    BY <2>1
  <2> HIDE DEF u
  <2>5. id \in Ids(u) /\ id \notin TriedIds(u) /\ id \notin u.vvNew[b]
    BY <1>1, <1>5, <2>2, <2>3
  <2>6. Cardinality(u.vvNew[b]) < ADDRMAN_NEW_BUCKET_SIZE
    <3>1. Cardinality(t.vvNew[b] \ {v}) = Cardinality(t.vvNew[b]) - 1
      BY <1>6, <2>2, FS_RemoveElement
    <3> QED BY <1>6, <2>3, <3>1, Sizes
  <2>7. TablesOK(r, NoId) /\ r.mapInfo = u.mapInfo /\ TriedIds(r) = TriedIds(u)
    BY <2>3, <2>4, <2>5, <2>6, LinkIs
  <2>8. \A i \in TriedIds(s) : i \in Ids(u) /\ i \in Ids(s)
    <3>1. v \notin TriedIds(t)
      BY <1>6, <2>2
    <3> QED BY <1>5, <2>3, <3>1
  <2>9. Ids(r) = Ids(u)
    BY <2>7 DEF Ids
  <2> QED BY <1>5, <2>3, <2>7, <2>8, <2>9
<1>8. CASE Cardinality(s.vvNew[b]) # ADDRMAN_NEW_BUCKET_SIZE
  <2>1. r = [t EXCEPT !.vvNew[b] = @ \cup {id}]
    BY <1>4, <1>8
  <2>2. Cardinality(t.vvNew[b]) < ADDRMAN_NEW_BUCKET_SIZE
    BY <1>1, <1>6, <1>8, Sizes
  <2>3. id \in Ids(t) /\ id \notin TriedIds(t) /\ id \notin t.vvNew[b]
    BY <1>1, <1>5
  <2>4. TablesOK(r, NoId) /\ r.mapInfo = t.mapInfo /\ TriedIds(r) = TriedIds(t)
    BY <1>3, <2>1, <2>2, <2>3, LinkIs
  <2>5. Ids(r) = Ids(t)
    BY <2>4 DEF Ids
  <2> QED BY <1>5, <2>4, <2>5
<1> QED BY <1>7, <1>8
\* One more reference of a new entry is counted.
LEMMA CountReference ==
    ASSUME NEW s, TablesOK(s, NoId), NEW id \in Ids(s), id \notin TriedIds(s),
           s.mapInfo[id].nRefCount # ADDRMAN_NEW_BUCKETS_PER_ADDRESS
    PROVE  TablesOK([s EXCEPT !.mapInfo[id].nRefCount = @ + 1], id)
<1> DEFINE M == s.mapInfo
           info == [M[id] EXCEPT !.nRefCount = @ + 1]
           t == [s EXCEPT !.mapInfo[id].nRefCount = @ + 1]
<1>1. EntriesOK(s) /\ AddrsOK(s) /\ RandomOK(s) /\ CountsOK(s) /\ TriedOK(s) /\ NewOK(s, NoId)
  BY DEF TablesOK
<1>2. IsAddrMan(s) /\ \A i \in Ids(s) : M[i] \in CAddrInfo
  BY <1>1 DEF EntriesOK
<1>3. /\ IsAddrMan(t) /\ t.mapInfo = [M EXCEPT ![id] = info]
      /\ t.nIdCount = s.nIdCount /\ t.mapAddr = s.mapAddr /\ t.vRandom = s.vRandom
      /\ t.nTried = s.nTried /\ t.vvTried = s.vvTried /\ t.nNew = s.nNew /\ t.vvNew = s.vvNew
  BY <1>2 DEF IsAddrMan, Ids
<1>4. /\ info \in CAddrInfo /\ info.addr = M[id].addr /\ info.nRandomPos = M[id].nRandomPos
      /\ info.fInTried = M[id].fInTried /\ info.nRefCount = M[id].nRefCount + 1
      /\ M[id].nRefCount \in Nat
  <2>1. M[id].nRefCount \in 0 .. ADDRMAN_NEW_BUCKETS_PER_ADDRESS
    BY <1>2 DEF CAddrInfo
  <2>2. M[id].nRefCount + 1 \in 0 .. ADDRMAN_NEW_BUCKETS_PER_ADDRESS
    BY <2>1, Sizes
  <2> QED BY <1>2, <2>1, <2>2, Sizes DEF CAddrInfo
<1> HIDE DEF t, info
<1>5. /\ Ids(t) = Ids(s) /\ t.mapInfo[id] = info
      /\ \A i \in Ids(s) : i # id => t.mapInfo[i] = M[i]
  BY <1>3 DEF Ids
<1>6. TriedIds(t) = TriedIds(s) /\ TriedIds(s) \subseteq Ids(s)
  BY <1>4, <1>5 DEF TriedIds, Ids
<1>7. EntriesOK(t) /\ AddrsOK(t) /\ RandomOK(t)
  <2>1. SameIndex(s, t)
    BY <1>2, <1>3, <1>4, <1>5 DEF SameIndex
  <2> QED BY <1>1, <2>1, SameIndexKeeps
<1>8. CountsOK(t)
  BY <1>1, <1>3, <1>5, <1>6 DEF CountsOK
<1>9. TriedOK(t)
  <2>1. \A i \in TriedIds(s) : t.mapInfo[i] = M[i]
    BY <1>5, <1>6
  <2> QED BY <1>1, <1>3, <1>6, <2>1, TriedSame
<1>10. NewOK(t, id)
  <2>1. \A i : BucketsOf(t, i) = BucketsOf(s, i)
    BY <1>3 DEF BucketsOf
  <2>2. \A i : Cardinality(BucketsOf(s, i)) \in Nat
    <3>1. \A i : BucketsOf(s, i) \subseteq NewBucket
      BY DEF BucketsOf
    <3> QED BY <3>1, Buckets, SubsetFinite
  <2>3. \A i \in Ids(s) : i # NoId
    BY <1>1, IdsFinite
  <2>4. ASSUME NEW i \in Ids(t) \ TriedIds(t)
        PROVE  /\ t.mapInfo[i].nRefCount # 0
               /\ t.mapInfo[i].nRefCount = Cardinality(BucketsOf(t, i)) + (IF i = id THEN 1 ELSE 0)
    <3>1. /\ i \in Ids(s) /\ Cardinality(BucketsOf(s, i)) \in Nat /\ BucketsOf(t, i) = BucketsOf(s, i)
          /\ M[i].nRefCount # 0 /\ M[i].nRefCount = Cardinality(BucketsOf(s, i)) + (IF i = NoId THEN 1 ELSE 0)
      BY <1>1, <1>5, <1>6, <2>1, <2>2 DEF NewOK
    <3>2. M[i].nRefCount = Cardinality(BucketsOf(s, i))
      BY <2>3, <3>1
    <3>3. CASE i = id
      BY <1>4, <1>5, <3>1, <3>2, <3>3
    <3>4. CASE i # id
      BY <1>5, <3>1, <3>2, <3>4
    <3> QED BY <3>3, <3>4
  <2>5. /\ t.vvNew \in [NewBucket -> SUBSET Nat]
        /\ \A b \in NewBucket : /\ t.vvNew[b] \subseteq Ids(t) \ TriedIds(t)
                                /\ Cardinality(t.vvNew[b]) <= ADDRMAN_NEW_BUCKET_SIZE
    BY <1>1, <1>3, <1>5, <1>6 DEF NewOK
  <2> QED BY <2>4, <2>5 DEF NewOK
<1> QED BY <1>7, <1>8, <1>9, <1>10 DEF TablesOK, t

\* A known address that is told again.
LEMMA AddKnownIs ==
    ASSUME NEW s, TablesOK(s, NoId), NEW id \in Ids(s), ~s.mapInfo[id].fInTried,
           s.mapInfo[id].nRefCount # ADDRMAN_NEW_BUCKETS_PER_ADDRESS,
           NEW b \in NewBucket, NEW r \in InsertNew(s, id, b)
    PROVE  /\ TablesOK(r, NoId)
           /\ \A i \in TriedIds(s) : i \in Ids(r) /\ r.mapInfo[i].addr = s.mapInfo[i].addr
<1>1. id \notin TriedIds(s) /\ TriedIds(s) \subseteq Ids(s)
  BY DEF TriedIds, Ids
<1>2. IsAddrMan(s) /\ s.mapInfo[id] \in CAddrInfo
  BY DEF TablesOK, EntriesOK
<1>3. CASE id \in s.vvNew[b]
  <2>1. r = s
    BY <1>3 DEF InsertNew
  <2> QED BY <1>1, <2>1
<1>4. CASE id \notin s.vvNew[b]
  <2>1. TablesOK([s EXCEPT !.mapInfo[id].nRefCount = @ + 1], id)
    BY <1>1, CountReference
  <2> QED BY <1>1, <1>2, <1>4, <2>1, InsertNewIs
<1> QED BY <1>3, <1>4

\* An address that is not known, which gets the next id and its first reference.
LEMMA CreateIs ==
    ASSUME NEW s, TablesOK(s, NoId), NEW a \in Service, NEW src \in Source,
           netaddr[a] \notin DOMAIN s.mapAddr
    PROVE  LET r  == [Create(s, a, src) EXCEPT !.nNew = @ + 1]
               id == s.nIdCount
           IN  /\ TablesOK([r EXCEPT !.mapInfo[id].nRefCount = @ + 1], id)
               /\ IsAddrMan(r) /\ id \in Ids(r) /\ id \notin TriedIds(r)
               /\ r.mapInfo[id] \in CAddrInfo /\ r.vvNew = s.vvNew
               /\ \A b \in NewBucket : id \notin r.vvNew[b]
               /\ TriedIds(r) = TriedIds(s)
               /\ \A i \in Ids(s) : r.mapInfo[i] = s.mapInfo[i]
<1> DEFINE M == s.mapInfo
           id == s.nIdCount
           l == Len(s.vRandom)
           info == [addr |-> a, source |-> src, nLastSuccess |-> 0, nRefCount |-> 0,
                    fInTried |-> FALSE, nRandomPos |-> l]
           one == [info EXCEPT !.nRefCount = @ + 1]
           r == [Create(s, a, src) EXCEPT !.nNew = @ + 1]
           t == [r EXCEPT !.mapInfo[id].nRefCount = @ + 1]
<1>1. EntriesOK(s) /\ AddrsOK(s) /\ RandomOK(s) /\ CountsOK(s) /\ TriedOK(s) /\ NewOK(s, NoId)
  BY DEF TablesOK
<1>2. IsAddrMan(s) /\ \A i \in Ids(s) : M[i] \in CAddrInfo
  BY <1>1 DEF EntriesOK
<1>3. /\ IsFiniteSet(Ids(s)) /\ id \in Nat /\ id \notin Ids(s) /\ TriedIds(s) \subseteq Ids(s)
      /\ Cardinality(Ids(s)) \in Nat /\ \A i \in Ids(s) : i \in Nat /\ i < id /\ i # NoId
  BY <1>1, IdsFinite DEF EntriesOK
<1>4. s.vRandom \in Seq(Nat) /\ l = Cardinality(Ids(s)) /\ l \in Nat
  BY <1>1, <1>3 DEF RandomOK
<1>5. info \in CAddrInfo /\ info.nRefCount = 0 /\ info.fInTried = FALSE
  BY <1>4, Sizes DEF CAddrInfo
<1>6. one \in CAddrInfo /\ one.nRefCount = 1 /\ one.fInTried = FALSE /\ one.nRandomPos = l /\ one.addr = a
  <2>1. one = [addr |-> a, source |-> src, nLastSuccess |-> 0, nRefCount |-> 1,
               fInTried |-> FALSE, nRandomPos |-> l]
    <3>1. info.nRefCount + 1 = 1
      BY <1>5
    <3>2. one = [info EXCEPT !.nRefCount = 1]
      BY <3>1
    <3> HIDE DEF one, l
    <3> QED BY <3>2
  <2>2. 1 \in 0 .. ADDRMAN_NEW_BUCKETS_PER_ADDRESS
    BY Sizes
  <2> HIDE DEF one
  <2> QED BY <1>4, <2>1, <2>2 DEF CAddrInfo
<1>7. /\ IsAddrMan(r) /\ r.nIdCount = id + 1 /\ r.mapInfo = Insert(M, id, info)
      /\ r.mapAddr = Insert(s.mapAddr, netaddr[a], id) /\ r.vRandom = Append(s.vRandom, id)
      /\ r.nTried = s.nTried /\ r.vvTried = s.vvTried /\ r.nNew = s.nNew + 1 /\ r.vvNew = s.vvNew
  <2> DEFINE c == Create(s, a, src)
             infos == Insert(M, id, info)
             addrs == Insert(s.mapAddr, netaddr[a], id)
             order == Append(s.vRandom, id)
  <2>1. c = [s EXCEPT !.nIdCount = id + 1, !.mapInfo = infos, !.mapAddr = addrs, !.vRandom = order]
    BY DEF Create
  <2> HIDE DEF infos, addrs, order, c
  <2>2. /\ IsAddrMan(c) /\ c.nIdCount = id + 1 /\ c.mapInfo = infos /\ c.mapAddr = addrs
        /\ c.vRandom = order /\ c.nTried = s.nTried /\ c.vvTried = s.vvTried
        /\ c.nNew = s.nNew /\ c.vvNew = s.vvNew
    BY <1>2, <2>1 DEF IsAddrMan
  <2>3. r = [c EXCEPT !.nNew = @ + 1]
    BY DEF c
  <2> HIDE DEF r
  <2> QED BY <2>2, <2>3 DEF IsAddrMan, infos, addrs, order
<1> HIDE DEF info, r
<1>8. /\ Ids(r) = Ids(s) \cup {id} /\ r.mapInfo[id] = info
      /\ \A i \in Ids(s) : r.mapInfo[i] = M[i]
  BY <1>3, <1>7 DEF Ids, Insert
<1>9. /\ IsAddrMan(t) /\ t.nIdCount = id + 1 /\ t.mapInfo = [r.mapInfo EXCEPT ![id] = one]
      /\ t.mapAddr = r.mapAddr /\ t.vRandom = r.vRandom
      /\ t.nTried = s.nTried /\ t.vvTried = s.vvTried /\ t.nNew = s.nNew + 1 /\ t.vvNew = s.vvNew
  <2> DEFINE infos == [r.mapInfo EXCEPT ![id] = one]
  <2>1. id \in DOMAIN r.mapInfo /\ r.mapInfo[id] = info
    BY <1>8 DEF Ids
  <2>2. [r.mapInfo EXCEPT ![id].nRefCount = @ + 1] = infos
    BY <2>1
  <2>3. t = [r EXCEPT !.mapInfo = infos]
    <3>1. t = [r EXCEPT !.mapInfo = [r.mapInfo EXCEPT ![id].nRefCount = @ + 1]]
      <4>1. r.mapInfo[id].nRefCount = info.nRefCount
        BY <2>1
      <4> QED BY <2>1
    <3> HIDE DEF t, infos
    <3> QED BY <2>2, <3>1, Zenon
  <2> HIDE DEF one, t, infos
  <2>4. /\ IsAddrMan(t) /\ t.nIdCount = r.nIdCount /\ t.mapInfo = infos /\ t.mapAddr = r.mapAddr
        /\ t.vRandom = r.vRandom /\ t.nTried = r.nTried /\ t.vvTried = r.vvTried
        /\ t.nNew = r.nNew /\ t.vvNew = r.vvNew
    BY <1>7, <2>3 DEF IsAddrMan
  <2> QED BY <1>7, <2>4 DEF infos
<1> HIDE DEF one, t
<1>10. /\ Ids(t) = Ids(s) \cup {id} /\ t.mapInfo[id] = one
       /\ \A i \in Ids(s) : t.mapInfo[i] = M[i]
  BY <1>3, <1>8, <1>9 DEF Ids
<1>11. TriedIds(r) = TriedIds(s) /\ TriedIds(t) = TriedIds(s)
  <2>1. \A u : TriedIds(u) = {i \in Ids(u) : u.mapInfo[i].fInTried}
    BY DEF TriedIds, Ids
  <2> QED BY <1>5, <1>6, <1>8, <1>10, <2>1
<1> HIDE DEF id
<1>12. EntriesOK(t)
  <2>1. Ids(t) \subseteq 0 .. t.nIdCount - 1
    <3>1. ASSUME NEW i \in Ids(t) PROVE i \in 0 .. t.nIdCount - 1
      <4>1. i \in Nat /\ i <= id
        BY <1>3, <1>10
      <4>2. t.nIdCount = id + 1
        BY <1>9
      <4> QED BY <1>3, <4>1, <4>2
    <3> QED BY <3>1
  <2>2. \A i \in Ids(t) : t.mapInfo[i] \in CAddrInfo
    BY <1>2, <1>6, <1>10
  <2> QED BY <1>3, <1>9, <2>1, <2>2 DEF EntriesOK
<1>13. AddrsOK(t)
  <2>1. /\ DOMAIN t.mapAddr = DOMAIN s.mapAddr \cup {netaddr[a]}
        /\ t.mapAddr[netaddr[a]] = id /\ \A x \in DOMAIN s.mapAddr : t.mapAddr[x] = s.mapAddr[x]
    BY <1>7, <1>9 DEF Insert
  <2>2. /\ DOMAIN s.mapAddr = {netaddr[M[i].addr] : i \in Ids(s)}
        /\ \A i \in Ids(s) : s.mapAddr[netaddr[M[i].addr]] = i
    BY <1>1 DEF AddrsOK
  <2>3. netaddr[t.mapInfo[id].addr] = netaddr[a]
    BY <1>6, <1>10
  <2>4. DOMAIN t.mapAddr = {netaddr[t.mapInfo[i].addr] : i \in Ids(t)}
    BY <1>10, <2>1, <2>2, <2>3
  <2>5. \A i \in Ids(t) : t.mapAddr[netaddr[t.mapInfo[i].addr]] = i
    BY <1>10, <2>1, <2>2, <2>3
  <2> QED BY <2>4, <2>5 DEF AddrsOK
<1>14. RandomOK(t)
  <2> DEFINE w == Append(s.vRandom, id)
  <2>1. /\ w \in Seq(Nat) /\ Len(w) = l + 1 /\ w[l + 1] = id
        /\ \A p \in 1 .. l : w[p] = s.vRandom[p]
    BY <1>3, <1>4
  <2>2. t.vRandom = w
    BY <1>7, <1>9 DEF id
  <2> HIDE DEF w
  <2>3. Cardinality(Ids(t)) = l + 1
    <3>1. Cardinality(Ids(s) \cup {id}) = Cardinality(Ids(s)) + 1
      BY <1>3, FS_AddElement DEF id
    <3> QED BY <1>4, <1>10, <3>1 DEF id
  <2>4. ASSUME NEW p \in 1 .. l + 1
        PROVE  w[p] \in Ids(t) /\ t.mapInfo[w[p]].nRandomPos = p - 1
    <3>1. CASE p = l + 1
      BY <1>4, <1>6, <1>10, <2>1, <3>1 DEF id
    <3>2. CASE p # l + 1
      <4>1. p \in 1 .. l
        BY <1>4, <3>2
      <4>2. s.vRandom[p] \in Ids(s) /\ M[s.vRandom[p]].nRandomPos = p - 1
        BY <1>1, <4>1 DEF RandomOK
      <4> QED BY <1>10, <2>1, <4>1, <4>2
    <3> QED BY <3>1, <3>2
  <2>5. ASSUME NEW i \in Ids(t)
        PROVE  t.mapInfo[i].nRandomPos < l + 1 /\ w[t.mapInfo[i].nRandomPos + 1] = i
    <3>1. CASE i = id
      BY <1>4, <1>6, <1>10, <2>1, <3>1 DEF id
    <3>2. CASE i \in Ids(s)
      <4>1. M[i].nRandomPos < l /\ s.vRandom[M[i].nRandomPos + 1] = i /\ M[i].nRandomPos \in Nat
        BY <1>1, <1>2, <3>2 DEF RandomOK, CAddrInfo
      <4>2. M[i].nRandomPos + 1 \in 1 .. l /\ M[i].nRandomPos < l + 1
        BY <1>4, <4>1
      <4> QED BY <1>10, <2>1, <3>2, <4>1, <4>2
    <3> QED BY <1>10, <3>1, <3>2 DEF id
  <2> QED BY <2>1, <2>2, <2>3, <2>4, <2>5 DEF RandomOK
<1>15. CountsOK(t)
  <2> DEFINE new == Ids(s) \ TriedIds(s)
  <2>1. Ids(t) \ TriedIds(t) = new \cup {id} /\ id \notin new /\ new \subseteq Ids(s)
    BY <1>3, <1>10, <1>11 DEF id
  <2> HIDE DEF new
  <2>2. IsFiniteSet(new) /\ Cardinality(new) \in Nat
    BY <1>3, <2>1, SubsetFinite
  <2>3. Cardinality(new \cup {id}) = Cardinality(new) + 1
    BY <2>1, <2>2, FS_AddElement
  <2>4. s.nTried = Cardinality(TriedIds(s)) /\ s.nNew = Cardinality(new)
    BY <1>1 DEF CountsOK, new
  <2> QED BY <1>9, <1>11, <2>1, <2>3, <2>4 DEF CountsOK
<1>16. TriedOK(t)
  <2>1. \A i \in TriedIds(s) : t.mapInfo[i] = M[i]
    BY <1>3, <1>10
  <2> QED BY <1>1, <1>9, <1>11, <2>1, TriedSame
<1>17. NewOK(t, id)
  <2>0. s.vvNew \in [NewBucket -> SUBSET Nat]
    BY <1>1 DEF NewOK
  <2>1. \A b \in NewBucket : s.vvNew[b] \subseteq Ids(s) \ TriedIds(s) /\ id \notin s.vvNew[b]
    BY <1>1, <1>3 DEF NewOK, id
  <2>2. BucketsOf(t, id) = {} /\ \A i : BucketsOf(t, i) = BucketsOf(s, i)
    BY <1>9, <2>1 DEF BucketsOf
  <2>3. Cardinality({}) = 0
    BY FS_EmptySet
  <2>4. ASSUME NEW i \in Ids(t) \ TriedIds(t)
        PROVE  /\ t.mapInfo[i].nRefCount # 0
               /\ t.mapInfo[i].nRefCount = Cardinality(BucketsOf(t, i)) + (IF i = id THEN 1 ELSE 0)
    <3>1. CASE i = id
      <4>1. t.mapInfo[i] = one /\ BucketsOf(t, i) = {} /\ (IF i = id THEN 1 ELSE 0) = 1
        BY <1>10, <2>2, <3>1 DEF id
      <4> QED BY <1>6, <2>3, <4>1
    <3>2. CASE i # id
      <4>1. i \in Ids(s) \ TriedIds(s) /\ i # NoId
        BY <1>3, <1>10, <1>11, <3>2 DEF id
      <4>2. M[i].nRefCount # 0 /\ M[i].nRefCount = Cardinality(BucketsOf(s, i)) + 0
        BY <1>1, <4>1 DEF NewOK
      <4> QED BY <1>10, <2>2, <3>2, <4>1, <4>2
    <3> QED BY <3>1, <3>2
  <2>5. \A b \in NewBucket : /\ t.vvNew[b] \subseteq Ids(t) \ TriedIds(t)
                             /\ Cardinality(t.vvNew[b]) <= ADDRMAN_NEW_BUCKET_SIZE
    <3>1. \A b \in NewBucket : Cardinality(s.vvNew[b]) <= ADDRMAN_NEW_BUCKET_SIZE
      BY <1>1 DEF NewOK
    <3> QED BY <1>9, <1>10, <1>11, <2>1, <3>1
  <2> QED BY <1>9, <2>0, <2>4, <2>5 DEF NewOK
<1>18. TablesOK(t, id)
  BY <1>12, <1>13, <1>14, <1>15, <1>16, <1>17 DEF TablesOK
<1>19. \A b \in NewBucket : id \notin r.vvNew[b]
  <2>1. \A b \in NewBucket : s.vvNew[b] \subseteq Ids(s)
    BY <1>1 DEF NewOK
  <2> QED BY <1>3, <1>7, <2>1 DEF id
<1>20. id \in Ids(r) /\ id \notin TriedIds(r) /\ r.mapInfo[id] \in CAddrInfo
  BY <1>3, <1>5, <1>8, <1>11 DEF id
<1> QED BY <1>7, <1>8, <1>11, <1>18, <1>19, <1>20 DEF r, t, id

\* Add_ of an unknown address: Create and the insertion, whatever ShrinkNew deletes.
LEMMA AddUnknownIs ==
    ASSUME NEW s, TablesOK(s, NoId), NEW a \in Service, NEW src \in Source,
           netaddr[a] \notin DOMAIN s.mapAddr, NEW b \in NewBucket,
           NEW r \in InsertNew([Create(s, a, src) EXCEPT !.nNew = @ + 1], s.nIdCount, b)
    PROVE  /\ TablesOK(r, NoId)
           /\ \A i \in TriedIds(s) : i \in Ids(r) /\ r.mapInfo[i].addr = s.mapInfo[i].addr
<1> DEFINE t == [Create(s, a, src) EXCEPT !.nNew = @ + 1]
           id == s.nIdCount
<1>1. /\ TablesOK([t EXCEPT !.mapInfo[id].nRefCount = @ + 1], id)
      /\ IsAddrMan(t) /\ id \in Ids(t) /\ id \notin TriedIds(t)
      /\ t.mapInfo[id] \in CAddrInfo
      /\ id \notin t.vvNew[b]
      /\ TriedIds(t) = TriedIds(s)
      /\ \A i \in Ids(s) : t.mapInfo[i] = s.mapInfo[i]
  BY CreateIs, ZenonT(40)
<1>2. r \in InsertNew(t, id, b)
  OBVIOUS
<1> HIDE DEF t, id
<1>3. /\ TablesOK(r, NoId)
      /\ \A i \in TriedIds(t) : i \in Ids(r) /\ r.mapInfo[i].addr = t.mapInfo[i].addr
  BY <1>1, <1>2, InsertNewIs
<1>4. TriedIds(s) \subseteq Ids(s)
  BY DEF TriedIds, Ids
<1> QED BY <1>1, <1>3, <1>4
-----------------------------------------------------------------------------
(* Good_: SelectTried                                                      *)

\* w lists the entries of v, each once.
Permuted(v, w) ==
    /\ w \in Seq(Nat) /\ Len(w) = Len(v)
    /\ \A p, q \in 1 .. Len(w) : w[p] = w[q] => p = q
    /\ \A p \in 1 .. Len(w) : \E q \in 1 .. Len(v) : v[q] = w[p]
    /\ \A p \in 1 .. Len(v) : \E q \in 1 .. Len(w) : w[q] = v[p]

\* The swap in SelectTried and GetAddr_ loses no member of the vector.
LEMMA SwapPermutes ==
    ASSUME NEW v \in Seq(Nat), NEW u, Permuted(v, u), NEW i \in 1 .. Len(v), NEW j \in 1 .. Len(v)
    PROVE  Permuted(v, [u EXCEPT ![j] = u[i], ![i] = u[j]])
<1> DEFINE w == [u EXCEPT ![j] = u[i], ![i] = u[j]]
           l == Len(v)
           other(p) == IF p = i THEN j ELSE IF p = j THEN i ELSE p
<1>1. u \in Seq(Nat) /\ Len(u) = l /\ l \in Nat
  BY DEF Permuted
<1>2. \A p, q \in 1 .. l : u[p] = u[q] => p = q
  BY DEF Permuted
<1>3. \A p \in 1 .. l : \E q \in 1 .. l : v[q] = u[p]
  BY DEF Permuted
<1>4. \A p \in 1 .. l : \E q \in 1 .. l : u[q] = v[p]
  BY DEF Permuted
<1>5. w \in Seq(Nat) /\ Len(w) = l /\ \A p \in 1 .. l : w[p] = u[other(p)]
  <2>1. u \in [1 .. l -> Nat] /\ i \in 1 .. l /\ j \in 1 .. l
    BY <1>1
  <2> HIDE DEF l
  <2>2. w \in [1 .. l -> Nat] /\ \A p \in 1 .. l : w[p] = u[other(p)]
    BY <2>1
  <2> HIDE DEF w
  <2> QED BY <1>1, <2>2
<1>6. \A p \in 1 .. l : other(p) \in 1 .. l /\ other(other(p)) = p
  OBVIOUS
<1> HIDE DEF w, other
<1>7. ASSUME NEW p \in 1 .. l, NEW q \in 1 .. l, w[p] = w[q] PROVE p = q
  <2>1. other(p) = other(q)
    <3>1. other(p) \in 1 .. l /\ other(q) \in 1 .. l
      BY <1>6, Zenon
    <3>2. u[other(p)] = u[other(q)]
      BY <1>5, <1>7, Zenon
    <3> QED BY <1>2, <3>1, <3>2, Zenon
  <2> QED BY <1>6, <2>1
<1>8. ASSUME NEW p \in 1 .. l PROVE \E q \in 1 .. l : v[q] = w[p]
  <2>1. other(p) \in 1 .. l /\ w[p] = u[other(p)]
    BY <1>5, <1>6
  <2>2. PICK q \in 1 .. l : v[q] = u[other(p)]
    BY <1>3, <2>1
  <2> QED BY <2>1, <2>2
<1>9. ASSUME NEW p \in 1 .. l PROVE \E q \in 1 .. l : w[q] = v[p]
  <2>1. PICK q \in 1 .. l : u[q] = v[p]
    BY <1>4
  <2>2. other(q) \in 1 .. l /\ w[other(q)] = u[q]
    BY <1>5, <1>6
  <2> QED BY <2>1, <2>2
<1>10. Permuted(v, w)
  BY <1>5, <1>7, <1>8, <1>9 DEF Permuted
<1> QED BY <1>10 DEF w

\* One round exchanges two entries of the bucket.
LEMMA SelectRoundIs ==
    ASSUME NEW s, NEW v \in Seq(Nat), NEW r, Permuted(v, r.vTried),
           NEW i \in 1 .. Len(v), NEW n \in 0 .. Len(v) - 1,
           r.nOldest # -1 => r.nOldestPos \in 0 .. Len(v) - 1
    PROVE  LET x == SelectRound(s, r, i, n)
           IN  /\ Permuted(v, x.vTried)
               /\ x.nOldest # -1 /\ x.nOldestPos \in 0 .. Len(v) - 1
<1> DEFINE x == SelectRound(s, r, i, n)
           u == r.vTried
           w == [u EXCEPT ![n + 1] = u[i], ![i] = u[n + 1]]
           older == \/ r.nOldest = -1
                    \/ s.mapInfo[u[n + 1]].nLastSuccess < s.mapInfo[r.nOldest].nLastSuccess
<1>1. x.vTried = w
  BY DEF SelectRound
<1>2. /\ x.nOldest = (IF older THEN u[n + 1] ELSE r.nOldest)
      /\ x.nOldestPos = (IF older THEN n ELSE r.nOldestPos)
  BY DEF SelectRound
<1>3. ~older => r.nOldest # -1
  OBVIOUS
<1>4. Permuted(v, u) /\ u \in Seq(Nat) /\ Len(u) = Len(v)
  BY DEF Permuted
<1> HIDE DEF older, x, u
<1>5. n + 1 \in 1 .. Len(v)
  OBVIOUS
<1>6. u[n + 1] \in Nat /\ -1 \notin Nat
  BY <1>4, <1>5
<1>7. x.nOldest # -1 /\ x.nOldestPos \in 0 .. Len(v) - 1
  BY <1>2, <1>3, <1>6
<1>8. Permuted(v, w)
  <2> DEFINE j == n + 1
  <2>1. j \in 1 .. Len(v)
    BY <1>5
  <2> HIDE DEF j
  <2>2. Permuted(v, [u EXCEPT ![j] = u[i], ![i] = u[j]])
    BY <1>4, <2>1, SwapPermutes
  <2> QED BY <2>2 DEF j
<1> QED BY <1>1, <1>7, <1>8 DEF x

\* SelectTried permutes the bucket and answers with a position in it.
LEMMA SelectTriedIs ==
    ASSUME NEW s, NEW kb, s.vvTried[kb] \in Seq(Nat), Len(s.vvTried[kb]) # 0,
           \A p, q \in 1 .. Len(s.vvTried[kb]) : s.vvTried[kb][p] = s.vvTried[kb][q] => p = q,
           NEW d \in Draws(s, kb)
    PROVE  LET x == SelectTried(s, kb, d)
           IN  Permuted(s.vvTried[kb], x.vTried) /\ x.nOldestPos \in 0 .. Len(s.vvTried[kb]) - 1
<1> DEFINE v == s.vvTried[kb]
           l == Len(v)
           n == nInspect(s, kb)
           start == [vTried |-> v, nOldest |-> -1, nOldestPos |-> -1]
           F(k, f) == [i \in 0 .. k |-> IF i = 0 THEN start ELSE SelectRound(s, f[i - 1], i, d[i - 1])]
<1>1. l \in Nat /\ v \in Seq(Nat) /\ l >= 1
  OBVIOUS
<1>2. n \in Nat /\ n >= 1 /\ n <= l
  BY <1>1, Sizes DEF nInspect, MinOf
<1>3. \A i \in 1 .. n : d[i - 1] \in 0 .. l - 1
  <2>1. d \in [0 .. n - 1 -> 0 .. l - 1]
    BY DEF Draws
  <2>2. \A i \in 1 .. n : i - 1 \in 0 .. n - 1
    BY <1>2
  <2> QED BY <2>1, <2>2
<1>4. SelectTried(s, kb, d) = (CHOOSE f : f = F(n, f))[n]
  BY DEF SelectTried
<1> HIDE DEF n
<1>5. \A k \in 0 .. n : \E f : f = F(k, f)
  <2> DEFINE bad == {k \in 0 .. n : ~ \E f : f = F(k, f)}
  <2>1. SUFFICES ASSUME bad # {} PROVE FALSE
    OBVIOUS
  <2>2. bad \subseteq Nat
    BY <1>2
  <2>3. PICK k \in bad : \A j \in bad : k <= j
    <3> HIDE DEF bad
    <3> QED BY <2>1, <2>2, LeastExists
  <2>4. k \in 0 .. n /\ ~ \E f : f = F(k, f)
    BY <2>3
  <2>5. CASE k = 0
    <3> DEFINE f == [i \in 0 .. 0 |-> start]
    <3>1. f = F(0, f)
      BY SMT
    <3> QED BY <2>4, <2>5, <3>1
  <2>6. CASE k # 0
    <3>1. k - 1 \in 0 .. n /\ k \in Nat /\ ~(k <= k - 1)
      BY <1>2, <2>4, <2>6
    <3>2. PICK f : f = F(k - 1, f)
      BY <2>3, <3>1
    <3> DEFINE g == [i \in 0 .. k |-> IF i = k THEN SelectRound(s, f[k - 1], k, d[k - 1]) ELSE f[i]]
    <3>3. \A i \in 0 .. k - 1 : g[i] = f[i]
      BY <3>1
    <3>4. ASSUME NEW i \in 0 .. k
          PROVE  g[i] = IF i = 0 THEN start ELSE SelectRound(s, g[i - 1], i, d[i - 1])
      <4>1. CASE i = k
        <5>1. g[i] = SelectRound(s, f[k - 1], k, d[k - 1]) /\ g[i - 1] = f[k - 1]
          BY <2>6, <3>1, <4>1
        <5> HIDE DEF g, start
        <5> QED BY <2>6, <4>1, <5>1
      <4>2. CASE i # k
        <5>1. i \in 0 .. k - 1 /\ (i # 0 => i - 1 \in 0 .. k - 1)
          BY <3>1, <4>2
        <5>2. g[i] = f[i] /\ (i # 0 => g[i - 1] = f[i - 1])
          BY <3>3, <5>1
        <5>3. f[i] = IF i = 0 THEN start ELSE SelectRound(s, f[i - 1], i, d[i - 1])
          <6> HIDE DEF start, g
          <6> QED BY <3>2, <5>1
        <5> HIDE DEF g, start
        <5> QED BY <5>2, <5>3
      <4> QED BY <4>1, <4>2
    <3>5. g = F(k, g)
      <4>1. g = [i \in 0 .. k |-> g[i]]
        OBVIOUS
      <4> HIDE DEF g, start
      <4> QED BY <3>4, <4>1
    <3> QED BY <2>4, <3>5
  <2> QED BY <2>5, <2>6
<1>6. PICK round : round = F(n, round) /\ SelectTried(s, kb, d) = round[n]
  <2>0. n \in 0 .. n
    BY <1>2
  <2>1. \E f : f = F(n, f)
    BY <1>5, <2>0, Zenon
  <2>2. LET f == CHOOSE f : f = F(n, f) IN f = F(n, f)
    BY <2>1
  <2> QED BY <1>4, <2>2
<1> DEFINE Good1(x, i) == /\ Permuted(v, x.vTried)
                          /\ x.nOldest # -1 => x.nOldestPos \in 0 .. l - 1
                          /\ i # 0 => x.nOldest # -1
<1>7. \A i \in 0 .. n : Good1(round[i], i)
  <2> DEFINE bad == {k \in 0 .. n : ~Good1(round[k], k)}
  <2>1. SUFFICES ASSUME bad # {} PROVE FALSE
    OBVIOUS
  <2>2. bad \subseteq Nat
    BY <1>2
  <2>3. PICK k \in bad : \A j \in bad : k <= j
    <3> HIDE DEF bad
    <3> QED BY <2>1, <2>2, LeastExists
  <2>4. k \in 0 .. n /\ ~Good1(round[k], k)
    BY <2>3
  <2>5. CASE k = 0
    <3>1. round[0] = start
      <4>1. 0 \in 0 .. n
        BY <1>2
      <4> HIDE DEF start
      <4> QED BY <1>6, <4>1
    <3>2. Permuted(v, v)
      BY <1>1 DEF Permuted
    <3>3. start.vTried = v /\ start.nOldest = -1
      OBVIOUS
    <3> QED BY <2>4, <2>5, <3>1, <3>2, <3>3
  <2>6. CASE k # 0
    <3>1. k - 1 \in 0 .. n /\ k \in 1 .. n /\ k \in 1 .. l /\ ~(k <= k - 1)
      BY <1>1, <1>2, <2>4, <2>6
    <3>2. Good1(round[k - 1], k - 1)
      BY <2>3, <3>1
    <3>3. round[k] = SelectRound(s, round[k - 1], k, d[k - 1])
      <4> HIDE DEF start, Good1
      <4> QED BY <1>6, <2>4, <2>6
    <3>4. d[k - 1] \in 0 .. l - 1
      BY <1>3, <3>1
    <3>5. Permuted(v, round[k].vTried) /\ round[k].nOldest # -1 /\ round[k].nOldestPos \in 0 .. l - 1
      <4> HIDE DEF v
      <4> QED BY <1>1, <3>1, <3>2, <3>3, <3>4, SelectRoundIs
    <3> QED BY <2>4, <3>5
  <2> QED BY <2>5, <2>6
<1>8. Permuted(v, round[n].vTried) /\ round[n].nOldestPos \in 0 .. l - 1
  BY <1>2, <1>7
<1> QED BY <1>6, <1>8
-----------------------------------------------------------------------------
(* Good_: MakeTried                                                        *)

\* A successful connection is noted.
LEMMA SetSuccess ==
    ASSUME NEW s, TablesOK(s, NoId), NEW id \in Ids(s), NEW n \in Nat, n # 0
    PROVE  LET r == [s EXCEPT !.mapInfo[id].nLastSuccess = n]
           IN  /\ TablesOK(r, NoId) /\ Ids(r) = Ids(s) /\ TriedIds(r) = TriedIds(s) /\ r.vvNew = s.vvNew
               /\ \A i \in Ids(s) : r.mapInfo[i].addr = s.mapInfo[i].addr
               /\ r.mapInfo[id].nLastSuccess # 0
<1> DEFINE M == s.mapInfo
           info == [M[id] EXCEPT !.nLastSuccess = n]
           r == [s EXCEPT !.mapInfo[id].nLastSuccess = n]
<1>1. EntriesOK(s) /\ AddrsOK(s) /\ RandomOK(s) /\ CountsOK(s) /\ TriedOK(s) /\ NewOK(s, NoId)
  BY DEF TablesOK
<1>2. IsAddrMan(s) /\ \A i \in Ids(s) : M[i] \in CAddrInfo
  BY <1>1 DEF EntriesOK
<1>3. /\ IsAddrMan(r) /\ r.mapInfo = [M EXCEPT ![id] = info]
      /\ r.nIdCount = s.nIdCount /\ r.mapAddr = s.mapAddr /\ r.vRandom = s.vRandom
      /\ r.nTried = s.nTried /\ r.vvTried = s.vvTried /\ r.nNew = s.nNew /\ r.vvNew = s.vvNew
  BY <1>2 DEF IsAddrMan, Ids
<1>4. /\ info \in CAddrInfo /\ info.addr = M[id].addr /\ info.nRandomPos = M[id].nRandomPos
      /\ info.fInTried = M[id].fInTried /\ info.nRefCount = M[id].nRefCount
      /\ info.nLastSuccess = n
  BY <1>2 DEF CAddrInfo
<1> HIDE DEF r, info
<1>5. /\ Ids(r) = Ids(s) /\ r.mapInfo[id] = info
      /\ \A i \in Ids(s) : i # id => r.mapInfo[i] = M[i]
  BY <1>3 DEF Ids
<1>6. TriedIds(r) = TriedIds(s) /\ TriedIds(s) \subseteq Ids(s)
  BY <1>4, <1>5 DEF TriedIds, Ids
<1>7. EntriesOK(r) /\ AddrsOK(r) /\ RandomOK(r)
  <2>1. SameIndex(s, r)
    BY <1>2, <1>3, <1>4, <1>5 DEF SameIndex
  <2> QED BY <1>1, <2>1, SameIndexKeeps
<1>8. CountsOK(r)
  BY <1>1, <1>3, <1>5, <1>6 DEF CountsOK
<1>9. /\ \A i \in Ids(s) : r.mapInfo[i].addr = M[i].addr /\ r.mapInfo[i].nRefCount = M[i].nRefCount
      /\ \A i \in Ids(s) : r.mapInfo[i].nLastSuccess = M[i].nLastSuccess \/ r.mapInfo[i].nLastSuccess # 0
  BY <1>4, <1>5
<1>10. TriedOK(r)
  BY <1>1, <1>3, <1>6, <1>9, TriedSame
<1>11. NewOK(r, NoId)
  <2>1. \A i : BucketsOf(r, i) = BucketsOf(s, i)
    BY <1>3 DEF BucketsOf
  <2> QED BY <1>1, <1>3, <1>5, <1>6, <1>9, <2>1 DEF NewOK
<1>12. TablesOK(r, NoId)
  BY <1>7, <1>8, <1>10, <1>11 DEF TablesOK
<1> QED BY <1>3, <1>4, <1>5, <1>6, <1>9, <1>12 DEF r

\* The entry leaves all its new buckets and has no reference left.
LEMMA LeaveNewIs ==
    ASSUME NEW s, TablesOK(s, NoId), NEW id \in Ids(s), id \notin TriedIds(s)
    PROVE  LET t == LeaveNew(s, id)
           IN  /\ IsAddrMan(t) /\ t.mapInfo = [s.mapInfo EXCEPT ![id] = [@ EXCEPT !.nRefCount = 0]]
               /\ t.vvNew = [b \in NewBucket |-> s.vvNew[b] \ {id}] /\ t.nNew = s.nNew - 1
               /\ t.nIdCount = s.nIdCount /\ t.mapAddr = s.mapAddr /\ t.vRandom = s.vRandom
               /\ t.nTried = s.nTried /\ t.vvTried = s.vvTried
<1> DEFINE n == Cardinality({b \in NewBucket : id \in s.vvNew[b]})
           m == s.mapInfo[id].nRefCount - n
           v == [b \in NewBucket |-> s.vvNew[b] \ {id}]
<1>1. IsAddrMan(s) /\ s.mapInfo[id] \in CAddrInfo
  BY DEF TablesOK, EntriesOK
<1>2. m = 0
  <2>1. id # NoId
    BY IdsFinite DEF TablesOK
  <2>2. s.mapInfo[id].nRefCount = Cardinality(BucketsOf(s, id)) + (IF id = NoId THEN 1 ELSE 0)
    BY DEF TablesOK, NewOK
  <2>3. Cardinality(BucketsOf(s, id)) \in Nat
    <3>1. BucketsOf(s, id) \subseteq NewBucket
      BY DEF BucketsOf
    <3> QED BY <3>1, Buckets, SubsetFinite
  <2>4. BucketsOf(s, id) = {b \in NewBucket : id \in s.vvNew[b]}
    BY DEF BucketsOf
  <2>5. n \in Nat /\ s.mapInfo[id].nRefCount = n
    BY <2>1, <2>2, <2>3, <2>4
  <2> HIDE DEF n
  <2> QED BY <2>5
<1>3. LeaveNew(s, id) = [s EXCEPT !.vvNew = v, !.mapInfo[id].nRefCount = m, !.nNew = @ - 1]
  BY DEF LeaveNew
<1> HIDE DEF m, v
<1>4. LeaveNew(s, id) = [s EXCEPT !.vvNew = v, !.mapInfo[id].nRefCount = 0, !.nNew = @ - 1]
  BY <1>2, <1>3
<1>5. LET t == LeaveNew(s, id)
      IN  /\ IsAddrMan(t) /\ t.mapInfo = [s.mapInfo EXCEPT ![id] = [@ EXCEPT !.nRefCount = 0]]
          /\ t.vvNew = v /\ t.nNew = s.nNew - 1
          /\ t.nIdCount = s.nIdCount /\ t.mapAddr = s.mapAddr /\ t.vRandom = s.vRandom
          /\ t.nTried = s.nTried /\ t.vvTried = s.vvTried
  BY <1>1, <1>4 DEF IsAddrMan, Ids
<1> QED BY <1>5 DEF v

\* The content of tried bucket kb becomes w.
Refilled(s, r, kb, w) ==
    /\ w \in Seq(Nat) /\ r.vvTried = [s.vvTried EXCEPT ![kb] = w]
    /\ Len(w) <= ADDRMAN_TRIED_BUCKET_SIZE
    /\ \A p, q \in 1 .. Len(w) : w[p] = w[q] => p = q
    /\ \A p \in 1 .. Len(w) : w[p] \in TriedIds(r) /\ GetTriedBucket[r.mapInfo[w[p]].addr] = kb
    /\ \A i \in TriedIds(r) :
          GetTriedBucket[r.mapInfo[i].addr] = kb => \E p \in 1 .. Len(w) : w[p] = i
    /\ \A i \in TriedIds(r) : /\ r.mapInfo[i].nLastSuccess # 0 /\ r.mapInfo[i].nRefCount = 0
                              /\ GetTriedBucket[r.mapInfo[i].addr] \in TriedBucket
                              /\ GetTriedBucket[r.mapInfo[i].addr] # kb => i \in TriedIds(s)
    /\ \A i \in TriedIds(s) : /\ r.mapInfo[i].addr = s.mapInfo[i].addr
                              /\ GetTriedBucket[s.mapInfo[i].addr] # kb => i \in TriedIds(r)

\* The tried tables are sound when one bucket was filled anew with tried entries of its own.
LEMMA TriedChanged ==
    ASSUME NEW s, NEW r, TriedOK(s), NEW kb \in TriedBucket, NEW w, Refilled(s, r, kb, w)
    PROVE  TriedOK(r)
<1>0. /\ w \in Seq(Nat) /\ r.vvTried = [s.vvTried EXCEPT ![kb] = w]
      /\ Len(w) <= ADDRMAN_TRIED_BUCKET_SIZE
      /\ \A p, q \in 1 .. Len(w) : w[p] = w[q] => p = q
      /\ \A p \in 1 .. Len(w) : w[p] \in TriedIds(r) /\ GetTriedBucket[r.mapInfo[w[p]].addr] = kb
      /\ \A i \in TriedIds(r) :
            GetTriedBucket[r.mapInfo[i].addr] = kb => \E p \in 1 .. Len(w) : w[p] = i
      /\ \A i \in TriedIds(r) : /\ r.mapInfo[i].nLastSuccess # 0 /\ r.mapInfo[i].nRefCount = 0
                                /\ GetTriedBucket[r.mapInfo[i].addr] \in TriedBucket
                                /\ GetTriedBucket[r.mapInfo[i].addr] # kb => i \in TriedIds(s)
      /\ \A i \in TriedIds(s) : /\ r.mapInfo[i].addr = s.mapInfo[i].addr
                                /\ GetTriedBucket[s.mapInfo[i].addr] # kb => i \in TriedIds(r)
  BY DEF Refilled
<1>1. s.vvTried \in [TriedBucket -> Seq(Nat)]
  BY DEF TriedOK
<1>2. r.vvTried \in [TriedBucket -> Seq(Nat)]
  BY <1>0, <1>1
<1>3. r.vvTried[kb] = w /\ \A k \in TriedBucket : k # kb => r.vvTried[k] = s.vvTried[k]
  BY <1>0, <1>1
<1>4. ASSUME NEW k \in TriedBucket
      PROVE  /\ Len(r.vvTried[k]) <= ADDRMAN_TRIED_BUCKET_SIZE
             /\ \A p \in 1 .. Len(r.vvTried[k]) :
                   /\ r.vvTried[k][p] \in TriedIds(r)
                   /\ GetTriedBucket[r.mapInfo[r.vvTried[k][p]].addr] = k
             /\ \A p, q \in 1 .. Len(r.vvTried[k]) : r.vvTried[k][p] = r.vvTried[k][q] => p = q
  <2>1. CASE k = kb
    BY <1>0, <1>3, <2>1
  <2>2. CASE k # kb
    <3> DEFINE v == s.vvTried[k]
    <3>1. /\ Len(v) <= ADDRMAN_TRIED_BUCKET_SIZE
          /\ \A p \in 1 .. Len(v) : v[p] \in TriedIds(s) /\ GetTriedBucket[s.mapInfo[v[p]].addr] = k
          /\ \A p, q \in 1 .. Len(v) : v[p] = v[q] => p = q
      BY DEF TriedOK
    <3>2. r.vvTried[k] = v
      BY <1>3, <2>2
    <3> HIDE DEF v
    <3>3. \A p \in 1 .. Len(v) : v[p] \in TriedIds(r) /\ GetTriedBucket[r.mapInfo[v[p]].addr] = k
      <4>1. \A i \in TriedIds(s) : /\ r.mapInfo[i].addr = s.mapInfo[i].addr
                                   /\ GetTriedBucket[s.mapInfo[i].addr] # kb => i \in TriedIds(r)
        BY <1>0
      <4>2. ASSUME NEW p \in 1 .. Len(v)
            PROVE  v[p] \in TriedIds(r) /\ GetTriedBucket[r.mapInfo[v[p]].addr] = k
        <5>1. v[p] \in TriedIds(s) /\ GetTriedBucket[s.mapInfo[v[p]].addr] = k
          BY <3>1
        <5>2. r.mapInfo[v[p]].addr = s.mapInfo[v[p]].addr
          BY <4>1, <5>1
        <5> QED BY <2>2, <4>1, <5>1, <5>2
      <4> QED BY <4>2
    <3> QED BY <3>1, <3>2, <3>3
  <2> QED BY <2>1, <2>2
<1>5. ASSUME NEW i \in TriedIds(r)
      PROVE  /\ r.mapInfo[i].nLastSuccess # 0 /\ r.mapInfo[i].nRefCount = 0
             /\ LET v == r.vvTried[GetTriedBucket[r.mapInfo[i].addr]]
                IN  \E p \in 1 .. Len(v) : v[p] = i
  <2>0. r.mapInfo[i].nLastSuccess # 0 /\ r.mapInfo[i].nRefCount = 0
    BY <1>0
  <2> DEFINE k == GetTriedBucket[r.mapInfo[i].addr]
  <2>1. CASE k = kb
    <3>1. PICK p \in 1 .. Len(w) : w[p] = i
      BY <1>0, <2>1
    <3> QED BY <1>3, <2>0, <2>1, <3>1
  <2>2. CASE k # kb
    <3>1. i \in TriedIds(s) /\ k \in TriedBucket /\ k = GetTriedBucket[s.mapInfo[i].addr]
      BY <1>0, <2>2
    <3>2. \E p \in 1 .. Len(s.vvTried[k]) : s.vvTried[k][p] = i
      BY <3>1, TriedFound
    <3>3. r.vvTried[k] = s.vvTried[k]
      BY <1>3, <2>2, <3>1
    <3> QED BY <2>0, <3>2, <3>3
  <2> QED BY <2>1, <2>2
<1> QED BY <1>2, <1>4, <1>5 DEF TriedOK
\* Entry id goes from new to tried, and the entries of back from tried to bucket to.
Moved(s, r, id, back, to) ==
    /\ IsAddrMan(r) /\ r.nIdCount = s.nIdCount /\ r.mapAddr = s.mapAddr /\ r.vRandom = s.vRandom
    /\ Ids(r) = Ids(s)
    /\ \A i \in Ids(s) : /\ r.mapInfo[i] \in CAddrInfo
                         /\ r.mapInfo[i].addr = s.mapInfo[i].addr
                         /\ r.mapInfo[i].nRandomPos = s.mapInfo[i].nRandomPos
                         /\ r.mapInfo[i].nLastSuccess = s.mapInfo[i].nLastSuccess
    /\ \A i \in Ids(s) : i # id /\ i \notin back => r.mapInfo[i] = s.mapInfo[i]
    /\ r.mapInfo[id].fInTried /\ r.mapInfo[id].nRefCount = 0
    /\ \A i \in back : ~r.mapInfo[i].fInTried /\ r.mapInfo[i].nRefCount = 1
    /\ r.vvNew = [b \in NewBucket |-> (s.vvNew[b] \ {id}) \cup (IF b = to THEN back ELSE {})]

\* MakeTried moves id to tried and the evicted entries back to a new bucket with room for them:
\* the index and the new buckets stay sound.
LEMMA MovedKeeps ==
    ASSUME NEW s, NEW r, TablesOK(s, NoId), NEW id \in Ids(s), id \notin TriedIds(s),
           NEW back, back \subseteq TriedIds(s), NEW to \in NewBucket, Moved(s, r, id, back, to),
           Cardinality(r.vvNew[to]) <= ADDRMAN_NEW_BUCKET_SIZE
    PROVE  /\ EntriesOK(r) /\ AddrsOK(r) /\ RandomOK(r) /\ NewOK(r, NoId)
           /\ TriedIds(r) = (TriedIds(s) \ back) \cup {id}
<1> DEFINE M == s.mapInfo
           N == r.mapInfo
           kept(b) == s.vvNew[b] \ {id}
<1>1. EntriesOK(s) /\ AddrsOK(s) /\ RandomOK(s) /\ CountsOK(s) /\ TriedOK(s) /\ NewOK(s, NoId)
  BY DEF TablesOK
<1>2. /\ \A i \in Ids(s) : i # id /\ i \notin back => N[i] = M[i]
      /\ N[id].fInTried /\ N[id].nRefCount = 0 /\ Ids(r) = Ids(s)
      /\ \A i \in back : ~N[i].fInTried /\ N[i].nRefCount = 1
  BY DEF Moved
<1>3. r.vvNew = [b \in NewBucket |-> kept(b) \cup (IF b = to THEN back ELSE {})]
  BY DEF Moved
<1>4. SameIndex(s, r)
  BY DEF Moved, SameIndex
<1>5. EntriesOK(r) /\ AddrsOK(r) /\ RandomOK(r)
  BY <1>1, <1>4, SameIndexKeeps
<1>6. \A u : TriedIds(u) = {i \in Ids(u) : u.mapInfo[i].fInTried} /\ TriedIds(u) \subseteq Ids(u)
  BY DEF TriedIds, Ids
<1>7. TriedIds(r) = (TriedIds(s) \ back) \cup {id}
  BY <1>2, <1>6
<1>8. IsFiniteSet(Ids(s)) /\ \A i \in Ids(s) : i \in Nat /\ i # NoId
  BY <1>1, IdsFinite
<1>9. /\ s.vvNew \in [NewBucket -> SUBSET Nat]
      /\ \A b \in NewBucket : /\ s.vvNew[b] \subseteq Ids(s) \ TriedIds(s)
                              /\ Cardinality(s.vvNew[b]) <= ADDRMAN_NEW_BUCKET_SIZE
      /\ \A i \in Ids(s) \ TriedIds(s) :
            /\ M[i].nRefCount # 0
            /\ M[i].nRefCount = Cardinality(BucketsOf(s, i)) + (IF i = NoId THEN 1 ELSE 0)
  BY <1>1 DEF NewOK
<1>10. \A b \in NewBucket : r.vvNew[b] = kept(b) \cup (IF b = to THEN back ELSE {})
  BY <1>3
<1>11. Ids(r) \ TriedIds(r) = ((Ids(s) \ TriedIds(s)) \ {id}) \cup back
  BY <1>2, <1>6, <1>7
<1>12. r.vvNew \in [NewBucket -> SUBSET Nat]
  <2>1. \A b \in NewBucket : r.vvNew[b] \subseteq Nat
    BY <1>6, <1>8, <1>9, <1>10
  <2> QED BY <1>3, <2>1
<1>13. ASSUME NEW b \in NewBucket
       PROVE  /\ r.vvNew[b] \subseteq Ids(r) \ TriedIds(r)
              /\ Cardinality(r.vvNew[b]) <= ADDRMAN_NEW_BUCKET_SIZE
  <2>1. r.vvNew[b] \subseteq Ids(r) \ TriedIds(r)
    BY <1>9, <1>10, <1>11
  <2>2. CASE b = to
    BY <2>1, <2>2
  <2>3. CASE b # to
    <3>1. r.vvNew[b] \subseteq s.vvNew[b] /\ s.vvNew[b] \subseteq Ids(s)
      BY <1>9, <1>10, <2>3
    <3>2. IsFiniteSet(s.vvNew[b]) /\ Cardinality(s.vvNew[b]) \in Nat
      BY <1>8, <3>1, SubsetFinite
    <3>3. Cardinality(r.vvNew[b]) <= Cardinality(s.vvNew[b]) /\ Cardinality(r.vvNew[b]) \in Nat
      BY <3>1, <3>2, SubsetFinite
    <3>4. Cardinality(s.vvNew[b]) <= ADDRMAN_NEW_BUCKET_SIZE
      BY <1>9
    <3> QED BY <2>1, <3>2, <3>3, <3>4, Sizes
  <2> QED BY <2>2, <2>3
<1>14. ASSUME NEW i \in Ids(r) \ TriedIds(r)
       PROVE  /\ N[i].nRefCount # 0
              /\ N[i].nRefCount = Cardinality(BucketsOf(r, i)) + (IF i = NoId THEN 1 ELSE 0)
  <2>0. i # NoId
    BY <1>2, <1>8
  <2>1. CASE i \in back
    <3>1. \A b \in NewBucket : i \notin kept(b)
      BY <1>9, <2>1
    <3>2. BucketsOf(r, i) = {to}
      BY <1>10, <2>1, <3>1 DEF BucketsOf
    <3>3. Cardinality({to}) = 1
      BY FS_Singleton
    <3> QED BY <1>2, <2>0, <2>1, <3>2, <3>3
  <2>2. CASE i \notin back
    <3>1. i \in Ids(s) \ TriedIds(s) /\ i # id
      BY <1>11, <2>2
    <3>2. BucketsOf(r, i) = BucketsOf(s, i)
      BY <1>10, <2>2, <3>1 DEF BucketsOf
    <3>3. N[i] = M[i]
      BY <1>2, <2>2, <3>1
    <3> QED BY <1>9, <3>1, <3>2, <3>3
  <2> QED BY <2>1, <2>2
<1>15. NewOK(r, NoId)
  BY <1>12, <1>13, <1>14 DEF NewOK
<1> QED BY <1>5, <1>7, <1>15

\* The tables are sound and no entry is lost.
AllKept(s, r) ==
    /\ TablesOK(r, NoId) /\ Ids(r) = Ids(s)
    /\ \A i \in Ids(s) : r.mapInfo[i].addr = s.mapInfo[i].addr

\* The bucket of the address has room.
LEMMA AppendTriedIs ==
    ASSUME NEW s, TablesOK(s, NoId), NEW id \in Ids(s), id \notin TriedIds(s),
           s.mapInfo[id].nLastSuccess # 0, NEW kb, kb = GetTriedBucket[s.mapInfo[id].addr],
           Len(s.vvTried[kb]) < ADDRMAN_TRIED_BUCKET_SIZE, NEW to \in NewBucket
    PROVE  AllKept(s, [LeaveNew(s, id) EXCEPT !.vvTried[kb] = Append(@, id), !.nTried = @ + 1,
                                              !.mapInfo[id].fInTried = TRUE])
<1> DEFINE r == [LeaveNew(s, id) EXCEPT !.vvTried[kb] = Append(@, id), !.nTried = @ + 1,
                                        !.mapInfo[id].fInTried = TRUE]
           M == s.mapInfo
           t == LeaveNew(s, id)
           left == [M[id] EXCEPT !.nRefCount = 0]
           info == [left EXCEPT !.fInTried = TRUE]
           v == s.vvTried[kb]
           w == Append(v, id)
<1>1. EntriesOK(s) /\ AddrsOK(s) /\ RandomOK(s) /\ CountsOK(s) /\ TriedOK(s) /\ NewOK(s, NoId)
  BY DEF TablesOK
<1>2. IsAddrMan(s) /\ \A i \in Ids(s) : M[i] \in CAddrInfo
  BY <1>1 DEF EntriesOK
<1>3. /\ IsAddrMan(t) /\ t.mapInfo = [M EXCEPT ![id] = left]
      /\ t.vvNew = [b \in NewBucket |-> s.vvNew[b] \ {id}] /\ t.nNew = s.nNew - 1
      /\ t.nIdCount = s.nIdCount /\ t.mapAddr = s.mapAddr /\ t.vRandom = s.vRandom
      /\ t.nTried = s.nTried /\ t.vvTried = s.vvTried
  BY LeaveNewIs
<1>4. /\ info \in CAddrInfo /\ info.addr = M[id].addr /\ info.nRandomPos = M[id].nRandomPos
      /\ info.nLastSuccess = M[id].nLastSuccess /\ info.fInTried /\ info.nRefCount = 0
  <2>1. M[id] \in CAddrInfo /\ 0 \in 0 .. ADDRMAN_NEW_BUCKETS_PER_ADDRESS
    BY <1>2, Sizes
  <2> QED BY <2>1 DEF CAddrInfo
<1>5. r = [t EXCEPT !.vvTried[kb] = Append(@, id), !.nTried = @ + 1, !.mapInfo[id].fInTried = TRUE]
  OBVIOUS
<1>6. kb \in TriedBucket /\ M[id].addr \in Service
  BY <1>2, Buckets DEF CAddrInfo
<1>7. s.vvTried \in [TriedBucket -> Seq(Nat)] /\ v \in Seq(Nat)
  BY <1>1, <1>6 DEF TriedOK
<1> HIDE DEF t, left, r
<1>8. /\ IsAddrMan(r) /\ r.mapInfo = [M EXCEPT ![id] = info]
      /\ r.vvNew = t.vvNew /\ r.nNew = s.nNew - 1
      /\ r.nIdCount = s.nIdCount /\ r.mapAddr = s.mapAddr /\ r.vRandom = s.vRandom
      /\ r.nTried = s.nTried + 1 /\ r.vvTried = [s.vvTried EXCEPT ![kb] = w]
  <2>1. /\ IsAddrMan(r) /\ r.mapInfo = [t.mapInfo EXCEPT ![id].fInTried = TRUE]
        /\ r.vvNew = t.vvNew /\ r.nNew = t.nNew
        /\ r.nIdCount = t.nIdCount /\ r.mapAddr = t.mapAddr /\ r.vRandom = t.vRandom
        /\ r.nTried = t.nTried + 1 /\ r.vvTried = [t.vvTried EXCEPT ![kb] = Append(@, id)]
    BY <1>3, <1>5 DEF IsAddrMan
  <2>2. [t.mapInfo EXCEPT ![id].fInTried = TRUE] = [M EXCEPT ![id] = info]
    BY <1>3 DEF Ids
  <2>3. [t.vvTried EXCEPT ![kb] = Append(@, id)] = [s.vvTried EXCEPT ![kb] = w]
    BY <1>3
  <2> HIDE DEF info, w
  <2> QED BY <1>3, <2>1, <2>2, <2>3
<1> HIDE DEF info
<1>9. /\ Ids(r) = Ids(s) /\ r.mapInfo[id] = info
      /\ \A i \in Ids(s) : i # id => r.mapInfo[i] = M[i]
  BY <1>8 DEF Ids
<1>news. r.vvNew = [b \in NewBucket |-> s.vvNew[b] \ {id}]
  BY <1>3, <1>8, Zenon
<1>10. Moved(s, r, id, {}, to)
  <2>1. r.vvNew = [b \in NewBucket |-> (s.vvNew[b] \ {id}) \cup (IF b = to THEN {} ELSE {})]
    BY <1>news
  <2> QED BY <1>2, <1>4, <1>8, <1>9, <2>1 DEF Moved
<1>11. /\ EntriesOK(r) /\ AddrsOK(r) /\ RandomOK(r) /\ NewOK(r, NoId)
       /\ TriedIds(r) = TriedIds(s) \cup {id}
  <2>1. s.vvNew[to] \subseteq Ids(s) /\ IsFiniteSet(Ids(s)) /\ Cardinality(s.vvNew[to]) <= ADDRMAN_NEW_BUCKET_SIZE
    BY <1>1, IdsFinite DEF NewOK
  <2>2. IsFiniteSet(s.vvNew[to]) /\ Cardinality(s.vvNew[to]) \in Nat
    BY <2>1, SubsetFinite
  <2>3. r.vvNew[to] \subseteq s.vvNew[to]
    BY <1>news
  <2>4. Cardinality(r.vvNew[to]) <= Cardinality(s.vvNew[to]) /\ Cardinality(r.vvNew[to]) \in Nat
    BY <2>2, <2>3, SubsetFinite
  <2>5. Cardinality(r.vvNew[to]) <= ADDRMAN_NEW_BUCKET_SIZE
    BY <2>1, <2>2, <2>4, Sizes
  <2>6. {} \subseteq TriedIds(s) /\ (TriedIds(s) \ {}) = TriedIds(s)
    OBVIOUS
  <2>7. /\ EntriesOK(r) /\ AddrsOK(r) /\ RandomOK(r) /\ NewOK(r, NoId)
        /\ TriedIds(r) = (TriedIds(s) \ {}) \cup {id}
    <3> DEFINE none == {}
    <3>1. Moved(s, r, id, none, to) /\ none \subseteq TriedIds(s)
      BY <1>10
    <3> HIDE DEF none
    <3>3. /\ EntriesOK(r) /\ AddrsOK(r) /\ RandomOK(r) /\ NewOK(r, NoId)
          /\ TriedIds(r) = (TriedIds(s) \ none) \cup {id}
      BY <2>5, <3>1, MovedKeeps
    <3> QED BY <3>3 DEF none
  <2> QED BY <2>6, <2>7
<1>12. /\ IsFiniteSet(TriedIds(s)) /\ Cardinality(TriedIds(s)) \in Nat /\ TriedIds(s) \subseteq Ids(s)
       /\ IsFiniteSet(Ids(s) \ TriedIds(s)) /\ Cardinality(Ids(s) \ TriedIds(s)) \in Nat /\ id \in Nat
  <2>1. IsFiniteSet(Ids(s)) /\ TriedIds(s) \subseteq Ids(s) /\ Ids(s) \ TriedIds(s) \subseteq Ids(s) /\ id \in Nat
    BY <1>1, IdsFinite
  <2> QED BY <2>1, SubsetFinite
<1>13. CountsOK(r)
  <2>1. Cardinality(TriedIds(s) \cup {id}) = Cardinality(TriedIds(s)) + 1
    BY <1>12, FS_AddElement
  <2>2. Cardinality((Ids(s) \ TriedIds(s)) \ {id}) = Cardinality(Ids(s) \ TriedIds(s)) - 1
    BY <1>12, FS_RemoveElement
  <2>3. Ids(r) \ TriedIds(r) = (Ids(s) \ TriedIds(s)) \ {id}
    BY <1>9, <1>11
  <2> QED BY <1>1, <1>8, <1>11, <2>1, <2>2, <2>3 DEF CountsOK
<1>14. TriedOK(r)
  <2>1. /\ w \in Seq(Nat) /\ Len(w) = Len(v) + 1 /\ w[Len(v) + 1] = id /\ Len(v) \in Nat
        /\ \A p \in 1 .. Len(v) : w[p] = v[p]
    <3>1. v \in Seq(Nat) /\ id \in Nat
      BY <1>7, <1>12
    <3> HIDE DEF v
    <3>2. Len(v) \in Nat
      BY <3>1
    <3> QED BY <3>1, <3>2, AppendProperties
  <2>2. Len(w) <= ADDRMAN_TRIED_BUCKET_SIZE
    <3>1. Len(v) < ADDRMAN_TRIED_BUCKET_SIZE
      OBVIOUS
    <3> HIDE DEF v, w
    <3> QED BY <2>1, <3>1, Sizes
  <2>3. /\ \A p \in 1 .. Len(v) : v[p] \in TriedIds(s) /\ GetTriedBucket[M[v[p]].addr] = kb
        /\ \A p, q \in 1 .. Len(v) : v[p] = v[q] => p = q
    BY <1>1, <1>6 DEF TriedOK
  <2>4. ASSUME NEW i \in TriedIds(s), GetTriedBucket[M[i].addr] = kb PROVE \E p \in 1 .. Len(v) : v[p] = i
    BY <1>1, <2>4, TriedFound
  <2>5. \A i \in TriedIds(s) : M[i].nLastSuccess # 0 /\ M[i].nRefCount = 0
    BY <1>1 DEF TriedOK
  <2> HIDE DEF w, v
  <2>6. \A p \in 1 .. Len(w) : p \in 1 .. Len(v) \/ p = Len(v) + 1
    BY <2>1
  <2>7. \A p \in 1 .. Len(v) : p \in 1 .. Len(w) /\ p # Len(v) + 1
    BY <2>1
  <2>8. Len(v) + 1 \in 1 .. Len(w)
    BY <2>1
  <2>9. ASSUME NEW p \in 1 .. Len(w), NEW q \in 1 .. Len(w), w[p] = w[q] PROVE p = q
    BY <2>1, <2>3, <2>6, <2>9
  <2>10. \A i \in Ids(s) : r.mapInfo[i].addr = M[i].addr
    BY <1>4, <1>9
  <2>11. ASSUME NEW p \in 1 .. Len(w)
         PROVE  w[p] \in TriedIds(r) /\ GetTriedBucket[r.mapInfo[w[p]].addr] = kb
    <3>1. CASE p = Len(v) + 1
      <4>1. w[p] = id
        BY <2>1, <3>1
      <4> QED BY <1>11, <2>10, <4>1
    <3>2. CASE p \in 1 .. Len(v)
      <4>1. w[p] = v[p] /\ v[p] \in TriedIds(s) /\ GetTriedBucket[M[v[p]].addr] = kb
        BY <2>1, <2>3, <3>2
      <4> QED BY <1>11, <1>12, <2>10, <4>1
    <3> QED BY <2>6, <3>1, <3>2
  <2>12. ASSUME NEW i \in TriedIds(r), GetTriedBucket[r.mapInfo[i].addr] = kb
         PROVE  \E p \in 1 .. Len(w) : w[p] = i
    <3>1. CASE i = id
      BY <2>1, <2>8, <3>1
    <3>2. CASE i # id
      <4>1. i \in TriedIds(s) /\ GetTriedBucket[M[i].addr] = kb
        BY <1>11, <1>12, <2>10, <2>12, <3>2
      <4>2. PICK p \in 1 .. Len(v) : v[p] = i
        BY <2>4, <4>1
      <4> QED BY <2>1, <2>7, <4>2
    <3> QED BY <3>1, <3>2
  <2>13. ASSUME NEW i \in TriedIds(r)
         PROVE  /\ r.mapInfo[i].nLastSuccess # 0 /\ r.mapInfo[i].nRefCount = 0
                /\ GetTriedBucket[r.mapInfo[i].addr] \in TriedBucket
                /\ GetTriedBucket[r.mapInfo[i].addr] # kb => i \in TriedIds(s)
    <3>1. CASE i = id
      BY <1>4, <1>6, <1>9, <3>1
    <3>2. CASE i # id
      <4>1. i \in TriedIds(s) /\ i \in Ids(s) /\ r.mapInfo[i] = M[i]
        BY <1>9, <1>11, <1>12, <3>2
      <4>2. M[i].addr \in Service
        BY <1>2, <4>1 DEF CAddrInfo
      <4> QED BY <2>5, <4>1, <4>2, Buckets
    <3> QED BY <3>1, <3>2
  <2>14. \A i \in TriedIds(s) : r.mapInfo[i].addr = M[i].addr /\ i \in TriedIds(r)
    BY <1>11, <1>12, <2>10
  <2>15. r.vvTried = [s.vvTried EXCEPT ![kb] = w]
    BY <1>8 DEF w, v
  <2>16. Refilled(s, r, kb, w)
    BY <2>1, <2>2, <2>9, <2>11, <2>12, <2>13, <2>14, <2>15 DEF Refilled
  <2> QED BY <1>1, <1>6, <2>16, TriedChanged
<1>15. TablesOK(r, NoId)
  BY <1>11, <1>13, <1>14 DEF TablesOK
<1>16. AllKept(s, r)
  BY <1>4, <1>9, <1>15 DEF AllKept
<1> QED BY <1>16, Zenon DEF r

\* What SelectTried leaves: the bucket shuffled, and a position in it.
Selected(s, kb, sel) ==
    Permuted(s.vvTried[kb], sel.vTried) /\ sel.nOldestPos \in 0 .. Len(s.vvTried[kb]) - 1

\* The entry takes the place of another one, which has room in a new bucket.
LEMMA EvictTriedIs ==
    ASSUME NEW s, TablesOK(s, NoId), NEW id \in Ids(s), id \notin TriedIds(s),
           s.mapInfo[id].nLastSuccess # 0, NEW kb, kb = GetTriedBucket[s.mapInfo[id].addr],
           NEW sel, Selected(s, kb, sel),
           NEW nOrigin \in NewBucket, id \in s.vvNew[nOrigin]
    PROVE  AllKept(s, EvictTried(LeaveNew(s, id), id, kb, sel, nOrigin))
<1> DEFINE t == LeaveNew(s, id)
           r == EvictTried(t, id, kb, sel, nOrigin)
           M == s.mapInfo
           v == s.vvTried[kb]
           u == sel.vTried
           pos == sel.nOldestPos + 1
           old == u[pos]
           w == [u EXCEPT ![pos] = id]
           left == [M[id] EXCEPT !.nRefCount = 0]
           info == [left EXCEPT !.fInTried = TRUE]
           back == [M[old] EXCEPT !.fInTried = FALSE, !.nRefCount = 1]
           nUBucket == GetNewBucket[<<t.mapInfo[old].addr, t.mapInfo[old].source>>]
           to == IF Cardinality(t.vvNew[nUBucket]) < ADDRMAN_NEW_BUCKET_SIZE THEN nUBucket ELSE nOrigin
<1>1. EntriesOK(s) /\ AddrsOK(s) /\ RandomOK(s) /\ CountsOK(s) /\ TriedOK(s) /\ NewOK(s, NoId)
  BY DEF TablesOK
<1>2. IsAddrMan(s) /\ \A i \in Ids(s) : M[i] \in CAddrInfo
  BY <1>1 DEF EntriesOK
<1>3. /\ IsAddrMan(t) /\ t.mapInfo = [M EXCEPT ![id] = left]
      /\ t.vvNew = [b \in NewBucket |-> s.vvNew[b] \ {id}] /\ t.nNew = s.nNew - 1
      /\ t.nIdCount = s.nIdCount /\ t.mapAddr = s.mapAddr /\ t.vRandom = s.vRandom
      /\ t.nTried = s.nTried /\ t.vvTried = s.vvTried
  BY LeaveNewIs
<1>4. r = [t EXCEPT !.vvTried[kb] = w, !.mapInfo[old].fInTried = FALSE, !.mapInfo[old].nRefCount = 1,
                    !.mapInfo[id].fInTried = TRUE, !.vvNew[to] = @ \cup {old}, !.nNew = @ + 1]
  BY DEF EvictTried
<1>5. kb \in TriedBucket /\ M[id].addr \in Service
  BY <1>2, Buckets DEF CAddrInfo
<1>6. s.vvTried \in [TriedBucket -> Seq(Nat)] /\ v \in Seq(Nat)
  BY <1>1, <1>5 DEF TriedOK
<1>held. \A q \in 1 .. Len(v) : v[q] \in TriedIds(s) /\ GetTriedBucket[M[v[q]].addr] = kb
  BY <1>1, <1>5 DEF TriedOK
<1>0. Permuted(v, u) /\ pos \in 1 .. Len(v)
  <2> DEFINE l == Len(v)
             n == sel.nOldestPos
  <2>1. l \in Nat /\ Permuted(v, u)
    BY <1>6 DEF Selected
  <2>2. n \in 0 .. l - 1
    BY DEF Selected
  <2> HIDE DEF l, n
  <2>3. n + 1 \in 1 .. l
    BY <2>1, <2>2
  <2> QED BY <2>1, <2>3 DEF n, l
<1> HIDE DEF u, v, pos
<1>7. /\ u \in Seq(Nat) /\ Len(u) = Len(v) /\ Len(v) \in Nat
      /\ \A p, q \in 1 .. Len(v) : u[p] = u[q] => p = q
  <2>1. u \in Seq(Nat) /\ Len(u) = Len(v) /\ Len(v) \in Nat
    <3>1. u \in Seq(Nat) /\ Len(u) = Len(v)
      BY <1>0, Zenon DEF Permuted
    <3>2. Len(v) \in Nat
      BY <1>6
    <3> QED BY <3>1, <3>2, Zenon
  <2>2. \A p, q \in 1 .. Len(u) : u[p] = u[q] => p = q
    BY <1>0 DEF Permuted
  <2> QED BY <2>1, <2>2
<1>8. pos \in 1 .. Len(v)
  BY <1>0
<1>9. /\ IsFiniteSet(Ids(s)) /\ TriedIds(s) \subseteq Ids(s)
      /\ \A i \in Ids(s) : i \in Nat /\ i # NoId
  BY <1>1, IdsFinite
<1> HIDE DEF t, r, left
<1>10. ASSUME NEW p \in 1 .. Len(v)
       PROVE  u[p] \in TriedIds(s) /\ GetTriedBucket[M[u[p]].addr] = kb
  <2>1. PICK q \in 1 .. Len(v) : v[q] = u[p]
    <3>1. \A x \in 1 .. Len(u) : \E q \in 1 .. Len(v) : v[q] = u[x]
      BY <1>0 DEF Permuted
    <3> QED BY <1>7, <3>1
  <2>2. v[q] \in TriedIds(s) /\ GetTriedBucket[M[v[q]].addr] = kb
    BY <1>held
  <2> QED BY <2>1, <2>2
<1>11. old \in TriedIds(s) /\ old \in Ids(s) /\ old # id /\ M[old] \in CAddrInfo
       /\ GetTriedBucket[M[old].addr] = kb
  BY <1>2, <1>8, <1>9, <1>10
<1> HIDE DEF old
<1>12. t.mapInfo[old] = M[old] /\ t.mapInfo[id] = left
  BY <1>3, <1>11 DEF Ids
<1>13. nUBucket \in NewBucket
  <2>1. M[old].addr \in Service /\ M[old].source \in Source
    BY <1>11 DEF CAddrInfo
  <2> QED BY <1>12, <2>1, Buckets
<1>14. to \in NewBucket
  BY <1>13
<1>15. /\ info \in CAddrInfo /\ info.addr = M[id].addr /\ info.nRandomPos = M[id].nRandomPos
       /\ info.nLastSuccess = M[id].nLastSuccess /\ info.fInTried /\ info.nRefCount = 0
  <2>1. M[id] \in CAddrInfo /\ 0 \in 0 .. ADDRMAN_NEW_BUCKETS_PER_ADDRESS
    BY <1>2, Sizes
  <2> QED BY <2>1 DEF CAddrInfo, left
<1>16. /\ back \in CAddrInfo /\ back.addr = M[old].addr /\ back.nRandomPos = M[old].nRandomPos
       /\ back.nLastSuccess = M[old].nLastSuccess /\ ~back.fInTried /\ back.nRefCount = 1
  <2>1. M[old] \in CAddrInfo /\ 1 \in 0 .. ADDRMAN_NEW_BUCKETS_PER_ADDRESS
    BY <1>11, Sizes
  <2> QED BY <2>1 DEF CAddrInfo
<1> HIDE DEF to, nUBucket
<1>17. /\ IsAddrMan(r) /\ r.mapInfo = [M EXCEPT ![id] = info, ![old] = back]
       /\ r.vvNew = [t.vvNew EXCEPT ![to] = @ \cup {old}] /\ r.nNew = t.nNew + 1
       /\ r.nIdCount = s.nIdCount /\ r.mapAddr = s.mapAddr /\ r.vRandom = s.vRandom
       /\ r.nTried = s.nTried /\ r.vvTried = [s.vvTried EXCEPT ![kb] = w]
  <2> DEFINE N == t.mapInfo
             O == [[[N EXCEPT ![old].fInTried = FALSE] EXCEPT ![old].nRefCount = 1] EXCEPT ![id].fInTried = TRUE]
  <2> HIDE DEF w
  <2>1. /\ IsAddrMan(r) /\ r.mapInfo = O
        /\ r.vvNew = [t.vvNew EXCEPT ![to] = @ \cup {old}] /\ r.nNew = t.nNew + 1
        /\ r.nIdCount = t.nIdCount /\ r.mapAddr = t.mapAddr /\ r.vRandom = t.vRandom
        /\ r.nTried = t.nTried /\ r.vvTried = [t.vvTried EXCEPT ![kb] = w]
    BY <1>3, <1>4 DEF IsAddrMan
  <2>2. DOMAIN N = DOMAIN M /\ N[old] = M[old] /\ N[id] = left
        /\ \A i \in DOMAIN M : i # id => N[i] = M[i]
    BY <1>3, <1>12 DEF Ids
  <2>3. O = [M EXCEPT ![id] = info, ![old] = back]
    <3> HIDE DEF N
    <3>1. /\ DOMAIN O = DOMAIN M
          /\ O[old] = [[M[old] EXCEPT !.fInTried = FALSE] EXCEPT !.nRefCount = 1]
          /\ O[id] = [left EXCEPT !.fInTried = TRUE]
          /\ \A i \in DOMAIN M : i # id /\ i # old => O[i] = M[i]
      BY <1>11, <2>2 DEF Ids
    <3>2. O = [i \in DOMAIN M |-> O[i]]
      <4>1. O = [i \in DOMAIN O |-> O[i]]
        <5> DEFINE P == [[N EXCEPT ![old].fInTried = FALSE] EXCEPT ![old].nRefCount = 1]
        <5>1. O = [P EXCEPT ![id].fInTried = TRUE]
          OBVIOUS
        <5> HIDE DEF P, O
        <5> QED BY <5>1
      <4> HIDE DEF O
      <4> QED BY <3>1, <4>1
    <3> HIDE DEF O, left
    <3>3. O[old] = back /\ O[id] = info
      BY <3>1
    <3> HIDE DEF info, back
    <3> QED BY <1>11, <3>1, <3>2, <3>3 DEF Ids
  <2> HIDE DEF O
  <2> QED BY <1>3, <2>1, <2>3
<1> HIDE DEF info, back
<1>18. /\ Ids(r) = Ids(s) /\ r.mapInfo[id] = info /\ r.mapInfo[old] = back
       /\ \A i \in Ids(s) : i # id /\ i # old => r.mapInfo[i] = M[i]
  BY <1>11, <1>17 DEF Ids
<1>19. s.vvNew \in [NewBucket -> SUBSET Nat]
       /\ \A b \in NewBucket : /\ s.vvNew[b] \subseteq Ids(s) \ TriedIds(s)
                               /\ Cardinality(s.vvNew[b]) <= ADDRMAN_NEW_BUCKET_SIZE
  BY <1>1 DEF NewOK
<1>20. r.vvNew = [b \in NewBucket |-> (s.vvNew[b] \ {id}) \cup (IF b = to THEN {old} ELSE {})]
  <2>1. t.vvNew = [b \in NewBucket |-> s.vvNew[b] \ {id}]
    BY <1>3
  <2>2. r.vvNew = [b \in NewBucket |-> IF b = to THEN t.vvNew[to] \cup {old} ELSE t.vvNew[b]]
    BY <1>14, <1>17, <2>1
  <2>3. ASSUME NEW b \in NewBucket
        PROVE  (IF b = to THEN t.vvNew[to] \cup {old} ELSE t.vvNew[b])
                  = (s.vvNew[b] \ {id}) \cup (IF b = to THEN {old} ELSE {})
    BY <2>1
  <2> QED BY <2>2, <2>3
<1>21. Moved(s, r, id, {old}, to)
  <2>1. \A i \in Ids(s) : /\ r.mapInfo[i] \in CAddrInfo
                         /\ r.mapInfo[i].addr = M[i].addr
                         /\ r.mapInfo[i].nRandomPos = M[i].nRandomPos
                         /\ r.mapInfo[i].nLastSuccess = M[i].nLastSuccess
    BY <1>2, <1>15, <1>16, <1>18
  <2> QED BY <1>15, <1>16, <1>17, <1>18, <1>20, <2>1 DEF Moved
<1>22. Cardinality(r.vvNew[to]) <= ADDRMAN_NEW_BUCKET_SIZE
  <2> DEFINE rest == s.vvNew[to] \ {id}
  <2>1. r.vvNew[to] = rest \cup {old} /\ old \notin rest /\ t.vvNew[to] = rest
    BY <1>3, <1>11, <1>14, <1>19, <1>20
  <2>2. IsFiniteSet(s.vvNew[to]) /\ Cardinality(s.vvNew[to]) \in Nat
        /\ Cardinality(s.vvNew[to]) <= ADDRMAN_NEW_BUCKET_SIZE
    <3>1. s.vvNew[to] \subseteq Ids(s) /\ Cardinality(s.vvNew[to]) <= ADDRMAN_NEW_BUCKET_SIZE
      BY <1>14, <1>19
    <3> QED BY <1>9, <3>1, SubsetFinite
  <2>3. IsFiniteSet(rest) /\ Cardinality(rest) \in Nat
    <3>1. rest \subseteq s.vvNew[to]
      OBVIOUS
    <3> HIDE DEF rest
    <3> QED BY <2>2, <3>1, SubsetFinite
  <2>4. Cardinality(rest) < ADDRMAN_NEW_BUCKET_SIZE
    <3>1. CASE Cardinality(t.vvNew[nUBucket]) < ADDRMAN_NEW_BUCKET_SIZE
      <4>1. to = nUBucket
        BY <3>1 DEF to
      <4> QED BY <2>1, <3>1, <4>1
    <3>2. CASE ~(Cardinality(t.vvNew[nUBucket]) < ADDRMAN_NEW_BUCKET_SIZE)
      <4>1. to = nOrigin
        BY <3>2 DEF to
      <4>2. id \in s.vvNew[to]
        BY <4>1
      <4>3. Cardinality(s.vvNew[to] \ {id}) = Cardinality(s.vvNew[to]) - 1
        BY <2>2, <4>2, FS_RemoveElement
      <4> QED BY <2>2, <4>3, Sizes
    <3> QED BY <3>1, <3>2
  <2> HIDE DEF rest
  <2>5. Cardinality(rest \cup {old}) = Cardinality(rest) + 1
    BY <2>1, <2>3, FS_AddElement
  <2> QED BY <2>1, <2>3, <2>4, <2>5, Sizes
<1>23. /\ EntriesOK(r) /\ AddrsOK(r) /\ RandomOK(r) /\ NewOK(r, NoId)
       /\ TriedIds(r) = (TriedIds(s) \ {old}) \cup {id}
  <2> DEFINE B == {old}
  <2>1. B \subseteq TriedIds(s) /\ Moved(s, r, id, B, to)
    BY <1>11, <1>21
  <2> HIDE DEF B
  <2>2. /\ EntriesOK(r) /\ AddrsOK(r) /\ RandomOK(r) /\ NewOK(r, NoId)
        /\ TriedIds(r) = (TriedIds(s) \ B) \cup {id}
    BY <1>14, <1>22, <2>1, MovedKeeps
  <2> QED BY <2>2 DEF B
<1>24. CountsOK(r)
  <2> DEFINE T == TriedIds(s)
             S == Ids(s) \ TriedIds(s)
  <2>1. IsFiniteSet(T) /\ IsFiniteSet(S) /\ Cardinality(T) \in Nat /\ Cardinality(S) \in Nat
    <3>1. T \subseteq Ids(s) /\ S \subseteq Ids(s)
      BY <1>9
    <3> QED BY <1>9, <3>1, SubsetFinite
  <2>2. /\ old \in T /\ old \notin S /\ id \in S /\ id \notin T /\ old # id
        /\ TriedIds(r) = (T \ {old}) \cup {id}
        /\ Ids(r) \ TriedIds(r) = (S \ {id}) \cup {old}
    BY <1>9, <1>11, <1>18, <1>23
  <2>3. s.nTried = Cardinality(T) /\ s.nNew = Cardinality(S) /\ r.nTried = s.nTried /\ r.nNew = s.nNew - 1 + 1
    BY <1>1, <1>3, <1>17 DEF CountsOK
  <2> HIDE DEF T, S
  <2>4. IsFiniteSet(T \ {old}) /\ Cardinality(T \ {old}) = Cardinality(T) - 1
    BY <2>1, <2>2, FS_RemoveElement
  <2>5. IsFiniteSet(S \ {id}) /\ Cardinality(S \ {id}) = Cardinality(S) - 1
    BY <2>1, <2>2, FS_RemoveElement
  <2>6. Cardinality((T \ {old}) \cup {id}) = Cardinality(T \ {old}) + 1
    BY <2>2, <2>4, FS_AddElement
  <2>7. Cardinality((S \ {id}) \cup {old}) = Cardinality(S \ {id}) + 1
    BY <2>2, <2>5, FS_AddElement
  <2>8. Cardinality(TriedIds(r)) = Cardinality(T)
    <3>1. Cardinality(TriedIds(r)) = Cardinality((T \ {old}) \cup {id})
      BY <2>2
    <3>2. Cardinality((T \ {old}) \cup {id}) = Cardinality(T)
      BY <2>1, <2>4, <2>6
    <3> QED BY <3>1, <3>2
  <2>9. Cardinality(Ids(r) \ TriedIds(r)) = Cardinality(S)
    <3>1. Cardinality(Ids(r) \ TriedIds(r)) = Cardinality((S \ {id}) \cup {old})
      BY <2>2, Zenon
    <3>2. Cardinality((S \ {id}) \cup {old}) = Cardinality(S)
      BY <2>1, <2>5, <2>7
    <3> QED BY <3>1, <3>2
  <2> QED BY <2>1, <2>3, <2>8, <2>9 DEF CountsOK
<1>25. \A i \in Ids(s) : r.mapInfo[i].addr = M[i].addr /\ r.mapInfo[i].nLastSuccess = M[i].nLastSuccess
  BY <1>15, <1>16, <1>18
<1>26. Refilled(s, r, kb, w)
  <2>1. /\ w \in Seq(Nat) /\ Len(w) = Len(v) /\ w[pos] = id
        /\ \A p \in 1 .. Len(v) : p # pos => w[p] = u[p]
    BY <1>7, <1>8, <1>9
  <2>2. Len(v) <= ADDRMAN_TRIED_BUCKET_SIZE
    BY <1>1, <1>5 DEF TriedOK, v
  <2>3. \A i \in TriedIds(s) : M[i].nLastSuccess # 0 /\ M[i].nRefCount = 0
    BY <1>1 DEF TriedOK
  <2>4. ASSUME NEW i \in TriedIds(s), GetTriedBucket[M[i].addr] = kb PROVE \E p \in 1 .. Len(v) : u[p] = i
    <3>1. PICK q \in 1 .. Len(v) : v[q] = i
      <4>1. TriedOK(s) /\ kb = GetTriedBucket[s.mapInfo[i].addr]
        BY <1>1, <2>4
      <4>2. \E q \in 1 .. Len(s.vvTried[kb]) : s.vvTried[kb][q] = i
        <5> DEFINE k == GetTriedBucket[s.mapInfo[i].addr]
        <5>1. \E q \in 1 .. Len(s.vvTried[k]) : s.vvTried[k][q] = i
          BY <4>1, TriedAt
        <5>2. k = kb
          BY <4>1
        <5> HIDE DEF k
        <5> QED BY <5>1, <5>2
      <4> QED BY <4>2, Zenon DEF v
    <3>2. \E p \in 1 .. Len(u) : u[p] = v[q]
      BY <1>0 DEF Permuted
    <3> QED BY <1>7, <3>1, <3>2
  <2>5. u[pos] = old
    BY DEF old
  <2>6. \A p \in 1 .. Len(v) : u[p] \in TriedIds(s) /\ GetTriedBucket[M[u[p]].addr] = kb
    BY <1>10
  <2> HIDE DEF w, u, v
  <2>7. ASSUME NEW p \in 1 .. Len(w), NEW q \in 1 .. Len(w), w[p] = w[q] PROVE p = q
    <3>1. \A x \in 1 .. Len(v) : u[x] # id
      BY <2>6
    <3>2. p \in 1 .. Len(v) /\ q \in 1 .. Len(v)
      BY <2>1, <2>7, Zenon
    <3>3. CASE p = pos /\ q # pos
      BY <2>1, <2>7, <3>1, <3>2, <3>3, Zenon
    <3>4. CASE p # pos /\ q = pos
      BY <2>1, <2>7, <3>1, <3>2, <3>4, Zenon
    <3>5. CASE p # pos /\ q # pos
      <4>1. u[p] = u[q]
        BY <2>1, <2>7, <3>2, <3>5, Zenon
      <4> QED BY <1>7, <3>2, <4>1, Zenon
    <3> QED BY <3>3, <3>4, <3>5, Zenon
  <2>8. ASSUME NEW p \in 1 .. Len(w)
        PROVE  w[p] \in TriedIds(r) /\ GetTriedBucket[r.mapInfo[w[p]].addr] = kb
    <3>1. CASE p = pos
      BY <1>23, <1>25, <2>1, <3>1
    <3>2. CASE p # pos
      <4>1. p \in 1 .. Len(v) /\ w[p] = u[p]
        BY <2>1, <3>2
      <4>2. u[p] \in TriedIds(s) /\ u[p] # old /\ GetTriedBucket[M[u[p]].addr] = kb
        BY <1>7, <1>8, <2>5, <2>6, <3>2, <4>1
      <4>3. u[p] \in Ids(s) /\ u[p] \in TriedIds(r)
        BY <1>9, <1>23, <4>2
      <4> QED BY <1>25, <4>1, <4>2, <4>3
    <3> QED BY <3>1, <3>2
  <2>9. ASSUME NEW i \in TriedIds(r), GetTriedBucket[r.mapInfo[i].addr] = kb
        PROVE  \E p \in 1 .. Len(w) : w[p] = i
    <3>1. CASE i = id
      BY <1>8, <2>1, <3>1
    <3>2. CASE i # id
      <4>1. i \in TriedIds(s) /\ i # old /\ i \in Ids(s)
        BY <1>9, <1>23, <3>2
      <4>2. GetTriedBucket[M[i].addr] = kb
        BY <1>25, <2>9, <4>1
      <4>3. PICK p \in 1 .. Len(v) : u[p] = i
        BY <2>4, <4>1, <4>2
      <4>4. p # pos
        BY <2>5, <4>1, <4>3
      <4> QED BY <2>1, <4>3, <4>4
    <3> QED BY <3>1, <3>2
  <2>10. ASSUME NEW i \in TriedIds(r)
         PROVE  /\ r.mapInfo[i].nLastSuccess # 0 /\ r.mapInfo[i].nRefCount = 0
                /\ GetTriedBucket[r.mapInfo[i].addr] \in TriedBucket
                /\ GetTriedBucket[r.mapInfo[i].addr] # kb => i \in TriedIds(s)
    <3>1. CASE i = id
      BY <1>5, <1>15, <1>18, <3>1
    <3>2. CASE i # id
      <4>1. i \in TriedIds(s) /\ i \in Ids(s) /\ i # old
        BY <1>9, <1>23, <3>2
      <4>2. r.mapInfo[i] = M[i] /\ M[i].addr \in Service
        BY <1>2, <1>18, <3>2, <4>1 DEF CAddrInfo
      <4> QED BY <2>3, <4>1, <4>2, Buckets
    <3> QED BY <3>1, <3>2
  <2>11. ASSUME NEW i \in TriedIds(s)
         PROVE  /\ r.mapInfo[i].addr = M[i].addr
                /\ GetTriedBucket[M[i].addr] # kb => i \in TriedIds(r)
    BY <1>9, <1>11, <1>23, <1>25
  <2>12. r.vvTried = [s.vvTried EXCEPT ![kb] = w]
    BY <1>17 DEF w, u
  <2> QED BY <2>1, <2>2, <2>7, <2>8, <2>9, <2>10, <2>11, <2>12 DEF Refilled
<1>27. TriedOK(r)
  BY <1>1, <1>5, <1>26, TriedChanged
<1>28. TablesOK(r, NoId)
  BY <1>23, <1>24, <1>27 DEF TablesOK
<1>29. AllKept(s, r)
  BY <1>18, <1>25, <1>28 DEF AllKept
<1> QED BY <1>29 DEF r, t

\* MakeTried, with and without an eviction, keeps the tables and forgets nobody.
LEMMA MakeTriedIs ==
    ASSUME NEW s, TablesOK(s, NoId), NEW id \in Ids(s), id \notin TriedIds(s),
           s.mapInfo[id].nLastSuccess # 0, NEW nOrigin \in NewBucket, id \in s.vvNew[nOrigin],
           NEW r \in MakeTried(s, id, nOrigin)
    PROVE  /\ TablesOK(r, NoId) /\ Ids(r) = Ids(s)
           /\ \A i \in Ids(s) : r.mapInfo[i].addr = s.mapInfo[i].addr
<1> DEFINE t == LeaveNew(s, id)
           kb == GetTriedBucket[s.mapInfo[id].addr]
<1>1. t.vvTried = s.vvTried
  BY LeaveNewIs
<1>2. r \in IF Len(t.vvTried[kb]) < ADDRMAN_TRIED_BUCKET_SIZE
            THEN {[t EXCEPT !.vvTried[kb] = Append(@, id), !.nTried = @ + 1, !.mapInfo[id].fInTried = TRUE]}
            ELSE {EvictTried(t, id, kb, SelectTried(t, kb, d), nOrigin) : d \in Draws(t, kb)}
  BY DEF MakeTried
<1> HIDE DEF t
<1>3. CASE Len(t.vvTried[kb]) < ADDRMAN_TRIED_BUCKET_SIZE
  <2>1. r = [t EXCEPT !.vvTried[kb] = Append(@, id), !.nTried = @ + 1, !.mapInfo[id].fInTried = TRUE]
    BY <1>2, <1>3
  <2>2. Len(s.vvTried[kb]) < ADDRMAN_TRIED_BUCKET_SIZE
    BY <1>1, <1>3
  <2> HIDE DEF kb
  <2>3. AllKept(s, [LeaveNew(s, id) EXCEPT !.vvTried[kb] = Append(@, id), !.nTried = @ + 1,
                                           !.mapInfo[id].fInTried = TRUE])
    <3>1. kb = GetTriedBucket[s.mapInfo[id].addr]
      BY DEF kb
    <3> QED BY <2>2, <3>1, AppendTriedIs, Zenon
  <2>4. AllKept(s, r)
    BY <2>1, <2>3, Zenon DEF t
  <2> QED BY <2>4 DEF AllKept
<1>4. CASE ~(Len(t.vvTried[kb]) < ADDRMAN_TRIED_BUCKET_SIZE)
  <2>1. PICK d \in Draws(t, kb) : r = EvictTried(t, id, kb, SelectTried(t, kb, d), nOrigin)
    BY <1>2, <1>4
  <2> DEFINE sel == SelectTried(t, kb, d)
             v == s.vvTried[kb]
  <2>2. TriedOK(s) /\ kb \in TriedBucket
    BY Buckets DEF TablesOK, EntriesOK, CAddrInfo
  <2> HIDE DEF kb
  <2>3. v \in Seq(Nat) /\ \A p, q \in 1 .. Len(v) : v[p] = v[q] => p = q
    BY <2>2 DEF TriedOK
  <2>4. t.vvTried[kb] = v
    BY <1>1
  <2> HIDE DEF v
  <2>5. Len(v) # 0
    BY <1>4, <2>3, <2>4, Sizes
  <2>6. Permuted(v, sel.vTried) /\ sel.nOldestPos \in 0 .. Len(v) - 1
    BY <2>3, <2>4, <2>5, SelectTriedIs
  <2> HIDE DEF sel
  <2>7. AllKept(s, EvictTried(LeaveNew(s, id), id, kb, sel, nOrigin))
    <3>1. kb = GetTriedBucket[s.mapInfo[id].addr]
      BY DEF kb
    <3>2. Selected(s, kb, sel)
      BY <2>6 DEF v, Selected
    <3> QED BY <3>1, <3>2, EvictTriedIs, Zenon
  <2>8. r = EvictTried(LeaveNew(s, id), id, kb, sel, nOrigin)
    BY <2>1 DEF sel, t
  <2> QED BY <2>7, <2>8 DEF AllKept
<1> QED BY <1>3, <1>4

-----------------------------------------------------------------------------
(* The operations                                                          *)

\* The tried entries of s are known to r.
StillKnown(s, r) == \A i \in TriedIds(s) : i \in Ids(r) /\ r.mapInfo[i].addr = s.mapInfo[i].addr

\* Find looks the address up in mapAddr and gives an entry.
LEMMA FindIs ==
    ASSUME TablesOK(am, NoId), NEW n
    PROVE  /\ Find(n) <=> n \in DOMAIN am.mapAddr
           /\ Find(n) => am.mapAddr[n] \in Ids(am)
<1>1. ASSUME n \in DOMAIN am.mapAddr PROVE am.mapAddr[n] \in Ids(am)
  <2>1. AddrsOK(am)
    BY DEF TablesOK
  <2>2. PICK i \in Ids(am) : n = netaddr[am.mapInfo[i].addr]
    BY <1>1, <2>1 DEF AddrsOK
  <2> QED BY <2>1, <2>2 DEF AddrsOK
<1> QED BY <1>1 DEF Find, Ids

\* Add_ of an unknown address.
LEMMA AddUnknownKeeps ==
    ASSUME IInv, NEW a \in Service, NEW src \in Source, AddUnknown(a, src)
    PROVE  IInv' /\ StillKnown(am, am')
<1>1. TablesOK(am, NoId)
  BY DEF IInv
<1>2. /\ ~Find(netaddr[a]) /\ UNCHANGED <<nShuffled, peersDat, saved>>
      /\ am' \in InsertNew([Create(am, a, src) EXCEPT !.nNew = @ + 1], am.nIdCount, GetNewBucket[<<a, src>>])
  BY DEF AddUnknown
<1>3. netaddr[a] \notin DOMAIN am.mapAddr /\ GetNewBucket[<<a, src>>] \in NewBucket
  BY <1>1, <1>2, FindIs, Buckets
<1>4. TablesOK(am', NoId) /\ \A i \in TriedIds(am) : i \in Ids(am') /\ am'.mapInfo[i].addr = am.mapInfo[i].addr
  BY <1>1, <1>2, <1>3, AddUnknownIs
<1> QED BY <1>2, <1>4 DEF IInv, StillKnown, FileOK, FileContent, FiledTried

\* Add_ of an address that is known already.
LEMMA AddKnownKeeps ==
    ASSUME IInv, NEW a \in Service, NEW src \in Source, AddKnown(a, src)
    PROVE  IInv' /\ StillKnown(am, am')
<1> DEFINE id == am.mapAddr[netaddr[a]]
           b == GetNewBucket[<<am.mapInfo[id].addr, src>>]
<1>1. TablesOK(am, NoId)
  BY DEF IInv
<1>2. /\ Find(netaddr[a]) /\ UNCHANGED <<nShuffled, peersDat, saved>>
      /\ ~am.mapInfo[id].fInTried
      /\ am.mapInfo[id].nRefCount # ADDRMAN_NEW_BUCKETS_PER_ADDRESS
      /\ am' \in InsertNew(am, id, b)
  BY DEF AddKnown
<1>3. id \in Ids(am)
  BY <1>1, <1>2, FindIs
<1> HIDE DEF id
<1>4. am.mapInfo[id].addr \in Service
  BY <1>1, <1>3 DEF TablesOK, EntriesOK, CAddrInfo
<1>5. b \in NewBucket
  BY <1>4, Buckets
<1> HIDE DEF b
<1>6. TablesOK(am', NoId) /\ \A i \in TriedIds(am) : i \in Ids(am') /\ am'.mapInfo[i].addr = am.mapInfo[i].addr
  BY <1>1, <1>2, <1>3, <1>5, AddKnownIs
<1> QED BY <1>2, <1>6 DEF IInv, StillKnown, FileOK, FileContent, FiledTried

\* Good_, with each of its early returns.
LEMMA GoodKeeps ==
    ASSUME IInv, NEW a \in Service, NEW n \in Time, Good(a, n)
    PROVE  IInv' /\ StillKnown(am, am')
<1> DEFINE id == am.mapAddr[netaddr[a]]
           s == [am EXCEPT !.mapInfo[id].nLastSuccess = n]
           in == {b \in NewBucket : id \in am.vvNew[b]}
<1>1. TablesOK(am, NoId)
  BY DEF IInv
<1>2. /\ Find(netaddr[a]) /\ UNCHANGED <<nShuffled, peersDat, saved>>
      /\ IF am.mapInfo[id].fInTried \/ in = {} THEN am' = s
         ELSE \E nOrigin \in in : am' \in MakeTried(s, id, nOrigin)
  BY DEF Good, Matches
<1>3. id \in Ids(am)
  BY <1>1, <1>2, FindIs
<1> HIDE DEF id
<1>4. n \in Nat /\ n # 0
  BY Sizes
<1>5. /\ TablesOK(s, NoId) /\ Ids(s) = Ids(am) /\ TriedIds(s) = TriedIds(am) /\ s.vvNew = am.vvNew
      /\ \A i \in Ids(am) : s.mapInfo[i].addr = am.mapInfo[i].addr
      /\ s.mapInfo[id].nLastSuccess # 0
  BY <1>1, <1>3, <1>4, SetSuccess
<1>6. TriedIds(am) \subseteq Ids(am)
  BY DEF TriedIds, Ids
<1> HIDE DEF s
<1>7. TablesOK(am', NoId) /\ \A i \in TriedIds(am) : i \in Ids(am') /\ am'.mapInfo[i].addr = am.mapInfo[i].addr
  <2>1. CASE am.mapInfo[id].fInTried \/ in = {}
    <3>1. am' = s
      BY <1>2, <2>1
    <3> QED BY <1>5, <1>6, <3>1
  <2>2. CASE ~(am.mapInfo[id].fInTried \/ in = {})
    <3>1. PICK nOrigin \in in : am' \in MakeTried(s, id, nOrigin)
      BY <1>2, <2>2
    <3>2. nOrigin \in NewBucket /\ id \in s.vvNew[nOrigin]
      BY <1>5
    <3>3. id \in Ids(s) /\ id \notin TriedIds(s)
      BY <1>3, <1>5, <2>2 DEF TriedIds
    <3>4. /\ TablesOK(am', NoId) /\ Ids(am') = Ids(s)
          /\ \A i \in Ids(s) : am'.mapInfo[i].addr = s.mapInfo[i].addr
      BY <1>5, <3>1, <3>2, <3>3, MakeTriedIs
    <3> QED BY <1>5, <1>6, <3>4
  <2> QED BY <2>1, <2>2
<1> QED BY <1>2, <1>7 DEF IInv, StillKnown, FileOK, FileContent, FiledTried

\* One iteration of the shuffle in GetAddr_.
LEMMA GetAddrKeeps ==
    ASSUME IInv, GetAddr
    PROVE  IInv' /\ StillKnown(am, am')
<1>1. /\ EntriesOK(am) /\ AddrsOK(am) /\ RandomOK(am) /\ CountsOK(am) /\ TriedOK(am) /\ NewOK(am, NoId)
      /\ nShuffled \in Nat
  BY DEF IInv, TablesOK
<1>2. UNCHANGED <<peersDat, saved>> /\ nShuffled' \in Nat
  BY <1>1 DEF GetAddr
<1>3. PICK q \in nShuffled .. Len(am.vRandom) - 1 : am' = SwapRandom(am, nShuffled, q)
  BY DEF GetAddr
<1>4. Len(am.vRandom) \in Nat
  BY <1>1 DEF RandomOK
<1>5. q \in 0 .. Len(am.vRandom) - 1 /\ nShuffled \in 0 .. Len(am.vRandom) - 1
  BY <1>1, <1>4
<1>6. EntriesOK(am') /\ RandomOK(am') /\ Reordered(am, am')
  BY <1>1, <1>3, <1>5, SwapRandomIs
<1>7. AddrsOK(am') /\ CountsOK(am') /\ TriedOK(am') /\ NewOK(am', NoId) /\ TriedIds(am') = TriedIds(am)
  BY <1>1, <1>6, ReorderedKeeps
<1>8. StillKnown(am, am')
  <2>1. TriedIds(am) \subseteq Ids(am)
    BY DEF TriedIds, Ids
  <2> QED BY <1>6, <2>1 DEF StillKnown, Reordered, SameInfo
<1>9. TablesOK(am', NoId)
  BY <1>6, <1>7 DEF TablesOK
<1> QED BY <1>2, <1>8, <1>9 DEF IInv, FileOK, FileContent, FiledTried
-----------------------------------------------------------------------------
(* peers.dat                                                               *)

\* g goes through all of T.
LEMMA OntoSmaller ==
    ASSUME NEW S, NEW T, IsFiniteSet(S), NEW g \in [S -> T], \A y \in T : \E x \in S : g[x] = y
    PROVE  IsFiniteSet(T) /\ Cardinality(T) <= Cardinality(S)
<1>1. g \in Surjection(S, T)
  BY DEF Surjection
<1> QED BY <1>1, FS_Surjection

\* L lists the entries of the ids in S, in their order.
Lists(s, S, L) ==
    /\ IsFiniteSet(DOMAIN L) /\ DOMAIN L = 0 .. Cardinality(DOMAIN L) - 1
    /\ Cardinality(DOMAIN L) = Cardinality(S)
    /\ L \in [0 .. Cardinality(DOMAIN L) - 1 -> CAddrEntry]
    /\ \A i \in DOMAIN L : \E id \in S : Index(S, id) = i
    /\ \A id \in S : Index(S, id) \in DOMAIN L /\ L[Index(S, id)] = Entry(s.mapInfo[id])
    /\ \A id, j \in S : Index(S, id) = Index(S, j) => id = j

\* What Serialize lists is numbered from 0 in the order of the ids, each once.
LEMMA ListedIs ==
    ASSUME NEW s, EntriesOK(s), NEW S, S \subseteq Ids(s)
    PROVE  Lists(s, S, Listed(s, S, Cardinality(S)))
<1> DEFINE n == Cardinality(S)
           L == Listed(s, S, n)
           at(i) == CHOOSE id \in S : Index(S, id) = i
<1>1. IsFiniteSet(S) /\ n \in Nat /\ S \subseteq Nat
  <2>1. IsFiniteSet(Ids(s)) /\ \A id \in Ids(s) : id \in Nat
    BY IdsFinite
  <2> QED BY <2>1, SubsetFinite
<1>2. /\ \A x \in S : Index(S, x) \in 0 .. n - 1
      /\ \A x, y \in S : Index(S, x) = Index(S, y) => x = y
      /\ \A i \in 0 .. n - 1 : \E x \in S : Index(S, x) = i
  BY <1>1, IndexIs
<1>3. IsFiniteSet(0 .. n - 1) /\ Cardinality(0 .. n - 1) = n
  BY <1>1, Below
<1>4. L = [i \in 0 .. n - 1 |-> Entry(s.mapInfo[at(i)])]
  <2>1. MinOf(n, n) = n
    BY DEF MinOf
  <2> HIDE DEF n
  <2> QED BY <2>1 DEF Listed, n
<1> HIDE DEF L
<1>5. ASSUME NEW i \in 0 .. n - 1 PROVE at(i) \in S /\ Index(S, at(i)) = i
  <2> HIDE DEF n
  <2> QED BY <1>2, Zenon
<1>6. \A id \in S : Entry(s.mapInfo[id]) \in CAddrEntry
  BY DEF EntriesOK, CAddrInfo, CAddrEntry, Entry
<1> HIDE DEF n, at
<1>7. DOMAIN L = 0 .. n - 1 /\ L \in [0 .. n - 1 -> CAddrEntry]
  BY <1>4, <1>5, <1>6
<1>8. \A id \in S : Index(S, id) \in 0 .. n - 1 /\ L[Index(S, id)] = Entry(s.mapInfo[id])
  <2> SUFFICES ASSUME NEW id \in S
               PROVE  Index(S, id) \in 0 .. n - 1 /\ L[Index(S, id)] = Entry(s.mapInfo[id])
    OBVIOUS
  <2>1. Index(S, id) \in 0 .. n - 1
    BY <1>2
  <2>2. at(Index(S, id)) = id
    BY <1>2, <1>5, <2>1
  <2> QED BY <1>4, <2>1, <2>2
<1> QED BY <1>2, <1>3, <1>7, <1>8 DEF Lists, n, L

\* The file of sound tables is sound and says what the tables say.
LEMMA SerializeIs ==
    ASSUME NEW s, TablesOK(s, NoId)
    PROVE  FileOK(Serialize(s)) /\ FileContent(Serialize(s)) = Content(s)
<1> DEFINE M == s.mapInfo
           T == TriedIds(s)
           S == Ids(s) \ TriedIds(s)
           f == Serialize(s)
<1>1. EntriesOK(s) /\ AddrsOK(s) /\ RandomOK(s) /\ CountsOK(s) /\ TriedOK(s) /\ NewOK(s, NoId)
  BY DEF TablesOK
<1>2. NewIds(s) = S
  <2>1. \A id \in T : M[id].nRefCount = 0
    BY <1>1 DEF TriedOK
  <2>2. \A id \in S : M[id].nRefCount # 0
    BY <1>1 DEF NewOK
  <2>3. T \subseteq Ids(s)
    BY DEF TriedIds, Ids
  <2>4. NewIds(s) = {id \in Ids(s) : M[id].nRefCount # 0}
    BY DEF NewIds, Ids
  <2> HIDE DEF M
  <2> QED BY <2>1, <2>2, <2>3, <2>4
<1>3. T \subseteq Ids(s) /\ S \subseteq Ids(s) /\ \A id \in Ids(s) : id \in S \/ id \in T
  BY DEF TriedIds, Ids
<1>4. s.nNew = Cardinality(S) /\ s.nTried = Cardinality(T)
  BY <1>1 DEF CountsOK
<1>5. IsFiniteSet(S) /\ IsFiniteSet(T)
  <2>1. IsFiniteSet(Ids(s))
    BY <1>1, IdsFinite
  <2> QED BY <1>3, <2>1, SubsetFinite
<1>6. Lists(s, S, f.new) /\ Lists(s, T, f.tried)
  <2>1. f.new = Listed(s, S, Cardinality(S)) /\ f.tried = Listed(s, T, Cardinality(T))
    BY <1>2, <1>4 DEF Serialize
  <2> QED BY <1>1, <1>3, <2>1, ListedIs
<1>7. f.buckets = [b \in NewBucket |-> {Index(S, id) : id \in s.vvNew[b]}]
  BY <1>2 DEF Serialize, mapUnkIds
<1> HIDE DEF f
<1>8. /\ \A b \in NewBucket : s.vvNew[b] \subseteq S /\ Cardinality(s.vvNew[b]) <= ADDRMAN_NEW_BUCKET_SIZE
      /\ \A id \in S : M[id].nRefCount = Cardinality(BucketsOf(s, id)) /\ M[id].nRefCount # 0
  <2>1. \A id \in S : id # NoId
    BY <1>1, <1>3, IdsFinite
  <2>2. \A id : Cardinality(BucketsOf(s, id)) \in Nat
    <3>1. \A id : BucketsOf(s, id) \subseteq NewBucket
      BY DEF BucketsOf
    <3> QED BY <3>1, Buckets, SubsetFinite
  <2>3. ASSUME NEW id \in S PROVE M[id].nRefCount = Cardinality(BucketsOf(s, id)) /\ M[id].nRefCount # 0
    <3>1. M[id].nRefCount = Cardinality(BucketsOf(s, id)) + (IF id = NoId THEN 1 ELSE 0) /\ M[id].nRefCount # 0
      BY <1>1 DEF NewOK
    <3> QED BY <2>1, <2>2, <3>1
  <2>4. \A b \in NewBucket : s.vvNew[b] \subseteq S /\ Cardinality(s.vvNew[b]) <= ADDRMAN_NEW_BUCKET_SIZE
    BY <1>1 DEF NewOK
  <2> QED BY <2>3, <2>4
<1>9. \A id, j \in Ids(s) : netaddr[M[id].addr] = netaddr[M[j].addr] => id = j
  BY <1>1 DEF AddrsOK
<1>10. \A id \in Ids(s) : Entry(M[id]).addr = M[id].addr /\ Entry(M[id]).nLastSuccess = M[id].nLastSuccess
  BY DEF Entry
<1> DEFINE N == f.new
           R == f.tried
<1>11. /\ IsFiniteSet(DOMAIN N) /\ N \in [0 .. Cardinality(DOMAIN N) - 1 -> CAddrEntry]
       /\ IsFiniteSet(DOMAIN R) /\ R \in [0 .. Cardinality(DOMAIN R) - 1 -> CAddrEntry]
  BY <1>6 DEF Lists
<1>12. ASSUME NEW i \in DOMAIN N
       PROVE  \E id \in S : i = Index(S, id) /\ N[i] = Entry(M[id])
  <2>1. PICK id \in S : Index(S, id) = i
    BY <1>6 DEF Lists
  <2>2. N[Index(S, id)] = Entry(M[id])
    BY <1>6 DEF Lists
  <2> QED BY <2>1, <2>2
<1>13. ASSUME NEW i \in DOMAIN R
       PROVE  \E id \in T : i = Index(T, id) /\ R[i] = Entry(M[id])
  <2>1. PICK id \in T : Index(T, id) = i
    BY <1>6 DEF Lists
  <2>2. R[Index(T, id)] = Entry(M[id])
    BY <1>6 DEF Lists
  <2> QED BY <2>1, <2>2
<1>14. /\ \A id \in S : Index(S, id) \in DOMAIN N /\ N[Index(S, id)] = Entry(M[id])
       /\ \A id \in T : Index(T, id) \in DOMAIN R /\ R[Index(T, id)] = Entry(M[id])
       /\ \A id, j \in S : Index(S, id) = Index(S, j) => id = j
  BY <1>6 DEF Lists
<1> HIDE DEF N, R, S, T, M
<1>15. ASSUME NEW i \in DOMAIN N, NEW j \in DOMAIN N, netaddr[N[i].addr] = netaddr[N[j].addr] PROVE i = j
  <2>1. PICK id \in S : i = Index(S, id) /\ N[i] = Entry(M[id])
    BY <1>12
  <2>2. PICK k \in S : j = Index(S, k) /\ N[j] = Entry(M[k])
    BY <1>12
  <2>3. netaddr[M[id].addr] = netaddr[M[k].addr] /\ id \in Ids(s) /\ k \in Ids(s)
    BY <1>3, <1>10, <1>15, <2>1, <2>2
  <2> QED BY <1>9, <2>1, <2>2, <2>3
<1>16. ASSUME NEW i \in DOMAIN R, NEW j \in DOMAIN R, netaddr[R[i].addr] = netaddr[R[j].addr] PROVE i = j
  <2>1. PICK id \in T : i = Index(T, id) /\ R[i] = Entry(M[id])
    BY <1>13
  <2>2. PICK k \in T : j = Index(T, k) /\ R[j] = Entry(M[k])
    BY <1>13
  <2>3. netaddr[M[id].addr] = netaddr[M[k].addr] /\ id \in Ids(s) /\ k \in Ids(s)
    BY <1>3, <1>10, <1>16, <2>1, <2>2
  <2> QED BY <1>9, <2>1, <2>2, <2>3
<1>17. ASSUME NEW i \in DOMAIN N, NEW j \in DOMAIN R PROVE netaddr[N[i].addr] # netaddr[R[j].addr]
  <2>1. PICK id \in S : i = Index(S, id) /\ N[i] = Entry(M[id])
    BY <1>12
  <2>2. PICK k \in T : j = Index(T, k) /\ R[j] = Entry(M[k])
    BY <1>13
  <2>3. id # k
    BY DEF S, T
  <2> QED BY <1>3, <1>9, <1>10, <2>1, <2>2, <2>3
<1>18. ASSUME NEW i \in DOMAIN R PROVE R[i].nLastSuccess # 0
  <2>1. PICK id \in T : i = Index(T, id) /\ R[i] = Entry(M[id])
    BY <1>13
  <2>2. M[id].nLastSuccess # 0
    BY <1>1 DEF TriedOK, T, M
  <2> QED BY <1>3, <1>10, <2>1, <2>2
<1>19. ASSUME NEW kb \in TriedBucket PROVE Cardinality(FiledTried(f, kb)) <= ADDRMAN_TRIED_BUCKET_SIZE
  <2> DEFINE v == s.vvTried[kb]
             l == Len(v)
             D == FiledTried(f, kb)
             P(i, p) == \E id \in T : i = Index(T, id) /\ R[i] = Entry(M[id]) /\ v[p] = id
             g == [i \in D |-> CHOOSE p \in 1 .. l : P(i, p)]
  <2>1. l \in Nat /\ l <= ADDRMAN_TRIED_BUCKET_SIZE
    BY <1>1 DEF TriedOK
  <2>2. ASSUME NEW i \in D PROVE \E p \in 1 .. l : P(i, p)
    <3>1. i \in DOMAIN R /\ GetTriedBucket[R[i].addr] = kb
      BY DEF FiledTried, R
    <3>2. PICK id \in T : i = Index(T, id) /\ R[i] = Entry(M[id])
      BY <1>13, <3>1
    <3>3. GetTriedBucket[M[id].addr] = kb
      BY <1>3, <1>10, <3>1, <3>2
    <3>4. \E p \in 1 .. l : v[p] = id
      <4>1. \E p \in 1 .. Len(s.vvTried[GetTriedBucket[M[id].addr]]) : s.vvTried[GetTriedBucket[M[id].addr]][p] = id
        BY <1>1, TriedAt DEF M, T
      <4> QED BY <3>3, <4>1
    <3> QED BY <3>2, <3>4
  <2> HIDE DEF D, v, l
  <2>3. ASSUME NEW i \in D PROVE g[i] \in 1 .. l /\ P(i, g[i])
    <3>1. (CHOOSE p \in 1 .. l : P(i, p)) \in 1 .. l /\ P(i, CHOOSE p \in 1 .. l : P(i, p))
      <4> HIDE DEF P
      <4> QED BY <2>2, Zenon
    <3>2. g[i] = CHOOSE p \in 1 .. l : P(i, p)
      <4> HIDE DEF P
      <4> QED OBVIOUS
    <3> HIDE DEF g, P
    <3> QED BY <3>1, <3>2
  <2>4. g \in [D -> 1 .. l]
    <3> HIDE DEF P
    <3> QED BY <2>3
  <2> HIDE DEF g
  <2>5. ASSUME NEW i \in D, NEW j \in D, g[i] = g[j] PROVE i = j
    <3>1. P(i, g[i]) /\ P(j, g[j])
      BY <2>3
    <3> QED BY <2>5, <3>1
  <2>6. IsFiniteSet(1 .. l) /\ Cardinality(1 .. l) = l
    BY <2>1, FS_Interval
  <2>7. Cardinality(D) <= Cardinality(1 .. l) /\ IsFiniteSet(D)
    BY <2>4, <2>5, <2>6, ListedOnce
  <2>8. Cardinality(D) \in Nat
    BY <2>7, FS_CardinalityType
  <2>9. Cardinality(D) <= ADDRMAN_TRIED_BUCKET_SIZE
    BY <2>1, <2>6, <2>7, <2>8, Sizes
  <2> QED BY <2>9 DEF D
<1>20. \A b \in NewBucket : f.buckets[b] = {Index(S, id) : id \in s.vvNew[b]}
  BY <1>7
<1>21. f.buckets \in [NewBucket -> SUBSET (DOMAIN N)]
  <2>1. \A b \in NewBucket : {Index(S, id) : id \in s.vvNew[b]} \subseteq DOMAIN N
    BY <1>8, <1>14
  <2> QED BY <1>7, <2>1
<1>22. ASSUME NEW b \in NewBucket PROVE Cardinality(f.buckets[b]) <= ADDRMAN_NEW_BUCKET_SIZE
  <2> DEFINE B == s.vvNew[b]
             C == {Index(S, id) : id \in B}
             g == [id \in B |-> Index(S, id)]
  <2>1. IsFiniteSet(B) /\ Cardinality(B) \in Nat /\ Cardinality(B) <= ADDRMAN_NEW_BUCKET_SIZE
    BY <1>5, <1>8, SubsetFinite
  <2>2. g \in [B -> C] /\ \A y \in C : \E x \in B : g[x] = y
    OBVIOUS
  <2> HIDE DEF B, C, g
  <2>3. IsFiniteSet(C) /\ Cardinality(C) <= Cardinality(B)
    BY <2>1, <2>2, OntoSmaller
  <2>4. Cardinality(C) \in Nat
    BY <2>3, FS_CardinalityType
  <2>5. f.buckets[b] = C
    BY <1>20 DEF C, B
  <2> QED BY <2>1, <2>3, <2>4, <2>5, Sizes
<1>23. ASSUME NEW i \in DOMAIN N
       PROVE  Cardinality({b \in NewBucket : i \in f.buckets[b]}) \in 1 .. ADDRMAN_NEW_BUCKETS_PER_ADDRESS
  <2>1. PICK id \in S : i = Index(S, id) /\ N[i] = Entry(M[id])
    BY <1>12
  <2>2. ASSUME NEW b \in NewBucket PROVE i \in f.buckets[b] <=> id \in s.vvNew[b]
    <3>1. s.vvNew[b] \subseteq S
      BY <1>8
    <3> QED BY <1>14, <1>20, <2>1, <3>1
  <2>3. {b \in NewBucket : i \in f.buckets[b]} = BucketsOf(s, id)
    BY <2>2 DEF BucketsOf
  <2>4. M[id].nRefCount = Cardinality(BucketsOf(s, id)) /\ M[id].nRefCount # 0
    BY <1>8
  <2>5. M[id].nRefCount \in 0 .. ADDRMAN_NEW_BUCKETS_PER_ADDRESS
    BY <1>1, <1>3 DEF EntriesOK, CAddrInfo, M
  <2>6. M[id].nRefCount \in 1 .. ADDRMAN_NEW_BUCKETS_PER_ADDRESS
    BY <2>4, <2>5, Sizes
  <2> QED BY <2>3, <2>4, <2>6
<1>24. FileOK(f)
  BY <1>11, <1>15, <1>16, <1>17, <1>18, <1>19, <1>21, <1>22, <1>23 DEF FileOK, N, R
<1>25. {R[i] : i \in DOMAIN R} = {Entry(M[id]) : id \in T}
  BY <1>13, <1>14
<1>26. ASSUME NEW b \in NewBucket PROVE {N[i] : i \in f.buckets[b]} = {Entry(M[id]) : id \in s.vvNew[b]}
  <2>1. f.buckets[b] = {Index(S, id) : id \in s.vvNew[b]} /\ s.vvNew[b] \subseteq S
    BY <1>8, <1>20
  <2>2. \A id \in s.vvNew[b] : N[Index(S, id)] = Entry(M[id])
    BY <1>14, <2>1
  <2> QED BY <2>1, <2>2
<1>27. FileContent(f) = Content(s)
  BY <1>25, <1>26 DEF FileContent, Content, N, R, M, T
<1> QED BY <1>24, <1>27 DEF f
\* A sound file loses no tried entry to a full bucket,
LEMMA KeptAll ==
    ASSUME NEW f, FileOK(f)
    PROVE  Kept(f) = DOMAIN f.tried
<1> DEFINE bucket(i) == GetTriedBucket[f.tried[i].addr]
           before(i) == {j \in DOMAIN f.tried : j < i /\ bucket(j) = bucket(i)}
<1>1. ASSUME NEW i \in DOMAIN f.tried PROVE Cardinality(before(i)) < ADDRMAN_TRIED_BUCKET_SIZE
  <2> DEFINE D == FiledTried(f, bucket(i))
             B == before(i)
  <2>1. IsFiniteSet(DOMAIN f.tried) /\ f.tried \in [0 .. Cardinality(DOMAIN f.tried) - 1 -> CAddrEntry]
    BY DEF FileOK
  <2>2. bucket(i) \in TriedBucket
    <3>1. f.tried[i] \in CAddrEntry
      BY <2>1
    <3>2. f.tried[i].addr \in Service
      BY <3>1 DEF CAddrEntry
    <3> QED BY <3>2, Buckets
  <2>3. Cardinality(D) <= ADDRMAN_TRIED_BUCKET_SIZE
    BY <2>2 DEF FileOK
  <2>4. D \subseteq DOMAIN f.tried /\ B \subseteq D /\ i \in D /\ i \notin B
    <3> DEFINE m == Cardinality(DOMAIN f.tried)
    <3>1. m \in Nat
      BY <2>1, FS_CardinalityType
    <3>2. DOMAIN f.tried = 0 .. m - 1
      BY <2>1
    <3> HIDE DEF m
    <3>3. i \in Int
      BY <3>1, <3>2
    <3> QED BY <3>3 DEF FiledTried
  <2> HIDE DEF D, B
  <2>5. IsFiniteSet(D) /\ Cardinality(D) \in Nat
    BY <2>1, <2>4, SubsetFinite
  <2>6. Cardinality(B) < Cardinality(D) /\ Cardinality(B) \in Nat
    BY <2>4, <2>5, ProperSubset, SubsetFinite
  <2>7. Cardinality(B) < ADDRMAN_TRIED_BUCKET_SIZE
    BY <2>3, <2>5, <2>6, Sizes
  <2> QED BY <2>7 DEF B
<1>2. Kept(f) = {i \in DOMAIN f.tried : Cardinality(before(i)) < ADDRMAN_TRIED_BUCKET_SIZE}
  BY DEF Kept
<1> HIDE DEF before
<1> QED BY <1>1, <1>2

\* and no reference to the limit on references.
LEMMA ReferencedAll ==
    ASSUME NEW f, FileOK(f), NEW b \in NewBucket, NEW i
    PROVE  Referenced(f, b, i) <=> i \in f.buckets[b]
<1> DEFINE all == {c \in NewBucket : i \in f.buckets[c]}
           before == {c \in NewBucket : BucketOrder[c] < BucketOrder[b] /\ i \in f.buckets[c]}
<1>1. SUFFICES ASSUME i \in f.buckets[b] PROVE Cardinality(before) < ADDRMAN_NEW_BUCKETS_PER_ADDRESS
  BY DEF Referenced
<1>2. i \in DOMAIN f.new
  BY <1>1 DEF FileOK
<1>3. Cardinality(all) \in 1 .. ADDRMAN_NEW_BUCKETS_PER_ADDRESS
  BY <1>2 DEF FileOK
<1>4. before \subseteq all /\ b \in all /\ b \notin before /\ all \subseteq NewBucket
  <2>1. BucketOrder[b] \in Nat
    BY Tables
  <2> QED BY <1>1, <2>1
<1> HIDE DEF all, before
<1>5. IsFiniteSet(all)
  BY <1>4, Buckets, SubsetFinite
<1>6. Cardinality(before) < Cardinality(all) /\ Cardinality(before) \in Nat
  BY <1>4, <1>5, ProperSubset, SubsetFinite
<1> QED BY <1>3, <1>6, Sizes

\* The entries of a file in the order of their new ids.
InOrder(f, e) ==
    LET n == Cardinality(DOMAIN f.new)
        m == Cardinality(DOMAIN f.tried)
    IN  /\ e \in [0 .. n + m - 1 -> CAddrEntry]
        /\ \A id \in 0 .. n - 1 : e[id] = f.new[id]
        /\ \A i \in 0 .. m - 1 : e[n + i] = f.tried[i]
        /\ \A id, j \in 0 .. n + m - 1 : netaddr[e[id].addr] = netaddr[e[j].addr] => id = j

\* Unserialize drops no tried entry of a sound file, and reads each entry once.
LEMMA EntryAtIs ==
    ASSUME NEW f, FileOK(f)
    PROVE  LET n == Cardinality(DOMAIN f.new)
               m == Cardinality(DOMAIN f.tried)
           IN  /\ n \in Nat /\ m \in Nat /\ DOMAIN f.new = 0 .. n - 1 /\ DOMAIN f.tried = 0 .. m - 1
               /\ Cardinality(Kept(f)) = m
               /\ InOrder(f, [id \in 0 .. n + m - 1 |-> EntryAt(f, id)])
<1> DEFINE n == Cardinality(DOMAIN f.new)
           m == Cardinality(DOMAIN f.tried)
           e == [id \in 0 .. n + m - 1 |-> EntryAt(f, id)]
           K == Kept(f)
<1>1. /\ IsFiniteSet(DOMAIN f.new) /\ f.new \in [0 .. n - 1 -> CAddrEntry]
      /\ IsFiniteSet(DOMAIN f.tried) /\ f.tried \in [0 .. m - 1 -> CAddrEntry]
  BY DEF FileOK
<1>2. n \in Nat /\ m \in Nat
  BY <1>1, FS_CardinalityType
<1>3. K = DOMAIN f.tried
  BY KeptAll
<1>4. /\ \A i, j \in DOMAIN f.new : netaddr[f.new[i].addr] = netaddr[f.new[j].addr] => i = j
      /\ \A i, j \in DOMAIN f.tried : netaddr[f.tried[i].addr] = netaddr[f.tried[j].addr] => i = j
      /\ \A i \in DOMAIN f.new, j \in DOMAIN f.tried : netaddr[f.new[i].addr] # netaddr[f.tried[j].addr]
  BY DEF FileOK
<1>5. ASSUME NEW id \in 0 .. n - 1 PROVE EntryAt(f, id) = f.new[id]
  BY <1>2 DEF EntryAt
<1>6. ASSUME NEW id, ~(id < n) PROVE EntryAt(f, id) = f.tried[CHOOSE i \in K : Index(K, i) = id - n]
  BY <1>6 DEF EntryAt
<1> HIDE DEF n, m, K
<1>7. DOMAIN f.new = 0 .. n - 1 /\ DOMAIN f.tried = 0 .. m - 1 /\ K = 0 .. m - 1
  BY <1>1, <1>3
<1>8. ASSUME NEW i \in 0 .. m - 1 PROVE Index(K, i) = i
  <2>1. i \in Nat
    BY <1>2
  <2>2. {j \in K : j < i} = 0 .. i - 1
    BY <1>2, <1>7, <2>1
  <2>3. Cardinality(0 .. i - 1) = i
    BY <2>1, Below
  <2>4. Index(K, i) = Cardinality({j \in K : j < i})
    BY DEF Index
  <2> QED BY <2>2, <2>3, <2>4
<1>9. ASSUME NEW i \in 0 .. m - 1 PROVE EntryAt(f, n + i) = f.tried[i]
  <2> DEFINE x == n + i
             at == CHOOSE j \in K : Index(K, j) = x - n
  <2>1. x - n = i /\ ~(x < n)
    BY <1>2
  <2> HIDE DEF x
  <2>2. EntryAt(f, x) = f.tried[at]
    BY <1>6, <2>1
  <2>3. i \in K /\ Index(K, i) = x - n
    BY <1>7, <1>8, <2>1
  <2>4. at \in K /\ Index(K, at) = x - n
    BY <2>3, Zenon
  <2> HIDE DEF at
  <2>5. Index(K, at) = at
    BY <1>7, <1>8, <2>4
  <2> QED BY <2>1, <2>2, <2>4, <2>5 DEF x
<1>10. ASSUME NEW id \in 0 .. n + m - 1
       PROVE  id \in 0 .. n - 1 \/ \E i \in 0 .. m - 1 : id = n + i
  <2>1. CASE id < n
    BY <1>2, <2>1
  <2>2. CASE ~(id < n)
    <3>1. id - n \in 0 .. m - 1 /\ id = n + (id - n)
      BY <1>2, <2>2
    <3> QED BY <3>1
  <2> QED BY <2>1, <2>2
<1>11. \A id \in 0 .. n - 1 : id \in 0 .. n + m - 1 /\ e[id] = f.new[id]
  BY <1>2, <1>5
<1>12. \A i \in 0 .. m - 1 : n + i \in 0 .. n + m - 1 /\ e[n + i] = f.tried[i]
  BY <1>2, <1>9
<1>13. e = [id \in 0 .. n + m - 1 |-> e[id]]
  OBVIOUS
<1> HIDE DEF e
<1>14. e \in [0 .. n + m - 1 -> CAddrEntry]
  <2>1. ASSUME NEW id \in 0 .. n + m - 1 PROVE e[id] \in CAddrEntry
    <3>1. CASE id \in 0 .. n - 1
      BY <1>1, <1>11, <3>1
    <3>2. CASE \E i \in 0 .. m - 1 : id = n + i
      BY <1>1, <1>12, <3>2
    <3> QED BY <1>10, <3>1, <3>2
  <2> QED BY <1>13, <2>1
<1>15. ASSUME NEW id \in 0 .. n + m - 1, NEW j \in 0 .. n + m - 1, netaddr[e[id].addr] = netaddr[e[j].addr]
       PROVE  id = j
  <2>1. CASE id \in 0 .. n - 1 /\ j \in 0 .. n - 1
    BY <1>4, <1>7, <1>11, <1>15, <2>1
  <2>2. CASE id \in 0 .. n - 1 /\ \E k \in 0 .. m - 1 : j = n + k
    <3>1. PICK k \in 0 .. m - 1 : j = n + k
      BY <2>2
    <3>2. e[id] = f.new[id] /\ e[j] = f.tried[k]
      BY <1>11, <1>12, <2>2, <3>1
    <3> QED BY <1>4, <1>7, <1>15, <2>2, <3>2
  <2>3. CASE (\E i \in 0 .. m - 1 : id = n + i) /\ j \in 0 .. n - 1
    <3>1. PICK i \in 0 .. m - 1 : id = n + i
      BY <2>3
    <3>2. e[j] = f.new[j] /\ e[id] = f.tried[i]
      BY <1>11, <1>12, <2>3, <3>1
    <3> QED BY <1>4, <1>7, <1>15, <2>3, <3>2
  <2>4. CASE (\E i \in 0 .. m - 1 : id = n + i) /\ \E k \in 0 .. m - 1 : j = n + k
    <3>1. PICK i \in 0 .. m - 1 : id = n + i
      BY <2>4
    <3>2. PICK k \in 0 .. m - 1 : j = n + k
      BY <2>4
    <3>3. e[id] = f.tried[i] /\ e[j] = f.tried[k]
      BY <1>12, <3>1, <3>2
    <3>4. i = k
      BY <1>4, <1>7, <1>15, <3>3
    <3> QED BY <3>1, <3>2, <3>4
  <2> QED BY <1>10, <2>1, <2>2, <2>3, <2>4
<1>16. InOrder(f, e)
  BY <1>11, <1>12, <1>14, <1>15 DEF InOrder, n, m
<1>17. Cardinality(K) = m
  BY <1>3 DEF m
<1> QED BY <1>2, <1>7, <1>16, <1>17 DEF n, m, e, K
\* What a restart makes of a sound file, its entries in order being e.
LoadedTried(f, e, kb) ==
    LET n == Cardinality(DOMAIN f.new)
        m == Cardinality(DOMAIN f.tried)
    IN  {id \in n .. n + m - 1 : GetTriedBucket[e[id].addr] = kb}

Loaded(f, e, s) ==
    LET n == Cardinality(DOMAIN f.new)
        m == Cardinality(DOMAIN f.tried)
        D == 0 .. n + m - 1
    IN  /\ IsAddrMan(s) /\ s.nIdCount = n + m /\ s.nNew = n /\ s.nTried = m
        /\ s.mapInfo = [id \in D |->
              [addr |-> e[id].addr, source |-> e[id].source, nLastSuccess |-> e[id].nLastSuccess,
               nRefCount |-> IF id < n THEN Cardinality({b \in NewBucket : id \in f.buckets[b]}) ELSE 0,
               fInTried |-> id >= n, nRandomPos |-> id]]
        /\ DOMAIN s.mapAddr = {netaddr[e[id].addr] : id \in D}
        /\ \A id \in D : s.mapAddr[netaddr[e[id].addr]] = id
        /\ s.vRandom = [p \in 1 .. n + m |-> p - 1]
        /\ s.vvTried = [kb \in TriedBucket |->
              [p \in 1 .. Cardinality(LoadedTried(f, e, kb)) |->
                 CHOOSE id \in LoadedTried(f, e, kb) : Index(LoadedTried(f, e, kb), id) = p - 1]]
        /\ s.vvNew = f.buckets

\* The members of the CAddrMan that Unserialize builds.
LEMMA UnserializeIs ==
    ASSUME NEW f, FileOK(f)
    PROVE  LET n == Cardinality(DOMAIN f.new)
               m == Cardinality(DOMAIN f.tried)
           IN  Loaded(f, [id \in 0 .. n + m - 1 |-> EntryAt(f, id)], Unserialize(f))
<1> DEFINE n == Cardinality(DOMAIN f.new)
           m == Cardinality(DOMAIN f.tried)
           k == Cardinality(Kept(f))
           D == 0 .. n + m - 1
           e == [id \in D |-> EntryAt(f, id)]
           s == Unserialize(f)
           in(kb) == {id \in n .. n + k - 1 : GetTriedBucket[EntryAt(f, id).addr] = kb}
<1>1. n \in Nat /\ m \in Nat /\ k = m /\ InOrder(f, e)
  BY EntryAtIs
<1>2. /\ IsAddrMan(s) /\ s.nIdCount = n + k /\ s.nNew = n /\ s.nTried = k
      /\ s.vRandom = [p \in 1 .. n + k |-> p - 1]
  BY DEF Unserialize, IsAddrMan
<1>3. s.mapInfo = [id \in 0 .. n + k - 1 |->
         [addr |-> EntryAt(f, id).addr, source |-> EntryAt(f, id).source,
          nLastSuccess |-> EntryAt(f, id).nLastSuccess,
          nRefCount |-> IF id < n THEN Cardinality({b \in NewBucket : Referenced(f, b, id)}) ELSE 0,
          fInTried |-> id >= n, nRandomPos |-> id]]
  BY DEF Unserialize
<1>4. s.mapAddr = [x \in {netaddr[EntryAt(f, id).addr] : id \in 0 .. n + k - 1} |->
         CHOOSE id \in 0 .. n + k - 1 : /\ netaddr[EntryAt(f, id).addr] = x
                                        /\ \A j \in id + 1 .. n + k - 1 : netaddr[EntryAt(f, j).addr] # x]
  BY DEF Unserialize
<1>5. s.vvTried = [kb \in TriedBucket |->
         [p \in 1 .. Cardinality(in(kb)) |-> CHOOSE id \in in(kb) : Index(in(kb), id) = p - 1]]
  BY DEF Unserialize
<1>6. s.vvNew = [b \in NewBucket |-> {i \in f.buckets[b] : Referenced(f, b, i)}]
  BY DEF Unserialize
<1> HIDE DEF s, n, m, k
<1>7. \A id \in D : EntryAt(f, id) = e[id]
  OBVIOUS
<1> HIDE DEF e
<1>8. s.mapInfo = [id \in D |->
         [addr |-> e[id].addr, source |-> e[id].source, nLastSuccess |-> e[id].nLastSuccess,
          nRefCount |-> IF id < n THEN Cardinality({b \in NewBucket : id \in f.buckets[b]}) ELSE 0,
          fInTried |-> id >= n, nRandomPos |-> id]]
  <2>1. \A id : {b \in NewBucket : Referenced(f, b, id)} = {b \in NewBucket : id \in f.buckets[b]}
    BY ReferencedAll
  <2> QED BY <1>1, <1>3, <1>7, <2>1
<1>9. s.vvNew = f.buckets
  <2>1. \A b \in NewBucket : {i \in f.buckets[b] : Referenced(f, b, i)} = f.buckets[b]
    BY ReferencedAll
  <2>2. f.buckets = [b \in NewBucket |-> f.buckets[b]]
    BY DEF FileOK
  <2> QED BY <1>6, <2>1, <2>2
<1>10. \A id, j \in D : netaddr[e[id].addr] = netaddr[e[j].addr] => id = j
  BY <1>1 DEF InOrder, n, m
<1> DEFINE last(x, id) == /\ netaddr[EntryAt(f, id).addr] = x
                          /\ \A j \in id + 1 .. n + k - 1 : netaddr[EntryAt(f, j).addr] # x
<1>11. ASSUME NEW id \in D PROVE (CHOOSE i \in 0 .. n + k - 1 : last(netaddr[e[id].addr], i)) = id
  <2> DEFINE x == netaddr[e[id].addr]
             c == CHOOSE i \in 0 .. n + k - 1 : last(x, i)
  <2>1. last(x, id)
    <3>1. ASSUME NEW j \in id + 1 .. n + k - 1 PROVE netaddr[EntryAt(f, j).addr] # x
      <4>1. j \in D /\ j # id
        BY <1>1
      <4> QED BY <1>7, <1>10, <4>1
    <3> QED BY <1>7, <3>1
  <2>2. id \in 0 .. n + k - 1
    BY <1>1
  <2>3. c \in 0 .. n + k - 1 /\ last(x, c)
    <3> HIDE DEF last, x
    <3> QED BY <2>1, <2>2, Zenon
  <2>4. c \in D /\ netaddr[EntryAt(f, c).addr] = x
    BY <1>1, <2>3
  <2> HIDE DEF c, last
  <2>5. c = id
    BY <1>7, <1>10, <2>4
  <2> QED BY <2>5 DEF c
<1>12. s.mapAddr = [x \in {netaddr[EntryAt(f, id).addr] : id \in 0 .. n + k - 1} |->
                      CHOOSE id \in 0 .. n + k - 1 : last(x, id)]
  BY <1>4
<1> HIDE DEF last
<1>13. {netaddr[EntryAt(f, id).addr] : id \in 0 .. n + k - 1} = {netaddr[e[id].addr] : id \in D}
  BY <1>1, <1>7
<1>14. DOMAIN s.mapAddr = {netaddr[e[id].addr] : id \in D}
  BY <1>12, <1>13
<1>15. \A id \in D : s.mapAddr[netaddr[e[id].addr]] = id
  BY <1>11, <1>12, <1>13
<1>16. \A kb : in(kb) = LoadedTried(f, e, kb)
  <2>1. \A id \in n .. n + m - 1 : id \in D
    BY <1>1
  <2> QED BY <1>1, <1>7, <2>1 DEF LoadedTried, n, m
<1> HIDE DEF in
<1>17. s.vvTried = [kb \in TriedBucket |->
         [p \in 1 .. Cardinality(LoadedTried(f, e, kb)) |->
            CHOOSE id \in LoadedTried(f, e, kb) : Index(LoadedTried(f, e, kb), id) = p - 1]]
  BY <1>5, <1>16
<1>18. IsAddrMan(s) /\ s.nIdCount = n + m /\ s.nNew = n /\ s.nTried = m
       /\ s.vRandom = [p \in 1 .. n + m |-> p - 1]
  BY <1>1, <1>2
<1>19. Loaded(f, e, s)
  BY <1>8, <1>9, <1>14, <1>15, <1>17, <1>18 DEF Loaded, n, m
<1> QED BY <1>19 DEF e, s, n, m
\* A CAddrMan loaded from a sound file is sound and holds what the file says.
LEMMA LoadedIsSound ==
    ASSUME NEW f, FileOK(f), NEW e, InOrder(f, e), NEW s, Loaded(f, e, s)
    PROVE  TablesOK(s, NoId) /\ Content(s) = FileContent(f)
<1> DEFINE n == Cardinality(DOMAIN f.new)
           m == Cardinality(DOMAIN f.tried)
           D == 0 .. n + m - 1
           T == n .. n + m - 1
           count(id) == Cardinality({b \in NewBucket : id \in f.buckets[b]})
           M == s.mapInfo
<1>1. n \in Nat /\ m \in Nat /\ DOMAIN f.new = 0 .. n - 1 /\ DOMAIN f.tried = 0 .. m - 1
  BY EntryAtIs
<1>2. /\ e \in [D -> CAddrEntry]
      /\ \A id \in 0 .. n - 1 : e[id] = f.new[id]
      /\ \A i \in 0 .. m - 1 : e[n + i] = f.tried[i]
      /\ \A id, j \in D : netaddr[e[id].addr] = netaddr[e[j].addr] => id = j
  BY DEF InOrder
<1>3. IsAddrMan(s) /\ s.nIdCount = n + m /\ s.nNew = n /\ s.nTried = m
  BY DEF Loaded
<1>4. M = [id \in D |->
              [addr |-> e[id].addr, source |-> e[id].source, nLastSuccess |-> e[id].nLastSuccess,
               nRefCount |-> IF id < n THEN count(id) ELSE 0, fInTried |-> id >= n, nRandomPos |-> id]]
  BY DEF Loaded
<1>5. /\ DOMAIN s.mapAddr = {netaddr[e[id].addr] : id \in D}
      /\ \A id \in D : s.mapAddr[netaddr[e[id].addr]] = id
  BY DEF Loaded
<1>6. s.vRandom = [p \in 1 .. n + m |-> p - 1] /\ s.vvNew = f.buckets
  BY DEF Loaded
<1>7. s.vvTried = [kb \in TriedBucket |->
              [p \in 1 .. Cardinality(LoadedTried(f, e, kb)) |->
                 CHOOSE id \in LoadedTried(f, e, kb) : Index(LoadedTried(f, e, kb), id) = p - 1]]
  BY DEF Loaded
<1>8. \A kb : LoadedTried(f, e, kb) = {id \in T : GetTriedBucket[e[id].addr] = kb}
  BY DEF LoadedTried
<1>9. /\ f.buckets \in [NewBucket -> SUBSET (DOMAIN f.new)]
      /\ \A b \in NewBucket : Cardinality(f.buckets[b]) <= ADDRMAN_NEW_BUCKET_SIZE
      /\ \A id \in DOMAIN f.new : count(id) \in 1 .. ADDRMAN_NEW_BUCKETS_PER_ADDRESS
      /\ \A i \in DOMAIN f.tried : f.tried[i].nLastSuccess # 0
      /\ \A kb \in TriedBucket : Cardinality(FiledTried(f, kb)) <= ADDRMAN_TRIED_BUCKET_SIZE
  BY DEF FileOK
<1> HIDE DEF n, m, count
<1>10. Ids(s) = D
  BY <1>4 DEF Ids
<1>11. \A id \in D : /\ M[id].addr = e[id].addr /\ M[id].source = e[id].source
                     /\ M[id].nLastSuccess = e[id].nLastSuccess
                     /\ M[id].nRefCount = (IF id < n THEN count(id) ELSE 0)
                     /\ M[id].fInTried = (id >= n) /\ M[id].nRandomPos = id
  BY <1>4
<1>12. \A id \in D : e[id] \in CAddrEntry
  BY <1>2
<1>13. /\ \A id \in T : id \in D /\ id >= n /\ ~(id < n)
       /\ \A id \in 0 .. n - 1 : id \in D /\ id < n /\ ~(id >= n)
       /\ \A id \in D : id \in Nat /\ (id \in T \/ id \in 0 .. n - 1)
  BY <1>1
<1>14. \A id \in D : M[id] \in CAddrInfo
  <2> SUFFICES ASSUME NEW id \in D PROVE M[id] \in CAddrInfo
    OBVIOUS
  <2>1. e[id].addr \in Service /\ e[id].source \in Source /\ e[id].nLastSuccess \in Nat
    BY <1>12 DEF CAddrEntry
  <2> DEFINE c == IF id < n THEN count(id) ELSE 0
  <2>2. c \in 0 .. ADDRMAN_NEW_BUCKETS_PER_ADDRESS
    <3>1. CASE id \in 0 .. n - 1
      <4>1. count(id) \in 1 .. ADDRMAN_NEW_BUCKETS_PER_ADDRESS
        BY <1>1, <1>9, <3>1
      <4> QED BY <1>13, <3>1, <4>1, Sizes
    <3>2. CASE id \in T
      BY <1>13, <3>2, Sizes
    <3> QED BY <1>13, <3>1, <3>2
  <2> HIDE DEF c
  <2>3. M[id] = [addr |-> e[id].addr, source |-> e[id].source, nLastSuccess |-> e[id].nLastSuccess,
                 nRefCount |-> c, fInTried |-> id >= n, nRandomPos |-> id]
    BY <1>4 DEF c
  <2>4. id \in Nat /\ (id >= n) \in BOOLEAN
    BY <1>13
  <2> HIDE DEF M
  <2> QED BY <2>1, <2>2, <2>3, <2>4 DEF CAddrInfo
<1> HIDE DEF M
<1>15. TriedIds(s) = T
  <2>1. TriedIds(s) = {id \in D : M[id].fInTried}
    BY <1>10 DEF TriedIds, Ids, M
  <2>2. ASSUME NEW id \in T PROVE id \in D /\ M[id].fInTried
    <3>1. id \in D /\ id >= n /\ M[id].fInTried = (id >= n)
      BY <1>11, <1>13
    <3> QED BY <3>1, Zenon
  <2>3. ASSUME NEW id \in 0 .. n - 1 PROVE ~M[id].fInTried
    <3>1. id \in D /\ ~(id >= n) /\ M[id].fInTried = (id >= n)
      BY <1>11, <1>13
    <3> QED BY <3>1, Zenon
  <2>4. \A id \in D : id \in T \/ id \in 0 .. n - 1
    BY <1>13
  <2> HIDE DEF D, T
  <2> QED BY <2>1, <2>2, <2>3, <2>4
<1>16. EntriesOK(s)
  <2>1. n + m \in Nat
    BY <1>1
  <2>2. s.nIdCount \in Nat /\ Ids(s) \subseteq 0 .. s.nIdCount - 1
    <3>1. s.nIdCount - 1 = n + m - 1
      BY <1>1, <1>3
    <3> QED BY <1>3, <1>10, <2>1, <3>1
  <2> QED BY <1>3, <1>10, <1>14, <2>2 DEF EntriesOK, M
<1>17. AddrsOK(s)
  <2>1. {netaddr[M[id].addr] : id \in D} = {netaddr[e[id].addr] : id \in D}
    BY <1>11
  <2>2. \A id \in D : s.mapAddr[netaddr[M[id].addr]] = id
    BY <1>5, <1>11
  <2> QED BY <1>5, <1>10, <2>1, <2>2 DEF AddrsOK, M
<1>18. RandomOK(s)
  <2> DEFINE l == n + m
             v == [p \in 1 .. l |-> p - 1]
  <2>1. l \in Nat
    BY <1>1
  <2>2. s.vRandom = v /\ D = 0 .. l - 1
    <3>1. s.vRandom = v
      BY <1>6, Zenon
    <3>2. l - 1 = n + m - 1
      BY <1>1
    <3> HIDE DEF l
    <3> QED BY <3>1, <3>2
  <2> HIDE DEF l, D
  <2>3. v \in Seq(Nat) /\ Len(v) = l
    BY <2>1
  <2>4. Cardinality(D) = l
    BY <2>1, <2>2, Below
  <2>5. \A p \in 1 .. l : v[p] \in D /\ M[v[p]].nRandomPos = p - 1
    BY <1>11, <2>1, <2>2
  <2>6. \A id \in D : M[id].nRandomPos < l /\ v[M[id].nRandomPos + 1] = id
    BY <1>11, <2>1, <2>2
  <2> HIDE DEF v
  <2> QED BY <1>10, <2>2, <2>3, <2>4, <2>5, <2>6 DEF RandomOK, M
<1>19. CountsOK(s)
  <2>1. Cardinality(T) = m
    <3> DEFINE h == n + m - 1
    <3>1. h \in Int /\ n \in Int
      BY <1>1
    <3>2. Cardinality(n .. h) = IF n > h THEN 0 ELSE h - n + 1
      <4> HIDE DEF h
      <4> QED BY <3>1, FS_Interval
    <3> QED BY <1>1, <3>2
  <2>2. D \ T = 0 .. n - 1
    BY <1>13
  <2>3. Cardinality(0 .. n - 1) = n
    BY <1>1, Below
  <2> QED BY <1>3, <1>10, <1>15, <2>1, <2>2, <2>3 DEF CountsOK
<1>20. NewOK(s, NoId)
  <2>1. DOMAIN f.new = D \ T
    BY <1>1, <1>13
  <2>2. s.vvNew \in [NewBucket -> SUBSET Nat]
    <3>1. DOMAIN f.new \subseteq Nat
      BY <1>1
    <3> QED BY <1>6, <1>9, <3>1
  <2>3. \A b \in NewBucket : /\ s.vvNew[b] \subseteq Ids(s) \ TriedIds(s)
                             /\ Cardinality(s.vvNew[b]) <= ADDRMAN_NEW_BUCKET_SIZE
    BY <1>6, <1>9, <1>10, <1>15, <2>1
  <2>4. ASSUME NEW id \in Ids(s) \ TriedIds(s)
        PROVE  /\ M[id].nRefCount # 0
               /\ M[id].nRefCount = Cardinality(BucketsOf(s, id)) + (IF id = NoId THEN 1 ELSE 0)
    <3>1. id \in 0 .. n - 1 /\ id \in D /\ id < n
      BY <1>10, <1>13, <1>15
    <3>2. M[id].nRefCount = count(id) /\ count(id) \in 1 .. ADDRMAN_NEW_BUCKETS_PER_ADDRESS
      BY <1>1, <1>9, <1>11, <3>1
    <3>3. Cardinality(BucketsOf(s, id)) = count(id)
      BY <1>6 DEF BucketsOf, count
    <3>4. id # NoId
      BY <1>1, <3>1 DEF NoId
    <3>5. count(id) \in Nat /\ count(id) # 0
      BY <3>2, Sizes
    <3> QED BY <3>2, <3>3, <3>4, <3>5
  <2> QED BY <2>2, <2>3, <2>4 DEF NewOK, M
<1>21. ASSUME NEW kb \in TriedBucket
       PROVE  LET L == LoadedTried(f, e, kb)
              IN  IsFiniteSet(L) /\ L \subseteq Nat /\ L \subseteq T
                  /\ Cardinality(L) \in Nat /\ Cardinality(L) <= ADDRMAN_TRIED_BUCKET_SIZE
  <2> DEFINE L == LoadedTried(f, e, kb)
             F == FiledTried(f, kb)
             g == [id \in L |-> id - n]
  <2>1. L \subseteq T /\ \A id \in L : GetTriedBucket[e[id].addr] = kb
    BY <1>8
  <2>2. F = {i \in 0 .. m - 1 : GetTriedBucket[f.tried[i].addr] = kb}
    BY <1>1 DEF FiledTried
  <2> HIDE DEF L, F
  <2>3. ASSUME NEW id \in L PROVE id - n \in F /\ id \in Nat
    <3>1. id \in T
      BY <2>1
    <3>2. id - n \in 0 .. m - 1 /\ n + (id - n) = id /\ id \in Nat
      BY <1>1, <3>1
    <3>3. e[id] = f.tried[id - n]
      BY <1>2, <3>2
    <3> QED BY <2>1, <2>2, <3>2, <3>3
  <2>4. g \in [L -> F]
    BY <2>3
  <2>5. \A x, y \in L : g[x] = g[y] => x = y
    <3> SUFFICES ASSUME NEW x \in L, NEW y \in L, g[x] = g[y] PROVE x = y
      OBVIOUS
    <3>1. x \in Nat /\ y \in Nat /\ x - n = y - n
      BY <2>3
    <3> QED BY <1>1, <3>1
  <2> HIDE DEF g
  <2>6. IsFiniteSet(F) /\ Cardinality(F) \in Nat
    <3>1. F \subseteq DOMAIN f.tried
      BY <1>1, <2>2
    <3>2. IsFiniteSet(DOMAIN f.tried)
      BY DEF FileOK
    <3> QED BY <3>1, <3>2, SubsetFinite
  <2>7. IsFiniteSet(L) /\ Cardinality(L) <= Cardinality(F)
    BY <2>4, <2>5, <2>6, ListedOnce
  <2>8. Cardinality(L) \in Nat
    BY <2>7, FS_CardinalityType
  <2>9. Cardinality(F) <= ADDRMAN_TRIED_BUCKET_SIZE
    BY <1>9 DEF F
  <2>10. Cardinality(L) <= ADDRMAN_TRIED_BUCKET_SIZE
    BY <2>6, <2>7, <2>8, <2>9, Sizes
  <2> QED BY <2>1, <2>3, <2>7, <2>8, <2>10 DEF L
<1>22. ASSUME NEW kb \in TriedBucket
       PROVE  LET L == LoadedTried(f, e, kb)
                  v == s.vvTried[kb]
              IN  /\ v \in Seq(Nat) /\ Len(v) = Cardinality(L)
                  /\ \A p \in 1 .. Len(v) : v[p] \in L /\ Index(L, v[p]) = p - 1
                  /\ \A id \in L : \E p \in 1 .. Len(v) : v[p] = id
  <2> DEFINE L == LoadedTried(f, e, kb)
             l == Cardinality(L)
             v == s.vvTried[kb]
             at(p) == CHOOSE id \in L : Index(L, id) = p - 1
  <2>1. v = [p \in 1 .. l |-> at(p)]
    BY <1>7
  <2>2. IsFiniteSet(L) /\ L \subseteq Nat /\ l \in Nat
    BY <1>21
  <2> HIDE DEF L, v
  <2>3. /\ \A x \in L : Index(L, x) \in 0 .. l - 1
        /\ \A x, y \in L : Index(L, x) = Index(L, y) => x = y
        /\ \A i \in 0 .. l - 1 : \E x \in L : Index(L, x) = i
    BY <2>2, IndexIs
  <2> HIDE DEF l
  <2>4. ASSUME NEW p \in 1 .. l PROVE at(p) \in L /\ Index(L, at(p)) = p - 1
    <3>1. p - 1 \in 0 .. l - 1
      BY <2>2
    <3>2. \E x \in L : Index(L, x) = p - 1
      BY <2>3, <3>1
    <3> QED BY <3>2, Zenon
  <2> HIDE DEF at
  <2>5. v \in Seq(Nat) /\ Len(v) = l /\ \A p \in 1 .. l : v[p] = at(p)
    <3>1. \A p \in 1 .. l : at(p) \in Nat
      BY <2>2, <2>4
    <3> QED BY <2>1, <2>2, <3>1
  <2>6. ASSUME NEW id \in L PROVE \E p \in 1 .. l : v[p] = id
    <3> DEFINE p == Index(L, id) + 1
    <3>1. Index(L, id) \in 0 .. l - 1
      BY <2>3
    <3>2. p \in 1 .. l /\ p - 1 = Index(L, id)
      BY <2>2, <3>1
    <3>3. at(p) \in L /\ Index(L, at(p)) = Index(L, id)
      BY <2>4, <3>2
    <3>4. at(p) = id
      BY <2>3, <3>3
    <3> HIDE DEF p
    <3> QED BY <2>5, <3>2, <3>4
  <2> QED BY <2>4, <2>5, <2>6 DEF L, l, v
<1>23. TriedOK(s)
  <2>1. s.vvTried \in [TriedBucket -> Seq(Nat)]
    <3>1. s.vvTried = [kb \in TriedBucket |-> s.vvTried[kb]]
      BY <1>7
    <3>2. \A kb \in TriedBucket : s.vvTried[kb] \in Seq(Nat)
      BY <1>22
    <3> QED BY <3>1, <3>2
  <2>2. ASSUME NEW kb \in TriedBucket
        PROVE  /\ Len(s.vvTried[kb]) <= ADDRMAN_TRIED_BUCKET_SIZE
               /\ \A p \in 1 .. Len(s.vvTried[kb]) :
                     /\ s.vvTried[kb][p] \in TriedIds(s)
                     /\ GetTriedBucket[M[s.vvTried[kb][p]].addr] = kb
               /\ \A p, q \in 1 .. Len(s.vvTried[kb]) : s.vvTried[kb][p] = s.vvTried[kb][q] => p = q
    <3> DEFINE L == LoadedTried(f, e, kb)
               v == s.vvTried[kb]
    <3>1. /\ v \in Seq(Nat) /\ Len(v) = Cardinality(L)
          /\ \A p \in 1 .. Len(v) : v[p] \in L /\ Index(L, v[p]) = p - 1
      BY <1>22
    <3>2. L \subseteq T /\ Cardinality(L) <= ADDRMAN_TRIED_BUCKET_SIZE
      BY <1>21
    <3>3. \A id \in L : GetTriedBucket[e[id].addr] = kb /\ id \in D
      BY <1>8, <1>13
    <3> HIDE DEF L, v
    <3>4. \A p \in 1 .. Len(v) : v[p] \in TriedIds(s) /\ GetTriedBucket[M[v[p]].addr] = kb
      <4>1. ASSUME NEW p \in 1 .. Len(v)
            PROVE  v[p] \in TriedIds(s) /\ GetTriedBucket[M[v[p]].addr] = kb
        <5>1. v[p] \in L /\ v[p] \in T /\ v[p] \in D /\ GetTriedBucket[e[v[p]].addr] = kb
          BY <3>1, <3>2, <3>3, Zenon
        <5>2. v[p] \in TriedIds(s)
          BY <1>15, <5>1, Zenon
        <5> QED BY <1>11, <5>1, <5>2, Zenon
      <4> QED BY <4>1, Zenon
    <3>5. ASSUME NEW p \in 1 .. Len(v), NEW q \in 1 .. Len(v), v[p] = v[q] PROVE p = q
      <4>1. p - 1 = q - 1
        BY <3>1, <3>5
      <4>2. p \in Int /\ q \in Int
        BY <3>1
      <4> QED BY <4>1, <4>2
    <3> QED BY <3>1, <3>2, <3>4, <3>5 DEF v
  <2>3. ASSUME NEW id \in TriedIds(s)
        PROVE  /\ M[id].nLastSuccess # 0 /\ M[id].nRefCount = 0
               /\ LET v == s.vvTried[GetTriedBucket[M[id].addr]]
                  IN  \E p \in 1 .. Len(v) : v[p] = id
    <3>1. id \in T /\ id \in D /\ ~(id < n)
      BY <1>13, <1>15
    <3>2. id - n \in 0 .. m - 1 /\ n + (id - n) = id
      BY <1>1, <3>1
    <3>3. e[id] = f.tried[id - n]
      BY <1>2, <3>2
    <3>4. e[id].nLastSuccess # 0
      BY <1>1, <1>9, <3>2, <3>3
    <3>5. M[id].nLastSuccess # 0 /\ M[id].nRefCount = 0 /\ M[id].addr = e[id].addr
      BY <1>11, <3>1, <3>4
    <3> DEFINE kb == GetTriedBucket[e[id].addr]
    <3>6. kb \in TriedBucket
      BY <1>12, <3>1, Buckets DEF CAddrEntry
    <3>7. id \in LoadedTried(f, e, kb)
      BY <1>8, <3>1
    <3> HIDE DEF kb
    <3>8. \E p \in 1 .. Len(s.vvTried[kb]) : s.vvTried[kb][p] = id
      BY <1>22, <3>6, <3>7
    <3>9. GetTriedBucket[M[id].addr] = kb
      BY <3>5 DEF kb
    <3> QED BY <3>5, <3>8, <3>9
  <2> QED BY <2>1, <2>2, <2>3 DEF TriedOK, M
<1>24. TablesOK(s, NoId)
  BY <1>16, <1>17, <1>18, <1>19, <1>20, <1>23 DEF TablesOK
<1>25. \A id \in D : Entry(M[id]) = e[id]
  <2> SUFFICES ASSUME NEW id \in D PROVE Entry(M[id]) = e[id]
    OBVIOUS
  <2>1. e[id] = [addr |-> e[id].addr, source |-> e[id].source, nLastSuccess |-> e[id].nLastSuccess]
    BY <1>12 DEF CAddrEntry
  <2> QED BY <1>11, <2>1 DEF Entry
<1>26. {Entry(M[id]) : id \in T} = {f.tried[i] : i \in 0 .. m - 1}
  <2>1. ASSUME NEW id \in T PROVE \E i \in 0 .. m - 1 : Entry(M[id]) = f.tried[i]
    <3>1. id - n \in 0 .. m - 1 /\ n + (id - n) = id /\ id \in D
      BY <1>1, <1>13
    <3>2. e[id] = f.tried[id - n]
      BY <1>2, <3>1
    <3> QED BY <1>25, <3>1, <3>2
  <2>2. ASSUME NEW i \in 0 .. m - 1 PROVE \E id \in T : f.tried[i] = Entry(M[id])
    <3>1. n + i \in T /\ n + i \in D
      BY <1>1
    <3> QED BY <1>2, <1>25, <3>1
  <2> HIDE DEF T
  <2> QED BY <2>1, <2>2
<1>27. ASSUME NEW b \in NewBucket PROVE {Entry(M[id]) : id \in s.vvNew[b]} = {f.new[i] : i \in f.buckets[b]}
  <2>1. s.vvNew[b] = f.buckets[b] /\ \A id \in f.buckets[b] : id \in 0 .. n - 1 /\ id \in D
    BY <1>1, <1>6, <1>9, <1>13
  <2>2. \A id \in f.buckets[b] : Entry(M[id]) = f.new[id]
    BY <1>2, <1>25, <2>1
  <2> QED BY <2>1, <2>2
<1>28. Content(s) = FileContent(f)
  BY <1>1, <1>15, <1>26, <1>27 DEF Content, FileContent, M
<1> QED BY <1>24, <1>28

\* Reading a sound peers.dat.
LEMMA RestartIs ==
    ASSUME NEW f, FileOK(f)
    PROVE  TablesOK(Unserialize(f), NoId) /\ Content(Unserialize(f)) = FileContent(f)
<1> DEFINE n == Cardinality(DOMAIN f.new)
           m == Cardinality(DOMAIN f.tried)
           e == [id \in 0 .. n + m - 1 |-> EntryAt(f, id)]
<1>1. InOrder(f, e)
  BY EntryAtIs
<1>2. Loaded(f, e, Unserialize(f))
  BY UnserializeIs
<1> HIDE DEF e
<1> QED BY <1>1, <1>2, LoadedIsSound
-----------------------------------------------------------------------------
(* Every step keeps the invariant                                          *)

\* The constructor of CAddrMan.
LEMMA EmptyIsSound == TablesOK(Empty, NoId)
<1>1. /\ Empty.nIdCount = 0 /\ Empty.mapInfo = <<>> /\ Empty.mapAddr = <<>> /\ Empty.vRandom = <<>>
      /\ Empty.nTried = 0 /\ Empty.nNew = 0
      /\ Empty.vvTried = [k \in TriedBucket |-> <<>>] /\ Empty.vvNew = [b \in NewBucket |-> {}]
      /\ IsAddrMan(Empty)
  BY DEF Empty, IsAddrMan
<1>2. DOMAIN <<>> = {} /\ Len(<<>>) = 0 /\ <<>> \in Seq(Nat)
  OBVIOUS
<1>3. Ids(Empty) = {} /\ TriedIds(Empty) = {} /\ Cardinality({}) = 0
  BY <1>1, <1>2, FS_EmptySet DEF Ids, TriedIds
<1>4. EntriesOK(Empty)
  BY <1>1, <1>3 DEF EntriesOK
<1>5. AddrsOK(Empty)
  BY <1>1, <1>2, <1>3 DEF AddrsOK
<1>6. RandomOK(Empty)
  BY <1>1, <1>2, <1>3 DEF RandomOK
<1>7. CountsOK(Empty)
  <2>1. Ids(Empty) \ TriedIds(Empty) = {}
    BY <1>3
  <2> QED BY <1>1, <1>3, <2>1 DEF CountsOK
<1>8. TriedOK(Empty)
  <2>1. \A kb \in TriedBucket : Empty.vvTried[kb] = <<>>
    BY <1>1
  <2>2. Empty.vvTried \in [TriedBucket -> Seq(Nat)]
    BY <1>1, <1>2
  <2> QED BY <1>2, <1>3, <2>1, <2>2, Sizes DEF TriedOK
<1>9. NewOK(Empty, NoId)
  BY <1>1, <1>3, Sizes DEF NewOK
<1> QED BY <1>4, <1>5, <1>6, <1>7, <1>8, <1>9 DEF TablesOK

\* The invariant holds when the process first starts.
LEMMA InitHolds == Init => IInv
<1> SUFFICES ASSUME Init PROVE IInv
  OBVIOUS
<1>1. am = Empty /\ nShuffled = 0 /\ peersDat = Serialize(Empty) /\ saved = Content(Empty)
  BY DEF Init
<1>2. FileOK(Serialize(Empty)) /\ FileContent(Serialize(Empty)) = Content(Empty)
  BY EmptyIsSound, SerializeIs
<1> QED BY <1>1, <1>2, EmptyIsSound DEF IInv

\* Every step keeps the invariant, and every step but a restart the tried addresses.
LEMMA StepHolds ==
    ASSUME IInv, [Next]_vars
    PROVE  IInv' /\ (StillKnown(am, am') \/ Restart)
<1>1. ASSUME NEW a \in Service, NEW src \in Source, AddUnknown(a, src) PROVE IInv' /\ StillKnown(am, am')
  BY <1>1, AddUnknownKeeps
<1>2. ASSUME NEW a \in Service, NEW src \in Source, AddKnown(a, src) PROVE IInv' /\ StillKnown(am, am')
  BY <1>2, AddKnownKeeps
<1>3. ASSUME NEW a \in Service, NEW t \in Time, Good(a, t) PROVE IInv' /\ StillKnown(am, am')
  BY <1>3, GoodKeeps
<1>4. ASSUME GetAddr PROVE IInv' /\ StillKnown(am, am')
  BY <1>4, GetAddrKeeps
<1>5. StillKnown(am, am)
  BY DEF StillKnown, TriedIds, Ids
<1>6. ASSUME DumpAddresses PROVE IInv' /\ StillKnown(am, am')
  <2>1. peersDat' = Serialize(am) /\ saved' = Content(am) /\ UNCHANGED <<am, nShuffled>>
    BY <1>6 DEF DumpAddresses
  <2>2. TablesOK(am, NoId) /\ nShuffled \in Nat
    BY DEF IInv
  <2>3. FileOK(Serialize(am)) /\ FileContent(Serialize(am)) = Content(am)
    BY <2>2, SerializeIs
  <2>4. TablesOK(am', NoId) /\ FileOK(peersDat') /\ saved' = FileContent(peersDat') /\ nShuffled' \in Nat
    BY <2>1, <2>2, <2>3
  <2>5. StillKnown(am, am')
    BY <1>5, <2>1
  <2> QED BY <2>4, <2>5 DEF IInv
<1>7. ASSUME Restart PROVE IInv'
  <2>1. am' = Unserialize(peersDat) /\ nShuffled' = 0 /\ UNCHANGED <<peersDat, saved>>
    BY <1>7 DEF Restart
  <2>2. FileOK(peersDat) /\ saved = FileContent(peersDat)
    BY DEF IInv
  <2>3. TablesOK(am', NoId) /\ FileOK(peersDat') /\ saved' = FileContent(peersDat') /\ nShuffled' \in Nat
    BY <2>1, <2>2, RestartIs
  <2> QED BY <2>3 DEF IInv
<1>8. ASSUME UNCHANGED vars PROVE IInv' /\ StillKnown(am, am')
  <2>1. am' = am /\ nShuffled' = nShuffled /\ peersDat' = peersDat /\ saved' = saved
    BY <1>8 DEF vars
  <2>2. TablesOK(am', NoId) /\ FileOK(peersDat') /\ saved' = FileContent(peersDat') /\ nShuffled' \in Nat
    BY <2>1 DEF IInv
  <2> QED BY <1>5, <2>1, <2>2 DEF IInv
<1> QED BY <1>1, <1>2, <1>3, <1>4, <1>6, <1>7, <1>8 DEF Next

\* The indexes, the tables and the file are consistent in every reachable state
\* of CAddrMan.
THEOREM Inductive == Spec => []IInv
<1>1. Init => IInv
  BY InitHolds
<1>2. IInv /\ [Next]_vars => IInv'
  BY StepHolds
<1> QED BY <1>1, <1>2, PTL DEF Spec

\* The counters of CAddrMan never go below zero and no entry has more references
\* than ADDRMAN_NEW_BUCKETS_PER_ADDRESS.
THEOREM TypeCorrect == Spec => []TypeOK
<1>1. IInv => TypeOK
  <2> SUFFICES ASSUME IInv PROVE TypeOK
    OBVIOUS
  <2>1. /\ EntriesOK(am) /\ RandomOK(am) /\ CountsOK(am) /\ TriedOK(am) /\ NewOK(am, NoId)
        /\ nShuffled \in Nat
    BY DEF IInv, TablesOK
  <2>2. IsFiniteSet(Ids(am)) /\ TriedIds(am) \subseteq Ids(am) /\ Ids(am) \ TriedIds(am) \subseteq Ids(am)
    BY <2>1, IdsFinite
  <2>3. Cardinality(TriedIds(am)) \in Nat /\ Cardinality(Ids(am) \ TriedIds(am)) \in Nat
    BY <2>2, SubsetFinite
  <2>4. am.nIdCount \in Nat /\ am.nTried \in Nat /\ am.nNew \in Nat
    BY <2>1, <2>3 DEF EntriesOK, CountsOK
  <2>5. DOMAIN am.mapInfo \subseteq 0 .. am.nIdCount - 1
        /\ \A id \in DOMAIN am.mapInfo : am.mapInfo[id] \in CAddrInfo
    BY <2>1 DEF EntriesOK, Ids
  <2>6. am.vRandom \in Seq(Nat) /\ am.vvTried \in [TriedBucket -> Seq(Nat)]
        /\ am.vvNew \in [NewBucket -> SUBSET Nat]
    BY <2>1 DEF RandomOK, TriedOK, NewOK
  <2> QED BY <2>1, <2>4, <2>5, <2>6 DEF TypeOK, CAddrInfo
<1> QED BY Inductive, <1>1, PTL

\* Check_() returns 0 whenever it could be called, in any order of operations,
\* dumps and restarts.
THEOREM ChecksPass == Spec => []CheckOK
<1>1. IInv => CheckOK
  <2> SUFFICES ASSUME IInv PROVE CheckOK
    OBVIOUS
  <2> DEFINE S == Ids(am)
             T == TriedIds(am)
             M == am.mapInfo
  <2>1. /\ EntriesOK(am) /\ AddrsOK(am) /\ RandomOK(am) /\ CountsOK(am) /\ TriedOK(am) /\ NewOK(am, NoId)
        /\ TablesOK(am, NoId)
    BY DEF IInv, TablesOK
  <2>2. /\ IsFiniteSet(S) /\ T \subseteq S /\ S = DOMAIN M
        /\ \A id \in S : id # NoId /\ M[id] \in CAddrInfo
    BY <2>1, IdsFinite DEF Ids, EntriesOK
  <2>3. am.nTried = Cardinality(T) /\ am.nNew = Cardinality(S \ T) /\ Len(am.vRandom) = Cardinality(S)
    BY <2>1 DEF CountsOK, RandomOK
  <2>4. Len(am.vRandom) = am.nTried + am.nNew
    <3>1. S \ T \subseteq S
      OBVIOUS
    <3>2. IsFiniteSet(T) /\ IsFiniteSet(S \ T) /\ Cardinality(T) \in Nat /\ Cardinality(S \ T) \in Nat
      <4> HIDE DEF S, T
      <4> QED BY <2>2, <3>1, SubsetFinite
    <3> HIDE DEF S, T
    <3>3. Cardinality(T \cup (S \ T)) = Cardinality(T) + Cardinality(S \ T) - Cardinality(T \cap (S \ T))
      BY <3>2, FS_Union
    <3>4. T \cup (S \ T) = S /\ T \cap (S \ T) = {} /\ Cardinality({}) = 0
      BY <2>2, FS_EmptySet
    <3>5. Cardinality(S) = Cardinality(T) + Cardinality(S \ T) - 0
      BY <3>3, <3>4
    <3> QED BY <2>3, <3>2, <3>5
  <2>5. Indexed
    <3>1. \A id \in S : /\ Find(netaddr[M[id].addr]) /\ am.mapAddr[netaddr[M[id].addr]] = id
                        /\ M[id].nRandomPos < Len(am.vRandom) /\ am.vRandom[M[id].nRandomPos + 1] = id
      BY <2>1 DEF AddrsOK, RandomOK, Find, Ids
    <3> QED BY <2>2, <2>3, <2>4, <3>1 DEF Indexed
  <2>6. ASSUME NEW id \in T
        PROVE  /\ M[id].nLastSuccess # 0 /\ M[id].nRefCount = 0
               /\ \E x \in TriedBucket \X (1 .. ADDRMAN_TRIED_BUCKET_SIZE) : TriedPlaces(id) = {x}
    <3> DEFINE k == GetTriedBucket[M[id].addr]
    <3>1. M[id].nLastSuccess # 0 /\ M[id].nRefCount = 0
      BY <2>1 DEF TriedOK
    <3>2. PICK p \in 1 .. Len(am.vvTried[k]) : am.vvTried[k][p] = id
      BY <2>1, TriedAt
    <3>3. k \in TriedBucket
      BY <2>2, Buckets DEF CAddrInfo
    <3> HIDE DEF k
    <3>4. /\ am.vvTried[k] \in Seq(Nat) /\ Len(am.vvTried[k]) <= ADDRMAN_TRIED_BUCKET_SIZE
          /\ Len(am.vvTried[k]) \in Nat
      BY <2>1, <3>3 DEF TriedOK
    <3>5. p \in 1 .. ADDRMAN_TRIED_BUCKET_SIZE /\ p \in DOMAIN am.vvTried[k]
      BY <3>4, Sizes
    <3>6. ASSUME NEW j \in TriedBucket, NEW q \in DOMAIN am.vvTried[j], am.vvTried[j][q] = id
          PROVE  j = k /\ q = p
      <4>1. am.vvTried[j] \in Seq(Nat)
        BY <2>1 DEF TriedOK
      <4>2. q \in 1 .. Len(am.vvTried[j])
        BY <4>1
      <4>3. GetTriedBucket[M[am.vvTried[j][q]].addr] = j
        BY <2>1, <4>2, TriedIn
      <4>4. j = k
        BY <3>6, <4>3 DEF k
      <4>5. \A x, y \in 1 .. Len(am.vvTried[k]) : am.vvTried[k][x] = am.vvTried[k][y] => x = y
        BY <2>1, <3>3 DEF TriedOK
      <4>6. q \in 1 .. Len(am.vvTried[k]) /\ am.vvTried[k][q] = id
        BY <3>6, <4>2, <4>4
      <4> QED BY <3>2, <4>4, <4>5, <4>6
    <3> DEFINE x == <<k, p>>
    <3>7. x \in TriedBucket \X (1 .. ADDRMAN_TRIED_BUCKET_SIZE) /\ x[1] = k /\ x[2] = p
      BY <3>3, <3>5
    <3>8. x \in TriedPlaces(id)
      BY <3>2, <3>5, <3>7 DEF TriedPlaces
    <3>9. ASSUME NEW y \in TriedPlaces(id) PROVE y = x
      <4>1. /\ y \in TriedBucket \X (1 .. ADDRMAN_TRIED_BUCKET_SIZE)
            /\ y[2] \in DOMAIN am.vvTried[y[1]] /\ am.vvTried[y[1]][y[2]] = id
        BY DEF TriedPlaces
      <4>2. y[1] \in TriedBucket /\ y = <<y[1], y[2]>>
        BY <4>1
      <4>3. y[1] = k /\ y[2] = p
        BY <3>6, <4>1, <4>2
      <4> QED BY <4>2, <4>3
    <3> HIDE DEF x
    <3>10. TriedPlaces(id) = {x}
      BY <3>8, <3>9
    <3> QED BY <3>1, <3>7, <3>10
  <2>7. ASSUME NEW id \in S \ T
        PROVE  /\ M[id].nRefCount # 0
               /\ M[id].nRefCount = Cardinality({b \in NewBucket : id \in am.vvNew[b]})
    <3>1. M[id].nRefCount # 0
          /\ M[id].nRefCount = Cardinality(BucketsOf(am, id)) + (IF id = NoId THEN 1 ELSE 0)
      BY <2>1 DEF NewOK
    <3>2. BucketsOf(am, id) \subseteq NewBucket /\ id # NoId
      BY <2>2 DEF BucketsOf
    <3>3. Cardinality(BucketsOf(am, id)) \in Nat
      BY <3>2, Buckets, SubsetFinite
    <3>4. M[id].nRefCount = Cardinality(BucketsOf(am, id))
      BY <3>1, <3>2, <3>3
    <3> QED BY <3>1, <3>4 DEF BucketsOf
  <2>8. ASSUME NEW kb \in TriedBucket, NEW p \in DOMAIN am.vvTried[kb] PROVE am.vvTried[kb][p] \in T
    <3>1. am.vvTried[kb] \in Seq(Nat)
      BY <2>1 DEF TriedOK
    <3>2. p \in 1 .. Len(am.vvTried[kb])
      BY <3>1
    <3> QED BY <2>1, <3>2, TriedIn
  <2>9. \A b \in NewBucket : am.vvNew[b] \subseteq S \ T
    BY <2>1 DEF NewOK
  <2>10. Placed
    BY <2>2, <2>3, <2>6, <2>7, <2>8, <2>9 DEF Placed
  <2> QED BY <2>5, <2>10 DEF CheckOK
<1> QED BY Inductive, <1>1, PTL

\* No bucket of CAddrMan grows past its size, whatever is evicted where: there is
\* "certainly place" in the bucket the entry came from.
THEOREM BucketsStayBounded == Spec => []BucketsBounded
<1>1. IInv => BucketsBounded
  BY DEF IInv, TablesOK, NewOK, TriedOK, BucketsBounded
<1> QED BY Inductive, <1>1, PTL

\* Reading peers.dat back gives the tables that were written, whenever the restart
\* comes.
THEOREM RestartIsExact == Spec => []RestartRestores
<1>1. IInv => RestartRestores
  BY RestartIs DEF IInv, RestartRestores
<1> QED BY Inductive, <1>1, PTL

\* While the process runs no operation of CAddrMan forgets a tried address.
THEOREM TriedStays == Spec => TriedStaysKnown
<1>1. IInv /\ [Next]_vars
         => [\/ \A id \in TriedIds(am) :
                   id \in DOMAIN am'.mapInfo /\ am'.mapInfo[id].addr = am.mapInfo[id].addr
             \/ Restart]_vars
  BY StepHolds DEF StillKnown, Ids
<1> QED BY Inductive, <1>1, PTL DEF Spec, TriedStaysKnown

=============================================================================
