------------------------------ MODULE AddrMan ------------------------------
(***************************************************************************)
(* CAddrMan (addrman.h, addrman.cpp): the addresses a node knows, in "new" *)
(* buckets until a connection succeeds and in "tried" buckets afterwards,  *)
(* with the indexes kept over them, and peers.dat, to which a thread dumps *)
(* them every ten minutes and from which a restart reads them.             *)
(*                                                                         *)
(* Every operation holds cs from its first to its last access, so each is  *)
(* one step; GetAddr_ is a loop and takes one step per iteration.  The     *)
(* hashes that choose buckets are constants.  nTime, nAttempts, nLastTry   *)
(* and nServices only influence which entry a random choice prefers: the   *)
(* choice is any.  Positions count from 0, as in the code; sequences from  *)
(* 1.                                                                      *)
(***************************************************************************)
EXTENDS Integers, Sequences, FiniteSets

CONSTANTS
    Service,               \* CService: address and port
    Source,                \* who told us about an address
    NewBucket, TriedBucket,
    netaddr,               \* [Service -> address], the CNetAddr part
    GetNewBucket,          \* [Service \X Source -> NewBucket]
    GetTriedBucket,        \* [Service -> TriedBucket]
    BucketOrder,           \* [NewBucket -> Nat], the place of a bucket in vvNew
    ADDRMAN_NEW_BUCKET_SIZE,
    ADDRMAN_TRIED_BUCKET_SIZE,
    ADDRMAN_NEW_BUCKETS_PER_ADDRESS,
    ADDRMAN_TRIED_ENTRIES_INSPECT_ON_EVICT,
    ADDRMAN_GETADDR_MAX_PCT,
    ADDRMAN_GETADDR_MAX,
    Time,                  \* values of GetAdjustedTime at a successful connection
    MaxId                  \* bound: entries created between two restarts

ASSUME Tables ==
    /\ IsFiniteSet(NewBucket)
    /\ GetNewBucket \in [Service \X Source -> NewBucket]
    /\ GetTriedBucket \in [Service -> TriedBucket]
    /\ DOMAIN netaddr = Service
    /\ BucketOrder \in [NewBucket -> Nat]
    /\ \A b, c \in NewBucket : BucketOrder[b] = BucketOrder[c] => b = c

ASSUME Limits ==
    /\ ADDRMAN_NEW_BUCKET_SIZE \in Nat \ {0}
    /\ ADDRMAN_TRIED_BUCKET_SIZE \in Nat \ {0}
    /\ ADDRMAN_NEW_BUCKETS_PER_ADDRESS \in Nat \ {0}
    /\ ADDRMAN_TRIED_ENTRIES_INSPECT_ON_EVICT \in Nat \ {0}
    /\ ADDRMAN_GETADDR_MAX_PCT \in 0..100
    /\ ADDRMAN_GETADDR_MAX \in Nat
    /\ Time \subseteq Nat \ {0} /\ MaxId \in Nat

VARIABLES
    am,        \* the CAddrMan: nIdCount, mapInfo, mapAddr, vRandom and the tables
    nShuffled, \* iterations GetAddr_ has done; 0 when it is not running
    peersDat,  \* what peers.dat holds
    saved      \* history: what the tables held when peers.dat was written

vars == <<am, nShuffled, peersDat, saved>>

-----------------------------------------------------------------------------
(* The entries and their indexes                                           *)

Empty ==
    [nIdCount |-> 0, mapInfo |-> <<>>, mapAddr |-> <<>>, vRandom |-> <<>>,
     nTried |-> 0, vvTried |-> [k \in TriedBucket |-> <<>>],
     nNew |-> 0, vvNew |-> [b \in NewBucket |-> {}]]

Erase(f, x) == [y \in DOMAIN f \ {x} |-> f[y]]
Insert(f, x, v) == [y \in DOMAIN f \cup {x} |-> IF y = x THEN v ELSE f[y]]
MinOf(m, n) == IF m < n THEN m ELSE n

Find(n) == n \in DOMAIN am.mapAddr /\ am.mapAddr[n] \in DOMAIN am.mapInfo

\* The entry of a service has the same port.
Matches(a) == Find(netaddr[a]) /\ am.mapInfo[am.mapAddr[netaddr[a]]].addr = a

Create(s, a, src) ==
    [s EXCEPT !.nIdCount = @ + 1,
              !.mapInfo = Insert(@, s.nIdCount,
                  [addr |-> a, source |-> src, nLastSuccess |-> 0, nRefCount |-> 0,
                   fInTried |-> FALSE, nRandomPos |-> Len(s.vRandom)]),
              !.mapAddr = Insert(@, netaddr[a], s.nIdCount),
              !.vRandom = Append(@, s.nIdCount)]

\* Fault: the entries do not learn their new positions.
SwapRandomOnly(s, p, q) ==
    [s EXCEPT !.vRandom[p + 1] = s.vRandom[q + 1], !.vRandom[q + 1] = s.vRandom[p + 1]]

SwapRandom(s, p, q) ==
    [s EXCEPT !.mapInfo[s.vRandom[p + 1]].nRandomPos = q,
              !.mapInfo[s.vRandom[q + 1]].nRandomPos = p,
              !.vRandom[p + 1] = s.vRandom[q + 1],
              !.vRandom[q + 1] = s.vRandom[p + 1]]

\* An entry that no bucket holds any more is deleted.
Delete(s, id) ==
    LET t == SwapRandom(s, s.mapInfo[id].nRandomPos, Len(s.vRandom) - 1)
    IN  [t EXCEPT !.vRandom = SubSeq(@, 1, Len(@) - 1),
                  !.mapAddr = Erase(@, netaddr[s.mapInfo[id].addr]),
                  !.mapInfo = Erase(@, id),
                  !.nNew = @ - 1]

\* Remove one entry from bucket b: a terrible one, or the oldest of four drawn
\* at random, so any.
ShrinkNew(s, b, id) ==
    LET t == [s EXCEPT !.mapInfo[id].nRefCount = @ - 1]
    IN  [(IF t.mapInfo[id].nRefCount = 0 THEN Delete(t, id) ELSE t) EXCEPT !.vvNew[b] = @ \ {id}]

\* Fault: a full bucket is not shrunk.
InsertNewAlways(s, id, b) ==
    {[s EXCEPT !.mapInfo[id].nRefCount = IF id \in s.vvNew[b] THEN @ ELSE @ + 1,
               !.vvNew[b] = @ \cup {id}]}

\* The outcomes of putting entry id into bucket b.
InsertNew(s, id, b) ==
    IF id \in s.vvNew[b] THEN {s}
    ELSE LET t == [s EXCEPT !.mapInfo[id].nRefCount = @ + 1]
             room == IF Cardinality(s.vvNew[b]) = ADDRMAN_NEW_BUCKET_SIZE
                     THEN {ShrinkNew(t, b, v) : v \in s.vvNew[b]} ELSE {t}
         IN  {[r EXCEPT !.vvNew[b] = @ \cup {id}] : r \in room}

-----------------------------------------------------------------------------
(* Add_                                                                    *)

Unlocked == nShuffled = 0

AddUnknown(a, src) ==
    /\ Unlocked
    /\ ~Find(netaddr[a])
    /\ am.nIdCount < MaxId
    /\ am' \in InsertNew([Create(am, a, src) EXCEPT !.nNew = @ + 1],
                         am.nIdCount, GetNewBucket[<<a, src>>])
    /\ UNCHANGED <<nShuffled, peersDat, saved>>

\* An address that is known, with fresh information and luck: the entry keeps
\* the service it was created with.
AddKnown(a, src) ==
    /\ Unlocked
    /\ Find(netaddr[a])
    /\ LET id == am.mapAddr[netaddr[a]]
       IN  /\ ~am.mapInfo[id].fInTried
           /\ am.mapInfo[id].nRefCount # ADDRMAN_NEW_BUCKETS_PER_ADDRESS
           /\ am' \in InsertNew(am, id, GetNewBucket[<<am.mapInfo[id].addr, src>>])
    /\ UNCHANGED <<nShuffled, peersDat, saved>>

-----------------------------------------------------------------------------
(* Good_, MakeTried, SelectTried                                           *)

nInspect(s, kb) == MinOf(ADDRMAN_TRIED_ENTRIES_INSPECT_ON_EVICT, Len(s.vvTried[kb]))

\* The random numbers of SelectTried: in round i a position from i on.
Draws(s, kb) ==
    {d \in [0 .. nInspect(s, kb) - 1 -> 0 .. Len(s.vvTried[kb]) - 1] : \A i \in DOMAIN d : d[i] >= i}

\* Round i: the entry at nPos and the one at i - 1 change places, and the entry is
\* remembered with the position it was drawn from if its success is the earliest.
SelectRound(s, r, i, nPos) ==
    LET nTemp == r.vTried[nPos + 1]
        older == \/ r.nOldest = -1
                 \/ s.mapInfo[nTemp].nLastSuccess < s.mapInfo[r.nOldest].nLastSuccess
    IN  [vTried     |-> [r.vTried EXCEPT ![nPos + 1] = r.vTried[i], ![i] = nTemp],
         nOldest    |-> IF older THEN nTemp ELSE r.nOldest,
         nOldestPos |-> IF older THEN nPos ELSE r.nOldestPos]

\* Shuffle the first entries of the bucket and look for the oldest among them.
SelectTried(s, kb, d) ==
    LET round[i \in 0 .. nInspect(s, kb)] ==
            IF i = 0 THEN [vTried |-> s.vvTried[kb], nOldest |-> -1, nOldestPos |-> -1]
            ELSE SelectRound(s, round[i - 1], i, d[i - 1])
    IN  round[nInspect(s, kb)]

\* Fault: the entry is counted out once per bucket it leaves.
LeaveNewEach(s, id) ==
    LET n == Cardinality({b \in NewBucket : id \in s.vvNew[b]})
    IN  [s EXCEPT !.vvNew = [b \in NewBucket |-> @[b] \ {id}],
                  !.mapInfo[id].nRefCount = @ - n,
                  !.nNew = @ - n]

\* Entry id leaves all its new buckets.
LeaveNew(s, id) ==
    [s EXCEPT !.vvNew = [b \in NewBucket |-> @[b] \ {id}],
              !.mapInfo[id].nRefCount = @ - Cardinality({b \in NewBucket : id \in s.vvNew[b]}),
              !.nNew = @ - 1]

\* Fault: the evicted entry is not put back into a new bucket.
EvictTriedLost(s, id, kb, sel, nOrigin) ==
    LET old == sel.vTried[sel.nOldestPos + 1]
    IN  [s EXCEPT !.vvTried[kb] = [sel.vTried EXCEPT ![sel.nOldestPos + 1] = id],
                  !.mapInfo = Erase(@, old),
                  !.mapAddr = Erase(@, netaddr[s.mapInfo[old].addr])]

\* Entry id takes the place of the selected one, which goes back to its new
\* bucket if there is room, otherwise to the one id came from.
EvictTried(s, id, kb, sel, nOrigin) ==
    LET old == sel.vTried[sel.nOldestPos + 1]
        nUBucket == GetNewBucket[<<s.mapInfo[old].addr, s.mapInfo[old].source>>]
        to == IF Cardinality(s.vvNew[nUBucket]) < ADDRMAN_NEW_BUCKET_SIZE THEN nUBucket ELSE nOrigin
    IN  [s EXCEPT !.vvTried[kb] = [sel.vTried EXCEPT ![sel.nOldestPos + 1] = id],
                  !.mapInfo[old].fInTried = FALSE,
                  !.mapInfo[old].nRefCount = 1,
                  !.mapInfo[id].fInTried = TRUE,
                  !.vvNew[to] = @ \cup {old},
                  !.nNew = @ + 1]

\* The outcomes of moving entry id from new to tried.
MakeTried(s, id, nOrigin) ==
    LET t == LeaveNew(s, id)
        kb == GetTriedBucket[s.mapInfo[id].addr]
    IN  IF Len(t.vvTried[kb]) < ADDRMAN_TRIED_BUCKET_SIZE
        THEN {[t EXCEPT !.vvTried[kb] = Append(@, id), !.nTried = @ + 1, !.mapInfo[id].fInTried = TRUE]}
        ELSE {EvictTried(t, id, kb, SelectTried(t, kb, d), nOrigin) : d \in Draws(t, kb)}

\* A connection to a at nTime succeeded.
Good(a, nTime) ==
    /\ Unlocked
    /\ Matches(a)
    /\ LET id == am.mapAddr[netaddr[a]]
           s  == [am EXCEPT !.mapInfo[id].nLastSuccess = nTime]
           in == {b \in NewBucket : id \in am.vvNew[b]}
       IN  IF am.mapInfo[id].fInTried \/ in = {} THEN am' = s
           ELSE \E nOrigin \in in : am' \in MakeTried(s, id, nOrigin)
    /\ UNCHANGED <<nShuffled, peersDat, saved>>

-----------------------------------------------------------------------------
(* GetAddr_                                                                *)

nNodes == MinOf((ADDRMAN_GETADDR_MAX_PCT * Len(am.vRandom)) \div 100, ADDRMAN_GETADDR_MAX)

\* One iteration: a random entry comes to position nShuffled.
GetAddr ==
    /\ nShuffled < nNodes
    /\ \E nRndPos \in nShuffled .. Len(am.vRandom) - 1 : am' = SwapRandom(am, nShuffled, nRndPos)
    /\ nShuffled' = IF nShuffled + 1 = nNodes THEN 0 ELSE nShuffled + 1
    /\ UNCHANGED <<peersDat, saved>>

-----------------------------------------------------------------------------
(* peers.dat                                                               *)

Entry(info) == [addr |-> info.addr, source |-> info.source, nLastSuccess |-> info.nLastSuccess]

NewIds(s) == {id \in DOMAIN s.mapInfo : s.mapInfo[id].nRefCount # 0}
TriedIds(s) == {id \in DOMAIN s.mapInfo : s.mapInfo[id].fInTried}

\* The place of id when the set of ids is written in order.
Index(ids, id) == Cardinality({j \in ids : j < id})

\* Fault: the index of a new entry counts the tried entries before it.
mapUnkIdsAll(s, id) == Index(DOMAIN s.mapInfo, id)

mapUnkIds(s, id) == Index(NewIds(s), id)

\* The first n entries of ids, by their place.
Listed(s, ids, n) ==
    [i \in 0 .. MinOf(n, Cardinality(ids)) - 1 |->
        Entry(s.mapInfo[CHOOSE id \in ids : Index(ids, id) = i])]

Serialize(s) ==
    [new     |-> Listed(s, NewIds(s), s.nNew),
     tried   |-> Listed(s, TriedIds(s), s.nTried),
     buckets |-> [b \in NewBucket |-> {mapUnkIds(s, id) : id \in s.vvNew[b]}]]

\* The tried entries of the file that find room in their bucket.
Kept(f) ==
    {i \in DOMAIN f.tried :
        Cardinality({j \in DOMAIN f.tried : j < i /\
            GetTriedBucket[f.tried[j].addr] = GetTriedBucket[f.tried[i].addr]}) < ADDRMAN_TRIED_BUCKET_SIZE}

\* Index i of bucket b is taken while the entry is in few enough buckets before b.
Referenced(f, b, i) ==
    i \in f.buckets[b] /\ Cardinality({c \in NewBucket : BucketOrder[c] < BucketOrder[b] /\ i \in f.buckets[c]})
                              < ADDRMAN_NEW_BUCKETS_PER_ADDRESS

\* New entries are numbered from 0, tried entries after them.
EntryAt(f, id) ==
    LET n == Cardinality(DOMAIN f.new)
    IN  IF id < n THEN f.new[id]
        ELSE f.tried[CHOOSE i \in Kept(f) : Index(Kept(f), i) = id - n]

Unserialize(f) ==
    LET n == Cardinality(DOMAIN f.new)
        k == Cardinality(Kept(f))
        inBucket(kb) == {id \in n .. n + k - 1 : GetTriedBucket[EntryAt(f, id).addr] = kb}
    IN  [nIdCount |-> n + k,
         mapInfo  |-> [id \in 0 .. n + k - 1 |->
            [addr |-> EntryAt(f, id).addr, source |-> EntryAt(f, id).source,
             nLastSuccess |-> EntryAt(f, id).nLastSuccess,
             nRefCount |-> IF id < n THEN Cardinality({b \in NewBucket : Referenced(f, b, id)}) ELSE 0,
             fInTried |-> id >= n, nRandomPos |-> id]],
         mapAddr  |-> [x \in {netaddr[EntryAt(f, id).addr] : id \in 0 .. n + k - 1} |->
            CHOOSE id \in 0 .. n + k - 1 : /\ netaddr[EntryAt(f, id).addr] = x
                                           /\ \A j \in id + 1 .. n + k - 1 : netaddr[EntryAt(f, j).addr] # x],
         vRandom  |-> [p \in 1 .. n + k |-> p - 1],
         nTried   |-> k,
         vvTried  |-> [kb \in TriedBucket |->
            [p \in 1 .. Cardinality(inBucket(kb)) |->
                CHOOSE id \in inBucket(kb) : Index(inBucket(kb), id) = p - 1]],
         nNew     |-> n,
         vvNew    |-> [b \in NewBucket |-> {i \in f.buckets[b] : Referenced(f, b, i)}]]

\* What the tables say: who is tried, who is in which new bucket, since when.
Content(s) ==
    [tried |-> {Entry(s.mapInfo[id]) : id \in TriedIds(s)},
     new   |-> [b \in NewBucket |-> {Entry(s.mapInfo[id]) : id \in s.vvNew[b]}]]

\* DumpAddresses: written to a temporary file and renamed, so all or nothing.
DumpAddresses ==
    /\ Unlocked
    /\ peersDat' = Serialize(am)
    /\ saved' = Content(am)
    /\ UNCHANGED <<am, nShuffled>>

\* The process ends, in an operation or not, and the next one reads peers.dat.
Restart ==
    /\ am' = Unserialize(peersDat)
    /\ nShuffled' = 0
    /\ UNCHANGED <<peersDat, saved>>

-----------------------------------------------------------------------------

Init ==
    /\ am = Empty
    /\ nShuffled = 0
    /\ peersDat = Serialize(Empty)
    /\ saved = Content(Empty)

Next ==
    \/ \E a \in Service, src \in Source : AddUnknown(a, src) \/ AddKnown(a, src)
    \/ \E a \in Service, t \in Time : Good(a, t)
    \/ GetAddr
    \/ DumpAddresses
    \/ Restart

Spec == Init /\ [][Next]_vars

-----------------------------------------------------------------------------
(* Properties                                                              *)

\* The counters never go below zero, no entry is referenced more often than
\* ADDRMAN_NEW_BUCKETS_PER_ADDRESS allows (Check_, code -3), ids are below nIdCount.
TypeOK ==
    /\ am.nIdCount \in Nat /\ am.nTried \in Nat /\ am.nNew \in Nat
    /\ DOMAIN am.mapInfo \subseteq 0 .. am.nIdCount - 1
    /\ \A id \in DOMAIN am.mapInfo :
          am.mapInfo[id] \in [addr : Service, source : Source, nLastSuccess : Nat,
                              nRefCount : 0 .. ADDRMAN_NEW_BUCKETS_PER_ADDRESS,
                              fInTried : BOOLEAN, nRandomPos : Nat]
    /\ am.vRandom \in Seq(Nat)
    /\ am.vvTried \in [TriedBucket -> Seq(Nat)]
    /\ am.vvNew \in [NewBucket -> SUBSET Nat]
    /\ nShuffled \in Nat

\* mapAddr and vRandom index exactly the entries (Check_, codes -5, -7, -14).
Indexed ==
    /\ Len(am.vRandom) = am.nTried + am.nNew
    /\ Len(am.vRandom) = Cardinality(DOMAIN am.mapInfo)
    /\ \A id \in DOMAIN am.mapInfo :
          LET info == am.mapInfo[id]
          IN  /\ Find(netaddr[info.addr]) /\ am.mapAddr[netaddr[info.addr]] = id
              /\ info.nRandomPos < Len(am.vRandom) /\ am.vRandom[info.nRandomPos + 1] = id

\* The places of an entry in the tried buckets.
TriedPlaces(id) ==
    {x \in TriedBucket \X (1 .. ADDRMAN_TRIED_BUCKET_SIZE) :
        x[2] \in DOMAIN am.vvTried[x[1]] /\ am.vvTried[x[1]][x[2]] = id}

\* Every entry is in tried, once, or in as many new buckets as its nRefCount
\* says, and the counts are right (codes -1 to -4 and -9 to -15).
Placed ==
    /\ am.nTried = Cardinality(TriedIds(am))
    /\ am.nNew = Cardinality(DOMAIN am.mapInfo \ TriedIds(am))
    /\ \A id \in TriedIds(am) :
          /\ am.mapInfo[id].nLastSuccess # 0 /\ am.mapInfo[id].nRefCount = 0
          /\ \E x \in TriedBucket \X (1 .. ADDRMAN_TRIED_BUCKET_SIZE) : TriedPlaces(id) = {x}
    /\ \A id \in DOMAIN am.mapInfo \ TriedIds(am) :
          /\ am.mapInfo[id].nRefCount # 0
          /\ am.mapInfo[id].nRefCount = Cardinality({b \in NewBucket : id \in am.vvNew[b]})
    /\ \A kb \in TriedBucket : \A p \in DOMAIN am.vvTried[kb] : am.vvTried[kb][p] \in TriedIds(am)
    /\ \A b \in NewBucket : am.vvNew[b] \subseteq DOMAIN am.mapInfo \ TriedIds(am)

\* Check_() returns 0 after every operation, in any order, across restarts.
CheckOK == Indexed /\ Placed

\* "Only keep a limited number of addresses around": no bucket grows past its
\* size, also when a tried entry is evicted to "the new bucket nId came from
\* (there is certainly place there)".
BucketsBounded ==
    /\ \A b \in NewBucket : Cardinality(am.vvNew[b]) <= ADDRMAN_NEW_BUCKET_SIZE
    /\ \A kb \in TriedBucket : Len(am.vvTried[kb]) <= ADDRMAN_TRIED_BUCKET_SIZE

\* "They are never deleted while in the tried table, only possibly evicted back
\* to the new table" (ShrinkNew): while the process runs, an address that is
\* tried stays known.
TriedStaysKnown ==
    [][\/ \A id \in TriedIds(am) :
             id \in DOMAIN am'.mapInfo /\ am'.mapInfo[id].addr = am.mapInfo[id].addr
       \/ Restart]_vars

\* A restart, whenever it comes, brings back the tables as they were when
\* peers.dat was written: the renumbering of entries, the index of the buckets
\* and the limits lose nothing, and nobody's last success is forgotten.
RestartRestores == Content(Unserialize(peersDat)) = saved

=============================================================================
