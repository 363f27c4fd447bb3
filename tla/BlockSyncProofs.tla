--------------------------- MODULE BlockSyncProofs ---------------------------
(***************************************************************************)
(* Theorems about BlockSync, for any number of peers, any chain, and every *)
(* size of the window, of the messages and of the orphan pool.             *)
(***************************************************************************)
EXTENDS BlockSync, TLAPS, FiniteSetTheorems, SequenceTheorems, WellFoundedInduction

-----------------------------------------------------------------------------
(* The invariant                                                           *)

CNode ==
    [lastGetBlocks : Int \X Int, headers : SUBSET (0 .. Top), inv : SUBSET Block,
     blocks : Seq(Block), setInventoryKnown : SUBSET Block]

\* The best header, or the tip when there is none above it.
HeaderFront(H, best) == IF DOMAIN H = {} THEN best ELSE Max(DOMAIN H)

\* The headers reach from the tip to the front, which is at most one message
\* ahead of what backpressure allows.
HeadersOK(H, best) ==
    /\ H \in [DOMAIN H -> HeaderNode]
    /\ HeaderFront(H, best) \in best .. Top
    /\ DOMAIN H = (best + 1) .. HeaderFront(H, best)
    /\ HeaderFront(H, best) <= best + MaxAhead + HeadersLimit

\* A getheaders message under way starts at a known block or header, which was
\* within the limit of backpressure when it was sent.
NodesOK(nodes, front, best) ==
    /\ nodes \in [Peer -> CNode]
    /\ \A p \in Peer : \A tip \in nodes[p].headers : tip <= front /\ tip <= best + MaxAhead

\* The planner state: headers, request counter and requests.
PlannerOK(s, best) ==
    /\ s = State(s.H, s.n, s.node)
    /\ HeadersOK(s.H, best)
    /\ s.n = Cardinality(RequestedIn(s.H))
    /\ s.n <= Window
    /\ NodesOK(s.node, HeaderFront(s.H, best), best)

Types ==
    /\ nBestHeight \in 0 .. Top
    /\ nBlocksSinceRequest \in 0 .. PipelineBlocks - 1
    /\ mapOrphanBlocks \in BoundedSeq(Block, MaxOrphans)
    /\ vNodes \subseteq Peer
    /\ losses \in 0 .. MaxLosses

IInv ==
    /\ Types
    /\ PlannerOK(State(mapHeaders, g_nInFlight, node), nBestHeight)
    /\ OrphansWait

-----------------------------------------------------------------------------
(* Least and greatest elements                                             *)

\* A nonempty set of natural numbers has a least element.
LEMMA MinIs ==
    ASSUME NEW S, S \subseteq Nat, S # {}
    PROVE  Min(S) \in S /\ \A y \in S : Min(S) <= y
<1> DEFINE R == OpToRel(<, Nat)
<1>1. IsWellFoundedOn(R, Nat)
  BY NatLessThanWellFounded
<1>2. PICK x \in S : \A y \in S : ~(<<y, x>> \in R)
  <2> HIDE DEF R
  <2> QED BY <1>1, WFMin
<1>3. \A y \in S : x <= y
  <2>1. \A y \in S : y \in Nat /\ x \in Nat /\ ~(y < x)
    BY <1>2 DEF OpToRel
  <2> QED BY <2>1
<1> QED BY <1>3 DEF Min

\* A nonempty bounded set of natural numbers has a greatest element.
LEMMA MaxIs ==
    ASSUME NEW n \in Nat, NEW S, S \subseteq 0 .. n, S # {}
    PROVE  Max(S) \in S /\ \A y \in S : y <= Max(S)
<1> DEFINE T == {n - x : x \in S}
<1>1. T \subseteq Nat /\ T # {}
  <2>1. \A x \in S : x \in 0 .. n
    OBVIOUS
  <2>2. \A x \in S : n - x \in Nat
    BY <2>1
  <2> QED BY <2>2
<1>2. Min(T) \in T /\ \A y \in T : Min(T) <= y
  <2> HIDE DEF T
  <2> QED BY <1>1, MinIs
<1>3. PICK x \in S : Min(T) = n - x
  BY <1>2
<1>4. \A y \in S : x >= y
  BY <1>2, <1>3
<1>5. Max(S) \in S /\ \A y \in S : Max(S) >= y
  BY <1>4 DEF Max
<1> QED BY <1>5

\* The greatest number of an interval.
LEMMA MaxOfInterval ==
    ASSUME NEW a \in Int, NEW b \in Int, a <= b
    PROVE  Max(a .. b) = b
<1>1. b \in a .. b /\ \A y \in a .. b : b >= y
  OBVIOUS
<1>2. Max(a .. b) \in a .. b /\ \A y \in a .. b : Max(a .. b) >= y
  BY <1>1 DEF Max
<1> QED BY <1>1, <1>2

\* Sets of heights are finite.
LEMMA BlocksFinite ==
    ASSUME NEW n \in Nat, NEW S, S \subseteq 0 .. n
    PROVE  IsFiniteSet(S) /\ Cardinality(S) \in Nat
<1>1. IsFiniteSet(0 .. n)
  BY FS_Interval
<1>2. IsFiniteSet(S)
  BY <1>1, FS_Subset
<1> QED BY <1>2, FS_CardinalityType

\* InOrder lists members of the set.
LEMMA InOrderIn ==
    ASSUME NEW n \in Nat, NEW S, S \subseteq 0 .. n
    PROVE  InOrder(S) \in [1 .. Cardinality(S) -> S]
<1> DEFINE Rank(x) == Cardinality({y \in S : y < x})
<1> SUFFICES ASSUME NEW i \in 1 .. Cardinality(S)
             PROVE  Min({x \in S : Rank(x) >= i - 1}) \in S
  BY DEF InOrder
<1>1. IsFiniteSet(S) /\ Cardinality(S) \in Nat /\ S # {}
  <2>1. IsFiniteSet(S) /\ Cardinality(S) \in Nat
    BY BlocksFinite
  <2>2. S = {} => Cardinality(S) = 0
    BY FS_EmptySet
  <2> QED BY <2>1, <2>2
<1>2. Max(S) \in S /\ \A y \in S : y <= Max(S)
  BY <1>1, MaxIs
<1> DEFINE m == Max(S)
<1>9. m \in S /\ \A y \in S : y <= m
  BY <1>2
<1> HIDE DEF m
<1> DEFINE below == {y \in S : y < m}
           T == {x \in S : Rank(x) >= i - 1}
<1>0. \A y \in S : y \in Nat
  OBVIOUS
<1>3. below = S \ {m}
  <2>1. \A y \in S : y < m <=> y # m
    BY <1>0, <1>9
  <2> QED BY <1>9, <2>1
<1>4. Rank(m) = Cardinality(S) - 1
  BY <1>1, <1>3, <1>9, FS_RemoveElement
<1> HIDE DEF Rank
<1>5. m \in T
  BY <1>1, <1>4, <1>9
<1>6. T \subseteq S
  OBVIOUS
<1>8. T \subseteq Nat
  BY <1>0, <1>6
<1> HIDE DEF T
<1>7. Min(T) \in T
  BY <1>5, <1>8, MinIs
<1> QED BY <1>6, <1>7 DEF T

-----------------------------------------------------------------------------
(* One peer                                                                *)

\* The limits, as assumed.
LEMMA Sizes ==
    /\ Top \in Nat \ {0} /\ Window \in Nat \ {0} /\ HeadersLimit \in Nat \ {0}
    /\ InvLimit \in Nat \ {0} /\ MaxOrphans \in Nat \ {0} /\ PipelineBlocks \in Nat \ {0}
    /\ LowWater \in Nat /\ MaxAhead \in Nat /\ MaxLosses \in Nat
    /\ \A h \in Block : h \in 0 .. Top /\ h \in Nat
  BY BlockSyncConstants DEF Block

\* Requests for blocks: the getheaders messages under way stay as they are.
LEMMA SendGetBlocksOK ==
    ASSUME NEW nd \in CNode, NEW begin \in Int, NEW end \in Int
    PROVE  /\ SendGetBlocks(nd, begin, end) \in CNode
           /\ SendGetBlocks(nd, begin, end).headers = nd.headers
           /\ PushGetBlocks(nd, begin, end) \in CNode
           /\ PushGetBlocks(nd, begin, end).headers = nd.headers
<1> DEFINE list == {h \in Block : h > begin /\ h <= begin + InvLimit /\ (end # 0 => h < end)}
<1>1. list \subseteq Block
  OBVIOUS
<1>2. SendGetBlocks(nd, begin, end) =
        [nd EXCEPT !.lastGetBlocks = <<begin, end>>,
                   !.inv = @ \cup (list \ nd.setInventoryKnown),
                   !.setInventoryKnown = @ \cup list]
  BY DEF SendGetBlocks
<1> HIDE DEF list
<1>3. /\ SendGetBlocks(nd, begin, end) \in CNode
      /\ SendGetBlocks(nd, begin, end).headers = nd.headers
  <2>1. /\ nd.inv \cup (list \ nd.setInventoryKnown) \subseteq Block
        /\ nd.setInventoryKnown \cup list \subseteq Block
    BY <1>1 DEF CNode
  <2>2. <<begin, end>> \in Int \X Int
    OBVIOUS
  <2> QED BY <1>2, <2>1, <2>2 DEF CNode
<1> QED BY <1>3 DEF PushGetBlocks

\* AskFor asks for blocks only.
LEMMA AskForOK ==
    ASSUME NEW nd \in CNode, NEW S, S \subseteq Block
    PROVE  AskFor(nd, S) \in CNode /\ AskFor(nd, S).headers = nd.headers
<1> DEFINE new == S \ Range(nd.blocks)
<1>1. new \subseteq Block /\ new \subseteq 0 .. Top
  BY Sizes
<1>2. AskFor(nd, S) = [nd EXCEPT !.blocks = @ \o InOrder(new)]
  BY DEF AskFor
<1> HIDE DEF new
<1>3. Cardinality(new) \in Nat /\ InOrder(new) \in [1 .. Cardinality(new) -> new]
  BY <1>1, Sizes, BlocksFinite, InOrderIn
<1>4. InOrder(new) \in Seq(Block)
  <2>1. InOrder(new) \in [1 .. Cardinality(new) -> Block]
    BY <1>1, <1>3
  <2> QED BY <1>3, <2>1, SeqDef
<1>5. nd.blocks \in Seq(Block)
  BY DEF CNode
<1>6. nd.blocks \o InOrder(new) \in Seq(Block)
  BY <1>4, <1>5
<1> QED BY <1>2, <1>6 DEF CNode

\* The arrival of a block leaves the getheaders messages as they are.
LEMMA FirstArrivesOK ==
    ASSUME NEW nd \in CNode, nd.blocks # <<>>
    PROVE  FirstArrives(nd) \in CNode /\ FirstArrives(nd).headers = nd.headers
<1>1. nd.blocks \in Seq(Block)
  BY DEF CNode
<1>2. Tail(nd.blocks) \in Seq(Block)
  BY <1>1
<1> QED BY <1>2 DEF FirstArrives, CNode

\* A getheaders message starts where it was asked to.
LEMMA SendGetHeadersOK ==
    ASSUME NEW nd \in CNode, NEW tip \in 0 .. Top
    PROVE  /\ SendGetHeaders(nd, tip) \in CNode
           /\ SendGetHeaders(nd, tip).headers = nd.headers \cup {tip}
           /\ PushGetHeaders(nd, tip) \in CNode
           /\ PushGetHeaders(nd, tip).headers \subseteq nd.headers \cup {tip}
  BY DEF SendGetHeaders, PushGetHeaders, CNode

-----------------------------------------------------------------------------
(* The peers                                                               *)

\* One peer is replaced.
LEMMA OneNodeOK ==
    ASSUME NEW nodes, NEW front, NEW best, NodesOK(nodes, front, best),
           NEW p \in Peer, NEW nd \in CNode,
           \A tip \in nd.headers : tip <= front /\ tip <= best + MaxAhead
    PROVE  NodesOK([nodes EXCEPT ![p] = nd], front, best)
  BY DEF NodesOK

\* The front and the tip only rise.
LEMMA NodesKept ==
    ASSUME NEW nodes, NEW front \in Int, NEW best \in Int, NodesOK(nodes, front, best),
           NEW f \in Int, NEW b \in Int, front <= f, best <= b
    PROVE  NodesOK(nodes, f, b)
<1>1. nodes \in [Peer -> CNode]
  BY DEF NodesOK
<1>2. \A p \in Peer : \A tip \in nodes[p].headers : tip \in Int
  BY <1>1 DEF CNode
<1> QED BY <1>1, <1>2, Sizes DEF NodesOK

\* Headers up to f have f as their front.
LEMMA FrontIs ==
    ASSUME NEW best \in 0 .. Top, NEW f \in best .. Top, NEW H, DOMAIN H = (best + 1) .. f
    PROVE  HeaderFront(H, best) = f
<1>1. best \in Int /\ f \in Int /\ best <= f
  BY Sizes
<1>2. CASE best = f
  <2>1. DOMAIN H = {}
    BY <1>1, <1>2
  <2> QED BY <1>2, <2>1 DEF HeaderFront
<1>3. CASE best < f
  <2>1. DOMAIN H # {}
    BY <1>1, <1>3
  <2>2. Max((best + 1) .. f) = f
    BY <1>1, <1>3, MaxOfInterval
  <2> QED BY <2>1, <2>2 DEF HeaderFront
<1> QED BY <1>1, <1>2, <1>3

\* getheaders messages start at the front, and only within the limit.
LEMMA RequestRefillOK ==
    ASSUME NEW nodes, NEW R, NEW H, NEW best \in 0 .. Top, HeadersOK(H, best),
           NodesOK(nodes, HeaderFront(H, best), best)
    PROVE  NodesOK(RequestRefill(nodes, R, H, best), HeaderFront(H, best), best)
<1> DEFINE f == HeaderFront(H, best)
<1>1. f \in best .. Top /\ f \in 0 .. Top /\ f \in Int /\ best \in Int
  BY Sizes DEF HeadersOK
<1>2. CASE FarAhead(H, best)
  BY <1>2 DEF RequestRefill
<1>3. CASE ~FarAhead(H, best)
  <2>1. RequestRefill(nodes, R, H, best) =
          [p \in Peer |-> IF p \in R THEN PushGetHeaders(nodes[p], f) ELSE nodes[p]]
    BY <1>3 DEF RequestRefill, HeaderFront
  <2>2. f <= best + MaxAhead
    <3>1. CASE DOMAIN H = {}
      BY <1>1, <3>1, Sizes DEF HeaderFront
    <3>2. CASE DOMAIN H # {}
      <4>1. f = Max(DOMAIN H)
        BY <3>2 DEF HeaderFront
      <4>2. ~(f - best > MaxAhead)
        BY <1>3, <3>2, <4>1 DEF FarAhead
      <4> HIDE DEF f
      <4> QED BY <1>1, <4>2, Sizes
    <3> QED BY <3>1, <3>2
  <2> HIDE DEF f
  <2>3. nodes \in [Peer -> CNode] /\ \A p \in Peer : \A tip \in nodes[p].headers : tip <= f /\ tip <= best + MaxAhead
    BY DEF NodesOK, f
  <2>4. ASSUME NEW p \in Peer
        PROVE  /\ PushGetHeaders(nodes[p], f) \in CNode
               /\ \A tip \in PushGetHeaders(nodes[p], f).headers : tip <= f /\ tip <= best + MaxAhead
    <3>1. nodes[p] \in CNode
      BY <2>3
    <3>2. /\ PushGetHeaders(nodes[p], f) \in CNode
          /\ PushGetHeaders(nodes[p], f).headers \subseteq nodes[p].headers \cup {f}
      BY <1>1, <3>1, SendGetHeadersOK
    <3>3. \A tip \in nodes[p].headers \cup {f} : tip <= f /\ tip <= best + MaxAhead
      BY <1>1, <2>2, <2>3
    <3> QED BY <3>2, <3>3
  <2>5. NodesOK(RequestRefill(nodes, R, H, best), f, best)
    BY <2>1, <2>3, <2>4 DEF NodesOK
  <2> QED BY <2>5 DEF f
<1> QED BY <1>2, <1>3

\* The refill asks for headers only within the backpressure limit.
LEMMA PipelineRefillOK ==
    ASSUME NEW nodes, NEW best \in 0 .. Top, NEW front \in best .. Top, NodesOK(nodes, front, best)
    PROVE  NodesOK(PipelineRefill(nodes, best), front, best)
<1>1. nodes \in [Peer -> CNode] /\ \A p \in Peer : \A tip \in nodes[p].headers : tip <= front /\ tip <= best + MaxAhead
  BY DEF NodesOK
<1>2. best \in Int /\ best <= front /\ best <= best + MaxAhead
  BY Sizes
<1>3. ASSUME NEW p \in Peer
      PROVE  /\ SendGetHeaders(SendGetBlocks(nodes[p], best, 0), best) \in CNode
             /\ \A tip \in SendGetHeaders(SendGetBlocks(nodes[p], best, 0), best).headers :
                   tip <= front /\ tip <= best + MaxAhead
  <2> DEFINE nd == SendGetBlocks(nodes[p], best, 0)
  <2>1. nodes[p] \in CNode
    BY <1>1
  <2>2. nd \in CNode /\ nd.headers = nodes[p].headers
    BY <1>2, <2>1, SendGetBlocksOK
  <2> HIDE DEF nd
  <2>3. SendGetHeaders(nd, best) \in CNode /\ SendGetHeaders(nd, best).headers = nodes[p].headers \cup {best}
    BY <2>2, SendGetHeadersOK
  <2>4. \A tip \in nodes[p].headers \cup {best} : tip <= front /\ tip <= best + MaxAhead
    BY <1>1, <1>2
  <2> QED BY <2>3, <2>4 DEF nd
<1> QED BY <1>1, <1>3 DEF PipelineRefill, NodesOK

-----------------------------------------------------------------------------
(* QueueBlocksParallel                                                     *)

\* Disjoint finite sets add up.
LEMMA DisjointUnion ==
    ASSUME NEW S, NEW T, IsFiniteSet(S), IsFiniteSet(T), S \cap T = {}
    PROVE  /\ IsFiniteSet(S \cup T)
           /\ Cardinality(S \cup T) = Cardinality(S) + Cardinality(T)
<1>1. Cardinality(S \cap T) = 0
  BY FS_EmptySet
<1>2. Cardinality(S) \in Nat /\ Cardinality(T) \in Nat
  BY FS_CardinalityType
<1>3. IsFiniteSet(S \cup T) /\ Cardinality(S \cup T) = Cardinality(S) + Cardinality(T) - Cardinality(S \cap T)
  BY FS_Union
<1> QED BY <1>1, <1>2, <1>3

\* The requests fit into the window: the last of them counts those below it.
LEMMA ToQueueFits ==
    ASSUME NEW best \in 0 .. Top, NEW H, DOMAIN H \subseteq 0 .. Top, NEW n \in 0 .. Window
    PROVE  /\ ToQueue(H, n, best) \subseteq DOMAIN H
           /\ n + Cardinality(ToQueue(H, n, best)) <= Window
<1> DEFINE need == {h \in GetDownloadPath(H, best) : H[h] # "requested"}
           Q == ToQueue(H, n, best)
           below(h) == {g \in need : g < h}
<1>1. need \subseteq DOMAIN H /\ need \subseteq 0 .. Top
  BY DEF GetDownloadPath
<1>2. Q \subseteq need /\ \A h \in Q : n + Cardinality(below(h)) < Window
  BY DEF ToQueue
<1> HIDE DEF need, Q
<1>3. Q \subseteq 0 .. Top
  BY <1>1, <1>2
<1>4. n + Cardinality(Q) <= Window
  <2>1. CASE Q = {}
    <3>1. Cardinality(Q) = 0
      BY <2>1, FS_EmptySet
    <3> QED BY <3>1, Sizes
  <2>2. CASE Q # {}
    <3> DEFINE m == Max(Q)
               B == below(m)
    <3>1. m \in Q /\ \A y \in Q : y <= m
      BY <1>3, <2>2, MaxIs, Sizes
    <3> HIDE DEF m
    <3>2. n + Cardinality(B) < Window
      BY <1>2, <3>1
    <3>3. B \subseteq 0 .. Top /\ m \notin B
      BY <1>1, <1>3, <3>1
    <3>4. Q \subseteq B \cup {m}
      <4>1. \A y \in Q : y \in need /\ (y = m \/ y < m)
        <5>1. \A y \in Q : y \in Int
          BY <1>3
        <5> QED BY <1>2, <3>1, <5>1
      <4> QED BY <4>1
    <3> HIDE DEF B
    <3>5. IsFiniteSet(B) /\ Cardinality(B) \in Nat
      BY <3>3, BlocksFinite, Sizes
    <3>6. IsFiniteSet(B \cup {m}) /\ Cardinality(B \cup {m}) = Cardinality(B) + 1
      BY <3>3, <3>5, FS_AddElement
    <3>7. Cardinality(Q) <= Cardinality(B) + 1 /\ Cardinality(Q) \in Nat
      <4>1. Cardinality(Q) <= Cardinality(B \cup {m})
        BY <3>4, <3>6, FS_Subset
      <4>2. Cardinality(Q) \in Nat
        BY <1>3, BlocksFinite, Sizes
      <4> QED BY <3>6, <4>1, <4>2
    <3> QED BY <3>2, <3>5, <3>7, Sizes
  <2> QED BY <2>1, <2>2
<1> QED BY <1>1, <1>2, <1>4 DEF Q

\* The window is filled: the counter stays exact, and the headers keep their place.
LEMMA QueueOK ==
    ASSUME vNodes \subseteq Peer, NEW best \in 0 .. Top, NEW s, PlannerOK(s, best),
           NEW t \in QueueBlocksParallel(s, best)
    PROVE  PlannerOK(t, best) /\ DOMAIN t.H = DOMAIN s.H
<1>1. CASE vNodes = {}
  BY <1>1 DEF QueueBlocksParallel
<1>2. CASE vNodes # {}
  <2> DEFINE Q == ToQueue(s.H, s.n, best)
             Req == RequestedIn(s.H)
             old == {h \in Q : s.H[h] = "old"}
  <2>1. PICK f \in [Q -> vNodes], keep \in {{}, old} : t = Requested(s, Q, f, keep)
    <3>1. t \in {Requested(s, Q, f, keep) : f \in [Q -> vNodes], keep \in {{}, old}}
      BY <1>2 DEF QueueBlocksParallel
    <3> HIDE DEF Q, old
    <3> QED BY <3>1
  <2>2. /\ t = State(t.H, t.n, t.node)
        /\ t.H = [h \in DOMAIN s.H |->
                        IF h \in Q THEN IF h \in keep THEN "old" ELSE "requested" ELSE s.H[h]]
        /\ t.n = s.n + Cardinality(Q \ Req)
        /\ t.node = [p \in Peer |-> AskFor(s.node[p], {h \in Q : f[h] = p})]
    <3> HIDE DEF Q
    <3>1. CountNewRequests(s.H, s.n, Q) = s.n + Cardinality(Q \ Req)
      BY DEF CountNewRequests
    <3> HIDE DEF Req
    <3> QED BY <2>1, <3>1 DEF State, Requested
  <2>3. /\ HeadersOK(s.H, best) /\ s.n = Cardinality(Req) /\ s.n <= Window
        /\ NodesOK(s.node, HeaderFront(s.H, best), best)
    BY DEF PlannerOK
  <2>4. DOMAIN s.H \subseteq Block /\ DOMAIN s.H \subseteq 0 .. Top /\ s.H \in [DOMAIN s.H -> HeaderNode]
    BY <2>3, Sizes DEF HeadersOK, Block
  <2>5. Req \subseteq DOMAIN s.H /\ IsFiniteSet(Req) /\ Cardinality(Req) \in Nat /\ s.n \in 0 .. Window
    <3>1. Req \subseteq DOMAIN s.H
      BY DEF RequestedIn
    <3>2. IsFiniteSet(Req) /\ Cardinality(Req) \in Nat
      BY <2>4, <3>1, BlocksFinite, Sizes
    <3> QED BY <2>3, <3>1, <3>2, Sizes
  <2>6. Q \subseteq DOMAIN s.H /\ s.n + Cardinality(Q) <= Window
    BY <2>4, <2>5, ToQueueFits
  <2> HIDE DEF Q
  <2>7. DOMAIN t.H = DOMAIN s.H
    BY <2>2
  <2>8. HeadersOK(t.H, best)
    <3>1. HeaderFront(t.H, best) = HeaderFront(s.H, best)
      BY <2>7 DEF HeaderFront
    <3>2. t.H \in [DOMAIN t.H -> HeaderNode]
      BY <2>2, <2>4, <2>7 DEF HeaderNode
    <3> QED BY <2>3, <2>7, <3>1, <3>2 DEF HeadersOK
  <2>9. RequestedIn(t.H) = Req \cup (Q \ Req)
    <3>1. \A h \in DOMAIN s.H : t.H[h] # "new" <=> (h \in Q \/ s.H[h] # "new")
      BY <2>2
    <3> QED BY <2>6, <2>7, <3>1 DEF RequestedIn
  <2> HIDE DEF Req
  <2>10. /\ IsFiniteSet(Q) /\ Cardinality(Q) \in Nat /\ IsFiniteSet(Q \ Req)
         /\ Cardinality(Q \ Req) \in Nat /\ Cardinality(Q \ Req) <= Cardinality(Q)
    <3>1. IsFiniteSet(Q) /\ Cardinality(Q) \in Nat
      BY <2>4, <2>6, BlocksFinite, Sizes
    <3> QED BY <3>1, FS_Subset, FS_CardinalityType
  <2>11. t.n = Cardinality(RequestedIn(t.H)) /\ t.n <= Window
    <3>1. Cardinality(Req \cup (Q \ Req)) = Cardinality(Req) + Cardinality(Q \ Req)
      BY <2>5, <2>10, DisjointUnion
    <3>2. t.n = s.n + Cardinality(Q \ Req)
      BY <2>2
    <3>3. t.n = Cardinality(RequestedIn(t.H))
      BY <2>3, <2>9, <3>1, <3>2
    <3>4. t.n <= Window
      BY <2>5, <2>6, <2>10, <3>2, Sizes
    <3> QED BY <3>3, <3>4
  <2>12. NodesOK(t.node, HeaderFront(t.H, best), best)
    <3> DEFINE front == HeaderFront(s.H, best)
    <3>1. front = HeaderFront(t.H, best)
      BY <2>7 DEF HeaderFront
    <3>2. ASSUME NEW p \in Peer
          PROVE  t.node[p] \in CNode /\ t.node[p].headers = s.node[p].headers
      <4> DEFINE S == {h \in Q : f[h] = p}
      <4>1. S \subseteq Block
        BY <2>4, <2>6
      <4> HIDE DEF S
      <4>2. s.node[p] \in CNode
        BY <2>3 DEF NodesOK
      <4>3. AskFor(s.node[p], S) \in CNode /\ AskFor(s.node[p], S).headers = s.node[p].headers
        BY <4>1, <4>2, AskForOK
      <4>4. t.node[p] = AskFor(s.node[p], S)
        BY <2>2 DEF S
      <4> QED BY <4>3, <4>4
    <3>3. t.node \in [Peer -> CNode]
      BY <2>2, <3>2
    <3>4. \A p \in Peer : \A tip \in t.node[p].headers : tip <= front /\ tip <= best + MaxAhead
      BY <2>3, <3>2 DEF NodesOK
    <3> QED BY <3>1, <3>3, <3>4 DEF NodesOK
  <2> QED BY <2>2, <2>7, <2>8, <2>11, <2>12 DEF PlannerOK
<1> QED BY <1>1, <1>2

-----------------------------------------------------------------------------
(* One lemma per action                                                    *)

\* What IInv says of the variables.
LEMMA IInvFacts ==
    ASSUME IInv
    PROVE  /\ nBestHeight \in 0 .. Top
           /\ HeadersOK(mapHeaders, nBestHeight)
           /\ g_nInFlight = Cardinality(RequestedIn(mapHeaders)) /\ g_nInFlight <= Window
           /\ HeaderFront(mapHeaders, nBestHeight) \in nBestHeight .. Top
           /\ NodesOK(node, HeaderFront(mapHeaders, nBestHeight), nBestHeight)
           /\ node \in [Peer -> CNode]
           /\ vNodes \subseteq Peer
  BY DEF IInv, Types, PlannerOK, State, HeadersOK, NodesOK

\* The parts of the planner invariant, put together.
LEMMA PlannerIs ==
    ASSUME NEW best, NEW H, NEW n, NEW nodes, HeadersOK(H, best),
           n = Cardinality(RequestedIn(H)), n <= Window, NodesOK(nodes, HeaderFront(H, best), best)
    PROVE  PlannerOK(State(H, n, nodes), best)
  BY DEF PlannerOK, State

\* The requests of a planner state are replaced.
LEMMA PlannerNodes ==
    ASSUME NEW best, NEW s, PlannerOK(s, best), NEW nodes, NodesOK(nodes, HeaderFront(s.H, best), best)
    PROVE  PlannerOK([s EXCEPT !.node = nodes], best) /\ [s EXCEPT !.node = nodes].H = s.H
<1>1. s = State(s.H, s.n, s.node)
  BY DEF PlannerOK
<1>2. [s EXCEPT !.node = nodes] = State(s.H, s.n, nodes)
  BY <1>1 DEF State
<1> QED BY <1>2 DEF PlannerOK, State

\* The planner state after a step.
LEMMA PlannerAfter ==
    ASSUME NEW s, SetState(s), PlannerOK(s, nBestHeight')
    PROVE  PlannerOK(State(mapHeaders, g_nInFlight, node), nBestHeight)'
  BY DEF SetState, PlannerOK, State

\* A step on the CNode of one peer, which leaves its getheaders messages alone.
LEMMA NodeStep ==
    ASSUME IInv, NEW p \in Peer, NEW nd \in CNode, nd.headers \subseteq node[p].headers,
           node' = [node EXCEPT ![p] = nd], UNCHANGED <<nBestHeight, mapHeaders, g_nInFlight>>
    PROVE  PlannerOK(State(mapHeaders, g_nInFlight, node), nBestHeight)'
<1> DEFINE front == HeaderFront(mapHeaders, nBestHeight)
<1>1. HeadersOK(mapHeaders, nBestHeight) /\ NodesOK(node, front, nBestHeight)
      /\ g_nInFlight = Cardinality(RequestedIn(mapHeaders)) /\ g_nInFlight <= Window
  BY IInvFacts
<1>2. \A tip \in nd.headers : tip <= front /\ tip <= nBestHeight + MaxAhead
  BY <1>1 DEF NodesOK
<1> HIDE DEF front
<1>3. NodesOK(node', front, nBestHeight)
  BY <1>1, <1>2, OneNodeOK
<1>4. PlannerOK(State(mapHeaders, g_nInFlight, node'), nBestHeight)
  BY <1>1, <1>3, PlannerIs DEF front
<1> QED BY <1>4

\* A CNode is deleted with all it was asked for.
LEMMA DisconnectKeeps ==
    ASSUME IInv, NEW p \in Peer, Disconnect(p)
    PROVE  IInv'
<1>1. NewNode \in CNode /\ NewNode.headers = {}
  BY DEF NewNode, CNode, NoGetBlocks
<1>2. PlannerOK(State(mapHeaders, g_nInFlight, node), nBestHeight)'
  BY <1>1, NodeStep DEF Disconnect, planner
<1>3. Types'
  BY Sizes DEF Disconnect, IInv, Types
<1>4. OrphansWait'
  BY DEF Disconnect, IInv, OrphansWait, Orphans
<1> QED BY <1>2, <1>3, <1>4 DEF IInv

\* The version handler.
LEMMA VersionKeeps ==
    ASSUME IInv, NEW p \in Peer, Version(p)
    PROVE  IInv'
<1> DEFINE front == HeaderFront(mapHeaders, nBestHeight)
           nd == PushGetBlocks(node[p], nBestHeight, 0)
           nodes == [node EXCEPT ![p] = nd]
<1>1. /\ HeadersOK(mapHeaders, nBestHeight) /\ NodesOK(node, front, nBestHeight)
      /\ g_nInFlight = Cardinality(RequestedIn(mapHeaders)) /\ g_nInFlight <= Window
      /\ nBestHeight \in 0 .. Top /\ node[p] \in CNode
  BY IInvFacts
<1>2. nd \in CNode /\ nd.headers = node[p].headers
  <2>1. nBestHeight \in Int /\ 0 \in Int
    BY <1>1
  <2> QED BY <1>1, <2>1, SendGetBlocksOK
<1>3. \A tip \in nd.headers : tip <= front /\ tip <= nBestHeight + MaxAhead
  BY <1>1, <1>2 DEF NodesOK
<1>4. node' = RequestRefill(nodes, {p}, mapHeaders, nBestHeight)
  BY DEF Version
<1> HIDE DEF nd
<1>5. NodesOK(nodes, front, nBestHeight)
  <2> HIDE DEF front
  <2> QED BY <1>1, <1>2, <1>3, OneNodeOK
<1> HIDE DEF nodes
<1>6. NodesOK(node', front, nBestHeight)
  BY <1>1, <1>4, <1>5, RequestRefillOK
<1>7. PlannerOK(State(mapHeaders, g_nInFlight, node'), nBestHeight)
  BY <1>1, <1>6, PlannerIs
<1>8. PlannerOK(State(mapHeaders, g_nInFlight, node), nBestHeight)'
  BY <1>7 DEF Version, planner
<1>9. Types'
  BY DEF Version, IInv, Types
<1>10. OrphansWait'
  BY DEF Version, IInv, OrphansWait, Orphans
<1> QED BY <1>8, <1>9, <1>10 DEF IInv

\* CSyncManager::Tick and the stall recovery.
LEMMA TickKeeps ==
    ASSUME IInv, NEW p \in Peer, NEW queue \in BOOLEAN, Tick(p, queue)
    PROVE  IInv'
<1> DEFINE nodes == RequestRefill(node, {p}, mapHeaders, nBestHeight)
           s0 == State(mapHeaders, g_nInFlight, nodes)
<1>1. PlannerOK(s0, nBestHeight)
  <2>1. NodesOK(nodes, HeaderFront(mapHeaders, nBestHeight), nBestHeight)
    BY IInvFacts, RequestRefillOK
  <2> HIDE DEF nodes
  <2> QED BY <2>1, IInvFacts, PlannerIs
<1>2. PICK s \in (IF queue THEN QueueBlocksParallel(s0, nBestHeight) ELSE {s0}) : SetState(s)
  BY DEF Tick
<1> HIDE DEF s0
<1>3. PlannerOK(s, nBestHeight)
  BY <1>1, <1>2, IInvFacts, QueueOK
<1>4. UNCHANGED <<nBestHeight, nBlocksSinceRequest, mapOrphanBlocks, vNodes, losses>>
  BY DEF Tick
<1>5. PlannerOK(State(mapHeaders, g_nInFlight, node), nBestHeight)'
  BY <1>2, <1>3, <1>4, PlannerAfter
<1>6. Types' /\ OrphansWait'
  BY <1>4 DEF IInv, Types, OrphansWait, Orphans
<1> QED BY <1>5, <1>6 DEF IInv

\* Requests grow old.
LEMMA TimePassesKeeps ==
    ASSUME IInv, TimePasses
    PROVE  IInv'
<1>1. UNCHANGED <<nBestHeight, g_nInFlight, nBlocksSinceRequest, mapOrphanBlocks, vNodes, node, losses>>
  BY DEF TimePasses
<1>2. mapHeaders' = [h \in DOMAIN mapHeaders |->
          IF mapHeaders[h] = "requested" THEN "old" ELSE mapHeaders[h]]
  BY DEF TimePasses
<1>3. DOMAIN mapHeaders' = DOMAIN mapHeaders
  BY <1>2
<1>4. HeaderFront(mapHeaders', nBestHeight) = HeaderFront(mapHeaders, nBestHeight)
  BY <1>3 DEF HeaderFront
<1>5. HeadersOK(mapHeaders', nBestHeight)
  <2>1. mapHeaders' \in [DOMAIN mapHeaders' -> HeaderNode]
    BY <1>2, <1>3, IInvFacts DEF HeadersOK, HeaderNode
  <2> QED BY <1>3, <1>4, <2>1, IInvFacts DEF HeadersOK
<1>6. RequestedIn(mapHeaders') = RequestedIn(mapHeaders)
  BY <1>2, <1>3 DEF RequestedIn
<1>7. PlannerOK(State(mapHeaders', g_nInFlight, node), nBestHeight)
  BY <1>4, <1>5, <1>6, IInvFacts, PlannerIs
<1>8. Types' /\ OrphansWait'
  BY <1>1 DEF IInv, Types, OrphansWait, Orphans
<1> QED BY <1>1, <1>7, <1>8 DEF IInv

\* The headers of a message that starts at a known block: they leave no hole, and
\* the front is at most one message past the limit.
LEMMA HeadersKeeps ==
    ASSUME IInv, NEW p \in Peer, NEW tip, Headers(p, tip)
    PROVE  IInv'
<1> DEFINE message == {h \in Block : h > tip /\ h <= tip + HeadersLimit}
           new == {h \in message : h > nBestHeight} \ DOMAIN mapHeaders
           H == [h \in DOMAIN mapHeaders \cup new |-> IF h \in new THEN "new" ELSE mapHeaders[h]]
           more == Cardinality(message) = HeadersLimit \/ new # {}
           got == [node EXCEPT ![p].headers = @ \ {tip}]
           s0 == State(H, g_nInFlight, got)
           f == HeaderFront(mapHeaders, nBestHeight)
           after(nodes) == ContinueHeaders(nodes, p, message, more, H)
<1>1. /\ tip \in node[p].headers
      /\ UNCHANGED <<nBestHeight, nBlocksSinceRequest, mapOrphanBlocks, vNodes, losses>>
  BY DEF Headers
<1>2. PICK s \in QueueBlocksParallel(s0, nBestHeight) : SetState([s EXCEPT !.node = after(s.node)])
  BY DEF Headers
<1>3. /\ nBestHeight \in 0 .. Top /\ f \in nBestHeight .. Top /\ HeadersOK(mapHeaders, nBestHeight)
      /\ DOMAIN mapHeaders = (nBestHeight + 1) .. f /\ f <= nBestHeight + MaxAhead + HeadersLimit
      /\ NodesOK(node, f, nBestHeight) /\ node[p] \in CNode
      /\ g_nInFlight = Cardinality(RequestedIn(mapHeaders)) /\ g_nInFlight <= Window
  BY IInvFacts DEF HeadersOK
<1>4. tip \in 0 .. Top /\ tip <= f /\ tip <= nBestHeight + MaxAhead
  BY <1>1, <1>3 DEF NodesOK, CNode
<1>5. /\ nBestHeight \in Nat /\ f \in Nat /\ tip \in Nat /\ nBestHeight <= f /\ f <= Top
      /\ HeadersLimit \in Nat /\ MaxAhead \in Nat /\ Top \in Nat /\ HeadersLimit > 0
  BY <1>3, <1>4, Sizes
<1> DEFINE last == IF tip + HeadersLimit <= Top THEN tip + HeadersLimit ELSE Top
           g == IF last <= f THEN f ELSE last
<1>6. /\ last \in Nat /\ g \in Nat /\ last <= g /\ f <= g /\ g <= Top /\ g \in nBestHeight .. Top
      /\ g <= nBestHeight + MaxAhead + HeadersLimit
  BY <1>3, <1>4, <1>5
<1>7. message = (tip + 1) .. last
  BY <1>4, <1>5 DEF Block
<1>8. DOMAIN mapHeaders \cup new = (nBestHeight + 1) .. g
  <2>1. new = {h \in (tip + 1) .. last : h > nBestHeight} \ ((nBestHeight + 1) .. f)
    BY <1>3, <1>7
  <2> HIDE DEF new
  <2> QED BY <1>3, <1>4, <1>5, <1>6, <2>1
<1>9. DOMAIN H = (nBestHeight + 1) .. g
  <2> HIDE DEF new
  <2> QED BY <1>8
<1>10. HeaderFront(H, nBestHeight) = g
  <2> HIDE DEF H, g
  <2> QED BY <1>3, <1>6, <1>9, FrontIs
<1>11. H \in [DOMAIN H -> HeaderNode]
  <2>1. mapHeaders \in [DOMAIN mapHeaders -> HeaderNode]
    BY <1>3 DEF HeadersOK
  <2> HIDE DEF new
  <2> QED BY <2>1 DEF HeaderNode
<1>12. RequestedIn(H) = RequestedIn(mapHeaders)
  <2>1. new \cap DOMAIN mapHeaders = {}
    OBVIOUS
  <2> HIDE DEF new
  <2> QED BY <2>1 DEF RequestedIn
<1> HIDE DEF H, new, last, message, g
<1>13. HeadersOK(H, nBestHeight)
  BY <1>6, <1>9, <1>10, <1>11 DEF HeadersOK
<1>14. NodesOK(got, g, nBestHeight)
  <2> DEFINE nd == [node[p] EXCEPT !.headers = @ \ {tip}]
  <2>1. nd \in CNode /\ nd.headers \subseteq node[p].headers
    BY <1>3 DEF CNode
  <2>2. got = [node EXCEPT ![p] = nd]
    OBVIOUS
  <2> HIDE DEF nd, got
  <2>3. \A t \in nd.headers : t <= f /\ t <= nBestHeight + MaxAhead
    BY <1>3, <2>1 DEF NodesOK
  <2> HIDE DEF f
  <2>4. NodesOK(got, f, nBestHeight)
    BY <1>3, <2>1, <2>2, <2>3, OneNodeOK
  <2> QED BY <1>5, <1>6, <2>4, NodesKept
<1> HIDE DEF got, f
<1>15. PlannerOK(s0, nBestHeight)
  BY <1>3, <1>10, <1>12, <1>13, <1>14, PlannerIs
<1>16. PlannerOK(s, nBestHeight) /\ DOMAIN s.H = DOMAIN H
  <2>1. s0.H = H
    BY DEF State
  <2> HIDE DEF s0
  <2> QED BY <1>2, <1>3, <1>15, <2>1, IInvFacts, QueueOK
<1>17. HeaderFront(s.H, nBestHeight) = g /\ NodesOK(s.node, g, nBestHeight)
  BY <1>10, <1>16 DEF HeaderFront, PlannerOK
<1>18. NodesOK(after(s.node), g, nBestHeight)
  <2>1. CASE more /\ ~FarAhead(H, nBestHeight)
    <3> DEFINE m == Max(message)
    <3>1. message # {}
      <4>1. message = {} => Cardinality(message) = 0
        BY FS_EmptySet
      <4>2. new \subseteq message
        BY DEF new
      <4> QED BY <1>5, <2>1, <4>1, <4>2
    <3>2. message \subseteq 0 .. Top
      BY Sizes DEF message
    <3>3. m \in message
      BY <1>5, <3>1, <3>2, MaxIs
    <3> HIDE DEF m
    <3>4. m \in 0 .. Top /\ m <= g
      BY <1>5, <1>6, <1>7, <3>2, <3>3
    <3>5. g <= nBestHeight + MaxAhead
      <4>1. CASE DOMAIN H = {}
        <5>1. g = nBestHeight
          BY <1>10, <4>1 DEF HeaderFront
        <5> QED BY <1>5, <5>1
      <4>2. CASE DOMAIN H # {}
        <5>1. Max(DOMAIN H) = g
          BY <1>10, <4>2 DEF HeaderFront
        <5>2. ~(g - nBestHeight > MaxAhead)
          BY <2>1, <4>2, <5>1 DEF FarAhead
        <5> QED BY <1>5, <1>6, <5>2
      <4> QED BY <4>1, <4>2
    <3> DEFINE nd == SendGetHeaders(s.node[p], m)
    <3>6. s.node[p] \in CNode /\ \A t \in s.node[p].headers : t <= g /\ t <= nBestHeight + MaxAhead
      BY <1>17 DEF NodesOK
    <3>7. nd \in CNode /\ nd.headers = s.node[p].headers \cup {m}
      BY <3>4, <3>6, SendGetHeadersOK
    <3>8. \A t \in nd.headers : t <= g /\ t <= nBestHeight + MaxAhead
      <4>1. m <= nBestHeight + MaxAhead
        BY <1>5, <1>6, <3>4, <3>5
      <4> HIDE DEF nd
      <4> QED BY <3>4, <3>6, <3>7, <4>1
    <3>9. after(s.node) = [s.node EXCEPT ![p] = nd]
      BY <2>1 DEF m, ContinueHeaders
    <3> HIDE DEF nd, after
    <3> QED BY <1>17, <3>7, <3>8, <3>9, OneNodeOK
  <2>2. CASE ~(more /\ ~FarAhead(H, nBestHeight)) /\ (~more /\ IsLow(H, nBestHeight))
    <3>1. after(s.node) = RequestRefill(s.node, {p}, H, nBestHeight)
      BY <2>2 DEF ContinueHeaders
    <3> HIDE DEF after
    <3> QED BY <1>3, <1>10, <1>13, <1>17, <3>1, RequestRefillOK
  <2>3. CASE ~(more /\ ~FarAhead(H, nBestHeight)) /\ ~(~more /\ IsLow(H, nBestHeight))
    <3>1. after(s.node) = s.node
      BY <2>3 DEF ContinueHeaders
    <3> HIDE DEF after
    <3> QED BY <1>17, <3>1
  <2> QED BY <2>1, <2>2, <2>3
<1> HIDE DEF after
<1>19. PlannerOK([s EXCEPT !.node = after(s.node)], nBestHeight')
  BY <1>1, <1>16, <1>17, <1>18, PlannerNodes
<1>20. PlannerOK(State(mapHeaders, g_nInFlight, node), nBestHeight)'
  BY <1>2, <1>19, PlannerAfter
<1>21. Types' /\ OrphansWait'
  BY <1>1 DEF IInv, Types, OrphansWait, Orphans
<1> QED BY <1>20, <1>21 DEF IInv

-----------------------------------------------------------------------------
(* Orphan blocks                                                           *)

\* The orphans as a sequence and as a set.
LEMMA OrphansAre ==
    ASSUME NEW s, NEW n \in Nat
    PROVE  /\ s \in BoundedSeq(Block, n) <=> s \in Seq(Block) /\ Len(s) <= n
           /\ s \in Seq(Block) => Range(s) \subseteq Block /\ Range(s) = {s[i] : i \in 1 .. Len(s)}
<1>1. BoundedSeq(Block, n) = UNION {[1 .. m -> Block] : m \in 0 .. n}
  BY DEF BoundedSeq, SeqOf
<1>2. ASSUME s \in Seq(Block), Len(s) <= n
      PROVE  s \in BoundedSeq(Block, n)
  <2>1. Len(s) \in 0 .. n /\ s \in [1 .. Len(s) -> Block]
    BY <1>2
  <2> QED BY <1>1, <2>1
<1>3. ASSUME s \in BoundedSeq(Block, n)
      PROVE  s \in Seq(Block) /\ Len(s) <= n
  <2>1. PICK m \in 0 .. n : s \in [1 .. m -> Block]
    BY <1>1, <1>3
  <2>2. m \in Nat
    OBVIOUS
  <2>3. s \in Seq(Block)
    BY <2>1, <2>2, SeqDef
  <2>4. DOMAIN s = 1 .. m /\ DOMAIN s = 1 .. Len(s) /\ Len(s) \in Nat
    BY <2>1, <2>3
  <2>5. Len(s) = m
    BY <2>2, <2>4
  <2> QED BY <2>3, <2>5
<1>4. ASSUME s \in Seq(Block)
      PROVE  Range(s) \subseteq Block /\ Range(s) = {s[i] : i \in 1 .. Len(s)}
  BY <1>4 DEF Range
<1> QED BY <1>2, <1>3, <1>4

\* The orphans are within their limit and above the next block.
LEMMA OrphansHere ==
    ASSUME IInv
    PROVE  /\ mapOrphanBlocks \in Seq(Block) /\ Len(mapOrphanBlocks) <= MaxOrphans
           /\ Orphans \subseteq Block /\ \A h \in Orphans : h > nBestHeight + 1
<1>1. mapOrphanBlocks \in BoundedSeq(Block, MaxOrphans) /\ MaxOrphans \in Nat
  BY Sizes DEF IInv, Types
<1> QED BY <1>1, OrphansAre DEF IInv, OrphansWait, Orphans

\* The root of an orphan is a block.
LEMMA RootIs ==
    ASSUME NEW S, S \subseteq Block, NEW h \in S
    PROVE  GetOrphanRoot(S, h) \in Int
<1> DEFINE T == {g \in S : g .. h \subseteq S}
<1>1. h \in Nat /\ h .. h = {h} /\ S \subseteq Nat
  BY Sizes
<1>2. h \in T /\ T \subseteq Nat
  BY <1>1
<1> HIDE DEF T
<1>3. Min(T) \in T
  BY <1>2, MinIs
<1> QED BY <1>2, <1>3 DEF GetOrphanRoot, T

\* A block that is connected or an orphan already.
LEMMA KnownBlockKeeps ==
    ASSUME IInv, NEW p \in Peer, NEW h \in Block, KnownBlock(p, h)
    PROVE  IInv'
<1>1. /\ node[p].blocks # <<>> /\ node' = [node EXCEPT ![p] = FirstArrives(node[p])]
      /\ UNCHANGED <<nBestHeight, mapHeaders, g_nInFlight, nBlocksSinceRequest, mapOrphanBlocks, vNodes, losses>>
  BY IInvFacts DEF KnownBlock, Arrives, planner
<1>2. node[p] \in CNode
  BY IInvFacts
<1>3. FirstArrives(node[p]) \in CNode /\ FirstArrives(node[p]).headers = node[p].headers
  BY <1>1, <1>2, FirstArrivesOK
<1>4. PlannerOK(State(mapHeaders, g_nInFlight, node), nBestHeight)'
  BY <1>1, <1>3, NodeStep
<1>5. Types' /\ OrphansWait'
  BY <1>1 DEF IInv, Types, OrphansWait, Orphans
<1> QED BY <1>4, <1>5 DEF IInv

\* The inv handler.
LEMMA InvKeeps ==
    ASSUME IInv, NEW p \in Peer, Inv(p)
    PROVE  IInv'
<1> DEFINE list == node[p].inv
           orphan == list \cap Orphans
           new == {h \in list : ~AlreadyHave(h)}
           cleared == [node[p] EXCEPT !.inv = {}]
           nd == AskFor(cleared, new)
           answer == IF orphan # {}
                     THEN PushGetBlocks(nd, nBestHeight, GetOrphanRoot(Orphans, Max(orphan)))
                     ELSE IF Max(list) <= nBestHeight THEN SendGetBlocks(nd, Max(list), 0)
                     ELSE nd
<1>1. /\ list # {} /\ node' = [node EXCEPT ![p] = answer]
      /\ UNCHANGED <<nBestHeight, mapHeaders, g_nInFlight, nBlocksSinceRequest, mapOrphanBlocks, vNodes, losses>>
  BY DEF Inv, planner
<1>2. node[p] \in CNode /\ list \subseteq Block /\ nBestHeight \in Int
  BY IInvFacts DEF CNode
<1>3. cleared \in CNode /\ cleared.headers = node[p].headers
  BY <1>2 DEF CNode
<1>4. new \subseteq Block
  BY <1>2
<1> HIDE DEF cleared, new
<1>5. nd \in CNode /\ nd.headers = node[p].headers
  BY <1>3, <1>4, AskForOK
<1> HIDE DEF nd
<1>6. answer \in CNode /\ answer.headers = node[p].headers
  <2>1. CASE orphan # {}
    <3>1. orphan \subseteq Orphans /\ Orphans \subseteq Block /\ orphan \subseteq 0 .. Top /\ Top \in Nat
      BY <1>2, OrphansHere, Sizes
    <3>2. Max(orphan) \in orphan
      BY <2>1, <3>1, MaxIs
    <3>3. GetOrphanRoot(Orphans, Max(orphan)) \in Int
      BY <3>1, <3>2, RootIs
    <3> QED BY <1>2, <1>5, <2>1, <3>3, SendGetBlocksOK
  <2>2. CASE orphan = {}
    <3>1. list \subseteq 0 .. Top /\ Top \in Nat
      BY <1>2, Sizes
    <3>2. Max(list) \in list
      BY <1>1, <3>1, MaxIs
    <3>3. Max(list) \in Int /\ 0 \in Int
      BY <3>1, <3>2
    <3>4. SendGetBlocks(nd, Max(list), 0) \in CNode /\ SendGetBlocks(nd, Max(list), 0).headers = nd.headers
      BY <1>5, <3>3, SendGetBlocksOK
    <3> QED BY <1>5, <2>2, <3>4
  <2> QED BY <2>1, <2>2
<1> HIDE DEF answer
<1>7. PlannerOK(State(mapHeaders, g_nInFlight, node), nBestHeight)'
  BY <1>1, <1>6, NodeStep
<1>8. Types' /\ OrphansWait'
  BY <1>1 DEF IInv, Types, OrphansWait, Orphans
<1> QED BY <1>7, <1>8 DEF IInv

\* The counter of blocks since the last request stays below the pipeline's size.
LEMMA CountBlockOK ==
    ASSUME IInv, CountBlock
    PROVE  nBlocksSinceRequest' \in 0 .. PipelineBlocks - 1
<1>1. nBlocksSinceRequest \in Nat /\ PipelineBlocks \in Nat /\ PipelineBlocks > 0
  BY Sizes DEF IInv, Types
<1>2. nBlocksSinceRequest' = (nBlocksSinceRequest + 1) % PipelineBlocks
  BY DEF CountBlock
<1> QED BY <1>1, <1>2

\* An orphan comes: the oldest one goes, never the new one.
LEMMA LimitOK ==
    ASSUME NEW s \in Seq(Block), Len(s) <= MaxOrphans, NEW h \in Block
    PROVE  LET o == LimitOrphanBlocks(Append(s, h))
           IN  /\ o \in Seq(Block) /\ Len(o) <= MaxOrphans
               /\ h \in Range(o) /\ Range(o) \subseteq Range(s) \cup {h}
<1> DEFINE a == Append(s, h)
           o == LimitOrphanBlocks(a)
<1>1. /\ a \in Seq(Block) /\ Len(a) = Len(s) + 1 /\ Len(s) \in Nat /\ a[Len(s) + 1] = h
      /\ \A i \in 1 .. Len(s) : a[i] = s[i]
  OBVIOUS
<1>2. MaxOrphans \in Nat /\ MaxOrphans >= 1
  BY Sizes
<1>3. Range(a) \subseteq Range(s) \cup {h} /\ h \in Range(a)
  <2>1. \A i \in 1 .. Len(s) + 1 : i \in 1 .. Len(s) \/ i = Len(s) + 1
    BY <1>1
  <2>2. Range(a) = {a[i] : i \in 1 .. Len(s) + 1} /\ Range(s) = {s[i] : i \in 1 .. Len(s)}
    BY <1>1 DEF Range
  <2>3. Len(s) + 1 \in 1 .. Len(s) + 1
    BY <1>1
  <2> HIDE DEF a
  <2> QED BY <1>1, <2>1, <2>2, <2>3
<1> HIDE DEF a
<1>4. CASE Len(a) <= MaxOrphans
  <2>1. o = a
    BY <1>1, <1>2, <1>4 DEF LimitOrphanBlocks
  <2> QED BY <1>1, <1>3, <1>4, <2>1 DEF a
<1>5. CASE Len(a) > MaxOrphans
  <2>1. o = Tail(a)
    BY <1>1, <1>2, <1>5 DEF LimitOrphanBlocks
  <2>2. Tail(a) \in Seq(Block) /\ Len(Tail(a)) = Len(s) /\ \A i \in 1 .. Len(s) : Tail(a)[i] = a[i + 1]
    BY <1>1
  <2>3. Range(Tail(a)) = {Tail(a)[i] : i \in 1 .. Len(s)} /\ Range(a) = {a[i] : i \in 1 .. Len(s) + 1}
    <3>1. DOMAIN a = 1 .. Len(s) + 1
      BY <1>1
    <3>2. DOMAIN Tail(a) = 1 .. Len(s)
      <4> HIDE DEF o
      <4> DEFINE t == Tail(a)
      <4>1. t \in Seq(Block) /\ Len(t) = Len(s)
        BY <2>2
      <4> HIDE DEF t
      <4>2. DOMAIN t = 1 .. Len(s)
        BY <4>1
      <4> QED BY <4>2 DEF t
    <3> QED BY <3>1, <3>2, Zenon DEF Range
  <2>4. \A i \in 1 .. Len(s) : i + 1 \in 1 .. Len(s) + 1
    BY <1>1
  <2>5. Range(Tail(a)) \subseteq Range(a)
    BY <2>2, <2>3, <2>4
  <2>6. Len(s) \in 1 .. Len(s) /\ Tail(a)[Len(s)] = h
    BY <1>1, <1>2, <1>5, <2>2
  <2>7. h \in Range(Tail(a))
    BY <2>3, <2>6
  <2> QED BY <1>3, <2>1, <2>2, <2>5, <2>7 DEF a
<1> QED BY <1>1, <1>2, <1>4, <1>5

\* A block whose parent is unknown.
LEMMA OrphanBlockKeeps ==
    ASSUME IInv, NEW p \in Peer, NEW h \in Block, OrphanBlock(p, h)
    PROVE  IInv'
<1> DEFINE orphans == LimitOrphanBlocks(Append(mapOrphanBlocks, h))
           first == FirstArrives(node[p])
           nd == PushGetBlocks(first, nBestHeight, GetOrphanRoot(Range(orphans), h))
           nodes == [node EXCEPT ![p] = nd]
           s0 == State(mapHeaders, g_nInFlight, nodes)
           front == HeaderFront(mapHeaders, nBestHeight)
<1>1. /\ node[p].blocks # <<>> /\ h > nBestHeight + 1
      /\ UNCHANGED <<nBestHeight, vNodes, losses>> /\ CountBlock /\ mapOrphanBlocks' = orphans
  BY DEF OrphanBlock, Arrives
<1>2. PICK s \in QueueBlocksParallel(s0, nBestHeight) :
          SetState([s EXCEPT !.node = PipelineRefill(s.node, nBestHeight)])
  BY DEF OrphanBlock
<1>3. /\ orphans \in Seq(Block) /\ Len(orphans) <= MaxOrphans
      /\ h \in Range(orphans) /\ Range(orphans) \subseteq Orphans \cup {h}
  BY OrphansHere, LimitOK DEF Orphans
<1>4. Range(orphans) \subseteq Block
  BY <1>3, OrphansHere
<1> HIDE DEF orphans
<1>5. /\ nBestHeight \in 0 .. Top /\ nBestHeight \in Int /\ front \in nBestHeight .. Top
      /\ HeadersOK(mapHeaders, nBestHeight) /\ NodesOK(node, front, nBestHeight) /\ node[p] \in CNode
      /\ g_nInFlight = Cardinality(RequestedIn(mapHeaders)) /\ g_nInFlight <= Window
  BY IInvFacts
<1>6. first \in CNode /\ first.headers = node[p].headers
  BY <1>1, <1>5, FirstArrivesOK
<1>7. GetOrphanRoot(Range(orphans), h) \in Int
  BY <1>3, <1>4, RootIs
<1> HIDE DEF first
<1>8. nd \in CNode /\ nd.headers = node[p].headers
  BY <1>5, <1>6, <1>7, SendGetBlocksOK
<1>9. \A tip \in nd.headers : tip <= front /\ tip <= nBestHeight + MaxAhead
  BY <1>5, <1>8 DEF NodesOK
<1> HIDE DEF nd, front
<1>10. NodesOK(nodes, front, nBestHeight)
  BY <1>5, <1>8, <1>9, OneNodeOK
<1> HIDE DEF nodes
<1>11. PlannerOK(s0, nBestHeight)
  BY <1>5, <1>10, PlannerIs DEF front
<1>12. PlannerOK(s, nBestHeight)
  <2> HIDE DEF s0
  <2> QED BY <1>2, <1>5, <1>11, IInvFacts, QueueOK
<1>13. NodesOK(PipelineRefill(s.node, nBestHeight), HeaderFront(s.H, nBestHeight), nBestHeight)
  <2>1. /\ HeaderFront(s.H, nBestHeight) \in nBestHeight .. Top
        /\ NodesOK(s.node, HeaderFront(s.H, nBestHeight), nBestHeight)
    BY <1>12 DEF PlannerOK, HeadersOK
  <2> QED BY <1>5, <2>1, PipelineRefillOK
<1>14. PlannerOK([s EXCEPT !.node = PipelineRefill(s.node, nBestHeight)], nBestHeight')
  BY <1>1, <1>12, <1>13, PlannerNodes
<1>15. PlannerOK(State(mapHeaders, g_nInFlight, node), nBestHeight)'
  BY <1>2, <1>14, PlannerAfter
<1>16. Types'
  <2>1. mapOrphanBlocks' \in BoundedSeq(Block, MaxOrphans)
    BY <1>1, <1>3, OrphansAre, Sizes
  <2>2. nBlocksSinceRequest' \in 0 .. PipelineBlocks - 1
    BY <1>1, CountBlockOK
  <2> QED BY <1>1, <2>1, <2>2 DEF IInv, Types
<1>17. OrphansWait'
  BY <1>1, <1>3, OrphansHere DEF OrphansWait, Orphans
<1> QED BY <1>15, <1>16, <1>17 DEF IInv

\* The run of orphans on a block: its end is a block, the run is of orphans, and
\* the next block is none.
LEMMA PromotedIs ==
    ASSUME Orphans \subseteq Block, NEW h \in Block
    PROVE  /\ Promoted(h) \in h .. Top
           /\ Promoted(h) + 1 \notin Orphans
<1> DEFINE T == {b \in h .. Top : (h + 1) .. b \subseteq Orphans}
           m == Max(T)
<1>1. h \in Nat /\ h \in 1 .. Top /\ Top \in Nat
  BY Sizes DEF Block
<1>2. h \in T /\ T \subseteq 0 .. Top /\ T \subseteq h .. Top
  <2>1. (h + 1) .. h = {}
    BY <1>1
  <2>2. h \in h .. Top
    BY <1>1
  <2> QED BY <1>1, <2>1, <2>2
<1>3. m \in T /\ \A b \in T : b <= m
  <2> HIDE DEF T
  <2> QED BY <1>1, <1>2, MaxIs
<1>4. m \in Int /\ m >= h /\ m <= Top /\ (h + 1) .. m \subseteq Orphans
  BY <1>1, <1>3
<1> HIDE DEF m
<1>5. ASSUME m + 1 \in Orphans PROVE FALSE
  <2>1. m + 1 \in h .. Top
    BY <1>1, <1>4, <1>5, Sizes DEF Block
  <2>2. (h + 1) .. (m + 1) \subseteq Orphans
    <3>1. \A i \in (h + 1) .. (m + 1) : i \in (h + 1) .. m \/ i = m + 1
      BY <1>1, <1>4
    <3> QED BY <1>4, <1>5, <3>1
  <2>3. m + 1 \in T
    BY <2>1, <2>2
  <2> QED BY <1>3, <1>4, <2>3
<1>6. Promoted(h) = m
  BY DEF Promoted, m
<1> QED BY <1>2, <1>3, <1>5, <1>6

\* What stays of the orphans is above the promoted run.
LEMMA NotPromotedIs ==
    ASSUME NEW s \in Seq(Block), NEW best \in Nat
    PROVE  LET o == NotPromoted(s, best)
           IN  /\ o \in Seq(Block) /\ Len(o) <= Len(s)
               /\ Range(o) \subseteq {h \in Range(s) : h > best}
<1> DEFINE places == {i \in DOMAIN s : s[i] > best}
           c == Cardinality(places)
           o == [k \in 1 .. c |-> s[InOrder(places)[k]]]
<1>1. Len(s) \in Nat /\ DOMAIN s = 1 .. Len(s) /\ \A i \in 1 .. Len(s) : s[i] \in Block
  OBVIOUS
<1>2. places \subseteq 0 .. Len(s) /\ places \subseteq 1 .. Len(s)
  BY <1>1
<1>3. \A i \in places : s[i] \in Block /\ s[i] > best /\ s[i] \in Range(s)
  BY <1>1 DEF Range
<1>4. NotPromoted(s, best) = o
  BY DEF NotPromoted
<1> HIDE DEF places
<1>5. InOrder(places) \in [1 .. c -> places] /\ c \in Nat
  BY <1>1, <1>2, InOrderIn, BlocksFinite
<1>6. c <= Len(s)
  <2>1. IsFiniteSet(1 .. Len(s)) /\ Cardinality(1 .. Len(s)) = Len(s)
    <3> DEFINE l == Len(s)
    <3>1. l \in Nat
      BY <1>1
    <3> HIDE DEF l
    <3>2. /\ IsFiniteSet(1 .. l)
          /\ Cardinality(1 .. l) = IF 1 > l THEN 0 ELSE l - 1 + 1
      BY <3>1, FS_Interval
    <3>3. Cardinality(1 .. l) = l
      BY <3>1, <3>2
    <3> QED BY <3>2, <3>3 DEF l
  <2> QED BY <1>2, <2>1, FS_Subset
<1> HIDE DEF c
<1>7. \A k \in 1 .. c : InOrder(places)[k] \in places
  BY <1>5
<1>8. o \in [1 .. c -> Block]
  BY <1>3, <1>7
<1>9. o \in Seq(Block)
  BY <1>5, <1>8, SeqDef
<1>10. Len(o) = c
  <2>1. DOMAIN o = 1 .. c
    OBVIOUS
  <2> HIDE DEF o
  <2>2. DOMAIN o = 1 .. Len(o) /\ Len(o) \in Nat
    BY <1>9
  <2> QED BY <1>5, <2>1, <2>2
<1>11. Range(o) \subseteq {h \in Range(s) : h > best}
  BY <1>3, <1>7 DEF Range
<1> QED BY <1>4, <1>6, <1>9, <1>10, <1>11

\* The next block and the orphans on it are accepted.
LEMMA AcceptBlockKeeps ==
    ASSUME IInv, NEW p \in Peer, NEW h \in Block, AcceptBlock(p, h)
    PROVE  IInv'
<1> DEFINE best == Promoted(h)
           H == BlocksAccepted(mapHeaders, best)
           Req == RequestedIn(mapHeaders)
           Gone == {b \in Req : b <= best}
           n == g_nInFlight - Cardinality(Gone)
           nodes == [node EXCEPT ![p] = FirstArrives(@)]
           s0 == State(H, n, nodes)
           f == HeaderFront(mapHeaders, nBestHeight)
           refilled(s) == IF IsLow(H, best) THEN RequestRefill(s.node, vNodes, H, best) ELSE s.node
<1>1. /\ node[p].blocks # <<>> /\ h = nBestHeight + 1
      /\ UNCHANGED <<vNodes, losses>> /\ CountBlock /\ nBestHeight' = best
      /\ mapOrphanBlocks' = NotPromoted(mapOrphanBlocks, best)
  BY DEF AcceptBlock, Arrives
<1>2. PICK s \in QueueBlocksParallel(s0, best) :
        \E t \in QueueBlocksParallel([s EXCEPT !.node = refilled(s)], best) :
           SetState([t EXCEPT !.node = PipelineRefill(t.node, best)])
  BY DEF AcceptBlock
<1>3. /\ nBestHeight \in 0 .. Top /\ f \in nBestHeight .. Top /\ HeadersOK(mapHeaders, nBestHeight)
      /\ NodesOK(node, f, nBestHeight) /\ node[p] \in CNode
      /\ g_nInFlight = Cardinality(Req) /\ g_nInFlight <= Window
  BY IInvFacts
<1>4. best \in h .. Top /\ best + 1 \notin Orphans
  BY OrphansHere, PromotedIs
<1>5. /\ DOMAIN mapHeaders = (nBestHeight + 1) .. f /\ f <= nBestHeight + MaxAhead + HeadersLimit
      /\ mapHeaders \in [DOMAIN mapHeaders -> HeaderNode]
  BY <1>3 DEF HeadersOK
<1> HIDE DEF best
<1>6. /\ nBestHeight \in Nat /\ best \in Nat /\ f \in Nat /\ nBestHeight < best /\ best <= Top
      /\ nBestHeight <= f /\ f <= Top /\ best \in 0 .. Top
      /\ MaxAhead \in Nat /\ HeadersLimit \in Nat /\ Top \in Nat /\ Window \in Nat
  BY <1>1, <1>3, <1>4, Sizes
<1> HIDE DEF f
<1> DEFINE g == IF best <= f THEN f ELSE best
<1>7. DOMAIN H = {b \in DOMAIN mapHeaders : b > best} /\ \A b \in DOMAIN H : H[b] = mapHeaders[b]
  BY DEF BlocksAccepted
<1>8. DOMAIN H = (best + 1) .. g
  <2> HIDE DEF H
  <2> QED BY <1>5, <1>6, <1>7
<1>9. g \in best .. Top /\ g \in Int /\ f <= g /\ g <= best + MaxAhead + HeadersLimit
  BY <1>5, <1>6
<1>10. H \in [DOMAIN H -> HeaderNode]
  BY <1>5 DEF BlocksAccepted
<1> HIDE DEF H, g
<1>11. HeaderFront(H, best) = g
  BY <1>6, <1>8, <1>9, FrontIs
<1>12. HeadersOK(H, best)
  BY <1>8, <1>9, <1>10, <1>11 DEF HeadersOK
<1>13. n = Cardinality(RequestedIn(H)) /\ n <= Window
  <2>1. Req \subseteq DOMAIN mapHeaders /\ \A b \in Req : b \in Nat
    BY <1>5, <1>6 DEF RequestedIn
  <2>2. RequestedIn(H) = {b \in Req : b > best}
    BY <1>7 DEF RequestedIn
  <2>3. Req \subseteq 0 .. Top
    <3>1. DOMAIN mapHeaders \subseteq 0 .. Top
      BY <1>5, <1>6
    <3> QED BY <2>1, <3>1
  <2> HIDE DEF Req
  <2>4. Req = Gone \cup RequestedIn(H) /\ Gone \cap RequestedIn(H) = {}
    BY <1>6, <2>1, <2>2
  <2>5. /\ IsFiniteSet(Gone) /\ Cardinality(Gone) \in Nat
        /\ IsFiniteSet(RequestedIn(H)) /\ Cardinality(RequestedIn(H)) \in Nat
    <3>1. Gone \subseteq 0 .. Top /\ RequestedIn(H) \subseteq 0 .. Top
      BY <2>3, <2>4
    <3> HIDE DEF Gone
    <3> QED BY <1>6, <3>1, BlocksFinite
  <2> HIDE DEF Gone
  <2>6. Cardinality(Req) = Cardinality(Gone) + Cardinality(RequestedIn(H))
    BY <2>4, <2>5, DisjointUnion
  <2> QED BY <1>3, <1>6, <2>5, <2>6
<1> HIDE DEF n
<1>14. NodesOK(nodes, g, best)
  <2> DEFINE nd == FirstArrives(node[p])
  <2>1. nd \in CNode /\ nd.headers = node[p].headers
    BY <1>1, <1>3, FirstArrivesOK
  <2>2. nodes = [node EXCEPT ![p] = nd]
    BY <1>3 DEF NodesOK
  <2> HIDE DEF nd, nodes
  <2>3. \A tip \in nd.headers : tip <= f /\ tip <= nBestHeight + MaxAhead
    BY <1>3, <2>1 DEF NodesOK
  <2>4. NodesOK(nodes, f, nBestHeight)
    BY <1>3, <2>1, <2>2, <2>3, OneNodeOK
  <2> QED BY <1>6, <1>9, <2>4, NodesKept
<1> HIDE DEF nodes
<1>15. PlannerOK(s0, best)
  BY <1>11, <1>12, <1>13, <1>14, PlannerIs
<1>16. PlannerOK(s, best) /\ DOMAIN s.H = DOMAIN H
  <2>1. s0.H = H
    BY DEF State
  <2> HIDE DEF s0
  <2> QED BY <1>2, <1>6, <1>15, <2>1, IInvFacts, QueueOK
<1>17. HeaderFront(s.H, best) = g /\ NodesOK(s.node, g, best)
  BY <1>11, <1>16 DEF HeaderFront, PlannerOK
<1>18. NodesOK(refilled(s), g, best)
  <2>1. NodesOK(RequestRefill(s.node, vNodes, H, best), g, best)
    BY <1>6, <1>11, <1>12, <1>17, RequestRefillOK
  <2> QED BY <1>17, <2>1
<1> HIDE DEF refilled
<1>19. PlannerOK([s EXCEPT !.node = refilled(s)], best)
  BY <1>16, <1>17, <1>18, PlannerNodes
<1> DEFINE s1 == [s EXCEPT !.node = refilled(s)]
<1>20. PICK t \in QueueBlocksParallel(s1, best) :
           SetState([t EXCEPT !.node = PipelineRefill(t.node, best)])
  BY <1>2
<1> HIDE DEF s1
<1>21. PlannerOK(t, best)
  BY <1>6, <1>19, <1>20, IInvFacts, QueueOK DEF s1
<1>22. NodesOK(PipelineRefill(t.node, best), HeaderFront(t.H, best), best)
  <2>1. HeaderFront(t.H, best) \in best .. Top /\ NodesOK(t.node, HeaderFront(t.H, best), best)
    BY <1>21 DEF PlannerOK, HeadersOK
  <2> QED BY <1>6, <2>1, PipelineRefillOK
<1>23. PlannerOK([t EXCEPT !.node = PipelineRefill(t.node, best)], nBestHeight')
  BY <1>1, <1>21, <1>22, PlannerNodes
<1>24. PlannerOK(State(mapHeaders, g_nInFlight, node), nBestHeight)'
  BY <1>20, <1>23, PlannerAfter
<1>25. /\ mapOrphanBlocks' \in Seq(Block) /\ Len(mapOrphanBlocks') <= MaxOrphans
       /\ Range(mapOrphanBlocks') \subseteq {b \in Orphans : b > best}
  <2>1. /\ mapOrphanBlocks' \in Seq(Block) /\ Len(mapOrphanBlocks') <= Len(mapOrphanBlocks)
        /\ Range(mapOrphanBlocks') \subseteq {b \in Orphans : b > best}
    BY <1>1, <1>6, OrphansHere, NotPromotedIs DEF Orphans
  <2>2. Len(mapOrphanBlocks') \in Nat /\ Len(mapOrphanBlocks) \in Nat
    BY <2>1, OrphansHere
  <2> QED BY <2>1, <2>2, OrphansHere, Sizes
<1>26. Types'
  <2>1. mapOrphanBlocks' \in BoundedSeq(Block, MaxOrphans)
    BY <1>25, OrphansAre, Sizes
  <2>2. nBlocksSinceRequest' \in 0 .. PipelineBlocks - 1
    BY <1>1, CountBlockOK
  <2> QED BY <1>1, <1>6, <2>1, <2>2 DEF IInv, Types
<1>27. OrphansWait'
  <2>1. ASSUME NEW o \in Range(mapOrphanBlocks') PROVE o > best + 1
    <3>1. o \in Orphans /\ o > best /\ o # best + 1 /\ o \in Nat
      BY <1>4, <1>25, <2>1, OrphansHere, Sizes
    <3> QED BY <1>6, <3>1
  <2> QED BY <1>1, <2>1 DEF OrphansWait, Orphans
<1> QED BY <1>24, <1>26, <1>27 DEF IInv

-----------------------------------------------------------------------------
(* The specification                                                       *)

\* The invariant holds initially.
LEMMA IInvInit == Init => IInv
<1> SUFFICES ASSUME Init PROVE IInv
  OBVIOUS
<1>1. /\ nBestHeight = 0 /\ mapHeaders = <<>> /\ g_nInFlight = 0 /\ nBlocksSinceRequest = 0
      /\ mapOrphanBlocks = <<>> /\ vNodes = {} /\ node = [p \in Peer |-> NewNode] /\ losses = 0
  BY DEF Init
<1>2. mapOrphanBlocks \in BoundedSeq(Block, MaxOrphans) /\ Orphans = {}
  <2>1. <<>> \in Seq(Block) /\ Len(<<>>) = 0 /\ MaxOrphans \in Nat /\ 0 <= MaxOrphans
    BY Sizes
  <2>2. <<>> \in BoundedSeq(Block, MaxOrphans)
    BY <2>1, OrphansAre
  <2>3. Range(<<>>) = {}
    BY DEF Range
  <2> QED BY <1>1, <2>2, <2>3 DEF Orphans
<1>3. Types
  BY <1>1, <1>2, Sizes DEF Types
<1>4. NewNode \in CNode /\ NewNode.headers = {}
  BY DEF NewNode, CNode, NoGetBlocks
<1>5. DOMAIN mapHeaders = {}
  BY <1>1
<1>6. HeaderFront(mapHeaders, nBestHeight) = 0
  BY <1>1, <1>5 DEF HeaderFront
<1>7. HeadersOK(mapHeaders, nBestHeight)
  <2>1. (nBestHeight + 1) .. 0 = {} /\ 0 \in nBestHeight .. Top /\ 0 <= nBestHeight + MaxAhead + HeadersLimit
    BY <1>1, Sizes
  <2>2. mapHeaders \in [DOMAIN mapHeaders -> HeaderNode]
    BY <1>1, <1>5
  <2> QED BY <1>5, <1>6, <2>1, <2>2 DEF HeadersOK
<1>8. g_nInFlight = Cardinality(RequestedIn(mapHeaders)) /\ g_nInFlight <= Window
  <2>1. RequestedIn(mapHeaders) = {}
    BY <1>5 DEF RequestedIn
  <2> QED BY <1>1, <2>1, Sizes, FS_EmptySet
<1>9. NodesOK(node, HeaderFront(mapHeaders, nBestHeight), nBestHeight)
  BY <1>1, <1>4 DEF NodesOK
<1>10. PlannerOK(State(mapHeaders, g_nInFlight, node), nBestHeight)
  BY <1>7, <1>8, <1>9, PlannerIs
<1>11. OrphansWait
  BY <1>2 DEF OrphansWait
<1> QED BY <1>3, <1>10, <1>11 DEF IInv

\* Every step keeps the invariant.
LEMMA IInvStep == IInv /\ [Next]_vars => IInv'
<1> SUFFICES ASSUME IInv, [Next]_vars PROVE IInv'
  OBVIOUS
<1>1. ASSUME NEW p \in Peer, Version(p) PROVE IInv'
  BY <1>1, VersionKeeps
<1>2. ASSUME NEW p \in Peer, Disconnect(p) PROVE IInv'
  BY <1>2, DisconnectKeeps
<1>3. ASSUME NEW p \in Peer, HeadersArrive(p) PROVE IInv'
  BY <1>3, HeadersKeeps DEF HeadersArrive
<1>4. ASSUME NEW p \in Peer, Inv(p) PROVE IInv'
  BY <1>4, InvKeeps
<1>5. ASSUME NEW p \in Peer, BlockArrives(p) PROVE IInv'
  <2>1. PICK h \in Block : KnownBlock(p, h) \/ OrphanBlock(p, h) \/ AcceptBlock(p, h)
    BY <1>5 DEF BlockArrives
  <2> QED BY <2>1, KnownBlockKeeps, OrphanBlockKeeps, AcceptBlockKeeps
<1>6. ASSUME NEW p \in Peer, NEW queue \in BOOLEAN, Tick(p, queue) PROVE IInv'
  BY <1>6, TickKeeps
<1>7. CASE TimePasses
  BY <1>7, TimePassesKeeps
<1>8. CASE UNCHANGED vars
  <2>1. UNCHANGED <<nBestHeight, mapHeaders, g_nInFlight, nBlocksSinceRequest, mapOrphanBlocks,
                    vNodes, node, losses>>
    BY <1>8 DEF vars, planner
  <2>2. Types' /\ OrphansWait'
    BY <2>1 DEF IInv, Types, OrphansWait, Orphans
  <2>3. PlannerOK(State(mapHeaders, g_nInFlight, node), nBestHeight)'
    BY <2>1 DEF IInv, PlannerOK, HeadersOK, NodesOK, HeaderFront, RequestedIn, State
  <2> QED BY <2>2, <2>3 DEF IInv
<1> QED BY <1>1, <1>2, <1>3, <1>4, <1>5, <1>6, <1>7, <1>8 DEF Next

\* The inductive invariant: headers without a hole, an exact counter, requests that
\* backpressure allowed, and orphans that wait.
THEOREM Inductive == Spec => []IInv
<1> QED BY IInvInit, IInvStep, PTL DEF Spec

\* TypeOK, with its two bounds: g_nInFlight stays within HEADER_DOWNLOAD_WINDOW
\* and the orphan blocks within their limit, for every number of peers, window and
\* limit.
THEOREM TypeCorrect == Spec => []TypeOK
<1>1. ASSUME IInv PROVE TypeOK
  <2> DEFINE f == HeaderFront(mapHeaders, nBestHeight)
  <2>1. /\ nBestHeight \in 0 .. Top /\ f \in nBestHeight .. Top
        /\ DOMAIN mapHeaders = (nBestHeight + 1) .. f
        /\ \A h \in DOMAIN mapHeaders : mapHeaders[h] \in HeaderNode
    BY <1>1, IInvFacts DEF HeadersOK
  <2>2. DOMAIN mapHeaders \subseteq Block
    <3> HIDE DEF f
    <3> QED BY <2>1, Sizes DEF Block
  <2>3. g_nInFlight \in 0 .. Window
    <3>1. RequestedIn(mapHeaders) \subseteq 0 .. Top
      BY <2>2, Sizes DEF RequestedIn
    <3>2. Cardinality(RequestedIn(mapHeaders)) \in Nat
      BY <3>1, Sizes, BlocksFinite
    <3> QED BY <1>1, <3>2, IInvFacts, Sizes
  <2>4. ASSUME NEW p \in Peer
        PROVE  Range(node[p].blocks) \subseteq Block /\ node[p].headers \subseteq 0 .. Top
    <3>1. node[p] \in CNode
      BY <1>1, IInvFacts
    <3>2. node[p].blocks \in Seq(Block) /\ node[p].headers \subseteq 0 .. Top
      BY <3>1 DEF CNode
    <3>3. MaxOrphans \in Nat
      BY Sizes
    <3> QED BY <3>2, <3>3, OrphansAre
  <2>5. Types
    BY <1>1 DEF IInv
  <2> QED BY <2>1, <2>2, <2>3, <2>4, <2>5 DEF TypeOK, Types
<1> QED BY <1>1, Inductive, PTL

\* The O(1) counter g_nInFlight is what the scan of the header map would count.
THEOREM InFlightIsExact == Spec => []InFlightExact
<1>1. ASSUME IInv PROVE InFlightExact
  BY <1>1, IInvFacts DEF InFlightExact
<1> QED BY <1>1, Inductive, PTL

\* The headers reach from the connected tip to the front without a hole.
THEOREM HeadersAreBridge == Spec => []HeadersBridge
<1>1. ASSUME IInv PROVE HeadersBridge
  BY <1>1, IInvFacts DEF HeadersBridge, HeadersOK, HeaderFront
<1> QED BY <1>1, Inductive, PTL

\* Backpressure bounds the header map, however many peers answer at once.
THEOREM FrontIsBounded == Spec => []FrontBounded
<1>1. ASSUME IInv PROVE FrontBounded
  <2> DEFINE f == HeaderFront(mapHeaders, nBestHeight)
  <2>1. /\ nBestHeight \in Int /\ f \in Int /\ nBestHeight <= f
        /\ DOMAIN mapHeaders = (nBestHeight + 1) .. f
        /\ f <= nBestHeight + MaxAhead + HeadersLimit
    BY <1>1, IInvFacts, Sizes DEF HeadersOK
  <2> HIDE DEF f
  <2> DEFINE a == nBestHeight + 1
  <2>2. a \in Int
    BY <2>1
  <2>3. DOMAIN mapHeaders = a .. f
    BY <2>1
  <2> HIDE DEF a
  <2>4. Cardinality(a .. f) = IF a > f THEN 0 ELSE f - a + 1
    BY <2>1, <2>2, FS_Interval
  <2>5. Cardinality(a .. f) <= MaxAhead + HeadersLimit
    BY <2>1, <2>4, Sizes DEF a
  <2> QED BY <2>3, <2>5 DEF FrontBounded
<1> QED BY <1>1, Inductive, PTL

\* No orphan is left behind whose parent is connected.
THEOREM OrphansAlwaysWait == Spec => []OrphansWait
<1>1. ASSUME IInv PROVE OrphansWait
  BY <1>1 DEF IInv
<1> QED BY <1>1, Inductive, PTL

=============================================================================
