----------------------------- MODULE BlockSync ------------------------------
(***************************************************************************)
(* Initial block download (syncmanager.cpp, and ProcessBlock and the       *)
(* version, inv, headers and block handlers in main.cpp): the headers of   *)
(* one chain, the window of requested blocks, the orphan blocks, and the   *)
(* peers, which come and go with what they were asked for.                 *)
(*                                                                         *)
(* A block is its height: every peer has the same valid chain of height    *)
(* Top, so mapBlockIndex is 0 .. nBestHeight.  A peer's answer is fixed by *)
(* the request, and a request is represented by its answer: of a CNode,    *)
(* headers has the locator tips of the getheaders messages under way, inv  *)
(* the announcements, blocks those in mapAskFor or in a getdata message.   *)
(* Answers of one peer may overtake one another.                           *)
(*                                                                         *)
(* The node is in initial block download throughout.                       *)
(***************************************************************************)
EXTENDS Integers, FiniteSets, Sequences, SequencesExt, FiniteSetsExt

CONSTANTS
    Peer,
    Top,            \* height of the chain
    Window,         \* HEADER_DOWNLOAD_WINDOW
    LowWater,       \* HEADER_SYNC_LOW_WATER
    MaxAhead,       \* HEADER_FRONT_MAX_AHEAD
    HeadersLimit,   \* headers in a headers message
    InvLimit,       \* blocks announced for one getblocks message
    MaxOrphans,     \* MAX_ORPHAN_BLOCKS_IBD
    PipelineBlocks, \* accepted blocks between two requests to all peers
    MaxLosses       \* disconnects

ASSUME BlockSyncConstants ==
    /\ IsFiniteSet(Peer) /\ Peer # {}
    /\ {Top, Window, HeadersLimit, InvLimit, MaxOrphans, PipelineBlocks} \subseteq Nat \ {0}
    /\ {LowWater, MaxAhead, MaxLosses} \subseteq Nat

VARIABLES
    nBestHeight,
    mapHeaders,        \* height -> the state of its HeaderNode
    g_nInFlight,
    nBlocksSinceRequest,
    mapOrphanBlocks,   \* oldest first, as dequeOrphanOrder has them
    vNodes,            \* peers that said version
    node,              \* the CNode of each peer
    losses

planner == <<mapHeaders, g_nInFlight>>
vars == <<nBestHeight, planner, nBlocksSinceRequest, mapOrphanBlocks, vNodes, node, losses>>

Block == 1 .. Top

\* The numbers of a finite set in increasing order (by rank: a recursive sort would
\* be out of the proofs' reach).
InOrder(S) ==
    [i \in 1 .. Cardinality(S) |-> Min({x \in S : Cardinality({y \in S : y < x}) >= i - 1})]

-----------------------------------------------------------------------------
(* One peer                                                                *)

NoGetBlocks == <<-1, -1>>

\* lastGetBlocks filters repeated requests; setInventoryKnown is the peer's, about
\* this node.
NewNode == [lastGetBlocks |-> NoGetBlocks, headers |-> {}, inv |-> {}, blocks |-> <<>>,
            setInventoryKnown |-> {}]

\* getblocks: the peer announces the blocks after begin and before end, or without
\* an end, except those it announced before.
SendGetBlocks(nd, begin, end) ==
    LET list == {h \in Block : h > begin /\ h <= begin + InvLimit /\ (end # 0 => h < end)}
    IN  [nd EXCEPT !.lastGetBlocks = <<begin, end>>,
                   !.inv = @ \cup (list \ nd.setInventoryKnown),
                   !.setInventoryKnown = @ \cup list]

PushGetBlocks(nd, begin, end) ==
    IF nd.lastGetBlocks = <<begin, end>> THEN nd ELSE SendGetBlocks(nd, begin, end)

\* Blocks are asked for in the order of the chain; one that is under way counts once.
AskFor(nd, S) ==
    [nd EXCEPT !.blocks = @ \o InOrder(S \ Range(nd.blocks))]

\* The first block that was asked for comes.
FirstArrives(nd) == [nd EXCEPT !.blocks = Tail(@)]

SendGetHeaders(nd, tip) == [nd EXCEPT !.headers = @ \cup {tip}]

\* RequestRefill leaves a peer alone for some seconds (nLastIbdHeaderRequest), for
\* which a getheaders message that is under way stands.
PushGetHeaders(nd, tip) == IF nd.headers = {} THEN SendGetHeaders(nd, tip) ELSE nd

-----------------------------------------------------------------------------
(* Headers                                                                 *)

\* fRequested and nLastRequestTime of a header: a request is old after five seconds.
HeaderNode == {"new", "requested", "old"}

\* GetDownloadPath: the headers from the best one down to the first gap.
GetDownloadPath(H, best) ==
    {h \in DOMAIN H : h > best /\ h .. Max(DOMAIN H) \subseteq DOMAIN H}

PathReachesChain(P, best) == P = {} \/ Min(P) - 1 <= best

\* The planner depth is at HEADER_SYNC_LOW_WATER or below.
IsLow(H, best) == Cardinality(GetDownloadPath(H, best)) <= LowWater

\* Fault: the header front runs away from the connected chain.
NeverFarAhead(H, best) == FALSE

\* Backpressure in ContinueHeaders and RequestRefill.
FarAhead(H, best) == DOMAIN H # {} /\ Max(DOMAIN H) - best > MaxAhead

\* RequestRefill of the peers in R, with the best header as the locator.
RequestRefill(nodes, R, H, best) ==
    LET tip == IF DOMAIN H = {} THEN best ELSE Max(DOMAIN H)
    IN  IF FarAhead(H, best) THEN nodes
        ELSE [p \in Peer |-> IF p \in R THEN PushGetHeaders(nodes[p], tip) ELSE nodes[p]]

\* Fault: the blocks promoted from the orphans keep their headers.
BlockAcceptedFirst(H, best) == [h \in DOMAIN H \ {nBestHeight + 1} |-> H[h]]

\* BlockAccepted for every block up to best.
BlocksAccepted(H, best) == [h \in {h \in DOMAIN H : h > best} |-> H[h]]

RequestedIn(H) == {h \in DOMAIN H : H[h] # "new"}

-----------------------------------------------------------------------------
(* Block requests: QueueBlocksParallel                                     *)

\* The first headers of the path that need a request, as many as the window has
\* room for.
ToQueue(H, n, best) ==
    LET path == GetDownloadPath(H, best)
        need == {h \in path : H[h] # "requested"}
    IN  {h \in need : /\ PathReachesChain(path, best)
                      /\ n + Cardinality({g \in need : g < h}) < Window}

\* Fault: every request counts, the repeated ones too.
CountRequests(H, n, Q) == n + Cardinality(Q)

\* g_nInFlight counts the headers that become requested.
CountNewRequests(H, n, Q) == n + Cardinality(Q \ RequestedIn(H))

\* The blocks of Q are requested of the peers that f names.  A request that is
\* repeated keeps its time before 60 seconds, and gets a new one after them.  No
\* second peer is asked: fewer than HEADER_REDUNDANT_PEER_THRESHOLD weighted places
\* belong to a single peer.
Requested(s, Q, f, keep) ==
    [H |-> [h \in DOMAIN s.H |->
              IF h \in Q THEN IF h \in keep THEN "old" ELSE "requested" ELSE s.H[h]],
     n |-> CountNewRequests(s.H, s.n, Q),
     node |-> [p \in Peer |-> AskFor(s.node[p], {h \in Q : f[h] = p})]]

\* The outcomes of QueueBlocksParallel in the planner state s.  Which peer is asked
\* depends on scores, weights and caps, and is left open; the caps add up to more
\* than the window, so that some peer has room.
QueueBlocksParallel(s, best) ==
    LET Q == ToQueue(s.H, s.n, best)
        old == {h \in Q : s.H[h] = "old"}
    IN  IF vNodes = {} THEN {s}
        ELSE {Requested(s, Q, f, keep) : f \in [Q -> vNodes], keep \in {{}, old}}

State(H, n, nodes) == [H |-> H, n |-> n, node |-> nodes]

SetState(s) ==
    /\ mapHeaders' = s.H
    /\ g_nInFlight' = s.n
    /\ node' = s.node

-----------------------------------------------------------------------------
(* Orphan blocks                                                           *)

Orphans == Range(mapOrphanBlocks)

\* Fault: the orphan blocks are not limited.
LimitNoOrphanBlocks(s) == s

\* LimitOrphanBlocks: the oldest go first.
LimitOrphanBlocks(s) == IF Len(s) > MaxOrphans THEN Tail(s) ELSE s

GetOrphanRoot(S, h) == Min({g \in S : g .. h \subseteq S})

\* Fault: the orphans on an accepted block are left where they are.
PromotedNone(h) == h

\* The work queue of ProcessBlock: the end of the run of orphans on h.
Promoted(h) == Max({b \in h .. Top : (h + 1) .. b \subseteq Orphans})

\* The orphans that are not promoted, in the order in which they came.
NotPromoted(s, best) ==
    LET places == {i \in DOMAIN s : s[i] > best}
    IN  [k \in 1 .. Cardinality(places) |-> s[InOrder(places)[k]]]

AlreadyHave(h) == h <= nBestHeight \/ h \in Orphans

-----------------------------------------------------------------------------
(* Handlers                                                                *)

\* Fault: the handshake asks for headers only.
VersionHeadersOnly(p) ==
    /\ p \notin vNodes
    /\ vNodes' = vNodes \cup {p}
    /\ node' = RequestRefill(node, {p}, mapHeaders, nBestHeight)
    /\ UNCHANGED <<nBestHeight, planner, nBlocksSinceRequest, mapOrphanBlocks, losses>>

\* version: the peer is asked for blocks and headers.
Version(p) ==
    /\ p \notin vNodes
    /\ vNodes' = vNodes \cup {p}
    /\ node' = RequestRefill([node EXCEPT ![p] = PushGetBlocks(@, nBestHeight, 0)],
                             {p}, mapHeaders, nBestHeight)
    /\ UNCHANGED <<nBestHeight, planner, nBlocksSinceRequest, mapOrphanBlocks, losses>>

\* The CNode is deleted, and all it was asked for is lost.
Disconnect(p) ==
    /\ p \in vNodes
    /\ losses < MaxLosses
    /\ losses' = losses + 1
    /\ vNodes' = vNodes \ {p}
    /\ node' = [node EXCEPT ![p] = NewNode]
    /\ UNCHANGED <<nBestHeight, planner, nBlocksSinceRequest, mapOrphanBlocks>>

\* A full message or one with news is followed by a request for more, another one
\* by RequestRefill when the planner is low.
ContinueHeaders(nodes, p, message, more, H) ==
    IF more /\ ~FarAhead(H, nBestHeight)
    THEN [nodes EXCEPT ![p] = SendGetHeaders(@, Max(message))]
    ELSE IF ~more /\ IsLow(H, nBestHeight) THEN RequestRefill(nodes, {p}, H, nBestHeight)
    ELSE nodes

\* headers: ProcessHeaders of the peer's headers after tip.
Headers(p, tip) ==
    LET message == {h \in Block : h > tip /\ h <= tip + HeadersLimit}
        new == {h \in message : h > nBestHeight} \ DOMAIN mapHeaders
        H == [h \in DOMAIN mapHeaders \cup new |->
                IF h \in new THEN "new" ELSE mapHeaders[h]]
        more == Cardinality(message) = HeadersLimit \/ new # {}
        got == [node EXCEPT ![p].headers = @ \ {tip}]
    IN  /\ tip \in node[p].headers
        /\ UNCHANGED <<nBestHeight, nBlocksSinceRequest, mapOrphanBlocks, vNodes, losses>>
        /\ \E s \in QueueBlocksParallel(State(H, g_nInFlight, got), nBestHeight) :
              SetState([s EXCEPT !.node = ContinueHeaders(@, p, message, more, H)])

\* inv: what is new is asked for; for an orphan the blocks below its root are; a
\* list of known blocks is followed by a request for the next.
Inv(p) ==
    LET list == node[p].inv
        orphan == list \cap Orphans
        nd == AskFor([node[p] EXCEPT !.inv = {}], {h \in list : ~AlreadyHave(h)})
    IN  /\ list # {}
        /\ node' = [node EXCEPT ![p] =
              IF orphan # {}
              THEN PushGetBlocks(nd, nBestHeight, GetOrphanRoot(Orphans, Max(orphan)))
              ELSE IF Max(list) <= nBestHeight THEN SendGetBlocks(nd, Max(list), 0)
              ELSE nd]
        /\ UNCHANGED <<nBestHeight, planner, nBlocksSinceRequest, mapOrphanBlocks, vNodes, losses>>

\* After PipelineBlocks blocks the handler asks every peer for blocks and headers.
PipelineRefill(nodes, best) ==
    IF nBlocksSinceRequest + 1 < PipelineBlocks THEN nodes
    ELSE [p \in Peer |-> IF p \in vNodes THEN SendGetHeaders(SendGetBlocks(nodes[p], best, 0), best)
                         ELSE nodes[p]]

CountBlock == nBlocksSinceRequest' = (nBlocksSinceRequest + 1) % PipelineBlocks

Arrives(p, h) == node[p].blocks # <<>> /\ h = Head(node[p].blocks)

\* block, or SendMessages on its way through mapAskFor: the block is known already.
KnownBlock(p, h) ==
    /\ Arrives(p, h)
    /\ AlreadyHave(h)
    /\ node' = [node EXCEPT ![p] = FirstArrives(@)]
    /\ UNCHANGED <<nBestHeight, planner, nBlocksSinceRequest, mapOrphanBlocks, vNodes, losses>>

\* block: ProcessBlock puts a block without its parent aside, and asks the peer
\* for the blocks below its root.
OrphanBlock(p, h) ==
    LET orphans == LimitOrphanBlocks(Append(mapOrphanBlocks, h))
        nd == PushGetBlocks(FirstArrives(node[p]), nBestHeight, GetOrphanRoot(Range(orphans), h))
    IN  /\ Arrives(p, h)
        /\ ~AlreadyHave(h) /\ h > nBestHeight + 1
        /\ UNCHANGED <<nBestHeight, vNodes, losses>>
        /\ CountBlock
        /\ mapOrphanBlocks' = orphans
        /\ \E s \in QueueBlocksParallel(State(mapHeaders, g_nInFlight, [node EXCEPT ![p] = nd]),
                                        nBestHeight) :
              SetState([s EXCEPT !.node = PipelineRefill(@, nBestHeight)])

\* block: ProcessBlock accepts the next block and the orphans on it, fills the
\* window and asks all peers for headers when the planner is low; the handler fills
\* the window once more.
AcceptBlock(p, h) ==
    LET best == Promoted(h)
        H == BlocksAccepted(mapHeaders, best)
        n == g_nInFlight - Cardinality({b \in RequestedIn(mapHeaders) : b <= best})
    IN  /\ Arrives(p, h)
        /\ h = nBestHeight + 1
        /\ UNCHANGED <<vNodes, losses>>
        /\ CountBlock
        /\ nBestHeight' = best
        /\ mapOrphanBlocks' = NotPromoted(mapOrphanBlocks, best)
        /\ \E s \in QueueBlocksParallel(State(H, n, [node EXCEPT ![p] = FirstArrives(@)]), best) :
           \E t \in QueueBlocksParallel(
                        [s EXCEPT !.node = IF IsLow(H, best) THEN RequestRefill(@, vNodes, H, best) ELSE @],
                        best) :
              SetState([t EXCEPT !.node = PipelineRefill(@, best)])

\* SendMessages to p: the heartbeat of Tick asks for headers, and the block planner
\* fills the window when its interval has passed (queue).  The control loop, the
\* watchdog and stall recovery do the same for all peers, one after another.
Tick(p, queue) ==
    /\ p \in vNodes
    /\ UNCHANGED <<nBestHeight, nBlocksSinceRequest, mapOrphanBlocks, vNodes, losses>>
    /\ LET s0 == State(mapHeaders, g_nInFlight, RequestRefill(node, {p}, mapHeaders, nBestHeight))
       IN  \E s \in (IF queue THEN QueueBlocksParallel(s0, nBestHeight) ELSE {s0}) : SetState(s)

\* Five seconds pass.
TimePasses ==
    /\ mapHeaders' = [h \in DOMAIN mapHeaders |->
          IF mapHeaders[h] = "requested" THEN "old" ELSE mapHeaders[h]]
    /\ UNCHANGED <<nBestHeight, g_nInFlight, nBlocksSinceRequest, mapOrphanBlocks, vNodes, node, losses>>

-----------------------------------------------------------------------------

Init ==
    /\ nBestHeight = 0
    /\ mapHeaders = <<>>
    /\ g_nInFlight = 0
    /\ nBlocksSinceRequest = 0
    /\ mapOrphanBlocks = <<>>
    /\ vNodes = {}
    /\ node = [p \in Peer |-> NewNode]
    /\ losses = 0

BlockArrives(p) ==
    \E h \in Block :
        \/ KnownBlock(p, h)
        \/ OrphanBlock(p, h)
        \/ AcceptBlock(p, h)

HeadersArrive(p) ==
    \E tip \in node[p].headers : Headers(p, tip)

Next ==
    \/ \E p \in Peer : Version(p) \/ Disconnect(p) \/ HeadersArrive(p) \/ Inv(p) \/ BlockArrives(p)
    \/ \E p \in Peer, queue \in BOOLEAN : Tick(p, queue)
    \/ TimePasses

\* Connections are opened again (ThreadOpenConnections), a peer answers every
\* request in the end, and Tick runs when all its timers have expired.
Fairness ==
    /\ \A p \in Peer :
          /\ WF_vars(Version(p))
          /\ WF_vars(Tick(p, TRUE))
          /\ WF_vars(HeadersArrive(p))
          /\ WF_vars(Inv(p))
          /\ WF_vars(BlockArrives(p))
    /\ WF_vars(TimePasses)

Spec == Init /\ [][Next]_vars /\ Fairness

-----------------------------------------------------------------------------
(* Properties                                                              *)

\* The types, and two bounds: g_nInFlight never passes the window, and the orphan
\* blocks never pass their limit.
TypeOK ==
    /\ nBestHeight \in 0 .. Top
    /\ DOMAIN mapHeaders \subseteq Block
    /\ \A h \in DOMAIN mapHeaders : mapHeaders[h] \in HeaderNode
    /\ g_nInFlight \in 0 .. Window
    /\ mapOrphanBlocks \in BoundedSeq(Block, MaxOrphans)
    /\ nBlocksSinceRequest \in 0 .. PipelineBlocks - 1
    /\ vNodes \subseteq Peer
    /\ \A p \in Peer : Range(node[p].blocks) \subseteq Block /\ node[p].headers \subseteq 0 .. Top
    /\ losses \in 0 .. MaxLosses

\* The O(1) counter g_nInFlight is the number of requested headers that the scan
\* it replaced would find, through every request, repeat, acceptance and promotion.
InFlightExact == g_nInFlight = Cardinality(RequestedIn(mapHeaders))

\* The headers bridge the connected chain and the header front without a hole, and
\* none is left of a block that is connected: GetDownloadPath can always be asked
\* for from the bottom.
HeadersBridge ==
    DOMAIN mapHeaders # {} => DOMAIN mapHeaders = (nBestHeight + 1) .. Max(DOMAIN mapHeaders)

\* Backpressure holds the header front within MaxAhead and one message of the
\* connected tip, whatever requests of several peers were under way.  With the
\* code's numbers that is below the size at which PruneHeaders begins to evict.
FrontBounded == Cardinality(DOMAIN mapHeaders) <= MaxAhead + HeadersLimit

\* No orphan is left behind whose parent is connected: nothing would ever promote
\* it, and ProcessBlock would refuse it when it comes again ("already have block
\* (orphan)").
OrphansWait == \A h \in Orphans : h > nBestHeight + 1

\* The download completes when connections no longer break: every block lost with
\* a peer is asked for again, through the window or through an announcement.
SyncCompletes == <>(nBestHeight = Top)

=============================================================================
