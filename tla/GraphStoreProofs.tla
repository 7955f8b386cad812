-------------------------- MODULE GraphStoreProofs -------------------------
(***************************************************************************)
(* What is proved of a GraphStore and of the Webgraph made of them, for    *)
(* any nodes and block size.                                               *)
(*                                                                         *)
(* IInv     with caches that have room for all nodes, node2id and id2node  *)
(*          are each other's inverse on the ids below next_id;             *)
(* EdgeInv  so the adjacency trees list given ids only, and the store is   *)
(*          the multigraph its callers take it for;                        *)
(* NameInv  with caches of any size, and after cut flushes: all versions   *)
(*          of all entries tell the truth by one naming of the ids;        *)
(* MergeInv so no version of a list of a segment, in the middle of a merge *)
(*          or not, has more places that name an edge than it was put, and *)
(*          a graph that is merged can name all ids it has given.          *)
(***************************************************************************)
EXTENDS GraphStore, Webgraph, LruTreeProofs

\* The first id not given out, of what meta reads as.
Next_(M) == IF NextIdKey \in DOMAIN M THEN M[NextIdKey] ELSE 0

\* Names, blocks of ids and the counter agree.
IdsAreGiven(N, B, M) ==
  \A id \in 0 .. Next_(M) - 1 : BlockOf(id) \in DOMAIN B /\ id \in DOMAIN B[BlockOf(id)]

NodesHaveIds(N, B, M) ==
  \A node \in DOMAIN N :
    /\ N[node] \in 0 .. Next_(M) - 1
    /\ BlockOf(N[node]) \in DOMAIN B /\ N[node] \in DOMAIN B[BlockOf(N[node])]
    /\ B[BlockOf(N[node])][N[node]] = node

BlocksNameNodes(N, B, M) ==
  \A b \in DOMAIN B :
    /\ DOMAIN B[b] /= {}
    /\ \A id \in DOMAIN B[b] :
         /\ id \in 0 .. Next_(M) - 1 /\ BlockOf(id) = b
         /\ B[b][id] \in DOMAIN N /\ N[B[b][id]] = id

Agree(N, B, M) ==
  /\ DOMAIN N \subseteq Nodes /\ DOMAIN M \subseteq {NextIdKey}
  /\ Next_(M) \in Nat /\ (NextIdKey \in DOMAIN M => Next_(M) > 0)
  /\ IdsAreGiven(N, B, M) /\ NodesHaveIds(N, B, M) /\ BlocksNameNodes(N, B, M)

----------------------------------------------------------------------------
\* The graphs of the invariant: five trees of any capacity, and when there is
\* room, three that agree, now and after a restart.
IsGraph(g) ==
  /\ DOMAIN g = Trees
  /\ \A f \in Trees : Shape(g[f]) /\ g[f].cap \in Nat \ {0}

Roomy(g) == IsGraph(g) /\ \A f \in Trees : g[f].cap >= Cardinality(Nodes)

TreesAreSound(g) ==
  /\ Sound(g.node2id, Nodes) /\ Sound(g.id2node, Nat) /\ Sound(g.meta, {NextIdKey})

Consistent(g) ==
  /\ TreesAreSound(g)
  /\ Agree(Content(g.node2id), Content(g.id2node), Content(g.meta))
  /\ Agree(Stored(g.node2id), Stored(g.id2node), Stored(g.meta))

IInv ==
  /\ IsGraph(graph)
  /\ HasRoom => Consistent(graph)

\* A call leaves five trees of the same capacities.
Kept(g, h) == IsGraph(h) /\ \A f \in Trees : h[f].cap = g[f].cap

\* Nodes keep their ids, and new nodes get new ones; the edges and all that is
\* stored stay as they are.
Grows(g, h) ==
  /\ \A f \in Trees : h[f].store = g[f].store
  /\ h.adjacency = g.adjacency /\ h.reversed_adjacency = g.reversed_adjacency
  /\ KeysOf(g.node2id) \subseteq KeysOf(h.node2id)
  /\ KeysOf(g.id2node) \subseteq KeysOf(h.id2node)
  /\ NextId(g) \in Nat /\ NextId(h) \in Nat /\ NextId(g) <= NextId(h)
  /\ \A node \in KeysOf(g.node2id) : IdOf(h, node) = IdOf(g, node)
  /\ \A node \in KeysOf(h.node2id) \ KeysOf(g.node2id) :
       IdOf(h, node) \in NextId(g) .. NextId(h) - 1

----------------------------------------------------------------------------
\* Ids.
LEMMA BlockType == ASSUME NEW id \in Nat PROVE BlockOf(id) \in Nat
  BY GraphAssumption DEF BlockOf

\* There are no more blocks than nodes: each block has an id of its own node.
LEMMA FewBlocks ==
  ASSUME NEW N, NEW B, NEW M, Agree(N, B, M)
  PROVE  /\ IsFiniteSet(DOMAIN N) /\ IsFiniteSet(DOMAIN B)
         /\ Cardinality(DOMAIN B) \in Nat /\ Cardinality(DOMAIN N) \in Nat
         /\ Cardinality(DOMAIN B) <= Cardinality(DOMAIN N)
         /\ Cardinality(Nodes) \in Nat
         /\ \A F \in SUBSET Nodes : /\ IsFiniteSet(F) /\ Cardinality(F) \in Nat
                                    /\ Cardinality(F) <= Cardinality(Nodes)
<1> DEFINE IdIn(b) == CHOOSE id \in DOMAIN B[b] : TRUE
           f == [b \in DOMAIN B |-> B[b][IdIn(b)]]
<1>1. \A F \in SUBSET Nodes : /\ IsFiniteSet(F) /\ Cardinality(F) \in Nat
                              /\ Cardinality(F) <= Cardinality(Nodes)
  BY GraphAssumption, FS_Subset, FS_CardinalityType
<1>2. IsFiniteSet(DOMAIN N) /\ Cardinality(DOMAIN N) \in Nat
  BY <1>1 DEF Agree
<1>3. \A b \in DOMAIN B : IdIn(b) \in DOMAIN B[b]
  BY DEF Agree, BlocksNameNodes
<1> HIDE DEF IdIn
<1>4. \A b \in DOMAIN B : f[b] \in DOMAIN N /\ N[f[b]] = IdIn(b) /\ BlockOf(IdIn(b)) = b
  BY <1>3 DEF Agree, BlocksNameNodes
<1>5. f \in Injection(DOMAIN B, DOMAIN N)
  BY <1>4 DEF Injection, IsInjective
<1>6. IsFiniteSet(DOMAIN B) /\ Cardinality(DOMAIN B) <= Cardinality(DOMAIN N)
  BY <1>2, <1>5, FS_Injection
<1>7. Cardinality(DOMAIN B) \in Nat /\ Cardinality(Nodes) \in Nat
  BY <1>6, GraphAssumption, FS_CardinalityType
<1>8. QED
  BY <1>1, <1>2, <1>6, <1>7

\* A new node gets the next id, in a block that is new or not.
Renamed(B, id, node) ==
  With(B, BlockOf(id), With(IF BlockOf(id) \in DOMAIN B THEN B[BlockOf(id)] ELSE NoEntries,
                            id, node))

LEMMA NewNodeAgrees ==
  ASSUME NEW N, NEW B, NEW M, Agree(N, B, M), NEW node \in Nodes, node \notin DOMAIN N
  PROVE  LET id == Next_(M)
         IN  Agree(With(N, node, id), Renamed(B, id, node), With(M, NextIdKey, id + 1))
<1> DEFINE id == Next_(M)
           block == BlockOf(id)
           N2 == With(N, node, id)
           B2 == Renamed(B, id, node)
           M2 == With(M, NextIdKey, id + 1)
           old == IF block \in DOMAIN B THEN B[block] ELSE NoEntries
<1>0. id \in Nat
  BY DEF Agree
<1>1. Next_(M2) = id + 1 /\ DOMAIN M2 \subseteq {NextIdKey} /\ NextIdKey \in DOMAIN M2
  BY DEF Next_, With, Agree
<1>2. /\ DOMAIN N2 = DOMAIN N \cup {node} /\ N2[node] = id
      /\ \A n \in DOMAIN N : N2[n] = N[n]
  BY DEF With
<1>3. /\ DOMAIN B2 = DOMAIN B \cup {block}
      /\ B2[block] = With(old, id, node)
      /\ \A b \in DOMAIN B \ {block} : B2[b] = B[b]
  BY DEF With, Renamed
<1>4. /\ DOMAIN B2[block] = DOMAIN old \cup {id} /\ B2[block][id] = node
      /\ \A i \in DOMAIN old \ {id} : B2[block][i] = old[i]
  BY <1>3 DEF With
<1>5. \A i \in DOMAIN old : /\ i \in 0 .. id - 1 /\ BlockOf(i) = block /\ block \in DOMAIN B
                            /\ i \in DOMAIN B[block] /\ old[i] = B[block][i]
  BY DEF NoEntries, Agree, BlocksNameNodes
<1>6. \A b \in DOMAIN B : \A i \in DOMAIN B[b] :
        b \in DOMAIN B2 /\ i \in DOMAIN B2[b] /\ B2[b][i] = B[b][i]
  <2> SUFFICES ASSUME NEW b \in DOMAIN B, NEW i \in DOMAIN B[b]
               PROVE  b \in DOMAIN B2 /\ i \in DOMAIN B2[b] /\ B2[b][i] = B[b][i]
    OBVIOUS
  <2>1. i /= id
    BY <1>0 DEF Agree, BlocksNameNodes
  <2> HIDE DEF B2, id
  <2>2. CASE b = block
    BY <1>3, <1>4, <2>1, <2>2
  <2>3. CASE b /= block
    BY <1>3, <2>3
  <2>4. QED
    BY <2>2, <2>3
<1> HIDE DEF id, block, N2, B2, M2, old
<1>7. IdsAreGiven(N2, B2, M2)
  <2> SUFFICES ASSUME NEW i \in 0 .. id
               PROVE  BlockOf(i) \in DOMAIN B2 /\ i \in DOMAIN B2[BlockOf(i)]
    BY <1>0, <1>1 DEF IdsAreGiven
  <2>1. CASE i = id
    BY <1>3, <1>4, <2>1 DEF block
  <2>2. CASE i /= id
    <3>1. i \in 0 .. Next_(M) - 1
      BY <1>0, <2>2 DEF id
    <3>2. BlockOf(i) \in DOMAIN B /\ i \in DOMAIN B[BlockOf(i)]
      BY <3>1 DEF Agree, IdsAreGiven
    <3>3. QED
      BY <1>6, <3>2
  <2>3. QED
    BY <2>1, <2>2
<1>8. NodesHaveIds(N2, B2, M2)
  <2> SUFFICES ASSUME NEW n \in DOMAIN N2
               PROVE  /\ N2[n] \in 0 .. id
                      /\ BlockOf(N2[n]) \in DOMAIN B2 /\ N2[n] \in DOMAIN B2[BlockOf(N2[n])]
                      /\ B2[BlockOf(N2[n])][N2[n]] = n
    BY <1>0, <1>1 DEF NodesHaveIds
  <2>1. CASE n = node
    BY <1>0, <1>2, <1>3, <1>4, <2>1 DEF block
  <2>2. CASE n /= node
    <3>1. n \in DOMAIN N /\ N2[n] = N[n]
      BY <1>2, <2>2
    <3>2. /\ N[n] \in 0 .. Next_(M) - 1
          /\ BlockOf(N[n]) \in DOMAIN B /\ N[n] \in DOMAIN B[BlockOf(N[n])]
          /\ B[BlockOf(N[n])][N[n]] = n
      BY <3>1 DEF Agree, NodesHaveIds
    <3>3. N[n] \in 0 .. id
      BY <1>0, <3>2 DEF id
    <3>4. QED
      BY <1>6, <3>1, <3>2, <3>3
  <2>3. QED
    BY <2>1, <2>2
<1>9. BlocksNameNodes(N2, B2, M2)
  <2> SUFFICES ASSUME NEW b \in DOMAIN B2
               PROVE  /\ DOMAIN B2[b] /= {}
                      /\ \A i \in DOMAIN B2[b] :
                           /\ i \in 0 .. id /\ BlockOf(i) = b
                           /\ B2[b][i] \in DOMAIN N2 /\ N2[B2[b][i]] = i
    BY <1>0, <1>1 DEF BlocksNameNodes
  <2>1. \A x \in DOMAIN B : /\ DOMAIN B[x] /= {}
                            /\ \A i \in DOMAIN B[x] :
                                 /\ i \in 0 .. id /\ BlockOf(i) = x
                                 /\ B[x][i] \in DOMAIN N /\ N[B[x][i]] = i
    BY <1>0 DEF Agree, BlocksNameNodes, id
  <2>2. CASE b = block
    <3>1. DOMAIN B2[b] /= {}
      BY <1>4, <2>2
    <3>2. ASSUME NEW i \in DOMAIN B2[b]
          PROVE  /\ i \in 0 .. id /\ BlockOf(i) = b
                 /\ B2[b][i] \in DOMAIN N2 /\ N2[B2[b][i]] = i
      <4>1. CASE i = id
        BY <1>0, <1>2, <1>4, <2>2, <4>1 DEF block
      <4>2. CASE i /= id
        <5>1. i \in DOMAIN old /\ B2[b][i] = old[i]
          BY <1>4, <2>2, <3>2, <4>2
        <5>2. block \in DOMAIN B /\ i \in DOMAIN B[block] /\ B2[b][i] = B[block][i]
          BY <1>5, <5>1
        <5>3. QED
          BY <1>2, <2>1, <2>2, <5>2
      <4>3. QED
        BY <4>1, <4>2
    <3>3. QED
      BY <3>1, <3>2
  <2>3. CASE b /= block
    <3>1. b \in DOMAIN B /\ B2[b] = B[b]
      BY <1>3, <2>3
    <3>2. QED
      BY <1>2, <2>1, <3>1
  <2>4. QED
    BY <2>2, <2>3
<1>10. DOMAIN N2 \subseteq Nodes /\ Next_(M2) \in Nat /\ Next_(M2) > 0
  BY <1>0, <1>1, <1>2 DEF Agree
<1>11. Agree(N2, B2, M2)
  BY <1>1, <1>7, <1>8, <1>9, <1>10 DEF Agree
<1>12. QED
  BY <1>11 DEF N2, B2, M2, id
----------------------------------------------------------------------------
\* Room in the caches.
LEMMA TreeNames ==
  /\ Trees = {"adjacency", "reversed_adjacency", "node2id", "id2node", "meta"}
  /\ {"node2id", "id2node", "meta", "adjacency", "reversed_adjacency"} \subseteq Trees
  BY DEF Trees

LEMMA Capacity ==
  ASSUME NEW g, Roomy(g), NEW f \in Trees
  PROVE  g[f].cap \in Nat \ {0} /\ Cardinality(Nodes) <= g[f].cap /\ Shape(g[f])
<1>1. Cardinality(Nodes) \in Nat
  BY GraphAssumption, FS_CardinalityType
<1>2. QED
  BY <1>1 DEF Roomy, IsGraph

LEMMA RoomForNode ==
  ASSUME NEW g, Roomy(g), Consistent(g),
         NEW node \in Nodes, node \notin DOMAIN g.node2id.cache
  PROVE  ~IsFull(g.node2id)
<1>1. Sound(g.node2id, Nodes) /\ DOMAIN g.node2id.cache \subseteq Nodes
  BY DEF Consistent, TreesAreSound, Sound
<1>2. g.node2id.cap \in Nat /\ Cardinality(Nodes) <= g.node2id.cap
  BY TreeNames, Capacity
<1>3. QED
  BY <1>1, <1>2, NotYetFull, GraphAssumption

LEMMA RoomForKnownBlock ==
  ASSUME NEW g, Roomy(g), Consistent(g),
         NEW b \in KeysOf(g.id2node), b \notin DOMAIN g.id2node.cache
  PROVE  ~IsFull(g.id2node)
<1> DEFINE F == KeysOf(g.id2node)
<1>1. /\ IsFiniteSet(DOMAIN Content(g.id2node))
      /\ Cardinality(DOMAIN Content(g.id2node)) \in Nat
      /\ Cardinality(DOMAIN Content(g.node2id)) \in Nat
      /\ Cardinality(Nodes) \in Nat
      /\ Cardinality(DOMAIN Content(g.id2node)) <= Cardinality(DOMAIN Content(g.node2id))
      /\ Cardinality(DOMAIN Content(g.node2id)) <= Cardinality(Nodes)
  BY FewBlocks DEF Consistent, Agree
<1>2. DOMAIN Content(g.id2node) = F
  BY DEF Content
<1>3. g.id2node.cap \in Nat /\ Cardinality(Nodes) <= g.id2node.cap
  BY TreeNames, Capacity
<1>4. IsFiniteSet(F) /\ Cardinality(F) <= g.id2node.cap
  BY <1>1, <1>2, <1>3
<1>5. Sound(g.id2node, Nat) /\ DOMAIN g.id2node.cache \subseteq F
  BY DEF Consistent, TreesAreSound, KeysOf
<1> HIDE DEF F
<1>6. b \in F
  BY DEF F
<1>7. QED
  BY <1>3, <1>4, <1>5, <1>6, NotYetFull

LEMMA RoomForNewBlock ==
  ASSUME NEW g, Roomy(g), Consistent(g),
         NEW node \in Nodes, node \notin DOMAIN Content(g.node2id),
         NEW b, b \notin KeysOf(g.id2node)
  PROVE  ~IsFull(g.id2node)
<1> DEFINE N == DOMAIN Content(g.node2id)
           B == KeysOf(g.id2node)
           F == B \cup {b}
<1>0. DOMAIN Content(g.id2node) = B
  BY DEF Content
<1>1. /\ IsFiniteSet(N) /\ IsFiniteSet(B)
      /\ Cardinality(B) \in Nat /\ Cardinality(N) \in Nat /\ Cardinality(Nodes) \in Nat
      /\ Cardinality(B) <= Cardinality(N)
      /\ N \subseteq Nodes
      /\ \A S \in SUBSET Nodes : Cardinality(S) <= Cardinality(Nodes)
  BY <1>0, FewBlocks DEF Consistent, Agree
<1> HIDE DEF N, B
<1>2. node \notin N /\ b \notin B
  BY DEF N, B
<1>3. Cardinality(N \cup {node}) = Cardinality(N) + 1 /\ Cardinality(N \cup {node}) <= Cardinality(Nodes)
  BY <1>1, <1>2, FS_AddElement
<1>4. IsFiniteSet(F) /\ Cardinality(F) = Cardinality(B) + 1
  BY <1>1, <1>2, FS_AddElement
<1>5. g.id2node.cap \in Nat /\ Cardinality(Nodes) <= g.id2node.cap
  BY TreeNames, Capacity
<1>6. Cardinality(F) <= g.id2node.cap
  BY <1>1, <1>3, <1>4, <1>5
<1>7. Sound(g.id2node, Nat) /\ DOMAIN g.id2node.cache \subseteq F /\ b \notin DOMAIN g.id2node.cache
  BY DEF Consistent, TreesAreSound, KeysOf, B
<1> HIDE DEF F
<1>8. b \in F
  BY DEF F
<1>9. QED
  BY <1>4, <1>5, <1>6, <1>7, <1>8, NotYetFull

LEMMA TwoElements ==
  ASSUME NEW a, NEW b, a /= b
  PROVE  IsFiniteSet({a, b}) /\ Cardinality({a, b}) = 2
<1>1. IsFiniteSet({a}) /\ Cardinality({a}) = 1
  BY FS_Singleton
<1>2. {a} \cup {b} = {a, b} /\ b \notin {a}
  OBVIOUS
<1>3. Cardinality({a} \cup {b}) = Cardinality({a}) + 1 /\ IsFiniteSet({a} \cup {b})
  BY <1>1, <1>2, FS_AddElement
<1>4. QED
  BY <1>1, <1>2, <1>3

\* The counter has a place of its own as soon as there are two nodes, and
\* before it is there another one is known.
LEMMA RoomForCounter ==
  ASSUME NEW g, Roomy(g), Consistent(g),
         NEW node \in Nodes, node \notin DOMAIN Content(g.node2id),
         NEW t, Sound(t, {NextIdKey}), t.cap = g.meta.cap, KeysOf(t) = KeysOf(g.meta)
  PROVE  ~IsFull(t)
<1> DEFINE N == Content(g.node2id)
           B == Content(g.id2node)
           M == Content(g.meta)
<1>1. t.cap \in Nat \ {0} /\ Cardinality(Nodes) <= t.cap
  BY TreeNames, Capacity
<1>2. DOMAIN t.cache \subseteq {NextIdKey}
  BY DEF Sound
<1>3. CASE NextIdKey \in KeysOf(g.meta)
  <2>1. Agree(N, B, M) /\ NextIdKey \in DOMAIN M
    BY <1>3 DEF Consistent, Content
  <2> HIDE DEF N, B, M
  <2>2. 0 \in 0 .. Next_(M) - 1
    BY <2>1 DEF Agree
  <2>3. BlockOf(0) \in DOMAIN B /\ 0 \in DOMAIN B[BlockOf(0)]
    BY <2>1, <2>2 DEF Agree, IdsAreGiven
  <2>4. PICK other \in DOMAIN N : TRUE
    BY <2>1, <2>3 DEF Agree, BlocksNameNodes
  <2>5. other \in Nodes /\ node \notin DOMAIN N
    BY <2>1 DEF Agree, N
  <2>6. other /= node
    BY <2>5
  <2>7. IsFiniteSet({other, node}) /\ Cardinality({other, node}) = 2
    BY <2>6, TwoElements
  <2>8. 2 <= t.cap
    <3>1. {other, node} \in SUBSET Nodes
      BY <2>5
    <3>2. 2 <= Cardinality(Nodes) /\ Cardinality(Nodes) \in Nat
      BY <2>1, <2>7, <3>1, FewBlocks
    <3>3. QED
      BY <1>1, <3>2
  <2>9. IsFiniteSet({NextIdKey, "other"}) /\ Cardinality({NextIdKey, "other"}) = 2
    <3>1. NextIdKey /= "other"
      BY DEF NextIdKey
    <3>2. QED
      BY <3>1, TwoElements
  <2>10. "other" \notin DOMAIN t.cache
    BY <1>2 DEF NextIdKey
  <2>11. QED
    BY <1>1, <1>2, <2>8, <2>9, <2>10, NotYetFull
<1>4. CASE NextIdKey \notin KeysOf(g.meta)
  <2>1. NextIdKey \notin DOMAIN t.cache
    BY <1>4 DEF KeysOf
  <2>2. IsFiniteSet({NextIdKey}) /\ Cardinality({NextIdKey}) = 1
    BY FS_Singleton
  <2>3. QED
    BY <1>1, <1>2, <2>1, <2>2, NotYetFull
<1>5. QED
  BY <1>3, <1>4

----------------------------------------------------------------------------
\* Only the stores tell what is left after a restart.
LEMMA SameStores ==
  ASSUME NEW t, NEW u, u.store = t.store
  PROVE  Stored(u) = Stored(t)
  BY DEF Stored

\* A graph whose three trees read the same, now and after a restart.
LEMMA SameContents ==
  ASSUME NEW g, Consistent(g), NEW h, TreesAreSound(h),
         Content(h.node2id) = Content(g.node2id), Content(h.id2node) = Content(g.id2node),
         Content(h.meta) = Content(g.meta),
         h.node2id.store = g.node2id.store, h.id2node.store = g.id2node.store,
         h.meta.store = g.meta.store
  PROVE  Consistent(h)
  BY SameStores DEF Consistent

\* Reading.
LEMMA ReadNode ==
  ASSUME NEW g, Roomy(g), Consistent(g), NEW node \in Nodes
  PROVE  LET u == Get(g.node2id, node)
         IN  /\ Sound(u, Nodes) /\ u.store = g.node2id.store
             /\ Content(u) = Content(g.node2id)
             /\ DOMAIN u.cache \subseteq DOMAIN g.node2id.cache \cup {node}
<1>1. node \in DOMAIN g.node2id.store \ DOMAIN g.node2id.cache => ~IsFull(g.node2id)
  BY RoomForNode
<1>2. Sound(g.node2id, Nodes)
  BY DEF Consistent, TreesAreSound
<1>3. QED
  BY <1>1, <1>2, GetInRoom

LEMMA ReadBlock ==
  ASSUME NEW g, Roomy(g), Consistent(g), NEW id \in Nat
  PROVE  LET u == BlockedGet(g.id2node, id)
         IN  /\ Sound(u, Nat) /\ u.store = g.id2node.store
             /\ Content(u) = Content(g.id2node)
<1> DEFINE b == BlockOf(id)
<1>0. b \in Nat
  BY BlockType
<1> HIDE DEF b
<1>1. b \in DOMAIN g.id2node.store \ DOMAIN g.id2node.cache => ~IsFull(g.id2node)
  BY RoomForKnownBlock DEF KeysOf
<1>2. Sound(g.id2node, Nat)
  BY DEF Consistent, TreesAreSound
<1>3. QED
  BY <1>0, <1>1, <1>2, GetInRoom DEF BlockedGet, b

LEMMA CountOn ==
  ASSUME NEW g, Roomy(g), Consistent(g),
         NEW node \in Nodes, node \notin DOMAIN Content(g.node2id), NEW v
  PROVE  LET u == Insert(Get(g.meta, NextIdKey), NextIdKey, v)
         IN  /\ Sound(u, {NextIdKey}) /\ u.store = g.meta.store
             /\ Content(u) = With(Content(g.meta), NextIdKey, v)
<1> DEFINE w == Get(g.meta, NextIdKey)
<1>1. Sound(g.meta, {NextIdKey})
  BY DEF Consistent, TreesAreSound
<1>2. ~IsFull(g.meta)
  BY <1>1, RoomForCounter
<1>3. Sound(w, {NextIdKey}) /\ w.store = g.meta.store /\ Content(w) = Content(g.meta)
  BY <1>1, <1>2, GetInRoom
<1>4. w.cap = g.meta.cap
  BY <1>1, GetShape DEF Sound, Resized
<1> HIDE DEF w
<1>5. KeysOf(w) = KeysOf(g.meta)
  <2>1. KeysOf(w) = DOMAIN Content(w) /\ KeysOf(g.meta) = DOMAIN Content(g.meta)
    BY DEF Content
  <2>2. QED
    BY <1>3, <2>1
<1>6. ~IsFull(w)
  BY <1>3, <1>4, <1>5, RoomForCounter
<1>7. QED
  BY <1>3, <1>6, InsertInRoom DEF w

\* A value set in a block, of a tree with room for the block.
LEMMA SetInRoom ==
  ASSUME NEW t, Sound(t, Nat), NEW id \in Nat, NEW v,
         BlockOf(id) \notin DOMAIN t.cache => ~IsFull(t)
  PROVE  LET u == BlockedInsert(t, id, v)
         IN  Sound(u, Nat) /\ u.store = t.store /\ Content(u) = Renamed(Content(t), id, v)
<1> DEFINE b == BlockOf(id)
           u == BlockedInsert(t, id, v)
<1>0. /\ b \in Nat /\ DOMAIN Content(t) = KeysOf(t)
      /\ \A x \in KeysOf(t) : Content(t)[x] = Peek(t, x)
  BY BlockType DEF Content
<1>1. CASE Known(t, b)
  <2>1. b \in KeysOf(t)
    BY <1>1 DEF Known, KeysOf
  <2>2. u = Mutate(t, b, With(Peek(t, b), id, v))
    BY <1>1 DEF BlockedInsert
  <2>3. Renamed(Content(t), id, v) = With(Content(t), b, With(Peek(t, b), id, v))
    BY <1>0, <2>1 DEF Renamed
  <2>4. b \in DOMAIN t.store \ DOMAIN t.cache => ~IsFull(t)
    OBVIOUS
  <2> HIDE DEF b, u
  <2>5. QED
    BY <1>0, <2>1, <2>2, <2>3, <2>4, MutateInRoom DEF u
<1>2. CASE ~Known(t, b)
  <2>1. b \notin KeysOf(t) /\ ~IsFull(t)
    BY <1>2 DEF Known, KeysOf
  <2>2. u = Insert(t, b, With(NoEntries, id, v))
    BY <1>2 DEF BlockedInsert
  <2>3. Renamed(Content(t), id, v) = With(Content(t), b, With(NoEntries, id, v))
    BY <1>0, <2>1 DEF Renamed
  <2> HIDE DEF b, u
  <2>4. QED
    BY <1>0, <2>1, <2>2, <2>3, InsertInRoom DEF u
<1>3. QED
  BY <1>1, <1>2

LEMMA NameId ==
  ASSUME NEW g, Roomy(g), Consistent(g),
         NEW node \in Nodes, node \notin DOMAIN Content(g.node2id), NEW id \in Nat
  PROVE  LET u == BlockedInsert(g.id2node, id, node)
         IN  /\ Sound(u, Nat) /\ u.store = g.id2node.store
             /\ Content(u) = Renamed(Content(g.id2node), id, node)
<1>1. Sound(g.id2node, Nat)
  BY DEF Consistent, TreesAreSound
<1>2. BlockOf(id) \notin DOMAIN g.id2node.cache => ~IsFull(g.id2node)
  BY RoomForKnownBlock, RoomForNewBlock
<1>3. QED
  BY <1>1, <1>2, SetInRoom

LEMMA NameNode ==
  ASSUME NEW g, Roomy(g), Consistent(g),
         NEW node \in Nodes, node \notin DOMAIN Content(g.node2id), NEW id
  PROVE  LET u == Insert(Get(g.node2id, node), node, id)
         IN  /\ Sound(u, Nodes) /\ u.store = g.node2id.store
             /\ Content(u) = With(Content(g.node2id), node, id)
<1> DEFINE w == Get(g.node2id, node)
           h == [g EXCEPT !.node2id = w]
<1>1. Sound(w, Nodes) /\ w.store = g.node2id.store /\ Content(w) = Content(g.node2id)
  BY ReadNode
<1>2. Resized(g.node2id, w)
  BY GetShape DEF Consistent, TreesAreSound, Sound
<1> HIDE DEF w
<1>3. /\ h.node2id = w /\ h.id2node = g.id2node /\ h.meta = g.meta /\ DOMAIN h = Trees
      /\ \A f \in Trees : Shape(h[f]) /\ h[f].cap = g[f].cap
  BY <1>2, TreeNames DEF Roomy, IsGraph, Resized
<1> HIDE DEF h
<1>4. Roomy(h)
  BY <1>3 DEF Roomy, IsGraph
<1>5. Consistent(h)
  <2>1. TreesAreSound(h)
    BY <1>1, <1>3 DEF Consistent, TreesAreSound
  <2>2. QED
    BY <1>1, <1>3, <2>1, SameContents
<1>6. node \notin DOMAIN w.cache
  <2>1. DOMAIN Content(w) = KeysOf(w)
    BY DEF Content
  <2>2. QED
    BY <1>1, <2>1 DEF KeysOf
<1>7. ~IsFull(w)
  BY <1>3, <1>4, <1>5, <1>6, RoomForNode
<1>8. QED
  BY <1>1, <1>7, InsertInRoom DEF w

----------------------------------------------------------------------------
\* Calls on whole graphs: the trees they leave.
LEMMA BlockedShape ==
  ASSUME NEW t, Shape(t), NEW id, NEW v
  PROVE  Resized(t, BlockedInsert(t, id, v)) /\ Resized(t, BlockedGet(t, id))
<1>1. Resized(t, BlockedInsert(t, id, v))
  BY MutateShape, InsertShape DEF BlockedInsert
<1>2. Resized(t, BlockedGet(t, id))
  BY GetShape DEF BlockedGet
<1>3. QED
  BY <1>1, <1>2

LEMMA OneTree ==
  ASSUME NEW g, IsGraph(g), NEW f \in Trees, NEW h, DOMAIN h = Trees,
         Resized(g[f], h[f]), \A e \in Trees \ {f} : h[e] = g[e]
  PROVE  Kept(g, h)
<1>1. \A e \in Trees : Shape(h[e]) /\ h[e].cap = g[e].cap
  BY DEF IsGraph, Resized
<1>2. QED
  BY <1>1 DEF Kept, IsGraph

LEMMA LookUpLeaves ==
  ASSUME NEW g, IsGraph(g), NEW node
  PROVE  LET h == LookUpNode(g, node)
         IN  /\ Kept(g, h) /\ h.node2id = Get(g.node2id, node)
             /\ h.id2node = g.id2node /\ h.meta = g.meta
             /\ h.adjacency = g.adjacency /\ h.reversed_adjacency = g.reversed_adjacency
<1> DEFINE h == LookUpNode(g, node)
           u == Get(g.node2id, node)
<1>1. "node2id" \in Trees /\ Resized(g["node2id"], u)
  BY TreeNames, GetShape DEF IsGraph
<1>2. h = [g EXCEPT !["node2id"] = u]
  BY DEF LookUpNode
<1> HIDE DEF h, u
<1>3. /\ DOMAIN h = Trees /\ h["node2id"] = u
      /\ \A e \in Trees \ {"node2id"} : h[e] = g[e]
  BY <1>1, <1>2 DEF IsGraph
<1>4. Kept(g, h)
  BY <1>1, <1>3, OneTree
<1>5. {"id2node", "meta", "adjacency", "reversed_adjacency"} \subseteq Trees \ {"node2id"}
  BY DEF Trees
<1>6. QED
  BY <1>3, <1>4, <1>5 DEF h, u

LEMMA NewIdLeaves ==
  ASSUME NEW g, IsGraph(g), NEW node, ~Known(g.node2id, node)
  PROVE  LET h == IdOrAssign(g, node)
             id == NextId(g)
         IN  /\ Kept(g, h)
             /\ h.node2id = Insert(Get(g.node2id, node), node, id)
             /\ h.id2node = BlockedInsert(g.id2node, id, node)
             /\ h.meta = Insert(Get(g.meta, NextIdKey), NextIdKey, id + 1)
             /\ h.adjacency = g.adjacency /\ h.reversed_adjacency = g.reversed_adjacency
<1> DEFINE id == NextId(g)
           seen == LookUpNode(g, node)
           counted == IncrementNextId(seen)
           h == AssignId(counted, node, id)
           n == Insert(Get(g.node2id, node), node, id)
           b == BlockedInsert(g.id2node, id, node)
           m == Insert(Get(g.meta, NextIdKey), NextIdKey, id + 1)
<1>0. IdOrAssign(g, node) = h
  BY DEF IdOrAssign
<1>1. /\ Kept(g, seen) /\ seen.node2id = Get(g.node2id, node)
      /\ seen.id2node = g.id2node /\ seen.meta = g.meta
      /\ seen.adjacency = g.adjacency /\ seen.reversed_adjacency = g.reversed_adjacency
  BY LookUpLeaves
<1>2. NextId(seen) = id
  BY <1>1 DEF NextId
<1>3. Resized(g.node2id, n) /\ Resized(g.id2node, b) /\ Resized(g.meta, m)
  <2>1. Shape(g.node2id) /\ Shape(g.id2node) /\ Shape(g.meta)
    BY TreeNames DEF IsGraph
  <2>2. Resized(g.node2id, n)
    BY <2>1, GetShape, InsertShape DEF Resized
  <2>3. Resized(g.meta, m)
    BY <2>1, GetShape, InsertShape DEF Resized
  <2>4. Resized(g.id2node, b)
    BY <2>1, BlockedShape
  <2>5. QED
    BY <2>2, <2>3, <2>4
<1> HIDE DEF id, seen
<1>4. counted = [seen EXCEPT !.meta = m]
  BY <1>1, <1>2 DEF IncrementNextId
<1>5. h = [counted EXCEPT !.node2id = n, !.id2node = b]
  <2>1. counted.node2id = seen.node2id /\ counted.id2node = seen.id2node
    BY <1>1, <1>4 DEF Kept, IsGraph, Trees
  <2>2. QED
    BY <1>1, <2>1 DEF AssignId
<1> HIDE DEF n, b, m, counted, h
<1>6. /\ DOMAIN h = Trees /\ h.node2id = n /\ h.id2node = b /\ h.meta = m
      /\ h.adjacency = seen.adjacency /\ h.reversed_adjacency = seen.reversed_adjacency
  BY <1>1, <1>4, <1>5, TreeNames DEF Kept, IsGraph
<1>7. Kept(g, h)
  <2>1. \A f \in {"node2id", "id2node", "meta"} : Resized(g[f], h[f])
    BY <1>3, <1>6
  <2>2. \A f \in {"adjacency", "reversed_adjacency"} : h[f] = seen[f]
    BY <1>6
  <2>3. \A f \in Trees : Shape(h[f]) /\ h[f].cap = g[f].cap
    BY <1>1, <2>1, <2>2 DEF Trees, Kept, IsGraph, Resized
  <2>4. QED
    BY <1>6, <2>3 DEF Kept, IsGraph
<1>8. QED
  BY <1>0, <1>1, <1>6, <1>7 DEF n, b, m, id

\* What the contents say of single entries, and of the counter.
LEMMA ReadFrom ==
  ASSUME NEW t
  PROVE  /\ DOMAIN Content(t) = KeysOf(t)
         /\ \A k \in KeysOf(t) : Content(t)[k] = Peek(t, k)
  BY DEF Content

LEMMA ReadNextId ==
  ASSUME NEW g PROVE NextId(g) = Next_(Content(g.meta))
  BY DEF NextId, Next_, Known, Content, KeysOf

LEMMA LooksUpConsistently ==
  ASSUME NEW g, Roomy(g), Consistent(g), NEW node \in Nodes
  PROVE  LET h == LookUpNode(g, node)
         IN  Consistent(h) /\ Grows(g, h) /\ KeysOf(h.node2id) = KeysOf(g.node2id)
<1> DEFINE h == LookUpNode(g, node)
           w == Get(g.node2id, node)
<1>1. /\ DOMAIN h = Trees /\ h.node2id = w /\ h.id2node = g.id2node /\ h.meta = g.meta
      /\ h.adjacency = g.adjacency /\ h.reversed_adjacency = g.reversed_adjacency
  BY LookUpLeaves DEF Roomy, Kept, IsGraph
<1>2. Sound(w, Nodes) /\ w.store = g.node2id.store /\ Content(w) = Content(g.node2id)
  BY ReadNode
<1> HIDE DEF h, w
<1>3. TreesAreSound(h)
  BY <1>1, <1>2 DEF Consistent, TreesAreSound
<1>4. Consistent(h)
  BY <1>1, <1>2, <1>3, SameContents
<1>5. KeysOf(w) = KeysOf(g.node2id) /\ \A k \in KeysOf(w) : Peek(w, k) = Peek(g.node2id, k)
  BY <1>2, ReadFrom
<1>6. NextId(g) \in Nat /\ NextId(h) = NextId(g)
  BY <1>1, ReadNextId DEF Consistent, Agree
<1>7. \A f \in Trees : h[f].store = g[f].store
  BY <1>1, <1>2 DEF Trees
<1>8. Grows(g, h)
  BY <1>1, <1>5, <1>6, <1>7 DEF Grows, IdOf
<1>9. QED
  BY <1>1, <1>4, <1>5, <1>8 DEF h

LEMMA AssignsConsistently ==
  ASSUME NEW g, Roomy(g), Consistent(g), NEW node \in Nodes, ~Known(g.node2id, node)
  PROVE  LET h == IdOrAssign(g, node)
         IN  Consistent(h) /\ Grows(g, h) /\ KeysOf(h.node2id) = KeysOf(g.node2id) \cup {node}
<1> DEFINE h == IdOrAssign(g, node)
           id == NextId(g)
           N == Content(g.node2id)
           B == Content(g.id2node)
           M == Content(g.meta)
<1>1. /\ DOMAIN h = Trees
      /\ h.node2id = Insert(Get(g.node2id, node), node, id)
      /\ h.id2node = BlockedInsert(g.id2node, id, node)
      /\ h.meta = Insert(Get(g.meta, NextIdKey), NextIdKey, id + 1)
      /\ h.adjacency = g.adjacency /\ h.reversed_adjacency = g.reversed_adjacency
  BY NewIdLeaves DEF Roomy, Kept, IsGraph
<1>2. id = Next_(M) /\ node \notin DOMAIN N
  BY ReadNextId, ReadFrom DEF Known, KeysOf
<1> HIDE DEF h
<1>3. Agree(N, B, M) /\ id \in Nat
  BY <1>2 DEF Consistent, Agree
<1>4. Agree(With(N, node, id), Renamed(B, id, node), With(M, NextIdKey, id + 1))
  <2> HIDE DEF N, B, M, id
  <2>1. QED
    BY <1>2, <1>3, NewNodeAgrees
<1>5. /\ Sound(h.node2id, Nodes) /\ h.node2id.store = g.node2id.store
      /\ Content(h.node2id) = With(N, node, id)
  BY <1>1, <1>2, NameNode
<1>6. /\ Sound(h.id2node, Nat) /\ h.id2node.store = g.id2node.store
      /\ Content(h.id2node) = Renamed(B, id, node)
  BY <1>1, <1>2, <1>3, NameId
<1>7. /\ Sound(h.meta, {NextIdKey}) /\ h.meta.store = g.meta.store
      /\ Content(h.meta) = With(M, NextIdKey, id + 1)
  BY <1>1, <1>2, CountOn
<1>8. /\ DOMAIN N = KeysOf(g.node2id) /\ \A k \in DOMAIN N : N[k] = IdOf(g, k)
      /\ DOMAIN B = KeysOf(g.id2node)
  BY ReadFrom DEF IdOf
<1>9. /\ KeysOf(h.node2id) = DOMAIN With(N, node, id)
      /\ \A k \in KeysOf(h.node2id) : IdOf(h, k) = With(N, node, id)[k]
      /\ KeysOf(h.id2node) = DOMAIN Renamed(B, id, node)
  BY <1>5, <1>6, ReadFrom DEF IdOf
<1> HIDE DEF N, B, M, id
<1>10. Consistent(h)
  <2>1. Agree(Content(h.node2id), Content(h.id2node), Content(h.meta))
    BY <1>4, <1>5, <1>6, <1>7
  <2>2. Agree(Stored(h.node2id), Stored(h.id2node), Stored(h.meta))
    BY <1>5, <1>6, <1>7, SameStores DEF Consistent
  <2>3. QED
    BY <1>5, <1>6, <1>7, <2>1, <2>2 DEF Consistent, TreesAreSound
<1>11. KeysOf(h.node2id) = KeysOf(g.node2id) \cup {node}
       /\ IdOf(h, node) = id /\ \A k \in KeysOf(g.node2id) : IdOf(h, k) = IdOf(g, k)
  BY <1>2, <1>8, <1>9 DEF With
<1>12. KeysOf(g.id2node) \subseteq KeysOf(h.id2node)
  BY <1>8, <1>9 DEF Renamed, With
<1>13. NextId(h) = id + 1
  BY <1>7, ReadNextId DEF Next_, With
<1>14. \A f \in Trees : h[f].store = g[f].store
  BY <1>1, <1>5, <1>6, <1>7 DEF Trees
<1>15. NextId(g) = id
  BY DEF id
<1>16. Grows(g, h)
  BY <1>1, <1>3, <1>11, <1>12, <1>13, <1>14, <1>15 DEF Grows
<1>17. QED
  BY <1>10, <1>11, <1>16 DEF h

\* id_or_assign keeps names, blocks and the counter in agreement.
LEMMA IdOrAssignAgrees ==
  ASSUME NEW g, IsGraph(g), NEW node \in Nodes
  PROVE  LET h == IdOrAssign(g, node)
         IN  /\ Kept(g, h)
             /\ Roomy(g) /\ Consistent(g) =>
                  Consistent(h) /\ Grows(g, h) /\ KeysOf(h.node2id) = KeysOf(g.node2id) \cup {node}
<1>1. CASE Known(g.node2id, node)
  <2>1. IdOrAssign(g, node) = LookUpNode(g, node) /\ node \in KeysOf(g.node2id)
    BY <1>1 DEF IdOrAssign, Known, KeysOf
  <2>2. KeysOf(g.node2id) \cup {node} = KeysOf(g.node2id)
    BY <2>1
  <2>3. QED
    BY <2>1, <2>2, LookUpLeaves, LooksUpConsistently
<1>2. CASE ~Known(g.node2id, node)
  BY <1>2, NewIdLeaves, AssignsConsistently
<1>3. QED
  BY <1>1, <1>2

LEMMA RoomIsKept ==
  ASSUME NEW g, Roomy(g), NEW h, Kept(g, h) PROVE Roomy(h)
  BY DEF Roomy, Kept

LEMMA InsertEdgeAgrees ==
  ASSUME NEW g, IsGraph(g), NEW from \in Nodes, NEW to \in Nodes
  PROVE  LET h == InsertEdge(g, from, to)
         IN  Kept(g, h) /\ (Roomy(g) /\ Consistent(g) => Consistent(h))
<1> DEFINE g1 == IdOrAssign(g, from)
           g2 == IdOrAssign(g1, to)
           i == IdOf(g1, from)
           j == IdOf(g2, to)
           a == AdjacencyInsert(g2.adjacency, i, j)
           r == AdjacencyInsert(g2.reversed_adjacency, j, i)
           h == InsertEdge(g, from, to)
<1>0. h = [g2 EXCEPT !.adjacency = a, !.reversed_adjacency = r]
  BY DEF InsertEdge
<1>1. Kept(g, g1) /\ (Roomy(g) /\ Consistent(g) => Consistent(g1))
  BY IdOrAssignAgrees
<1> HIDE DEF g1
<1>2. Kept(g1, g2) /\ (Roomy(g1) /\ Consistent(g1) => Consistent(g2))
  BY <1>1, IdOrAssignAgrees DEF Kept
<1> HIDE DEF g2, h, i, j
<1>3. Resized(g2.adjacency, a) /\ Resized(g2.reversed_adjacency, r)
  <2>1. Shape(g2.adjacency) /\ Shape(g2.reversed_adjacency)
    BY <1>2, TreeNames DEF Kept, IsGraph
  <2>2. QED
    BY <2>1, BlockedShape DEF AdjacencyInsert
<1> HIDE DEF a, r
<1>4. /\ DOMAIN h = Trees /\ h.adjacency = a /\ h.reversed_adjacency = r
      /\ h.node2id = g2.node2id /\ h.id2node = g2.id2node /\ h.meta = g2.meta
  BY <1>0, <1>2, TreeNames DEF Kept, IsGraph
<1>5. Kept(g, h)
  <2>1. \A f \in {"adjacency", "reversed_adjacency"} : Resized(g2[f], h[f])
    BY <1>3, <1>4
  <2>2. \A f \in {"node2id", "id2node", "meta"} : h[f] = g2[f]
    BY <1>4
  <2>3. \A f \in Trees : Shape(h[f]) /\ h[f].cap = g2[f].cap
    BY <1>2, <2>1, <2>2 DEF Trees, Kept, IsGraph, Resized
  <2>4. QED
    BY <1>1, <1>2, <1>4, <2>3 DEF Kept, IsGraph
<1>6. ASSUME Roomy(g), Consistent(g) PROVE Consistent(h)
  <2>1. Consistent(g2)
    BY <1>1, <1>2, <1>6, RoomIsKept
  <2>2. TreesAreSound(h)
    BY <1>4, <2>1 DEF Consistent, TreesAreSound
  <2>3. QED
    BY <1>4, <2>1, <2>2, SameContents
<1>7. QED
  BY <1>5, <1>6 DEF h

----------------------------------------------------------------------------
\* Flushes and restarts, of whole graphs or cut.
LEMMA FlushAgrees ==
  ASSUME NEW g, IsGraph(g)
  PROVE  LET h == FlushGraph(g) IN Kept(g, h) /\ (Consistent(g) => Consistent(h))
<1> DEFINE h == FlushGraph(g)
<1>1. DOMAIN h = Trees /\ \A f \in Trees : h[f] = Flush(g[f])
  BY DEF FlushGraph, IsGraph
<1> HIDE DEF h
<1>2. Kept(g, h)
  BY <1>1, FlushShape DEF Kept, IsGraph, Resized
<1>3. /\ h.node2id = Flush(g.node2id) /\ h.id2node = Flush(g.id2node)
      /\ h.meta = Flush(g.meta)
  BY <1>1, TreeNames
<1>4. ASSUME Consistent(g) PROVE Consistent(h)
  <2>1. /\ Sound(h.node2id, Nodes) /\ Content(h.node2id) = Content(g.node2id)
        /\ Stored(h.node2id) = Content(g.node2id)
    BY <1>3, <1>4, FlushAll DEF Consistent, TreesAreSound
  <2>2. /\ Sound(h.id2node, Nat) /\ Content(h.id2node) = Content(g.id2node)
        /\ Stored(h.id2node) = Content(g.id2node)
    BY <1>3, <1>4, FlushAll DEF Consistent, TreesAreSound
  <2>3. /\ Sound(h.meta, {NextIdKey}) /\ Content(h.meta) = Content(g.meta)
        /\ Stored(h.meta) = Content(g.meta)
    BY <1>3, <1>4, FlushAll DEF Consistent, TreesAreSound
  <2>4. QED
    BY <1>4, <2>1, <2>2, <2>3 DEF Consistent, TreesAreSound
<1>5. QED
  BY <1>2, <1>4 DEF h

LEMMA ReopenAgrees ==
  ASSUME NEW g, IsGraph(g)
  PROVE  LET h == ReopenGraph(g) IN Kept(g, h) /\ (Consistent(g) => Consistent(h))
<1> DEFINE h == ReopenGraph(g)
<1>1. DOMAIN h = Trees /\ \A f \in Trees : h[f] = Reopen(g[f])
  BY DEF ReopenGraph, IsGraph
<1> HIDE DEF h
<1>2. Kept(g, h)
  BY <1>1, FlushShape DEF Kept, IsGraph, Resized
<1>3. /\ h.node2id = Reopen(g.node2id) /\ h.id2node = Reopen(g.id2node)
      /\ h.meta = Reopen(g.meta)
  BY <1>1, TreeNames
<1>4. ASSUME Consistent(g) PROVE Consistent(h)
  <2>1. /\ Sound(h.node2id, Nodes) /\ Content(h.node2id) = Stored(g.node2id)
        /\ Stored(h.node2id) = Stored(g.node2id)
    BY <1>3, <1>4, ReopenAll DEF Consistent, TreesAreSound
  <2>2. /\ Sound(h.id2node, Nat) /\ Content(h.id2node) = Stored(g.id2node)
        /\ Stored(h.id2node) = Stored(g.id2node)
    BY <1>3, <1>4, ReopenAll DEF Consistent, TreesAreSound
  <2>3. /\ Sound(h.meta, {NextIdKey}) /\ Content(h.meta) = Stored(g.meta)
        /\ Stored(h.meta) = Stored(g.meta)
    BY <1>3, <1>4, ReopenAll DEF Consistent, TreesAreSound
  <2>4. QED
    BY <1>4, <2>1, <2>2, <2>3 DEF Consistent, TreesAreSound
<1>5. QED
  BY <1>2, <1>4 DEF h

LEMMA TornFlushLeaves ==
  ASSUME NEW g, IsGraph(g), NEW n, NEW m
  PROVE  Kept(g, ReopenGraph(TornFlush(g, n, m)))
<1> DEFINE h == TornFlush(g, n, m)
<1>1. DOMAIN h = Trees
  BY DEF TornFlush, IsGraph
<1>2. \A f \in Trees : h[f] = Flush(g[f]) \/ h[f] = FlushSome(g[f], m) \/ h[f] = g[f]
  BY DEF TornFlush, IsGraph
<1> HIDE DEF h
<1>3. \A f \in Trees : Shape(h[f]) /\ h[f].cap = g[f].cap
  BY <1>2, FlushShape, FlushSomeShape DEF IsGraph, Resized
<1>4. Kept(g, h)
  BY <1>1, <1>3 DEF Kept, IsGraph
<1>5. Kept(h, ReopenGraph(h))
  BY <1>4, ReopenAgrees DEF Kept
<1>6. QED
  BY <1>4, <1>5 DEF Kept, h

----------------------------------------------------------------------------
\* The invariant.
LEMMA Start == Init => IInv
<1> SUFFICES ASSUME Init PROVE IInv
  OBVIOUS
<1>1. PICK caps \in [Trees -> Nat \ {0}] : graph = NewGraph(caps)
  BY GraphAssumption, GraphStoreAssumption DEF Init
<1>2. DOMAIN graph = Trees /\ \A f \in Trees : graph[f] = OpenTree(NoEntries, caps[f])
  BY <1>1 DEF NewGraph
<1>3. \A f \in Trees : /\ Shape(graph[f]) /\ graph[f].cap \in Nat \ {0}
                       /\ graph[f].store = NoEntries /\ graph[f].cache = NoEntries
                       /\ graph[f].lru = <<>>
  BY <1>2 DEF OpenTree, Shape
<1>4. IsGraph(graph)
  BY <1>2, <1>3 DEF IsGraph
<1>5. DOMAIN NoEntries = {} /\ Listed(<<>>) = {} /\ Unrepeated(<<>>)
  BY EmptySeq DEF NoEntries, Listed, Unrepeated
<1>6. \A f \in Trees : DOMAIN Content(graph[f]) = {} /\ DOMAIN Stored(graph[f]) = {}
  BY <1>3, <1>5 DEF Content, Stored, KeysOf
<1>7. ASSUME NEW K, NEW f \in Trees PROVE Sound(graph[f], K)
  <2>1. <<>> \in Seq(K)
    BY EmptySeq
  <2>2. QED
    BY <1>3, <1>5, <2>1 DEF Sound
<1>8. TreesAreSound(graph)
  BY <1>7, TreeNames DEF TreesAreSound
<1>9. ASSUME NEW N, NEW B, NEW M, DOMAIN N = {}, DOMAIN B = {}, DOMAIN M = {}
      PROVE  Agree(N, B, M)
  <2>1. Next_(M) = 0
    BY <1>9 DEF Next_
  <2>2. QED
    BY <1>9, <2>1 DEF Agree, IdsAreGiven, NodesHaveIds, BlocksNameNodes
<1>10. Consistent(graph)
  BY <1>6, <1>8, <1>9, TreeNames DEF Consistent
<1>11. QED
  BY <1>4, <1>10 DEF IInv

\* A step keeps the five trees, and their agreement if there is room.
Keeps == tears' = tears /\ Kept(graph, graph') /\ (HasRoom => Consistent(graph'))

LEMMA RoomIsRoomy == IInv /\ HasRoom => Roomy(graph) /\ Consistent(graph)
  BY DEF IInv, HasRoom, Roomy

LEMMA StepKeeps == IInv /\ [Next]_vars => Keeps
<1> SUFFICES ASSUME IInv, [Next]_vars PROVE Keeps
  OBVIOUS
<1>0. IsGraph(graph) /\ (HasRoom => Roomy(graph) /\ Consistent(graph))
  BY RoomIsRoomy DEF IInv
<1>1. ASSUME NEW from \in Nodes, NEW to \in Nodes, CallInsert(from, to) PROVE Keeps
  <2>1. Kept(graph, graph') /\ (HasRoom => Consistent(graph'))
    BY <1>0, <1>1, InsertEdgeAgrees DEF CallInsert
  <2>2. QED
    BY <1>1, <2>1 DEF Keeps, CallInsert
<1>2. ASSUME NEW node \in Nodes, CallNode2Id(node) PROVE Keeps
  <2>1. Kept(graph, graph') /\ (HasRoom => Consistent(graph'))
    BY <1>0, <1>2, LookUpLeaves, LooksUpConsistently DEF CallNode2Id
  <2>2. QED
    BY <1>2, <2>1 DEF Keeps, CallNode2Id, history
<1>3. ASSUME NEW id \in GivenIds, CallId2Node(id) PROVE Keeps
  <2> DEFINE u == BlockedGet(graph.id2node, id)
  <2>1. "id2node" \in Trees /\ Resized(graph["id2node"], u)
    BY <1>0, TreeNames, BlockedShape DEF IsGraph
  <2>2. graph' = [graph EXCEPT !["id2node"] = u]
    BY <1>3 DEF CallId2Node
  <2>3. HasRoom => /\ Sound(u, Nat) /\ u.store = graph.id2node.store
                   /\ Content(u) = Content(graph.id2node)
    <3>1. HasRoom => NextId(graph) = Next_(Content(graph.meta)) /\ NextId(graph) \in Nat
      BY <1>0 DEF NextId, Next_, Known, Content, KeysOf, Consistent, Agree
    <3>2. HasRoom => id \in Nat
      BY <3>1 DEF GivenIds
    <3>3. QED
      BY <1>0, <3>2, ReadBlock
  <2> HIDE DEF u
  <2>4. /\ DOMAIN graph' = Trees /\ graph'["id2node"] = u
        /\ \A e \in Trees \ {"id2node"} : graph'[e] = graph[e]
    BY <1>0, <2>1, <2>2 DEF IsGraph
  <2>5. {"node2id", "meta"} \subseteq Trees \ {"id2node"}
    BY DEF Trees
  <2>6. graph'.id2node = u /\ graph'.node2id = graph.node2id /\ graph'.meta = graph.meta
    BY <2>4, <2>5
  <2>7. ASSUME HasRoom PROVE Consistent(graph')
    <3>1. TreesAreSound(graph')
      BY <1>0, <2>3, <2>6, <2>7 DEF Consistent, TreesAreSound
    <3>2. QED
      BY <1>0, <2>3, <2>6, <2>7, <3>1, SameContents
  <2>8. Kept(graph, graph')
    BY <1>0, <2>1, <2>4, OneTree
  <2>9. QED
    BY <1>3, <2>7, <2>8 DEF Keeps, CallId2Node, history
<1>4. ASSUME NEW id \in GivenIds, NEW f \in {"adjacency", "reversed_adjacency"},
             graph' = [graph EXCEPT ![f] = BlockedGet(graph[f], id)], UNCHANGED history
      PROVE  Keeps
  <2>1. f \in Trees /\ Resized(graph[f], BlockedGet(graph[f], id))
    BY <1>0, TreeNames, BlockedShape DEF IsGraph
  <2>2. /\ DOMAIN graph' = Trees /\ graph'[f] = BlockedGet(graph[f], id)
        /\ \A e \in Trees \ {f} : graph'[e] = graph[e]
    BY <1>0, <1>4, <2>1 DEF IsGraph
  <2>3. {"node2id", "id2node", "meta"} \subseteq Trees \ {f}
    BY DEF Trees
  <2>4. /\ graph'.id2node = graph.id2node /\ graph'.node2id = graph.node2id
        /\ graph'.meta = graph.meta
    BY <2>2, <2>3
  <2>5. HasRoom => Consistent(graph')
    BY <1>0, <2>4 DEF Consistent, TreesAreSound
  <2>6. Kept(graph, graph')
    <3>1. f \in Trees /\ Resized(graph[f], graph'[f])
      BY <2>1, <2>2
    <3>2. QED
      BY <1>0, <2>2, <3>1, OneTree
  <2>7. QED
    BY <1>4, <2>5, <2>6 DEF Keeps, history
<1>5. CASE CallFlush
  <2>1. Kept(graph, graph') /\ (HasRoom => Consistent(graph'))
    BY <1>0, <1>5, FlushAgrees DEF CallFlush
  <2>2. QED
    BY <1>5, <2>1 DEF Keeps, CallFlush, history
<1>6. CASE Restart
  <2>1. Kept(graph, graph') /\ (HasRoom => Consistent(graph'))
    BY <1>0, <1>6, ReopenAgrees DEF Restart, Reopened
  <2>2. QED
    BY <1>6, <2>1 DEF Keeps, Restart, Reopened
<1>7. CASE CrashInFlush
  <2>1. tears /\ tears' = tears /\ Kept(graph, graph')
    BY <1>0, <1>7, TornFlushLeaves DEF CrashInFlush, Reopened
  <2>2. ~HasRoom
    BY <2>1 DEF HasRoom
  <2>3. QED
    BY <2>1, <2>2 DEF Keeps
<1>8. CASE UNCHANGED vars
  <2>1. graph' = graph /\ tears' = tears
    BY <1>8 DEF vars
  <2>2. Kept(graph, graph')
    BY <1>0, <2>1 DEF Kept
  <2>3. QED
    BY <1>0, <2>1, <2>2 DEF Keeps
<1>9. ASSUME NEW id \in GivenIds, CallOutgoingEdges(id) PROVE Keeps
  BY <1>4, <1>9 DEF CallOutgoingEdges
<1>10. ASSUME NEW id \in GivenIds, CallIngoingEdges(id) PROVE Keeps
  BY <1>4, <1>10 DEF CallIngoingEdges
<1>11. QED
  BY <1>1, <1>2, <1>3, <1>5, <1>6, <1>7, <1>8, <1>9, <1>10 DEF Next

LEMMA RoomLasts == IInv /\ [Next]_vars => (HasRoom' <=> HasRoom)
  BY StepKeeps DEF Keeps, HasRoom, Kept

LEMMA Step == IInv /\ [Next]_vars => IInv'
  BY StepKeeps, RoomLasts DEF Keeps, IInv, Kept

\* What the invariant says of the ids that can be read.
LEMMA AgreementIsABijection == IInv => IdsAreABijection
<1> SUFFICES ASSUME IInv, HasRoom
             PROVE  /\ \A node \in Nodes : Known(graph.node2id, node) =>
                         /\ BlockedKnown(graph.id2node, IdOf(graph, node))
                         /\ BlockedPeek(graph.id2node, IdOf(graph, node)) = node
                    /\ \A id \in Ids(graph.id2node) :
                         LET node == BlockedPeek(graph.id2node, id)
                         IN  Known(graph.node2id, node) /\ IdOf(graph, node) = id
                    /\ Ids(graph.id2node) = GivenIds
  BY DEF IdsAreABijection
<1> DEFINE N == Content(graph.node2id)
           B == Content(graph.id2node)
           M == Content(graph.meta)
<1>1. Agree(N, B, M)
  BY RoomIsRoomy DEF Consistent
<1>2. \A node : /\ Known(graph.node2id, node) <=> node \in DOMAIN N
                /\ node \in DOMAIN N => IdOf(graph, node) = N[node]
  BY DEF Known, Content, KeysOf, IdOf
<1>3. \A b : b \in DOMAIN B <=> Known(graph.id2node, b)
  BY DEF Known, Content, KeysOf
<1>4. \A b \in DOMAIN B : B[b] = Peek(graph.id2node, b)
  BY DEF Content
<1>5. Blocks(graph.id2node) = DOMAIN B
  BY DEF Blocks, Content, KeysOf
<1>6. Ids(graph.id2node) = UNION {DOMAIN B[b] : b \in DOMAIN B}
  BY <1>4, <1>5 DEF Ids
<1>7. NextId(graph) = Next_(M)
  BY DEF NextId, Next_, Known, Content, KeysOf
<1> HIDE DEF N, B, M
<1>8. ASSUME NEW id, BlockOf(id) \in DOMAIN B, id \in DOMAIN B[BlockOf(id)]
      PROVE  BlockedKnown(graph.id2node, id) /\ BlockedPeek(graph.id2node, id) = B[BlockOf(id)][id]
  BY <1>3, <1>4, <1>8 DEF BlockedKnown, BlockedPeek
<1>9. ASSUME NEW node \in DOMAIN N
      PROVE  /\ BlockedKnown(graph.id2node, N[node])
             /\ BlockedPeek(graph.id2node, N[node]) = node
  BY <1>1, <1>8 DEF Agree, NodesHaveIds
<1>10. ASSUME NEW id \in Ids(graph.id2node)
       PROVE  /\ id \in 0 .. Next_(M) - 1
              /\ BlockedPeek(graph.id2node, id) \in DOMAIN N
              /\ N[BlockedPeek(graph.id2node, id)] = id
  <2>1. PICK b \in DOMAIN B : id \in DOMAIN B[b]
    BY <1>6, <1>10
  <2>2. /\ id \in 0 .. Next_(M) - 1 /\ BlockOf(id) = b
        /\ B[b][id] \in DOMAIN N /\ N[B[b][id]] = id
    BY <1>1, <2>1 DEF Agree, BlocksNameNodes
  <2>3. QED
    BY <1>8, <2>1, <2>2
<1>11. ASSUME NEW id \in 0 .. Next_(M) - 1 PROVE id \in Ids(graph.id2node)
  BY <1>1, <1>6 DEF Agree, IdsAreGiven
<1>12. Ids(graph.id2node) = GivenIds
  BY <1>7, <1>10, <1>11 DEF GivenIds
<1>13. QED
  BY <1>2, <1>9, <1>10, <1>12

\* No id is given to two nodes and no node has two ids, whatever is inserted,
\* read, flushed and restarted, as long as the caches have room for the nodes
\* and no flush is cut (graph_store.rs: id_or_assign, next_id).
THEOREM IdsArePairs == Spec => []IdsAreABijection
<1>1. Init => IInv
  BY Start
<1>2. IInv /\ [Next]_vars => IInv'
  BY Step
<1>3. IInv => IdsAreABijection
  BY AgreementIsABijection
<1>4. QED
  BY <1>1, <1>2, <1>3, PTL DEF Spec

----------------------------------------------------------------------------
\* Edges.  In both adjacency trees, now and after a restart, the ids listed and
\* the ids they are listed for are given out, and their blocks known.
Links(A, B, M) ==
  /\ DOMAIN A \subseteq DOMAIN B
  /\ \A b \in DOMAIN A : \A id \in DOMAIN A[b] :
       id \in 0 .. Next_(M) - 1 /\ A[b][id] \in Seq(0 .. Next_(M) - 1)

TreeLinks(g, t) ==
  /\ Sound(t, Nat)
  /\ Links(Content(t), Content(g.id2node), Content(g.meta))
  /\ Links(Stored(t), Stored(g.id2node), Stored(g.meta))

Linked(g) == TreeLinks(g, g.adjacency) /\ TreeLinks(g, g.reversed_adjacency)

EdgeInv == IInv /\ (HasRoom => Linked(graph))

\* What an operator on an adjacency tree with room leaves.
Relisted(t, u) == Sound(u, Nat) /\ u.store = t.store /\ Content(u) = Content(t)

LEMMA RoomForList ==
  ASSUME NEW g, Roomy(g), Consistent(g), NEW f \in Trees, TreeLinks(g, g[f]),
         NEW b \in KeysOf(g.id2node), b \notin DOMAIN g[f].cache
  PROVE  ~IsFull(g[f])
<1> DEFINE F == KeysOf(g.id2node)
           t == g[f]
<1>1. DOMAIN Content(g.id2node) = F /\ DOMAIN Content(t) = KeysOf(t)
  BY ReadFrom
<1>2. /\ IsFiniteSet(F) /\ Cardinality(F) \in Nat /\ Cardinality(Nodes) \in Nat
      /\ Cardinality(F) <= Cardinality(Nodes)
  <2>1. Agree(Content(g.node2id), Content(g.id2node), Content(g.meta))
    BY DEF Consistent
  <2>2. DOMAIN Content(g.node2id) \in SUBSET Nodes
    BY <2>1 DEF Agree
  <2> HIDE DEF F
  <2>3. QED
    BY <1>1, <2>1, <2>2, FewBlocks
<1>3. t.cap \in Nat /\ Cardinality(Nodes) <= t.cap
  BY Capacity
<1>4. DOMAIN t.cache \subseteq F
  BY <1>1 DEF TreeLinks, Links, KeysOf
<1>5. Sound(t, Nat) /\ b \in F /\ b \notin DOMAIN t.cache
  BY DEF TreeLinks
<1> HIDE DEF F, t
<1>6. ~IsFull(t)
  BY <1>2, <1>3, <1>4, <1>5, NotYetFull
<1>7. QED
  BY <1>6 DEF t

LEMMA ReadList ==
  ASSUME NEW g, Roomy(g), Consistent(g), NEW f \in Trees, TreeLinks(g, g[f]), NEW id \in Nat
  PROVE  Relisted(g[f], BlockedGet(g[f], id))
<1> DEFINE b == BlockOf(id)
           t == g[f]
<1>1. b \in Nat /\ Sound(t, Nat)
  BY BlockType DEF TreeLinks
<1>2. b \in DOMAIN t.store \ DOMAIN t.cache => ~IsFull(t)
  <2>1. KeysOf(t) \subseteq KeysOf(g.id2node)
    BY ReadFrom DEF TreeLinks, Links
  <2>2. QED
    BY <2>1, RoomForList DEF KeysOf
<1> HIDE DEF b, t
<1>3. Relisted(t, Get(t, b))
  BY <1>1, <1>2, GetInRoom DEF Relisted
<1>4. QED
  BY <1>3 DEF BlockedGet, b, t

\* The lists a tree holds are those of its content.
LEMMA SameLists ==
  ASSUME NEW t, NEW u, Content(u) = Content(t), NEW id
  PROVE  EdgesOf(u, id) = EdgesOf(t, id)
<1>1. KeysOf(u) = KeysOf(t) /\ \A k \in KeysOf(t) : Peek(u, k) = Peek(t, k)
  BY ReadFrom
<1>2. QED
  BY <1>1 DEF EdgesOf, BlockedKnown, BlockedPeek, Known, KeysOf

LEMMA ListsOf ==
  ASSUME NEW t, NEW B, NEW M, Links(Content(t), B, M), NEW id
  PROVE  /\ EdgesOf(t, id) \in Seq(0 .. Next_(M) - 1)
         /\ id \notin 0 .. Next_(M) - 1 => EdgesOf(t, id) = <<>>
<1>1. <<>> \in Seq(0 .. Next_(M) - 1)
  BY EmptySeq
<1>2. ASSUME BlockedKnown(t, id)
      PROVE  EdgesOf(t, id) \in Seq(0 .. Next_(M) - 1) /\ id \in 0 .. Next_(M) - 1
  <2>1. BlockOf(id) \in KeysOf(t) /\ id \in DOMAIN Peek(t, BlockOf(id))
    BY <1>2 DEF BlockedKnown, Known, KeysOf
  <2>2. EdgesOf(t, id) = Peek(t, BlockOf(id))[id]
    BY <1>2 DEF EdgesOf, BlockedPeek
  <2>3. QED
    BY <2>1, <2>2, ReadFrom DEF Links
<1>3. ~BlockedKnown(t, id) => EdgesOf(t, id) = <<>>
  BY DEF EdgesOf
<1>4. QED
  BY <1>1, <1>2, <1>3

\* A longer list in one tree with room.
LEMMA ListGrows ==
  ASSUME NEW g, Roomy(g), Consistent(g), NEW f \in Trees, TreeLinks(g, g[f]),
         NEW i \in 0 .. NextId(g) - 1, NEW j \in 0 .. NextId(g) - 1
  PROVE  LET u == AdjacencyInsert(g[f], i, j)
         IN  /\ Sound(u, Nat) /\ u.store = g[f].store
             /\ Links(Content(u), Content(g.id2node), Content(g.meta))
             /\ EdgesOf(u, i) = Append(EdgesOf(g[f], i), j)
             /\ \A k \in Nat : k /= i => EdgesOf(u, k) = EdgesOf(g[f], k)
<1> DEFINE t == g[f]
           A == Content(t)
           B == Content(g.id2node)
           M == Content(g.meta)
           list == Append(EdgesOf(t, i), j)
           u == AdjacencyInsert(t, i, j)
           b == BlockOf(i)
           old == IF b \in DOMAIN A THEN A[b] ELSE NoEntries
<1>1. NextId(g) = Next_(M) /\ NextId(g) \in Nat
  BY ReadNextId DEF Consistent, Agree
<1>2. i \in Nat /\ b \in Nat
  BY <1>1, BlockType
<1>3. b \in KeysOf(g.id2node) /\ b \in DOMAIN B
  BY <1>1, ReadFrom DEF Consistent, Agree, IdsAreGiven
<1>4. Sound(t, Nat) /\ Links(A, B, M)
  BY DEF TreeLinks
<1>5. b \notin DOMAIN t.cache => ~IsFull(t)
  BY <1>3, RoomForList
<1>6. Sound(u, Nat) /\ u.store = t.store /\ Content(u) = Renamed(A, i, list)
  <2> HIDE DEF t, list
  <2>1. QED
    BY <1>2, <1>4, <1>5, SetInRoom DEF AdjacencyInsert, list
<1>7. list \in Seq(0 .. Next_(M) - 1)
  <2>1. EdgesOf(t, i) \in Seq(0 .. Next_(M) - 1)
    BY <1>4, ListsOf
  <2>2. QED
    BY <1>1, <2>1, AppendProperties
<1> HIDE DEF u, A, B, M, t, list
<1>8. /\ DOMAIN Content(u) = DOMAIN A \cup {b}
      /\ \A x \in DOMAIN A \ {b} : Content(u)[x] = A[x]
      /\ DOMAIN Content(u)[b] = DOMAIN old \cup {i} /\ Content(u)[b][i] = list
      /\ \A k \in DOMAIN old \ {i} : Content(u)[b][k] = old[k]
  BY <1>6 DEF Renamed, With
<1>9. Links(Content(u), B, M)
  <2>1. DOMAIN Content(u) \subseteq DOMAIN B
    BY <1>3, <1>4, <1>8 DEF Links
  <2>2. ASSUME NEW x \in DOMAIN Content(u), NEW k \in DOMAIN Content(u)[x]
        PROVE  k \in 0 .. Next_(M) - 1 /\ Content(u)[x][k] \in Seq(0 .. Next_(M) - 1)
    <3>1. CASE x /= b
      BY <1>4, <1>8, <2>2, <3>1 DEF Links
    <3>2. CASE x = b /\ k = i
      BY <1>1, <1>7, <1>8, <3>2
    <3>3. CASE x = b /\ k /= i
      <4>1. k \in DOMAIN old /\ Content(u)[x][k] = old[k]
        BY <1>8, <2>2, <3>3
      <4>2. b \in DOMAIN A /\ old = A[b]
        BY <4>1 DEF NoEntries
      <4>3. QED
        BY <1>4, <4>1, <4>2 DEF Links
    <3>4. QED
      BY <3>1, <3>2, <3>3
  <2>3. QED
    BY <2>1, <2>2 DEF Links
<1>10. KeysOf(u) = DOMAIN Content(u) /\ KeysOf(t) = DOMAIN A
       /\ (\A x \in KeysOf(u) : Peek(u, x) = Content(u)[x])
       /\ (\A x \in KeysOf(t) : Peek(t, x) = A[x])
  BY ReadFrom DEF A
<1>11. EdgesOf(u, i) = list
  BY <1>8, <1>10 DEF EdgesOf, BlockedKnown, BlockedPeek, Known, KeysOf, b
<1>12. ASSUME NEW k \in Nat, k /= i PROVE EdgesOf(u, k) = EdgesOf(t, k)
  <2> DEFINE c == BlockOf(k)
  <2>1. BlockedKnown(t, k) <=> c \in DOMAIN A /\ k \in DOMAIN A[c]
    BY <1>10 DEF BlockedKnown, Known, KeysOf
  <2>2. BlockedKnown(u, k) <=> c \in DOMAIN Content(u) /\ k \in DOMAIN Content(u)[c]
    BY <1>10 DEF BlockedKnown, Known, KeysOf
  <2>3. c \in DOMAIN A => BlockedPeek(t, k) = A[c][k]
    BY <1>10 DEF BlockedPeek
  <2>4. c \in DOMAIN Content(u) => BlockedPeek(u, k) = Content(u)[c][k]
    BY <1>10 DEF BlockedPeek
  <2>5. CASE c /= b
    <3>1. BlockedKnown(u, k) <=> BlockedKnown(t, k)
      BY <1>8, <2>1, <2>2, <2>5
    <3>2. BlockedKnown(t, k) => BlockedPeek(u, k) = BlockedPeek(t, k)
      BY <1>8, <2>1, <2>2, <2>3, <2>4, <2>5
    <3>3. QED
      BY <3>1, <3>2 DEF EdgesOf
  <2>6. CASE c = b
    <3>1. DOMAIN NoEntries = {}
      BY DEF NoEntries
    <3>2. k \in DOMAIN old <=> c \in DOMAIN A /\ k \in DOMAIN A[c]
      BY <2>6, <3>1
    <3>3. BlockedKnown(u, k) <=> BlockedKnown(t, k)
      BY <1>8, <1>12, <2>1, <2>2, <2>6, <3>2
    <3>4. BlockedKnown(t, k) => BlockedPeek(u, k) = BlockedPeek(t, k)
      BY <1>8, <1>12, <2>1, <2>2, <2>3, <2>4, <2>6, <3>2
    <3>5. QED
      BY <3>3, <3>4 DEF EdgesOf
  <2>7. QED
    BY <2>5, <2>6
<1>13. QED
  BY <1>6, <1>9, <1>11, <1>12 DEF B, M, t, u, list

\* Counting.
LEMMA CountIsNat ==
  ASSUME NEW S, NEW s \in Seq(S), NEW x
  PROVE  /\ IsFiniteSet({k \in 1 .. Len(s) : s[k] = x})
         /\ Count(s, x) \in Nat
<1> DEFINE P == {k \in 1 .. Len(s) : s[k] = x}
<1>1. IsFiniteSet(1 .. Len(s))
  BY LenProperties, FS_Interval
<1>2. P \subseteq 1 .. Len(s)
  OBVIOUS
<1>3. IsFiniteSet(P)
  BY <1>1, <1>2, FS_Subset
<1>4. QED
  BY <1>3, FS_CardinalityType DEF Count

LEMMA CountAppend ==
  ASSUME NEW S, NEW s \in Seq(S), NEW y \in S, NEW x
  PROVE  Count(Append(s, y), x) = Count(s, x) + (IF x = y THEN 1 ELSE 0)
<1> DEFINE r == Append(s, y)
           n == Len(s)
           P == {k \in 1 .. n : s[k] = x}
           Q == {k \in 1 .. Len(r) : r[k] = x}
<1>1. n \in Nat /\ Len(r) = n + 1 /\ r[n + 1] = y /\ \A k \in 1 .. n : r[k] = s[k]
  BY AppendProperties, LenProperties
<1>2. IsFiniteSet(P) /\ Cardinality(P) \in Nat
  BY CountIsNat DEF Count
<1>3. n + 1 \notin P
  BY <1>1
<1>4. Q = IF x = y THEN P \cup {n + 1} ELSE P
  BY <1>1
<1>5. Cardinality(P \cup {n + 1}) = Cardinality(P) + 1
  <2> HIDE DEF P
  <2>1. QED
    BY <1>2, <1>3, FS_AddElement
<1>6. Cardinality(Q) = Cardinality(P) + (IF x = y THEN 1 ELSE 0)
  <2> HIDE DEF P, Q
  <2>1. QED
    BY <1>2, <1>4, <1>5
<1>7. QED
  BY <1>6 DEF Count

LEMMA CountAbsent ==
  ASSUME NEW S, NEW s \in Seq(S), NEW x, x \notin S
  PROVE  Count(s, x) = 0
<1>1. {k \in 1 .. Len(s) : s[k] = x} = {}
  BY ElementOfSeq
<1>2. QED
  BY <1>1, FS_EmptySet DEF Count

LEMMA NoneListed == ASSUME NEW x PROVE Count(<<>>, x) = 0
<1>1. Len(<<>>) = 0
  BY EmptySeq
<1>2. {k \in 1 .. Len(<<>>) : <<>>[k] = x} = {}
  BY <1>1
<1>3. QED
  BY <1>2, FS_EmptySet DEF Count

\* More ids given out, or more blocks known, harm no list.
LEMMA LinksGrow ==
  ASSUME NEW g, NEW h, Grows(g, h), NEW t, TreeLinks(g, t)
  PROVE  TreeLinks(h, t)
<1> DEFINE B == Content(g.id2node)
           M == Content(g.meta)
           B2 == Content(h.id2node)
           M2 == Content(h.meta)
<1>1. DOMAIN B \subseteq DOMAIN B2
  BY ReadFrom DEF Grows
<1>2. Next_(M) \in Nat /\ Next_(M2) \in Nat /\ Next_(M) <= Next_(M2)
  BY ReadNextId DEF Grows
<1>3. Stored(h.id2node) = Stored(g.id2node) /\ Stored(h.meta) = Stored(g.meta)
  BY SameStores, TreeNames DEF Grows
<1> HIDE DEF B, M, B2, M2
<1>4. \A s \in Seq(0 .. Next_(M) - 1) : s \in Seq(0 .. Next_(M2) - 1)
  BY <1>2
<1>5. ASSUME NEW A, Links(A, B, M) PROVE Links(A, B2, M2)
  BY <1>1, <1>2, <1>4, <1>5 DEF Links
<1>6. Links(Content(t), B2, M2)
  BY <1>5 DEF TreeLinks, B, M
<1>7. QED
  BY <1>3, <1>6 DEF TreeLinks, B2, M2

\* Known nodes have given ids, each its own.
LEMMA OwnIds ==
  ASSUME NEW g, Consistent(g)
  PROVE  /\ NextId(g) \in Nat
         /\ \A a \in KeysOf(g.node2id) : IdOf(g, a) \in 0 .. NextId(g) - 1
         /\ \A a, b \in KeysOf(g.node2id) : IdOf(g, a) = IdOf(g, b) => a = b
<1> DEFINE N == Content(g.node2id)
           B == Content(g.id2node)
           M == Content(g.meta)
<1>1. Agree(N, B, M) /\ NextId(g) = Next_(M)
  BY ReadNextId DEF Consistent
<1>2. DOMAIN N = KeysOf(g.node2id) /\ \A a \in DOMAIN N : N[a] = IdOf(g, a)
  BY ReadFrom DEF IdOf
<1> HIDE DEF N, B, M
<1>3. \A a \in DOMAIN N : N[a] \in 0 .. Next_(M) - 1 /\ B[BlockOf(N[a])][N[a]] = a
  BY <1>1 DEF Agree, NodesHaveIds
<1>4. QED
  BY <1>1, <1>2, <1>3 DEF Agree

\* GraphStore::insert on a graph with room: one more edge, and nothing stored.
LEMMA InsertAddsAnEdge ==
  ASSUME NEW g, Roomy(g), Consistent(g), Linked(g), NEW from \in Nodes, NEW to \in Nodes
  PROVE  LET h == InsertEdge(g, from, to)
         IN  /\ Linked(h)
             /\ \A f \in Trees : h[f].store = g[f].store
             /\ \A a, b \in Nodes :
                  /\ EdgeCount(g, a, b) \in Nat
                  /\ EdgeCount(h, a, b) =
                       EdgeCount(g, a, b) + (IF a = from /\ b = to THEN 1 ELSE 0)
<1> DEFINE g1 == IdOrAssign(g, from)
           g2 == IdOrAssign(g1, to)
           i == IdOf(g1, from)
           j == IdOf(g2, to)
           u == AdjacencyInsert(g2.adjacency, i, j)
           r == AdjacencyInsert(g2.reversed_adjacency, j, i)
           h == InsertEdge(g, from, to)
<1>0. h = [g2 EXCEPT !.adjacency = u, !.reversed_adjacency = r]
  BY DEF InsertEdge
<1>1. /\ Roomy(g1) /\ Consistent(g1) /\ Grows(g, g1)
      /\ KeysOf(g1.node2id) = KeysOf(g.node2id) \cup {from}
  BY IdOrAssignAgrees, RoomIsKept DEF Roomy
<1> HIDE DEF g1
<1>2. /\ Roomy(g2) /\ Consistent(g2) /\ Grows(g1, g2)
      /\ KeysOf(g2.node2id) = KeysOf(g1.node2id) \cup {to}
  BY <1>1, IdOrAssignAgrees, RoomIsKept DEF Roomy
<1> HIDE DEF g2, h
<1>3. /\ \A f \in Trees : g2[f].store = g[f].store
      /\ g2.adjacency = g.adjacency /\ g2.reversed_adjacency = g.reversed_adjacency
      /\ KeysOf(g2.node2id) = KeysOf(g.node2id) \cup {from, to}
      /\ NextId(g) \in Nat /\ NextId(g2) \in Nat /\ NextId(g) <= NextId(g2)
  BY <1>1, <1>2 DEF Grows
<1>4. /\ \A a \in KeysOf(g.node2id) : IdOf(g2, a) = IdOf(g, a)
      /\ \A a \in KeysOf(g2.node2id) \ KeysOf(g.node2id) : IdOf(g2, a) \notin 0 .. NextId(g) - 1
      /\ IdOf(g2, from) = i
  BY <1>1, <1>2 DEF Grows
<1>5. /\ \A a \in KeysOf(g2.node2id) : IdOf(g2, a) \in 0 .. NextId(g2) - 1
      /\ \A a, b \in KeysOf(g2.node2id) : IdOf(g2, a) = IdOf(g2, b) => a = b
  BY <1>2, OwnIds
<1>6. i \in 0 .. NextId(g2) - 1 /\ j \in 0 .. NextId(g2) - 1
  BY <1>3, <1>4, <1>5
<1>7. TreeLinks(g2, g2["adjacency"]) /\ TreeLinks(g2, g2["reversed_adjacency"])
  BY <1>1, <1>2, <1>3, LinksGrow DEF Linked
<1> HIDE DEF i, j
<1>8. /\ Sound(u, Nat) /\ u.store = g2.adjacency.store
      /\ Links(Content(u), Content(g2.id2node), Content(g2.meta))
      /\ EdgesOf(u, i) = Append(EdgesOf(g2.adjacency, i), j)
      /\ \A k \in Nat : k /= i => EdgesOf(u, k) = EdgesOf(g2.adjacency, k)
  BY <1>2, <1>6, <1>7, TreeNames, ListGrows
<1>9. /\ Sound(r, Nat) /\ r.store = g2.reversed_adjacency.store
      /\ Links(Content(r), Content(g2.id2node), Content(g2.meta))
  BY <1>2, <1>6, <1>7, TreeNames, ListGrows
<1> HIDE DEF u, r
<1>10. /\ h.adjacency = u /\ h.reversed_adjacency = r
       /\ h.node2id = g2.node2id /\ h.id2node = g2.id2node /\ h.meta = g2.meta
  BY <1>0, <1>2, TreeNames DEF Roomy, IsGraph
<1>11. \A f \in Trees : h[f].store = g[f].store
  BY <1>3, <1>8, <1>9, <1>10 DEF Trees
<1>12. Linked(h)
  <2>1. Stored(u) = Stored(g2.adjacency) /\ Stored(r) = Stored(g2.reversed_adjacency)
    BY <1>8, <1>9, SameStores
  <2>2. QED
    BY <1>7, <1>8, <1>9, <1>10, <2>1 DEF Linked, TreeLinks
<1>13. ASSUME NEW a \in Nodes, NEW b \in Nodes
       PROVE  /\ EdgeCount(g, a, b) \in Nat
              /\ EdgeCount(h, a, b) =
                   EdgeCount(g, a, b) + (IF a = from /\ b = to THEN 1 ELSE 0)
  <2> DEFINE both == a \in KeysOf(g.node2id) /\ b \in KeysOf(g.node2id)
             both2 == a \in KeysOf(g2.node2id) /\ b \in KeysOf(g2.node2id)
             x == IdOf(g2, a)
             y == IdOf(g2, b)
             L(k) == EdgesOf(g.adjacency, k)
             K == 0 .. NextId(g) - 1
  <2>1. EdgeCount(g, a, b) = IF both THEN Count(L(IdOf(g, a)), IdOf(g, b)) ELSE 0
    BY DEF EdgeCount, EdgesBetween, Known, KeysOf
  <2>2. EdgeCount(h, a, b) = IF both2 THEN Count(EdgesOf(u, x), y) ELSE 0
    BY <1>10 DEF EdgeCount, EdgesBetween, Known, KeysOf, IdOf
  <2>3. \A k : L(k) \in Seq(K) /\ (k \notin K => L(k) = <<>>)
    BY ListsOf, ReadNextId DEF Linked, TreeLinks
  <2>4. \A s \in Seq(K) : s \in Seq(Nat)
    BY <1>3
  <2>5. \A k, z : Count(L(k), z) \in Nat
    BY <2>3, <2>4, CountIsNat
  <2>6. both2 => /\ x \in Nat /\ y \in Nat
                 /\ (x = i <=> a = from) /\ (y = j <=> b = to)
    BY <1>3, <1>4, <1>5 DEF j
  <2>7. both2 => Count(L(x), y) = EdgeCount(g, a, b)
    <3> SUFFICES ASSUME both2 PROVE Count(L(x), y) = EdgeCount(g, a, b)
      OBVIOUS
    <3>1. CASE both
      BY <1>4, <2>1, <3>1
    <3>2. CASE a \notin KeysOf(g.node2id)
      <4>1. L(x) = <<>> /\ EdgeCount(g, a, b) = 0
        BY <1>4, <2>1, <2>3, <3>2
      <4>2. QED
        BY <4>1, NoneListed
    <3>3. CASE b \notin KeysOf(g.node2id)
      <4>1. L(x) \in Seq(K) /\ y \notin K /\ EdgeCount(g, a, b) = 0
        BY <1>4, <2>1, <2>3, <3>3
      <4> HIDE DEF K, L, y
      <4>2. QED
        BY <4>1, CountAbsent
    <3>4. QED
      BY <3>1, <3>2, <3>3
  <2>8. both2 => Count(EdgesOf(u, x), y) = Count(L(x), y) + (IF x = i /\ y = j THEN 1 ELSE 0)
    <3> SUFFICES ASSUME both2
                 PROVE Count(EdgesOf(u, x), y) = Count(L(x), y) + (IF x = i /\ y = j THEN 1 ELSE 0)
      OBVIOUS
    <3>1. CASE x = i
      <4>1. EdgesOf(u, x) = Append(L(x), j)
        BY <1>3, <1>8, <3>1
      <4>2. L(x) \in Seq(Nat) /\ j \in Nat
        BY <1>3, <1>6, <2>3, <2>4
      <4> HIDE DEF L, x, y
      <4>3. Count(Append(L(x), j), y) = Count(L(x), y) + (IF y = j THEN 1 ELSE 0)
        BY <4>2, CountAppend
      <4>4. QED
        BY <3>1, <4>1, <4>3
    <3>2. CASE x /= i
      BY <1>3, <1>8, <2>5, <2>6, <3>2
    <3>3. QED
      BY <3>1, <3>2
  <2>9. EdgeCount(g, a, b) \in Nat
    BY <2>1, <2>5
  <2>10. ~both2 => ~both /\ ~(a = from /\ b = to)
    BY <1>3
  <2> HIDE DEF both, both2, x, y, L
  <2>11. QED
    BY <2>1, <2>2, <2>6, <2>7, <2>8, <2>9, <2>10
<1>14. QED
  BY <1>11, <1>12, <1>13 DEF h

\* Calls that change neither what the trees read as nor what is stored ...
ReadsTheSame(g, h) ==
  /\ DOMAIN h = Trees
  /\ \A f \in Trees : /\ h[f].cap = g[f].cap /\ h[f].store = g[f].store
                       /\ Content(h[f]) = Content(g[f])
  /\ Sound(h.adjacency, Nat) /\ Sound(h.reversed_adjacency, Nat)

\* The edges of a graph as counts.
Edges(g) == [e \in Nodes \X Nodes |-> EdgeCount(g, e[1], e[2])]

LEMMA SameEdges ==
  ASSUME NEW g, NEW h, Content(h.node2id) = Content(g.node2id),
         Content(h.adjacency) = Content(g.adjacency)
  PROVE  Edges(h) = Edges(g)
<1>1. /\ KeysOf(h.node2id) = KeysOf(g.node2id)
      /\ \A a \in KeysOf(g.node2id) : IdOf(h, a) = IdOf(g, a)
  BY ReadFrom DEF IdOf
<1>2. \A i : EdgesOf(h.adjacency, i) = EdgesOf(g.adjacency, i)
  BY SameLists
<1>3. \A a, b : EdgeCount(h, a, b) = EdgeCount(g, a, b)
  BY <1>1, <1>2 DEF EdgeCount, EdgesBetween, Known, KeysOf
<1>4. QED
  BY <1>3 DEF Edges

LEMMA SameSaved ==
  ASSUME NEW g, IsGraph(g), NEW h, DOMAIN h = Trees,
         \A f \in Trees : h[f].cap = g[f].cap /\ h[f].store = g[f].store
  PROVE  ReopenGraph(h) = ReopenGraph(g)
<1>1. \A f \in Trees : Reopen(h[f]) = Reopen(g[f])
  BY DEF Reopen
<1>2. QED
  BY <1>1 DEF ReopenGraph, IsGraph

LEMMA SameReading ==
  ASSUME NEW g, IsGraph(g), Linked(g), NEW h, ReadsTheSame(g, h)
  PROVE  Linked(h) /\ Edges(h) = Edges(g) /\ ReopenGraph(h) = ReopenGraph(g)
<1>1. \A f \in Trees : Content(h[f]) = Content(g[f]) /\ Stored(h[f]) = Stored(g[f])
  BY SameStores DEF ReadsTheSame
<1>2. /\ Content(h.adjacency) = Content(g.adjacency) /\ Stored(h.adjacency) = Stored(g.adjacency)
      /\ Content(h.reversed_adjacency) = Content(g.reversed_adjacency)
      /\ Stored(h.reversed_adjacency) = Stored(g.reversed_adjacency)
      /\ Content(h.id2node) = Content(g.id2node) /\ Stored(h.id2node) = Stored(g.id2node)
      /\ Content(h.meta) = Content(g.meta) /\ Stored(h.meta) = Stored(g.meta)
      /\ Content(h.node2id) = Content(g.node2id)
  BY <1>1, TreeNames
<1>3. Linked(h)
  BY <1>2 DEF Linked, TreeLinks, ReadsTheSame
<1>4. QED
  BY <1>2, <1>3, SameEdges, SameSaved DEF ReadsTheSame

\* ... as every read is: LookUpNode and the three that get a block.
LEMMA OneTreeReadsTheSame ==
  ASSUME NEW g, IsGraph(g), Linked(g), NEW f \in Trees, NEW u, Resized(g[f], u),
         u.store = g[f].store, Content(u) = Content(g[f]),
         f \in {"adjacency", "reversed_adjacency"} => Sound(u, Nat),
         NEW h, h = [g EXCEPT ![f] = u]
  PROVE  ReadsTheSame(g, h)
<1>1. DOMAIN h = Trees /\ h[f] = u /\ \A e \in Trees \ {f} : h[e] = g[e]
  BY DEF IsGraph
<1>2. ASSUME NEW e \in Trees
      PROVE  h[e].cap = g[e].cap /\ h[e].store = g[e].store /\ Content(h[e]) = Content(g[e])
  BY <1>1 DEF Resized
<1>3. ASSUME NEW e \in {"adjacency", "reversed_adjacency"} PROVE Sound(h[e], Nat)
  BY <1>1, TreeNames DEF Linked, TreeLinks
<1>4. Sound(h.adjacency, Nat) /\ Sound(h.reversed_adjacency, Nat)
  BY <1>3
<1>5. QED
  BY <1>1, <1>2, <1>4 DEF ReadsTheSame

\* A read in a graph with room.
IsRead(g, h) ==
  \/ \E node \in Nodes : h = LookUpNode(g, node)
  \/ \E id \in 0 .. NextId(g) - 1 :
       \/ h = [g EXCEPT !.id2node = BlockedGet(g.id2node, id)]
       \/ h = [g EXCEPT !.adjacency = BlockedGet(g.adjacency, id)]
       \/ h = [g EXCEPT !.reversed_adjacency = BlockedGet(g.reversed_adjacency, id)]

LEMMA ReadsLeave ==
  ASSUME NEW g, Roomy(g), Consistent(g), Linked(g), NEW h, IsRead(g, h)
  PROVE  ReadsTheSame(g, h)
<1>0. IsGraph(g) /\ NextId(g) \in Nat
  BY OwnIds DEF Roomy
<1>1. ASSUME NEW node \in Nodes, h = LookUpNode(g, node) PROVE ReadsTheSame(g, h)
  <2> DEFINE u == Get(g["node2id"], node)
  <2>1. Resized(g["node2id"], u)
    BY <1>0, TreeNames, GetShape DEF IsGraph
  <2>2. u.store = g["node2id"].store /\ Content(u) = Content(g["node2id"])
    BY ReadNode
  <2>3. "node2id" \notin {"adjacency", "reversed_adjacency"}
    OBVIOUS
  <2>4. h = [g EXCEPT !["node2id"] = u]
    BY <1>1 DEF LookUpNode
  <2> HIDE DEF u
  <2>5. QED
    BY <1>0, <2>1, <2>2, <2>3, <2>4, TreeNames, OneTreeReadsTheSame
<1>2. ASSUME NEW id \in 0 .. NextId(g) - 1, h = [g EXCEPT !.id2node = BlockedGet(g.id2node, id)]
      PROVE  ReadsTheSame(g, h)
  <2> DEFINE u == BlockedGet(g["id2node"], id)
  <2>1. Resized(g["id2node"], u)
    BY <1>0, TreeNames, BlockedShape DEF IsGraph
  <2>2. u.store = g["id2node"].store /\ Content(u) = Content(g["id2node"]) /\ Sound(u, Nat)
    BY <1>0, ReadBlock
  <2>3. h = [g EXCEPT !["id2node"] = u]
    BY <1>2
  <2> HIDE DEF u
  <2>4. QED
    BY <1>0, <2>1, <2>2, <2>3, TreeNames, OneTreeReadsTheSame
<1>3. ASSUME NEW f \in {"adjacency", "reversed_adjacency"}, NEW id \in 0 .. NextId(g) - 1,
             h = [g EXCEPT ![f] = BlockedGet(g[f], id)]
      PROVE  ReadsTheSame(g, h)
  <2> DEFINE u == BlockedGet(g[f], id)
  <2>1. f \in Trees /\ TreeLinks(g, g[f])
    BY TreeNames DEF Linked
  <2>2. Resized(g[f], u)
    BY <1>0, <2>1, BlockedShape DEF IsGraph
  <2>3. Relisted(g[f], u)
    BY <1>0, <2>1, ReadList
  <2> HIDE DEF u
  <2>4. QED
    BY <1>0, <1>3, <2>1, <2>2, <2>3, OneTreeReadsTheSame DEF Relisted, u
<1>4. QED
  BY <1>1, <1>2, <1>3 DEF IsRead

\* A flush stores what is read, and a restart reads what is stored.
LEMMA FlushSaves ==
  ASSUME NEW g, IsGraph(g), Consistent(g), Linked(g)
  PROVE  LET h == FlushGraph(g)
         IN  Linked(h) /\ Edges(h) = Edges(g) /\ Edges(ReopenGraph(h)) = Edges(g)
<1> DEFINE h == FlushGraph(g)
           r == ReopenGraph(h)
<1>1. DOMAIN h = Trees /\ \A f \in Trees : h[f] = Flush(g[f])
  BY DEF FlushGraph, IsGraph
<1>2. \A f \in Trees : r[f] = Reopen(h[f])
  BY <1>1 DEF ReopenGraph
<1>3. ASSUME NEW f \in Trees, NEW K, Sound(g[f], K)
      PROVE  /\ Sound(h[f], K) /\ Content(h[f]) = Content(g[f]) /\ Stored(h[f]) = Content(g[f])
             /\ Content(r[f]) = Content(g[f])
  BY <1>1, <1>2, <1>3, FlushAll, ReopenAll
<1> HIDE DEF h, r
<1>4. /\ Content(h.node2id) = Content(g.node2id) /\ Content(r.node2id) = Content(g.node2id)
      /\ Content(h.id2node) = Content(g.id2node) /\ Stored(h.id2node) = Content(g.id2node)
      /\ Content(h.meta) = Content(g.meta) /\ Stored(h.meta) = Content(g.meta)
  BY <1>3, TreeNames DEF Consistent, TreesAreSound
<1>5. /\ Sound(h.adjacency, Nat) /\ Content(h.adjacency) = Content(g.adjacency)
      /\ Stored(h.adjacency) = Content(g.adjacency) /\ Content(r.adjacency) = Content(g.adjacency)
      /\ Sound(h.reversed_adjacency, Nat)
      /\ Content(h.reversed_adjacency) = Content(g.reversed_adjacency)
      /\ Stored(h.reversed_adjacency) = Content(g.reversed_adjacency)
  BY <1>3, TreeNames DEF Linked, TreeLinks
<1>6. Linked(h)
  BY <1>4, <1>5 DEF Linked, TreeLinks
<1>7. Edges(h) = Edges(g) /\ Edges(r) = Edges(g)
  BY <1>4, <1>5, SameEdges
<1>8. QED
  BY <1>6, <1>7 DEF h, r

LEMMA ReopenReadsStored ==
  ASSUME NEW g, IsGraph(g), Consistent(g), Linked(g)
  PROVE  LET h == ReopenGraph(g) IN Linked(h) /\ ReopenGraph(h) = h
<1> DEFINE h == ReopenGraph(g)
<1>1. DOMAIN h = Trees /\ \A f \in Trees : h[f] = Reopen(g[f])
  BY DEF ReopenGraph, IsGraph
<1> HIDE DEF h
<1>2. ASSUME NEW f \in Trees, NEW K, Sound(g[f], K)
      PROVE  Sound(h[f], K) /\ Content(h[f]) = Stored(g[f]) /\ Stored(h[f]) = Stored(g[f])
  BY <1>1, <1>2, ReopenAll
<1>3. /\ Content(h.id2node) = Stored(g.id2node) /\ Stored(h.id2node) = Stored(g.id2node)
      /\ Content(h.meta) = Stored(g.meta) /\ Stored(h.meta) = Stored(g.meta)
  BY <1>2, TreeNames DEF Consistent, TreesAreSound
<1>4. /\ Sound(h.adjacency, Nat) /\ Content(h.adjacency) = Stored(g.adjacency)
      /\ Stored(h.adjacency) = Stored(g.adjacency)
      /\ Sound(h.reversed_adjacency, Nat)
      /\ Content(h.reversed_adjacency) = Stored(g.reversed_adjacency)
      /\ Stored(h.reversed_adjacency) = Stored(g.reversed_adjacency)
  BY <1>2, TreeNames DEF Linked, TreeLinks
<1>5. Linked(h)
  BY <1>3, <1>4 DEF Linked, TreeLinks
<1>6. \A f \in Trees : h[f].cap = g[f].cap /\ h[f].store = g[f].store
  BY <1>1 DEF Reopen, OpenTree
<1>7. ReopenGraph(h) = h
  BY <1>1, <1>6, SameSaved DEF h
<1>8. QED
  BY <1>5, <1>7 DEF h

----------------------------------------------------------------------------
\* The steps of a store with room, in terms of its edges.
LEMMA StartsWithoutEdges == Init => EdgeInv /\ Edges(graph) = NoEdges /\ Edges(ReopenGraph(graph)) = NoEdges
<1> SUFFICES ASSUME Init
             PROVE  EdgeInv /\ Edges(graph) = NoEdges /\ Edges(ReopenGraph(graph)) = NoEdges
  OBVIOUS
<1>1. PICK caps \in [Trees -> Nat \ {0}] : graph = NewGraph(caps)
  BY GraphAssumption, GraphStoreAssumption DEF Init
<1>2. /\ DOMAIN graph = Trees /\ IInv
      /\ \A f \in Trees : graph[f] = OpenTree(NoEntries, caps[f])
  BY <1>1, Start DEF NewGraph
<1>3. ASSUME NEW f \in Trees
      PROVE  /\ graph[f] = Reopen(graph[f]) /\ KeysOf(graph[f]) = {}
             /\ DOMAIN Content(graph[f]) = {} /\ DOMAIN Stored(graph[f]) = {}
             /\ Sound(graph[f], Nat)
  <2>1. /\ Shape(graph[f]) /\ graph[f].store = NoEntries /\ graph[f].cache = NoEntries
        /\ graph[f].lru = <<>> /\ graph[f] = Reopen(graph[f])
    BY <1>2 DEF OpenTree, Shape, Reopen
  <2>2. DOMAIN NoEntries = {} /\ Listed(<<>>) = {} /\ Unrepeated(<<>>) /\ <<>> \in Seq(Nat)
    BY EmptySeq DEF NoEntries, Listed, Unrepeated
  <2>3. KeysOf(graph[f]) = {} /\ DOMAIN Stored(graph[f]) = {}
    BY <2>1, <2>2 DEF KeysOf, Stored
  <2>4. QED
    BY <2>1, <2>2, <2>3, ReadFrom DEF Sound
<1>4. /\ DOMAIN Content(graph.adjacency) = {} /\ DOMAIN Stored(graph.adjacency) = {}
      /\ DOMAIN Content(graph.reversed_adjacency) = {}
      /\ DOMAIN Stored(graph.reversed_adjacency) = {} /\ KeysOf(graph.node2id) = {}
      /\ Sound(graph.adjacency, Nat) /\ Sound(graph.reversed_adjacency, Nat)
  BY <1>3, TreeNames
<1>5. Linked(graph)
  BY <1>4 DEF Linked, TreeLinks, Links
<1>6. \A a, b : EdgeCount(graph, a, b) = 0
  BY <1>4 DEF EdgeCount, Known, KeysOf
<1>7. Edges(graph) = NoEdges
  BY <1>6 DEF Edges, NoEdges
<1>8. ReopenGraph(graph) = graph
  <2>1. graph = [f \in Trees |-> OpenTree(NoEntries, caps[f])]
    BY <1>1 DEF NewGraph
  <2>2. ReopenGraph(graph) = [f \in Trees |-> OpenTree(NoEntries, caps[f])]
    BY <1>2, <1>3 DEF ReopenGraph
  <2>3. QED
    BY <2>1, <2>2
<1>9. QED
  BY <1>2, <1>5, <1>7, <1>8 DEF EdgeInv

\* What a step with room does to the edges, now and after a restart.
LEMMA RoomyStep ==
  ASSUME EdgeInv, HasRoom, [Next]_vars
  PROVE  /\ Linked(graph')
         /\ \/ \E e \in Nodes \X Nodes :
                 /\ \A d \in Nodes \X Nodes :
                      Edges(graph')[d] = Edges(graph)[d] + (IF d = e THEN 1 ELSE 0)
                 /\ Edges(graph) \in [Nodes \X Nodes -> Nat]
                 /\ Edges(ReopenGraph(graph')) = Edges(ReopenGraph(graph))
            \/ /\ Edges(graph') = Edges(graph)
               /\ Edges(ReopenGraph(graph')) \in {Edges(graph), Edges(ReopenGraph(graph))}
            \/ /\ Edges(graph') = Edges(ReopenGraph(graph))
               /\ Edges(ReopenGraph(graph')) = Edges(ReopenGraph(graph))
<1>0. IsGraph(graph) /\ Roomy(graph) /\ Consistent(graph) /\ Linked(graph)
  BY RoomIsRoomy DEF EdgeInv, IInv
<1>1. ASSUME NEW from \in Nodes, NEW to \in Nodes, CallInsert(from, to)
      PROVE  /\ Linked(graph')
             /\ \E e \in Nodes \X Nodes :
                 /\ \A d \in Nodes \X Nodes :
                      Edges(graph')[d] = Edges(graph)[d] + (IF d = e THEN 1 ELSE 0)
                 /\ Edges(graph) \in [Nodes \X Nodes -> Nat]
                 /\ Edges(ReopenGraph(graph')) = Edges(ReopenGraph(graph))
  <2>1. graph' = InsertEdge(graph, from, to)
    BY <1>1 DEF CallInsert
  <2>2. /\ Linked(graph') /\ Kept(graph, graph')
        /\ \A f \in Trees : graph'[f].store = graph[f].store
        /\ \A a, b \in Nodes :
             /\ EdgeCount(graph, a, b) \in Nat
             /\ EdgeCount(graph', a, b) =
                  EdgeCount(graph, a, b) + (IF a = from /\ b = to THEN 1 ELSE 0)
    BY <1>0, <2>1, InsertAddsAnEdge, InsertEdgeAgrees
  <2>3. ReopenGraph(graph') = ReopenGraph(graph)
    BY <1>0, <2>2, SameSaved DEF Kept, IsGraph
  <2>4. \A d \in Nodes \X Nodes :
          Edges(graph')[d] = Edges(graph)[d] + (IF d = <<from, to>> THEN 1 ELSE 0)
    BY <2>2 DEF Edges
  <2>5. Edges(graph) \in [Nodes \X Nodes -> Nat]
    BY <2>2 DEF Edges
  <2>6. <<from, to>> \in Nodes \X Nodes /\ Edges(ReopenGraph(graph')) = Edges(ReopenGraph(graph))
    BY <2>3
  <2>7. QED
    BY <2>2, <2>4, <2>5, <2>6
<1>2. ASSUME IsRead(graph, graph')
      PROVE  /\ Linked(graph') /\ Edges(graph') = Edges(graph)
             /\ Edges(ReopenGraph(graph')) = Edges(ReopenGraph(graph))
  BY <1>0, <1>2, ReadsLeave, SameReading
<1>3. ASSUME \/ \E node \in Nodes : CallNode2Id(node)
             \/ \E id \in GivenIds : CallId2Node(id) \/ CallOutgoingEdges(id) \/ CallIngoingEdges(id)
      PROVE  IsRead(graph, graph')
  BY <1>3 DEF IsRead, CallNode2Id, CallId2Node, CallOutgoingEdges, CallIngoingEdges, GivenIds
<1>4. CASE CallFlush
  BY <1>0, <1>4, FlushSaves DEF CallFlush
<1>5. CASE Restart
  BY <1>0, <1>5, ReopenReadsStored DEF Restart, Reopened
<1>6. ~CrashInFlush
  BY DEF CrashInFlush, HasRoom
<1>7. CASE UNCHANGED vars
  BY <1>0, <1>7 DEF vars
<1>8. QED
  BY <1>1, <1>2, <1>3, <1>4, <1>5, <1>6, <1>7 DEF Next

LEMMA EdgeInvStep == EdgeInv /\ [Next]_vars => EdgeInv'
<1> SUFFICES ASSUME EdgeInv, [Next]_vars PROVE EdgeInv'
  OBVIOUS
<1>1. IInv'
  BY Step DEF EdgeInv
<1>2. HasRoom' => HasRoom
  BY RoomLasts DEF EdgeInv
<1>3. HasRoom => Linked(graph')
  BY RoomyStep
<1>4. QED
  BY <1>1, <1>2, <1>3 DEF EdgeInv

\* The abstract edges are those of the graph, or none without room.
LEMMA EdgesAre ==
  /\ HasRoom => /\ EdgesOfGraph(graph) = Edges(graph)
                /\ EdgesOfGraph(ReopenGraph(graph)) = Edges(ReopenGraph(graph))
  /\ ~HasRoom => /\ EdgesOfGraph(graph) = NoEdges
                 /\ EdgesOfGraph(ReopenGraph(graph)) = NoEdges
  BY DEF EdgesOfGraph, Edges

LEMMA EdgesWillBe ==
  /\ HasRoom' => /\ EdgesOfGraph(graph)' = Edges(graph')
                 /\ EdgesOfGraph(ReopenGraph(graph))' = Edges(ReopenGraph(graph'))
  /\ ~HasRoom' => /\ EdgesOfGraph(graph)' = NoEdges
                  /\ EdgesOfGraph(ReopenGraph(graph))' = NoEdges
  BY DEF EdgesOfGraph, Edges

LEMMA AStepIsOne ==
  ASSUME EdgeInv, [Next]_vars
  PROVE  [Multigraph!Next]_Multigraph!vars
<1>1. HasRoom' <=> HasRoom
  BY RoomLasts DEF EdgeInv
<1>2. CASE ~HasRoom
  BY <1>1, <1>2, EdgesAre, EdgesWillBe DEF Multigraph!vars
<1>3. CASE HasRoom
  <2>1. /\ EdgesOfGraph(graph) = Edges(graph)
        /\ EdgesOfGraph(ReopenGraph(graph)) = Edges(ReopenGraph(graph))
        /\ EdgesOfGraph(graph)' = Edges(graph')
        /\ EdgesOfGraph(ReopenGraph(graph))' = Edges(ReopenGraph(graph'))
    BY <1>1, <1>3, EdgesAre, EdgesWillBe
  <2>2. ASSUME NEW e \in Nodes \X Nodes,
               \A d \in Nodes \X Nodes :
                 Edges(graph')[d] = Edges(graph)[d] + (IF d = e THEN 1 ELSE 0),
               Edges(graph) \in [Nodes \X Nodes -> Nat],
               Edges(ReopenGraph(graph')) = Edges(ReopenGraph(graph))
        PROVE  Multigraph!Add
    <3>1. Edges(graph') = [d \in Nodes \X Nodes |-> Edges(graph')[d]]
      BY DEF Edges
    <3> DEFINE f == Edges(graph)
               plus == Multigraph!Plus(f, e)
    <3>2. plus = [d \in Nodes \X Nodes |-> IF d = e THEN f[d] + 1 ELSE f[d]]
      BY <2>2 DEF Multigraph!Plus
    <3>3. \A d \in Nodes \X Nodes : Edges(graph')[d] = IF d = e THEN f[d] + 1 ELSE f[d]
      BY <2>2
    <3> HIDE DEF plus
    <3>4. Edges(graph') = plus
      BY <3>1, <3>2, <3>3
    <3>5. plus[e] /= f[e]
      BY <2>2, <3>2
    <3>6. QED
      BY <2>1, <2>2, <3>4, <3>5 DEF Multigraph!Add, plus
  <2>3. CASE /\ Edges(graph') = Edges(graph)
             /\ Edges(ReopenGraph(graph')) \in {Edges(graph), Edges(ReopenGraph(graph))}
    BY <2>1, <2>3 DEF Multigraph!Next, Multigraph!Save, Multigraph!vars
  <2>4. CASE /\ Edges(graph') = Edges(ReopenGraph(graph))
             /\ Edges(ReopenGraph(graph')) = Edges(ReopenGraph(graph))
    BY <2>1, <2>4 DEF Multigraph!Next, Multigraph!Restart
  <2>5. QED
    BY <1>3, <2>2, <2>3, <2>4, RoomyStep DEF Multigraph!Next
<1>4. QED
  BY <1>2, <1>3

\* With room in the caches a GraphStore is a multiset of edges between nodes:
\* insert adds one, reads change nothing, flush saves what there is and a
\* restart brings back what was saved (graph_store.rs: insert, flush, open).
THEOREM GraphsAreMultigraphs == Spec => ImplementsEdgeMultigraph
<1>1. Init => EdgeInv /\ Multigraph!Init
  <2>1. Edges(graph) = NoEdges /\ Edges(ReopenGraph(graph)) = NoEdges
        => EdgesOfGraph(graph) = NoEdges /\ EdgesOfGraph(ReopenGraph(graph)) = NoEdges
    BY EdgesAre
  <2>2. EdgesOfGraph(graph) = NoEdges /\ EdgesOfGraph(ReopenGraph(graph)) = NoEdges
        => Multigraph!Init
    BY DEF Multigraph!Init, NoEdges
  <2>3. QED
    BY <2>1, <2>2, StartsWithoutEdges
<1>2. EdgeInv /\ [Next]_vars => EdgeInv'
  BY EdgeInvStep
<1>3. EdgeInv /\ [Next]_vars => [Multigraph!Next]_Multigraph!vars
  BY AStepIsOne
<1>4. QED
  BY <1>1, <1>2, <1>3, PTL DEF Spec, ImplementsEdgeMultigraph, Multigraph!Spec

----------------------------------------------------------------------------
\* What is left of a graph is part of what was put in: there is one naming of
\* the ids that every version of an entry tells the truth by, cached or stored,
\* whatever its age.
Names == Nodes \cup {NoValue}

BlockTells(name, b, block) ==
  \A id \in DOMAIN block :
    id \in Nat /\ BlockOf(id) = b /\ block[id] \in Nodes /\ name[id] = block[id]

ListsTell(name, E, block) ==
  \A id \in DOMAIN block :
    /\ id \in Nat /\ block[id] \in Seq(Nat)
    /\ \A j \in Nat : Count(block[id], j) <= Count(E, <<name[id], name[j]>>)

NodesTell(t, name) ==
  \A node, id : <<node, id>> \in Versions(t) => node \in Nodes /\ id \in Nat /\ name[id] = node
BlocksTell(t, name) == \A b, block : <<b, block>> \in Versions(t) => BlockTells(name, b, block)
EdgesTell(t, name, E) == \A b, block : <<b, block>> \in Versions(t) => ListsTell(name, E, block)
CounterTells(t) == \A k, id : <<k, id>> \in Versions(t) => id \in Nat

Tells(g, name, E) ==
  /\ NodesTell(g.node2id, name) /\ BlocksTell(g.id2node, name)
  /\ EdgesTell(g.adjacency, name, E) /\ CounterTells(g.meta)

Readable(g) == TreesAreSound(g) /\ Sound(g.adjacency, Nat)

\* No id from the limit on is in use.
Fresh(name, limit) == \A id \in Nat : id >= limit => name[id] = NoValue

KeepsNames(name, name2) == \A id \in Nat : name[id] \in Nodes => name2[id] = name[id]

\* The name of an id may be lost with every entry that tells it, so it takes a
\* quantifier.  Where a call may give out ids, the next ones have no name yet.
NameInv ==
  /\ EdgeInv /\ Readable(graph) /\ inserted \in Seq(Nodes \X Nodes)
  /\ \E name \in [Nat -> Names] :
       /\ Tells(graph, name, inserted)
       /\ ~restarted \/ HasRoom => Fresh(name, NextId(graph))

----------------------------------------------------------------------------
LEMMA UsableTrees ==
  ASSUME NEW g, IsGraph(g), Readable(g)
  PROVE  /\ Usable(g.node2id, Nodes) /\ Usable(g.id2node, Nat)
         /\ Usable(g.meta, {NextIdKey}) /\ Usable(g.adjacency, Nat)
  BY TreeNames DEF Readable, TreesAreSound, Usable, IsGraph

LEMMA NextIdIsNat ==
  ASSUME NEW g, CounterTells(g.meta) PROVE NextId(g) \in Nat
<1>1. CASE Known(g.meta, NextIdKey)
  <2>1. <<NextIdKey, Peek(g.meta, NextIdKey)>> \in Versions(g.meta)
    BY <1>1, VersionsElim DEF Known, KeysOf
  <2>2. QED
    BY <1>1, <2>1 DEF CounterTells, NextId
<1>2. CASE ~Known(g.meta, NextIdKey)
  BY <1>2 DEF NextId
<1>3. QED
  BY <1>1, <1>2

\* Fewer versions tell no more.
LEMMA FewerTell ==
  ASSUME NEW g, NEW h, NEW name, NEW E, Tells(g, name, E),
         Versions(h.node2id) \subseteq Versions(g.node2id),
         Versions(h.id2node) \subseteq Versions(g.id2node),
         Versions(h.adjacency) \subseteq Versions(g.adjacency),
         Versions(h.meta) \subseteq Versions(g.meta)
  PROVE  Tells(h, name, E)
<1>1. NodesTell(h.node2id, name)
  BY DEF Tells, NodesTell
<1>2. BlocksTell(h.id2node, name)
  BY DEF Tells, BlocksTell
<1>3. EdgesTell(h.adjacency, name, E)
  BY DEF Tells, EdgesTell
<1>4. CounterTells(h.meta)
  BY DEF Tells, CounterTells
<1>5. QED
  BY <1>1, <1>2, <1>3, <1>4 DEF Tells

\* A value set in a block: the other values of the block are of a version of it.
Sets(t, u, id, v, block) ==
  /\ Versions(u) \subseteq Versions(t) \cup {<<BlockOf(id), block>>}
  /\ id \in DOMAIN block /\ block[id] = v
  /\ \A k \in DOMAIN block \ {id} :
       \E old : <<BlockOf(id), old>> \in Versions(t) /\ k \in DOMAIN old /\ block[k] = old[k]

LEMMA SetBrings ==
  ASSUME NEW t, Usable(t, Nat), NEW id \in Nat, NEW v, NEW u, u = BlockedInsert(t, id, v)
  PROVE  Sound(u, Nat) /\ \E block : Sets(t, u, id, v, block)
<1> DEFINE b == BlockOf(id)
<1>0. b \in Nat
  BY BlockType
<1>1. CASE Known(t, b)
  <2> DEFINE old == Peek(t, b)
             block == With(old, id, v)
  <2>1. b \in KeysOf(t)
    BY <1>1 DEF Known, KeysOf
  <2>2. <<b, old>> \in Versions(t)
    BY <2>1, VersionsElim
  <2>3. u = Mutate(t, b, block)
    BY <1>1 DEF BlockedInsert
  <2> HIDE DEF old
  <2>4. /\ id \in DOMAIN block /\ block[id] = v
        /\ \A k \in DOMAIN block \ {id} : k \in DOMAIN old /\ block[k] = old[k]
    BY DEF With
  <2> HIDE DEF b, block
  <2>5. Brings(t, u, Nat, b, block)
    BY <2>1, <2>3, MutateBrings
  <2>6. Sound(u, Nat) /\ Versions(u) \subseteq Versions(t) \cup {<<b, block>>}
    BY <2>5 DEF Brings
  <2>7. QED
    BY <2>2, <2>4, <2>6 DEF b, Sets
<1>2. CASE ~Known(t, b)
  <2> DEFINE block == With(NoEntries, id, v)
  <2>1. u = Insert(t, b, block)
    BY <1>2 DEF BlockedInsert
  <2>2. id \in DOMAIN block /\ block[id] = v /\ DOMAIN block \ {id} = {}
    BY DEF With, NoEntries
  <2> HIDE DEF b, block
  <2>3. Brings(t, u, Nat, b, block)
    BY <1>0, <2>1, InsertBrings
  <2>4. Sound(u, Nat) /\ Versions(u) \subseteq Versions(t) \cup {<<b, block>>}
    BY <2>3 DEF Brings
  <2>5. QED
    BY <2>2, <2>4 DEF b, Sets
<1>3. QED
  BY <1>1, <1>2

\* A fresh id takes a name, and no version is the less true for it.
LEMMA NamingTells ==
  ASSUME NEW name \in [Nat -> Names], NEW id \in Nat, name[id] = NoValue,
         NEW node \in Nodes, NEW name2, name2 = [name EXCEPT ![id] = node]
  PROVE  /\ name2 \in [Nat -> Names] /\ KeepsNames(name, name2)
         /\ \A t : NodesTell(t, name) => NodesTell(t, name2)
         /\ \A t : BlocksTell(t, name) => BlocksTell(t, name2)
         /\ \A t : \A E \in Seq(Nodes \X Nodes) :
              EdgesTell(t, name, E) => EdgesTell(t, name2, E)
<1>0. NoValue \notin Nodes
  BY GraphAssumption
<1>1. name2 \in [Nat -> Names] /\ KeepsNames(name, name2) /\ name2[id] = node
      /\ \A k \in Nat : k /= id => name2[k] = name[k]
  BY <1>0 DEF Names, KeepsNames
<1>2. ASSUME NEW t, NodesTell(t, name) PROVE NodesTell(t, name2)
  BY <1>1, <1>2 DEF NodesTell, KeepsNames
<1>3. ASSUME NEW t, BlocksTell(t, name) PROVE BlocksTell(t, name2)
  BY <1>1, <1>3 DEF BlocksTell, BlockTells, KeepsNames
<1>4. ASSUME NEW t, NEW E \in Seq(Nodes \X Nodes), EdgesTell(t, name, E)
      PROVE  EdgesTell(t, name2, E)
  <2>1. ASSUME NEW b, NEW block, <<b, block>> \in Versions(t), NEW k \in DOMAIN block,
               NEW j \in Nat
        PROVE  /\ k \in Nat /\ block[k] \in Seq(Nat)
               /\ Count(block[k], j) <= Count(E, <<name2[k], name2[j]>>)
    <3>1. /\ k \in Nat /\ block[k] \in Seq(Nat)
          /\ Count(block[k], j) <= Count(E, <<name[k], name[j]>>)
      BY <1>4, <2>1 DEF EdgesTell, ListsTell
    <3>2. CASE k /= id /\ j /= id
      BY <1>1, <3>1, <3>2
    <3>3. CASE k = id \/ j = id
      <4>1. <<name[k], name[j]>> \notin Nodes \X Nodes
        BY <1>0, <3>3
      <4>2. Count(E, <<name[k], name[j]>>) = 0
        BY <4>1, CountAbsent
      <4>3. Count(E, <<name2[k], name2[j]>>) \in Nat /\ Count(block[k], j) \in Nat
        BY <3>1, CountIsNat
      <4>4. QED
        BY <3>1, <4>2, <4>3
    <3>4. QED
      BY <3>2, <3>3
  <2>2. ASSUME NEW b, NEW block, <<b, block>> \in Versions(t), NEW k \in DOMAIN block
        PROVE  k \in Nat /\ block[k] \in Seq(Nat)
    BY <1>4, <2>2 DEF EdgesTell, ListsTell
  <2>3. QED
    BY <2>1, <2>2 DEF EdgesTell, ListsTell
<1>5. QED
  BY <1>1, <1>2, <1>3, <1>4

\* id_or_assign: the id it comes to names the node.
LEMMA LookUpTells ==
  ASSUME NEW g, IsGraph(g), Readable(g), NEW node \in Nodes,
         NEW name \in [Nat -> Names], NEW E, Tells(g, name, E)
  PROVE  LET h == LookUpNode(g, node)
         IN  /\ Readable(h) /\ Tells(h, name, E) /\ NextId(h) = NextId(g)
             /\ Known(g.node2id, node) => IdOf(h, node) \in Nat /\ name[IdOf(h, node)] = node
<1> DEFINE h == LookUpNode(g, node)
           w == Get(g.node2id, node)
<1>1. /\ h.node2id = w /\ h.id2node = g.id2node /\ h.meta = g.meta
      /\ h.adjacency = g.adjacency
  BY LookUpLeaves
<1>2. /\ Sound(w, Nodes) /\ Versions(w) \subseteq Versions(g.node2id)
      /\ node \in KeysOf(g.node2id) => node \in DOMAIN w.cache /\ w.cache[node] = Peek(g.node2id, node)
  BY UsableTrees, GetBrings
<1> HIDE DEF h, w
<1>3. Readable(h)
  BY <1>1, <1>2 DEF Readable, TreesAreSound
<1>4. Tells(h, name, E)
  BY <1>1, <1>2, FewerTell
<1>5. NextId(h) = NextId(g)
  BY <1>1 DEF NextId
<1>6. ASSUME Known(g.node2id, node) PROVE IdOf(h, node) \in Nat /\ name[IdOf(h, node)] = node
  <2>1. node \in DOMAIN h.node2id.cache
    BY <1>1, <1>2, <1>6 DEF Known, KeysOf
  <2>2. <<node, IdOf(h, node)>> \in Versions(h.node2id)
    BY <2>1, VersionsElim DEF IdOf, KeysOf
  <2>3. QED
    BY <1>4, <2>2 DEF Tells, NodesTell
<1>7. QED
  BY <1>3, <1>4, <1>5, <1>6 DEF h

LEMMA IdOrAssignTells ==
  ASSUME NEW g, IsGraph(g), Readable(g), NEW node \in Nodes,
         NEW name \in [Nat -> Names], NEW E \in Seq(Nodes \X Nodes), Tells(g, name, E),
         Fresh(name, NextId(g))
  PROVE  LET h == IdOrAssign(g, node)
         IN  /\ Readable(h)
             /\ \E name2 \in [Nat -> Names] :
                  /\ Tells(h, name2, E) /\ Fresh(name2, NextId(h)) /\ KeepsNames(name, name2)
                  /\ IdOf(h, node) \in Nat /\ name2[IdOf(h, node)] = node
<1> DEFINE h == IdOrAssign(g, node)
<1>1. CASE Known(g.node2id, node)
  <2>1. h = LookUpNode(g, node)
    BY <1>1 DEF IdOrAssign
  <2> HIDE DEF h
  <2>2. /\ Readable(h) /\ Tells(h, name, E) /\ NextId(h) = NextId(g)
        /\ IdOf(h, node) \in Nat /\ name[IdOf(h, node)] = node
    BY <1>1, <2>1, LookUpTells
  <2>3. KeepsNames(name, name) /\ Fresh(name, NextId(h))
    BY <2>2 DEF KeepsNames
  <2>4. QED
    BY <2>2, <2>3 DEF h
<1>2. CASE ~Known(g.node2id, node)
  <2> DEFINE id == NextId(g)
             n == Get(g.node2id, node)
             m == Get(g.meta, NextIdKey)
             name2 == [name EXCEPT ![id] = node]
  <2>1. /\ h.node2id = Insert(n, node, id)
        /\ h.id2node = BlockedInsert(g.id2node, id, node)
        /\ h.meta = Insert(m, NextIdKey, id + 1)
        /\ h.adjacency = g.adjacency
    BY <1>2, NewIdLeaves
  <2>2. id \in Nat
    BY NextIdIsNat DEF Tells
  <2>3. name[id] = NoValue
    BY <2>2 DEF Fresh
  <2> HIDE DEF h
  <2>4. /\ Usable(n, Nodes) /\ Versions(n) \subseteq Versions(g.node2id)
        /\ Usable(m, {NextIdKey}) /\ Versions(m) \subseteq Versions(g.meta)
    <3>1. Usable(g.node2id, Nodes) /\ Usable(g.meta, {NextIdKey}) /\ NextIdKey \in {NextIdKey}
      BY UsableTrees
    <3>2. n.cap = g.node2id.cap /\ m.cap = g.meta.cap
      BY <3>1, GetShape DEF Usable, Sound, Resized
    <3>3. Sound(n, Nodes) /\ Versions(n) \subseteq Versions(g.node2id)
      BY <3>1, GetBrings
    <3>4. Sound(m, {NextIdKey}) /\ Versions(m) \subseteq Versions(g.meta)
      BY <3>1, GetBrings
    <3>5. QED
      BY <3>1, <3>2, <3>3, <3>4 DEF Usable
  <2> HIDE DEF n, m
  <2>5. /\ Sound(h.node2id, Nodes)
        /\ Versions(h.node2id) \subseteq Versions(g.node2id) \cup {<<node, id>>}
        /\ Peek(h.node2id, node) = id
    BY <2>1, <2>4, InsertBrings DEF Brings, Peek
  <2>6. /\ Sound(h.meta, {NextIdKey})
        /\ Versions(h.meta) \subseteq Versions(g.meta) \cup {<<NextIdKey, id + 1>>}
        /\ Known(h.meta, NextIdKey) /\ Peek(h.meta, NextIdKey) = id + 1
    <3>1. NextIdKey \in {NextIdKey}
      OBVIOUS
    <3>2. Brings(m, h.meta, {NextIdKey}, NextIdKey, id + 1)
      BY <2>1, <2>4, <3>1, InsertBrings
    <3>3. QED
      BY <2>4, <3>2 DEF Brings, Peek, Known
  <2> HIDE DEF id, name2
  <2>7. Usable(g.id2node, Nat) /\ Sound(h.id2node, Nat)
    BY <2>1, <2>2, UsableTrees, SetBrings
  <2>8. PICK block : Sets(g.id2node, h.id2node, id, node, block)
    BY <2>1, <2>2, <2>7, SetBrings
  <2>9. NextId(h) = id + 1
    BY <2>6 DEF NextId
  <2>10. name2[id] = node /\ \A k \in Nat : k /= id => name2[k] = name[k]
    BY <2>2 DEF name2
  <2>11. /\ name2 \in [Nat -> Names] /\ KeepsNames(name, name2)
         /\ NodesTell(g.node2id, name2) /\ BlocksTell(g.id2node, name2)
         /\ EdgesTell(g.adjacency, name2, E) /\ CounterTells(g.meta)
    BY <2>2, <2>3, NamingTells DEF Tells, name2
  <2>12. NodesTell(h.node2id, name2)
    BY <2>2, <2>5, <2>10, <2>11 DEF NodesTell
  <2>13. BlockTells(name2, BlockOf(id), block)
    <3> SUFFICES ASSUME NEW k \in DOMAIN block
                 PROVE  /\ k \in Nat /\ BlockOf(k) = BlockOf(id)
                        /\ block[k] \in Nodes /\ name2[k] = block[k]
      BY DEF BlockTells
    <3>1. CASE k = id
      BY <2>2, <2>8, <2>10, <3>1 DEF Sets
    <3>2. CASE k /= id
      <4>1. PICK old : /\ <<BlockOf(id), old>> \in Versions(g.id2node)
                       /\ k \in DOMAIN old /\ block[k] = old[k]
        BY <2>8, <3>2 DEF Sets
      <4>2. BlockTells(name2, BlockOf(id), old)
        BY <2>11, <4>1 DEF BlocksTell
      <4>3. QED
        BY <4>1, <4>2 DEF BlockTells
    <3>3. QED
      BY <3>1, <3>2
  <2>14. BlocksTell(h.id2node, name2)
    BY <2>8, <2>11, <2>13 DEF BlocksTell, Sets
  <2>15. CounterTells(h.meta)
    BY <2>2, <2>6, <2>11 DEF CounterTells
  <2>16. Fresh(name2, NextId(h))
    BY <2>2, <2>9, <2>10 DEF Fresh, id
  <2>17. Readable(h)
    BY <2>1, <2>5, <2>6, <2>7 DEF Readable, TreesAreSound
  <2>18. Tells(h, name2, E)
    BY <2>1, <2>11, <2>12, <2>14, <2>15 DEF Tells
  <2>19. IdOf(h, node) \in Nat /\ name2[IdOf(h, node)] = node
    BY <2>2, <2>5, <2>10 DEF IdOf
  <2>20. QED
    BY <2>11, <2>16, <2>17, <2>18, <2>19 DEF h
<1>3. QED
  BY <1>1, <1>2

\* An edge more in a list, and in what was inserted.
LEMMA EdgeTells ==
  ASSUME NEW t, Usable(t, Nat), NEW name \in [Nat -> Names], NEW E \in Seq(Nodes \X Nodes),
         EdgesTell(t, name, E), NEW i \in Nat, NEW j \in Nat, name[i] \in Nodes, name[j] \in Nodes
  PROVE  LET u == AdjacencyInsert(t, i, j)
         IN  Sound(u, Nat) /\ EdgesTell(u, name, Append(E, <<name[i], name[j]>>))
<1> DEFINE list == EdgesOf(t, i)
           edge == <<name[i], name[j]>>
           E2 == Append(E, edge)
           u == AdjacencyInsert(t, i, j)
<1>1. u = BlockedInsert(t, i, Append(list, j))
  BY DEF AdjacencyInsert
<1>2. edge \in Nodes \X Nodes
  OBVIOUS
<1>3. list \in Seq(Nat) /\ \A k \in Nat : Count(list, k) <= Count(E, <<name[i], name[k]>>)
  <2>1. CASE BlockedKnown(t, i)
    <3>1. <<BlockOf(i), Peek(t, BlockOf(i))>> \in Versions(t)
      BY <2>1, VersionsElim DEF BlockedKnown, Known, KeysOf
    <3>2. i \in DOMAIN Peek(t, BlockOf(i)) /\ list = Peek(t, BlockOf(i))[i]
      BY <2>1 DEF BlockedKnown, EdgesOf, BlockedPeek
    <3>3. ListsTell(name, E, Peek(t, BlockOf(i)))
      BY <3>1 DEF EdgesTell
    <3>4. QED
      BY <3>2, <3>3 DEF ListsTell
  <2>2. CASE ~BlockedKnown(t, i)
    <3>1. list = <<>> /\ <<>> \in Seq(Nat)
      BY <2>2, EmptySeq DEF EdgesOf
    <3>2. \A k \in Nat : Count(list, k) = 0 /\ Count(E, <<name[i], name[k]>>) \in Nat
      BY <3>1, NoneListed, CountIsNat
    <3>3. QED
      BY <3>1, <3>2
  <2>3. QED
    BY <2>1, <2>2
<1> HIDE DEF list, u
<1>4. Sound(u, Nat)
  BY <1>1, SetBrings
<1>5. PICK block : Sets(t, u, i, Append(list, j), block)
  BY <1>1, SetBrings
<1>6. ASSUME NEW x
      PROVE  /\ Count(E, x) \in Nat /\ Count(E, x) <= Count(E2, x)
             /\ Count(E2, x) \in Nat /\ (x = edge => Count(E2, x) = Count(E, x) + 1)
  <2> HIDE DEF edge
  <2>1. Count(E, x) \in Nat
    BY CountIsNat
  <2>2. Count(E2, x) = Count(E, x) + (IF x = edge THEN 1 ELSE 0)
    BY <1>2, CountAppend
  <2> HIDE DEF E2
  <2>3. QED
    BY <2>1, <2>2
<1> HIDE DEF E2, edge
<1>7. ASSUME NEW b, NEW old, <<b, old>> \in Versions(t), NEW k \in DOMAIN old
      PROVE  /\ k \in Nat /\ old[k] \in Seq(Nat)
             /\ \A x \in Nat : Count(old[k], x) <= Count(E2, <<name[k], name[x]>>)
  <2>1. /\ k \in Nat /\ old[k] \in Seq(Nat)
        /\ \A x \in Nat : Count(old[k], x) <= Count(E, <<name[k], name[x]>>)
    BY <1>7 DEF EdgesTell, ListsTell
  <2>2. \A x \in Nat : Count(old[k], x) \in Nat
    BY <2>1, CountIsNat
  <2>3. ASSUME NEW x \in Nat PROVE Count(old[k], x) <= Count(E2, <<name[k], name[x]>>)
    <3>1. Count(old[k], x) \in Nat /\ Count(old[k], x) <= Count(E, <<name[k], name[x]>>)
      BY <2>1, <2>2
    <3>2. /\ Count(E, <<name[k], name[x]>>) \in Nat /\ Count(E2, <<name[k], name[x]>>) \in Nat
          /\ Count(E, <<name[k], name[x]>>) <= Count(E2, <<name[k], name[x]>>)
      BY <1>6
    <3>3. QED
      BY <3>1, <3>2
  <2>4. QED
    BY <2>1, <2>3
<1>8. Append(list, j) \in Seq(Nat)
  BY <1>3, AppendProperties
<1>9. ASSUME NEW x \in Nat
      PROVE  Count(Append(list, j), x) <= Count(E2, <<name[i], name[x]>>)
  <2> DEFINE c == Count(list, x)
             d == Count(E, <<name[i], name[x]>>)
             d2 == Count(E2, <<name[i], name[x]>>)
  <2>1. c \in Nat /\ c <= d
    BY <1>3, CountIsNat
  <2>2. Count(Append(list, j), x) = c + (IF x = j THEN 1 ELSE 0)
    <3>1. \A y \in Nat : \A z :
            Count(Append(list, y), z) = Count(list, z) + (IF z = y THEN 1 ELSE 0)
      BY <1>3, CountAppend
    <3>2. QED
      BY <3>1
  <2>3. d \in Nat /\ d2 \in Nat /\ d <= d2
    BY <1>6
  <2>4. x = j => d2 = d + 1
    BY <1>6 DEF edge
  <2> HIDE DEF c, d, d2
  <2>5. Count(Append(list, j), x) <= d2
    BY <2>1, <2>2, <2>3, <2>4
  <2>6. QED
    BY <2>5 DEF d2
<1>10. ListsTell(name, E2, block)
  <2> SUFFICES ASSUME NEW k \in DOMAIN block
               PROVE  /\ k \in Nat /\ block[k] \in Seq(Nat)
                      /\ \A x \in Nat : Count(block[k], x) <= Count(E2, <<name[k], name[x]>>)
    BY DEF ListsTell
  <2>1. CASE k = i
    BY <1>5, <1>8, <1>9, <2>1 DEF Sets
  <2>2. CASE k /= i
    <3>1. PICK old : <<BlockOf(i), old>> \in Versions(t) /\ k \in DOMAIN old /\ block[k] = old[k]
      BY <1>5, <2>2 DEF Sets
    <3>2. QED
      BY <1>7, <3>1
  <2>3. QED
    BY <2>1, <2>2
<1>11. ASSUME NEW b, NEW old, <<b, old>> \in Versions(t) PROVE ListsTell(name, E2, old)
  BY <1>7, <1>11 DEF ListsTell
<1>12. EdgesTell(u, name, E2)
  BY <1>5, <1>10, <1>11 DEF EdgesTell, Sets
<1>13. QED
  BY <1>4, <1>12 DEF E2, edge, u

\* A naming goes on to tell what GraphStore::insert leaves: the adjacency tree
\* has the ids of the two ends.
GoesOn(g, h, from, to, name, E) ==
  \E name2 \in [Nat -> Names] :
    /\ Tells(h, name2, Append(E, <<from, to>>)) /\ Fresh(name2, NextId(h))
    /\ KeepsNames(name, name2)
    /\ \E k, l \in Nat : /\ h.adjacency = AdjacencyInsert(g.adjacency, k, l)
                         /\ name2[k] = from /\ name2[l] = to

LEMMA InsertTells ==
  ASSUME NEW g, IsGraph(g), Readable(g), NEW from \in Nodes, NEW to \in Nodes,
         NEW name \in [Nat -> Names], NEW E \in Seq(Nodes \X Nodes), Tells(g, name, E),
         Fresh(name, NextId(g))
  PROVE  /\ Readable(InsertEdge(g, from, to))
         /\ GoesOn(g, InsertEdge(g, from, to), from, to, name, E)
<1> DEFINE g1 == IdOrAssign(g, from)
           g2 == IdOrAssign(g1, to)
           i == IdOf(g1, from)
           j == IdOf(g2, to)
           u == AdjacencyInsert(g2.adjacency, i, j)
           r == AdjacencyInsert(g2.reversed_adjacency, j, i)
           h == InsertEdge(g, from, to)
<1>0. h = [g2 EXCEPT !.adjacency = u, !.reversed_adjacency = r]
  BY DEF InsertEdge
<1>1. IsGraph(g1) /\ Readable(g1)
  BY IdOrAssignAgrees, IdOrAssignTells DEF Kept
<1>2. g1.adjacency = g.adjacency
  BY LookUpLeaves, NewIdLeaves DEF IdOrAssign
<1>3. PICK name1 \in [Nat -> Names] :
        /\ Tells(g1, name1, E) /\ Fresh(name1, NextId(g1)) /\ KeepsNames(name, name1)
        /\ i \in Nat /\ name1[i] = from
  BY IdOrAssignTells
<1> HIDE DEF g1, i
<1>4. IsGraph(g2) /\ Readable(g2)
  BY <1>1, <1>3, IdOrAssignAgrees, IdOrAssignTells DEF Kept
<1>5. g2.adjacency = g.adjacency
  BY <1>1, <1>2, LookUpLeaves, NewIdLeaves DEF IdOrAssign
<1>6. PICK name2 \in [Nat -> Names] :
        /\ Tells(g2, name2, E) /\ Fresh(name2, NextId(g2)) /\ KeepsNames(name1, name2)
        /\ j \in Nat /\ name2[j] = to
  BY <1>1, <1>3, IdOrAssignTells
<1> HIDE DEF g2, j
<1>7. name2[i] = from
  BY <1>3, <1>6 DEF KeepsNames
<1>8. Usable(g2.adjacency, Nat) /\ EdgesTell(g2.adjacency, name2, E)
  BY <1>4, <1>6, UsableTrees DEF Tells
<1>9. Sound(u, Nat) /\ EdgesTell(u, name2, Append(E, <<name2[i], name2[j]>>))
  BY <1>3, <1>6, <1>7, <1>8, EdgeTells
<1> HIDE DEF u, r, h
<1>10. /\ h.adjacency = u /\ h.node2id = g2.node2id /\ h.id2node = g2.id2node
      /\ h.meta = g2.meta
  BY <1>0, <1>4, TreeNames DEF IsGraph
<1>11. Readable(h)
  BY <1>4, <1>9, <1>10 DEF Readable, TreesAreSound
<1>12. Tells(h, name2, Append(E, <<from, to>>))
  BY <1>6, <1>7, <1>9, <1>10 DEF Tells
<1>13. Fresh(name2, NextId(h))
  BY <1>6, <1>10 DEF NextId
<1>14. KeepsNames(name, name2)
  BY <1>3, <1>6 DEF KeepsNames
<1>15. h.adjacency = AdjacencyInsert(g.adjacency, i, j)
  BY <1>10, <1>5 DEF u
<1>16. QED
  BY <1>3, <1>6, <1>7, <1>11, <1>12, <1>13, <1>14, <1>15 DEF h, GoesOn

\* What a call on one tree tells, if it brings nothing.
LEMMA OneTreeTells ==
  ASSUME NEW g, IsGraph(g), Readable(g), NEW name, NEW E, Tells(g, name, E), NEW h,
         NEW id \in Nat,
         \/ h = [g EXCEPT !.id2node = BlockedGet(g.id2node, id)]
         \/ h = [g EXCEPT !.adjacency = BlockedGet(g.adjacency, id)]
         \/ h = [g EXCEPT !.reversed_adjacency = BlockedGet(g.reversed_adjacency, id)]
  PROVE  Readable(h) /\ Tells(h, name, E) /\ NextId(h) = NextId(g)
<1>1. ASSUME NEW t, Usable(t, Nat)
      PROVE  Sound(BlockedGet(t, id), Nat) /\ Versions(BlockedGet(t, id)) \subseteq Versions(t)
  BY <1>1, BlockType, GetBrings DEF BlockedGet
<1>2. Usable(g.id2node, Nat) /\ Usable(g.adjacency, Nat)
  BY UsableTrees
<1>3. /\ h.node2id = g.node2id /\ h.meta = g.meta
      /\ h.id2node \in {g.id2node, BlockedGet(g.id2node, id)}
      /\ h.adjacency \in {g.adjacency, BlockedGet(g.adjacency, id)}
  BY TreeNames DEF IsGraph
<1>4. /\ Sound(h.id2node, Nat) /\ Versions(h.id2node) \subseteq Versions(g.id2node)
      /\ Sound(h.adjacency, Nat) /\ Versions(h.adjacency) \subseteq Versions(g.adjacency)
  BY <1>1, <1>2, <1>3 DEF Usable
<1>5. Readable(h)
  BY <1>3, <1>4 DEF Readable, TreesAreSound
<1>6. Tells(h, name, E)
  BY <1>3, <1>4, FewerTell
<1>7. QED
  BY <1>3, <1>5, <1>6 DEF NextId

\* Flushes and restarts.
LEMMA TreesTell ==
  ASSUME NEW g, IsGraph(g), Readable(g), NEW name, NEW E, Tells(g, name, E), NEW h,
         \A f \in Trees : \A K : Sound(g[f], K) =>
           Sound(h[f], K) /\ Versions(h[f]) \subseteq Versions(g[f])
  PROVE  Readable(h) /\ Tells(h, name, E)
<1>1. /\ Sound(h.node2id, Nodes) /\ Versions(h.node2id) \subseteq Versions(g.node2id)
      /\ Sound(h.id2node, Nat) /\ Versions(h.id2node) \subseteq Versions(g.id2node)
      /\ Sound(h.meta, {NextIdKey}) /\ Versions(h.meta) \subseteq Versions(g.meta)
      /\ Sound(h.adjacency, Nat) /\ Versions(h.adjacency) \subseteq Versions(g.adjacency)
  BY TreeNames DEF Readable, TreesAreSound
<1>2. QED
  BY <1>1, FewerTell DEF Readable, TreesAreSound

LEMMA FlushTells ==
  ASSUME NEW g, IsGraph(g), Readable(g), NEW name, NEW E, Tells(g, name, E)
  PROVE  LET h == FlushGraph(g)
         IN  Readable(h) /\ Tells(h, name, E) /\ NextId(h) = NextId(g)
<1> DEFINE h == FlushGraph(g)
<1>1. \A f \in Trees : h[f] = Flush(g[f])
  BY DEF FlushGraph, IsGraph
<1> HIDE DEF h
<1>2. \A f \in Trees : \A K : Sound(g[f], K) =>
        Sound(h[f], K) /\ Versions(h[f]) \subseteq Versions(g[f])
  BY <1>1, FlushBrings
<1>3. Readable(h) /\ Tells(h, name, E)
  BY <1>2, TreesTell
<1>4. NextId(h) = NextId(g)
  <2>1. h.meta = Flush(g.meta) /\ Sound(g.meta, {NextIdKey})
    BY <1>1, TreeNames DEF Readable, TreesAreSound
  <2>2. Content(h.meta) = Content(g.meta)
    BY <2>1, FlushAll
  <2>3. QED
    BY <2>2, ReadNextId
<1>5. QED
  BY <1>3, <1>4 DEF h

LEMMA ReopenTells ==
  ASSUME NEW g, IsGraph(g), Readable(g), NEW name, NEW E, Tells(g, name, E)
  PROVE  LET h == ReopenGraph(g) IN Readable(h) /\ Tells(h, name, E)
<1> DEFINE h == ReopenGraph(g)
<1>1. \A f \in Trees : h[f] = Reopen(g[f])
  BY DEF ReopenGraph, IsGraph
<1> HIDE DEF h
<1>2. \A f \in Trees : \A K : Sound(g[f], K) =>
        Sound(h[f], K) /\ Versions(h[f]) \subseteq Versions(g[f])
  BY <1>1, ReopenBrings
<1>3. QED
  BY <1>2, TreesTell DEF h

LEMMA TornFlushTells ==
  ASSUME NEW g, IsGraph(g), Readable(g), NEW name, NEW E, Tells(g, name, E),
         NEW n \in 0 .. 4, NEW m \in 0 .. Len(g[FlushOrder[n + 1]].lru)
  PROVE  LET h == TornFlush(g, n, m) IN IsGraph(h) /\ Readable(h) /\ Tells(h, name, E)
<1> DEFINE h == TornFlush(g, n, m)
<1>1. DOMAIN h = Trees
  BY DEF TornFlush, IsGraph
<1>2. ASSUME NEW f \in Trees
      PROVE  \/ h[f] = Flush(g[f]) \/ h[f] = g[f]
             \/ h[f] = FlushSome(g[f], m) /\ m \in 0 .. Len(g[f].lru)
  <2>1. h[f] = IF \E k \in 1 .. n : FlushOrder[k] = f THEN Flush(g[f])
               ELSE IF FlushOrder[n + 1] = f THEN FlushSome(g[f], m) ELSE g[f]
    BY DEF TornFlush, IsGraph
  <2> HIDE DEF h
  <2>2. QED
    BY <2>1
<1> HIDE DEF h
<1>3. \A f \in Trees : \A K : Sound(g[f], K) =>
        Sound(h[f], K) /\ Versions(h[f]) \subseteq Versions(g[f])
  BY <1>2, FlushBrings, FlushSomeBrings
<1>4. \A f \in Trees : Shape(h[f]) /\ h[f].cap = g[f].cap
  BY <1>2, FlushShape, FlushSomeShape DEF IsGraph, Resized
<1>5. IsGraph(h)
  BY <1>1, <1>4 DEF IsGraph
<1>6. QED
  BY <1>3, <1>5, TreesTell DEF h

\* After a restart with room no id from next_id on is in use.
LEMMA RestartForgets ==
  ASSUME NEW g, Consistent(g), Linked(g), NEW name \in [Nat -> Names],
         NEW E \in Seq(Nodes \X Nodes), Tells(g, name, E),
         \A f \in Trees : DOMAIN g[f].cache = {}
  PROVE  \E name2 \in [Nat -> Names] : Tells(g, name2, E) /\ Fresh(name2, NextId(g))
<1> DEFINE next == NextId(g)
           name2 == [id \in Nat |-> IF id < next THEN name[id] ELSE NoValue]
           N == Content(g.node2id)
           B == Content(g.id2node)
           M == Content(g.meta)
           A == Content(g.adjacency)
<1>1. next \in Nat /\ next = Next_(M) /\ Agree(N, B, M) /\ Links(A, B, M)
  BY OwnIds, ReadNextId DEF Consistent, Linked, TreeLinks
<1>2. /\ name2 \in [Nat -> Names] /\ Fresh(name2, next)
      /\ \A id \in 0 .. next - 1 : name2[id] = name[id]
  BY <1>1 DEF Names, Fresh
<1>3. ASSUME NEW f \in Trees, NEW k, NEW v, <<k, v>> \in Versions(g[f])
      PROVE  k \in DOMAIN Content(g[f]) /\ Content(g[f])[k] = v
  <2>1. DOMAIN g[f].cache = {}
    OBVIOUS
  <2>2. k \in DOMAIN g[f].store /\ v = g[f].store[k]
    BY <1>3, <2>1 DEF Versions
  <2>3. k \in KeysOf(g[f]) /\ Peek(g[f], k) = v
    BY <2>1, <2>2 DEF KeysOf, Peek, Lookup
  <2>4. QED
    BY <2>3, ReadFrom
<1>4. /\ \A k, v : <<k, v>> \in Versions(g.node2id) => k \in DOMAIN N /\ N[k] = v
      /\ \A k, v : <<k, v>> \in Versions(g.id2node) => k \in DOMAIN B /\ B[k] = v
      /\ \A k, v : <<k, v>> \in Versions(g.adjacency) => k \in DOMAIN A /\ A[k] = v
  BY <1>3, TreeNames
<1> HIDE DEF next, name2, N, B, M, A
<1>5. NodesTell(g.node2id, name2)
  <2>1. \A node \in DOMAIN N : N[node] \in 0 .. next - 1
    BY <1>1 DEF Agree, NodesHaveIds
  <2>2. QED
    BY <1>2, <1>4, <2>1 DEF NodesTell, Tells
<1>6. BlocksTell(g.id2node, name2)
  <2>1. \A b \in DOMAIN B : \A id \in DOMAIN B[b] : id \in 0 .. next - 1
    BY <1>1 DEF Agree, BlocksNameNodes
  <2>2. QED
    BY <1>2, <1>4, <2>1 DEF BlocksTell, BlockTells, Tells
<1>7. ASSUME NEW b, NEW block, <<b, block>> \in Versions(g.adjacency) PROVE ListsTell(name2, E, block)
  <2>1. \A id \in DOMAIN block : id \in 0 .. next - 1 /\ block[id] \in Seq(0 .. next - 1)
    BY <1>1, <1>4, <1>7 DEF Links
  <2>2. \A id \in DOMAIN block :
          /\ id \in Nat /\ block[id] \in Seq(Nat)
          /\ \A j \in Nat : Count(block[id], j) <= Count(E, <<name[id], name[j]>>)
    BY <1>7 DEF Tells, EdgesTell, ListsTell
  <2>3. ASSUME NEW id \in DOMAIN block, NEW j \in Nat
        PROVE  Count(block[id], j) <= Count(E, <<name2[id], name2[j]>>)
    <3>1. CASE j \in 0 .. next - 1
      BY <1>2, <2>1, <2>2, <3>1
    <3>2. CASE j \notin 0 .. next - 1
      <4>1. Count(block[id], j) = 0
        BY <2>1, <3>2, CountAbsent
      <4>2. Count(E, <<name2[id], name2[j]>>) \in Nat
        BY CountIsNat
      <4>3. QED
        BY <4>1, <4>2
    <3>3. QED
      BY <3>1, <3>2
  <2>4. QED
    BY <2>2, <2>3 DEF ListsTell
<1>8. EdgesTell(g.adjacency, name2, E)
  BY <1>7 DEF EdgesTell
<1>9. Tells(g, name2, E)
  BY <1>5, <1>6, <1>8 DEF Tells
<1>10. QED
  BY <1>2, <1>9 DEF next

----------------------------------------------------------------------------
\* The invariant.
LEMMA StartTells == Init => NameInv
<1> SUFFICES ASSUME Init PROVE NameInv
  OBVIOUS
<1>1. PICK caps \in [Trees -> Nat \ {0}] : graph = NewGraph(caps)
  BY GraphAssumption, GraphStoreAssumption DEF Init
<1>2. EdgeInv /\ \A f \in Trees : graph[f] = OpenTree(NoEntries, caps[f])
  BY <1>1, StartsWithoutEdges DEF NewGraph
<1>3. ASSUME NEW f \in Trees, NEW K
      PROVE  Sound(graph[f], K) /\ Versions(graph[f]) = {} /\ KeysOf(graph[f]) = {}
  <2>0. graph[f] = [store |-> NoEntries, cache |-> NoEntries, lru |-> <<>>, cap |-> caps[f]]
    BY <1>2 DEF OpenTree
  <2>1. /\ Shape(graph[f]) /\ graph[f].store = NoEntries /\ graph[f].cache = NoEntries
        /\ graph[f].lru = <<>>
    BY <2>0 DEF Shape
  <2>2. DOMAIN NoEntries = {} /\ Listed(<<>>) = {} /\ Unrepeated(<<>>) /\ <<>> \in Seq(K)
    BY EmptySeq DEF NoEntries, Listed, Unrepeated
  <2>3. QED
    BY <2>1, <2>2 DEF Sound, Versions, KeysOf
<1>4. Readable(graph)
  BY <1>3, TreeNames DEF Readable, TreesAreSound
<1>5. inserted = <<>> /\ inserted \in Seq(Nodes \X Nodes)
  BY EmptySeq DEF Init
<1> DEFINE name == [id \in Nat |-> NoValue]
<1>6. name \in [Nat -> Names] /\ Fresh(name, NextId(graph))
  BY DEF Names, Fresh
<1>7. Tells(graph, name, inserted)
  <2>1. /\ Versions(graph.node2id) = {} /\ Versions(graph.id2node) = {}
        /\ Versions(graph.adjacency) = {} /\ Versions(graph.meta) = {}
    BY <1>3, TreeNames
  <2>2. QED
    BY <2>1 DEF Tells, NodesTell, BlocksTell, EdgesTell, CounterTells
<1>8. QED
  BY <1>2, <1>4, <1>5, <1>6, <1>7 DEF NameInv

\* A step leaves readable trees that some naming tells the truth by.
LEMMA NameInvStep == NameInv /\ [Next]_vars => NameInv'
<1> SUFFICES ASSUME NameInv, [Next]_vars PROVE NameInv'
  OBVIOUS
<1>1. EdgeInv' /\ (HasRoom' <=> HasRoom)
  BY EdgeInvStep, RoomLasts DEF NameInv, EdgeInv
<1>2. IsGraph(graph) /\ Readable(graph) /\ inserted \in Seq(Nodes \X Nodes)
  BY DEF NameInv, EdgeInv, IInv
<1>3. PICK name \in [Nat -> Names] :
        /\ Tells(graph, name, inserted)
        /\ ~restarted \/ HasRoom => Fresh(name, NextId(graph))
  BY DEF NameInv
<1>4. NextId(graph) \in Nat
  BY <1>3, NextIdIsNat DEF Tells
<1>5. ASSUME Readable(graph'), Tells(graph', name, inserted), NextId(graph') = NextId(graph),
             UNCHANGED history
      PROVE  NameInv'
  <2>1. inserted' = inserted /\ restarted' = restarted
    BY <1>5 DEF history
  <2>2. ~restarted' \/ HasRoom' => Fresh(name, NextId(graph'))
    BY <1>1, <1>3, <1>5, <2>1
  <2>3. QED
    BY <1>1, <1>2, <1>5, <2>1, <2>2 DEF NameInv
<1>6. ASSUME NEW from \in Nodes, NEW to \in Nodes, CallInsert(from, to) PROVE NameInv'
  <2>1. /\ graph' = InsertEdge(graph, from, to) /\ inserted' = Append(inserted, <<from, to>>)
        /\ ~restarted \/ HasRoom
    BY <1>6 DEF CallInsert
  <2>2. Fresh(name, NextId(graph))
    BY <1>3, <2>1
  <2>3. /\ Readable(graph')
        /\ \E name2 \in [Nat -> Names] :
             Tells(graph', name2, inserted') /\ Fresh(name2, NextId(graph'))
    BY <1>2, <1>3, <2>1, <2>2, InsertTells DEF GoesOn
  <2>4. inserted' \in Seq(Nodes \X Nodes)
    BY <1>2, <2>1, AppendProperties
  <2>5. QED
    BY <1>1, <2>3, <2>4 DEF NameInv
<1>7. ASSUME NEW node \in Nodes, CallNode2Id(node) PROVE NameInv'
  BY <1>2, <1>3, <1>5, <1>7, LookUpTells DEF CallNode2Id
<1>8. ASSUME NEW id \in GivenIds, CallId2Node(id) \/ CallOutgoingEdges(id) \/ CallIngoingEdges(id)
      PROVE  NameInv'
  <2>1. id \in Nat
    BY <1>4 DEF GivenIds
  <2>2. /\ UNCHANGED history
        /\ \/ graph' = [graph EXCEPT !.id2node = BlockedGet(graph.id2node, id)]
           \/ graph' = [graph EXCEPT !.adjacency = BlockedGet(graph.adjacency, id)]
           \/ graph' = [graph EXCEPT
                !.reversed_adjacency = BlockedGet(graph.reversed_adjacency, id)]
    BY <1>8 DEF CallId2Node, CallOutgoingEdges, CallIngoingEdges
  <2>3. Readable(graph') /\ Tells(graph', name, inserted) /\ NextId(graph') = NextId(graph)
    BY <1>2, <1>3, <2>1, <2>2, OneTreeTells
  <2>4. QED
    BY <1>5, <2>2, <2>3
<1>9. CASE CallFlush
  BY <1>2, <1>3, <1>5, <1>9, FlushTells DEF CallFlush
<1>10. CASE Restart
  <2>1. /\ graph' = ReopenGraph(graph) /\ restarted' = TRUE /\ inserted' = inserted
    BY <1>10 DEF Restart, Reopened
  <2>2. Readable(graph') /\ Tells(graph', name, inserted)
    BY <1>2, <1>3, <2>1, ReopenTells
  <2>3. CASE ~HasRoom
    BY <1>1, <1>2, <2>1, <2>2, <2>3 DEF NameInv
  <2>4. CASE HasRoom
    <3>1. Consistent(graph') /\ Linked(graph')
      BY <1>1, <2>4 DEF EdgeInv, IInv
    <3>2. \A f \in Trees : DOMAIN graph'[f].cache = {}
      <4>1. ASSUME NEW f \in Trees PROVE graph'[f].cache = NoEntries
        <5>1. graph'[f] = [store |-> graph[f].store, cache |-> NoEntries, lru |-> <<>>,
                           cap |-> graph[f].cap]
          BY <1>2, <2>1 DEF ReopenGraph, Reopen, IsGraph, OpenTree
        <5>2. QED
          BY <5>1
      <4>2. DOMAIN NoEntries = {}
        BY DEF NoEntries
      <4>3. QED
        BY <4>1, <4>2
    <3>3. PICK name2 \in [Nat -> Names] :
            Tells(graph', name2, inserted) /\ Fresh(name2, NextId(graph'))
      BY <1>2, <2>2, <3>1, <3>2, RestartForgets
    <3>4. QED
      BY <1>1, <1>2, <2>1, <2>2, <3>3 DEF NameInv
  <2>5. QED
    BY <2>3, <2>4
<1>11. CASE CrashInFlush
  <2>0. PICK n \in 0 .. 4 : \E m \in 0 .. Len(graph[FlushOrder[n + 1]].lru) :
          graph' = ReopenGraph(TornFlush(graph, n, m))
    BY <1>11 DEF CrashInFlush, Reopened
  <2>1. PICK m \in 0 .. Len(graph[FlushOrder[n + 1]].lru) :
          graph' = ReopenGraph(TornFlush(graph, n, m))
    BY <2>0
  <2>2. tears /\ restarted' = TRUE /\ inserted' = inserted
    BY <1>11 DEF CrashInFlush, Reopened
  <2>3. /\ IsGraph(TornFlush(graph, n, m)) /\ Readable(TornFlush(graph, n, m))
        /\ Tells(TornFlush(graph, n, m), name, inserted)
    BY <1>2, <1>3, TornFlushTells
  <2>4. Readable(graph') /\ Tells(graph', name, inserted)
    BY <2>1, <2>3, ReopenTells
  <2>5. ~HasRoom'
    BY <1>1, <2>2 DEF HasRoom
  <2>6. QED
    BY <1>1, <1>2, <2>2, <2>4, <2>5 DEF NameInv
<1>12. CASE UNCHANGED vars
  <2>1. graph' = graph /\ UNCHANGED history
    BY <1>12 DEF vars, history
  <2>2. QED
    BY <1>2, <1>3, <1>5, <2>1
<1>13. QED
  BY <1>6, <1>7, <1>8, <1>9, <1>10, <1>11, <1>12 DEF Next

LEMMA WhatIsToldWasInserted == NameInv => NothingIsInvented
<1> SUFFICES ASSUME NameInv, NEW i \in Ids(graph.id2node), NEW j \in Ids(graph.id2node)
             PROVE  EdgesBetween(graph.adjacency, i, j)
                      <= Count(inserted, <<BlockedPeek(graph.id2node, i), BlockedPeek(graph.id2node, j)>>)
  BY DEF NothingIsInvented
<1>1. inserted \in Seq(Nodes \X Nodes)
  BY DEF NameInv
<1>2. PICK name \in [Nat -> Names] : Tells(graph, name, inserted)
  BY DEF NameInv
<1>3. ASSUME NEW id \in Ids(graph.id2node)
      PROVE  id \in Nat /\ BlockedPeek(graph.id2node, id) = name[id]
  <2>1. PICK b \in KeysOf(graph.id2node) : id \in DOMAIN Peek(graph.id2node, b)
    BY <1>3 DEF Ids, Blocks, KeysOf
  <2>2. <<b, Peek(graph.id2node, b)>> \in Versions(graph.id2node)
    BY VersionsElim
  <2>3. BlockTells(name, b, Peek(graph.id2node, b))
    BY <1>2, <2>2 DEF Tells, BlocksTell
  <2>4. QED
    BY <2>1, <2>3 DEF BlockTells, BlockedPeek
<1> DEFINE t == graph.adjacency
           b == BlockOf(i)
<1>4. CASE BlockedKnown(t, i)
  <2>1. b \in KeysOf(t) /\ i \in DOMAIN Peek(t, b) /\ EdgesOf(t, i) = Peek(t, b)[i]
    BY <1>4 DEF BlockedKnown, Known, KeysOf, EdgesOf, BlockedPeek
  <2>2. <<b, Peek(t, b)>> \in Versions(t)
    BY <2>1, VersionsElim
  <2>3. ListsTell(name, inserted, Peek(t, b))
    BY <1>2, <2>2 DEF Tells, EdgesTell
  <2>4. j \in Nat
    BY <1>3
  <2>5. Count(EdgesOf(t, i), j) <= Count(inserted, <<name[i], name[j]>>)
    BY <2>1, <2>3, <2>4 DEF ListsTell
  <2>6. QED
    BY <1>3, <2>5 DEF EdgesBetween
<1>5. CASE ~BlockedKnown(t, i)
  <2>1. EdgesBetween(t, i, j) = 0
    BY <1>5, NoneListed DEF EdgesBetween, EdgesOf
  <2>2. Count(inserted, <<BlockedPeek(graph.id2node, i), BlockedPeek(graph.id2node, j)>>) \in Nat
    BY <1>1, CountIsNat
  <2>3. QED
    BY <2>1, <2>2
<1>6. QED
  BY <1>4, <1>5

\* Whatever the sizes of the caches, and after restarts and cut flushes too, an
\* edge that can be read leads between nodes it was inserted for, and is not
\* read more often than it was inserted (graph_store.rs: insert, edges).
THEOREM NothingReadIsInvented == Spec => []NothingIsInvented
<1>1. Init => NameInv
  BY StartTells
<1>2. NameInv /\ [Next]_vars => NameInv'
  BY NameInvStep
<1>3. NameInv => NothingIsInvented
  BY WhatIsToldWasInserted
<1>4. QED
  BY <1>1, <1>2, <1>3, PTL DEF Spec

----------------------------------------------------------------------------
\* Merges of graphs (webgraph/mod.rs).  Edges may be lost on the way, and a
\* node may come by several ids, so what is counted are the places of the lists
\* in all versions of the blocks: whatever becomes of the caches, an insert adds
\* one place at most and nothing else adds any.
Places(t) ==
  {p \in Nat \X Nat \X Nat :
     \E b, block : /\ <<b, block>> \in Versions(t) /\ p[1] \in DOMAIN block
                   /\ p[2] \in 1 .. Len(block[p[1]]) /\ block[p[1]][p[2]] = p[3]}

\* The places that read as the edge.
Reads(P, name, e) == {p \in P : name[p[1]] = e[1] /\ name[p[3]] = e[2]}

\* No more of the places read as an edge than it was put, by any part's names.
Allowed(P, name, part, links) ==
  \A e \in Nodes \X Nodes : Cardinality(Reads(P, name, e)) <= PutCount(links, part, e)

InOwnBlocks(t) ==
  \A b, block : <<b, block>> \in Versions(t) => \A id \in DOMAIN block : BlockOf(id) = b

\* All ids can be named: the block of the next id is in the cache unless the
\* graph was just opened, so no entry is pushed out that is not written.
NamesAllIds(g) ==
  /\ \A id \in 0 .. NextId(g) - 1 : BlockedKnown(g.id2node, id)
  /\ \A b \in KeysOf(g.id2node) : DOMAIN Peek(g.id2node, b) /= {}
  /\ \/ NextId(g) = 0 \/ DOMAIN g.id2node.cache = {}
     \/ BlockOf(NextId(g) - 1) \in DOMAIN g.id2node.cache

\* A graph told of by a naming that leaves the next ids free.
Named(g, name, E) ==
  /\ name \in [Nat -> Names] /\ E \in Seq(Nodes \X Nodes)
  /\ Tells(g, name, E) /\ Fresh(name, NextId(g))

IsWhole(g) ==
  /\ IsGraph(g) /\ Readable(g) /\ InOwnBlocks(g.adjacency) /\ IsFiniteSet(Places(g.adjacency))

----------------------------------------------------------------------------
\* An insert that makes room writes back what it pushes out.
LEMMA InsertKeepsContent ==
  ASSUME NEW K, NEW t, Usable(t, K), NEW k \in K, NEW v
  PROVE  Content(Insert(t, k, v)) = With(Content(t), k, v)
<1>1. CASE ~IsFull(t)
  BY <1>1, InsertInRoom DEF Usable
<1>2. CASE IsFull(t)
  <2> DEFINE p == PopLru(t)
             o == Oldest(t)
             w == WriteBackOldest(t)
             u == CachePut(w, k, v)
  <2>1. /\ Sound(p, K) /\ p.store = t.store /\ p.cache = Without(t.cache, o)
        /\ o \in DOMAIN t.cache /\ Len(p.lru) = Len(t.lru) - 1 /\ Len(t.lru) \in Nat \ {0}
    BY <1>2, FullHasOldest, PopLeaves DEF Usable
  <2>2. p.cap = t.cap /\ Len(t.lru) = t.cap
    BY <1>2, PopLruShape DEF Usable, Sound, Resized, IsFull
  <2>3. w = [p EXCEPT !.store = With(t.store, o, t.cache[o])]
    BY DEF WriteBackOldest
  <2> HIDE DEF p, o, w
  <2>4. /\ Shape(w) /\ w.store = With(t.store, o, t.cache[o]) /\ w.cache = p.cache
        /\ w.lru = p.lru /\ w.cap = t.cap
    BY <2>1, <2>2, <2>3 DEF Sound, Shape
  <2>5. /\ DOMAIN w.store = DOMAIN t.store \cup {o} /\ w.store[o] = t.cache[o]
        /\ \A x \in DOMAIN t.store \ {o} : w.store[x] = t.store[x]
        /\ DOMAIN w.cache = DOMAIN t.cache \ {o}
        /\ \A x \in DOMAIN w.cache : w.cache[x] = t.cache[x]
    BY <2>1, <2>4 DEF With, Without
  <2>6. Sound(w, K)
    <3>1. DOMAIN w.store \subseteq K
      BY <2>1, <2>5 DEF Usable, Sound
    <3>2. QED
      BY <2>1, <2>4, <3>1 DEF Sound
  <2>7. ~IsFull(w)
    BY <2>1, <2>2, <2>4 DEF IsFull
  <2>8. u.store = w.store /\ u.cache = With(w.cache, k, v)
    BY <2>6, <2>7, PutInRoom
  <2>9. Insert(t, k, v) = u
    BY <1>2 DEF Insert, u, w
  <2> HIDE DEF u
  <2>10. KeysOf(u) = KeysOf(t) \cup {k}
    BY <2>1, <2>5, <2>8 DEF KeysOf, With
  <2>11. \A x \in KeysOf(u) : Peek(u, x) = IF x = k THEN v ELSE Peek(t, x)
    BY <2>1, <2>5, <2>8 DEF KeysOf, Peek, Lookup, With
  <2>12. Content(u) = With(Content(t), k, v)
    BY <2>10, <2>11 DEF Content, With
  <2>13. QED
    BY <2>9, <2>12
<1>3. QED
  BY <1>1, <1>2

\* A tree with an empty cache has room.
LEMMA EmptyIsNotFull ==
  ASSUME NEW K, NEW t, Usable(t, K), DOMAIN t.cache = {}
  PROVE  ~IsFull(t)
<1>1. t.lru = <<>>
  BY EmptySeq DEF Usable, Sound, Listed
<1>2. Len(t.lru) = 0
  BY <1>1, EmptySeq
<1>3. QED
  BY <1>2 DEF IsFull, Usable

\* A value set in a block that is cached, or new, or the first to be loaded.
LEMMA SetKeepsContent ==
  ASSUME NEW t, Usable(t, Nat), NEW id \in Nat, NEW v,
         Known(t, BlockOf(id)) => BlockOf(id) \in DOMAIN t.cache \/ DOMAIN t.cache = {}
  PROVE  LET u == BlockedInsert(t, id, v)
         IN  /\ Content(u) = Renamed(Content(t), id, v) /\ Sound(u, Nat)
             /\ BlockOf(id) \in DOMAIN u.cache
<1> DEFINE b == BlockOf(id)
           u == BlockedInsert(t, id, v)
<1>0. /\ b \in Nat /\ DOMAIN Content(t) = KeysOf(t)
      /\ \A x \in KeysOf(t) : Content(t)[x] = Peek(t, x)
  BY BlockType DEF Content
<1>1. CASE Known(t, b)
  <2>1. b \in KeysOf(t)
    BY <1>1 DEF Known, KeysOf
  <2>2. b \in DOMAIN t.store \ DOMAIN t.cache => ~IsFull(t)
    BY <1>1, EmptyIsNotFull
  <2>3. Sound(u, Nat) /\ Content(u) = Renamed(Content(t), id, v)
    BY <1>1, <2>2, SetInRoom DEF Usable, KeysOf, Known, BlockedInsert
  <2>4. u = Mutate(t, b, With(Peek(t, b), id, v))
    BY <1>1 DEF BlockedInsert
  <2> HIDE DEF b, u
  <2>5. b \in DOMAIN u.cache
    BY <2>1, <2>4, MutateBrings DEF Brings
  <2>6. QED
    BY <2>3, <2>5 DEF u, b
<1>2. CASE ~Known(t, b)
  <2>1. b \notin KeysOf(t)
    BY <1>2 DEF Known, KeysOf
  <2>2. u = Insert(t, b, With(NoEntries, id, v))
    BY <1>2 DEF BlockedInsert
  <2>3. Renamed(Content(t), id, v) = With(Content(t), b, With(NoEntries, id, v))
    BY <1>0, <2>1 DEF Renamed
  <2> HIDE DEF b, u
  <2>4. Sound(u, Nat) /\ b \in DOMAIN u.cache
    BY <1>0, <2>2, InsertBrings DEF Brings
  <2>5. Content(u) = Renamed(Content(t), id, v)
    BY <1>0, <2>2, <2>3, InsertKeepsContent
  <2>6. QED
    BY <2>4, <2>5 DEF u, b
<1>3. QED
  BY <1>1, <1>2

----------------------------------------------------------------------------
\* Ids and their blocks.
LEMMA BlocksGrow ==
  ASSUME NEW m \in Nat, NEW n \in Nat, m <= n
  PROVE  BlockOf(m) <= BlockOf(n)
<1> DEFINE d == BlockSize
<1>1. d \in Nat \ {0}
  BY GraphAssumption
<1> HIDE DEF d
<1>2. m \div d <= n \div d
  BY <1>1
<1>3. QED
  BY <1>2 DEF BlockOf, d

\* Every id in an entry was given out, and its block is the key of the entry.
LEMMA KnownIdsWereGiven ==
  ASSUME NEW g, NEW name, NEW E, Named(g, name, E), NEW b, NEW block,
         <<b, block>> \in Versions(g.id2node), NEW id \in DOMAIN block
  PROVE  /\ NextId(g) \in Nat /\ id \in 0 .. NextId(g) - 1 /\ BlockOf(id) = b
         /\ block[id] \in Nodes /\ name[id] = block[id]
<1>1. /\ id \in Nat /\ BlockOf(id) = b /\ block[id] \in Nodes /\ name[id] = block[id]
  BY DEF Named, Tells, BlocksTell, BlockTells
<1>2. NextId(g) \in Nat
  BY NextIdIsNat DEF Named, Tells
<1>3. ~(id >= NextId(g))
  BY <1>1, GraphAssumption DEF Named, Fresh
<1>4. QED
  BY <1>1, <1>2, <1>3

\* Where the next id goes is new, or where the last one went.
LEMMA NextBlock ==
  ASSUME NEW g, NEW name, NEW E, Named(g, name, E), NamesAllIds(g),
         Known(g.id2node, BlockOf(NextId(g)))
  PROVE  /\ BlockOf(NextId(g)) \in DOMAIN g.id2node.cache \/ DOMAIN g.id2node.cache = {}
<1> DEFINE n == NextId(g)
           b == BlockOf(n)
           t == g.id2node
<1>1. b \in KeysOf(t) /\ <<b, Peek(t, b)>> \in Versions(t)
  BY VersionsElim DEF Known, KeysOf
<1>2. PICK id : id \in DOMAIN Peek(t, b)
  BY <1>1 DEF NamesAllIds
<1>3. n \in Nat /\ id \in 0 .. n - 1 /\ BlockOf(id) = b
  BY <1>1, <1>2, KnownIdsWereGiven
<1> HIDE DEF n
<1>4. n - 1 \in Nat /\ id \in Nat /\ id <= n - 1 /\ n - 1 <= n
  BY <1>3
<1>5. BlockOf(id) <= BlockOf(n - 1) /\ BlockOf(n - 1) <= BlockOf(n)
  BY <1>3, <1>4, BlocksGrow
<1>6. BlockOf(n - 1) \in Nat /\ BlockOf(n) \in Nat
  BY <1>3, <1>4, BlockType
<1>7. BlockOf(n - 1) = b
  BY <1>3, <1>5, <1>6
<1>8. n /= 0
  BY <1>3
<1>9. QED
  BY <1>7, <1>8 DEF NamesAllIds, n

LEMMA NextIdGrows ==
  ASSUME NEW g, IsGraph(g), Readable(g), NEW node, ~Known(g.node2id, node)
  PROVE  NextId(IdOrAssign(g, node)) = NextId(g) + 1
<1> DEFINE h == IdOrAssign(g, node)
           id == NextId(g)
           m == Get(g.meta, NextIdKey)
<1>1. h.meta = Insert(m, NextIdKey, id + 1)
  BY NewIdLeaves
<1> HIDE DEF h, id
<1>2. Usable(g.meta, {NextIdKey}) /\ NextIdKey \in {NextIdKey}
  BY UsableTrees
<1>3. m.cap = g.meta.cap /\ Sound(m, {NextIdKey})
  BY <1>2, GetShape, GetBrings DEF Usable, Sound, Resized
<1>4. Usable(m, {NextIdKey})
  BY <1>2, <1>3 DEF Usable
<1> HIDE DEF m
<1>5. Brings(m, h.meta, {NextIdKey}, NextIdKey, id + 1)
  BY <1>1, <1>2, <1>4, InsertBrings
<1>6. NextId(h) = id + 1
  BY <1>5 DEF Brings, NextId, Known, Peek
<1>7. QED
  BY <1>6 DEF h, id

\* A block with one more name.
LEMMA RenamedNames ==
  ASSUME NEW B, NEW id, NEW node, NEW b \in DOMAIN Renamed(B, id, node)
  PROVE  /\ b /= BlockOf(id) => b \in DOMAIN B /\ Renamed(B, id, node)[b] = B[b]
         /\ b = BlockOf(id) =>
              DOMAIN Renamed(B, id, node)[b] = (IF b \in DOMAIN B THEN DOMAIN B[b] ELSE {}) \cup {id}
  BY DEF Renamed, With, NoEntries

LEMMA IdOrAssignNamesAllIds ==
  ASSUME NEW g, IsGraph(g), Readable(g), NEW node \in Nodes,
         NEW name, NEW E, Named(g, name, E), NamesAllIds(g)
  PROVE  NamesAllIds(IdOrAssign(g, node))
<1> DEFINE h == IdOrAssign(g, node)
           id == NextId(g)
           t == g.id2node
           u == h.id2node
           B == Content(t)
           R == Renamed(B, id, node)
<1>1. CASE Known(g.node2id, node)
  <2>1. h.id2node = g.id2node /\ h.meta = g.meta
    BY <1>1, LookUpLeaves DEF IdOrAssign
  <2>2. QED
    BY <2>1 DEF NamesAllIds, NextId
<1>2. CASE ~Known(g.node2id, node)
  <2>1. u = BlockedInsert(t, id, node) /\ NextId(h) = id + 1 /\ id \in Nat
    BY <1>2, NewIdLeaves, NextIdGrows, NextIdIsNat DEF Named, Tells
  <2>2. Usable(t, Nat)
    BY UsableTrees
  <2>3. Known(t, BlockOf(id)) => BlockOf(id) \in DOMAIN t.cache \/ DOMAIN t.cache = {}
    BY NextBlock
  <2> HIDE DEF u
  <2>4. Content(u) = R /\ BlockOf(id) \in DOMAIN u.cache
    BY <2>1, <2>2, <2>3, SetKeepsContent
  <2>5. /\ KeysOf(u) = DOMAIN R /\ \A x \in KeysOf(u) : Peek(u, x) = R[x]
        /\ KeysOf(t) = DOMAIN B /\ \A x \in KeysOf(t) : Peek(t, x) = B[x]
    BY <2>4, ReadFrom
  <2>6. DOMAIN R = DOMAIN B \cup {BlockOf(id)}
    BY DEF Renamed, With
  <2>7. \A k \in 0 .. id - 1 : BlockOf(k) \in DOMAIN B /\ k \in DOMAIN B[BlockOf(k)]
    BY <2>5 DEF NamesAllIds, BlockedKnown, Known, KeysOf
  <2>8. \A b \in DOMAIN B : DOMAIN B[b] /= {}
    BY <2>5 DEF NamesAllIds
  <2> HIDE DEF B, R
  <2>9. ASSUME NEW b \in DOMAIN R
        PROVE  /\ b /= BlockOf(id) => b \in DOMAIN B /\ R[b] = B[b]
               /\ b = BlockOf(id) =>
                    DOMAIN R[b] = (IF b \in DOMAIN B THEN DOMAIN B[b] ELSE {}) \cup {id}
    BY <2>9, RenamedNames DEF R
  <2>10. ASSUME NEW k \in 0 .. id PROVE BlockedKnown(u, k)
    <3>1. BlockOf(k) \in DOMAIN R /\ k \in DOMAIN R[BlockOf(k)]
      <4>1. CASE k = id
        BY <2>6, <2>9, <4>1
      <4>2. CASE k /= id
        <5>1. k \in 0 .. id - 1
          BY <2>1, <4>2
        <5>2. BlockOf(k) \in DOMAIN B /\ k \in DOMAIN B[BlockOf(k)] /\ BlockOf(k) \in DOMAIN R
          BY <2>6, <2>7, <5>1
        <5>3. QED
          BY <2>9, <5>2
      <4>3. QED
        BY <4>1, <4>2
    <3>2. QED
      BY <2>5, <3>1 DEF BlockedKnown, Known, KeysOf
  <2>11. ASSUME NEW b \in KeysOf(u) PROVE DOMAIN Peek(u, b) /= {}
    <3>1. b \in DOMAIN R /\ Peek(u, b) = R[b]
      BY <2>5
    <3>2. QED
      BY <2>6, <2>8, <2>9, <3>1
  <2>12. BlockOf(NextId(h) - 1) \in DOMAIN u.cache
    BY <2>1, <2>4
  <2>13. \A k \in 0 .. NextId(h) - 1 : BlockedKnown(u, k)
    BY <2>1, <2>10
  <2>14. QED
    BY <2>11, <2>12, <2>13 DEF NamesAllIds, u
<1>3. QED
  BY <1>1, <1>2

----------------------------------------------------------------------------
\* Places in lists.
LEMMA FewerPlaces ==
  ASSUME NEW t, NEW u, Versions(u) \subseteq Versions(t)
  PROVE  /\ Places(u) \subseteq Places(t)
         /\ InOwnBlocks(t) => InOwnBlocks(u)
         /\ IsFiniteSet(Places(t)) => IsFiniteSet(Places(u))
<1>1. Places(u) \subseteq Places(t)
  BY DEF Places
<1>2. InOwnBlocks(t) => InOwnBlocks(u)
  BY DEF InOwnBlocks
<1>3. QED
  BY <1>1, <1>2, FS_Subset

LEMMA PlaceIntro ==
  ASSUME NEW t, NEW b, NEW block, <<b, block>> \in Versions(t), NEW i \in DOMAIN block,
         i \in Nat, block[i] \in Seq(Nat), NEW k \in 1 .. Len(block[i])
  PROVE  <<i, k, block[i][k]>> \in Places(t)
<1> DEFINE p == <<i, k, block[i][k]>>
<1>1. k \in Nat /\ block[i][k] \in Nat
  BY LenProperties, ElementOfSeq
<1>2. p \in Nat \X Nat \X Nat /\ p[1] = i /\ p[2] = k /\ p[3] = block[i][k]
  BY <1>1
<1> HIDE DEF p
<1>3. /\ <<b, block>> \in Versions(t) /\ p[1] \in DOMAIN block
      /\ p[2] \in 1 .. Len(block[p[1]]) /\ block[p[1]][p[2]] = p[3]
  BY <1>2
<1>4. p \in Places(t)
  BY <1>2, <1>3 DEF Places
<1>5. QED
  BY <1>4 DEF p

LEMMA ListIsCounted ==
  ASSUME NEW S, NEW s \in Seq(S), NEW k \in 1 .. Len(s)
  PROVE  Count(s, s[k]) /= 0
<1> DEFINE P == {m \in 1 .. Len(s) : s[m] = s[k]}
<1>1. IsFiniteSet(P) /\ k \in P
  BY CountIsNat
<1> HIDE DEF P
<1>2. Cardinality(P) /= 0
  BY <1>1, FS_EmptySet
<1>3. QED
  BY <1>2 DEF Count, P

\* Both ends of a place have names.
LEMMA PlacesAreNamed ==
  ASSUME NEW g, NEW name, NEW E, Named(g, name, E), NEW p \in Places(g.adjacency)
  PROVE  /\ p[1] \in Nat /\ p[3] \in Nat
         /\ name[p[1]] \in Nodes /\ name[p[3]] \in Nodes
<1>1. PICK b, block : /\ <<b, block>> \in Versions(g.adjacency) /\ p[1] \in DOMAIN block
                      /\ p[2] \in 1 .. Len(block[p[1]]) /\ block[p[1]][p[2]] = p[3]
  BY DEF Places
<1>2. p[1] \in Nat /\ p[3] \in Nat
  BY DEF Places
<1> DEFINE list == block[p[1]]
           e == <<name[p[1]], name[p[3]]>>
<1>3. ListsTell(name, E, block)
  BY <1>1 DEF Named, Tells, EdgesTell
<1>4. list \in Seq(Nat) /\ Count(list, p[3]) <= Count(E, e)
  BY <1>1, <1>2, <1>3 DEF ListsTell
<1>5. Count(list, p[3]) \in Nat /\ Count(E, e) \in Nat
  BY <1>4, CountIsNat DEF Named
<1>6. Count(list, p[3]) /= 0
  BY <1>1, <1>4, ListIsCounted
<1> HIDE DEF list, e
<1>7. Count(E, e) /= 0
  BY <1>4, <1>5, <1>6
<1>8. e \in Nodes \X Nodes
  BY <1>7, CountAbsent DEF Named
<1>9. QED
  BY <1>2, <1>8 DEF e

\* An edge more is a place more, at most.
LEMMA EdgeTakesAPlace ==
  ASSUME NEW t, Usable(t, Nat), NEW name, NEW E, EdgesTell(t, name, E),
         NEW i \in Nat, NEW j \in Nat
  PROVE  LET u == AdjacencyInsert(t, i, j)
         IN  /\ \E k : Places(u) \subseteq Places(t) \cup {<<i, k, j>>}
             /\ InOwnBlocks(t) => InOwnBlocks(u)
<1> DEFINE list == EdgesOf(t, i)
           k == Len(list) + 1
           more == Append(list, j)
           u == AdjacencyInsert(t, i, j)
<1>1. u = BlockedInsert(t, i, more)
  BY DEF AdjacencyInsert
<1>2. \A b, old : <<b, old>> \in Versions(t) => ListsTell(name, E, old)
  BY DEF EdgesTell
<1>3. /\ list \in Seq(Nat)
      /\ \A m \in 1 .. Len(list) : <<i, m, list[m]>> \in Places(t)
  <2>1. CASE BlockedKnown(t, i)
    <3> DEFINE old == Peek(t, BlockOf(i))
    <3>1. <<BlockOf(i), old>> \in Versions(t)
      BY <2>1, VersionsElim DEF BlockedKnown, Known, KeysOf
    <3>2. i \in DOMAIN old /\ list = old[i]
      BY <2>1 DEF BlockedKnown, EdgesOf, BlockedPeek
    <3> HIDE DEF old
    <3>3. old[i] \in Seq(Nat)
      BY <1>2, <3>1, <3>2 DEF ListsTell
    <3>4. QED
      BY <3>1, <3>2, <3>3, PlaceIntro
  <2>2. CASE ~BlockedKnown(t, i)
    <3>1. list = <<>> /\ <<>> \in Seq(Nat) /\ Len(<<>>) = 0
      BY <2>2, EmptySeq DEF EdgesOf
    <3>2. QED
      BY <3>1
  <2>3. QED
    BY <2>1, <2>2
<1> HIDE DEF list, u
<1>4. Len(list) \in Nat /\ Len(more) = k /\ more[k] = j /\ \A m \in 1 .. Len(list) : more[m] = list[m]
  BY <1>3, AppendProperties, LenProperties
<1>5. PICK block : Sets(t, u, i, more, block)
  BY <1>1, SetBrings
<1> HIDE DEF more
<1>6. ASSUME NEW p \in Places(u), p \notin Places(t) PROVE p = <<i, k, j>>
  <2>1. PICK b, now : /\ <<b, now>> \in Versions(u) /\ p[1] \in DOMAIN now
                      /\ p[2] \in 1 .. Len(now[p[1]]) /\ now[p[1]][p[2]] = p[3]
    BY <1>6 DEF Places
  <2>2. p \in Nat \X Nat \X Nat /\ p = <<p[1], p[2], p[3]>>
    BY DEF Places
  <2>3. <<b, now>> \notin Versions(t)
    BY <1>6, <2>1, <2>2 DEF Places
  <2>4. b = BlockOf(i) /\ now = block
    BY <1>5, <2>1, <2>3 DEF Sets
  <2>5. p[1] = i
    <3> SUFFICES ASSUME p[1] /= i PROVE FALSE
      OBVIOUS
    <3>1. PICK old : /\ <<BlockOf(i), old>> \in Versions(t) /\ p[1] \in DOMAIN old
                     /\ block[p[1]] = old[p[1]]
      BY <1>5, <2>1, <2>4 DEF Sets
    <3>2. QED
      BY <1>6, <2>1, <2>2, <2>4, <3>1 DEF Places
  <2>6. block[i] = more
    BY <1>5 DEF Sets
  <2>7. p[2] \in 1 .. k /\ p[3] = more[p[2]]
    BY <1>4, <2>1, <2>4, <2>5, <2>6
  <2>8. p[2] \notin 1 .. Len(list)
    BY <1>3, <1>4, <1>6, <2>2, <2>5, <2>7
  <2>9. p[2] = k
    BY <1>4, <2>7, <2>8
  <2>10. QED
    BY <1>4, <2>2, <2>5, <2>7, <2>9
<1>7. ASSUME InOwnBlocks(t) PROVE InOwnBlocks(u)
  <2> SUFFICES ASSUME NEW b, NEW now, <<b, now>> \in Versions(u), NEW id \in DOMAIN now
               PROVE  BlockOf(id) = b
    BY DEF InOwnBlocks
  <2>1. CASE <<b, now>> \in Versions(t)
    BY <1>7, <2>1 DEF InOwnBlocks
  <2>2. CASE b = BlockOf(i) /\ now = block
    <3>1. CASE id = i
      BY <2>2, <3>1
    <3>2. CASE id /= i
      <4>1. PICK old : <<BlockOf(i), old>> \in Versions(t) /\ id \in DOMAIN old
        BY <1>5, <2>2, <3>2 DEF Sets
      <4>2. QED
        BY <1>7, <2>2, <4>1 DEF InOwnBlocks
    <3>3. QED
      BY <3>1, <3>2
  <2>3. QED
    BY <1>5, <2>1, <2>2 DEF Sets
<1>8. Places(u) \subseteq Places(t) \cup {<<i, k, j>>}
  BY <1>6
<1>9. QED
  BY <1>7, <1>8 DEF u

----------------------------------------------------------------------------
\* GraphStore::insert on graphs of any capacity.
LEMMA InsertNamesAllIds ==
  ASSUME NEW g, IsGraph(g), Readable(g), NEW from \in Nodes, NEW to \in Nodes,
         NEW name, NEW E, Named(g, name, E), NamesAllIds(g)
  PROVE  NamesAllIds(InsertEdge(g, from, to))
<1> DEFINE g1 == IdOrAssign(g, from)
           g2 == IdOrAssign(g1, to)
           h == InsertEdge(g, from, to)
<1>1. IsGraph(g1) /\ Readable(g1) /\ NamesAllIds(g1)
  BY IdOrAssignAgrees, IdOrAssignTells, IdOrAssignNamesAllIds DEF Kept, Named
<1>2. PICK name1 \in [Nat -> Names] : Tells(g1, name1, E) /\ Fresh(name1, NextId(g1))
  BY IdOrAssignTells DEF Named
<1>3. Named(g1, name1, E)
  BY <1>2 DEF Named
<1> HIDE DEF g1
<1>4. NamesAllIds(g2)
  BY <1>1, <1>3, IdOrAssignNamesAllIds
<1>5. h = [g2 EXCEPT !.adjacency = AdjacencyInsert(g2.adjacency, IdOf(g1, from), IdOf(g2, to)),
                     !.reversed_adjacency =
                       AdjacencyInsert(g2.reversed_adjacency, IdOf(g2, to), IdOf(g1, from))]
  BY DEF InsertEdge, g1
<1>6. DOMAIN g2 = Trees
  BY <1>1, IdOrAssignAgrees DEF Kept, IsGraph
<1> HIDE DEF g2, h
<1>7. h.id2node = g2.id2node /\ h.meta = g2.meta
  BY <1>5, <1>6, TreeNames
<1>8. NamesAllIds(h)
  BY <1>4, <1>7 DEF NamesAllIds, NextId
<1>9. QED
  BY <1>8 DEF h

LEMMA FewerRead ==
  ASSUME NEW Q, IsFiniteSet(Q), NEW P \in SUBSET Q, NEW name, NEW e
  PROVE  /\ Reads(P, name, e) \subseteq Reads(Q, name, e) /\ IsFiniteSet(Reads(Q, name, e))
         /\ IsFiniteSet(Reads(P, name, e))
         /\ Cardinality(Reads(P, name, e)) \in Nat /\ Cardinality(Reads(Q, name, e)) \in Nat
         /\ Cardinality(Reads(P, name, e)) <= Cardinality(Reads(Q, name, e))
<1>1. Reads(P, name, e) \subseteq Reads(Q, name, e) /\ Reads(Q, name, e) \subseteq Q
  BY DEF Reads
<1>2. IsFiniteSet(Reads(Q, name, e))
  BY <1>1, FS_Subset
<1>3. /\ IsFiniteSet(Reads(P, name, e))
      /\ Cardinality(Reads(P, name, e)) <= Cardinality(Reads(Q, name, e))
  BY <1>1, <1>2, FS_Subset
<1>4. QED
  BY <1>1, <1>2, <1>3, FS_CardinalityType

\* How many places there are for each edge, before and after.
OneMore(P, name, Q, name2, edge) ==
  \A e \in Nodes \X Nodes :
    /\ Cardinality(Reads(P, name, e)) \in Nat /\ Cardinality(Reads(Q, name2, e)) \in Nat
    /\ Cardinality(Reads(Q, name2, e)) <=
         Cardinality(Reads(P, name, e)) + (IF e = edge THEN 1 ELSE 0)

LEMMA InsertTakesAPlace ==
  ASSUME NEW g, IsWhole(g), NEW from \in Nodes, NEW to \in Nodes,
         NEW name, NEW E, Named(g, name, E)
  PROVE  LET h == InsertEdge(g, from, to)
         IN  /\ IsWhole(h)
             /\ \E name2, E2 :
                  /\ Named(h, name2, E2)
                  /\ OneMore(Places(g.adjacency), name, Places(h.adjacency), name2, <<from, to>>)
<1> DEFINE h == InsertEdge(g, from, to)
           P == Places(g.adjacency)
           Q == Places(h.adjacency)
           E2 == Append(E, <<from, to>>)
<1>1. IsGraph(h) /\ Readable(h)
  BY InsertEdgeAgrees, InsertTells DEF IsWhole, Named, Kept
<1>2. PICK name2 \in [Nat -> Names] :
        /\ Tells(h, name2, E2) /\ Fresh(name2, NextId(h)) /\ KeepsNames(name, name2)
        /\ \E k, l \in Nat : /\ h.adjacency = AdjacencyInsert(g.adjacency, k, l)
                             /\ name2[k] = from /\ name2[l] = to
  <2>1. /\ IsGraph(g) /\ Readable(g) /\ name \in [Nat -> Names] /\ E \in Seq(Nodes \X Nodes)
        /\ Tells(g, name, E) /\ Fresh(name, NextId(g))
    BY DEF IsWhole, Named
  <2>2. GoesOn(g, h, from, to, name, E)
    BY <2>1, InsertTells
  <2> HIDE DEF h
  <2>3. QED
    BY <2>2 DEF GoesOn, E2
<1>3. PICK i \in Nat, j \in Nat : /\ h.adjacency = AdjacencyInsert(g.adjacency, i, j)
                                  /\ name2[i] = from /\ name2[j] = to
  BY <1>2
<1> HIDE DEF h
<1>4. Named(h, name2, E2)
  BY <1>2, AppendProperties DEF Named
<1>5. /\ \E k : Q \subseteq P \cup {<<i, k, j>>}
      /\ InOwnBlocks(h.adjacency)
  <2> DEFINE t == g.adjacency
  <2>1. Usable(t, Nat) /\ EdgesTell(t, name, E) /\ InOwnBlocks(t)
    BY UsableTrees DEF Named, Tells, IsWhole
  <2> HIDE DEF t
  <2>2. LET u == AdjacencyInsert(t, i, j)
        IN  (\E k : Places(u) \subseteq Places(t) \cup {<<i, k, j>>}) /\ InOwnBlocks(u)
    BY <2>1, EdgeTakesAPlace
  <2>3. QED
    BY <1>3, <2>2 DEF t
<1>6. PICK k : Q \subseteq P \cup {<<i, k, j>>}
  BY <1>5
<1>7. IsFiniteSet(P)
  BY DEF IsWhole
<1>8. \A p \in P : /\ name[p[1]] \in Nodes /\ name[p[3]] \in Nodes
                   /\ p[1] \in Nat /\ p[3] \in Nat
  BY PlacesAreNamed
<1>9. \A p \in P : name2[p[1]] = name[p[1]] /\ name2[p[3]] = name[p[3]]
  BY <1>2, <1>8 DEF KeepsNames
<1> HIDE DEF P, Q, E2
<1>10. IsFiniteSet(Q)
  BY <1>6, <1>7, FS_AddElement, FS_Subset
<1>11. IsWhole(h)
  BY <1>1, <1>5, <1>10 DEF IsWhole, Q
<1>12. ASSUME NEW e \in Nodes \X Nodes
       PROVE  /\ Cardinality(Reads(P, name, e)) \in Nat /\ Cardinality(Reads(Q, name2, e)) \in Nat
              /\ Cardinality(Reads(Q, name2, e)) <=
                   Cardinality(Reads(P, name, e)) + (IF e = <<from, to>> THEN 1 ELSE 0)
  <2> DEFINE R == Reads(P, name, e)
             S == Reads(Q, name2, e)
             p == <<i, k, j>>
  <2>1. IsFiniteSet(R) /\ Cardinality(R) \in Nat /\ IsFiniteSet(S) /\ Cardinality(S) \in Nat
    BY <1>7, <1>10, FewerRead
  <2>2. p[1] = i /\ p[3] = j
    OBVIOUS
  <2>3. S \subseteq R \cup {p}
    BY <1>6, <1>9 DEF Reads
  <2>4. p \in S => e = <<from, to>>
    <3>1. e = <<e[1], e[2]>>
      OBVIOUS
    <3>2. QED
      BY <1>3, <2>2, <3>1 DEF Reads
  <2> HIDE DEF R, S, p
  <2>5. CASE e = <<from, to>>
    <3>1. IsFiniteSet(R \cup {p}) /\ Cardinality(R \cup {p}) \in {Cardinality(R), Cardinality(R) + 1}
      BY <2>1, FS_AddElement
    <3>2. Cardinality(S) <= Cardinality(R \cup {p})
      BY <2>3, <3>1, FS_Subset
    <3>3. QED
      BY <2>1, <2>5, <3>1, <3>2 DEF R, S
  <2>6. CASE e /= <<from, to>>
    <3>1. S \subseteq R
      BY <2>3, <2>4, <2>6
    <3>2. Cardinality(S) <= Cardinality(R)
      BY <2>1, <3>1, FS_Subset
    <3>3. QED
      BY <2>1, <2>6, <3>2 DEF R, S
  <2>7. QED
    BY <2>5, <2>6
<1>13. OneMore(P, name, Q, name2, <<from, to>>)
  BY <1>12 DEF OneMore
<1>14. QED
  BY <1>4, <1>11, <1>13 DEF h, P, Q

----------------------------------------------------------------------------
\* Counting links.
LEMMA LinkType ==
  ASSUME NEW part, NEW link \in Pages \X Pages
  PROVE  LinkIn(part, link) \in Nodes \X Nodes
  BY WebgraphAssumption DEF LinkIn

LEMMA PutCountIsNat ==
  ASSUME NEW links \in Seq(Pages \X Pages), NEW part, NEW e
  PROVE  /\ IsFiniteSet({i \in DOMAIN links : LinkIn(part, links[i]) = e})
         /\ PutCount(links, part, e) \in Nat
<1> DEFINE P == {i \in DOMAIN links : LinkIn(part, links[i]) = e}
<1>1. IsFiniteSet(DOMAIN links)
  BY LenProperties, FS_Interval
<1>2. IsFiniteSet(P)
  BY <1>1, FS_Subset
<1>3. QED
  BY <1>2, FS_CardinalityType DEF PutCount

LEMMA PutCountAppend ==
  ASSUME NEW links, NEW link, links \in Seq(Pages \X Pages), link \in Pages \X Pages,
         NEW part, NEW e
  PROVE  PutCount(Append(links, link), part, e) =
           PutCount(links, part, e) + (IF e = LinkIn(part, link) THEN 1 ELSE 0)
<1> DEFINE n == Len(links)
           more == Append(links, link)
           P == {i \in DOMAIN links : LinkIn(part, links[i]) = e}
           Q == {i \in DOMAIN more : LinkIn(part, more[i]) = e}
<1>1. /\ n \in Nat /\ DOMAIN links = 1 .. n /\ DOMAIN more = 1 .. n + 1
      /\ more[n + 1] = link /\ \A i \in 1 .. n : more[i] = links[i]
  BY AppendProperties, LenProperties
<1> HIDE DEF n, more
<1>2. Q = IF e = LinkIn(part, link) THEN P \cup {n + 1} ELSE P
  BY <1>1
<1>3. n + 1 \notin P
  BY <1>1
<1>4. IsFiniteSet(P) /\ Cardinality(P) \in Nat
  BY PutCountIsNat DEF PutCount
<1> HIDE DEF P, Q
<1>5. Cardinality(P \cup {n + 1}) = Cardinality(P) + 1
  BY <1>3, <1>4, FS_AddElement
<1>6. Cardinality(Q) = Cardinality(P) + (IF e = LinkIn(part, link) THEN 1 ELSE 0)
  BY <1>2, <1>4, <1>5
<1>7. QED
  BY <1>6 DEF PutCount, P, Q, more

LEMMA ConcatOf ==
  ASSUME NEW S, NEW s \in Seq(S), NEW t \in Seq(S)
  PROVE  /\ s \o t \in Seq(S) /\ Len(s) \in Nat /\ Len(t) \in Nat
         /\ DOMAIN s = 1 .. Len(s) /\ DOMAIN t = 1 .. Len(t)
         /\ DOMAIN (s \o t) = 1 .. Len(s) + Len(t)
         /\ \A i \in 1 .. Len(s) : (s \o t)[i] = s[i]
         /\ \A i \in 1 .. Len(t) : (s \o t)[Len(s) + i] = t[i]
<1>1. /\ s \o t \in Seq(S) /\ Len(s \o t) = Len(s) + Len(t)
      /\ \A i \in 1 .. Len(s) + Len(t) :
           (s \o t)[i] = IF i <= Len(s) THEN s[i] ELSE t[i - Len(s)]
  BY ConcatProperties, Zenon
<1>2. Len(s) \in Nat /\ Len(t) \in Nat /\ DOMAIN s = 1 .. Len(s) /\ DOMAIN t = 1 .. Len(t)
  BY LenProperties
<1>3. DOMAIN (s \o t) = 1 .. Len(s) + Len(t)
  BY <1>1, LenProperties
<1> DEFINE r == s \o t
<1> HIDE DEF r
<1>4. \A i \in 1 .. Len(s) : r[i] = s[i]
  BY <1>1, <1>2 DEF r
<1>5. \A i \in 1 .. Len(t) : r[Len(s) + i] = t[i]
  <2> SUFFICES ASSUME NEW i \in 1 .. Len(t) PROVE r[Len(s) + i] = t[i]
    OBVIOUS
  <2>1. /\ Len(s) + i \in 1 .. Len(s) + Len(t) /\ ~(Len(s) + i <= Len(s))
        /\ (Len(s) + i) - Len(s) = i
    BY <1>2
  <2>2. QED
    BY <1>1, <2>1 DEF r
<1>6. QED
  BY <1>1, <1>2, <1>3, <1>4, <1>5 DEF r

LEMMA PutCountConcat ==
  ASSUME NEW s, NEW t, s \in Seq(Pages \X Pages), t \in Seq(Pages \X Pages), NEW part, NEW e
  PROVE  PutCount(s \o t, part, e) = PutCount(s, part, e) + PutCount(t, part, e)
<1> DEFINE all == Pages \X Pages
<1>0. s \in Seq(all) /\ t \in Seq(all)
  OBVIOUS
<1> DEFINE r == s \o t
           n == Len(s)
           P == {i \in DOMAIN s : LinkIn(part, s[i]) = e}
           Q == {i \in DOMAIN t : LinkIn(part, t[i]) = e}
           R == {i \in DOMAIN r : LinkIn(part, r[i]) = e}
           f == [i \in Q |-> n + i]
           Q2 == {n + i : i \in Q}
<1>1. /\ n \in Nat /\ Len(t) \in Nat /\ DOMAIN s = 1 .. n /\ DOMAIN t = 1 .. Len(t)
      /\ DOMAIN r = 1 .. n + Len(t)
      /\ \A i \in 1 .. n : r[i] = s[i]
      /\ \A i \in 1 .. Len(t) : r[n + i] = t[i]
  <2> HIDE DEF all, P, Q, R, f, Q2
  <2>1. QED
    BY <1>0, ConcatOf
<1> HIDE DEF r, n
<1>2. IsFiniteSet(P) /\ IsFiniteSet(Q)
  <2>1. IsFiniteSet(1 .. n) /\ IsFiniteSet(1 .. Len(t))
    BY <1>1, FS_Interval
  <2>2. P \subseteq 1 .. n /\ Q \subseteq 1 .. Len(t)
    BY <1>1
  <2> HIDE DEF P, Q
  <2>3. QED
    BY <2>1, <2>2, FS_Subset
<1>3. f \in Bijection(Q, Q2)
  <2>1. \A i \in Q : i \in Nat
    BY <1>1
  <2> HIDE DEF Q
  <2>2. f \in [Q -> Q2] /\ \A x, y \in Q : f[x] = f[y] => x = y
    BY <1>1, <2>1
  <2>3. \A y \in Q2 : \E x \in Q : f[x] = y
    OBVIOUS
  <2>4. QED
    BY <2>2, <2>3 DEF Bijection, Injection, Surjection, IsInjective
<1>4. IsFiniteSet(Q2) /\ Cardinality(Q2) = Cardinality(Q)
  <2> HIDE DEF Q, Q2, f
  <2>1. ExistsBijection(Q, Q2)
    BY <1>3 DEF ExistsBijection
  <2>2. QED
    BY <1>2, <2>1, FS_Bijection
<1>5. R = P \cup Q2
  <2>1. ASSUME NEW i \in R PROVE i \in P \cup Q2
    <3>1. i \in 1 .. n + Len(t)
      BY <1>1
    <3>2. CASE i <= n
      BY <1>1, <3>1, <3>2
    <3>3. CASE i > n
      <4>1. i - n \in 1 .. Len(t) /\ i = n + (i - n)
        BY <1>1, <3>1, <3>3
      <4>2. r[i] = t[i - n]
        BY <1>1, <4>1
      <4>3. i - n \in Q
        BY <1>1, <4>1, <4>2
      <4>4. QED
        BY <4>1, <4>3
    <3>4. QED
      BY <1>1, <3>1, <3>2, <3>3
  <2>2. ASSUME NEW i \in P PROVE i \in R
    BY <1>1
  <2>3. ASSUME NEW i \in Q PROVE n + i \in R
    <3>1. n + i \in DOMAIN r /\ r[n + i] = t[i]
      BY <1>1
    <3>2. QED
      BY <3>1
  <2>4. QED
    BY <2>1, <2>2, <2>3
<1>6. P \cap Q2 = {}
  BY <1>1
<1> HIDE DEF P, Q, Q2, R
<1>7. Cardinality(R) = Cardinality(P) + Cardinality(Q2) - Cardinality(P \cap Q2)
  BY <1>2, <1>4, <1>5, FS_Union
<1>8. Cardinality(P \cap Q2) = 0 /\ Cardinality(P) \in Nat /\ Cardinality(Q) \in Nat
  BY <1>2, <1>6, FS_EmptySet, FS_CardinalityType
<1>9. Cardinality(R) = Cardinality(P) + Cardinality(Q)
  BY <1>4, <1>7, <1>8
<1>10. QED
  BY <1>9 DEF PutCount, P, Q, R, r

----------------------------------------------------------------------------
\* A tree whose cache holds what its store holds.
Settled(t) == \A b, block : <<b, block>> \in Versions(t) => b \in DOMAIN t.store /\ block = t.store[b]

LEMMA GetKeepsStore ==
  ASSUME NEW K, NEW t, Usable(t, K), NEW k \in K
  PROVE  Get(t, k).store = t.store
<1> DEFINE w == UpdateCache(t, k)
<1>1. Sound(w, K) /\ w.store = t.store
  <2>1. CASE k \in DOMAIN t.store \ DOMAIN t.cache
    <3>1. w = CachePut(t, k, t.store[k])
      BY <2>1 DEF UpdateCache
    <3> HIDE DEF w
    <3>2. QED
      BY <3>1, PutBrings DEF Brings
  <2>2. CASE k \notin DOMAIN t.store \ DOMAIN t.cache
    BY <2>2 DEF UpdateCache, Usable
  <2>3. QED
    BY <2>1, <2>2
<1> HIDE DEF w
<1>2. CacheTouch(w, k).store = w.store
  BY <1>1, TouchLeaves
<1>3. QED
  BY <1>1, <1>2 DEF Get, w

LEMMA FlushSettles ==
  ASSUME NEW K, NEW t, Sound(t, K)
  PROVE  Settled(Flush(t)) /\ DOMAIN Flush(t).store = KeysOf(t)
<1> DEFINE u == Flush(t)
<1>1. u.cache = t.cache /\ u.store = [k \in DOMAIN t.store \cup DOMAIN t.cache |-> Peek(t, k)]
  BY DEF Flush, Sound, Shape
<1> HIDE DEF u
<1>2. \A k \in DOMAIN u.cache : k \in DOMAIN u.store /\ u.cache[k] = u.store[k]
  BY <1>1 DEF Peek
<1>3. Settled(u)
  BY <1>2 DEF Settled, Versions
<1>4. DOMAIN u.store = KeysOf(t)
  BY <1>1 DEF KeysOf
<1>5. QED
  BY <1>3, <1>4 DEF u

LEMMA GetSettles ==
  ASSUME NEW K, NEW t, Usable(t, K), NEW k \in K, Settled(t)
  PROVE  Settled(Get(t, k))
<1> DEFINE u == Get(t, k)
<1>1. Versions(u) \subseteq Versions(t) /\ u.store = t.store
  BY GetBrings, GetKeepsStore
<1> HIDE DEF u
<1>2. Settled(u)
  BY <1>1 DEF Settled
<1>3. QED
  BY <1>2 DEF u

\* What a settled tree knows is what it has stored.
LEMMA SettledKnows ==
  ASSUME NEW t, Settled(t), NEW b
  PROVE  /\ Known(t, b) <=> b \in DOMAIN t.store
         /\ Known(t, b) => Peek(t, b) = t.store[b]
<1>1. Known(t, b) => <<b, Peek(t, b)>> \in Versions(t)
  BY VersionsElim DEF Known, KeysOf
<1>2. QED
  BY <1>1 DEF Settled, Known

----------------------------------------------------------------------------
\* A call that brings nothing new: no version, and no id.
BringsNothing(g, h) ==
  /\ IsWhole(h) /\ NextId(h) = NextId(g) /\ Places(h.adjacency) \subseteq Places(g.adjacency)
  /\ \A name, E : Named(g, name, E) => Named(h, name, E)

\* A graph that shows no edge more often than it is in the links.
ShowsAtMost(g, part, links) ==
  \E name, E : Named(g, name, E) /\ Allowed(Places(g.adjacency), name, part, links)

LEMMA NothingNew ==
  ASSUME NEW g, IsWhole(g), NEW h, IsGraph(h), Readable(h), NextId(h) = NextId(g),
         Versions(h.adjacency) \subseteq Versions(g.adjacency),
         \A name, E : Tells(g, name, E) => Tells(h, name, E)
  PROVE  BringsNothing(g, h)
<1>1. /\ Places(h.adjacency) \subseteq Places(g.adjacency) /\ InOwnBlocks(h.adjacency)
      /\ IsFiniteSet(Places(h.adjacency))
  BY FewerPlaces DEF IsWhole
<1>2. IsWhole(h)
  BY <1>1 DEF IsWhole
<1>3. \A name, E : Named(g, name, E) => Named(h, name, E)
  BY DEF Named
<1>4. QED
  BY <1>1, <1>2, <1>3 DEF BringsNothing

LEMMA ShowsNoMore ==
  ASSUME NEW g, IsWhole(g), NEW h, BringsNothing(g, h), NEW part, NEW links \in Seq(Pages \X Pages),
         ShowsAtMost(g, part, links)
  PROVE  ShowsAtMost(h, part, links)
<1> DEFINE P == Places(g.adjacency)
           Q == Places(h.adjacency)
<1>1. PICK name, E : Named(g, name, E) /\ Allowed(P, name, part, links)
  BY DEF ShowsAtMost
<1>2. Named(h, name, E) /\ Q \in SUBSET P /\ IsFiniteSet(P)
  BY <1>1 DEF BringsNothing, IsWhole
<1> HIDE DEF P, Q
<1>3. ASSUME NEW e \in Nodes \X Nodes
      PROVE  Cardinality(Reads(Q, name, e)) <= PutCount(links, part, e)
  <2>1. /\ Cardinality(Reads(Q, name, e)) \in Nat /\ Cardinality(Reads(P, name, e)) \in Nat
        /\ Cardinality(Reads(Q, name, e)) <= Cardinality(Reads(P, name, e))
    BY <1>2, FewerRead
  <2>2. Cardinality(Reads(P, name, e)) <= PutCount(links, part, e)
    BY <1>1 DEF Allowed
  <2>3. PutCount(links, part, e) \in Nat
    BY PutCountIsNat
  <2>4. QED
    BY <2>1, <2>2, <2>3
<1>4. Allowed(Q, name, part, links)
  BY <1>3 DEF Allowed
<1>5. QED
  BY <1>2, <1>4 DEF ShowsAtMost, Q

\* Flushes, and the freeze and thaw of a flushed graph.
LEMMA FlushBringsNothing ==
  ASSUME NEW g, IsWhole(g)
  PROVE  LET h == FlushGraph(g)
         IN  /\ BringsNothing(g, h) /\ Settled(h.id2node)
             /\ DOMAIN h.adjacency.store = KeysOf(g.adjacency) /\ Settled(h.adjacency)
             /\ Content(h.id2node) = Content(g.id2node) /\ Stored(h.id2node) = Content(g.id2node)
             /\ h.id2node.cache = g.id2node.cache
             /\ Content(h.meta) = Content(g.meta) /\ Stored(h.meta) = Content(g.meta)
<1> DEFINE h == FlushGraph(g)
<1>1. IsGraph(g) /\ Readable(g)
  BY DEF IsWhole
<1>2. IsGraph(h)
  BY <1>1, FlushAgrees DEF Kept
<1>3. \A f \in Trees : h[f] = Flush(g[f])
  BY <1>1 DEF FlushGraph, IsGraph
<1> HIDE DEF h
<1>4. /\ h.adjacency = Flush(g.adjacency) /\ h.id2node = Flush(g.id2node)
      /\ h.node2id = Flush(g.node2id) /\ h.meta = Flush(g.meta)
  BY <1>3, TreeNames
<1>5. /\ Sound(g.adjacency, Nat) /\ Sound(g.id2node, Nat) /\ Sound(g.meta, {NextIdKey})
      /\ Sound(g.node2id, Nodes)
  BY <1>1 DEF Readable, TreesAreSound
<1>6. /\ Sound(h.adjacency, Nat) /\ Sound(h.id2node, Nat) /\ Sound(h.meta, {NextIdKey})
      /\ Sound(h.node2id, Nodes)
      /\ Versions(h.adjacency) \subseteq Versions(g.adjacency)
      /\ Versions(h.id2node) \subseteq Versions(g.id2node)
      /\ Versions(h.node2id) \subseteq Versions(g.node2id)
      /\ Versions(h.meta) \subseteq Versions(g.meta)
  BY <1>4, <1>5, FlushBrings
<1>7. Readable(h)
  BY <1>6 DEF Readable, TreesAreSound
<1>8. Content(h.meta) = Content(g.meta) /\ Stored(h.meta) = Content(g.meta)
  BY <1>4, <1>5, FlushAll
<1>9. NextId(h) = NextId(g)
  BY <1>8, ReadNextId
<1>10. \A name, E : Tells(g, name, E) => Tells(h, name, E)
  BY <1>6, FewerTell
<1>11. BringsNothing(g, h)
  BY <1>2, <1>6, <1>7, <1>9, <1>10, NothingNew
<1>12. /\ Settled(h.id2node) /\ Settled(h.adjacency)
       /\ DOMAIN h.adjacency.store = KeysOf(g.adjacency)
  BY <1>4, <1>5, FlushSettles
<1>13. Content(h.id2node) = Content(g.id2node) /\ Stored(h.id2node) = Content(g.id2node)
  BY <1>4, <1>5, FlushAll
<1>14. h.id2node.cache = g.id2node.cache
  BY <1>4, <1>5 DEF Flush, Sound, Shape
<1>15. QED
  BY <1>8, <1>11, <1>12, <1>13, <1>14 DEF h

LEMMA ReopenBringsNothing ==
  ASSUME NEW g, IsWhole(g), Stored(g.meta) = Content(g.meta),
         Stored(g.id2node) = Content(g.id2node)
  PROVE  LET h == ReopenGraph(g)
         IN  /\ BringsNothing(g, h) /\ Content(h.id2node) = Content(g.id2node)
             /\ DOMAIN h.id2node.cache = {}
<1> DEFINE h == ReopenGraph(g)
<1>1. IsGraph(g) /\ Readable(g)
  BY DEF IsWhole
<1>2. IsGraph(h)
  BY <1>1, ReopenAgrees DEF Kept
<1>3. \A f \in Trees : h[f] = Reopen(g[f])
  BY <1>1 DEF ReopenGraph, IsGraph
<1> HIDE DEF h
<1>4. /\ h.adjacency = Reopen(g.adjacency) /\ h.id2node = Reopen(g.id2node)
      /\ h.node2id = Reopen(g.node2id) /\ h.meta = Reopen(g.meta)
  BY <1>3, TreeNames
<1>5. /\ Sound(g.adjacency, Nat) /\ Sound(g.id2node, Nat) /\ Sound(g.meta, {NextIdKey})
      /\ Sound(g.node2id, Nodes)
  BY <1>1 DEF Readable, TreesAreSound
<1>6. /\ Sound(h.adjacency, Nat) /\ Sound(h.id2node, Nat) /\ Sound(h.meta, {NextIdKey})
      /\ Sound(h.node2id, Nodes) /\ DOMAIN h.id2node.cache = {}
      /\ Versions(h.adjacency) \subseteq Versions(g.adjacency)
      /\ Versions(h.id2node) \subseteq Versions(g.id2node)
      /\ Versions(h.node2id) \subseteq Versions(g.node2id)
      /\ Versions(h.meta) \subseteq Versions(g.meta)
  BY <1>4, <1>5, ReopenBrings
<1>7. Readable(h)
  BY <1>6 DEF Readable, TreesAreSound
<1>8. Content(h.meta) = Stored(g.meta) /\ Content(h.id2node) = Stored(g.id2node)
  BY <1>4, <1>5, ReopenAll
<1>9. NextId(h) = NextId(g)
  BY <1>8, ReadNextId
<1>10. \A name, E : Tells(g, name, E) => Tells(h, name, E)
  BY <1>6, FewerTell
<1>11. BringsNothing(g, h)
  BY <1>2, <1>6, <1>7, <1>9, <1>10, NothingNew
<1>12. QED
  BY <1>6, <1>8, <1>11 DEF h

LEMMA SameNamesAllIds ==
  ASSUME NEW g, NamesAllIds(g), NEW h, NextId(h) = NextId(g),
         Content(h.id2node) = Content(g.id2node),
         h.id2node.cache = g.id2node.cache \/ DOMAIN h.id2node.cache = {}
  PROVE  NamesAllIds(h)
<1> DEFINE t == g.id2node
           u == h.id2node
<1>1. KeysOf(u) = KeysOf(t) /\ \A b \in KeysOf(t) : Peek(u, b) = Peek(t, b)
  BY ReadFrom
<1>2. \A id \in 0 .. NextId(h) - 1 : BlockedKnown(u, id)
  BY <1>1 DEF NamesAllIds, BlockedKnown, Known, KeysOf
<1>3. \A b \in KeysOf(u) : DOMAIN Peek(u, b) /= {}
  BY <1>1 DEF NamesAllIds
<1>4. \/ NextId(h) = 0 \/ DOMAIN u.cache = {} \/ BlockOf(NextId(h) - 1) \in DOMAIN u.cache
  BY DEF NamesAllIds
<1>5. QED
  BY <1>2, <1>3, <1>4 DEF NamesAllIds

LEMMA ThawBringsNothing ==
  ASSUME NEW g, IsWhole(g)
  PROVE  LET h == ReopenGraph(FlushGraph(g))
         IN  BringsNothing(g, h) /\ (NamesAllIds(g) => NamesAllIds(h))
<1> DEFINE f == FlushGraph(g)
           h == ReopenGraph(f)
<1>1. /\ BringsNothing(g, f) /\ Content(f.id2node) = Content(g.id2node)
      /\ Stored(f.id2node) = Content(g.id2node)
      /\ Content(f.meta) = Content(g.meta) /\ Stored(f.meta) = Content(g.meta)
  BY FlushBringsNothing
<1> HIDE DEF f
<1>2. IsWhole(f) /\ Stored(f.meta) = Content(f.meta) /\ Stored(f.id2node) = Content(f.id2node)
  BY <1>1 DEF BringsNothing
<1>3. /\ BringsNothing(f, h) /\ Content(h.id2node) = Content(f.id2node)
      /\ DOMAIN h.id2node.cache = {}
  BY <1>2, ReopenBringsNothing
<1> HIDE DEF h
<1>4. BringsNothing(g, h) /\ NextId(h) = NextId(g)
  BY <1>1, <1>3 DEF BringsNothing
<1>5. NamesAllIds(g) => NamesAllIds(h)
  BY <1>1, <1>3, <1>4, SameNamesAllIds
<1>6. QED
  BY <1>4, <1>5 DEF h, f

\* Reads of one tree of a graph.
LEMMA ReadBringsNothing ==
  ASSUME NEW g, IsWhole(g), NEW id \in Nat, NEW b \in Nat, NEW h,
         \/ h = [g EXCEPT !.id2node = BlockedGet(g.id2node, id)]
         \/ h = [g EXCEPT !.id2node = BlockedGet(BlockedGet(g.id2node, id), b)]
         \/ h = [g EXCEPT !.adjacency = Get(g.adjacency, b)]
  PROVE  BringsNothing(g, h)
<1>1. /\ IsGraph(g) /\ Readable(g) /\ Usable(g.id2node, Nat) /\ Usable(g.adjacency, Nat)
      /\ DOMAIN g = Trees
  BY UsableTrees DEF IsWhole, IsGraph
<1> DEFINE Read(t, u) == Usable(u, Nat) /\ Versions(u) \subseteq Versions(t) /\ u.cap = t.cap
<1>2. ASSUME NEW t, Usable(t, Nat), NEW c \in Nat PROVE Read(t, Get(t, c))
  <2>1. Shape(t)
    BY <1>2 DEF Usable, Sound
  <2>2. Get(t, c).cap = t.cap
    BY <2>1, GetShape DEF Resized
  <2>3. Sound(Get(t, c), Nat) /\ Versions(Get(t, c)) \subseteq Versions(t)
    BY <1>2, GetBrings
  <2>4. QED
    BY <1>2, <2>2, <2>3 DEF Usable
<1>3. Read(g.id2node, BlockedGet(g.id2node, id))
  BY <1>1, <1>2, BlockType DEF BlockedGet
<1>4. Read(g.id2node, BlockedGet(BlockedGet(g.id2node, id), b))
  <2> DEFINE u == BlockedGet(g.id2node, id)
  <2>1. Usable(u, Nat)
    BY <1>3
  <2> HIDE DEF u
  <2>2. Read(u, BlockedGet(u, b))
    BY <1>2, <2>1, BlockType DEF BlockedGet
  <2>3. QED
    BY <1>3, <2>2 DEF u
<1>5. Read(g.adjacency, Get(g.adjacency, b))
  BY <1>1, <1>2
<1>6. /\ DOMAIN h = Trees /\ h.node2id = g.node2id /\ h.meta = g.meta
      /\ h.reversed_adjacency = g.reversed_adjacency
      /\ h.id2node \in {g.id2node, BlockedGet(g.id2node, id),
                         BlockedGet(BlockedGet(g.id2node, id), b)}
      /\ h.adjacency \in {g.adjacency, Get(g.adjacency, b)}
  BY <1>1, TreeNames
<1>7. Read(g.id2node, h.id2node) /\ Read(g.adjacency, h.adjacency)
  <2>1. Read(g.id2node, g.id2node) /\ Read(g.adjacency, g.adjacency)
    BY <1>1
  <2> HIDE DEF Read
  <2>2. QED
    BY <1>3, <1>4, <1>5, <1>6, <2>1
<1>8. Readable(h)
  BY <1>1, <1>6, <1>7 DEF Readable, TreesAreSound, Usable
<1>9. IsGraph(h)
  <2>1. \A f \in Trees : Shape(g[f]) /\ g[f].cap \in Nat \ {0}
    BY <1>1 DEF IsGraph
  <2>2. ASSUME NEW f \in Trees PROVE Shape(h[f]) /\ h[f].cap \in Nat \ {0}
    <3>1. CASE f = "id2node"
      BY <1>7, <3>1 DEF Usable, Sound
    <3>2. CASE f = "adjacency"
      BY <1>7, <3>2 DEF Usable, Sound
    <3>3. CASE f \notin {"id2node", "adjacency"}
      BY <1>6, <2>1, <3>3 DEF Trees
    <3>4. QED
      BY <3>1, <3>2, <3>3
  <2>3. QED
    BY <1>6, <2>2 DEF IsGraph
<1>10. NextId(h) = NextId(g)
  BY <1>6 DEF NextId
<1>11. \A name, E : Tells(g, name, E) => Tells(h, name, E)
  BY <1>6, <1>7, FewerTell
<1>12. QED
  BY <1>7, <1>8, <1>9, <1>10, <1>11, NothingNew

\* What is read of a graph are places.
LEMMA ReadEdgesArePlaces ==
  ASSUME NEW g, IsWhole(g), NEW name, NEW E, Named(g, name, E), NEW a \in Nodes, NEW b \in Nodes
  PROVE  /\ EdgeCount(g, a, b) <= Cardinality(Reads(Places(g.adjacency), name, <<a, b>>))
         /\ EdgeCount(g, a, b) \in Nat
<1> DEFINE P == Places(g.adjacency)
           R == Reads(P, name, <<a, b>>)
<1>1. IsFiniteSet(R) /\ Cardinality(R) \in Nat
  BY FewerRead DEF IsWhole
<1>2. CASE Known(g.node2id, a) /\ Known(g.node2id, b)
  <2> DEFINE t == g.adjacency
             i == IdOf(g, a)
             j == IdOf(g, b)
             list == EdgesOf(t, i)
             L == {m \in 1 .. Len(list) : list[m] = j}
             Q == {<<i, m, j>> : m \in L}
             f == [m \in L |-> <<i, m, j>>]
  <2>1. \A c \in {a, b} : <<c, IdOf(g, c)>> \in Versions(g.node2id)
    BY <1>2, VersionsElim DEF Known, KeysOf, IdOf
  <2>2. i \in Nat /\ j \in Nat /\ name[i] = a /\ name[j] = b
    BY <2>1 DEF Named, Tells, NodesTell
  <2>3. EdgeCount(g, a, b) = Cardinality(L)
    BY <1>2 DEF EdgeCount, EdgesBetween, Count
  <2> HIDE DEF i, j
  <2>4. list \in Seq(Nat) /\ \A m \in 1 .. Len(list) : <<i, m, list[m]>> \in P
    <3>1. CASE BlockedKnown(t, i)
      <4> DEFINE old == Peek(t, BlockOf(i))
      <4>1. <<BlockOf(i), old>> \in Versions(t)
        BY <3>1, VersionsElim DEF BlockedKnown, Known, KeysOf
      <4>2. i \in DOMAIN old /\ list = old[i]
        BY <3>1 DEF BlockedKnown, EdgesOf, BlockedPeek
      <4> HIDE DEF old
      <4>3. old[i] \in Seq(Nat)
        BY <4>1, <4>2 DEF Named, Tells, EdgesTell, ListsTell
      <4>4. QED
        BY <2>2, <4>1, <4>2, <4>3, PlaceIntro
    <3>2. CASE ~BlockedKnown(t, i)
      <4>1. list = <<>> /\ <<>> \in Seq(Nat) /\ Len(<<>>) = 0
        BY <3>2, EmptySeq DEF EdgesOf
      <4>2. QED
        BY <4>1
    <3>3. QED
      BY <3>1, <3>2
  <2> HIDE DEF list, P
  <2>5. Q \subseteq R
    BY <2>2, <2>4 DEF Reads
  <2>6. IsFiniteSet(L)
    <3>1. IsFiniteSet(1 .. Len(list))
      BY <2>4, LenProperties, FS_Interval
    <3>2. QED
      BY <3>1, FS_Subset
  <2>7. f \in Bijection(L, Q)
    <3> HIDE DEF L
    <3>1. f \in [L -> Q] /\ \A x, y \in L : f[x] = f[y] => x = y
      OBVIOUS
    <3>2. \A y \in Q : \E x \in L : f[x] = y
      OBVIOUS
    <3>3. QED
      BY <3>1, <3>2 DEF Bijection, Injection, Surjection, IsInjective
  <2> HIDE DEF L, Q, f, R
  <2>8. Cardinality(Q) = Cardinality(L)
    <3>1. ExistsBijection(L, Q)
      BY <2>7 DEF ExistsBijection
    <3>2. QED
      BY <2>6, <3>1, FS_Bijection
  <2>9. Cardinality(Q) <= Cardinality(R)
    BY <1>1, <2>5, FS_Subset
  <2>10. Cardinality(L) \in Nat
    BY <2>6, FS_CardinalityType
  <2>11. QED
    BY <2>3, <2>8, <2>9, <2>10 DEF R, P
<1>3. CASE ~(Known(g.node2id, a) /\ Known(g.node2id, b))
  <2>1. EdgeCount(g, a, b) = 0
    BY <1>3 DEF EdgeCount
  <2> HIDE DEF R
  <2>2. QED
    BY <1>1, <2>1 DEF R, P
<1>4. QED
  BY <1>2, <1>3

\* A new graph.
LEMMA NewGraphIsWhole ==
  ASSUME NEW caps \in CacheSizes, NEW part
  PROVE  LET g == NewGraph(caps)
         IN  IsWhole(g) /\ NamesAllIds(g) /\ ShowsAtMost(g, part, <<>>)
<1> DEFINE g == NewGraph(caps)
           name == [id \in Nat |-> NoValue]
<1>1. caps \in [Trees -> Nat \ {0}]
  BY GraphAssumption
<1>2. DOMAIN g = Trees /\ \A f \in Trees : g[f] = OpenTree(NoEntries, caps[f])
  BY <1>1 DEF NewGraph
<1> HIDE DEF g
<1>3. ASSUME NEW f \in Trees, NEW K
      PROVE  /\ Sound(g[f], K) /\ Versions(g[f]) = {} /\ KeysOf(g[f]) = {}
             /\ g[f].cap = caps[f] /\ DOMAIN g[f].cache = {}
  <2>0. g[f] = [store |-> NoEntries, cache |-> NoEntries, lru |-> <<>>, cap |-> caps[f]]
    BY <1>2 DEF OpenTree
  <2>1. /\ Shape(g[f]) /\ g[f].store = NoEntries /\ g[f].cache = NoEntries
        /\ g[f].lru = <<>> /\ g[f].cap = caps[f]
    BY <2>0 DEF Shape
  <2>2. DOMAIN NoEntries = {} /\ Listed(<<>>) = {} /\ Unrepeated(<<>>) /\ <<>> \in Seq(K)
    BY EmptySeq DEF NoEntries, Listed, Unrepeated
  <2>3. QED
    BY <2>1, <2>2 DEF Sound, Versions, KeysOf
<1>4. IsGraph(g)
  BY <1>1, <1>2, <1>3 DEF IsGraph, Sound
<1>5. Readable(g)
  BY <1>3, TreeNames DEF Readable, TreesAreSound
<1>6. /\ Versions(g.node2id) = {} /\ Versions(g.id2node) = {} /\ Versions(g.adjacency) = {}
      /\ Versions(g.meta) = {} /\ KeysOf(g.meta) = {} /\ KeysOf(g.id2node) = {}
  BY <1>3, TreeNames
<1>7. Places(g.adjacency) = {} /\ InOwnBlocks(g.adjacency)
  BY <1>6 DEF Places, InOwnBlocks
<1>8. IsWhole(g)
  BY <1>4, <1>5, <1>7, FS_EmptySet DEF IsWhole
<1>9. NextId(g) = 0
  BY <1>6 DEF NextId, Known, KeysOf
<1>10. NamesAllIds(g)
  BY <1>6, <1>9 DEF NamesAllIds
<1>11. Tells(g, name, <<>>)
  BY <1>6 DEF Tells, NodesTell, BlocksTell, EdgesTell, CounterTells
<1>12. Named(g, name, <<>>)
  <2>1. name \in [Nat -> Names] /\ Fresh(name, NextId(g)) /\ <<>> \in Seq(Nodes \X Nodes)
    BY EmptySeq DEF Names, Fresh
  <2>2. QED
    BY <1>11, <2>1 DEF Named
<1> HIDE DEF name
<1>13. Allowed({}, name, part, <<>>)
  <2>1. \A e : Reads({}, name, e) = {} /\ {i \in DOMAIN <<>> : LinkIn(part, <<>>[i]) = e} = {}
    BY EmptySeq, LenProperties DEF Reads
  <2>2. \A e : Cardinality(Reads({}, name, e)) = 0 /\ PutCount(<<>>, part, e) = 0
    BY <2>1, FS_EmptySet DEF PutCount
  <2>3. QED
    BY <2>2 DEF Allowed
<1>14. ShowsAtMost(g, part, <<>>)
  BY <1>7, <1>12, <1>13 DEF ShowsAtMost
<1>15. QED
  BY <1>8, <1>10, <1>14 DEF g

----------------------------------------------------------------------------
\* An append from one graph to another: what is still to be appended, and what
\* is there already, are together no more than the links.
Fits(P, name, Q, nameo, part, links) ==
  \A e \in Nodes \X Nodes :
    Cardinality(Reads(P, name, e)) + Cardinality(Reads(Q, nameo, e)) <= PutCount(links, part, e)

LEMMA FitsFewer ==
  ASSUME NEW P, IsFiniteSet(P), NEW Q, IsFiniteSet(Q), NEW Q2 \in SUBSET Q, NEW name, NEW nameo,
         NEW part, NEW links \in Seq(Pages \X Pages), Fits(P, name, Q, nameo, part, links)
  PROVE  Fits(P, name, Q2, nameo, part, links)
<1> SUFFICES ASSUME NEW e \in Nodes \X Nodes
             PROVE  Cardinality(Reads(P, name, e)) + Cardinality(Reads(Q2, nameo, e))
                      <= PutCount(links, part, e)
  BY DEF Fits
<1>1. Cardinality(Reads(P, name, e)) + Cardinality(Reads(Q, nameo, e)) <= PutCount(links, part, e)
  BY DEF Fits
<1>2. /\ Cardinality(Reads(Q2, nameo, e)) \in Nat /\ Cardinality(Reads(Q, nameo, e)) \in Nat
      /\ Cardinality(Reads(Q2, nameo, e)) <= Cardinality(Reads(Q, nameo, e))
  BY FewerRead
<1>3. Cardinality(Reads(P, name, e)) \in Nat
  BY FewerRead
<1>4. PutCount(links, part, e) \in Nat
  BY PutCountIsNat
<1>5. QED
  BY <1>1, <1>2, <1>3, <1>4

LEMMA FitsAppended ==
  ASSUME NEW P, NEW P2, NEW Q, IsFiniteSet(Q), NEW name, NEW name2, NEW nameo,
         NEW part, NEW links \in Seq(Pages \X Pages), Fits(P, name, Q, nameo, part, links),
         NEW edge \in Q, OneMore(P, name, P2, name2, <<nameo[edge[1]], nameo[edge[3]]>>)
  PROVE  Fits(P2, name2, Q \ {edge}, nameo, part, links)
<1> DEFINE ends == <<nameo[edge[1]], nameo[edge[3]]>>
<1> SUFFICES ASSUME NEW e \in Nodes \X Nodes
             PROVE  Cardinality(Reads(P2, name2, e)) + Cardinality(Reads(Q \ {edge}, nameo, e))
                      <= PutCount(links, part, e)
  BY DEF Fits
<1> DEFINE R == Reads(Q, nameo, e)
           S == Reads(Q \ {edge}, nameo, e)
           m == Cardinality(Reads(P, name, e))
           n == Cardinality(Reads(P2, name2, e))
<1>1. m + Cardinality(R) <= PutCount(links, part, e) /\ PutCount(links, part, e) \in Nat
  BY PutCountIsNat DEF Fits
<1>2. IsFiniteSet(R) /\ Cardinality(R) \in Nat /\ Cardinality(S) \in Nat /\ Cardinality(S) <= Cardinality(R)
  BY FewerRead
<1>3. m \in Nat /\ n \in Nat /\ n <= m + (IF e = ends THEN 1 ELSE 0)
  BY DEF OneMore
<1>4. e = ends => edge \in R /\ S = R \ {edge}
  <2>1. ends[1] = nameo[edge[1]] /\ ends[2] = nameo[edge[3]]
    OBVIOUS
  <2> HIDE DEF ends
  <2>2. QED
    BY <2>1 DEF Reads
<1> HIDE DEF R, S, m, n, ends
<1>5. CASE e = ends
  <2>1. Cardinality(S) = Cardinality(R) - 1
    BY <1>2, <1>4, <1>5, FS_RemoveElement
  <2>2. QED
    BY <1>1, <1>2, <1>3, <1>5, <2>1 DEF S, n
<1>6. CASE e /= ends
  BY <1>1, <1>2, <1>3, <1>6 DEF S, n
<1>7. QED
  BY <1>5, <1>6

\* The places an append has still to come to: the rest of the block it is in,
\* and those of the blocks it has not loaded.
Left(g, current, blocks) ==
  current \cup {p \in Places(g.adjacency) : BlockOf(p[1]) \in blocks}

Transfer(g, their, current, blocks, part, links) ==
  /\ Settled(their.id2node) /\ \A id \in 0 .. NextId(their) - 1 : BlockedKnown(their.id2node, id)
  /\ blocks \subseteq DOMAIN their.adjacency.store
  /\ IsFiniteSet(current) /\ \A p \in current : BlockOf(p[1]) \notin blocks
  /\ \E name, E, nameo, Eo :
       /\ Named(g, name, E) /\ Named(their, nameo, Eo)
       /\ \A p \in Left(their, current, blocks) :
            {p[1], p[3]} \subseteq Nat /\ {nameo[p[1]], nameo[p[3]]} \subseteq Nodes
       /\ Fits(Places(g.adjacency), name, Left(their, current, blocks), nameo, part, links)

LEMMA TransferStarts ==
  ASSUME NEW g, IsWhole(g), NEW other, IsWhole(other), NamesAllIds(other), NEW part,
         NEW links \in Seq(Pages \X Pages), NEW more \in Seq(Pages \X Pages),
         ShowsAtMost(g, part, links), ShowsAtMost(other, part, more)
  PROVE  LET their == FlushGraph(other)
         IN  /\ BringsNothing(other, their)
             /\ Transfer(g, their, {}, DOMAIN their.adjacency.store, part, links \o more)
<1>0. \A e : PutCount(links \o more, part, e) = PutCount(links, part, e) + PutCount(more, part, e)
  BY PutCountConcat
<1> DEFINE their == FlushGraph(other)
           blocks == DOMAIN their.adjacency.store
           P == Places(g.adjacency)
           Q == Places(their.adjacency)
           L == Left(their, {}, blocks)
           t == their.id2node
<1>1. /\ BringsNothing(other, their) /\ Settled(t) /\ Content(t) = Content(other.id2node)
  BY FlushBringsNothing
<1>2. \A id \in 0 .. NextId(their) - 1 : BlockedKnown(t, id)
  <2>1. NextId(their) = NextId(other)
    BY <1>1 DEF BringsNothing
  <2>2. KeysOf(t) = KeysOf(other.id2node) /\ \A b \in KeysOf(t) : Peek(t, b) = Peek(other.id2node, b)
    BY <1>1, ReadFrom
  <2> HIDE DEF t, their
  <2>3. QED
    BY <2>1, <2>2 DEF NamesAllIds, BlockedKnown, Known, KeysOf
<1>3. PICK name, E : Named(g, name, E) /\ Allowed(P, name, part, links)
  BY DEF ShowsAtMost
<1>4. ShowsAtMost(their, part, more)
  BY <1>1, ShowsNoMore
<1> HIDE DEF their
<1>5. PICK nameo, Eo : Named(their, nameo, Eo) /\ Allowed(Q, nameo, part, more)
  BY <1>4 DEF ShowsAtMost
<1>6. IsFiniteSet(P) /\ IsFiniteSet(Q) /\ L \in SUBSET Q
  BY <1>1 DEF IsWhole, BringsNothing, Left
<1>7. \A p \in L : {p[1], p[3]} \subseteq Nat /\ {nameo[p[1]], nameo[p[3]]} \subseteq Nodes
  BY <1>5, <1>6, PlacesAreNamed
<1> HIDE DEF P, Q, L
<1>8. ASSUME NEW e \in Nodes \X Nodes
      PROVE  Cardinality(Reads(P, name, e)) + Cardinality(Reads(Q, nameo, e))
               <= PutCount(links \o more, part, e)
  <2>1. /\ Cardinality(Reads(P, name, e)) <= PutCount(links, part, e)
        /\ Cardinality(Reads(Q, nameo, e)) <= PutCount(more, part, e)
    BY <1>3, <1>5 DEF Allowed
  <2>2. Cardinality(Reads(P, name, e)) \in Nat /\ Cardinality(Reads(Q, nameo, e)) \in Nat
    BY <1>6, FewerRead
  <2>3. PutCount(links \o more, part, e) = PutCount(links, part, e) + PutCount(more, part, e)
    BY <1>0
  <2>4. PutCount(links, part, e) \in Nat /\ PutCount(more, part, e) \in Nat
    BY PutCountIsNat
  <2>5. QED
    BY <2>1, <2>2, <2>3, <2>4
<1>9. Fits(P, name, Q, nameo, part, links \o more)
  BY <1>8 DEF Fits
<1>10. links \o more \in Seq(Pages \X Pages)
  BY ConcatOf
<1>11. Fits(P, name, L, nameo, part, links \o more)
  BY <1>6, <1>9, <1>10, FitsFewer
<1>12. Transfer(g, their, {}, blocks, part, links \o more)
  BY <1>1, <1>2, <1>3, <1>5, <1>7, <1>11, FS_EmptySet DEF Transfer, P, L
<1>13. QED
  BY <1>1, <1>12 DEF their

LEMMA LeftIsFinite ==
  ASSUME NEW g, IsWhole(g), NEW current, IsFiniteSet(current), NEW blocks
  PROVE  IsFiniteSet(Left(g, current, blocks))
<1> DEFINE P == {p \in Places(g.adjacency) : BlockOf(p[1]) \in blocks}
<1>1. IsFiniteSet(P)
  BY FS_Subset DEF IsWhole
<1> HIDE DEF P
<1>2. IsFiniteSet(current \cup P)
  BY <1>1, FS_Union
<1>3. QED
  BY <1>2 DEF Left, P

\* The edges of a block are places, as the entry of a node is in its own block.
LEMMA BlockIsOfPlaces ==
  ASSUME NEW g, IsWhole(g), NEW name, NEW E, Named(g, name, E),
         NEW b \in DOMAIN g.adjacency.store
  PROVE  \A p \in EdgesOfBlock(Peek(g.adjacency, b)) : p \in Places(g.adjacency) /\ BlockOf(p[1]) = b
<1> DEFINE t == g.adjacency
           block == Peek(t, b)
<1>1. <<b, block>> \in Versions(t)
  BY VersionsElim DEF KeysOf
<1>2. ListsTell(name, E, block)
  BY <1>1 DEF Named, Tells, EdgesTell
<1>3. \A id \in DOMAIN block : BlockOf(id) = b
  BY <1>1 DEF IsWhole, InOwnBlocks
<1> HIDE DEF block
<1>4. ASSUME NEW p \in EdgesOfBlock(block) PROVE p \in Places(t) /\ BlockOf(p[1]) = b
  <2>0. PICK from \in DOMAIN block : p \in {<<from, k, block[from][k]>> : k \in DOMAIN block[from]}
    BY <1>4 DEF EdgesOfBlock
  <2>1. PICK k \in DOMAIN block[from] : p = <<from, k, block[from][k]>>
    BY <2>0
  <2>2. from \in Nat /\ block[from] \in Seq(Nat)
    BY <1>2 DEF ListsTell
  <2>3. k \in 1 .. Len(block[from])
    BY <2>2, LenProperties
  <2>4. p \in Places(t)
    BY <1>1, <2>1, <2>2, <2>3, PlaceIntro
  <2>5. p[1] = from
    BY <2>1
  <2>6. QED
    BY <1>3, <2>4, <2>5
<1>5. QED
  BY <1>4 DEF block

LEMMA TransferLoads ==
  ASSUME NEW g, IsWhole(g), NEW their, IsWhole(their), NEW current, NEW blocks, NEW part,
         NEW links \in Seq(Pages \X Pages), Transfer(g, their, current, blocks, part, links),
         NEW b \in blocks
  PROVE  LET tree == their.adjacency
             now == [their EXCEPT !.adjacency = Get(tree, b)]
         IN  /\ BringsNothing(their, now)
             /\ Transfer(g, now, EdgesOfBlock(Peek(tree, b)), blocks \ {b}, part, links)
<1> DEFINE tree == their.adjacency
           now == [their EXCEPT !.adjacency = Get(tree, b)]
           edges == EdgesOfBlock(Peek(tree, b))
           P == Places(g.adjacency)
           L == Left(their, current, blocks)
           M == Left(now, edges, blocks \ {b})
<1>1. DOMAIN their = Trees /\ Usable(tree, Nat)
  BY UsableTrees DEF IsWhole, IsGraph
<1>2. b \in Nat
  BY <1>1 DEF Transfer, Usable, Sound
<1>3. BringsNothing(their, now)
  BY <1>2, ReadBringsNothing
<1>4. now.id2node = their.id2node /\ now.meta = their.meta /\ now.adjacency = Get(tree, b)
  BY <1>1, TreeNames
<1>5. now.adjacency.store = tree.store
  BY <1>1, <1>2, <1>4, GetKeepsStore
<1> HIDE DEF now
<1>6. PICK name, E, nameo, Eo :
        /\ Named(g, name, E) /\ Named(their, nameo, Eo)
        /\ \A p \in L : {p[1], p[3]} \subseteq Nat /\ {nameo[p[1]], nameo[p[3]]} \subseteq Nodes
        /\ Fits(P, name, L, nameo, part, links)
  BY DEF Transfer
<1>7. blocks \subseteq DOMAIN tree.store /\ IsFiniteSet(current)
  BY DEF Transfer
<1>8. \A p \in edges : p \in Places(tree) /\ BlockOf(p[1]) = b
  BY <1>6, <1>7, BlockIsOfPlaces
<1>9. Places(now.adjacency) \subseteq Places(tree) /\ IsFiniteSet(Places(tree))
  BY <1>3 DEF BringsNothing, IsWhole
<1> HIDE DEF edges
<1>10. M \in SUBSET L
  BY <1>8, <1>9 DEF Left
<1>11. IsFiniteSet(edges) /\ \A p \in edges : BlockOf(p[1]) \notin blocks \ {b}
  BY <1>8, <1>9, FS_Subset
<1>12. IsFiniteSet(P) /\ IsFiniteSet(L)
  BY <1>7, LeftIsFinite DEF IsWhole
<1>13. Named(now, nameo, Eo)
  BY <1>3, <1>6 DEF BringsNothing
<1> HIDE DEF P, L, M
<1>14. Fits(P, name, M, nameo, part, links)
  BY <1>6, <1>10, <1>12, FitsFewer
<1>15. Settled(now.id2node) /\ \A id \in 0 .. NextId(now) - 1 : BlockedKnown(now.id2node, id)
  BY <1>4 DEF Transfer, NextId
<1>16. blocks \ {b} \subseteq DOMAIN now.adjacency.store
  BY <1>5, <1>7
<1>17. \A p \in M : {p[1], p[3]} \subseteq Nat /\ {nameo[p[1]], nameo[p[3]]} \subseteq Nodes
  BY <1>6, <1>10
<1>18. Transfer(g, now, edges, blocks \ {b}, part, links)
  BY <1>6, <1>11, <1>13, <1>14, <1>15, <1>16, <1>17 DEF Transfer, P, M
<1>19. QED
  BY <1>3, <1>18 DEF now, edges

\* Both ends of an edge can be named: expect does not panic.
LEMMA TransferAppends ==
  ASSUME NEW g, IsWhole(g), NEW their, IsWhole(their), NEW current, NEW blocks, NEW part,
         NEW links \in Seq(Pages \X Pages), Transfer(g, their, current, blocks, part, links),
         NEW edge \in current
  PROVE  LET readFrom == BlockedGet(their.id2node, edge[1])
             readBoth == BlockedGet(readFrom, edge[3])
             now == [their EXCEPT !.id2node = readBoth]
             h == InsertEdge(g, BlockedPeek(their.id2node, edge[1]), BlockedPeek(readFrom, edge[3]))
         IN  /\ BlockedKnown(their.id2node, edge[1]) /\ BlockedKnown(readFrom, edge[3])
             /\ BringsNothing(their, now) /\ IsWhole(h)
             /\ NamesAllIds(g) => NamesAllIds(h)
             /\ Transfer(h, now, current \ {edge}, blocks, part, links)
<1> DEFINE t == their.id2node
           readFrom == BlockedGet(t, edge[1])
           readBoth == BlockedGet(readFrom, edge[3])
           now == [their EXCEPT !.id2node = readBoth]
           from == BlockedPeek(t, edge[1])
           to == BlockedPeek(readFrom, edge[3])
           h == InsertEdge(g, from, to)
           P == Places(g.adjacency)
           P2 == Places(h.adjacency)
           L == Left(their, current, blocks)
           M == Left(now, current \ {edge}, blocks)
<1>1. PICK name, E, nameo, Eo :
        /\ Named(g, name, E) /\ Named(their, nameo, Eo)
        /\ \A p \in L : {p[1], p[3]} \subseteq Nat /\ {nameo[p[1]], nameo[p[3]]} \subseteq Nodes
        /\ Fits(P, name, L, nameo, part, links)
  BY DEF Transfer
<1>2. edge \in L
  BY DEF Left
<1>3. /\ edge[1] \in Nat /\ edge[3] \in Nat
      /\ nameo[edge[1]] \in Nodes /\ nameo[edge[3]] \in Nodes
  BY <1>1, <1>2
<1>4. NextId(their) \in Nat
  BY <1>1, NextIdIsNat DEF Named, Tells
<1>5. edge[1] \in 0 .. NextId(their) - 1 /\ edge[3] \in 0 .. NextId(their) - 1
  <2>1. ~(edge[1] >= NextId(their)) /\ ~(edge[3] >= NextId(their))
    BY <1>1, <1>3, GraphAssumption DEF Named, Fresh
  <2>2. QED
    BY <1>3, <1>4, <2>1
<1>6. DOMAIN their = Trees /\ Usable(t, Nat) /\ Settled(t) /\ IsGraph(their) /\ Readable(their)
  BY UsableTrees DEF IsWhole, IsGraph, Transfer
<1>7. \A id \in 0 .. NextId(their) - 1 : BlockedKnown(t, id)
  BY DEF Transfer
<1>8. ASSUME NEW u, Usable(u, Nat), Settled(u), u.store = t.store, NEW id \in 0 .. NextId(their) - 1
      PROVE  BlockedKnown(u, id) /\ BlockedPeek(u, id) = nameo[id]
  <2>1. Known(t, BlockOf(id)) /\ id \in DOMAIN Peek(t, BlockOf(id))
    BY <1>7, <1>8 DEF BlockedKnown
  <2>2. BlockOf(id) \in DOMAIN t.store /\ id \in DOMAIN t.store[BlockOf(id)]
    BY <1>6, <2>1, SettledKnows
  <2>3. /\ Known(u, BlockOf(id)) /\ Peek(u, BlockOf(id)) = t.store[BlockOf(id)]
    BY <1>8, <2>2, SettledKnows
  <2>4. <<BlockOf(id), t.store[BlockOf(id)]>> \in Versions(t)
    BY <2>2, VersionsElim
  <2>5. BlockTells(nameo, BlockOf(id), t.store[BlockOf(id)])
    BY <1>1, <2>4 DEF Named, Tells, BlocksTell
  <2>6. nameo[id] = t.store[BlockOf(id)][id]
    BY <2>2, <2>5 DEF BlockTells
  <2>7. QED
    BY <2>2, <2>3, <2>6 DEF BlockedKnown, BlockedPeek
<1>9. ASSUME NEW u, Usable(u, Nat), Settled(u), u.store = t.store, NEW id \in Nat
      PROVE  /\ Usable(BlockedGet(u, id), Nat) /\ Settled(BlockedGet(u, id))
             /\ BlockedGet(u, id).store = t.store
  <2>1. BlockOf(id) \in Nat /\ Shape(u)
    BY <1>9, BlockType DEF Usable, Sound
  <2>2. /\ Sound(BlockedGet(u, id), Nat) /\ Settled(BlockedGet(u, id))
        /\ BlockedGet(u, id).store = t.store
    BY <1>9, <2>1, GetBrings, GetSettles, GetKeepsStore DEF BlockedGet
  <2>3. BlockedGet(u, id).cap = u.cap
    BY <2>1, GetShape DEF BlockedGet, Resized
  <2>4. QED
    BY <1>9, <2>2, <2>3 DEF Usable
<1> HIDE DEF t
<1>10. Usable(readFrom, Nat) /\ Settled(readFrom) /\ readFrom.store = t.store
  BY <1>3, <1>6, <1>9
<1>11. BlockedKnown(t, edge[1]) /\ from = nameo[edge[1]]
  BY <1>5, <1>6, <1>8
<1> HIDE DEF readFrom
<1>12. BlockedKnown(readFrom, edge[3]) /\ to = nameo[edge[3]]
  BY <1>5, <1>8, <1>10
<1>13. Usable(readBoth, Nat) /\ Settled(readBoth) /\ readBoth.store = t.store
  BY <1>3, <1>9, <1>10
<1>14. BringsNothing(their, now)
  BY <1>3, ReadBringsNothing DEF readFrom, t
<1> HIDE DEF from, to, readBoth
<1>15. now.id2node = readBoth /\ now.meta = their.meta /\ now.adjacency = their.adjacency
  BY <1>6, TreeNames
<1> HIDE DEF now, h
<1>16. PICK name2, E2 :
         /\ Named(h, name2, E2) /\ OneMore(P, name, P2, name2, <<from, to>>)
  BY <1>1, <1>3, <1>11, <1>12, InsertTakesAPlace DEF h
<1>17. IsWhole(h)
  BY <1>1, <1>3, <1>11, <1>12, InsertTakesAPlace DEF h
<1>18. NamesAllIds(g) => NamesAllIds(h)
  BY <1>1, <1>3, <1>11, <1>12, InsertNamesAllIds DEF h, IsWhole
<1>19. IsFiniteSet(current) /\ \A p \in current : BlockOf(p[1]) \notin blocks
  BY DEF Transfer
<1>20. M = L \ {edge}
  BY <1>15, <1>19 DEF Left
<1>21. IsFiniteSet(L)
  BY <1>19, LeftIsFinite
<1> HIDE DEF P, P2, L, M
<1>22. Fits(P2, name2, L \ {edge}, nameo, part, links)
  BY <1>1, <1>2, <1>11, <1>12, <1>16, <1>21, FitsAppended
<1>23. Named(now, nameo, Eo) /\ NextId(now) = NextId(their)
  BY <1>1, <1>14 DEF BringsNothing
<1>24. Settled(now.id2node) /\ \A id \in 0 .. NextId(now) - 1 : BlockedKnown(now.id2node, id)
  BY <1>8, <1>13, <1>15, <1>23
<1>25. blocks \subseteq DOMAIN now.adjacency.store
  BY <1>15 DEF Transfer
<1>26. IsFiniteSet(current \ {edge}) /\ \A p \in current \ {edge} : BlockOf(p[1]) \notin blocks
  BY <1>19, FS_Subset
<1>27. Transfer(h, now, current \ {edge}, blocks, part, links)
  BY <1>1, <1>16, <1>20, <1>22, <1>23, <1>24, <1>25, <1>26 DEF Transfer, P2, M
<1>28. QED
  BY <1>11, <1>12, <1>14, <1>17, <1>18, <1>27 DEF t, readFrom, readBoth, now, from, to, h

LEMMA TransferEnds ==
  ASSUME NEW g, IsWhole(g), NEW their, IsWhole(their), NEW current, NEW blocks, NEW part,
         NEW links \in Seq(Pages \X Pages), Transfer(g, their, current, blocks, part, links)
  PROVE  ShowsAtMost(g, part, links)
<1> DEFINE P == Places(g.adjacency)
           L == Left(their, current, blocks)
<1>1. PICK name, E, nameo : Named(g, name, E) /\ Fits(P, name, L, nameo, part, links)
  BY DEF Transfer
<1>2. IsFiniteSet(P) /\ IsFiniteSet(L)
  BY LeftIsFinite DEF IsWhole, Transfer
<1> HIDE DEF P, L
<1>3. ASSUME NEW e \in Nodes \X Nodes
      PROVE  Cardinality(Reads(P, name, e)) <= PutCount(links, part, e)
  <2>1. Cardinality(Reads(P, name, e)) + Cardinality(Reads(L, nameo, e)) <= PutCount(links, part, e)
    BY <1>1 DEF Fits
  <2>2. Cardinality(Reads(P, name, e)) \in Nat /\ Cardinality(Reads(L, nameo, e)) \in Nat
    BY <1>2, FewerRead
  <2>3. PutCount(links, part, e) \in Nat
    BY PutCountIsNat
  <2>4. QED
    BY <2>1, <2>2, <2>3
<1>4. Allowed(P, name, part, links)
  BY <1>3 DEF Allowed
<1>5. QED
  BY <1>1, <1>4 DEF ShowsAtMost, P

----------------------------------------------------------------------------
\* Segments, and the merge of two of them.
PartMerge(into, other, part) ==
  [phase |-> "part", into |-> into, other |-> other, part |-> part]

AppendMerge(into, other, part, blocks, loaded, current, begun) ==
  [phase |-> "append", into |-> into, other |-> other, part |-> part,
   blocks |-> blocks, loaded |-> loaded, current |-> current, begun |-> begun]

Appending(m) == m.phase = "append"
Merging(m) == m.phase = "part" \/ Appending(m)

\* The graphs of the pair that were merged already, and the one that is.
IsMerged(m, part) == m.part = "none" \/ (m.part = "host" /\ part = "full")
IsMergedNow(m, part) == Appending(m) /\ part = m.part

\* The links a graph may show between appends.
LinksOf(m, p, s, part) ==
  IF Merging(m) /\ s = m.into /\ IsMerged(m, part) THEN p[s] \o p[m.other] ELSE p[s]

\* A graph that is filled from another ...
IsFilled(m, s, part) == Merging(m) /\ s = m.into /\ IsMergedNow(m, part)

\* ... and one that was read from, in trees whose caches are no longer those of
\* a graph that grows.
IsDrained(m, s, part) == Merging(m) /\ s = m.other /\ (IsMerged(m, part) \/ IsMergedNow(m, part))

SegmentsHaveGraphs(w, p) ==
  /\ \E build \in SUBSET Parts : \A s \in DOMAIN w : DOMAIN w[s] = build
  /\ DOMAIN p = DOMAIN w /\ \A s \in DOMAIN w : p[s] \in Seq(Pages \X Pages)

MergeHasTwo(w, m) ==
  \/ m = Idle
  \/ \E into, other \in DOMAIN w, part \in Parts \cup {"none"} :
       into /= other /\ m = PartMerge(into, other, part)
  \/ \E into, other \in DOMAIN w, part \in Parts :
       \E blocks, loaded, current, begun :
         /\ into /= other /\ part \in DOMAIN w[into]
         /\ m = AppendMerge(into, other, part, blocks, loaded, current, begun)

GraphIsRight(w, m, p, s, part) ==
  /\ IsWhole(w[s][part])
  /\ IsFilled(m, s, part) \/ ShowsAtMost(w[s][part], part, LinksOf(m, p, s, part))
  /\ IsDrained(m, s, part) \/ NamesAllIds(w[s][part])

TransferIsRight(w, m, p) ==
  Appending(m) =>
    Transfer(w[m.into][m.part], w[m.other][m.part], m.current, m.blocks, m.part,
             p[m.into] \o p[m.other])

MergesAreRight(w, m, p) ==
  /\ SegmentsHaveGraphs(w, p) /\ MergeHasTwo(w, m) /\ TransferIsRight(w, m, p)
  /\ \A s \in DOMAIN w : \A part \in DOMAIN w[s] : GraphIsRight(w, m, p, s, part)

MergeInv == MergesAreRight(seg, merge, put)

\* The phases of a merge.
LEMMA IdlePhase == ~Merging(Idle) /\ ~Appending(Idle)
  BY DEF Merging, Appending, Idle

LEMMA PartPhase ==
  ASSUME NEW into, NEW other, NEW part, NEW m, m = PartMerge(into, other, part)
  PROVE  /\ m /= Idle /\ m.phase = "part" /\ ~Appending(m) /\ Merging(m)
         /\ m.into = into /\ m.other = other /\ m.part = part
  BY DEF PartMerge, Idle, Merging, Appending

LEMMA PhasePart ==
  ASSUME NEW w, NEW m, MergeHasTwo(w, m), m.phase = "part"
  PROVE  \E into, other \in DOMAIN w, part \in Parts \cup {"none"} :
           into /= other /\ m = PartMerge(into, other, part)
  BY DEF MergeHasTwo, Idle, AppendMerge

LEMMA PhaseAppend ==
  ASSUME NEW w, NEW m, MergeHasTwo(w, m), m.phase = "append"
  PROVE  \E into, other \in DOMAIN w, part \in Parts :
           \E blocks, loaded, current, begun :
             /\ into /= other /\ part \in DOMAIN w[into]
             /\ m = AppendMerge(into, other, part, blocks, loaded, current, begun)
  BY DEF MergeHasTwo, Idle, PartMerge

\* Segments that nobody merges.
StandsAlone(w, p, s, part) ==
  IsWhole(w[s][part]) /\ NamesAllIds(w[s][part]) /\ ShowsAtMost(w[s][part], part, p[s])

LEMMA IdleGraphs ==
  ASSUME NEW w, NEW p, NEW s, NEW part
  PROVE  GraphIsRight(w, Idle, p, s, part) <=> StandsAlone(w, p, s, part)
  BY IdlePhase DEF GraphIsRight, StandsAlone, LinksOf, IsFilled, IsDrained

LEMMA IdleIsRight ==
  ASSUME NEW w, NEW p, SegmentsHaveGraphs(w, p),
         \A s \in DOMAIN w : \A part \in DOMAIN w[s] : StandsAlone(w, p, s, part)
  PROVE  MergesAreRight(w, Idle, p)
<1>1. TransferIsRight(w, Idle, p) /\ MergeHasTwo(w, Idle)
  BY IdlePhase DEF TransferIsRight, MergeHasTwo
<1>2. \A s \in DOMAIN w : \A part \in DOMAIN w[s] : GraphIsRight(w, Idle, p, s, part)
  BY IdleGraphs
<1>3. QED
  BY <1>1, <1>2 DEF MergesAreRight

LEMMA InsertedInPart ==
  ASSUME NEW part, NEW g, IsWhole(g), NamesAllIds(g), NEW links \in Seq(Pages \X Pages),
         ShowsAtMost(g, part, links), NEW from \in Pages, NEW to \in Pages
  PROVE  LET h == InsertInPart(part, g, from, to)
         IN  /\ IsWhole(h) /\ NamesAllIds(h)
             /\ ShowsAtMost(h, part, Append(links, <<from, to>>))
<1> DEFINE link == <<from, to>>
           a == LinkIn(part, link)[1]
           b == LinkIn(part, link)[2]
           h == InsertEdge(g, a, b)
           P == Places(g.adjacency)
           Q == Places(h.adjacency)
           more == Append(links, link)
<1>1. link \in Pages \X Pages /\ link[1] = from /\ link[2] = to
  OBVIOUS
<1>2. InsertInPart(part, g, from, to) = h
  BY <1>1 DEF InsertInPart, LinkIn
<1>3. LinkIn(part, link) \in Nodes \X Nodes
  BY <1>1, LinkType
<1>4. a \in Nodes /\ b \in Nodes /\ LinkIn(part, link) = <<a, b>>
  BY <1>3
<1> HIDE DEF link, a, b
<1>5. PICK name, E : Named(g, name, E) /\ Allowed(P, name, part, links)
  BY DEF ShowsAtMost
<1>6. IsWhole(h) /\ \E name2, E2 : Named(h, name2, E2) /\ OneMore(P, name, Q, name2, <<a, b>>)
  BY <1>4, <1>5, InsertTakesAPlace
<1>7. PICK name2, E2 : Named(h, name2, E2) /\ OneMore(P, name, Q, name2, <<a, b>>)
  BY <1>6
<1>8. NamesAllIds(h)
  BY <1>4, <1>5, InsertNamesAllIds DEF IsWhole
<1> HIDE DEF h, P, Q
<1>9. ASSUME NEW e \in Nodes \X Nodes
      PROVE  Cardinality(Reads(Q, name2, e)) <= PutCount(more, part, e)
  <2>1. PutCount(more, part, e) =
          PutCount(links, part, e) + (IF e = LinkIn(part, link) THEN 1 ELSE 0)
    BY <1>1, PutCountAppend
  <2>2. Cardinality(Reads(P, name, e)) <= PutCount(links, part, e)
    BY <1>5 DEF Allowed
  <2>3. /\ Cardinality(Reads(P, name, e)) \in Nat /\ Cardinality(Reads(Q, name2, e)) \in Nat
        /\ Cardinality(Reads(Q, name2, e)) <=
             Cardinality(Reads(P, name, e)) + (IF e = <<a, b>> THEN 1 ELSE 0)
    BY <1>7 DEF OneMore
  <2>4. PutCount(links, part, e) \in Nat
    BY PutCountIsNat
  <2> HIDE DEF more
  <2>5. QED
    BY <1>4, <2>1, <2>2, <2>3, <2>4
<1>10. Allowed(Q, name2, part, more)
  BY <1>9 DEF Allowed
<1>11. ShowsAtMost(h, part, more)
  BY <1>7, <1>10 DEF ShowsAtMost, Q
<1>12. QED
  BY <1>2, <1>6, <1>8, <1>11 DEF h, link

LEMMA WebgraphStarts == InitWebgraph => MergeInv
<1> SUFFICES ASSUME InitWebgraph PROVE MergeInv
  OBVIOUS
<1>1. PICK build \in Builds, caps \in CacheSizes :
        seg = [s \in Segments |-> [part \in build |-> NewGraph(caps)]]
  BY DEF InitWebgraph
<1>2. merge = Idle /\ put = [s \in Segments |-> <<>>]
  BY DEF InitWebgraph
<1>3. DOMAIN seg = Segments /\ \A s \in Segments : DOMAIN seg[s] = build
  BY <1>1
<1>4. build \in SUBSET Parts
  BY WebgraphAssumption
<1>5. SegmentsHaveGraphs(seg, put)
  <2>1. <<>> \in Seq(Pages \X Pages)
    BY EmptySeq
  <2>2. QED
    BY <1>2, <1>3, <1>4, <2>1 DEF SegmentsHaveGraphs
<1>6. ASSUME NEW s \in DOMAIN seg, NEW part \in DOMAIN seg[s] PROVE StandsAlone(seg, put, s, part)
  <2>1. seg[s][part] = NewGraph(caps) /\ put[s] = <<>>
    BY <1>1, <1>2, <1>3
  <2>2. QED
    BY <2>1, NewGraphIsWhole DEF StandsAlone
<1>7. QED
  BY <1>2, <1>5, <1>6, IdleIsRight DEF MergeInv

LEMMA InsertLinkStep ==
  ASSUME MergeInv, NEW s \in Alive, NEW from \in Pages, NEW to \in Pages, InsertLink(s, from, to)
  PROVE  MergeInv'
<1>1. merge = Idle /\ merge' = Idle
  BY DEF InsertLink
<1>2. PICK build \in SUBSET Parts : \A r \in DOMAIN seg : DOMAIN seg[r] = build
  BY DEF MergeInv, MergesAreRight, SegmentsHaveGraphs
<1>3. DOMAIN put = DOMAIN seg /\ \A r \in DOMAIN seg : put[r] \in Seq(Pages \X Pages)
  BY DEF MergeInv, MergesAreRight, SegmentsHaveGraphs
<1>4. /\ DOMAIN seg' = DOMAIN seg /\ s \in DOMAIN seg
      /\ seg'[s] = [part \in build |-> InsertInPart(part, seg[s][part], from, to)]
      /\ \A r \in DOMAIN seg \ {s} : seg'[r] = seg[r]
  BY <1>2 DEF InsertLink, Alive
<1>5. /\ DOMAIN put' = DOMAIN put /\ put'[s] = Append(put[s], <<from, to>>)
      /\ \A r \in DOMAIN seg \ {s} : put'[r] = put[r]
  BY <1>3, <1>4 DEF InsertLink
<1>6. \A r \in DOMAIN seg : put'[r] \in Seq(Pages \X Pages)
  <2>1. put[s] \in Seq(Pages \X Pages) /\ <<from, to>> \in Pages \X Pages
    BY <1>3, <1>4
  <2>2. Append(put[s], <<from, to>>) \in Seq(Pages \X Pages)
    BY <2>1, AppendProperties
  <2>3. QED
    BY <1>3, <1>5, <2>2
<1>7. \A r \in DOMAIN seg : DOMAIN seg'[r] = build
  BY <1>2, <1>4
<1>8. SegmentsHaveGraphs(seg', put')
  BY <1>3, <1>4, <1>5, <1>6, <1>7 DEF SegmentsHaveGraphs
<1>9. ASSUME NEW r \in DOMAIN seg', NEW part \in DOMAIN seg'[r]
      PROVE  StandsAlone(seg', put', r, part)
  <2>1. r \in DOMAIN seg /\ part \in build /\ part \in DOMAIN seg[r]
    BY <1>2, <1>4, <1>7
  <2>2. StandsAlone(seg, put, r, part)
    BY <1>1, <2>1, IdleGraphs DEF MergeInv, MergesAreRight
  <2>3. CASE r = s
    <3>1. seg'[r][part] = InsertInPart(part, seg[r][part], from, to)
      BY <1>4, <2>1, <2>3
    <3>2. put[r] \in Seq(Pages \X Pages) /\ put'[r] = Append(put[r], <<from, to>>)
      BY <1>3, <1>5, <2>1, <2>3
    <3>3. QED
      BY <2>2, <3>1, <3>2, InsertedInPart DEF StandsAlone
  <2>4. CASE r /= s
    BY <1>4, <1>5, <2>1, <2>2, <2>4 DEF StandsAlone
  <2>5. QED
    BY <2>3, <2>4
<1>10. QED
  BY <1>1, <1>8, <1>9, IdleIsRight DEF MergeInv

\* A graph that is flushed, or frozen and thawed, while nobody merges it.
LEMMA StandsOn ==
  ASSUME NEW w, NEW w2, NEW p, NEW s, NEW part, StandsAlone(w, p, s, part),
         p[s] \in Seq(Pages \X Pages),
         BringsNothing(w[s][part], w2[s][part]), NamesAllIds(w2[s][part])
  PROVE  StandsAlone(w2, p, s, part)
<1> DEFINE g == w[s][part]
           h == w2[s][part]
           links == p[s]
<1>1. IsWhole(g) /\ ShowsAtMost(g, part, links) /\ links \in Seq(Pages \X Pages) /\ BringsNothing(g, h)
  BY DEF StandsAlone
<1> HIDE DEF g, h, links
<1>2. ShowsAtMost(h, part, links)
  BY <1>1, ShowsNoMore
<1>3. IsWhole(h)
  BY <1>1 DEF BringsNothing
<1>4. QED
  BY <1>2, <1>3 DEF StandsAlone, g, h, links

LEMMA FreezeStep ==
  ASSUME MergeInv, NEW s \in Alive, FreezeAndThaw(s)
  PROVE  MergeInv'
<1>1. merge = Idle /\ merge' = Idle /\ put' = put
  BY DEF FreezeAndThaw
<1>2. PICK build \in SUBSET Parts : \A r \in DOMAIN seg : DOMAIN seg[r] = build
  BY DEF MergeInv, MergesAreRight, SegmentsHaveGraphs
<1>3. DOMAIN put = DOMAIN seg /\ \A r \in DOMAIN seg : put[r] \in Seq(Pages \X Pages)
  BY DEF MergeInv, MergesAreRight, SegmentsHaveGraphs
<1>4. /\ DOMAIN seg' = DOMAIN seg /\ s \in DOMAIN seg
      /\ seg'[s] = [part \in build |-> ReopenGraph(FlushGraph(seg[s][part]))]
      /\ \A r \in DOMAIN seg \ {s} : seg'[r] = seg[r]
  BY <1>2 DEF FreezeAndThaw, Thaw, Alive
<1>5. \A r \in DOMAIN seg : DOMAIN seg'[r] = build
  BY <1>2, <1>4
<1>6. SegmentsHaveGraphs(seg', put')
  BY <1>1, <1>3, <1>4, <1>5 DEF SegmentsHaveGraphs
<1>7. ASSUME NEW r \in DOMAIN seg', NEW part \in DOMAIN seg'[r]
      PROVE  StandsAlone(seg', put, r, part)
  <2>1. r \in DOMAIN seg /\ part \in build /\ part \in DOMAIN seg[r]
    BY <1>2, <1>4, <1>5
  <2>2. StandsAlone(seg, put, r, part)
    BY <1>1, <2>1, IdleGraphs DEF MergeInv, MergesAreRight
  <2>3. CASE r = s
    <3>1. seg'[r][part] = ReopenGraph(FlushGraph(seg[r][part]))
      BY <1>4, <2>1, <2>3
    <3>2. /\ BringsNothing(seg[r][part], ReopenGraph(FlushGraph(seg[r][part])))
          /\ NamesAllIds(ReopenGraph(FlushGraph(seg[r][part])))
      BY <2>2, ThawBringsNothing DEF StandsAlone
    <3>3. QED
      BY <1>3, <2>1, <2>2, <3>1, <3>2, StandsOn
  <2>4. CASE r /= s
    BY <1>4, <2>1, <2>2, <2>4 DEF StandsAlone
  <2>5. QED
    BY <2>3, <2>4
<1>8. QED
  BY <1>1, <1>6, <1>7, IdleIsRight DEF MergeInv

LEMMA StartMergeStep ==
  ASSUME MergeInv, NEW into \in Alive, NEW other \in Alive, into /= other, StartMerge(into, other)
  PROVE  MergeInv'
<1> DEFINE m == PartMerge(into, other, "full")
<1>1. merge = Idle /\ merge' = m /\ seg' = seg /\ put' = put
  BY DEF StartMerge, PartMerge
<1>2. ~Appending(m) /\ m.part = "full"
  BY PartPhase
<1>3. MergeHasTwo(seg, m)
  BY DEF MergeHasTwo, Alive, Parts
<1> HIDE DEF m
<1>4. ASSUME NEW s \in DOMAIN seg, NEW part \in DOMAIN seg[s]
      PROVE  GraphIsRight(seg, m, put, s, part)
  <2>1. StandsAlone(seg, put, s, part)
    BY <1>1, IdleGraphs DEF MergeInv, MergesAreRight
  <2>2. ~IsMerged(m, part) /\ ~IsMergedNow(m, part)
    BY <1>2 DEF IsMerged, IsMergedNow
  <2>3. QED
    BY <2>1, <2>2 DEF GraphIsRight, StandsAlone, LinksOf
<1>5. TransferIsRight(seg, m, put)
  BY <1>2 DEF TransferIsRight
<1>6. QED
  BY <1>1, <1>3, <1>4, <1>5 DEF MergeInv, MergesAreRight

LEMMA SkipPartStep ==
  ASSUME MergeInv, SkipPart
  PROVE  MergeInv'
<1>1. PICK into \in DOMAIN seg, other \in DOMAIN seg, part \in Parts \cup {"none"} :
        into /= other /\ merge = PartMerge(into, other, part)
  BY PhasePart DEF MergeInv, MergesAreRight, SkipPart
<1> DEFINE m == PartMerge(into, other, NextPart(part))
<1>2. /\ merge.into = into /\ merge.other = other /\ merge.part = part
      /\ Merging(merge) /\ ~Appending(merge)
  BY <1>1, PartPhase
<1>3. /\ m.into = into /\ m.other = other /\ m.part = NextPart(part)
      /\ Merging(m) /\ ~Appending(m)
  BY PartPhase
<1>4. merge' = m /\ seg' = seg /\ put' = put
  BY <1>1 DEF SkipPart, PartMerge
<1>5. part /= "none" /\ part \notin DOMAIN seg[into]
  BY <1>2 DEF SkipPart, Has
<1>6. MergeHasTwo(seg, m)
  <2>1. NextPart(part) \in Parts \cup {"none"}
    BY DEF NextPart, Parts
  <2>2. QED
    BY <1>1, <2>1 DEF MergeHasTwo
<1> HIDE DEF m
<1>7. ASSUME NEW s \in DOMAIN seg, NEW q \in DOMAIN seg[s]
      PROVE  GraphIsRight(seg, m, put, s, q)
  <2>1. q /= part /\ q \in Parts
    BY <1>1, <1>5 DEF MergeInv, MergesAreRight, SegmentsHaveGraphs
  <2>2. IsMerged(m, q) <=> IsMerged(merge, q)
    BY <1>1, <1>2, <1>3, <1>5, <2>1 DEF IsMerged, NextPart, Parts
  <2>3. ~IsMergedNow(m, q) /\ ~IsMergedNow(merge, q)
    BY <1>2, <1>3 DEF IsMergedNow
  <2>4. GraphIsRight(seg, merge, put, s, q)
    BY DEF MergeInv, MergesAreRight
  <2>5. QED
    BY <1>2, <1>3, <2>2, <2>3, <2>4 DEF GraphIsRight, LinksOf, IsFilled, IsDrained
<1>8. TransferIsRight(seg, m, put)
  BY <1>3 DEF TransferIsRight
<1>9. SegmentsHaveGraphs(seg, put)
  BY DEF MergeInv, MergesAreRight
<1>10. QED
  BY <1>4, <1>6, <1>7, <1>8, <1>9 DEF MergeInv, MergesAreRight

\* One graph of one segment gives way to another.
Replaces(w, w2, build, t, part, h) ==
  /\ DOMAIN w2 = DOMAIN w /\ \A s \in DOMAIN w : DOMAIN w2[s] = build
  /\ w2[t][part] = h
  /\ \A s \in DOMAIN w : \A q \in build : s /= t \/ q /= part => w2[s][q] = w[s][q]

LEMMA GraphReplaced ==
  ASSUME NEW w, NEW build, \A s \in DOMAIN w : DOMAIN w[s] = build,
         NEW t \in DOMAIN w, NEW part \in build, NEW h,
         NEW w2, w2 = [w EXCEPT ![t][part] = h]
  PROVE  Replaces(w, w2, build, t, part, h)
<1>1. DOMAIN w2 = DOMAIN w /\ w2[t] = [w[t] EXCEPT ![part] = h]
  OBVIOUS
<1>2. \A s \in DOMAIN w : s /= t => w2[s] = w[s]
  OBVIOUS
<1>3. /\ DOMAIN w2[t] = build /\ w2[t][part] = h
      /\ \A q \in build : q /= part => w2[t][q] = w[t][q]
  BY <1>1
<1>4. \A s \in DOMAIN w : DOMAIN w2[s] = build
  BY <1>2, <1>3
<1>5. \A s \in DOMAIN w : \A q \in build : s /= t \/ q /= part => w2[s][q] = w[s][q]
  BY <1>2, <1>3
<1>6. QED
  BY <1>1, <1>3, <1>4, <1>5 DEF Replaces

LEMMA BeginAppendStep ==
  ASSUME MergeInv, BeginAppend
  PROVE  MergeInv'
<1>1. PICK into \in DOMAIN seg, other \in DOMAIN seg, part \in Parts \cup {"none"} :
        into /= other /\ merge = PartMerge(into, other, part)
  BY PhasePart DEF MergeInv, MergesAreRight, BeginAppend
<1>2. /\ merge.into = into /\ merge.other = other /\ merge.part = part
      /\ Merging(merge) /\ ~Appending(merge)
  BY <1>1, PartPhase
<1>3. PICK build \in SUBSET Parts : \A s \in DOMAIN seg : DOMAIN seg[s] = build
  BY DEF MergeInv, MergesAreRight, SegmentsHaveGraphs
<1>4. DOMAIN put = DOMAIN seg /\ \A s \in DOMAIN seg : put[s] \in Seq(Pages \X Pages)
  BY DEF MergeInv, MergesAreRight, SegmentsHaveGraphs
<1>5. part /= "none" /\ part \in build
  BY <1>2, <1>3 DEF BeginAppend, Has
<1> DEFINE g == seg[into][part]
           theirs == FlushGraph(seg[other][part])
           blocks == DOMAIN theirs.adjacency.store
           m == AppendMerge(into, other, part, blocks, FALSE, {}, {})
<1>6. merge' = m /\ put' = put /\ seg' = [seg EXCEPT ![other][part] = theirs]
  BY <1>2 DEF BeginAppend, AppendMerge
<1>7. /\ DOMAIN seg' = DOMAIN seg /\ \A s \in DOMAIN seg : DOMAIN seg'[s] = build
      /\ seg'[other][part] = theirs
      /\ \A s \in DOMAIN seg : \A q \in build :
           s /= other \/ q /= part => seg'[s][q] = seg[s][q]
  <2> HIDE DEF g, theirs, blocks, m
  <2>1. Replaces(seg, seg', build, other, part, theirs)
    BY <1>1, <1>3, <1>5, <1>6, GraphReplaced
  <2>2. QED
    BY <2>1 DEF Replaces
<1>8. /\ Appending(m) /\ Merging(m) /\ m.into = into /\ m.other = other /\ m.part = part
      /\ m.blocks = blocks /\ m.current = {}
  <2>1. m = AppendMerge(into, other, part, blocks, FALSE, {}, {})
    OBVIOUS
  <2> HIDE DEF g, theirs, blocks, m
  <2>2. QED
    BY <2>1 DEF AppendMerge, Appending, Merging
<1>9. MergeHasTwo(seg', m)
  <2>1. /\ into \in DOMAIN seg' /\ other \in DOMAIN seg' /\ part \in Parts
        /\ part \in DOMAIN seg'[into]
    BY <1>1, <1>3, <1>5, <1>7
  <2> HIDE DEF g, theirs, blocks
  <2>2. QED
    BY <1>1, <2>1 DEF MergeHasTwo
<1>10. SegmentsHaveGraphs(seg', put)
  BY <1>4, <1>7 DEF SegmentsHaveGraphs
<1>11. ~IsMerged(merge, part) /\ \A q : ~IsMergedNow(merge, q)
  BY <1>2, <1>5 DEF IsMerged, IsMergedNow
<1>12. GraphIsRight(seg, merge, put, into, part) /\ GraphIsRight(seg, merge, put, other, part)
  BY <1>1, <1>3, <1>5 DEF MergeInv, MergesAreRight
<1>13. /\ IsWhole(g) /\ ShowsAtMost(g, part, put[into])
       /\ IsWhole(seg[other][part]) /\ ShowsAtMost(seg[other][part], part, put[other])
       /\ NamesAllIds(seg[other][part])
  BY <1>11, <1>12 DEF GraphIsRight, LinksOf, IsFilled, IsDrained
<1>14. /\ BringsNothing(seg[other][part], theirs)
       /\ Transfer(g, theirs, {}, blocks, part, put[into] \o put[other])
  BY <1>1, <1>4, <1>13, TransferStarts
<1>15. ShowsAtMost(theirs, part, put[other]) /\ IsWhole(theirs)
  BY <1>1, <1>4, <1>13, <1>14, ShowsNoMore DEF BringsNothing
<1> HIDE DEF g, theirs, blocks, m
<1>16. seg'[into][part] = g
  BY <1>1, <1>5, <1>7 DEF g
<1>17. TransferIsRight(seg', m, put)
  BY <1>7, <1>8, <1>14, <1>16 DEF TransferIsRight
<1>18. ASSUME NEW s \in DOMAIN seg', NEW q \in DOMAIN seg'[s]
       PROVE  GraphIsRight(seg', m, put, s, q)
  <2>1. s \in DOMAIN seg /\ q \in build /\ q \in DOMAIN seg[s]
    BY <1>3, <1>7
  <2>2. IsMerged(m, q) <=> IsMerged(merge, q)
    BY <1>2, <1>8 DEF IsMerged
  <2>3. LinksOf(m, put, s, q) = LinksOf(merge, put, s, q)
    BY <1>2, <1>8, <2>2 DEF LinksOf
  <2>4. CASE s = other /\ q = part
    <3>1. seg'[s][q] = theirs
      BY <1>7, <2>4
    <3>2. LinksOf(m, put, s, q) = put[other]
      BY <1>1, <1>8, <2>4 DEF LinksOf
    <3>3. IsDrained(m, s, q)
      BY <1>8, <2>4 DEF IsDrained, IsMergedNow
    <3>4. QED
      BY <1>15, <2>4, <3>1, <3>2, <3>3 DEF GraphIsRight
  <2>5. CASE s /= other \/ q /= part
    <3>1. seg'[s][q] = seg[s][q]
      BY <1>7, <2>1, <2>5
    <3>2. GraphIsRight(seg, merge, put, s, q)
      BY <2>1 DEF MergeInv, MergesAreRight
    <3>3. IsDrained(merge, s, q) => IsDrained(m, s, q)
      BY <1>2, <1>8, <1>11, <2>2 DEF IsDrained
    <3>4. ~IsFilled(merge, s, q)
      BY <1>11 DEF IsFilled
    <3>5. QED
      BY <2>3, <3>1, <3>2, <3>3, <3>4 DEF GraphIsRight
  <2>6. QED
    BY <2>4, <2>5
<1>19. QED
  BY <1>6, <1>9, <1>10, <1>17, <1>18 DEF MergeInv, MergesAreRight

\* A graph that a merge reads from, after a read.
LEMMA DrainedOn ==
  ASSUME NEW w, NEW w2, NEW m, NEW m2, NEW p, NEW s, NEW part, GraphIsRight(w, m, p, s, part),
         Merging(m), Merging(m2), s /= m.into, s /= m2.into, s = m2.other, IsMergedNow(m2, part),
         p[s] \in Seq(Pages \X Pages), BringsNothing(w[s][part], w2[s][part])
  PROVE  GraphIsRight(w2, m2, p, s, part)
<1> DEFINE g == w[s][part]
           h == w2[s][part]
           links == p[s]
<1>1. LinksOf(m, p, s, part) = links /\ LinksOf(m2, p, s, part) = links
  BY DEF LinksOf
<1>2. IsWhole(g) /\ ShowsAtMost(g, part, links) /\ links \in Seq(Pages \X Pages) /\ BringsNothing(g, h)
  BY <1>1 DEF GraphIsRight, IsFilled
<1> HIDE DEF g, h, links
<1>3. ShowsAtMost(h, part, links) /\ IsWhole(h)
  BY <1>2, ShowsNoMore DEF BringsNothing
<1>4. IsDrained(m2, s, part)
  BY DEF IsDrained
<1>5. QED
  BY <1>1, <1>3, <1>4 DEF GraphIsRight, h

\* What an append leaves alone: the phase and the pair, and all other graphs.
LEMMA AppendGoesOn ==
  ASSUME NEW w, NEW m, NEW p, MergesAreRight(w, m, p), Appending(m),
         NEW w2, NEW m2, MergeHasTwo(w2, m2), TransferIsRight(w2, m2, p), Appending(m2),
         m2.into = m.into, m2.other = m.other, m2.part = m.part,
         NEW build, \A s \in DOMAIN w : DOMAIN w[s] = build,
         DOMAIN w2 = DOMAIN w, \A s \in DOMAIN w : DOMAIN w2[s] = build,
         m.into \in DOMAIN w, m.other \in DOMAIN w, m.into /= m.other, m.part \in build,
         \A s \in DOMAIN w : \A q \in build :
           s \notin {m.into, m.other} \/ q /= m.part => w2[s][q] = w[s][q],
         IsWhole(w2[m.into][m.part]),
         NamesAllIds(w[m.into][m.part]) => NamesAllIds(w2[m.into][m.part]),
         BringsNothing(w[m.other][m.part], w2[m.other][m.part])
  PROVE  MergesAreRight(w2, m2, p)
<1>1. \A s \in DOMAIN w : p[s] \in Seq(Pages \X Pages)
  BY DEF MergesAreRight, SegmentsHaveGraphs
<1>2. build \in SUBSET Parts /\ DOMAIN p = DOMAIN w
  BY DEF MergesAreRight, SegmentsHaveGraphs
<1>3. SegmentsHaveGraphs(w2, p)
  BY <1>1, <1>2 DEF SegmentsHaveGraphs
<1>4. Merging(m) /\ Merging(m2)
  BY DEF Merging
<1>5. ASSUME NEW s \in DOMAIN w, NEW q \in build PROVE GraphIsRight(w2, m2, p, s, q)
  <2>1. GraphIsRight(w, m, p, s, q)
    BY <1>5 DEF MergesAreRight
  <2>2. /\ IsMerged(m2, q) <=> IsMerged(m, q)
        /\ IsMergedNow(m2, q) <=> q = m.part
        /\ IsMergedNow(m, q) <=> q = m.part
    BY DEF IsMerged, IsMergedNow
  <2>3. /\ LinksOf(m2, p, s, q) = LinksOf(m, p, s, q)
        /\ IsFilled(m2, s, q) <=> IsFilled(m, s, q)
        /\ IsDrained(m2, s, q) <=> IsDrained(m, s, q)
    BY <1>4, <2>2 DEF LinksOf, IsFilled, IsDrained
  <2>4. CASE s = m.into /\ q = m.part
    <3>1. IsFilled(m2, s, q)
      BY <1>4, <2>2, <2>4 DEF IsFilled
    <3>2. ~IsDrained(m, s, q)
      BY <2>4 DEF IsDrained
    <3>3. QED
      BY <2>1, <2>4, <3>1, <3>2 DEF GraphIsRight
  <2>5. CASE s = m.other /\ q = m.part
    BY <1>1, <1>4, <2>1, <2>2, <2>5, DrainedOn
  <2>6. CASE s \notin {m.into, m.other} \/ q /= m.part
    <3>1. w2[s][q] = w[s][q]
      BY <2>6
    <3>2. QED
      BY <2>1, <2>3, <3>1 DEF GraphIsRight
  <2>7. QED
    BY <2>4, <2>5, <2>6
<1>6. QED
  BY <1>2, <1>3, <1>5 DEF MergesAreRight

LEMMA LoadNextBlockStep ==
  ASSUME MergeInv, LoadNextBlock
  PROVE  MergeInv'
<1>1. PICK into \in DOMAIN seg, other \in DOMAIN seg, part \in Parts :
        \E blocks, loaded, current, begun :
          /\ into /= other /\ part \in DOMAIN seg[into]
          /\ merge = AppendMerge(into, other, part, blocks, loaded, current, begun)
  BY PhaseAppend DEF MergeInv, MergesAreRight, LoadNextBlock
<1>2. PICK blocks, loaded, current, begun :
        /\ into /= other /\ part \in DOMAIN seg[into]
        /\ merge = AppendMerge(into, other, part, blocks, loaded, current, begun)
  BY <1>1
<1>3. /\ merge.into = into /\ merge.other = other /\ merge.part = part
      /\ merge.blocks = blocks /\ merge.current = current /\ Appending(merge)
  BY <1>2 DEF AppendMerge, Appending
<1>4. PICK build \in SUBSET Parts : \A s \in DOMAIN seg : DOMAIN seg[s] = build
  BY DEF MergeInv, MergesAreRight, SegmentsHaveGraphs
<1>5. DOMAIN put = DOMAIN seg /\ \A s \in DOMAIN seg : put[s] \in Seq(Pages \X Pages)
  BY DEF MergeInv, MergesAreRight, SegmentsHaveGraphs
<1>6. part \in build
  BY <1>2, <1>4
<1> DEFINE g == seg[into][part]
           theirs == seg[other][part]
           links == put[into] \o put[other]
<1>7. PICK b \in blocks :
        /\ merge' = [merge EXCEPT !.blocks = @ \ {b}, !.loaded = TRUE,
                                  !.current = EdgesOfBlock(Peek(theirs.adjacency, b))]
        /\ seg' = [seg EXCEPT ![other][part].adjacency = Get(theirs.adjacency, b)]
  BY <1>3 DEF LoadNextBlock
<1> DEFINE edges == EdgesOfBlock(Peek(theirs.adjacency, b))
           now == [theirs EXCEPT !.adjacency = Get(theirs.adjacency, b)]
           m == AppendMerge(into, other, part, blocks \ {b}, TRUE, edges, begun)
<1>8. merge' = m
  BY <1>2, <1>7 DEF AppendMerge
<1>9. seg' = [seg EXCEPT ![other][part] = now]
  BY <1>7
<1>10. put' = put
  BY DEF LoadNextBlock
<1>11. Replaces(seg, seg', build, other, part, now)
  <2> HIDE DEF now
  <2>1. QED
    BY <1>4, <1>6, <1>9, GraphReplaced
<1>12. /\ Appending(m) /\ m.into = into /\ m.other = other /\ m.part = part
       /\ m.blocks = blocks \ {b} /\ m.current = edges
  <2> HIDE DEF edges
  <2>1. QED
    BY DEF AppendMerge, Appending
<1>13. IsWhole(g) /\ IsWhole(theirs)
  BY <1>4, <1>6 DEF MergeInv, MergesAreRight, GraphIsRight
<1>14. links \in Seq(Pages \X Pages)
  BY <1>5, ConcatOf
<1>15. Transfer(g, theirs, current, blocks, part, links)
  BY <1>3 DEF MergeInv, MergesAreRight, TransferIsRight
<1> HIDE DEF links, g, theirs
<1>16. BringsNothing(theirs, now) /\ Transfer(g, now, edges, blocks \ {b}, part, links)
  BY <1>13, <1>14, <1>15, TransferLoads
<1> HIDE DEF edges, now, m
<1>17. /\ seg'[into][part] = g /\ seg'[other][part] = now
       /\ DOMAIN seg' = DOMAIN seg /\ \A s \in DOMAIN seg : DOMAIN seg'[s] = build
       /\ \A s \in DOMAIN seg : \A q \in build :
            s /= other \/ q /= part => seg'[s][q] = seg[s][q]
  BY <1>2, <1>6, <1>11 DEF Replaces, g
<1>18. TransferIsRight(seg', m, put)
  BY <1>12, <1>16, <1>17 DEF TransferIsRight, links
<1>19. MergeHasTwo(seg', m)
  BY <1>2, <1>6, <1>17 DEF MergeHasTwo, m
<1>20. MergesAreRight(seg, merge, put)
  BY DEF MergeInv
<1>21. MergesAreRight(seg', m, put)
  <2>1. /\ \A s \in DOMAIN seg : \A q \in build :
             s \notin {merge.into, merge.other} \/ q /= merge.part => seg'[s][q] = seg[s][q]
        /\ IsWhole(seg'[merge.into][merge.part])
        /\ NamesAllIds(seg[merge.into][merge.part]) => NamesAllIds(seg'[merge.into][merge.part])
        /\ BringsNothing(seg[merge.other][merge.part], seg'[merge.other][merge.part])
    BY <1>3, <1>13, <1>16, <1>17 DEF g, theirs
  <2>2. /\ m.into = merge.into /\ m.other = merge.other /\ m.part = merge.part
        /\ merge.into \in DOMAIN seg /\ merge.other \in DOMAIN seg
        /\ merge.into /= merge.other /\ merge.part \in build
    BY <1>2, <1>3, <1>6, <1>12
  <2>3. QED
    BY <1>3, <1>4, <1>12, <1>17, <1>18, <1>19, <1>20, <2>1, <2>2, AppendGoesOn
<1>22. QED
  BY <1>8, <1>10, <1>21 DEF MergeInv

LEMMA AppendEdgeStep ==
  ASSUME MergeInv, AppendEdge
  PROVE  MergeInv'
<1>1. PICK into \in DOMAIN seg, other \in DOMAIN seg, part \in Parts :
        \E blocks, loaded, current, begun :
          /\ into /= other /\ part \in DOMAIN seg[into]
          /\ merge = AppendMerge(into, other, part, blocks, loaded, current, begun)
  BY PhaseAppend DEF MergeInv, MergesAreRight, AppendEdge
<1>2. PICK blocks, loaded, current, begun :
        /\ into /= other /\ part \in DOMAIN seg[into]
        /\ merge = AppendMerge(into, other, part, blocks, loaded, current, begun)
  BY <1>1
<1>3. /\ merge.into = into /\ merge.other = other /\ merge.part = part
      /\ merge.blocks = blocks /\ merge.current = current /\ Appending(merge)
  BY <1>2 DEF AppendMerge, Appending
<1>4. PICK build \in SUBSET Parts : \A s \in DOMAIN seg : DOMAIN seg[s] = build
  BY DEF MergeInv, MergesAreRight, SegmentsHaveGraphs
<1>5. DOMAIN put = DOMAIN seg /\ \A s \in DOMAIN seg : put[s] \in Seq(Pages \X Pages)
  BY DEF MergeInv, MergesAreRight, SegmentsHaveGraphs
<1>6. part \in build
  BY <1>2, <1>4
<1> DEFINE g == seg[into][part]
           their == seg[other][part]
           links == put[into] \o put[other]
           First(edge) == BlockedGet(their.id2node, edge[1])
           Both(edge) == BlockedGet(First(edge), edge[3])
           Now(edge) == [their EXCEPT !.id2node = Both(edge)]
           Grown(edge) == InsertEdge(g, BlockedPeek(their.id2node, edge[1]),
                                        BlockedPeek(First(edge), edge[3]))
<1>7. PICK edge \in current :
        IF BlockedKnown(their.id2node, edge[1]) /\ BlockedKnown(First(edge), edge[3])
        THEN /\ merge' = [merge EXCEPT !.current = @ \ {edge}, !.begun = {edge[1]}]
             /\ seg' = [seg EXCEPT ![other][part].id2node = Both(edge),
                                   ![into][part] =
                                     InsertEdge(@, BlockedPeek(their.id2node, edge[1]),
                                                   BlockedPeek(First(edge), edge[3]))]
        ELSE merge' = [phase |-> "panicked"] /\ UNCHANGED seg
  BY <1>3 DEF AppendEdge
<1> DEFINE now == Now(edge)
           h == Grown(edge)
           left == current \ {edge}
           m == AppendMerge(into, other, part, blocks, loaded, left, {edge[1]})
<1>8. IsWhole(g) /\ IsWhole(their)
  BY <1>4, <1>6 DEF MergeInv, MergesAreRight, GraphIsRight
<1>9. links \in Seq(Pages \X Pages)
  BY <1>5, ConcatOf
<1>10. Transfer(g, their, current, blocks, part, links)
  BY <1>3 DEF MergeInv, MergesAreRight, TransferIsRight
<1>11. /\ BlockedKnown(their.id2node, edge[1]) /\ BlockedKnown(First(edge), edge[3])
       /\ BringsNothing(their, now) /\ IsWhole(h) /\ (NamesAllIds(g) => NamesAllIds(h))
       /\ Transfer(h, now, left, blocks, part, links)
  <2> HIDE DEF links, g, their
  <2>1. QED
    BY <1>8, <1>9, <1>10, TransferAppends
<1>12. /\ merge' = [merge EXCEPT !.current = @ \ {edge}, !.begun = {edge[1]}]
       /\ seg' = [seg EXCEPT ![other][part].id2node = Both(edge),
                             ![into][part] =
                               InsertEdge(@, BlockedPeek(their.id2node, edge[1]),
                                             BlockedPeek(First(edge), edge[3]))]
  BY <1>7, <1>11
<1>13. merge' = m
  BY <1>2, <1>12 DEF AppendMerge
<1> DEFINE mid == [seg EXCEPT ![other][part] = now]
<1>14. seg' = [mid EXCEPT ![into][part] = h]
  <2>1. mid[into] = seg[into] /\ into \in DOMAIN mid
    BY <1>2
  <2>2. QED
    BY <1>2, <1>12, <2>1
<1>15. put' = put
  BY DEF AppendEdge
<1> HIDE DEF First, Both, Now, Grown, now, h, left, g, their, links
<1>16. Replaces(seg, mid, build, other, part, now)
  BY <1>4, <1>6, GraphReplaced
<1> HIDE DEF mid
<1>17. Replaces(mid, seg', build, into, part, h)
  <2>1. \A s \in DOMAIN mid : DOMAIN mid[s] = build
    BY <1>16 DEF Replaces
  <2>2. into \in DOMAIN mid
    BY <1>16 DEF Replaces
  <2>3. QED
    BY <1>6, <1>14, <2>1, <2>2, GraphReplaced
<1>18. /\ seg'[into][part] = h /\ seg'[other][part] = now
       /\ DOMAIN seg' = DOMAIN seg /\ \A s \in DOMAIN seg : DOMAIN seg'[s] = build
       /\ \A s \in DOMAIN seg : \A q \in build :
            s \notin {into, other} \/ q /= part => seg'[s][q] = seg[s][q]
  BY <1>2, <1>6, <1>16, <1>17 DEF Replaces
<1>19. /\ Appending(m) /\ m.into = into /\ m.other = other /\ m.part = part
       /\ m.blocks = blocks /\ m.current = left
  BY DEF AppendMerge, Appending
<1>20. MergeHasTwo(seg', m)
  BY <1>2, <1>6, <1>18 DEF MergeHasTwo
<1> HIDE DEF m
<1>21. TransferIsRight(seg', m, put)
  BY <1>11, <1>18, <1>19 DEF TransferIsRight, links
<1>22. MergesAreRight(seg, merge, put)
  BY DEF MergeInv
<1>23. MergesAreRight(seg', m, put)
  <2>1. /\ \A s \in DOMAIN seg : \A q \in build :
             s \notin {merge.into, merge.other} \/ q /= merge.part => seg'[s][q] = seg[s][q]
        /\ IsWhole(seg'[merge.into][merge.part])
        /\ NamesAllIds(seg[merge.into][merge.part]) => NamesAllIds(seg'[merge.into][merge.part])
        /\ BringsNothing(seg[merge.other][merge.part], seg'[merge.other][merge.part])
    BY <1>3, <1>11, <1>18 DEF g, their
  <2>2. /\ m.into = merge.into /\ m.other = merge.other /\ m.part = merge.part
        /\ merge.into \in DOMAIN seg /\ merge.other \in DOMAIN seg
        /\ merge.into /= merge.other /\ merge.part \in build
    BY <1>2, <1>3, <1>6, <1>19
  <2>3. QED
    BY <1>3, <1>4, <1>18, <1>19, <1>20, <1>21, <1>22, <2>1, <2>2, AppendGoesOn
<1>24. QED
  BY <1>13, <1>15, <1>23 DEF MergeInv

LEMMA EndAppendStep ==
  ASSUME MergeInv, EndAppend
  PROVE  MergeInv'
<1>1. PICK into \in DOMAIN seg, other \in DOMAIN seg, part \in Parts :
        \E blocks, loaded, current, begun :
          /\ into /= other /\ part \in DOMAIN seg[into]
          /\ merge = AppendMerge(into, other, part, blocks, loaded, current, begun)
  BY PhaseAppend DEF MergeInv, MergesAreRight, EndAppend
<1>2. PICK blocks, loaded, current, begun :
        /\ into /= other /\ part \in DOMAIN seg[into]
        /\ merge = AppendMerge(into, other, part, blocks, loaded, current, begun)
  BY <1>1
<1>3. /\ merge.into = into /\ merge.other = other /\ merge.part = part
      /\ merge.blocks = blocks /\ merge.current = current /\ Appending(merge) /\ Merging(merge)
  BY <1>2 DEF AppendMerge, Appending, Merging
<1>4. /\ SegmentsHaveGraphs(seg, put) /\ MergesAreRight(seg, merge, put)
      /\ \A s \in DOMAIN seg : put[s] \in Seq(Pages \X Pages)
      /\ \A s \in DOMAIN seg : DOMAIN seg[s] \subseteq Parts /\ DOMAIN seg[s] = DOMAIN seg[into]
  BY DEF MergeInv, MergesAreRight, SegmentsHaveGraphs
<1> DEFINE m == PartMerge(into, other, NextPart(part))
<1>5. /\ m.into = into /\ m.other = other /\ m.part = NextPart(part)
      /\ Merging(m) /\ ~Appending(m)
  BY PartPhase
<1>6. merge' = m /\ seg' = seg /\ put' = put
  BY <1>3 DEF EndAppend, PartMerge
<1>7. MergeHasTwo(seg, m)
  <2>1. NextPart(part) \in Parts \cup {"none"}
    BY DEF NextPart, Parts
  <2>2. QED
    BY <1>2, <2>1 DEF MergeHasTwo
<1> HIDE DEF m
<1>8. IsWhole(seg[into][part]) /\ IsWhole(seg[other][part])
  BY <1>2, <1>4 DEF MergesAreRight, GraphIsRight
<1>9. ShowsAtMost(seg[into][part], part, put[into] \o put[other])
  <2> DEFINE g == seg[into][part]
             their == seg[other][part]
             links == put[into] \o put[other]
  <2>1. Transfer(g, their, current, blocks, part, links)
    BY <1>3, <1>4 DEF MergesAreRight, TransferIsRight
  <2>2. links \in Seq(Pages \X Pages)
    BY <1>4, ConcatOf
  <2>3. IsWhole(g) /\ IsWhole(their)
    BY <1>8
  <2> HIDE DEF g, their, links
  <2>4. ShowsAtMost(g, part, links)
    BY <2>1, <2>2, <2>3, TransferEnds
  <2>5. QED
    BY <2>4 DEF g, links
<1>10. ASSUME NEW s \in DOMAIN seg, NEW q \in DOMAIN seg[s]
       PROVE  GraphIsRight(seg, m, put, s, q)
  <2>1. q \in Parts
    BY <1>4
  <2>2. IsMerged(m, q) <=> IsMerged(merge, q) \/ q = part
    BY <1>3, <1>5, <2>1 DEF IsMerged, NextPart, Parts
  <2>3. ~IsMergedNow(m, q) /\ (IsMergedNow(merge, q) <=> q = part)
    BY <1>3, <1>5 DEF IsMergedNow
  <2>4. GraphIsRight(seg, merge, put, s, q)
    BY <1>4 DEF MergesAreRight
  <2>5. IsDrained(m, s, q) <=> IsDrained(merge, s, q)
    BY <1>3, <1>5, <2>2, <2>3 DEF IsDrained
  <2>6. CASE s = into /\ q = part
    <3>1. LinksOf(m, put, s, q) = put[into] \o put[other]
      BY <1>5, <2>2, <2>6 DEF LinksOf
    <3>2. QED
      BY <1>9, <2>4, <2>5, <2>6, <3>1 DEF GraphIsRight
  <2>7. CASE s /= into \/ q /= part
    <3>1. LinksOf(m, put, s, q) = LinksOf(merge, put, s, q)
      BY <1>3, <1>5, <2>2, <2>7 DEF LinksOf
    <3>2. ~IsFilled(merge, s, q)
      BY <1>3, <2>3, <2>7 DEF IsFilled
    <3>3. QED
      BY <2>4, <2>5, <3>1, <3>2 DEF GraphIsRight
  <2>8. QED
    BY <2>6, <2>7
<1>11. TransferIsRight(seg, m, put)
  BY <1>5 DEF TransferIsRight
<1>12. QED
  BY <1>4, <1>6, <1>7, <1>10, <1>11 DEF MergeInv, MergesAreRight

LEMMA FinishMergeStep ==
  ASSUME MergeInv, FinishMerge
  PROVE  MergeInv'
<1>1. PICK into \in DOMAIN seg, other \in DOMAIN seg, part \in Parts \cup {"none"} :
        into /= other /\ merge = PartMerge(into, other, part)
  BY PhasePart DEF MergeInv, MergesAreRight, FinishMerge
<1>2. /\ merge.into = into /\ merge.other = other /\ merge.part = "none"
      /\ Merging(merge) /\ ~Appending(merge)
  BY <1>1, PartPhase DEF FinishMerge
<1>3. PICK build \in SUBSET Parts : \A s \in DOMAIN seg : DOMAIN seg[s] = build
  BY DEF MergeInv, MergesAreRight, SegmentsHaveGraphs
<1>4. DOMAIN put = DOMAIN seg /\ \A s \in DOMAIN seg : put[s] \in Seq(Pages \X Pages)
  BY DEF MergeInv, MergesAreRight, SegmentsHaveGraphs
<1>5. merge' = Idle
  BY DEF FinishMerge
<1>6. /\ DOMAIN seg' = DOMAIN seg \ {other} /\ into \in DOMAIN seg'
      /\ seg'[into] = [q \in build |-> FlushGraph(seg[into][q])]
      /\ \A s \in DOMAIN seg \ {into, other} : seg'[s] = seg[s]
  BY <1>1, <1>2, <1>3 DEF FinishMerge, Alive
<1>7. /\ DOMAIN put' = DOMAIN seg \ {other} /\ put'[into] = put[into] \o put[other]
      /\ \A s \in DOMAIN seg \ {into, other} : put'[s] = put[s]
  BY <1>1, <1>2 DEF FinishMerge, Alive
<1>8. put'[into] \in Seq(Pages \X Pages)
  BY <1>4, <1>7, ConcatOf
<1>9. \A s \in DOMAIN seg' : DOMAIN seg'[s] = build /\ put'[s] \in Seq(Pages \X Pages)
  BY <1>3, <1>4, <1>6, <1>7, <1>8
<1>10. SegmentsHaveGraphs(seg', put')
  BY <1>6, <1>7, <1>9 DEF SegmentsHaveGraphs
<1>11. ASSUME NEW s \in DOMAIN seg', NEW q \in DOMAIN seg'[s] PROVE StandsAlone(seg', put', s, q)
  <2>1. s \in DOMAIN seg /\ q \in DOMAIN seg[s] /\ q \in build /\ s /= other
    BY <1>3, <1>6, <1>9
  <2>2. GraphIsRight(seg, merge, put, s, q)
    BY <2>1 DEF MergeInv, MergesAreRight
  <2>3. ~IsFilled(merge, s, q) /\ ~IsDrained(merge, s, q)
    BY <1>2, <2>1 DEF IsFilled, IsMergedNow, IsDrained
  <2>4. LinksOf(merge, put, s, q) = put'[s]
    BY <1>2, <1>6, <1>7, <2>1 DEF LinksOf, IsMerged
  <2>5. StandsAlone(seg, put', s, q)
    BY <2>2, <2>3, <2>4 DEF GraphIsRight, StandsAlone
  <2>6. CASE s = into
    <3> DEFINE g == seg[s][q]
               h == FlushGraph(g)
    <3>1. seg'[s][q] = h
      BY <1>6, <2>1, <2>6
    <3>2. /\ BringsNothing(g, h) /\ Content(h.id2node) = Content(g.id2node)
          /\ h.id2node.cache = g.id2node.cache
      BY <2>5, FlushBringsNothing DEF StandsAlone
    <3> HIDE DEF g, h
    <3>3. NamesAllIds(h)
      <4>1. NamesAllIds(g) /\ NextId(h) = NextId(g)
        BY <2>5, <3>2 DEF StandsAlone, BringsNothing, g
      <4>2. QED
        BY <3>2, <4>1, SameNamesAllIds
    <3>4. QED
      BY <1>9, <2>5, <3>1, <3>2, <3>3, StandsOn DEF g
  <2>7. CASE s /= into
    BY <1>6, <2>1, <2>5, <2>7 DEF StandsAlone
  <2>8. QED
    BY <2>6, <2>7
<1>12. QED
  BY <1>5, <1>10, <1>11, IdleIsRight DEF MergeInv

LEMMA MergeInvStep == MergeInv /\ [NextWebgraph]_webgraphVars => MergeInv'
<1> SUFFICES ASSUME MergeInv, [NextWebgraph]_webgraphVars PROVE MergeInv'
  OBVIOUS
<1>1. CASE \E s \in Alive, from, to \in Pages : InsertLink(s, from, to)
  BY <1>1, InsertLinkStep
<1>2. CASE \E s \in Alive : FreezeAndThaw(s)
  BY <1>2, FreezeStep
<1>3. CASE \E into, other \in Alive : into /= other /\ StartMerge(into, other)
  BY <1>3, StartMergeStep
<1>4. CASE SkipPart
  BY <1>4, SkipPartStep
<1>5. CASE BeginAppend
  BY <1>5, BeginAppendStep
<1>6. CASE LoadNextBlock
  BY <1>6, LoadNextBlockStep
<1>7. CASE AppendEdge
  BY <1>7, AppendEdgeStep
<1>8. CASE EndAppend
  BY <1>8, EndAppendStep
<1>9. CASE FinishMerge
  BY <1>9, FinishMergeStep
<1>10. CASE UNCHANGED webgraphVars
  BY <1>10 DEF webgraphVars, MergeInv
<1>11. QED
  BY <1>1, <1>2, <1>3, <1>4, <1>5, <1>6, <1>7, <1>8, <1>9, <1>10 DEF NextWebgraph


\* What a graph shows of an edge was put.
LEMMA WhatIsShownWasPut ==
  ASSUME NEW g, IsWhole(g), NEW part, NEW links \in Seq(Pages \X Pages),
         ShowsAtMost(g, part, links), NEW a \in Nodes, NEW b \in Nodes
  PROVE  EdgeCount(g, a, b) \in Nat /\ EdgeCount(g, a, b) <= PutCount(links, part, <<a, b>>)
<1> DEFINE P == Places(g.adjacency)
<1>1. PICK name, E : Named(g, name, E) /\ Allowed(P, name, part, links)
  BY DEF ShowsAtMost
<1>2. /\ EdgeCount(g, a, b) <= Cardinality(Reads(P, name, <<a, b>>))
      /\ EdgeCount(g, a, b) \in Nat
  BY <1>1, ReadEdgesArePlaces
<1>3. Cardinality(Reads(P, name, <<a, b>>)) <= PutCount(links, part, <<a, b>>)
  BY <1>1 DEF Allowed
<1>4. PutCount(links, part, <<a, b>>) \in Nat
  BY PutCountIsNat
<1>5. Cardinality(Reads(P, name, <<a, b>>)) \in Nat
  BY FewerRead DEF IsWhole
<1> HIDE DEF P
<1>6. QED
  BY <1>2, <1>3, <1>4, <1>5

LEMMA MergeInvSuffices == MergeInv => NoEdgeIsInvented
<1> SUFFICES ASSUME MergeInv PROVE NoEdgeIsInvented
  OBVIOUS
<1>1. merge.phase /= "panicked"
  BY DEF MergeInv, MergesAreRight, MergeHasTwo, Idle, PartMerge, AppendMerge
<1>2. DOMAIN put = DOMAIN seg /\ \A s \in DOMAIN seg : put[s] \in Seq(Pages \X Pages)
  BY DEF MergeInv, MergesAreRight, SegmentsHaveGraphs
<1>3. Merging(merge) => merge.into \in DOMAIN seg /\ merge.other \in DOMAIN seg
  BY IdlePhase DEF MergeInv, MergesAreRight, MergeHasTwo, PartMerge, AppendMerge
<1>4. merge.phase \in {"part", "append"} <=> Merging(merge)
  BY DEF Merging, Appending
<1>5. ASSUME NEW s \in Alive, NEW part \in DOMAIN seg[s],
             NEW e \in NodesIn(part) \X NodesIn(part)
      PROVE  EdgeCount(seg[s][part], e[1], e[2]) <=
               PutCount(IF merge.phase \in {"part", "append"} /\ s = merge.into
                        THEN put[s] \o put[merge.other] ELSE put[s], part, e)
  <2> DEFINE g == seg[s][part]
             shown == EdgeCount(g, e[1], e[2])
             all == put[s] \o put[merge.other]
  <2>1. e[1] \in Nodes /\ e[2] \in Nodes /\ e = <<e[1], e[2]>>
    BY WebgraphAssumption DEF NodesIn
  <2>2. s \in DOMAIN seg
    BY DEF Alive
  <2>3. GraphIsRight(seg, merge, put, s, part)
    BY <2>2 DEF MergeInv, MergesAreRight
  <2>4. IsWhole(g)
    BY <2>3 DEF GraphIsRight
  <2>5. ASSUME NEW links \in Seq(Pages \X Pages), ShowsAtMost(g, part, links)
        PROVE  shown \in Nat /\ shown <= PutCount(links, part, e)
    <3> HIDE DEF g
    <3>1. QED
      BY <2>1, <2>4, <2>5, WhatIsShownWasPut
  <2> HIDE DEF shown
  <2>6. CASE Merging(merge) /\ s = merge.into
    <3>1. /\ put[s] \in Seq(Pages \X Pages) /\ put[merge.other] \in Seq(Pages \X Pages)
          /\ all \in Seq(Pages \X Pages)
      BY <1>2, <1>3, <2>2, <2>6, ConcatOf
    <3>2. CASE IsFilled(merge, s, part)
      <4>1. Appending(merge) /\ part = merge.part
        BY <3>2 DEF IsFilled, IsMergedNow
      <4>2. Transfer(g, seg[merge.other][part], merge.current, merge.blocks, part, all)
        BY <2>6, <4>1 DEF MergeInv, MergesAreRight, TransferIsRight
      <4>3. IsWhole(seg[merge.other][part])
        <5>1. part \in DOMAIN seg[merge.other]
          BY <1>3, <2>2, <2>6 DEF MergeInv, MergesAreRight, SegmentsHaveGraphs
        <5>2. QED
          BY <1>3, <2>6, <5>1 DEF MergeInv, MergesAreRight, GraphIsRight
      <4> HIDE DEF g, all
      <4>4. ShowsAtMost(g, part, all)
        BY <2>4, <3>1, <4>2, <4>3, TransferEnds
      <4>5. shown <= PutCount(all, part, e)
        BY <2>5, <3>1, <4>4
      <4>6. QED
        BY <1>4, <2>6, <4>5 DEF shown, g, all
    <3>3. CASE ~IsFilled(merge, s, part) /\ IsMerged(merge, part)
      <4>1. ShowsAtMost(g, part, all)
        BY <2>3, <2>6, <3>3 DEF GraphIsRight, LinksOf
      <4> HIDE DEF g, all
      <4>2. shown <= PutCount(all, part, e)
        BY <2>5, <3>1, <4>1
      <4>3. QED
        BY <1>4, <2>6, <4>2 DEF shown, g, all
    <3>4. CASE ~IsFilled(merge, s, part) /\ ~IsMerged(merge, part)
      <4>1. ShowsAtMost(g, part, put[s])
        BY <2>3, <3>4 DEF GraphIsRight, LinksOf
      <4>2. PutCount(all, part, e) = PutCount(put[s], part, e) + PutCount(put[merge.other], part, e)
        BY <3>1, PutCountConcat
      <4>3. PutCount(put[s], part, e) \in Nat /\ PutCount(put[merge.other], part, e) \in Nat
        BY <3>1, PutCountIsNat
      <4> HIDE DEF g, all
      <4>4. shown \in Nat /\ shown <= PutCount(put[s], part, e)
        BY <2>5, <3>1, <4>1
      <4>5. shown <= PutCount(all, part, e)
        BY <4>2, <4>3, <4>4
      <4>6. QED
        BY <1>4, <2>6, <4>5 DEF shown, g, all
    <3>5. QED
      BY <3>2, <3>3, <3>4
  <2>7. CASE ~(Merging(merge) /\ s = merge.into)
    <3>1. put[s] \in Seq(Pages \X Pages)
      BY <1>2, <2>2
    <3>2. ShowsAtMost(g, part, put[s])
      BY <2>3, <2>7 DEF GraphIsRight, LinksOf, IsFilled
    <3>3. shown <= PutCount(put[s], part, e)
      BY <2>5, <3>1, <3>2
    <3>4. QED
      BY <1>4, <2>7, <3>3 DEF shown, g
  <2>8. QED
    BY <2>6, <2>7
<1>6. QED
  BY <1>1, <1>5 DEF NoEdgeIsInvented

\* No segment ever shows an edge more often than Webgraph::insert put it there,
\* or into the segment that Webgraph::merge is appending to it, and append never
\* meets an id that EdgeIterator::next cannot name (webgraph/mod.rs,
\* graph_store.rs): whatever the pages and hosts, the size of the blocks and of
\* the caches, the entries a full cache lost and the edges the iteration skipped.
THEOREM NoEdgeComesFromNowhere == SpecWebgraph => []NoEdgeIsInvented
<1>1. SpecWebgraph => []MergeInv
  BY WebgraphStarts, MergeInvStep, PTL DEF SpecWebgraph
<1>2. QED
  BY <1>1, MergeInvSuffices, PTL
=============================================================================
