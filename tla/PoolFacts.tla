------------------------------- MODULE PoolFacts ------------------------------
(****************************************************************************)
(* What the methods of the block pool keep, whoever calls them: the free    *)
(* queue stays exact.  PagedCacheProofs and PrefixCacheProofs cite these.   *)
(****************************************************************************)
EXTENDS BlockPool, FiniteSetTheorems, TLAPS

\* The types of the part of the pool the free queue lives in.
PoolTypes ==
  /\ created \in 1 .. MaxBlocks
  /\ free \in Seq(Block)
  /\ allocated \subseteq Block
  /\ NullBlock \in allocated

\* One element more or less.
LEMMA CardAdd ==
  ASSUME NEW S, NEW x, IsFiniteSet(S), x \notin S
  PROVE  Cardinality(S \cup {x}) = Cardinality(S) + 1
BY FS_AddElement

LEMMA CardRemove ==
  ASSUME NEW S, NEW x, IsFiniteSet(S), x \in S
  PROVE  /\ Cardinality(S) \in Nat \ {0}
         /\ Cardinality(S \ {x}) = Cardinality(S) - 1
         /\ Cardinality(S) = 1 => S = {x}
<1>1. Cardinality(S \ {x}) = Cardinality(S) - 1
  BY FS_RemoveElement
<1>2. Cardinality(S) \in Nat /\ Cardinality(S \ {x}) \in Nat
  BY FS_CardinalityType, FS_RemoveElement
<1>3. Cardinality(S) # 0
  BY FS_EmptySet
<1>4. ASSUME Cardinality(S) = 1 PROVE S = {x}
  <2>1. Cardinality(S \ {x}) = 0
    BY <1>1, <1>4
  <2>2. IsFiniteSet(S \ {x})
    BY FS_RemoveElement
  <2>3. S \ {x} = {}
    BY <2>1, <2>2, FS_EmptySet
  <2>4. QED BY <2>3
<1>5. QED BY <1>1, <1>2, <1>3, <1>4

\* Popping an id out of the map keeps the map's type.
LEMMA UnmappedType ==
  ASSUME hashMap \in [Hash -> SUBSET Block], NEW g, NEW b
  PROVE  Unmapped(g, b) \in [Hash -> SUBSET Block]
BY DEF Unmapped

------------------------------------------------------------------------------
\* What popping the free queue gives, growth included: a block that was not
\* allocated, and a queue that is exact once that block is.
LEMMA TakeFreeFacts ==
  ASSUME PoolTypes, FreeListExact, NEW b \in Block, TakeFree(b),
         allocated' = allocated \cup {b}
  PROVE  /\ b \notin allocated /\ b # NullBlock
         /\ PoolTypes'
         /\ FreeListExact'
<1> USE PoolAssumption DEF Block, NullBlock
<1>1. CASE /\ free # <<>> /\ b = Head(free) /\ free' = Tail(free)
           /\ UNCHANGED created
  <2>1. free \in Seq(Block) /\ Len(free) \in Nat \ {0} /\ b = free[1]
    BY <1>1 DEF PoolTypes
  <2>2. b \notin allocated /\ b < created
    BY <2>1 DEF FreeListExact
  <2>3. /\ free' \in Seq(Block) /\ Len(free') = Len(free) - 1
        /\ \A i \in 1 .. Len(free') : free'[i] = free[i + 1]
    BY <1>1, <2>1
  <2>4. ASSUME NEW i \in 1 .. Len(free'), NEW j \in 1 .. Len(free'),
               free'[i] = free'[j]
        PROVE  i = j
    <3>1. i + 1 \in 1 .. Len(free) /\ j + 1 \in 1 .. Len(free)
      BY <2>1, <2>3
    <3>2. free[i + 1] = free[j + 1]
      BY <2>3, <2>4
    <3>3. i + 1 = j + 1
      BY <3>1, <3>2 DEF FreeListExact
    <3>4. QED BY <3>3
  <2>5. \A c \in Block : (\E i \in 1 .. Len(free') : free'[i] = c)
                           <=> (c # b /\ \E i \in 1 .. Len(free) : free[i] = c)
    <3>1. SUFFICES ASSUME NEW c \in Block
                   PROVE  (\E i \in 1 .. Len(free') : free'[i] = c)
                            <=> (c # b /\ \E i \in 1 .. Len(free) : free[i] = c)
      OBVIOUS
    <3>2. ASSUME NEW i \in 1 .. Len(free'), free'[i] = c
          PROVE  c # b /\ \E k \in 1 .. Len(free) : free[k] = c
      <4>1. i + 1 \in 1 .. Len(free) /\ free[i + 1] = c /\ i + 1 # 1
        BY <2>1, <2>3, <3>2
      <4>2. QED BY <4>1, <2>1 DEF FreeListExact
    <3>3. ASSUME c # b, NEW k \in 1 .. Len(free), free[k] = c
          PROVE  \E i \in 1 .. Len(free') : free'[i] = c
      <4>1. k # 1 BY <2>1, <3>3
      <4>2. k - 1 \in 1 .. Len(free') /\ free'[k - 1] = c
        BY <2>1, <2>3, <3>3, <4>1
      <4>3. QED BY <4>2
    <3>4. QED BY <3>2, <3>3
  <2>6. FreeListExact'
    BY <1>1, <2>1, <2>2, <2>3, <2>4, <2>5 DEF FreeListExact, PoolTypes
  <2>7. PoolTypes' /\ b # NullBlock
    BY <1>1, <2>2, <2>3 DEF PoolTypes
  <2>8. QED BY <2>2, <2>6, <2>7
<1>2. CASE /\ free = <<>> /\ created < MaxBlocks /\ b = Head(Grown)
           /\ free' = Tail(Grown) /\ created' = created + Growth
  <2>1. /\ Growth \in Nat \ {0} /\ created + Growth \in 1 .. MaxBlocks
        /\ created \in 1 .. MaxBlocks
    BY <1>2 DEF Growth, PoolTypes
  <2>2. /\ Grown \in Seq(Block) /\ Len(Grown) = Growth
        /\ \A i \in 1 .. Growth : Grown[i] = created + i - 1
    BY <2>1 DEF Grown
  <2>3. b = created
    BY <1>2, <2>1, <2>2
  <2>4. /\ free' \in Seq(Block) /\ Len(free') = Growth - 1
        /\ \A i \in 1 .. Growth - 1 : free'[i] = created + i
    BY <1>2, <2>1, <2>2
  <2>5. b \notin allocated /\ \A c \in allocated : c < created
    BY <2>3, <2>1 DEF FreeListExact
  <2>6. \A i, j \in 1 .. Len(free') : free'[i] = free'[j] => i = j
    BY <2>1, <2>4
  <2>7. \A c \in Block : ~ (c < created /\ c \notin allocated)
    BY <1>2 DEF FreeListExact
  <2>8. ASSUME NEW c \in Block
        PROVE  (\E i \in 1 .. Len(free') : free'[i] = c)
                 <=> (c < created' /\ c \notin allocated')
    <3>1. ASSUME NEW i \in 1 .. Len(free'), free'[i] = c
          PROVE  c < created' /\ c \notin allocated'
      BY <1>2, <2>1, <2>3, <2>4, <2>5, <3>1 DEF PoolTypes
    <3>2. ASSUME c < created', c \notin allocated'
          PROVE  \E i \in 1 .. Len(free') : free'[i] = c
      <4>1. c \notin allocated /\ c # created
        BY <3>2, <2>3
      <4>2. c > created
        BY <4>1, <2>1, <2>7
      <4>3. c \in Int /\ created \in Int /\ Growth \in Int
        BY <2>1
      <4>4. c < created + Growth
        BY <1>2, <3>2
      <4>5. c - created \in 1 .. Growth - 1
        BY <4>2, <4>3, <4>4
      <4>6. free'[c - created] = created + (c - created)
        BY <2>4, <4>5
      <4>7. QED BY <2>4, <4>3, <4>5, <4>6
    <3>3. QED BY <3>1, <3>2
  <2>9. \A c \in allocated' : c < created'
    BY <1>2, <2>1, <2>3, <2>5 DEF PoolTypes
  <2>10. FreeListExact'
    BY <2>6, <2>8, <2>9 DEF FreeListExact
  <2>11. PoolTypes' /\ b # NullBlock
    BY <2>1, <1>2, <2>3, <2>4, <2>5 DEF PoolTypes
  <2>12. QED BY <2>5, <2>10, <2>11
<1>3. QED BY <1>1, <1>2 DEF TakeFree

\* free_block keeps the free queue exact, whatever id it is given: an id that
\* is not allocated is ignored, so no block is queued twice.
LEMMA FreeBlockFacts ==
  ASSUME PoolTypes, FreeListExact, NEW b, FreeBlock(b)
  PROVE  PoolTypes' /\ FreeListExact'
<1> USE PoolAssumption
<1>1. CASE UNCHANGED <<created, free, allocated>>
  BY <1>1 DEF PoolTypes, FreeListExact
<1>2. CASE /\ b \in allocated \ {NullBlock}
           /\ allocated' = allocated \ {b} /\ free' = Append(free, b)
           /\ UNCHANGED created
  <2>1. /\ b \in Block /\ b < created
        /\ free \in Seq(Block) /\ Len(free) \in Nat /\ Len(free') = Len(free) + 1
        /\ free'[Len(free) + 1] = b
        /\ \A i \in 1 .. Len(free) : free'[i] = free[i]
    BY <1>2 DEF PoolTypes, FreeListExact
  <2>2. \A i \in 1 .. Len(free) : free[i] # b
    BY <1>2, <2>1 DEF FreeListExact
  <2>3. ASSUME NEW i \in 1 .. Len(free'), NEW j \in 1 .. Len(free'),
               free'[i] = free'[j]
        PROVE  i = j
    <3>1. \/ i \in 1 .. Len(free) /\ j \in 1 .. Len(free)
          \/ i = Len(free) + 1 /\ j = Len(free) + 1
      BY <2>1, <2>2, <2>3
    <3>2. QED BY <2>1, <2>3, <3>1 DEF FreeListExact
  <2>4. ASSUME NEW c \in Block
        PROVE  (\E i \in 1 .. Len(free') : free'[i] = c)
                 <=> (c = b \/ \E i \in 1 .. Len(free) : free[i] = c)
    <3>1. ASSUME NEW i \in 1 .. Len(free), free[i] = c
          PROVE  \E j \in 1 .. Len(free') : free'[j] = c
      BY <2>1, <3>1
    <3>2. (Len(free) + 1) \in 1 .. Len(free')
      BY <2>1
    <3>3. ASSUME NEW i \in 1 .. Len(free'), free'[i] = c, c # b
          PROVE  \E j \in 1 .. Len(free) : free[j] = c
      BY <2>1, <3>3
    <3>4. QED BY <2>1, <3>1, <3>2, <3>3
  <2>5. \A c \in allocated' : c < created'
    BY <1>2 DEF FreeListExact
  <2>6. FreeListExact'
    BY <1>2, <2>1, <2>3, <2>4, <2>5 DEF FreeListExact
  <2>7. free' \in Seq(Block)
    BY <1>2, <2>1
  <2>8. QED BY <1>2, <2>6, <2>7 DEF PoolTypes
<1>3. QED BY <1>1, <1>2 DEF FreeBlock, pool

\* A new pool, which __init__ and clear() build, has its blocks in order.
LEMMA EmptyPoolFacts ==
  ASSUME PoolInit
  PROVE  PoolTypes /\ FreeListExact
<1> USE PoolAssumption DEF Block, NullBlock
<1>1. InitialCount \in 1 .. MaxBlocks
  BY DEF InitialCount
<1>2. /\ created = InitialCount /\ allocated = {0}
      /\ free \in Seq(Block) /\ Len(free) = InitialCount - 1
      /\ \A i \in 1 .. InitialCount - 1 : free[i] = i
  BY <1>1 DEF PoolInit, EmptyPool
<1>3. ASSUME NEW c \in Block, c < created, c \notin allocated
      PROVE  \E i \in 1 .. Len(free) : free[i] = c
  <2>1. c \in 1 .. InitialCount - 1
    BY <1>1, <1>2, <1>3
  <2>2. QED BY <1>2, <2>1
<1>4. QED BY <1>1, <1>2, <1>3 DEF PoolTypes, FreeListExact
=============================================================================
