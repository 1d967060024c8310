--------------------------- MODULE PagedCacheProofs --------------------------
(****************************************************************************)
(* The invariants of PagedCache hold for every pool size, growth step, set  *)
(* of hashes and finite set of requests.  IInv is inductive: the counting   *)
(* of references (RefExact) needs the tables to name allocated blocks       *)
(* (NoDangling), which needs freed blocks to be unheld, which is RefExact   *)
(* again; all of them need the free queue to be exact.                      *)
(****************************************************************************)
EXTENDS PagedCache, PoolFacts

IInv ==
  /\ TypeOK
  /\ FreeListExact
  /\ MapSound
  /\ NoDangling
  /\ RefExact
  /\ FreshPrivate

------------------------------------------------------------------------------
\* Holders is a finite set, and changing one request's table changes it by
\* that request at most.
LEMMA HoldersFinite ==
  ASSUME NEW b
  PROVE  IsFiniteSet(Holders(b)) /\ Cardinality(Holders(b)) \in Nat
BY RequestAssumption, FS_Subset, FS_CardinalityType DEF Holders

\* The pool's part of the types.
LEMMA PoolPart == TypeOK <=> TypeOK /\ PoolTypes
BY DEF TypeOK, PoolTypes

------------------------------------------------------------------------------
\* The initial state, and clear(), which rebuilds it.
LEMMA EmptyInv ==
  ASSUME TypeOK, ClearPool, clears' \in Nat,
         held' = [r \in Request |-> {}], fresh' = {}
  PROVE  IInv'
<1> USE PoolAssumption DEF Block, NullBlock
<1>1. InitialCount \in 1 .. MaxBlocks
  BY DEF InitialCount
<1>2. /\ created' = InitialCount /\ allocated' = {0}
      /\ free' \in Seq(Block) /\ Len(free') = InitialCount - 1
      /\ \A i \in 1 .. InitialCount - 1 : free'[i] = i
      /\ ref' = [b \in Block |-> IF b = 0 THEN 1 ELSE 0]
      /\ blockHash' = [b \in Block |-> NoHash]
      /\ hashMap' = [h \in Hash |-> {}]
  BY <1>1 DEF ClearPool, EmptyPool
<1>3. TypeOK'
  BY <1>1, <1>2 DEF TypeOK
<1>4. FreeListExact'
  <2>1. \A i, j \in 1 .. Len(free') : free'[i] = free'[j] => i = j
    BY <1>1, <1>2
  <2>2. ASSUME NEW c \in Block
        PROVE  (\E i \in 1 .. Len(free') : free'[i] = c)
                 <=> (c < created' /\ c \notin allocated')
    <3>1. ASSUME c < created', c \notin allocated'
          PROVE  \E i \in 1 .. Len(free') : free'[i] = c
      <4>1. c \in 1 .. InitialCount - 1
        BY <1>1, <1>2, <3>1
      <4>2. QED BY <1>2, <4>1
    <3>2. QED BY <1>1, <1>2, <3>1
  <2>3. QED BY <1>1, <1>2, <2>1, <2>2 DEF FreeListExact
<1>5. MapSound' /\ NoDangling' /\ RefExact' /\ FreshPrivate'
  BY <1>2 DEF MapSound, NoDangling, RefExact, FreshPrivate
<1>6. QED BY <1>3, <1>4, <1>5 DEF IInv

LEMMA AllocateInv ==
  ASSUME IInv, NEW r \in Request, Allocate(r)
  PROVE  IInv'
<1> USE PoolAssumption, RequestAssumption
<1>1. PICK b \in Block : /\ AllocateBlock(b)
                         /\ held' = [held EXCEPT ![r] = @ \cup {b}]
                         /\ fresh' = fresh \cup {b}
  BY DEF Allocate
<1>2. UNCHANGED clears
  BY DEF Allocate
<1>3. /\ b \notin allocated /\ b # NullBlock
      /\ created' \in 1 .. MaxBlocks /\ free' \in Seq(Block)
      /\ FreeListExact'
  BY <1>1, PoolPart, TakeFreeFacts DEF IInv, AllocateBlock, PoolTypes
<1>4. TypeOK'
  <2>1. hashMap' \in [Hash -> SUBSET Block]
    BY <1>1, UnmappedType DEF IInv, TypeOK, AllocateBlock
  <2>2. blockHash' \in [Block -> Hash \cup {NoHash}]
    BY <1>1 DEF IInv, TypeOK, AllocateBlock
  <2>3. ref' \in [Block -> Int]
    BY <1>1 DEF IInv, TypeOK, AllocateBlock
  <2>4. QED BY <1>1, <1>2, <1>3, <2>1, <2>2, <2>3 DEF IInv, TypeOK, AllocateBlock
<1>5. \A h \in Hash : hashMap'[h] = hashMap[h] /\ b \notin hashMap[h]
  BY <1>1, <1>3 DEF IInv, MapSound, AllocateBlock, Unmapped, TypeOK
<1>6. MapSound'
  BY <1>1, <1>3, <1>5 DEF IInv, MapSound, AllocateBlock, TypeOK
<1>7. NoDangling' /\ FreshPrivate'
  BY <1>1, <1>3, <1>5 DEF IInv, NoDangling, FreshPrivate, AllocateBlock, TypeOK
<1>8. RefExact'
  <2>1. ASSUME NEW c \in allocated' \ {NullBlock}
        PROVE  ref'[c] = Cardinality(Holders(c)')
    <3>1. CASE c = b
      <4>1. Holders(c) = {}
        BY <1>3, <3>1 DEF IInv, NoDangling, Holders
      <4>2. Holders(c)' = {r}
        BY <1>1, <3>1, <4>1 DEF IInv, TypeOK, Holders
      <4>3. QED BY <1>1, <3>1, <4>2, FS_Singleton DEF AllocateBlock, IInv, TypeOK
    <3>2. CASE c # b
      <4>1. Holders(c)' = Holders(c)
        BY <1>1, <3>2 DEF IInv, TypeOK, Holders
      <4>2. QED BY <1>1, <3>2, <4>1 DEF AllocateBlock, IInv, TypeOK, RefExact
    <3>3. QED BY <3>1, <3>2
  <2>2. QED BY <2>1 DEF RefExact
<1>9. QED BY <1>3, <1>4, <1>6, <1>7, <1>8 DEF IInv

LEMMA RegisterInv ==
  ASSUME IInv, NEW r \in Request, Register(r)
  PROVE  IInv'
<1>1. PICK b \in held[r] \cap fresh, h \in Hash :
         RegisterHash(b, h) /\ fresh' = fresh \ {b}
  BY DEF Register
<1>2. UNCHANGED <<created, free, allocated, ref, held, clears>>
  BY <1>1 DEF Register, RegisterHash
<1>3. TypeOK'
  BY <1>1, <1>2 DEF IInv, TypeOK, RegisterHash
<1>4. FreeListExact' /\ NoDangling'
  BY <1>2 DEF IInv, FreeListExact, NoDangling
<1>5. MapSound' /\ FreshPrivate'
  BY <1>1, <1>2 DEF IInv, MapSound, FreshPrivate, RegisterHash, TypeOK
<1>6. RefExact'
  BY <1>2 DEF IInv, RefExact, Holders
<1>7. QED BY <1>3, <1>4, <1>5, <1>6 DEF IInv

LEMMA ShareInv ==
  ASSUME IInv, NEW r \in Request, Share(r)
  PROVE  IInv'
<1>0. PICK h \in Hash : \E b \in hashMap[h] \ held[r] :
         IncrementRef(b) /\ held' = [held EXCEPT ![r] = @ \cup {b}]
  BY DEF Share
<1>1. PICK b \in hashMap[h] \ held[r] :
         IncrementRef(b) /\ held' = [held EXCEPT ![r] = @ \cup {b}]
  BY <1>0
<1>2. UNCHANGED <<created, free, allocated, blockHash, hashMap, fresh, clears>>
  BY <1>1 DEF Share, IncrementRef
<1>3. b \in allocated \ {NullBlock} /\ b \in Block
  BY <1>1 DEF IInv, MapSound, TypeOK
<1>4. ref' = [ref EXCEPT ![b] = @ + 1]
  BY <1>1, <1>3 DEF IncrementRef
<1>5. TypeOK'
  BY <1>1, <1>2, <1>3, <1>4 DEF IInv, TypeOK
<1>6. FreeListExact' /\ MapSound' /\ FreshPrivate'
  BY <1>2 DEF IInv, FreeListExact, MapSound, FreshPrivate
<1>7. NoDangling'
  BY <1>1, <1>2, <1>3 DEF IInv, NoDangling, TypeOK
<1>8. RefExact'
  <2>1. ASSUME NEW c \in allocated' \ {NullBlock}
        PROVE  ref'[c] = Cardinality(Holders(c)')
    <3>1. CASE c = b
      <4>1. r \notin Holders(c) /\ Holders(c)' = Holders(c) \cup {r}
        BY <1>1, <3>1 DEF IInv, TypeOK, Holders
      <4>2. Cardinality(Holders(c)') = Cardinality(Holders(c)) + 1
        BY <4>1, HoldersFinite, CardAdd
      <4>3. QED BY <1>2, <1>3, <1>4, <3>1, <4>2 DEF IInv, RefExact, TypeOK
    <3>2. CASE c # b
      <4>1. Holders(c)' = Holders(c)
        BY <1>1, <3>2 DEF IInv, TypeOK, Holders
      <4>2. QED BY <1>2, <1>4, <3>2, <4>1 DEF IInv, TypeOK, RefExact
    <3>3. QED BY <3>1, <3>2
  <2>2. QED BY <2>1 DEF RefExact
<1>9. QED BY <1>5, <1>6, <1>7, <1>8 DEF IInv

\* The tables after r gives up one block: the holders of that block lose r,
\* those of any other block stay.
LEMMA HoldersWithout ==
  ASSUME TypeOK, NEW r \in Request, NEW b \in held[r],
         held' = [held EXCEPT ![r] = @ \ {b}]
  PROVE  /\ r \in Holders(b) /\ Holders(b)' = Holders(b) \ {r}
         /\ \A c \in Block : c # b => Holders(c)' = Holders(c)
         /\ Cardinality(Holders(b)) \in Nat \ {0}
         /\ Cardinality(Holders(b)') = Cardinality(Holders(b)) - 1
         /\ Cardinality(Holders(b)) = 1 => Holders(b) = {r}
<1>1. r \in Holders(b) /\ Holders(b)' = Holders(b) \ {r}
  BY DEF TypeOK, Holders
<1>2. \A c \in Block : c # b => Holders(c)' = Holders(c)
  BY DEF TypeOK, Holders
<1>3. QED BY <1>1, <1>2, HoldersFinite, CardRemove

LEMMA ForkInv ==
  ASSUME IInv, NEW r \in Request, NEW q \in Request, Fork(r, q)
  PROVE  IInv'
<1>1. /\ held[q] = {} /\ held' = [held EXCEPT ![q] = held[r]]
      /\ ref' = [b \in Block |-> IF b \in held[r] THEN ref[b] + 1 ELSE ref[b]]
      /\ UNCHANGED <<created, free, allocated, blockHash, hashMap, fresh, clears>>
  BY DEF Fork
<1>2. TypeOK'
  BY <1>1 DEF IInv, TypeOK
<1>3. FreeListExact' /\ MapSound' /\ FreshPrivate'
  BY <1>1 DEF IInv, FreeListExact, MapSound, FreshPrivate
<1>4. NoDangling'
  BY <1>1 DEF IInv, NoDangling, TypeOK
<1>5. RefExact'
  <2>1. ASSUME NEW c \in allocated' \ {NullBlock}
        PROVE  ref'[c] = Cardinality(Holders(c)')
    <3>1. c \in Block
      BY <1>1 DEF IInv, TypeOK
    <3>2. CASE c \in held[r]
      <4>1. q \notin Holders(c) /\ Holders(c)' = Holders(c) \cup {q}
        BY <1>1, <3>2 DEF IInv, TypeOK, Holders
      <4>2. Cardinality(Holders(c)') = Cardinality(Holders(c)) + 1
        BY <4>1, HoldersFinite, CardAdd
      <4>3. QED BY <1>1, <3>1, <3>2, <4>2 DEF IInv, RefExact
    <3>3. CASE c \notin held[r]
      <4>1. Holders(c)' = Holders(c)
        BY <1>1, <3>3 DEF IInv, TypeOK, Holders
      <4>2. QED BY <1>1, <3>1, <3>3, <4>1 DEF IInv, RefExact
    <3>4. QED BY <3>2, <3>3
  <2>2. QED BY <2>1 DEF RefExact
<1>6. QED BY <1>2, <1>3, <1>4, <1>5 DEF IInv

LEMMA CopyOnWriteInv ==
  ASSUME IInv, NEW r \in Request, CopyOnWrite(r)
  PROVE  IInv'
<1>0. PICK b \in held[r] : \E n \in Block :
         /\ ref[b] > 1
         /\ CopyBlock(b, n)
         /\ held' = [held EXCEPT ![r] = (@ \ {b}) \cup {n}]
  BY DEF CopyOnWrite
<1>1. PICK n \in Block : /\ CopyBlock(b, n)
                         /\ held' = [held EXCEPT ![r] = (@ \ {b}) \cup {n}]
  BY <1>0
<1>2. UNCHANGED <<fresh, clears>>
  BY DEF CopyOnWrite
<1>3. /\ n \notin allocated /\ n # NullBlock
      /\ created' \in 1 .. MaxBlocks /\ free' \in Seq(Block)
      /\ FreeListExact'
  BY <1>1, PoolPart, TakeFreeFacts DEF IInv, CopyBlock, PoolTypes
<1>4. b \in allocated \ {NullBlock} /\ b # n /\ b \in Block
  BY <1>3 DEF IInv, NoDangling, TypeOK
<1>5. /\ allocated' = allocated \cup {n}
      /\ ref' = [ref EXCEPT ![n] = 1, ![b] = @ - 1]
      /\ blockHash' = [blockHash EXCEPT ![n] = blockHash[b]]
  BY <1>1 DEF CopyBlock
<1>6. \A h \in Hash : hashMap'[h] = hashMap[h] /\ n \notin hashMap[h]
  BY <1>1, <1>3 DEF IInv, MapSound, CopyBlock, Unmapped, TypeOK
<1>7. TypeOK'
  <2>1. hashMap' \in [Hash -> SUBSET Block]
    BY <1>1, UnmappedType DEF IInv, TypeOK, CopyBlock
  <2>2. blockHash' \in [Block -> Hash \cup {NoHash}] /\ ref' \in [Block -> Int]
    BY <1>4, <1>5 DEF IInv, TypeOK
  <2>3. QED BY <1>1, <1>2, <1>3, <1>5, <2>1, <2>2 DEF IInv, TypeOK
<1>8. MapSound'
  BY <1>3, <1>5, <1>6 DEF IInv, MapSound, TypeOK
<1>9. NoDangling' /\ FreshPrivate'
  BY <1>1, <1>2, <1>3, <1>5, <1>6 DEF IInv, NoDangling, FreshPrivate, TypeOK
<1>10. RefExact'
  <2>1. ASSUME NEW c \in allocated' \ {NullBlock}
        PROVE  ref'[c] = Cardinality(Holders(c)')
    <3>1. CASE c = n
      <4>1. Holders(c) = {}
        BY <1>3, <3>1 DEF IInv, NoDangling, Holders
      <4>2. Holders(c)' = {r}
        BY <1>1, <3>1, <4>1 DEF IInv, TypeOK, Holders
      <4>3. ref'[c] = 1
        BY <1>4, <1>5, <3>1 DEF IInv, TypeOK
      <4>4. QED BY <4>2, <4>3, FS_Singleton
    <3>2. CASE c = b
      <4>1. r \in Holders(c) /\ Holders(c)' = Holders(c) \ {r}
        BY <1>1, <1>4, <3>2 DEF IInv, TypeOK, Holders
      <4>2. Cardinality(Holders(c)') = Cardinality(Holders(c)) - 1
        BY <4>1, HoldersFinite, CardRemove
      <4>3. QED BY <1>4, <1>5, <3>2, <4>2 DEF IInv, RefExact, TypeOK
    <3>3. CASE c # n /\ c # b
      <4>1. c \in allocated \ {NullBlock} /\ c \in Block
        BY <1>5, <3>3 DEF IInv, TypeOK
      <4>2. Holders(c)' = Holders(c)
        BY <1>1, <3>3 DEF IInv, TypeOK, Holders
      <4>3. QED BY <1>5, <3>3, <4>1, <4>2 DEF IInv, TypeOK, RefExact
    <3>4. QED BY <3>1, <3>2, <3>3
  <2>2. QED BY <2>1 DEF RefExact
<1>11. QED BY <1>3, <1>7, <1>8, <1>9, <1>10 DEF IInv

LEMMA GiveBackInv ==
  ASSUME IInv, NEW r \in Request, GiveBack(r)
  PROVE  IInv'
<1>1. PICK b \in held[r] : /\ FreeBlock(b)
                           /\ held' = [held EXCEPT ![r] = @ \ {b}]
                           /\ fresh' = fresh \cap allocated'
  BY DEF GiveBack
<1>2. UNCHANGED clears
  BY DEF GiveBack
<1>3. b \in allocated \ {NullBlock} /\ b \in Block /\ ref[b] \in Int
  BY DEF IInv, NoDangling, TypeOK
<1>4. /\ Cardinality(Holders(b)) = ref[b] /\ ref[b] \in Nat \ {0}
      /\ Holders(b)' = Holders(b) \ {r}
      /\ Cardinality(Holders(b)') = ref[b] - 1
      /\ ref[b] = 1 => Holders(b) = {r}
      /\ \A c \in Block : c # b => Holders(c)' = Holders(c)
  BY <1>1, <1>3, HoldersWithout DEF IInv, RefExact
<1>5. CASE ref[b] > 1
  <2>1. /\ ref' = [ref EXCEPT ![b] = @ - 1]
        /\ UNCHANGED <<created, free, allocated, blockHash, hashMap>>
    BY <1>1, <1>3, <1>5 DEF FreeBlock
  <2>2. TypeOK'
    BY <1>1, <1>2, <2>1, <1>3 DEF IInv, TypeOK
  <2>3. FreeListExact' /\ MapSound' /\ FreshPrivate'
    BY <1>1, <2>1 DEF IInv, FreeListExact, MapSound, FreshPrivate
  <2>4. NoDangling'
    BY <1>1, <2>1 DEF IInv, NoDangling, TypeOK
  <2>5. RefExact'
    BY <1>3, <1>4, <2>1 DEF IInv, RefExact, TypeOK
  <2>6. QED BY <2>2, <2>3, <2>4, <2>5 DEF IInv
<1>6. CASE ref[b] = 1
  <2>1. /\ ref' = [ref EXCEPT ![b] = @ - 1]
        /\ hashMap' = Unmapped(blockHash[b], b)
        /\ allocated' = allocated \ {b}
        /\ free' = Append(free, b)
        /\ UNCHANGED <<created, blockHash>>
    BY <1>1, <1>3, <1>6 DEF FreeBlock
  <2>2. TypeOK'
    <3>1. hashMap' \in [Hash -> SUBSET Block]
      BY <2>1, UnmappedType DEF IInv, TypeOK
    <3>2. free' \in Seq(Block)
      BY <1>3, <2>1 DEF IInv, TypeOK
    <3>3. held' \in [Request -> SUBSET Block] /\ ref' \in [Block -> Int]
      BY <1>1, <1>3, <2>1 DEF IInv, TypeOK
    <3>4. QED BY <1>1, <1>2, <1>3, <2>1, <3>1, <3>2, <3>3 DEF IInv, TypeOK
  <2>3. FreeListExact'
    BY <1>1, PoolPart, FreeBlockFacts DEF IInv
  <2>4. \A h \in Hash : hashMap'[h] \subseteq hashMap[h] /\ b \notin hashMap'[h]
    BY <2>1 DEF IInv, MapSound, Unmapped
  <2>5. MapSound' /\ FreshPrivate'
    BY <1>1, <2>1, <2>4 DEF IInv, MapSound, FreshPrivate
  <2>6. NoDangling'
    <3>1. Holders(b)' = {}
      BY <1>4, <1>6
    <3>2. \A q \in Request : b \notin held'[q]
      BY <3>1 DEF Holders
    <3>3. QED BY <1>1, <2>1, <3>2 DEF IInv, NoDangling, TypeOK
  <2>7. RefExact'
    BY <1>3, <1>4, <2>1 DEF IInv, RefExact, TypeOK
  <2>8. QED BY <2>2, <2>3, <2>5, <2>6, <2>7 DEF IInv
<1>7. QED BY <1>4, <1>5, <1>6

LEMMA ReleaseInv ==
  ASSUME IInv, NEW r \in Request, Release(r)
  PROVE  IInv'
<1>1. /\ ReleaseForEviction([b \in Block |-> IF b \in held[r] THEN 1 ELSE 0])
      /\ held' = [held EXCEPT ![r] = {}] /\ fresh' = fresh \ held[r]
      /\ UNCHANGED clears
  BY DEF Release
<1>2. UNCHANGED <<created, free, allocated, blockHash, hashMap>>
  BY <1>1 DEF ReleaseForEviction
<1>3. TypeOK'
  <2>1. ref' \in [Block -> Int]
    BY <1>1 DEF ReleaseForEviction, IInv, TypeOK
  <2>2. QED BY <1>1, <1>2, <2>1 DEF IInv, TypeOK
<1>4. FreeListExact' /\ MapSound' /\ FreshPrivate'
  BY <1>1, <1>2 DEF IInv, FreeListExact, MapSound, FreshPrivate
<1>5. NoDangling'
  BY <1>1, <1>2 DEF IInv, NoDangling, TypeOK
<1>6. RefExact'
  <2>1. ASSUME NEW c \in allocated' \ {NullBlock}
        PROVE  ref'[c] = Cardinality(Holders(c)')
    <3>1. /\ c \in Block /\ c \in allocated \ {NullBlock}
          /\ ref[c] = Cardinality(Holders(c)) /\ ref[c] \in Nat
      BY <1>2, HoldersFinite DEF IInv, TypeOK, RefExact
    <3>2. CASE c \in held[r]
      <4>1. r \in Holders(c) /\ Holders(c)' = Holders(c) \ {r}
        BY <1>1, <3>2 DEF IInv, TypeOK, Holders
      <4>2. ref[c] # 0 /\ Cardinality(Holders(c)') = ref[c] - 1
        BY <3>1, <4>1, HoldersFinite, CardRemove
      <4>3. ref'[c] = IF ref[c] > 1 THEN ref[c] - 1 ELSE IF ref[c] > 0 THEN 0 ELSE ref[c]
        BY <1>1, <3>1, <3>2 DEF ReleaseForEviction
      <4>4. QED BY <3>1, <4>2, <4>3
    <3>3. CASE c \notin held[r]
      <4>1. Holders(c)' = Holders(c)
        BY <1>1, <3>3 DEF IInv, TypeOK, Holders
      <4>2. ref'[c] = IF ref[c] > 0 THEN ref[c] - 0 ELSE IF ref[c] > 0 THEN 0 ELSE ref[c]
        BY <1>1, <3>1, <3>3 DEF ReleaseForEviction
      <4>3. QED BY <3>1, <4>1, <4>2
    <3>4. QED BY <3>2, <3>3
  <2>2. QED BY <2>1 DEF RefExact
<1>7. QED BY <1>3, <1>4, <1>5, <1>6 DEF IInv

LEMMA RestoreInv ==
  ASSUME IInv, Restore
  PROVE  IInv'
<1>1. PICK h \in Hash, b \in Block : RestoreBlock(b, h)
  BY DEF Restore
<1>2. UNCHANGED <<held, fresh, clears>>
  BY DEF Restore
<1>3. /\ b \notin allocated /\ b # NullBlock
      /\ created' \in 1 .. MaxBlocks /\ free' \in Seq(Block)
      /\ FreeListExact'
  BY <1>1, PoolPart, TakeFreeFacts DEF IInv, RestoreBlock, PoolTypes
<1>4. /\ allocated' = allocated \cup {b}
      /\ ref' = [ref EXCEPT ![b] = 0]
      /\ blockHash' = [blockHash EXCEPT ![b] = h]
      /\ hashMap' = [Unmapped(blockHash[b], b) EXCEPT ![h] = @ \cup {b}]
  BY <1>1 DEF RestoreBlock
<1>5. Unmapped(blockHash[b], b) \in [Hash -> SUBSET Block]
  BY UnmappedType DEF IInv, TypeOK
<1>6. TypeOK'
  <2>1. hashMap' \in [Hash -> SUBSET Block]
    BY <1>4, <1>5
  <2>2. blockHash' \in [Block -> Hash \cup {NoHash}] /\ ref' \in [Block -> Int]
    BY <1>4 DEF IInv, TypeOK
  <2>3. QED BY <1>2, <1>3, <1>4, <2>1, <2>2 DEF IInv, TypeOK
<1>7. \A g \in Hash : \A c \in hashMap'[g] : c \in hashMap[g] \/ (c = b /\ g = h)
  BY <1>4 DEF Unmapped
<1>8. \A g \in Hash : b \notin hashMap[g]
  BY <1>3 DEF IInv, MapSound
<1>9. MapSound'
  BY <1>3, <1>4, <1>7, <1>8 DEF IInv, MapSound, TypeOK
<1>10. NoDangling' /\ FreshPrivate'
  BY <1>2, <1>3, <1>4, <1>7 DEF IInv, NoDangling, FreshPrivate
<1>11. RefExact'
  <2>1. Holders(b) = {}
    BY <1>3 DEF IInv, NoDangling, Holders
  <2>2. \A c \in Block : Holders(c)' = Holders(c)
    BY <1>2 DEF Holders
  <2>3. ref'[b] = 0 /\ \A c \in allocated : ref'[c] = ref[c]
    BY <1>3, <1>4 DEF IInv, TypeOK
  <2>4. QED BY <1>4, <2>1, <2>2, <2>3, FS_EmptySet DEF IInv, TypeOK, RefExact
<1>12. QED BY <1>3, <1>6, <1>9, <1>10, <1>11 DEF IInv

LEMMA ForgetInv ==
  ASSUME IInv, NEW r \in Request, Forget(r)
  PROVE  IInv'
<1>1. PICK b \in held[r] : ForgetHash(b)
  BY DEF Forget
<1>2. /\ hashMap' = Unmapped(blockHash[b], b)
      /\ UNCHANGED <<created, free, allocated, ref, blockHash, held, fresh, clears>>
  BY <1>1 DEF Forget, ForgetHash
<1>3. /\ hashMap' \in [Hash -> SUBSET Block]
      /\ \A h \in Hash : hashMap'[h] \subseteq hashMap[h]
  BY <1>2 DEF IInv, TypeOK, Unmapped
<1>4. QED
  BY <1>2, <1>3 DEF IInv, TypeOK, FreeListExact, MapSound, NoDangling, RefExact,
                    FreshPrivate, Holders

------------------------------------------------------------------------------
LEMMA InitInv == Init => IInv
<1> SUFFICES ASSUME Init PROVE IInv
  OBVIOUS
<1> USE PoolAssumption DEF Block, NullBlock
<1>1. InitialCount \in 1 .. MaxBlocks
  BY DEF InitialCount
<1>2. /\ created = InitialCount /\ allocated = {0}
      /\ free \in Seq(Block) /\ Len(free) = InitialCount - 1
      /\ \A i \in 1 .. InitialCount - 1 : free[i] = i
      /\ ref = [b \in Block |-> IF b = 0 THEN 1 ELSE 0]
      /\ blockHash = [b \in Block |-> NoHash]
      /\ hashMap = [h \in Hash |-> {}]
      /\ held = [r \in Request |-> {}] /\ fresh = {} /\ clears = 0
  BY <1>1 DEF Init, PoolInit, EmptyPool
<1>3. TypeOK
  BY <1>1, <1>2 DEF TypeOK
<1>4. FreeListExact
  BY EmptyPoolFacts DEF Init
<1>5. MapSound /\ NoDangling /\ RefExact /\ FreshPrivate
  BY <1>2 DEF MapSound, NoDangling, RefExact, FreshPrivate
<1>6. QED BY <1>3, <1>4, <1>5 DEF IInv

LEMMA NextInv == IInv /\ [Next]_vars => IInv'
<1> SUFFICES ASSUME IInv, [Next]_vars PROVE IInv'
  OBVIOUS
<1>1. ASSUME NEW r \in Request,
             \/ Allocate(r) \/ Register(r) \/ Share(r)
             \/ \E q \in Request : Fork(r, q)
             \/ CopyOnWrite(r) \/ GiveBack(r) \/ Release(r) \/ Forget(r)
      PROVE  IInv'
  BY <1>1, AllocateInv, RegisterInv, ShareInv, ForkInv, CopyOnWriteInv,
     GiveBackInv, ReleaseInv, ForgetInv
<1>2. CASE Restore
  BY <1>2, RestoreInv
<1>3. CASE Clear
  <2>1. TypeOK /\ ClearPool /\ clears' \in Nat
        /\ held' = [r \in Request |-> {}] /\ fresh' = {}
    BY <1>3 DEF Clear, IInv, TypeOK
  <2>2. QED BY <2>1, EmptyInv
<1>4. CASE UNCHANGED vars
  BY <1>4 DEF vars, IInv, TypeOK, FreeListExact, MapSound, NoDangling, RefExact,
              FreshPrivate, Holders
<1>5. QED BY <1>1, <1>2, <1>3, <1>4 DEF Next

LEMMA SpecInv == Spec => []IInv
BY InitInv, NextInv, PTL DEF Spec

\* The variables keep their types and the null block stays reserved.
THEOREM TypeCorrect == Spec => []TypeOK
BY SpecInv, PTL DEF IInv

\* No block is lost from the free queue or handed out twice, whatever the
\* requests do and however often the pool grows.
THEOREM FreeListCorrect == Spec => []FreeListExact
BY SpecInv, PTL DEF IInv

\* Prefix lookup is sound: a block found under a hash is allocated and still
\* carries that hash.
THEOREM LookupCorrect == Spec => []MapSound
BY SpecInv, PTL DEF IInv

\* A block that is still being filled is allocated, is not the null block, and
\* is found by no lookup.
THEOREM FilledPrivately == Spec => []FreshPrivate
BY SpecInv, PTL DEF IInv

\* ref_count is the number of holders, as long as a request references a
\* block in the same step as it finds it.
THEOREM RefCountCorrect == Spec => []RefExact
BY SpecInv, PTL DEF IInv

\* Under the same condition no block table names a block that was freed.
THEOREM NeverDangling == Spec => []NoDangling
BY SpecInv, PTL DEF IInv

\* A block's hash never changes between its registration and its return to
\* the free queue.
THEOREM ContentNeverChanges == Spec => ContentStable
<1> DEFINE Stable == \A b \in (allocated \cap allocated') \ (fresh \cup {NullBlock}) :
                        blockHash'[b] = blockHash[b]
<1>1. ASSUME IInv, Next PROVE Stable
  <2>1. ASSUME NEW r \in Request PROVE Allocate(r) => Stable
    BY <1>1, PoolPart, TakeFreeFacts DEF IInv, Allocate, AllocateBlock, TypeOK
  <2>2. ASSUME NEW r \in Request PROVE Register(r) => Stable
    BY <1>1 DEF IInv, Register, RegisterHash, TypeOK
  <2>3. ASSUME NEW r \in Request, NEW q \in Request PROVE Fork(r, q) => Stable
    BY DEF Fork
  <2>4. ASSUME NEW r \in Request PROVE CopyOnWrite(r) => Stable
    BY <1>1, PoolPart, TakeFreeFacts DEF IInv, CopyOnWrite, CopyBlock, TypeOK
  <2>5. ASSUME NEW r \in Request
        PROVE  Share(r) \/ GiveBack(r) \/ Release(r) \/ Forget(r) => Stable
    BY DEF Share, IncrementRef, GiveBack, FreeBlock, pool, Release,
           ReleaseForEviction, Forget, ForgetHash
  <2>6. Restore => Stable
    BY <1>1, PoolPart, TakeFreeFacts DEF IInv, Restore, RestoreBlock, TypeOK
  <2>7. Clear => Stable
    BY DEF Clear, ClearPool, EmptyPool
  <2>8. QED BY <1>1, <2>1, <2>2, <2>3, <2>4, <2>5, <2>6, <2>7 DEF Next
<1>2. IInv /\ [Next]_vars => [Stable]_vars
  BY <1>1
<1>3. QED BY <1>2, SpecInv, PTL DEF Spec, ContentStable
==============================================================================
