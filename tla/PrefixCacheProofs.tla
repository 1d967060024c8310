--------------------------- MODULE PrefixCacheProofs --------------------------
(****************************************************************************)
(* What PrefixCache guarantees of its calm states (no store overlaps the    *)
(* inference thread, no lookup fell back to the prefix index) holds for     *)
(* every pool size, growth step, set of hashes, finite set of requests and  *)
(* their prompts; the free queue is exact in the other states too.          *)
(*                                                                          *)
(* CInv is inductive among the calm states.  Its parts need each other: a   *)
(* table goes on naming the request's chain (Names) because a block that is *)
(* named is not freed and reused, which is because its count is the number  *)
(* of requests that name it (Counted), which is exact because a table never *)
(* names a block twice, which is because the block carries the chain of its *)
(* position (Names again).  The exception is the block that store_cache has *)
(* allocated and not yet registered: it carries no hash, and no other table *)
(* names it (FreshAlone).                                                   *)
(****************************************************************************)
EXTENDS PrefixCache, PoolFacts, DataFacts

\* The chain a request's sequence makes of its first n blocks.
CH(r, n) == Prefix(Sequence[r], n)

\* The types.  PoolTypes has those of the free queue, which hold in every
\* schedule.
DataTypes ==
  /\ ref \in [Block -> Int]
  /\ blockHash \in [Block -> Hash \cup {NoHash}]
  /\ hashMap \in [Hash -> SUBSET Block]
  /\ overlap \in Schedules
  /\ phase \in [Request -> {"new", "adding", "running", "storing", "stored", "gone"}]
  /\ table \in [Request -> Seq(Block \ {NullBlock})]
  /\ context \in [Request -> Seq(Hash)]
  /\ index \in [Hash -> Seq(Block)]
  /\ ssd \in [Hash -> Hash \cup {NoHash}]
  /\ hits \in Seq(Block)
  /\ k \in Nat
  /\ wblock \in Block
  /\ whash \in Hash \cup {<<>>}
  /\ lost \subseteq Request

\* One thread at a time: the inference thread is between operations whenever
\* a store is queued or under way.
Control ==
  /\ ipc \in {"idle", "lookup", "claim", "append", "load", "drop", "delete"}
  /\ wpc \in {"idle", "parent", "find", "share", "allocate", "register", "save",
              "rollback", "index", "release"}
  /\ ipc # "idle" =>
       /\ ireq \in Request /\ phase[ireq] = "adding"
       /\ queue = <<>> /\ wpc = "idle"
  /\ wpc # "idle" =>
       /\ wreq \in Request /\ phase[wreq] = "storing"
       /\ queue = <<>>
  /\ queue # <<>> => \E r \in Request : queue = <<r>> /\ phase[r] = "storing"
  /\ \A r \in Request :
       /\ phase[r] = "adding" => ipc # "idle" /\ r = ireq
       /\ phase[r] = "storing" => (wpc # "idle" /\ r = wreq) \/ queue = <<r>>
       /\ phase[r] # "stored"
  /\ \A r \in lost : phase[r] = "gone"

\* The positions of r's table whose reference r has not given back.
HeldAt(r) ==
  {i \in 1 .. Len(table[r]) :
     ~ /\ r = ireq
       /\ i < k
       /\ \/ ipc = "delete"
          \/ ipc = "drop" /\ Len(context[r]) < i}

\* The blocks r has a reference on: those, and the hit it has just claimed.
Claimed(r) == IF ipc = "append" /\ r = ireq THEN {hits[k]} ELSE {}
Held(r) == {table[r][i] : i \in HeldAt(r)} \cup Claimed(r)

Active == {r \in Request : phase[r] \in {"adding", "running", "storing"}} \cup lost
Holders(b) == {r \in Active : b \in Held(r)}

\* The block that store_cache has allocated and not registered yet.
Fresh == IF wpc = "register" THEN {wblock} ELSE {}

\* A table names, at each position, a live block that carries the chain of the
\* request's sequence up to there.
Names ==
  \A r \in Active : \A i \in HeldAt(r) :
    /\ table[r][i] \in allocated \ {NullBlock}
    /\ table[r][i] \notin Fresh => blockHash[table[r][i]] = CH(r, i)

\* The exception is found by no lookup and named once, at the end of the table
\* that the store is filing.
FreshAlone ==
  wpc = "register" =>
    /\ \A h \in Hash : wblock \notin hashMap[h]
    /\ \A r \in Active : \A i \in HeldAt(r) :
         table[r][i] = wblock => r = wreq /\ i = Len(table[wreq])

\* A block's count is that of the requests that hold it.
Counted == \A b \in allocated \ {NullBlock} : ref[b] = Cardinality(Holders(b))

\* How far tables and contents reach: within the prompt until the store.
Lengths ==
  \A r \in Request :
    /\ r \in Active => Len(table[r]) <= Len(Sequence[r])
    /\ phase[r] \in {"adding", "running"} => Len(table[r]) <= Len(Prompt[r])
    /\ phase[r] = "running" => Len(context[r]) = Len(table[r])
    /\ phase[r] = "new" => table[r] = <<>> /\ context[r] = <<>>
    /\ Len(context[r]) <= Len(Prompt[r])

\* Where a lookup or a load is: the hits it has found are live blocks of the
\* prompt's chain, and k is the next block to claim, load or give back.
AddingInv ==
  ipc # "idle" =>
    /\ Len(context[ireq]) <= Len(table[ireq])
    /\ ipc = "lookup" => table[ireq] = <<>>
    /\ ipc \in {"lookup", "claim", "append"} =>
         /\ context[ireq] = <<>>
         /\ Len(hits) <= Len(Prompt[ireq])
         /\ \A i \in 1 .. Len(hits) :
              hits[i] \in allocated \ {NullBlock} /\ blockHash[hits[i]] = CH(ireq, i)
    /\ ipc \in {"claim", "append"} =>
         k \in 1 .. Len(hits) /\ Len(table[ireq]) = k - 1
    /\ ipc = "load" =>
         Len(context[ireq]) = IF k <= Len(table[ireq]) THEN k - 1 ELSE Len(table[ireq])
    /\ ipc = "load" => k >= 1
    /\ ipc = "drop" => k \in Len(context[ireq]) + 1 .. Len(table[ireq]) + 1
    /\ ipc = "delete" => k \in 1 .. Len(table[ireq]) + 1

\* Where a store is: whash is the chain of the block being filed, which is the
\* table's next block or, once it is allocated, its last one.
StoringInv ==
  wpc # "idle" =>
    /\ wpc \in {"parent", "find", "share", "allocate"} =>
         Len(table[wreq]) < Len(Sequence[wreq])
    /\ wpc \in {"find", "share", "allocate"} => whash = CH(wreq, Len(table[wreq]) + 1)
    /\ wpc = "share" => wblock \in hashMap[whash]
    /\ wpc \in {"register", "save", "rollback"} =>
         table[wreq] # <<>> /\ wblock = table[wreq][Len(table[wreq])]
    /\ wpc = "register" => whash = CH(wreq, Len(table[wreq]))

\* Each content is the KV of the chain it stands for.
Contents ==
  /\ \A r \in Request : Clean(r)
  /\ \A h \in Hash : ssd[h] \in {NoHash, h}

\* The inductive invariant of the calm states.
CInv ==
  /\ DataTypes /\ Control /\ MapSound
  /\ Names /\ FreshAlone /\ Counted
  /\ Lengths /\ AddingInv /\ StoringInv /\ Contents

IInv == Calm => CInv
------------------------------------------------------------------------------
\* Every step, in every schedule, pops the free queue, frees a block or leaves
\* the free queue alone.
PoolStep ==
  \/ UNCHANGED <<created, free, allocated>>
  \/ \E b \in Block : TakeFree(b) /\ allocated' = allocated \cup {b}
  \/ \E b : FreeBlock(b)

LEMMA PoolSteps == Next => PoolStep
<1>1. ASSUME NEW r \in Request,
             StartLookup(r) \/ Finish(r) \/ FinishNoStore(r) \/ Abort(r) \/ Drain(r)
      PROVE  PoolStep
  BY <1>1 DEF PoolStep, StartLookup, Finish, FinishNoStore, Abort, EndsWithoutStore,
              ReleaseForEviction, Drain, pool
<1>2. ASSUME LookupHit \/ LookupEnd \/ Claim \/ AppendHit \/ LoadBlock \/ LoadFails
             \/ LoadStops \/ DropEnd \/ LoadEnd \/ DeleteEnd
      PROVE  PoolStep
  BY <1>2 DEF PoolStep, LookupHit, LookupEnd, Claim, IncrementRef, AppendHit, LoadBlock,
              LoadFails, ForgetHash, LoadStops, DropEnd, LoadEnd, DeleteEnd, pool
<1>3. CASE LookupRestore
  BY <1>3 DEF PoolStep, LookupRestore, RestoreBlock
<1>4. ASSUME DropBlock \/ DeleteBlock \/ WRollback
      PROVE  PoolStep
  BY <1>4 DEF PoolStep, DropBlock, DeleteBlock, WRollback
<1>5. CASE WAllocate
  BY <1>5 DEF PoolStep, WAllocate, AllocateBlock, pool
<1>6. ASSUME StoreBegin \/ WParent \/ WFind \/ WShare \/ WRegister \/ WSave
             \/ WSaveFails \/ WRaises \/ WIndex \/ WRelease
      PROVE  PoolStep
  BY <1>6 DEF PoolStep, StoreBegin, WParent, WFind, WShare, IncrementRef, WRegister,
              RegisterHash, WSave, WSaveFails, WRaises, WIndex, WRelease,
              ReleaseForEviction, pool
<1>7. ASSUME FailAll \/ SSDEvict \/ Terminated
      PROVE  PoolStep
  BY <1>7 DEF PoolStep, FailAll, SSDEvict, Terminated, vars, pool
<1>8. CASE Adding
  BY <1>2, <1>3, <1>4, <1>8 DEF Adding
<1>9. CASE Storing
  BY <1>4, <1>5, <1>6, <1>9 DEF Storing
<1>10. QED BY <1>1, <1>7, <1>8, <1>9 DEF Next

\* The free queue is exact in every schedule.
PInv == PoolTypes /\ FreeListExact

LEMMA PoolInv == PInv /\ [Next]_vars => PInv'
<1> SUFFICES ASSUME PInv, [Next]_vars PROVE PInv'
  OBVIOUS
<1>1. CASE UNCHANGED <<created, free, allocated>>
  BY <1>1 DEF PInv, PoolTypes, FreeListExact
<1>2. ASSUME NEW b \in Block, TakeFree(b), allocated' = allocated \cup {b}
      PROVE  PInv'
  BY <1>2, TakeFreeFacts DEF PInv
<1>3. ASSUME NEW b, FreeBlock(b) PROVE PInv'
  BY <1>3, FreeBlockFacts DEF PInv
<1>4. CASE UNCHANGED vars
  BY <1>4, <1>1 DEF vars, pool
<1>5. QED BY <1>1, <1>2, <1>3, <1>4, PoolSteps DEF PoolStep

\* No block is lost and none is handed out twice, in every schedule: with
\* stores that overlap lookups and with the index fallback too.
THEOREM FreeListCorrect == Spec => []FreeListExact
<1>1. Init => PInv
  BY EmptyPoolFacts DEF Init, PInv
<1>2. PInv => FreeListExact
  BY DEF PInv
<1>3. QED BY <1>1, <1>2, PoolInv, PTL DEF Spec

------------------------------------------------------------------------------
\* The chains of a sequence: their lengths, their hashes, how the next one is
\* computed, and that those of a prompt are those of its sequence.
LEMMA EmptyIsSeq ==
  ASSUME NEW S, NEW s, s = <<>>
  PROVE  s \in Seq(S)
OBVIOUS

LEMMA PrefixFacts ==
  ASSUME NEW S, NEW s \in Seq(S), NEW n \in 0 .. Len(s)
  PROVE  /\ Prefix(s, n) \in Seq(S) /\ Len(Prefix(s, n)) = n
         /\ \A i \in 1 .. n : Prefix(s, n)[i] = s[i]
BY SubSeqProperties DEF Prefix

LEMMA ChainFacts ==
  ASSUME NEW r \in Request
  PROVE  /\ Len(Sequence[r]) \in Nat /\ Len(Prompt[r]) \in 0 .. Len(Sequence[r])
         /\ \A n \in 1 .. Len(Sequence[r]) : CH(r, n) \in Hash /\ CH(r, n) # NoHash
         /\ \A m, n \in 0 .. Len(Sequence[r]) : CH(r, m) = CH(r, n) => m = n
         /\ \A n \in 0 .. Len(Prompt[r]) : Prefix(Prompt[r], n) = CH(r, n)
         /\ CH(r, 0) = <<>>
         /\ \A n \in 0 .. Len(Sequence[r]) - 1 :
              ChainHash(CH(r, n), Sequence[r][n + 1]) = CH(r, n + 1)
<1> DEFINE T == UNION {Range(h) : h \in Hash}
           s == Sequence[r]
           p == Prompt[r]
<1>1. /\ s \in Seq(T) /\ Len(s) \in Nat
      /\ Len(p) \in 0 .. Len(s) /\ p = Prefix(s, Len(p))
      /\ \A n \in 1 .. Len(s) : Prefix(s, n) \in Hash
  <2>1. /\ s \in Seq(T) /\ Len(p) \in 0 .. Len(s)
        /\ p = SubSeq(s, 1, Len(p))
        /\ \A n \in 1 .. Len(s) : SubSeq(s, 1, n) \in Hash
    BY PrefixAssumption
  <2> HIDE DEF T, s, p
  <2>2. Len(s) \in Nat
    BY <2>1
  <2>3. QED BY <2>1, <2>2 DEF Prefix
<1> HIDE DEF T, s, p
<1>2. \A n \in 0 .. Len(s) : /\ Prefix(s, n) \in Seq(T) /\ Len(Prefix(s, n)) = n
                             /\ \A i \in 1 .. n : Prefix(s, n)[i] = s[i]
  BY <1>1, PrefixFacts
<1>3. ASSUME NEW n \in 0 .. Len(p)
      PROVE  Prefix(p, n) = Prefix(s, n)
  <2>1. p \in Seq(T) /\ n \in 0 .. Len(s)
    BY <1>1, <1>2
  <2>2. /\ Prefix(p, n) \in Seq(T) /\ Len(Prefix(p, n)) = n
        /\ \A i \in 1 .. n : Prefix(p, n)[i] = p[i]
    BY <2>1, PrefixFacts
  <2>3. \A i \in 1 .. n : p[i] = s[i]
    BY <1>1, <1>2
  <2>4. Prefix(s, n) \in Seq(T) /\ Len(Prefix(s, n)) = n
        /\ \A i \in 1 .. n : Prefix(p, n)[i] = Prefix(s, n)[i]
    BY <1>2, <2>1, <2>2, <2>3
  <2> DEFINE a == Prefix(p, n)
             b == Prefix(s, n)
  <2> HIDE DEF a, b
  <2>5. /\ a \in Seq(T) /\ b \in Seq(T) /\ Len(a) = Len(b)
        /\ \A i \in 1 .. Len(a) : a[i] = b[i]
    BY <2>2, <2>4 DEF a, b
  <2>6. a = b
    BY <2>5, SeqEqual
  <2>7. QED BY <2>6 DEF a, b
<1>4. ASSUME NEW n \in 0 .. Len(s) - 1
      PROVE  Append(Prefix(s, n), s[n + 1]) = Prefix(s, n + 1)
  <2> DEFINE a == Prefix(s, n)
             b == Prefix(s, n + 1)
             c == Append(a, s[n + 1])
  <2>1. n \in 0 .. Len(s) /\ n + 1 \in 0 .. Len(s) /\ n \in Nat /\ n + 1 \in 1 .. Len(s)
    BY <1>1
  <2>2. /\ a \in Seq(T) /\ Len(a) = n /\ \A i \in 1 .. n : a[i] = s[i]
        /\ b \in Seq(T) /\ Len(b) = n + 1 /\ \A i \in 1 .. n + 1 : b[i] = s[i]
    BY <1>2, <2>1
  <2> HIDE DEF a, b
  <2>3. s[n + 1] \in T
    BY <1>1, <2>1
  <2>4. /\ c \in Seq(T) /\ Len(c) = n + 1 /\ c[n + 1] = s[n + 1]
        /\ \A i \in 1 .. n : c[i] = a[i]
    BY <2>1, <2>2, <2>3, AppendProperties
  <2> HIDE DEF c
  <2>5. \A i \in 1 .. Len(c) : c[i] = b[i]
    BY <2>1, <2>2, <2>4
  <2>6. c = b
    BY <2>2, <2>4, <2>5, SeqEqual
  <2>7. QED BY <2>6 DEF a, b, c
<1>5. Prefix(s, 0) = <<>>
  BY <1>1, <1>2, EmptySeq
<1>6. \A n \in 1 .. Len(s) : Prefix(s, n) \in Hash /\ Prefix(s, n) # NoHash
  BY <1>1, PoolAssumption
<1>7. \A m, n \in 0 .. Len(s) : Prefix(s, m) = Prefix(s, n) => m = n
  BY <1>2
<1>8. QED BY <1>1, <1>3, <1>4, <1>5, <1>6, <1>7 DEF CH, s, p, ChainHash

------------------------------------------------------------------------------
\* The references of the requests.

LEMMA HoldersFinite ==
  ASSUME DataTypes, NEW b
  PROVE  /\ Active \subseteq Request
         /\ IsFiniteSet(Holders(b)) /\ Cardinality(Holders(b)) \in Nat
<1>1. Active \subseteq Request /\ Holders(b) \subseteq Request
  BY DEF DataTypes, Active, Holders
<1>2. QED
  BY <1>1, PrefixAssumption, FS_Subset, FS_CardinalityType

\* A table names each of its blocks once: their hashes have different lengths.
LEMMA NamedOnce ==
  ASSUME DataTypes, Names, FreshAlone, Lengths, NEW r \in Active,
         NEW i \in HeldAt(r), NEW j \in HeldAt(r), table[r][i] = table[r][j]
  PROVE  i = j
<1>1. /\ r \in Request /\ i \in 1 .. Len(table[r]) /\ j \in 1 .. Len(table[r])
      /\ Len(table[r]) \in Nat /\ Len(table[r]) <= Len(Sequence[r])
  BY DEF DataTypes, Active, HeldAt, Lengths
<1>2. CASE table[r][i] \in Fresh
  BY <1>2 DEF Fresh, FreshAlone
<1>3. CASE table[r][i] \notin Fresh
  <2>1. CH(r, i) = CH(r, j)
    BY <1>3 DEF Names
  <2>2. QED BY <1>1, <2>1, ChainFacts
<1>4. QED BY <1>2, <1>3

\* A step that changes no reference and no table keeps what tables say.
LEMMA Quiet ==
  ASSUME Names, Counted,
         UNCHANGED <<allocated, ref, blockHash>>,
         Fresh = {}, Fresh' = {}, wpc' # "register",
         Active' = Active,
         \A r \in Active : /\ HeldAt(r)' = HeldAt(r) /\ Claimed(r)' = Claimed(r)
                           /\ \A i \in HeldAt(r) : table'[r][i] = table[r][i]
  PROVE  Names' /\ FreshAlone' /\ Counted'
<1>1. Names'
  BY DEF Names
<1>2. FreshAlone'
  BY DEF FreshAlone
<1>3. ASSUME NEW b \in allocated \ {NullBlock}
      PROVE  Holders(b)' = Holders(b)
  BY DEF Holders, Held
<1>4. Counted'
  BY <1>3 DEF Counted
<1>5. QED BY <1>1, <1>2, <1>4

\* r takes a reference on a block it does not hold.
LEMMA TakeOn ==
  ASSUME PoolTypes, DataTypes, Counted,
         NEW r \in Active, NEW b \in allocated \ {NullBlock}, b \notin Held(r),
         IncrementRef(b), Active' = Active,
         Held(r)' = Held(r) \cup {b},
         \A q \in Active \ {r} : Held(q)' = Held(q)
  PROVE  Counted' /\ ref' \in [Block -> Int]
<1>1. ref' = [ref EXCEPT ![b] = @ + 1] /\ allocated' = allocated
  BY DEF IncrementRef
<1>2. ref \in [Block -> Int] /\ b \in Block /\ allocated \subseteq Block
  BY DEF DataTypes, PoolTypes
<1>3. ASSUME NEW c \in allocated' \ {NullBlock}
      PROVE  ref'[c] = Cardinality(Holders(c)')
  <2>1. CASE c = b
    <3>1. r \notin Holders(c) /\ Holders(c)' = Holders(c) \cup {r}
      BY <2>1 DEF Holders
    <3>2. Cardinality(Holders(c)') = Cardinality(Holders(c)) + 1
      BY <3>1, HoldersFinite, CardAdd
    <3>3. QED BY <1>1, <1>2, <2>1, <3>2 DEF Counted
  <2>2. CASE c # b
    <3>1. Holders(c)' = Holders(c)
      BY <2>2 DEF Holders
    <3>2. QED BY <1>1, <1>2, <1>3, <2>2, <3>1 DEF Counted
  <2>3. QED BY <2>1, <2>2
<1>4. QED BY <1>1, <1>2, <1>3 DEF Counted

\* r gives a reference back.  If it was the last, no other table names the
\* block: that is what the counting is for.
LEMMA GiveUp ==
  ASSUME PoolTypes, DataTypes, MapSound, Names, Counted,
         NEW r \in Active, NEW b \in Held(r) \cap (allocated \ {NullBlock}), FreeBlock(b),
         Active' = Active, Fresh = {}, Fresh' = {}, wpc' # "register",
         Held(r)' = Held(r) \ {b},
         \A q \in Active \ {r} : Held(q)' = Held(q),
         \A q \in Active : \A i \in HeldAt(q)' : i \in HeldAt(q) /\ table'[q][i] = table[q][i]
  PROVE  /\ Names' /\ FreshAlone' /\ Counted' /\ MapSound'
         /\ ref' \in [Block -> Int] /\ hashMap' \in [Hash -> SUBSET Block]
         /\ blockHash' = blockHash
<1>1. /\ b \in Block /\ ref \in [Block -> Int] /\ allocated \subseteq Block
      /\ hashMap \in [Hash -> SUBSET Block]
  BY DEF PoolTypes, DataTypes
<1>2. /\ ref[b] = Cardinality(Holders(b)) /\ IsFiniteSet(Holders(b))
      /\ r \in Holders(b) /\ Holders(b)' = Holders(b) \ {r}
  BY HoldersFinite DEF Counted, Holders
<1>3. /\ ref[b] \in Nat \ {0} /\ Cardinality(Holders(b)') = ref[b] - 1
      /\ ref[b] = 1 => Holders(b)' = {}
  BY <1>2, CardRemove
<1>4. ASSUME NEW c, c # b
      PROVE  Holders(c)' = Holders(c)
  BY <1>4 DEF Holders
<1>5. /\ ref' = [ref EXCEPT ![b] = @ - 1] /\ blockHash' = blockHash
      /\ allocated' = IF ref[b] > 1 THEN allocated ELSE allocated \ {b}
      /\ hashMap' = IF ref[b] > 1 THEN hashMap ELSE Unmapped(blockHash[b], b)
  BY <1>1, <1>3 DEF FreeBlock
<1>6. Counted'
  <2>1. ASSUME NEW c \in allocated' \ {NullBlock}
        PROVE  ref'[c] = Cardinality(Holders(c)')
    <3>1. CASE c = b
      BY <1>1, <1>3, <1>5, <3>1
    <3>2. CASE c # b
      <4>1. c \in allocated \ {NullBlock} /\ c \in Block
        BY <1>1, <1>5
      <4>2. QED BY <1>1, <1>4, <1>5, <3>2, <4>1 DEF Counted
    <3>3. QED BY <3>1, <3>2
  <2>2. QED BY <2>1 DEF Counted
<1>7. Names'
  <2>1. ASSUME NEW q \in Active, NEW i \in HeldAt(q)'
        PROVE  /\ table'[q][i] \in allocated' \ {NullBlock}
               /\ blockHash'[table'[q][i]] = CH(q, i)
    <3> DEFINE c == table[q][i]
    <3>1. /\ i \in HeldAt(q) /\ table'[q][i] = c
          /\ c \in allocated \ {NullBlock} /\ blockHash[c] = CH(q, i)
      BY <2>1 DEF Names
    <3>2. table'[q][i] \in Held(q)'
      BY <2>1 DEF Held
    <3>3. q \in Holders(c)'
      BY <3>1, <3>2 DEF Holders
    <3>4. c \in allocated'
      <4>1. CASE c = b
        BY <1>3, <1>5, <3>1, <3>3, <4>1
      <4>2. CASE c # b
        BY <1>5, <3>1, <4>2
      <4>3. QED BY <4>1, <4>2
    <3>5. QED BY <1>5, <3>1, <3>4
  <2>2. QED BY <2>1 DEF Names
<1>8. /\ hashMap' \in [Hash -> SUBSET Block]
      /\ \A h \in Hash : /\ hashMap'[h] \subseteq hashMap[h]
                         /\ b \in hashMap'[h] => ref[b] > 1
  BY <1>1, <1>5, UnmappedType DEF Unmapped, MapSound
<1>9. MapSound'
  BY <1>5, <1>8 DEF MapSound
<1>10. ref' \in [Block -> Int]
  BY <1>1, <1>5
<1>11. FreshAlone'
  BY DEF FreshAlone
<1>12. QED BY <1>5, <1>6, <1>7, <1>8, <1>9, <1>10, <1>11

\* release_for_eviction of r's whole table, which names each block once.
LEMMA LetGo ==
  ASSUME PoolTypes, DataTypes, Names, FreshAlone, Lengths, Counted,
         NEW r \in Active, ReleaseForEviction(Occurrences(table[r])),
         HeldAt(r) = 1 .. Len(table[r]), Claimed(r) = {},
         Active' = Active \ {r},
         \A q \in Active \ {r} : Held(q)' = Held(q)
  PROVE  Counted' /\ ref' \in [Block -> Int]
<1>1. /\ r \in Request /\ table[r] \in Seq(Block \ {NullBlock}) /\ Len(table[r]) \in Nat
      /\ ref \in [Block -> Int] /\ allocated' = allocated /\ allocated \subseteq Block
  BY DEF DataTypes, PoolTypes, Active, ReleaseForEviction
<1> DEFINE times == Occurrences(table[r])
<1>2. ASSUME NEW c \in Block
      PROVE  times[c] = IF c \in Held(r) THEN 1 ELSE 0
  <2> DEFINE at == {i \in 1 .. Len(table[r]) : table[r][i] = c}
  <2>1. times[c] = Cardinality(at)
    BY DEF Occurrences
  <2>2. CASE c \notin Held(r)
    <3>1. at = {}
      BY <2>2 DEF Held
    <3>2. QED BY <2>1, <2>2, <3>1, FS_EmptySet
  <2>3. CASE c \in Held(r)
    <3>1. PICK i \in HeldAt(r) : table[r][i] = c
      BY <2>3 DEF Held
    <3>2. at = {i}
      BY <3>1, NamedOnce
    <3>3. QED BY <2>1, <2>3, <3>2, FS_Singleton
  <2>4. QED BY <2>2, <2>3
<1>3. ref' = [c \in Block |->
               IF c \in allocated \ {NullBlock}
               THEN IF ref[c] > times[c] THEN ref[c] - times[c]
                    ELSE IF ref[c] > 0 THEN 0 ELSE ref[c]
               ELSE ref[c]]
  BY DEF ReleaseForEviction
<1> HIDE DEF times
<1>4. ref' \in [Block -> Int]
  BY <1>1, <1>2, <1>3
<1>5. ASSUME NEW c \in allocated' \ {NullBlock}
      PROVE  ref'[c] = Cardinality(Holders(c)')
  <2>1. /\ c \in Block /\ c \in allocated \ {NullBlock}
        /\ ref[c] = Cardinality(Holders(c)) /\ ref[c] \in Nat
        /\ IsFiniteSet(Holders(c))
    BY <1>1, HoldersFinite DEF Counted
  <2>5. Holders(c)' = Holders(c) \ {r}
    BY DEF Holders
  <2>2. CASE c \in Held(r)
    <3>1. r \in Holders(c)
      BY <2>2 DEF Holders
    <3>2. ref[c] # 0 /\ Cardinality(Holders(c)') = ref[c] - 1
      BY <2>1, <2>5, <3>1, CardRemove
    <3>3. times[c] = 1
      BY <1>2, <2>1, <2>2
    <3>4. QED BY <1>3, <2>1, <3>2, <3>3
  <2>3. CASE c \notin Held(r)
    <3>1. Holders(c)' = Holders(c)
      BY <2>5, <2>3 DEF Holders
    <3>2. times[c] = 0
      BY <1>2, <2>1, <2>3
    <3>3. ref'[c] = IF ref[c] > 0 THEN ref[c] - 0 ELSE IF ref[c] > 0 THEN 0 ELSE ref[c]
      BY <1>3, <2>1, <3>2
    <3>4. QED BY <2>1, <3>1, <3>3
  <2>4. QED BY <2>2, <2>3
<1>6. QED BY <1>4, <1>5 DEF Counted

------------------------------------------------------------------------------
\* The inference thread's steps.

LEMMA StartLookupInv ==
  ASSUME CInv, Calm, NEW r \in Request, StartLookup(r)
  PROVE  CInv'
<1>1. /\ ipc = "idle" /\ queue = <<>> /\ wpc = "idle" /\ phase[r] = "new"
      /\ phase' = [phase EXCEPT ![r] = "adding"]
      /\ ipc' = "lookup" /\ ireq' = r /\ hits' = <<>> /\ k' = 0
      /\ UNCHANGED <<created, free, allocated, ref, blockHash, hashMap, bounds, table,
                     context, index, ssd, worker, fellBack, lost>>
  BY DEF StartLookup, Idle, Calm, pool
<1>2. /\ UNCHANGED <<overlap, queue, wpc, wreq, wblock, whash>>
  BY <1>1 DEF bounds, worker
<1>3. DataTypes /\ Control /\ MapSound /\ Names /\ FreshAlone /\ Counted
      /\ Lengths /\ AddingInv /\ StoringInv /\ Contents
  BY DEF CInv
<1>4. table[r] = <<>> /\ context[r] = <<>> /\ r \notin Active
  BY <1>1, <1>3 DEF Lengths, Active, Control
<1>5. DataTypes'
  BY <1>1, <1>2, <1>3 DEF DataTypes
<1>6. Control'
  BY <1>1, <1>2, <1>3 DEF Control, DataTypes
<1>7. Active' = Active \cup {r}
  BY <1>1, <1>3 DEF Active, DataTypes
<1>8. \A q \in Active : HeldAt(q)' = HeldAt(q) /\ Claimed(q)' = Claimed(q) /\ Held(q)' = Held(q)
  BY <1>1 DEF HeldAt, Claimed, Held
<1>9. HeldAt(r)' = {} /\ Held(r)' = {}
  BY <1>1, <1>4 DEF HeldAt, Claimed, Held
<1>10. Names' /\ FreshAlone'
  BY <1>1, <1>2, <1>3, <1>7, <1>8, <1>9 DEF Names, FreshAlone, Fresh
<1>11. Counted'
  <2>1. \A b : Holders(b)' = Holders(b)
    BY <1>4, <1>7, <1>8, <1>9 DEF Holders
  <2>2. QED BY <1>1, <1>3, <2>1 DEF Counted
<1>12. MapSound' /\ Contents'
  BY <1>1, <1>3 DEF MapSound, Contents, Clean
<1>13. Lengths'
  BY <1>1, <1>3, <1>4, <1>7, ChainFacts DEF Lengths, DataTypes
<1>14. AddingInv' /\ StoringInv'
  BY <1>1, <1>2, <1>4, ChainFacts DEF AddingInv, StoringInv
<1>15. QED
  BY <1>5, <1>6, <1>10, <1>11, <1>12, <1>13, <1>14 DEF CInv

\* What the steps of a lookup or a load have in common.
LEMMA AddingFacts ==
  ASSUME CInv, ipc # "idle"
  PROVE  /\ ireq \in Request /\ ireq \in Active /\ phase[ireq] = "adding" /\ ireq \notin lost
         /\ queue = <<>> /\ wpc = "idle" /\ Fresh = {}
         /\ \A q \in Request : q # ireq => HeldAt(q) = 1 .. Len(table[q]) /\ Claimed(q) = {}
         /\ table[ireq] \in Seq(Block \ {NullBlock}) /\ Len(table[ireq]) \in Nat
         /\ context[ireq] \in Seq(Hash) /\ Len(context[ireq]) \in Nat
         /\ Len(table[ireq]) <= Len(Prompt[ireq])
         /\ k \in Nat /\ hits \in Seq(Block) /\ Len(hits) \in Nat
         /\ Len(Prompt[ireq]) \in Nat
<1>1. DataTypes /\ Control /\ Lengths
  BY DEF CInv
<1>2. /\ ireq \in Request /\ phase[ireq] = "adding" /\ queue = <<>> /\ wpc = "idle"
      /\ ireq \notin lost
  BY <1>1 DEF Control
<1>3. ireq \in Active /\ Fresh = {}
  BY <1>2 DEF Active, Fresh
<1>4. \A q \in Request : q # ireq => HeldAt(q) = 1 .. Len(table[q]) /\ Claimed(q) = {}
  BY DEF HeldAt, Claimed
<1>5. /\ table[ireq] \in Seq(Block \ {NullBlock}) /\ context[ireq] \in Seq(Hash)
      /\ k \in Nat /\ hits \in Seq(Block)
  BY <1>1, <1>2 DEF DataTypes
<1>6. Len(table[ireq]) <= Len(Prompt[ireq]) /\ Len(Prompt[ireq]) \in Nat
  BY <1>1, <1>2, ChainFacts DEF Lengths
<1>7. Len(table[ireq]) \in Nat /\ Len(context[ireq]) \in Nat /\ Len(hits) \in Nat
  BY <1>5
<1>8. QED BY <1>2, <1>3, <1>4, <1>5, <1>6, <1>7

LEMMA LookupHitInv ==
  ASSUME CInv, LookupHit
  PROVE  CInv'
<1>1. /\ ipc = "lookup" /\ Len(hits) < Len(Prompt[ireq])
      /\ \E b \in hashMap[WantedHash] : hits' = Append(hits, b)
      /\ UNCHANGED <<created, free, allocated, ref, blockHash, hashMap, overlap, phase,
                     table, context, index, ssd, ipc, ireq, k, queue, wpc, wreq, wblock,
                     whash, fellBack, lost>>
  BY DEF LookupHit, Wanted, pool, bounds, worker
<1>2. PICK b \in hashMap[WantedHash] : hits' = Append(hits, b)
  BY <1>1
<1>3. DataTypes /\ Control /\ MapSound /\ Names /\ FreshAlone /\ Counted
      /\ Lengths /\ AddingInv /\ StoringInv /\ Contents
  BY DEF CInv
<1>4. ireq \in Request /\ hits \in Seq(Block) /\ Len(hits) \in Nat /\ Fresh = {} /\ wpc = "idle"
      /\ Len(Prompt[ireq]) \in 0 .. Len(Sequence[ireq])
  BY <1>1, AddingFacts, ChainFacts
<1>5. WantedHash = CH(ireq, Len(hits) + 1) /\ WantedHash \in Hash
  BY <1>1, <1>4, ChainFacts DEF WantedHash
<1>6. b \in allocated \ {NullBlock} /\ blockHash[b] = CH(ireq, Len(hits) + 1) /\ b \in Block
  BY <1>2, <1>3, <1>5 DEF MapSound, DataTypes
<1>7. /\ hits' \in Seq(Block) /\ Len(hits') = Len(hits) + 1 /\ hits'[Len(hits) + 1] = b
      /\ \A i \in 1 .. Len(hits) : hits'[i] = hits[i]
  BY <1>2, <1>4, <1>6, AppendProperties
<1>8. DataTypes'
  BY <1>1, <1>3, <1>7 DEF DataTypes
<1>9. Control' /\ MapSound' /\ Contents' /\ Lengths' /\ StoringInv'
  BY <1>1, <1>3 DEF Control, MapSound, Contents, Clean, Lengths, StoringInv, Active
<1>10. Names' /\ FreshAlone' /\ Counted'
  <2>1. Active' = Active /\ Fresh' = {}
    BY <1>1, <1>4 DEF Active, Fresh
  <2>2. \A r \in Active : /\ HeldAt(r)' = HeldAt(r) /\ Claimed(r)' = Claimed(r)
                          /\ \A i \in HeldAt(r) : table'[r][i] = table[r][i]
    BY <1>1 DEF HeldAt, Claimed
  <2>3. QED BY <1>1, <1>3, <1>4, <2>1, <2>2, Quiet
<1>11. AddingInv'
  <2>1. ASSUME NEW i \in 1 .. Len(hits')
        PROVE  hits'[i] \in allocated \ {NullBlock} /\ blockHash[hits'[i]] = CH(ireq, i)
    <3>1. i \in 1 .. Len(hits) \/ i = Len(hits) + 1
      BY <1>4, <1>7
    <3>2. QED BY <1>1, <1>3, <1>6, <1>7, <3>1 DEF AddingInv
  <2>2. Len(hits') <= Len(Prompt[ireq])
    BY <1>1, <1>4, <1>7
  <2>3. QED BY <1>1, <1>3, <2>1, <2>2 DEF AddingInv
<1>12. QED BY <1>8, <1>9, <1>10, <1>11 DEF CInv

LEMMA LookupRestoreInv ==
  ASSUME PInv, CInv, LookupRestore
  PROVE  CInv'
<1>1. /\ ipc = "lookup" /\ Len(hits) < Len(Prompt[ireq])
      /\ \E b \in Block : RestoreBlock(b, WantedHash) /\ hits' = Append(hits, b)
      /\ UNCHANGED <<overlap, phase, table, context, index, ssd, ipc, ireq, k, queue, wpc,
                     wreq, wblock, whash, fellBack, lost>>
  BY DEF LookupRestore, Wanted, bounds, worker
<1>2. PICK b \in Block : RestoreBlock(b, WantedHash) /\ hits' = Append(hits, b)
  BY <1>1
<1>3. DataTypes /\ Control /\ MapSound /\ Names /\ FreshAlone /\ Counted
      /\ Lengths /\ AddingInv /\ StoringInv /\ Contents
  BY DEF CInv
<1>4. /\ ireq \in Request /\ hits \in Seq(Block) /\ Len(hits) \in Nat /\ Fresh = {}
      /\ wpc = "idle" /\ Len(Prompt[ireq]) \in 0 .. Len(Sequence[ireq])
  BY <1>1, AddingFacts, ChainFacts
<1> DEFINE h == CH(ireq, Len(hits) + 1)
<1>5. WantedHash = h /\ h \in Hash
  BY <1>1, <1>4, ChainFacts DEF WantedHash
<1> HIDE DEF h
<1>6. /\ TakeFree(b) /\ allocated' = allocated \cup {b}
      /\ ref' = [ref EXCEPT ![b] = 0]
      /\ blockHash' = [blockHash EXCEPT ![b] = h]
      /\ hashMap' = [Unmapped(blockHash[b], b) EXCEPT ![h] = @ \cup {b}]
  BY <1>2, <1>5 DEF RestoreBlock
<1>7. b \notin allocated /\ b # NullBlock /\ allocated \subseteq Block
  BY <1>6, TakeFreeFacts DEF PInv, PoolTypes
<1>8. /\ hits' \in Seq(Block) /\ Len(hits') = Len(hits) + 1 /\ hits'[Len(hits) + 1] = b
      /\ \A i \in 1 .. Len(hits) : hits'[i] = hits[i]
  BY <1>2, <1>4, AppendProperties
<1>9. /\ blockHash \in [Block -> Hash \cup {NoHash}] /\ ref \in [Block -> Int]
      /\ hashMap \in [Hash -> SUBSET Block]
  BY <1>3 DEF DataTypes
<1>10. /\ \A c \in allocated : blockHash'[c] = blockHash[c] /\ ref'[c] = ref[c]
       /\ blockHash'[b] = h /\ ref'[b] = 0
  BY <1>6, <1>7, <1>9
<1>11. /\ hashMap' \in [Hash -> SUBSET Block]
       /\ \A g \in Hash : \A c \in hashMap'[g] : c \in hashMap[g] \/ (c = b /\ g = h)
  BY <1>5, <1>6, <1>9, UnmappedType DEF Unmapped
<1>12. DataTypes'
  <2>1. ref' \in [Block -> Int] /\ blockHash' \in [Block -> Hash \cup {NoHash}]
    BY <1>5, <1>6, <1>9
  <2>2. QED BY <1>1, <1>3, <1>8, <1>11, <2>1 DEF DataTypes
<1>13. MapSound'
  BY <1>3, <1>6, <1>7, <1>10, <1>11 DEF MapSound
<1>14. Control' /\ Contents' /\ Lengths' /\ StoringInv'
  BY <1>1, <1>3, <1>4 DEF Control, Contents, Clean, Lengths, StoringInv, Active
<1>15. /\ Active' = Active /\ Fresh' = {}
       /\ \A q \in Active : HeldAt(q)' = HeldAt(q) /\ Claimed(q)' = {} /\ Claimed(q) = {}
                            /\ Held(q)' = Held(q)
  BY <1>1, <1>4 DEF Active, Fresh, HeldAt, Claimed, Held
<1>16. Names'
  BY <1>1, <1>3, <1>4, <1>6, <1>10, <1>15 DEF Names
<1>17. FreshAlone'
  BY <1>1, <1>4 DEF FreshAlone
<1>18. Counted'
  <2>1. \A c : Holders(c)' = Holders(c)
    BY <1>15 DEF Holders
  <2>2. ASSUME NEW q \in Active PROVE b \notin Held(q)
    BY <1>3, <1>7, <1>15 DEF Held, Names
  <2>3. Holders(b) = {}
    BY <2>2 DEF Holders
  <2>4. ASSUME NEW c \in allocated' \ {NullBlock}
        PROVE  ref'[c] = Cardinality(Holders(c)')
    BY <1>3, <1>6, <1>10, <2>1, <2>3, FS_EmptySet DEF Counted
  <2>5. QED BY <2>4 DEF Counted
<1>19. AddingInv'
  <2>1. ASSUME NEW i \in 1 .. Len(hits')
        PROVE  hits'[i] \in allocated' \ {NullBlock} /\ blockHash'[hits'[i]] = CH(ireq, i)
    <3>1. CASE i \in 1 .. Len(hits)
      BY <1>1, <1>3, <1>6, <1>8, <1>10, <3>1 DEF AddingInv
    <3>2. CASE i = Len(hits) + 1
      BY <1>6, <1>7, <1>8, <1>10, <3>2 DEF h
    <3>3. QED BY <1>4, <1>8, <3>1, <3>2
  <2>2. Len(hits') <= Len(Prompt[ireq])
    BY <1>1, <1>4, <1>8
  <2>3. QED BY <1>1, <1>3, <2>1, <2>2 DEF AddingInv
<1>20. QED BY <1>12, <1>13, <1>14, <1>16, <1>17, <1>18, <1>19 DEF CInv

LEMMA LookupEndInv ==
  ASSUME CInv, LookupEnd, Calm'
  PROVE  CInv'
<1>1. /\ ipc = "lookup"
      /\ \/ /\ hits # <<>> /\ table' = [table EXCEPT ![ireq] = <<>>]
            /\ ipc' = "claim" /\ k' = 1
            /\ UNCHANGED <<phase, ireq, hits>>
         \/ /\ phase' = [phase EXCEPT ![ireq] = "running"]
            /\ ipc' = "idle" /\ ireq' = NoReq /\ hits' = <<>> /\ k' = 0
            /\ UNCHANGED table
      /\ UNCHANGED <<created, free, allocated, ref, blockHash, hashMap, overlap, context,
                     index, ssd, queue, wpc, wreq, wblock, whash, lost>>
  BY DEF LookupEnd, Admit, Calm, pool, bounds, worker
<1>2. DataTypes /\ Control /\ MapSound /\ Names /\ FreshAlone /\ Counted
      /\ Lengths /\ AddingInv /\ StoringInv /\ Contents
  BY DEF CInv
<1>3. /\ ireq \in Request /\ phase[ireq] = "adding" /\ wpc = "idle" /\ Fresh = {}
      /\ queue = <<>> /\ hits \in Seq(Block) /\ Len(Prompt[ireq]) \in Nat
      /\ ireq \in Active /\ ireq \notin lost
  BY <1>1, AddingFacts
<1>4. table[ireq] = <<>> /\ context[ireq] = <<>> /\ table' = table
  BY <1>1, <1>2, <1>3 DEF AddingInv, DataTypes
<1>5. DataTypes'
  <2>1. hits' \in Seq(Block) /\ k' \in Nat
    BY <1>1, <1>3, EmptyIsSeq
  <2>2. phase' \in [Request -> {"new", "adding", "running", "storing", "stored", "gone"}]
    BY <1>1, <1>2, <1>3 DEF DataTypes
  <2>3. QED BY <1>1, <1>2, <1>4, <2>1, <2>2 DEF DataTypes
<1>6. Active' = Active /\ Fresh' = {}
  BY <1>1, <1>2, <1>3 DEF Active, Fresh, DataTypes
<1>7. Control'
  BY <1>1, <1>2, <1>3 DEF Control, DataTypes
<1>8. MapSound' /\ Contents' /\ StoringInv'
  BY <1>1, <1>2, <1>3 DEF MapSound, Contents, Clean, StoringInv
<1>9. Lengths'
  BY <1>1, <1>2, <1>3, <1>4, <1>6 DEF Lengths, DataTypes
<1>10. Names' /\ FreshAlone' /\ Counted'
  <2>1. \A r \in Active : /\ HeldAt(r)' = HeldAt(r) /\ Claimed(r)' = Claimed(r)
                          /\ \A i \in HeldAt(r) : table'[r][i] = table[r][i]
    BY <1>1, <1>4 DEF HeldAt, Claimed
  <2>2. QED BY <1>1, <1>2, <1>3, <1>6, <2>1, Quiet
<1>11. AddingInv'
  <2>1. CASE ipc' = "idle"
    BY <2>1 DEF AddingInv
  <2>2. CASE ipc' = "claim" /\ k' = 1 /\ UNCHANGED <<ireq, hits>> /\ hits # <<>>
    <3>1. Len(hits) \in Nat \ {0}
      BY <1>3, <2>2
    <3>2. QED BY <1>1, <1>2, <1>3, <1>4, <2>2, <3>1 DEF AddingInv
  <2>3. QED BY <1>1, <2>1, <2>2
<1>12. QED BY <1>5, <1>7, <1>8, <1>9, <1>10, <1>11 DEF CInv

LEMMA ClaimInv ==
  ASSUME PInv, CInv, Claim
  PROVE  CInv'
<1>1. /\ ipc = "claim" /\ ipc' = "append" /\ IncrementRef(hits[k])
      /\ UNCHANGED <<created, free, allocated, blockHash, hashMap, overlap, phase, table,
                     context, index, ssd, ireq, hits, k, queue, wpc, wreq, wblock, whash,
                     lost>>
  BY DEF Claim, IncrementRef, bounds, worker
<1>2. DataTypes /\ Control /\ MapSound /\ Names /\ FreshAlone /\ Counted
      /\ Lengths /\ AddingInv /\ StoringInv /\ Contents /\ PoolTypes
  BY DEF CInv, PInv
<1>3. /\ ireq \in Request /\ ireq \in Active /\ wpc = "idle" /\ Fresh = {}
      /\ Len(table[ireq]) \in Nat /\ Len(Prompt[ireq]) \in 0 .. Len(Sequence[ireq])
      /\ Len(Sequence[ireq]) \in Nat
  BY <1>1, AddingFacts, ChainFacts
<1> DEFINE b == hits[k]
<1>4. /\ k \in 1 .. Len(hits) /\ Len(table[ireq]) = k - 1 /\ Len(hits) <= Len(Prompt[ireq])
      /\ Len(hits) \in Nat
      /\ b \in allocated \ {NullBlock} /\ blockHash[b] = CH(ireq, k)
  BY <1>1, <1>2, AddingFacts DEF AddingInv
<1> HIDE DEF b
<1>5. /\ Active' = Active /\ Fresh' = {}
      /\ \A q \in Active : HeldAt(q)' = HeldAt(q)
      /\ \A q \in Active \ {ireq} : Held(q)' = Held(q)
      /\ Held(ireq)' = Held(ireq) \cup {b}
      /\ Held(ireq) = {table[ireq][i] : i \in HeldAt(ireq)}
  BY <1>1, <1>3 DEF Active, Fresh, HeldAt, Claimed, Held, b
<1>6. b \notin Held(ireq)
  <2>1. ASSUME NEW i \in HeldAt(ireq), table[ireq][i] = b PROVE FALSE
    <3>1. i \in 1 .. k - 1 /\ blockHash[b] = CH(ireq, i)
      BY <1>2, <1>3, <1>4, <2>1 DEF Names, HeldAt
    <3>2. i \in 0 .. Len(Sequence[ireq]) /\ k \in 0 .. Len(Sequence[ireq]) /\ i # k
      BY <1>3, <1>4, <3>1
    <3>3. QED BY <1>3, <1>4, <3>1, <3>2, ChainFacts
  <2>2. QED BY <1>5, <2>1
<1>7. Counted' /\ ref' \in [Block -> Int]
  BY <1>1, <1>2, <1>3, <1>4, <1>5, <1>6, TakeOn DEF b
<1>8. DataTypes'
  BY <1>1, <1>2, <1>7 DEF DataTypes
<1>9. Control' /\ MapSound' /\ Contents' /\ Lengths' /\ StoringInv'
  BY <1>1, <1>2, <1>3 DEF Control, MapSound, Contents, Clean, Lengths, StoringInv, Active
<1>10. Names' /\ FreshAlone'
  BY <1>1, <1>2, <1>3, <1>5 DEF Names, FreshAlone
<1>11. AddingInv'
  BY <1>1, <1>2, <1>4 DEF AddingInv
<1>12. QED BY <1>7, <1>8, <1>9, <1>10, <1>11 DEF CInv

LEMMA AppendHitInv ==
  ASSUME CInv, AppendHit
  PROVE  CInv'
<1> DEFINE b == hits[k]
           t == IF b \in allocated THEN Append(table[ireq], b) ELSE table[ireq]
<1>1. /\ ipc = "append" /\ table' = [table EXCEPT ![ireq] = t]
      /\ \/ /\ k < Len(hits)
            /\ ipc' = "claim" /\ k' = k + 1
            /\ UNCHANGED <<phase, ireq, hits>>
         \/ /\ k = Len(hits) /\ t # <<>>
            /\ ipc' = "load" /\ k' = 1
            /\ UNCHANGED <<phase, ireq, hits>>
         \/ /\ k = Len(hits) /\ t = <<>> /\ Admit(ireq)
      /\ UNCHANGED <<created, free, allocated, ref, blockHash, hashMap, overlap, context,
                     index, ssd, queue, wpc, wreq, wblock, whash, lost>>
  BY DEF AppendHit, pool, bounds, worker
<1>2. DataTypes /\ Control /\ MapSound /\ Names /\ FreshAlone /\ Counted
      /\ Lengths /\ AddingInv /\ StoringInv /\ Contents
  BY DEF CInv
<1>3. /\ ireq \in Request /\ ireq \in Active /\ wpc = "idle" /\ Fresh = {} /\ phase[ireq] = "adding"
      /\ queue = <<>> /\ table[ireq] \in Seq(Block \ {NullBlock}) /\ Len(table[ireq]) \in Nat
      /\ Len(Prompt[ireq]) \in 0 .. Len(Sequence[ireq]) /\ Len(Sequence[ireq]) \in Nat
      /\ hits \in Seq(Block) /\ Len(hits) \in Nat /\ ireq \notin lost
  BY <1>1, AddingFacts, ChainFacts
<1>4. /\ k \in 1 .. Len(hits) /\ Len(table[ireq]) = k - 1 /\ Len(hits) <= Len(Prompt[ireq])
      /\ context[ireq] = <<>>
      /\ b \in allocated \ {NullBlock} /\ blockHash[b] = CH(ireq, k) /\ b \in Block
  BY <1>1, <1>2, <1>3 DEF AddingInv
<1> HIDE DEF b
<1>5. /\ t = Append(table[ireq], b) /\ t \in Seq(Block \ {NullBlock}) /\ t # <<>>
      /\ Len(t) = k /\ t[k] = b /\ \A i \in 1 .. k - 1 : t[i] = table[ireq][i]
  BY <1>3, <1>4, AppendProperties
<1> HIDE DEF t
<1>6. /\ ipc' \in {"claim", "load"} /\ UNCHANGED <<phase, ireq, hits>>
      /\ ipc' = "claim" => k < Len(hits) /\ k' = k + 1
      /\ ipc' = "load" => k' = 1
  BY <1>1, <1>5
<1>7. /\ table'[ireq] = t /\ \A q \in Request \ {ireq} : table'[q] = table[q]
      /\ table' \in [Request -> Seq(Block \ {NullBlock})]
  BY <1>1, <1>2, <1>3, <1>5 DEF DataTypes
<1>8. DataTypes'
  <2>1. k' \in Nat
    BY <1>4, <1>6
  <2>2. QED BY <1>1, <1>2, <1>6, <1>7, <2>1 DEF DataTypes
<1>9. Control' /\ MapSound' /\ Contents' /\ StoringInv'
  BY <1>1, <1>2, <1>3, <1>6 DEF Control, MapSound, Contents, Clean, StoringInv
<1>10. Active' = Active /\ Fresh' = {} /\ Active \subseteq Request
  BY <1>1, <1>2, <1>3, <1>6 DEF Active, Fresh, DataTypes
<1>11. Lengths'
  <2>1. Len(table'[ireq]) <= Len(Prompt[ireq]) /\ Len(table'[ireq]) <= Len(Sequence[ireq])
    BY <1>3, <1>4, <1>5, <1>7
  <2>2. QED BY <1>1, <1>2, <1>3, <1>6, <1>7, <1>10, <2>1 DEF Lengths
<1>12. \A q \in Active \ {ireq} :
         /\ HeldAt(q)' = HeldAt(q) /\ Held(q)' = Held(q)
         /\ \A i \in HeldAt(q) : table'[q][i] = table[q][i]
  BY <1>1, <1>6, <1>7, <1>10 DEF HeldAt, Claimed, Held
<1>13. HeldAt(ireq) = 1 .. k - 1 /\ \A q : q = ireq => HeldAt(q)' = 1 .. k
  BY <1>1, <1>4, <1>5, <1>6, <1>7 DEF HeldAt
<1>14. ASSUME NEW q, q = ireq PROVE Held(q)' = Held(q)
  <2>1. Held(ireq) = {table[ireq][i] : i \in 1 .. k - 1} \cup {b}
    BY <1>1, <1>13 DEF Held, Claimed, b
  <2>2. Held(q)' = {t[i] : i \in 1 .. k}
    BY <1>6, <1>7, <1>13, <1>14 DEF Held, Claimed
  <2>3. \A i : i \in 1 .. k <=> (i \in 1 .. k - 1 \/ i = k)
    BY <1>3, <1>4
  <2>4. \A i \in 1 .. k - 1 : t[i] = table[ireq][i]
    BY <1>5
  <2>5. \A c : c \in Held(q)' <=> c \in Held(q)
    BY <1>5, <1>14, <2>1, <2>2, <2>3, <2>4
  <2>6. QED BY <2>5
<1>15. Names'
  <2>1. ASSUME NEW i \in 1 .. k
        PROVE  t[i] \in allocated \ {NullBlock} /\ blockHash[t[i]] = CH(ireq, i)
    <3>1. CASE i = k
      BY <1>4, <1>5, <3>1
    <3>2. CASE i \in 1 .. k - 1
      BY <1>2, <1>3, <1>5, <1>13, <3>2 DEF Names
    <3>3. QED BY <1>3, <1>4, <3>1, <3>2
  <2>2. ASSUME NEW q \in Active', NEW i \in HeldAt(q)'
        PROVE  /\ table'[q][i] \in allocated' \ {NullBlock}
               /\ blockHash'[table'[q][i]] = CH(q, i)
    <3>1. CASE q = ireq
      BY <1>1, <1>7, <1>13, <2>1, <2>2, <3>1
    <3>2. CASE q # ireq
      BY <1>1, <1>2, <1>3, <1>10, <1>12, <2>2, <3>2 DEF Names
    <3>3. QED BY <3>1, <3>2
  <2>3. QED BY <2>2 DEF Names
<1>16. FreshAlone'
  BY <1>1, <1>3 DEF FreshAlone
<1>17. Counted'
  <2>1. \A q \in Active : Held(q)' = Held(q)
    BY <1>12, <1>14
  <2>2. \A c : Holders(c)' = Holders(c)
    BY <1>10, <2>1 DEF Holders
  <2>3. QED BY <1>1, <1>2, <2>2 DEF Counted
<1>18. AddingInv'
  <2>1. CASE ipc' = "claim"
    BY <1>1, <1>2, <1>3, <1>4, <1>5, <1>6, <1>7, <2>1 DEF AddingInv
  <2>2. CASE ipc' = "load"
    <3>1. Len(context'[ireq']) = 0 /\ Len(table'[ireq']) = k
      BY <1>1, <1>4, <1>5, <1>6, <1>7
    <3>2. QED BY <1>4, <1>6, <2>2, <3>1 DEF AddingInv
  <2>3. QED BY <1>6, <2>1, <2>2
<1>19. QED BY <1>8, <1>9, <1>11, <1>15, <1>16, <1>17, <1>18 DEF CInv

LEMMA LoadBlockInv ==
  ASSUME CInv, LoadBlock
  PROVE  CInv'
<1>0. PICK r \in Request : r = ireq
  BY AddingFacts DEF LoadBlock, Loading
<1> DEFINE b == table[r][k]
           c == ssd[blockHash[b]]
<1>1. /\ ipc = "load" /\ k <= Len(table[r])
      /\ b \in allocated /\ blockHash[b] \in Hash /\ c # NoHash
      /\ context' = [context EXCEPT ![r] = Append(@, c)]
      /\ k' = k + 1
      /\ UNCHANGED <<created, free, allocated, ref, blockHash, hashMap, overlap, phase, table,
                     index, ssd, ipc, ireq, hits, queue, wpc, wreq, wblock, whash, lost>>
  BY <1>0 DEF LoadBlock, Loading, pool, bounds, worker
<1>2. DataTypes /\ Control /\ MapSound /\ Names /\ FreshAlone /\ Counted
      /\ Lengths /\ AddingInv /\ StoringInv /\ Contents
  BY DEF CInv
<1>3. /\ r \in Active /\ wpc = "idle" /\ Fresh = {} /\ phase[r] = "adding" /\ k \in Nat
      /\ Len(table[r]) \in Nat /\ Len(table[r]) <= Len(Prompt[r])
      /\ context[r] \in Seq(Hash) /\ Len(context[r]) \in Nat
      /\ Len(Prompt[r]) \in 0 .. Len(Sequence[r]) /\ Len(Sequence[r]) \in Nat
  BY <1>0, <1>1, AddingFacts, ChainFacts
<1>4. k \in 1 .. Len(table[r]) /\ Len(context[r]) = k - 1
  BY <1>0, <1>1, <1>2, <1>3 DEF AddingInv
<1>5. blockHash[b] = CH(r, k)
  <2>1. k \in HeldAt(r)
    BY <1>1, <1>4 DEF HeldAt
  <2>2. QED BY <1>2, <1>3, <2>1 DEF Names
<1>6. c = CH(r, k) /\ c \in Hash
  BY <1>1, <1>2, <1>5 DEF Contents
<1> HIDE DEF b, c
<1>7. /\ context'[r] \in Seq(Hash) /\ Len(context'[r]) = k /\ context'[r][k] = c
      /\ \A p \in 1 .. k - 1 : context'[r][p] = context[r][p]
      /\ \A q \in Request \ {r} : context'[q] = context[q]
      /\ context' \in [Request -> Seq(Hash)]
  <2>1. context'[r] = Append(context[r], c)
    BY <1>1, <1>2 DEF DataTypes
  <2>2. \A q \in Request \ {r} : context'[q] = context[q]
    BY <1>1, <1>2 DEF DataTypes
  <2>3. context'[r] \in Seq(Hash)
    BY <1>3, <1>6, <2>1, AppendProperties
  <2>4. context' \in [Request -> Seq(Hash)]
    BY <1>1, <1>2, <2>1, <2>3 DEF DataTypes
  <2>5. QED BY <1>3, <1>4, <1>6, <2>1, <2>2, <2>3, <2>4, AppendProperties
<1>8. DataTypes'
  <2>1. k' \in Nat
    BY <1>1, <1>3
  <2>2. QED BY <1>1, <1>2, <1>7, <2>1 DEF DataTypes
<1>9. Control' /\ MapSound' /\ StoringInv'
  BY <1>1, <1>2, <1>3 DEF Control, MapSound, StoringInv
<1>10. Active' = Active /\ Fresh' = {}
  BY <1>1, <1>3 DEF Active, Fresh
<1>11. Contents'
  <2>1. \A h \in Hash : ssd'[h] \in {NoHash, h}
    BY <1>1, <1>2 DEF Contents
  <2>2. ASSUME NEW q \in Request PROVE Clean(q)'
    <3>1. CASE q # r
      BY <1>2, <1>7, <3>1 DEF Contents, Clean
    <3>2. CASE q = r
      <4>1. ASSUME NEW p \in 1 .. k PROVE context'[r][p] = Prefix(Prompt[r], p)
        <5>1. CASE p = k
          BY <1>3, <1>4, <1>6, <1>7, <5>1, ChainFacts
        <5>2. CASE p # k
          <6>1. p \in 1 .. k - 1
            BY <1>3, <5>2
          <6>2. QED BY <1>2, <1>4, <1>7, <6>1 DEF Contents, Clean
        <5>3. QED BY <5>1, <5>2
      <4>2. QED BY <1>7, <3>2, <4>1 DEF Clean
    <3>3. QED BY <3>1, <3>2
  <2>3. QED BY <2>1, <2>2 DEF Contents
<1>12. Lengths'
  BY <1>1, <1>2, <1>3, <1>4, <1>7, <1>10 DEF Lengths
<1>13. Names' /\ FreshAlone' /\ Counted'
  <2>1. \A q \in Active : /\ HeldAt(q)' = HeldAt(q) /\ Claimed(q)' = Claimed(q)
                          /\ \A i \in HeldAt(q) : table'[q][i] = table[q][i]
    BY <1>1 DEF HeldAt, Claimed
  <2>2. QED BY <1>1, <1>2, <1>3, <1>10, <2>1, Quiet
<1>14. AddingInv'
  BY <1>0, <1>1, <1>3, <1>4, <1>7 DEF AddingInv
<1>15. QED BY <1>8, <1>9, <1>11, <1>12, <1>13, <1>14 DEF CInv

\* The blocks that are not used any more will be given back: by now the
\* request still has a reference on every block of its table.
LEMMA LoadStopsInv ==
  ASSUME CInv, ipc = "load", k <= Len(table[ireq]), ipc' = "drop",
         hashMap' \in [Hash -> SUBSET Block], \A h \in Hash : hashMap'[h] \subseteq hashMap[h],
         UNCHANGED <<created, free, allocated, ref, blockHash, overlap, phase, table,
                     context, index, ssd, ireq, hits, k, queue, wpc, wreq, wblock, whash,
                     lost>>
  PROVE  CInv'
<1>0. PICK r \in Request : r = ireq
  BY AddingFacts
<1>2. DataTypes /\ Control /\ MapSound /\ Names /\ FreshAlone /\ Counted
      /\ Lengths /\ AddingInv /\ StoringInv /\ Contents
  BY DEF CInv
<1>3. /\ wpc = "idle" /\ Fresh = {} /\ Len(table[r]) \in Nat /\ k \in Nat
      /\ Len(context[r]) \in Nat
  BY <1>0, AddingFacts
<1>4. k \in 1 .. Len(table[r]) /\ Len(context[r]) = k - 1
  BY <1>0, <1>2, <1>3 DEF AddingInv
<1>5. DataTypes' /\ Control' /\ MapSound' /\ StoringInv'
  BY <1>2, <1>3 DEF DataTypes, Control, MapSound, StoringInv
<1>6. Active' = Active /\ Fresh' = {}
  BY <1>3 DEF Active, Fresh
<1>7. Contents' /\ Lengths'
  BY <1>2, <1>6 DEF Contents, Clean, Lengths
<1>8. Names' /\ FreshAlone' /\ Counted'
  <2>1. ASSUME NEW q \in Active
        PROVE  HeldAt(q)' = HeldAt(q) /\ Claimed(q)' = Claimed(q)
    <3>1. Claimed(q)' = Claimed(q) /\ HeldAt(q) = 1 .. Len(table[q])
      BY DEF HeldAt, Claimed
    <3>2. \A i \in 1 .. Len(table[q]) : ~ (q = ireq /\ i < k /\ Len(context[q]) < i)
      BY <1>0, <1>3, <1>4
    <3>3. QED BY <3>1, <3>2 DEF HeldAt
  <2>2. QED BY <1>2, <1>3, <1>6, <2>1, Quiet
<1>9. AddingInv'
  BY <1>0, <1>2, <1>3, <1>4 DEF AddingInv
<1>10. QED BY <1>5, <1>7, <1>8, <1>9 DEF CInv

LEMMA LoadFailsInv ==
  ASSUME CInv, LoadFails \/ LoadStops
  PROVE  CInv'
<1>1. /\ ipc = "load" /\ k <= Len(table[ireq]) /\ ipc' = "drop"
      /\ UNCHANGED <<created, free, allocated, ref, blockHash, overlap, phase, table,
                     context, index, ssd, ireq, hits, k, queue, wpc, wreq, wblock, whash,
                     lost>>
      /\ hashMap' = hashMap \/ \E b : hashMap' = Unmapped(blockHash[b], b)
  BY DEF LoadFails, LoadStops, Loading, ForgetHash, pool, bounds, worker
<1>2. hashMap \in [Hash -> SUBSET Block]
  BY DEF CInv, DataTypes
<1>3. hashMap' \in [Hash -> SUBSET Block] /\ \A h \in Hash : hashMap'[h] \subseteq hashMap[h]
  BY <1>1, <1>2 DEF Unmapped
<1>4. QED BY <1>1, <1>3, LoadStopsInv

LEMMA GiveBackInv ==
  ASSUME PInv, CInv, DropBlock \/ DeleteBlock
  PROVE  CInv'
<1>0. PICK r \in Request : r = ireq
  BY AddingFacts DEF DropBlock, DeleteBlock
<1> DEFINE b == table[r][k]
           gone(i) == ipc = "drop" => Len(context[r]) < i
<1>1. /\ ipc \in {"drop", "delete"} /\ k <= Len(table[r]) /\ FreeBlock(b) /\ k' = k + 1
      /\ UNCHANGED <<overlap, phase, table, context, index, ssd, ipc, ireq, hits, queue,
                     wpc, wreq, wblock, whash, lost>>
  BY <1>0 DEF DropBlock, DeleteBlock, bounds, worker
<1>2. DataTypes /\ Control /\ MapSound /\ Names /\ FreshAlone /\ Counted
      /\ Lengths /\ AddingInv /\ StoringInv /\ Contents /\ PoolTypes
  BY DEF CInv, PInv
<1>3. /\ r \in Active /\ wpc = "idle" /\ Fresh = {} /\ k \in Nat
      /\ Len(table[r]) \in Nat /\ Len(context[r]) \in Nat
  BY <1>0, <1>1, AddingFacts
<1>4. k \in 1 .. Len(table[r]) /\ (ipc = "drop" => Len(context[r]) < k)
  BY <1>0, <1>1, <1>2, <1>3 DEF AddingInv
<1>5. /\ HeldAt(r) = {i \in 1 .. Len(table[r]) : ~ (i < k /\ gone(i))}
      /\ HeldAt(r)' = {i \in 1 .. Len(table[r]) : ~ (i < k + 1 /\ gone(i))}
  BY <1>0, <1>1 DEF HeldAt
<1>6. k \in HeldAt(r) /\ HeldAt(r)' = HeldAt(r) \ {k}
  <2>1. gone(k)
    BY <1>4
  <2>2. k \in HeldAt(r)
    BY <1>4, <1>5
  <2>3. \A i \in 1 .. Len(table[r]) : (i < k + 1) <=> (i < k \/ i = k)
    BY <1>3
  <2> HIDE DEF gone
  <2>4. \A i : i \in HeldAt(r)' <=> i \in HeldAt(r) /\ i # k
    BY <1>3, <1>5, <2>1, <2>3
  <2>5. QED BY <2>2, <2>4
<1>7. b \in allocated \ {NullBlock} /\ b \in Held(r)
  BY <1>2, <1>3, <1>6 DEF Names, Held
<1>8. Claimed(r) = {} /\ Claimed(r)' = {}
  BY <1>1 DEF Claimed
<1>9. Held(r)' = Held(r) \ {b}
  <2>1. Held(r) = {table[r][i] : i \in HeldAt(r)}
    BY <1>8 DEF Held
  <2>2. Held(r)' = {table[r][i] : i \in HeldAt(r) \ {k}}
    BY <1>1, <1>6, <1>8 DEF Held
  <2>3. \A i \in HeldAt(r) : i # k => table[r][i] # b
    BY <1>2, <1>3, <1>6, NamedOnce
  <2>4. QED BY <2>1, <2>2, <2>3
<1>10. /\ Active' = Active /\ Fresh' = {} /\ wpc' # "register"
       /\ \A q \in Active \ {r} : /\ Held(q)' = Held(q) /\ HeldAt(q)' = HeldAt(q)
  BY <1>0, <1>1, <1>3 DEF Active, Fresh, Held, HeldAt, Claimed
<1>11. \A q \in Active : \A i \in HeldAt(q)' : i \in HeldAt(q) /\ table'[q][i] = table[q][i]
  BY <1>1, <1>6, <1>10
<1> HIDE DEF b
<1>12. /\ Names' /\ FreshAlone' /\ Counted' /\ MapSound'
       /\ ref' \in [Block -> Int] /\ hashMap' \in [Hash -> SUBSET Block]
       /\ blockHash' = blockHash
  <2>1. b \in Held(r) \cap (allocated \ {NullBlock})
    BY <1>7
  <2>2. QED BY <1>1, <1>2, <1>3, <1>9, <1>10, <1>11, <2>1, GiveUp
<1>13. DataTypes'
  <2>1. k' \in Nat
    BY <1>1, <1>3
  <2>2. QED BY <1>1, <1>2, <1>12, <2>1 DEF DataTypes
<1>14. Control' /\ StoringInv' /\ Contents' /\ Lengths'
  BY <1>1, <1>2, <1>3, <1>10 DEF Control, StoringInv, Contents, Clean, Lengths
<1>15. AddingInv'
  BY <1>0, <1>1, <1>2, <1>3, <1>4 DEF AddingInv
<1>16. QED BY <1>12, <1>13, <1>14, <1>15 DEF CInv

LEMMA DropEndInv ==
  ASSUME CInv, DropEnd
  PROVE  CInv'
<1>0. PICK r \in Request : r = ireq
  BY AddingFacts DEF DropEnd
<1> DEFINE n == Len(context[r])
<1>1. /\ ipc = "drop" /\ k > Len(table[r]) /\ ipc' = "load"
      /\ table' = [table EXCEPT ![r] = Prefix(@, n)]
      /\ UNCHANGED <<created, free, allocated, ref, blockHash, hashMap, overlap, phase,
                     context, index, ssd, ireq, hits, k, queue, wpc, wreq, wblock, whash,
                     lost>>
  BY <1>0 DEF DropEnd, pool, bounds, worker
<1>2. DataTypes /\ Control /\ MapSound /\ Names /\ FreshAlone /\ Counted
      /\ Lengths /\ AddingInv /\ StoringInv /\ Contents
  BY DEF CInv
<1>3. /\ r \in Active /\ wpc = "idle" /\ Fresh = {} /\ k \in Nat /\ phase[r] = "adding"
      /\ table[r] \in Seq(Block \ {NullBlock}) /\ Len(table[r]) \in Nat /\ n \in Nat
      /\ Len(table[r]) <= Len(Prompt[r]) /\ Len(Prompt[r]) \in 0 .. Len(Sequence[r])
      /\ Len(Sequence[r]) \in Nat
  BY <1>0, <1>1, AddingFacts, ChainFacts
<1>4. n <= Len(table[r]) /\ k = Len(table[r]) + 1
  BY <1>0, <1>1, <1>2, <1>3 DEF AddingInv
<1> HIDE DEF n
<1>5. /\ table'[r] \in Seq(Block \ {NullBlock}) /\ Len(table'[r]) = n
      /\ \A i \in 1 .. n : table'[r][i] = table[r][i]
      /\ \A q \in Request \ {r} : table'[q] = table[q]
      /\ table' \in [Request -> Seq(Block \ {NullBlock})]
  <2>1. table'[r] = Prefix(table[r], n) /\ \A q \in Request \ {r} : table'[q] = table[q]
    BY <1>1, <1>2 DEF DataTypes
  <2>2. /\ Prefix(table[r], n) \in Seq(Block \ {NullBlock}) /\ Len(Prefix(table[r], n)) = n
        /\ \A i \in 1 .. n : Prefix(table[r], n)[i] = table[r][i]
    <3>1. n \in 0 .. Len(table[r])
      BY <1>3, <1>4
    <3>2. QED BY <1>3, <3>1, PrefixFacts
  <2>3. table' \in [Request -> Seq(Block \ {NullBlock})]
    BY <1>1, <1>2, <2>1, <2>2 DEF DataTypes
  <2>4. QED BY <2>1, <2>2, <2>3
<1>6. DataTypes'
  BY <1>1, <1>2, <1>5 DEF DataTypes
<1>7. Control' /\ MapSound' /\ StoringInv' /\ Contents'
  BY <1>1, <1>2, <1>3 DEF Control, MapSound, StoringInv, Contents, Clean
<1>8. Active' = Active /\ Fresh' = {} /\ Active \subseteq Request
  BY <1>1, <1>2, <1>3 DEF Active, Fresh, DataTypes
<1>9. Lengths'
  <2>1. Len(table'[r]) <= Len(Prompt[r]) /\ Len(table'[r]) <= Len(Sequence[r])
    BY <1>3, <1>4, <1>5
  <2>2. QED BY <1>1, <1>2, <1>3, <1>5, <1>8, <2>1 DEF Lengths
<1>10. Names' /\ FreshAlone' /\ Counted'
  <2>1. HeldAt(r) = 1 .. n
    BY <1>0, <1>1, <1>3, <1>4 DEF HeldAt, n
  <2>2. HeldAt(r)' = 1 .. n
    BY <1>1, <1>5 DEF HeldAt
  <2>3. ASSUME NEW q \in Active
        PROVE  /\ HeldAt(q)' = HeldAt(q) /\ Claimed(q)' = Claimed(q)
               /\ \A i \in HeldAt(q) : table'[q][i] = table[q][i]
    <3>1. Claimed(q)' = Claimed(q)
      BY <1>1 DEF Claimed
    <3>2. CASE q = r
      BY <1>5, <2>1, <2>2, <3>1, <3>2
    <3>3. CASE q # r
      BY <1>0, <1>1, <1>5, <1>8, <3>1, <3>3 DEF HeldAt
    <3>4. QED BY <3>2, <3>3
  <2>4. QED BY <1>1, <1>2, <1>3, <1>8, <2>3, Quiet
<1>11. AddingInv'
  BY <1>0, <1>1, <1>3, <1>4, <1>5 DEF AddingInv, n
<1>12. QED BY <1>6, <1>7, <1>9, <1>10, <1>11 DEF CInv

LEMMA LoadEndInv ==
  ASSUME CInv, LoadEnd
  PROVE  CInv'
<1>0. PICK r \in Request : r = ireq
  BY AddingFacts DEF LoadEnd
<1>1. /\ ipc = "load" /\ k > Len(table[r])
      /\ \/ /\ phase' = [phase EXCEPT ![r] = "running"]
            /\ ipc' = "idle" /\ ireq' = NoReq /\ hits' = <<>> /\ k' = 0
            /\ UNCHANGED context
         \/ /\ \E n \in 1 .. Len(table[r]) - 1 :
                 context' = [context EXCEPT ![r] = Prefix(@, n)] /\ k' = n + 1
            /\ ipc' = "drop"
            /\ UNCHANGED <<phase, ireq, hits>>
         \/ /\ ipc' = "delete" /\ k' = 1
            /\ UNCHANGED <<phase, ireq, hits, context>>
      /\ UNCHANGED <<created, free, allocated, ref, blockHash, hashMap, overlap, table,
                     index, ssd, queue, wpc, wreq, wblock, whash, lost>>
  BY <1>0 DEF LoadEnd, Admit, pool, bounds, worker
<1>2. DataTypes /\ Control /\ MapSound /\ Names /\ FreshAlone /\ Counted
      /\ Lengths /\ AddingInv /\ StoringInv /\ Contents
  BY DEF CInv
<1>3. /\ r \in Active /\ wpc = "idle" /\ Fresh = {} /\ k \in Nat /\ phase[r] = "adding"
      /\ queue = <<>> /\ r \notin lost /\ Len(table[r]) \in Nat /\ context[r] \in Seq(Hash)
      /\ Len(table[r]) <= Len(Prompt[r]) /\ Len(Prompt[r]) \in Nat
  BY <1>0, <1>1, AddingFacts
<1>4. Len(context[r]) = Len(table[r])
  BY <1>0, <1>1, <1>2, <1>3 DEF AddingInv
<1>5. \A q \in Active : HeldAt(q) = 1 .. Len(table[q]) /\ Claimed(q) = {}
  BY <1>1 DEF HeldAt, Claimed
<1>6. /\ MapSound' /\ StoringInv'
  BY <1>1, <1>2, <1>3 DEF MapSound, StoringInv
<1>7. CASE /\ phase' = [phase EXCEPT ![r] = "running"]
           /\ ipc' = "idle" /\ ireq' = NoReq /\ hits' = <<>> /\ k' = 0
           /\ UNCHANGED context
  <2>1. DataTypes'
    <3>1. hits' \in Seq(Block)
      BY <1>7, EmptyIsSeq
    <3>2. QED BY <1>1, <1>2, <1>3, <1>7, <3>1 DEF DataTypes
  <2>2. Control'
    BY <1>0, <1>1, <1>2, <1>3, <1>7 DEF Control, DataTypes
  <2>3. Active' = Active /\ Fresh' = {}
    BY <1>1, <1>2, <1>3, <1>7 DEF Active, Fresh, DataTypes
  <2>4. Contents' /\ AddingInv'
    BY <1>1, <1>2, <1>7 DEF Contents, Clean, AddingInv
  <2>5. Lengths'
    BY <1>1, <1>2, <1>3, <1>4, <1>7, <2>3 DEF Lengths, DataTypes
  <2>6. Names' /\ FreshAlone' /\ Counted'
    <3>1. \A q \in Active : /\ HeldAt(q)' = HeldAt(q) /\ Claimed(q)' = Claimed(q)
                            /\ \A i \in HeldAt(q) : table'[q][i] = table[q][i]
      BY <1>1, <1>5, <1>7 DEF HeldAt, Claimed
    <3>2. QED BY <1>1, <1>2, <1>3, <2>3, <3>1, Quiet
  <2>7. QED BY <1>6, <2>1, <2>2, <2>4, <2>5, <2>6 DEF CInv
<1>8. CASE /\ ipc' = "delete" /\ k' = 1
           /\ UNCHANGED <<phase, ireq, hits, context>>
  <2>1. DataTypes' /\ Control'
    BY <1>1, <1>2, <1>3, <1>8 DEF DataTypes, Control
  <2>2. Active' = Active /\ Fresh' = {}
    BY <1>1, <1>3, <1>8 DEF Active, Fresh
  <2>3. Contents' /\ Lengths'
    BY <1>1, <1>2, <1>8, <2>2 DEF Contents, Clean, Lengths
  <2>4. AddingInv'
    BY <1>0, <1>1, <1>3, <1>4, <1>8 DEF AddingInv
  <2>5. Names' /\ FreshAlone' /\ Counted'
    <3>1. \A i \in Nat \ {0} : ~ (i < 1)
      OBVIOUS
    <3>2. ASSUME NEW q \in Active
          PROVE  HeldAt(q)' = HeldAt(q) /\ Claimed(q)' = Claimed(q)
      <4>1. Claimed(q)' = {}
        BY <1>8 DEF Claimed
      <4>2. HeldAt(q)' = 1 .. Len(table[q])
        BY <1>1, <1>8, <3>1 DEF HeldAt
      <4>3. QED BY <1>5, <4>1, <4>2
    <3>3. QED BY <1>1, <1>2, <1>3, <2>2, <3>2, Quiet
  <2>6. QED BY <1>6, <2>1, <2>3, <2>4, <2>5 DEF CInv
<1>9. ASSUME NEW n \in 1 .. Len(table[r]) - 1,
             context' = [context EXCEPT ![r] = Prefix(@, n)], k' = n + 1,
             ipc' = "drop", UNCHANGED <<phase, ireq, hits>>
      PROVE  CInv'
  <2>1. n \in 0 .. Len(context[r]) /\ n \in Nat /\ n <= Len(context[r])
    BY <1>3, <1>4
  <2>2. /\ Prefix(context[r], n) \in Seq(Hash) /\ Len(Prefix(context[r], n)) = n
        /\ \A i \in 1 .. n : Prefix(context[r], n)[i] = context[r][i]
    BY <1>3, <2>1, PrefixFacts
  <2>3. context'[r] = Prefix(context[r], n) /\ \A q \in Request \ {r} : context'[q] = context[q]
    BY <1>2, <1>9 DEF DataTypes
  <2>4. context' \in [Request -> Seq(Hash)]
    BY <1>2, <1>9, <2>2, <2>3 DEF DataTypes
  <2>5. DataTypes'
    <3>1. k' \in Nat
      BY <1>9, <2>1
    <3>2. QED BY <1>1, <1>2, <1>9, <2>4, <3>1 DEF DataTypes
  <2>6. Control'
    BY <1>1, <1>2, <1>3, <1>9 DEF Control
  <2>7. Active' = Active /\ Fresh' = {}
    BY <1>1, <1>3, <1>9 DEF Active, Fresh
  <2>8. Contents'
    <3>1. \A p \in 1 .. n : p \in 1 .. Len(context[r])
      BY <1>3, <2>1
    <3>2. ASSUME NEW q \in Request PROVE Clean(q)'
      <4>1. CASE q = r
        BY <1>2, <2>2, <2>3, <3>1, <4>1 DEF Contents, Clean
      <4>2. CASE q # r
        BY <1>2, <2>3, <4>2 DEF Contents, Clean
      <4>3. QED BY <4>1, <4>2
    <3>3. QED BY <1>1, <1>2, <3>2 DEF Contents
  <2>9. Lengths'
    <3>1. Len(context'[r]) <= Len(Prompt[r])
      BY <1>3, <1>4, <2>1, <2>2, <2>3
    <3>2. QED BY <1>1, <1>2, <1>3, <1>9, <2>3, <2>7, <3>1 DEF Lengths
  <2>10. Names' /\ FreshAlone' /\ Counted'
    <3>1. ASSUME NEW q \in Active
          PROVE  HeldAt(q)' = HeldAt(q) /\ Claimed(q)' = Claimed(q)
      <4>1. Claimed(q)' = {}
        BY <1>9 DEF Claimed
      <4>2. \A i \in 1 .. Len(table[q]) : ~ (q = r /\ i < n + 1 /\ Len(context'[q]) < i)
        BY <1>3, <2>1, <2>2, <2>3
      <4>3. HeldAt(q)' = 1 .. Len(table[q])
        BY <1>0, <1>1, <1>9, <4>2 DEF HeldAt
      <4>4. QED BY <1>5, <4>1, <4>3
    <3>2. QED BY <1>1, <1>2, <1>3, <2>7, <3>1, Quiet
  <2>11. AddingInv'
    <3>1. Len(context'[r]) = n /\ n <= Len(table[r]) /\ n + 1 \in n + 1 .. Len(table[r]) + 1
      BY <1>3, <1>4, <2>1, <2>2, <2>3
    <3>2. QED BY <1>0, <1>1, <1>9, <3>1 DEF AddingInv
  <2>12. QED BY <1>6, <2>5, <2>6, <2>8, <2>9, <2>10, <2>11 DEF CInv
<1>10. QED BY <1>1, <1>7, <1>8, <1>9

LEMMA DeleteEndInv ==
  ASSUME CInv, DeleteEnd
  PROVE  CInv'
<1>0. PICK r \in Request : r = ireq
  BY AddingFacts DEF DeleteEnd
<1>1. /\ ipc = "delete" /\ k > Len(table[r])
      /\ table' = [table EXCEPT ![r] = <<>>]
      /\ context' = [context EXCEPT ![r] = <<>>]
      /\ phase' = [phase EXCEPT ![r] = "running"]
      /\ ipc' = "idle" /\ ireq' = NoReq /\ hits' = <<>> /\ k' = 0
      /\ UNCHANGED <<created, free, allocated, ref, blockHash, hashMap, overlap,
                     index, ssd, queue, wpc, wreq, wblock, whash, lost>>
  BY <1>0 DEF DeleteEnd, Admit, pool, bounds, worker
<1>2. DataTypes /\ Control /\ MapSound /\ Names /\ FreshAlone /\ Counted
      /\ Lengths /\ AddingInv /\ StoringInv /\ Contents
  BY DEF CInv
<1>3. /\ r \in Active /\ wpc = "idle" /\ Fresh = {} /\ k \in Nat /\ phase[r] = "adding"
      /\ queue = <<>> /\ r \notin lost /\ Len(table[r]) \in Nat
      /\ Len(Prompt[r]) \in Nat /\ Len(Sequence[r]) \in Nat
  BY <1>0, <1>1, AddingFacts, ChainFacts
<1>4. /\ table'[r] = <<>> /\ \A q \in Request \ {r} : table'[q] = table[q]
      /\ context'[r] = <<>> /\ \A q \in Request \ {r} : context'[q] = context[q]
      /\ phase'[r] = "running" /\ \A q \in Request \ {r} : phase'[q] = phase[q]
  BY <1>1, <1>2 DEF DataTypes
<1>5. DataTypes'
  <2>1. hits' \in Seq(Block)
    BY <1>1, EmptyIsSeq
  <2>2. table'[r] \in Seq(Block \ {NullBlock}) /\ context'[r] \in Seq(Hash)
    BY <1>4, EmptyIsSeq
  <2>3. /\ table' \in [Request -> Seq(Block \ {NullBlock})]
        /\ context' \in [Request -> Seq(Hash)]
    BY <1>1, <1>2, <1>4, <2>2 DEF DataTypes
  <2>4. QED BY <1>1, <1>2, <2>1, <2>3 DEF DataTypes
<1>6. Control' /\ MapSound' /\ StoringInv' /\ AddingInv'
  BY <1>0, <1>1, <1>2, <1>3, <1>4 DEF Control, MapSound, StoringInv, AddingInv
<1>7. Active' = Active /\ Fresh' = {} /\ Active \subseteq Request
  BY <1>1, <1>2, <1>3, <1>4 DEF Active, Fresh, DataTypes
<1>8. Contents'
  <2>1. ASSUME NEW q \in Request PROVE Clean(q)'
    BY <1>2, <1>4 DEF Contents, Clean
  <2>2. QED BY <1>1, <1>2, <2>1 DEF Contents
<1>9. Lengths'
  <2>1. Len(table'[r]) = 0 /\ Len(context'[r]) = 0
    BY <1>4
  <2>2. QED BY <1>1, <1>2, <1>3, <1>4, <1>7, <2>1 DEF Lengths
<1>10. Names' /\ FreshAlone' /\ Counted'
  <2>1. HeldAt(r) = {}
    BY <1>0, <1>1, <1>3 DEF HeldAt
  <2>2. HeldAt(r)' = {}
    BY <1>4 DEF HeldAt
  <2>3. ASSUME NEW q \in Active
        PROVE  /\ HeldAt(q)' = HeldAt(q) /\ Claimed(q)' = Claimed(q)
               /\ \A i \in HeldAt(q) : table'[q][i] = table[q][i]
    <3>1. Claimed(q)' = Claimed(q)
      BY <1>1 DEF Claimed
    <3>2. CASE q = r
      BY <2>1, <2>2, <3>1, <3>2
    <3>3. CASE q # r
      BY <1>0, <1>1, <1>4, <1>7, <3>1, <3>3 DEF HeldAt
    <3>4. QED BY <3>2, <3>3
  <2>4. QED BY <1>1, <1>2, <1>3, <1>7, <2>3, Quiet
<1>11. QED BY <1>5, <1>6, <1>8, <1>9, <1>10 DEF CInv

------------------------------------------------------------------------------
\* The scheduler's steps, between two operations of the inference thread.

\* Without overlap the worker has nothing to do while the scheduler runs.
LEMMA IdleFacts ==
  ASSUME CInv, Calm, Idle
  PROVE  /\ ipc = "idle" /\ queue = <<>> /\ wpc = "idle" /\ Fresh = {}
         /\ \A r \in Request : phase[r] \notin {"adding", "storing", "stored"}
         /\ \A q \in Active : HeldAt(q) = 1 .. Len(table[q]) /\ Claimed(q) = {}
         /\ Active \subseteq Request
<1>1. ipc = "idle" /\ queue = <<>> /\ wpc = "idle"
  BY DEF Idle, Calm
<1>2. ASSUME NEW r \in Request PROVE phase[r] \notin {"adding", "storing", "stored"}
  BY <1>1 DEF CInv, Control
<1>3. \A q \in Active : HeldAt(q) = 1 .. Len(table[q]) /\ Claimed(q) = {}
  BY <1>1 DEF HeldAt, Claimed
<1>4. Active \subseteq Request
  BY DEF CInv, DataTypes, Active
<1>5. QED BY <1>1, <1>2, <1>3, <1>4 DEF Fresh

LEMMA FinishInv ==
  ASSUME CInv, Calm, NEW r \in Request, Finish(r)
  PROVE  CInv'
<1>1. /\ Idle /\ phase[r] = "running" /\ phase' = [phase EXCEPT ![r] = "storing"]
      /\ queue' = Append(queue, r)
      /\ UNCHANGED <<created, free, allocated, ref, blockHash, hashMap, overlap, table,
                     context, index, ssd, ipc, ireq, hits, k, wpc, wreq, wblock, whash,
                     fellBack, lost>>
  BY DEF Finish, pool, bounds, inference
<1>2. DataTypes /\ Control /\ MapSound /\ Names /\ FreshAlone /\ Counted
      /\ Lengths /\ AddingInv /\ StoringInv /\ Contents
  BY DEF CInv
<1>3. /\ ipc = "idle" /\ queue = <<>> /\ wpc = "idle" /\ Fresh = {}
      /\ \A q \in Request : phase[q] \notin {"adding", "storing", "stored"}
  BY <1>1, IdleFacts
<1>4. queue' = <<r>>
  BY <1>1, <1>3
<1>5. DataTypes'
  BY <1>1, <1>2 DEF DataTypes
<1>6. Control'
  BY <1>1, <1>2, <1>3, <1>4 DEF Control, DataTypes
<1>7. Active' = Active /\ Fresh' = {}
  BY <1>1, <1>2, <1>3 DEF Active, Fresh, DataTypes
<1>8. MapSound' /\ Contents' /\ AddingInv' /\ StoringInv'
  BY <1>1, <1>2, <1>3 DEF MapSound, Contents, Clean, AddingInv, StoringInv
<1>9. Lengths'
  BY <1>1, <1>2, <1>7 DEF Lengths, DataTypes
<1>10. Names' /\ FreshAlone' /\ Counted'
  <2>1. \A q \in Active : /\ HeldAt(q)' = HeldAt(q) /\ Claimed(q)' = Claimed(q)
                          /\ \A i \in HeldAt(q) : table'[q][i] = table[q][i]
    BY <1>1 DEF HeldAt, Claimed
  <2>2. QED BY <1>1, <1>2, <1>3, <1>7, <2>1, Quiet
<1>11. QED BY <1>5, <1>6, <1>8, <1>9, <1>10 DEF CInv

LEMMA EndsWithoutStoreInv ==
  ASSUME PInv, CInv, Calm, NEW r \in Request, FinishNoStore(r) \/ Abort(r)
  PROVE  CInv'
<1>1. /\ Idle /\ phase[r] \in {"running", "storing", "stored"}
      /\ ReleaseForEviction(Occurrences(table[r]))
      /\ phase' = [phase EXCEPT ![r] = "gone"]
      /\ UNCHANGED <<created, free, allocated, blockHash, hashMap, overlap, table,
                     context, index, ssd, ipc, ireq, hits, k, queue, wpc, wreq, wblock,
                     whash, fellBack, lost>>
  BY DEF FinishNoStore, Abort, EndsWithoutStore, ReleaseForEviction, bounds, inference,
         worker
<1>2. DataTypes /\ Control /\ MapSound /\ Names /\ FreshAlone /\ Counted
      /\ Lengths /\ AddingInv /\ StoringInv /\ Contents /\ PoolTypes
  BY DEF CInv, PInv
<1>3. /\ ipc = "idle" /\ queue = <<>> /\ wpc = "idle" /\ Fresh = {}
      /\ \A q \in Request : phase[q] \notin {"adding", "storing", "stored"}
      /\ \A q \in Active : HeldAt(q) = 1 .. Len(table[q]) /\ Claimed(q) = {}
      /\ Active \subseteq Request
  BY <1>1, IdleFacts
<1>4. phase[r] = "running" /\ r \in Active /\ r \notin lost
  BY <1>1, <1>2, <1>3 DEF Active, Control
<1>5. Active' = Active \ {r} /\ Fresh' = {}
  BY <1>1, <1>2, <1>3, <1>4 DEF Active, Fresh, DataTypes
<1>6. \A q \in Active : HeldAt(q)' = HeldAt(q) /\ Claimed(q)' = Claimed(q) /\ Held(q)' = Held(q)
  BY <1>1 DEF HeldAt, Claimed, Held
<1>7. Counted' /\ ref' \in [Block -> Int]
  BY <1>1, <1>2, <1>3, <1>4, <1>5, <1>6, LetGo
<1>8. DataTypes'
  BY <1>1, <1>2, <1>7 DEF DataTypes
<1>9. Control'
  BY <1>1, <1>2, <1>3, <1>4 DEF Control, DataTypes
<1>10. MapSound' /\ Contents' /\ AddingInv' /\ StoringInv' /\ FreshAlone'
  BY <1>1, <1>2, <1>3 DEF MapSound, Contents, Clean, AddingInv, StoringInv, FreshAlone
<1>11. Lengths'
  BY <1>1, <1>2, <1>5 DEF Lengths, DataTypes
<1>12. Names'
  BY <1>1, <1>2, <1>3, <1>5, <1>6 DEF Names
<1>13. QED BY <1>7, <1>8, <1>9, <1>10, <1>11, <1>12 DEF CInv

LEMMA FailAllInv ==
  ASSUME CInv, Calm, FailAll
  PROVE  CInv'
<1>1. /\ Idle
      /\ phase' = [r \in Request |-> IF phase[r] = "running" THEN "gone" ELSE phase[r]]
      /\ lost' = lost \cup {r \in Request : phase[r] = "running"}
      /\ UNCHANGED <<created, free, allocated, ref, blockHash, hashMap, overlap, table,
                     context, index, ssd, ipc, ireq, hits, k, queue, wpc, wreq, wblock,
                     whash, fellBack>>
  BY DEF FailAll, pool, bounds, inference, worker
<1>2. DataTypes /\ Control /\ MapSound /\ Names /\ FreshAlone /\ Counted
      /\ Lengths /\ AddingInv /\ StoringInv /\ Contents
  BY DEF CInv
<1>3. /\ ipc = "idle" /\ queue = <<>> /\ wpc = "idle" /\ Fresh = {}
      /\ \A q \in Request : phase[q] \notin {"adding", "storing", "stored"}
  BY <1>1, IdleFacts
<1>4. DataTypes'
  BY <1>1, <1>2 DEF DataTypes
<1>5. Control'
  <2>1. ASSUME NEW q \in Request
        PROVE  /\ phase'[q] \notin {"adding", "storing", "stored"}
               /\ q \in lost' => phase'[q] = "gone"
    BY <1>1, <1>2, <1>3 DEF Control
  <2>2. lost' \subseteq Request
    BY <1>4 DEF DataTypes
  <2>3. QED BY <1>1, <1>2, <1>3, <2>1, <2>2 DEF Control
<1>6. Active' = Active /\ Fresh' = {}
  <2>1. \A q \in Request : (q \in Active') <=> (q \in Active)
    BY <1>1, <1>3 DEF Active
  <2>2. Active \subseteq Request /\ Active' \subseteq Request
    BY <1>2, <1>4 DEF Active, DataTypes
  <2>3. QED BY <1>1, <1>3, <2>1, <2>2 DEF Fresh
<1>7. MapSound' /\ Contents' /\ AddingInv' /\ StoringInv'
  BY <1>1, <1>2, <1>3 DEF MapSound, Contents, Clean, AddingInv, StoringInv
<1>8. Lengths'
  BY <1>1, <1>2, <1>3, <1>6 DEF Lengths
<1>9. Names' /\ FreshAlone' /\ Counted'
  <2>1. \A q \in Active : /\ HeldAt(q)' = HeldAt(q) /\ Claimed(q)' = Claimed(q)
                          /\ \A i \in HeldAt(q) : table'[q][i] = table[q][i]
    BY <1>1 DEF HeldAt, Claimed
  <2>2. QED BY <1>1, <1>2, <1>3, <1>6, <2>1, Quiet
<1>10. QED BY <1>4, <1>5, <1>7, <1>8, <1>9 DEF CInv

LEMMA DrainInv ==
  ASSUME CInv, NEW r \in Request, Drain(r)
  PROVE  FALSE
BY DEF CInv, Control, Drain

------------------------------------------------------------------------------
\* The store worker's steps.

LEMMA StoringFacts ==
  ASSUME CInv, wpc # "idle"
  PROVE  /\ wreq \in Request /\ wreq \in Active /\ phase[wreq] = "storing" /\ wreq \notin lost
         /\ queue = <<>> /\ ipc = "idle"
         /\ \A q \in Active : HeldAt(q) = 1 .. Len(table[q]) /\ Claimed(q) = {}
         /\ Active \subseteq Request
         /\ table[wreq] \in Seq(Block \ {NullBlock}) /\ Len(table[wreq]) \in Nat
         /\ Len(table[wreq]) <= Len(Sequence[wreq])
         /\ Len(Sequence[wreq]) \in Nat
         /\ \A q \in Request : phase[q] = "storing" => q = wreq
<1>1. DataTypes /\ Control /\ Lengths
  BY DEF CInv
<1>2. /\ wreq \in Request /\ phase[wreq] = "storing" /\ queue = <<>> /\ ipc = "idle"
      /\ wreq \notin lost
  BY <1>1 DEF Control
<1>3. wreq \in Active /\ Active \subseteq Request
  BY <1>1, <1>2 DEF Active, DataTypes
<1>4. \A q \in Active : HeldAt(q) = 1 .. Len(table[q]) /\ Claimed(q) = {}
  BY <1>2 DEF HeldAt, Claimed
<1>5. table[wreq] \in Seq(Block \ {NullBlock})
  BY <1>1, <1>2 DEF DataTypes
<1>6. Len(table[wreq]) \in Nat
  BY <1>5
<1>7. Len(table[wreq]) <= Len(Sequence[wreq]) /\ Len(Sequence[wreq]) \in Nat
  BY <1>1, <1>2, <1>3, ChainFacts DEF Lengths
<1>8. ASSUME NEW q \in Request, phase[q] = "storing" PROVE q = wreq
  BY <1>1, <1>2, <1>8 DEF Control
<1>9. QED BY <1>2, <1>3, <1>4, <1>5, <1>6, <1>7, <1>8

\* A step of the worker that leaves the pool, the tables and the requests alone.
LEMMA WorkerQuiet ==
  ASSUME CInv, wpc # "register", wpc' # "register", wpc' # "idle",
         wpc' \in {"parent", "find", "share", "allocate", "save", "rollback", "index",
                   "release"},
         ipc = "idle", wreq' \in Request, phase[wreq'] = "storing",
         queue' = <<>>,
         \A r \in Request : phase[r] = "storing" => r = wreq',
         whash' \in Hash \cup {<<>>}, wblock' \in Block,
         \A h \in Hash : ssd'[h] \in {NoHash, h}, ssd' \in [Hash -> Hash \cup {NoHash}],
         index' \in [Hash -> Seq(Block)], StoringInv',
         UNCHANGED <<created, free, allocated, ref, blockHash, hashMap, overlap, phase,
                     table, context, ipc, ireq, hits, k, lost>>
  PROVE  CInv'
<1>1. DataTypes /\ Control /\ MapSound /\ Names /\ FreshAlone /\ Counted
      /\ Lengths /\ AddingInv /\ Contents
  BY DEF CInv
<1>2. DataTypes'
  BY <1>1 DEF DataTypes
<1>3. Control'
  BY <1>1 DEF Control
<1>4. Active' = Active /\ Fresh = {} /\ Fresh' = {}
  BY DEF Active, Fresh
<1>5. MapSound' /\ Contents' /\ AddingInv'
  BY <1>1 DEF MapSound, Contents, Clean, AddingInv
<1>6. Lengths'
  BY <1>1, <1>4 DEF Lengths
<1>7. Names' /\ FreshAlone' /\ Counted'
  <2>1. \A q \in Active : /\ HeldAt(q)' = HeldAt(q) /\ Claimed(q)' = Claimed(q)
                          /\ \A i \in HeldAt(q) : table'[q][i] = table[q][i]
    BY DEF HeldAt, Claimed
  <2>2. QED BY <1>1, <1>4, <2>1, Quiet
<1>8. QED BY <1>2, <1>3, <1>5, <1>6, <1>7 DEF CInv

LEMMA StoreBeginInv ==
  ASSUME CInv, StoreBegin
  PROVE  CInv'
<1>1. /\ wpc = "idle" /\ queue # <<>> /\ wreq' = Head(queue) /\ queue' = Tail(queue)
      /\ wpc' \in IF Len(table[Head(queue)]) < Len(Sequence[Head(queue)])
                  THEN {"parent"} ELSE {"index", "release"}
      /\ UNCHANGED <<created, free, allocated, ref, blockHash, hashMap, overlap, phase, table,
                     context, index, ssd, ipc, ireq, hits, k, wblock, whash, lost>>
  BY DEF StoreBegin, pool, bounds, inference
<1>2. DataTypes /\ Control /\ Lengths /\ Contents
  BY DEF CInv
<1>3. PICK r \in Request : queue = <<r>> /\ phase[r] = "storing"
  BY <1>1, <1>2 DEF Control
<1>4. wreq' = r /\ queue' = <<>> /\ Head(queue) = r
  BY <1>1, <1>3
<1>5. ipc = "idle"
  BY <1>1, <1>2 DEF Control
<1>6. \A q \in Request : phase[q] = "storing" => q = r
  <2>1. ASSUME NEW q \in Request, phase[q] = "storing" PROVE q = r
    <3>1. queue = <<q>>
      BY <1>1, <1>2, <2>1 DEF Control
    <3>2. <<q>>[1] = <<r>>[1]
      BY <1>3, <3>1
    <3>3. QED BY <3>2
  <2>2. QED BY <2>1
<1>7. /\ wpc' \in {"parent", "index", "release"}
      /\ wpc' = "parent" => Len(table[r]) < Len(Sequence[r])
  BY <1>1, <1>4
<1>8. StoringInv'
  BY <1>1, <1>4, <1>7 DEF StoringInv
<1>9. /\ whash' \in Hash \cup {<<>>} /\ wblock' \in Block /\ index' \in [Hash -> Seq(Block)]
      /\ \A h \in Hash : ssd'[h] \in {NoHash, h}
      /\ ssd' \in [Hash -> Hash \cup {NoHash}]
  BY <1>1, <1>2 DEF DataTypes, Contents
<1>10. QED BY <1>1, <1>3, <1>4, <1>5, <1>6, <1>7, <1>8, <1>9, WorkerQuiet

LEMMA WParentInv ==
  ASSUME CInv, WParent
  PROVE  CInv'
<1>0. PICK r \in Request : r = wreq
  BY StoringFacts DEF WParent
<1> DEFINE t == table[r]
           n == Len(table[r])
           named == t # <<>> /\ t[n] \in allocated /\ blockHash[t[n]] \in Hash
           parent == IF named THEN blockHash[t[n]] ELSE <<>>
<1>1. /\ wpc = "parent" /\ wpc' = "find" /\ whash' = ChainHash(parent, Sequence[r][n + 1])
      /\ UNCHANGED <<created, free, allocated, ref, blockHash, hashMap, overlap, phase, table,
                     context, index, ssd, ipc, ireq, hits, k, queue, wreq, wblock, lost>>
  BY <1>0 DEF WParent, pool, bounds, inference
<1>2. DataTypes /\ Control /\ Names /\ Lengths /\ StoringInv /\ Contents
  BY DEF CInv
<1>3. /\ r \in Active /\ phase[r] = "storing" /\ queue = <<>> /\ ipc = "idle" /\ Fresh = {}
      /\ t \in Seq(Block \ {NullBlock}) /\ n \in Nat /\ HeldAt(r) = 1 .. n
      /\ Len(Sequence[r]) \in Nat
      /\ \A q \in Request : phase[q] = "storing" => q = r
  BY <1>0, <1>1, StoringFacts DEF Fresh
<1>4. n < Len(Sequence[r])
  BY <1>0, <1>1, <1>2 DEF StoringInv
<1>5. parent = CH(r, n)
  <2>1. CASE t = <<>>
    BY <2>1, ChainFacts
  <2>2. CASE t # <<>>
    <3>1. n \in 1 .. n
      BY <1>3, <2>2
    <3>2. t[n] \in allocated /\ blockHash[t[n]] = CH(r, n)
      BY <1>2, <1>3, <3>1 DEF Names
    <3>3. CH(r, n) \in Hash
      BY <1>3, <1>4, <3>1, ChainFacts
    <3>4. QED BY <2>2, <3>2, <3>3
  <2>3. QED BY <2>1, <2>2
<1> HIDE DEF parent
<1>6. whash' = CH(r, n + 1) /\ whash' \in Hash
  <2>1. n \in 0 .. Len(Sequence[r]) - 1 /\ n + 1 \in 1 .. Len(Sequence[r])
    BY <1>3, <1>4
  <2>2. QED BY <1>1, <1>5, <2>1, ChainFacts
<1>7. StoringInv'
  BY <1>0, <1>1, <1>4, <1>6 DEF StoringInv
<1>8. /\ wblock' \in Block /\ index' \in [Hash -> Seq(Block)]
      /\ \A h \in Hash : ssd'[h] \in {NoHash, h}
      /\ ssd' \in [Hash -> Hash \cup {NoHash}]
  BY <1>1, <1>2 DEF DataTypes, Contents
<1>9. QED BY <1>0, <1>1, <1>3, <1>6, <1>7, <1>8, WorkerQuiet

LEMMA WFindInv ==
  ASSUME CInv, WFind
  PROVE  CInv'
<1>1. /\ wpc = "find"
      /\ \/ wpc' = "share" /\ wblock' \in hashMap[whash]
         \/ wpc' = "allocate" /\ UNCHANGED wblock
      /\ UNCHANGED <<created, free, allocated, ref, blockHash, hashMap, overlap, phase, table,
                     context, index, ssd, ipc, ireq, hits, k, queue, wreq, whash, lost>>
  BY DEF WFind, pool, bounds, inference
<1>2. DataTypes /\ StoringInv /\ Contents
  BY DEF CInv
<1>3. /\ wreq \in Request /\ phase[wreq] = "storing" /\ queue = <<>> /\ ipc = "idle"
      /\ Len(table[wreq]) \in Nat /\ Len(Sequence[wreq]) \in Nat
      /\ \A q \in Request : phase[q] = "storing" => q = wreq
  BY <1>1, StoringFacts
<1>4. Len(table[wreq]) < Len(Sequence[wreq]) /\ whash = CH(wreq, Len(table[wreq]) + 1)
  BY <1>1, <1>2 DEF StoringInv
<1>5. whash \in Hash
  <2>1. Len(table[wreq]) + 1 \in 1 .. Len(Sequence[wreq])
    BY <1>3, <1>4
  <2>2. QED BY <1>3, <1>4, <2>1, ChainFacts
<1>6. wblock' \in Block
  BY <1>1, <1>2, <1>5 DEF DataTypes
<1>7. StoringInv'
  BY <1>1, <1>4 DEF StoringInv
<1>8. /\ whash' \in Hash \cup {<<>>} /\ index' \in [Hash -> Seq(Block)]
      /\ \A h \in Hash : ssd'[h] \in {NoHash, h}
      /\ ssd' \in [Hash -> Hash \cup {NoHash}]
  BY <1>1, <1>2 DEF DataTypes, Contents
<1>9. QED BY <1>1, <1>3, <1>6, <1>7, <1>8, WorkerQuiet

\* The block just filed carries the hash of the chain it was computed from.
LEMMA SavedBlock ==
  ASSUME CInv, wpc \in {"save", "rollback"}
  PROVE  LET n == Len(table[wreq])
         IN  /\ n \in 1 .. n /\ n \in 1 .. Len(Sequence[wreq]) /\ n \in HeldAt(wreq)
             /\ wblock = table[wreq][n] /\ wblock \in allocated \ {NullBlock}
             /\ wblock \in Block
             /\ blockHash[wblock] = CH(wreq, n) /\ CH(wreq, n) \in Hash
             /\ CH(wreq, n) # NoHash
<1> DEFINE n == Len(table[wreq])
<1>1. DataTypes /\ Names /\ StoringInv
  BY DEF CInv
<1>2. /\ wreq \in Request /\ wreq \in Active /\ n \in Nat /\ HeldAt(wreq) = 1 .. n
      /\ table[wreq] \in Seq(Block \ {NullBlock})
      /\ n <= Len(Sequence[wreq]) /\ Len(Sequence[wreq]) \in Nat /\ Fresh = {}
  BY StoringFacts DEF Fresh
<1>3. table[wreq] # <<>> /\ wblock = table[wreq][n]
  BY <1>1 DEF StoringInv
<1>4. n \in 1 .. n /\ n \in 1 .. Len(Sequence[wreq])
  BY <1>2, <1>3
<1>5. wblock \in allocated \ {NullBlock} /\ blockHash[wblock] = CH(wreq, n)
  BY <1>1, <1>2, <1>3, <1>4 DEF Names
<1>6. wblock \in Block
  BY <1>2, <1>3, <1>4
<1>7. QED BY <1>2, <1>3, <1>4, <1>5, <1>6, ChainFacts

LEMMA WSaveInv ==
  ASSUME CInv, WSave
  PROVE  CInv'
<1>0. PICK r \in Request : r = wreq
  BY StoringFacts DEF WSave
<1> DEFINE n == Len(table[r])
           h == CH(r, n)
<1>1. /\ wpc = "save"
      /\ ssd' = [ssd EXCEPT ![blockHash[wblock]] =
                   IF @ = NoHash THEN Computed(r, n) ELSE @]
      /\ wpc' = IF n < Len(Sequence[r]) THEN "parent" ELSE "index"
      /\ UNCHANGED <<created, free, allocated, ref, blockHash, hashMap, overlap, phase, table,
                     context, index, ipc, ireq, hits, k, queue, wreq, wblock, whash, lost>>
  BY <1>0 DEF WSave, NextBlock, pool, bounds, inference
<1>2. DataTypes /\ StoringInv /\ Contents
  BY DEF CInv
<1>3. /\ phase[r] = "storing" /\ queue = <<>> /\ ipc = "idle"
      /\ \A q \in Request : phase[q] = "storing" => q = r
  BY <1>0, <1>1, StoringFacts
<1>4. blockHash[wblock] = h /\ h \in Hash
  BY <1>0, <1>1, SavedBlock
<1>5. Computed(r, n) = h
  BY <1>2 DEF Contents, Computed, CH
<1> HIDE DEF h
<1>6. ssd' = [ssd EXCEPT ![h] = IF ssd[h] = NoHash THEN h ELSE ssd[h]]
  BY <1>1, <1>4, <1>5
<1>7. /\ ssd' \in [Hash -> Hash \cup {NoHash}]
      /\ \A g \in Hash : ssd'[g] \in {NoHash, g}
  BY <1>2, <1>4, <1>6 DEF DataTypes, Contents
<1>8. StoringInv'
  BY <1>0, <1>1 DEF StoringInv
<1>9. whash' \in Hash \cup {<<>>} /\ wblock' \in Block /\ index' \in [Hash -> Seq(Block)]
  BY <1>1, <1>2 DEF DataTypes
<1>10. QED BY <1>0, <1>1, <1>3, <1>7, <1>8, <1>9, WorkerQuiet

LEMMA WSaveFailsInv ==
  ASSUME CInv, WSaveFails
  PROVE  CInv'
<1>1. /\ wpc = "save" /\ wpc' = "rollback"
      /\ UNCHANGED <<created, free, allocated, ref, blockHash, hashMap, overlap, phase, table,
                     context, index, ssd, ipc, ireq, hits, k, queue, wreq, wblock, whash, lost>>
  BY DEF WSaveFails, pool, inference
<1>2. DataTypes /\ StoringInv /\ Contents
  BY DEF CInv
<1>3. /\ wreq \in Request /\ phase[wreq] = "storing" /\ queue = <<>> /\ ipc = "idle"
      /\ \A q \in Request : phase[q] = "storing" => q = wreq
  BY <1>1, StoringFacts
<1>4. StoringInv'
  BY <1>1, <1>2 DEF StoringInv
<1>5. /\ whash' \in Hash \cup {<<>>} /\ wblock' \in Block /\ index' \in [Hash -> Seq(Block)]
      /\ \A h \in Hash : ssd'[h] \in {NoHash, h}
      /\ ssd' \in [Hash -> Hash \cup {NoHash}]
  BY <1>1, <1>2 DEF DataTypes, Contents
<1>6. QED BY <1>1, <1>3, <1>4, <1>5, WorkerQuiet

\* A block more at the end of a table.
LEMMA TableAppend ==
  ASSUME DataTypes, NEW r \in Request, NEW b \in Block \ {NullBlock},
         table' = [table EXCEPT ![r] = Append(@, b)]
  PROVE  LET n == Len(table[r])
         IN  /\ n \in Nat /\ Len(table'[r]) = n + 1 /\ table'[r][n + 1] = b
             /\ table'[r] # <<>>
             /\ \A i \in 1 .. n : table'[r][i] = table[r][i]
             /\ \A q \in Request \ {r} : table'[q] = table[q]
             /\ table' \in [Request -> Seq(Block \ {NullBlock})]
<1>1. table[r] \in Seq(Block \ {NullBlock}) /\ Len(table[r]) \in Nat
  BY DEF DataTypes
<1>2. table'[r] = Append(table[r], b) /\ \A q \in Request \ {r} : table'[q] = table[q]
  BY DEF DataTypes
<1>3. table'[r] \in Seq(Block \ {NullBlock})
  BY <1>1, <1>2, AppendProperties
<1>4. table' \in [Request -> Seq(Block \ {NullBlock})]
  BY <1>2, <1>3 DEF DataTypes
<1>5. QED BY <1>1, <1>2, <1>4, AppendProperties

LEMMA WShareInv ==
  ASSUME PInv, CInv, WShare
  PROVE  CInv'
<1>0. PICK r \in Request : r = wreq
  BY StoringFacts DEF WShare
<1> DEFINE n == Len(table[r])
           b == wblock
<1>1. /\ wpc = "share" /\ IncrementRef(b) /\ table' = [table EXCEPT ![r] = Append(@, b)]
      /\ wpc' = NextBlock(table'[r])
      /\ UNCHANGED <<created, free, allocated, blockHash, hashMap, overlap, phase, context,
                     index, ssd, ipc, ireq, hits, k, queue, wreq, wblock, whash, lost>>
  BY <1>0 DEF WShare, IncrementRef, bounds, inference
<1>2. DataTypes /\ Control /\ MapSound /\ Names /\ FreshAlone /\ Counted
      /\ Lengths /\ AddingInv /\ StoringInv /\ Contents /\ PoolTypes
  BY DEF CInv, PInv
<1>3. /\ r \in Active /\ phase[r] = "storing" /\ queue = <<>> /\ ipc = "idle" /\ Fresh = {}
      /\ n \in Nat /\ Len(Sequence[r]) \in Nat /\ Active \subseteq Request
      /\ \A q \in Active : HeldAt(q) = 1 .. Len(table[q]) /\ Claimed(q) = {}
  BY <1>0, <1>1, StoringFacts DEF Fresh
<1>4. n < Len(Sequence[r]) /\ whash = CH(r, n + 1) /\ b \in hashMap[whash]
  BY <1>0, <1>1, <1>2 DEF StoringInv
<1>5. n + 1 \in 1 .. Len(Sequence[r]) /\ n + 1 \in 0 .. Len(Sequence[r])
  BY <1>3, <1>4
<1>6. /\ b \in allocated \ {NullBlock} /\ blockHash[b] = CH(r, n + 1)
      /\ b \in Block \ {NullBlock}
  <2>1. whash \in Hash
    BY <1>3, <1>4, <1>5, ChainFacts
  <2>2. QED BY <1>2, <1>4, <2>1 DEF MapSound, DataTypes
<1> HIDE DEF b
<1>7. /\ Len(table'[r]) = n + 1 /\ table'[r][n + 1] = b
      /\ \A i \in 1 .. n : table'[r][i] = table[r][i]
      /\ \A q \in Request \ {r} : table'[q] = table[q]
      /\ table' \in [Request -> Seq(Block \ {NullBlock})]
  BY <1>1, <1>2, <1>6, TableAppend
<1> HIDE DEF n
<1>8. wpc' \in {"parent", "index"} /\ (wpc' = "parent" => n + 1 < Len(Sequence[r]))
  BY <1>0, <1>1, <1>7 DEF NextBlock
<1>9. /\ Active' = Active /\ Fresh' = {}
      /\ \A q \in Active : HeldAt(q)' = 1 .. Len(table'[q]) /\ Claimed(q)' = {}
  BY <1>1, <1>3, <1>8 DEF Active, Fresh, HeldAt, Claimed
<1>10. \A i : i \in 1 .. n + 1 <=> i \in 1 .. n \/ i = n + 1
  BY <1>3
<1>11. /\ HeldAt(r) = 1 .. n /\ HeldAt(r)' = 1 .. n + 1
       /\ Held(r) = {table[r][i] : i \in 1 .. n}
       /\ Held(r)' = {table'[r][i] : i \in 1 .. n + 1}
  BY <1>3, <1>7, <1>9 DEF Held, n
<1>12. \A q \in Active \ {r} : Held(q)' = Held(q) /\ HeldAt(q)' = HeldAt(q)
  BY <1>3, <1>7, <1>9 DEF Held
<1>13. Held(r)' = Held(r) \cup {b}
  <2>1. \A c : c \in Held(r)' <=> c \in Held(r) \/ c = b
    BY <1>7, <1>10, <1>11
  <2>2. QED BY <2>1
<1>14. b \notin Held(r)
  <2>1. ASSUME NEW i \in 1 .. n, table[r][i] = b PROVE FALSE
    <3>1. blockHash[b] = CH(r, i)
      BY <1>2, <1>3, <1>11, <2>1 DEF Names
    <3>2. i \in 0 .. Len(Sequence[r]) /\ i # n + 1
      BY <1>3, <1>4
    <3>3. QED BY <1>5, <1>6, <3>1, <3>2, ChainFacts
  <2>2. QED BY <1>11, <2>1
<1>15. Counted' /\ ref' \in [Block -> Int]
  BY <1>1, <1>2, <1>3, <1>6, <1>9, <1>12, <1>13, <1>14, TakeOn
<1>16. DataTypes'
  BY <1>1, <1>2, <1>7, <1>15 DEF DataTypes
<1>17. Control'
  BY <1>1, <1>2, <1>3, <1>8 DEF Control
<1>18. MapSound' /\ Contents' /\ AddingInv' /\ FreshAlone'
  BY <1>1, <1>2, <1>3, <1>8 DEF MapSound, Contents, Clean, AddingInv, FreshAlone
<1>19. Lengths'
  <2>1. Len(table'[r]) <= Len(Sequence[r])
    BY <1>5, <1>7
  <2>2. QED BY <1>1, <1>2, <1>3, <1>7, <1>9, <2>1 DEF Lengths
<1>20. Names'
  <2>1. ASSUME NEW q \in Active, NEW i \in HeldAt(q)'
        PROVE  /\ table'[q][i] \in allocated \ {NullBlock}
               /\ blockHash[table'[q][i]] = CH(q, i)
    <3>1. CASE q = r
      <4>1. i \in 1 .. n \/ i = n + 1
        BY <1>10, <1>11, <2>1, <3>1
      <4>2. QED BY <1>2, <1>3, <1>6, <1>7, <1>11, <3>1, <4>1 DEF Names
    <3>2. CASE q # r
      BY <1>2, <1>3, <1>7, <1>12, <2>1, <3>2 DEF Names
    <3>3. QED BY <3>1, <3>2
  <2>2. QED BY <1>1, <1>9, <2>1 DEF Names
<1>21. StoringInv'
  BY <1>0, <1>1, <1>7, <1>8 DEF StoringInv
<1>22. QED BY <1>15, <1>16, <1>17, <1>18, <1>19, <1>20, <1>21 DEF CInv

LEMMA WAllocateInv ==
  ASSUME PInv, CInv, WAllocate
  PROVE  CInv'
<1>0. PICK r \in Request : r = wreq
  BY StoringFacts DEF WAllocate
<1> DEFINE n == Len(table[r])
<1>1. /\ wpc = "allocate"
      /\ \/ \E b \in Block : /\ AllocateBlock(b) /\ wblock' = b
                             /\ table' = [table EXCEPT ![r] = Append(@, b)]
                             /\ wpc' = "register"
         \/ /\ wpc' = "index"
            /\ UNCHANGED <<created, free, allocated, ref, blockHash, hashMap, wblock, table>>
      /\ UNCHANGED <<overlap, phase, context, index, ssd, ipc, ireq, hits, k, queue, wreq,
                     whash, lost>>
  BY <1>0 DEF WAllocate, pool, bounds, inference
<1>2. DataTypes /\ Control /\ MapSound /\ Names /\ FreshAlone /\ Counted
      /\ Lengths /\ AddingInv /\ StoringInv /\ Contents /\ PoolTypes /\ FreeListExact
  BY DEF CInv, PInv
<1>3. /\ r \in Active /\ phase[r] = "storing" /\ queue = <<>> /\ ipc = "idle" /\ Fresh = {}
      /\ n \in Nat /\ Len(Sequence[r]) \in Nat /\ Active \subseteq Request
      /\ \A q \in Active : HeldAt(q) = 1 .. Len(table[q]) /\ Claimed(q) = {}
      /\ \A q \in Request : phase[q] = "storing" => q = r
  BY <1>0, <1>1, StoringFacts DEF Fresh
<1>4. n < Len(Sequence[r]) /\ whash = CH(r, n + 1)
  BY <1>0, <1>1, <1>2 DEF StoringInv
<1>5. ASSUME wpc' = "index",
             UNCHANGED <<created, free, allocated, ref, blockHash, hashMap, wblock, table>>
      PROVE  CInv'
  <2>1. StoringInv'
    BY <1>5 DEF StoringInv
  <2>2. /\ whash' \in Hash \cup {<<>>} /\ wblock' \in Block /\ index' \in [Hash -> Seq(Block)]
        /\ \A h \in Hash : ssd'[h] \in {NoHash, h}
        /\ ssd' \in [Hash -> Hash \cup {NoHash}]
    BY <1>1, <1>2, <1>5 DEF DataTypes, Contents
  <2>3. QED BY <1>0, <1>1, <1>3, <1>5, <2>1, <2>2, WorkerQuiet
<1>6. ASSUME NEW b \in Block, AllocateBlock(b), wblock' = b,
             table' = [table EXCEPT ![r] = Append(@, b)], wpc' = "register"
      PROVE  CInv'
  <2>1. /\ b \notin allocated /\ b # NullBlock /\ allocated' = allocated \cup {b}
        /\ ref' = [ref EXCEPT ![b] = 1] /\ hashMap' = Unmapped(blockHash[b], b)
        /\ blockHash' = [blockHash EXCEPT ![b] = NoHash] \/ blockHash' = blockHash
    BY <1>2, <1>6, TakeFreeFacts DEF AllocateBlock
  <2>2. /\ blockHash \in [Block -> Hash \cup {NoHash}] /\ ref \in [Block -> Int]
        /\ hashMap \in [Hash -> SUBSET Block]
    BY <1>2 DEF DataTypes
  <2>3. /\ \A c \in allocated : blockHash'[c] = blockHash[c] /\ ref'[c] = ref[c]
        /\ ref'[b] = 1 /\ ref' \in [Block -> Int]
        /\ blockHash' \in [Block -> Hash \cup {NoHash}]
    BY <1>2, <2>1, <2>2 DEF PoolTypes
  <2>4. /\ hashMap' \in [Hash -> SUBSET Block]
        /\ \A h \in Hash : hashMap'[h] = hashMap[h] /\ b \notin hashMap'[h]
    BY <1>2, <2>1, <2>2, UnmappedType DEF Unmapped, MapSound
  <2>5. /\ Len(table'[r]) = n + 1 /\ table'[r][n + 1] = b /\ table'[r] # <<>>
        /\ \A i \in 1 .. n : table'[r][i] = table[r][i]
        /\ \A q \in Request \ {r} : table'[q] = table[q]
        /\ table' \in [Request -> Seq(Block \ {NullBlock})]
    <3>1. b \in Block \ {NullBlock} /\ table' = [table EXCEPT ![r] = Append(@, b)]
      BY <1>6, <2>1
    <3>2. QED BY <1>2, <3>1, TableAppend
  <2> HIDE DEF n
  <2>6. /\ Active' = Active /\ Fresh' = {b}
        /\ \A q \in Active : HeldAt(q)' = 1 .. Len(table'[q]) /\ Claimed(q)' = {}
    BY <1>1, <1>3, <1>6 DEF Active, Fresh, HeldAt, Claimed
  <2>7. \A i : i \in 1 .. n + 1 <=> i \in 1 .. n \/ i = n + 1
    BY <1>3
  <2>8. /\ HeldAt(r) = 1 .. n /\ HeldAt(r)' = 1 .. n + 1
        /\ Held(r) = {table[r][i] : i \in 1 .. n}
        /\ Held(r)' = {table'[r][i] : i \in 1 .. n + 1}
    BY <1>3, <2>5, <2>6 DEF Held, n
  <2>9. \A q \in Active \ {r} : Held(q)' = Held(q) /\ HeldAt(q)' = HeldAt(q)
    BY <1>3, <2>5, <2>6 DEF Held
  <2>10. Held(r)' = Held(r) \cup {b}
    <3>1. \A c : c \in Held(r)' <=> c \in Held(r) \/ c = b
      BY <2>5, <2>7, <2>8
    <3>2. QED BY <3>1
  <2>11. \A q \in Active : Held(q) \subseteq allocated \ {NullBlock}
    BY <1>2, <1>3 DEF Held, Names
  <2>12. DataTypes'
    BY <1>1, <1>2, <1>6, <2>3, <2>4, <2>5 DEF DataTypes
  <2>13. Control'
    BY <1>0, <1>1, <1>2, <1>3, <1>6 DEF Control
  <2>14. MapSound'
    BY <1>2, <2>1, <2>3, <2>4 DEF MapSound
  <2>15. Contents' /\ AddingInv'
    BY <1>1, <1>2, <1>3 DEF Contents, Clean, AddingInv
  <2>16. Lengths'
    <3>1. Len(table'[r]) <= Len(Sequence[r])
      BY <1>3, <1>4, <2>5
    <3>2. QED BY <1>1, <1>2, <1>3, <2>5, <2>6, <3>1 DEF Lengths
  <2>17. ASSUME NEW q \in Active, NEW i \in HeldAt(q)'
         PROVE  \/ q = r /\ i = n + 1
                \/ /\ i \in HeldAt(q) /\ table'[q][i] = table[q][i]
                   /\ table[q][i] \in allocated \ {NullBlock} /\ table[q][i] # b
                   /\ blockHash[table[q][i]] = CH(q, i)
    <3>1. CASE q = r
      <4>1. i \in 1 .. n \/ i = n + 1
        BY <2>7, <2>8, <2>17, <3>1
      <4>2. QED BY <1>2, <1>3, <2>1, <2>5, <2>8, <3>1, <4>1 DEF Names
    <3>2. CASE q # r
      BY <1>2, <1>3, <2>1, <2>5, <2>9, <2>17, <3>2 DEF Names
    <3>3. QED BY <3>1, <3>2
  <2>18. Names'
    <3>1. ASSUME NEW q \in Active, NEW i \in HeldAt(q)'
          PROVE  /\ table'[q][i] \in allocated' \ {NullBlock}
                 /\ table'[q][i] \notin Fresh' => blockHash'[table'[q][i]] = CH(q, i)
      BY <2>1, <2>3, <2>5, <2>6, <2>17, <3>1
    <3>2. QED BY <2>6, <3>1 DEF Names
  <2>19. FreshAlone'
    <3>1. ASSUME NEW q \in Active, NEW i \in HeldAt(q)', table'[q][i] = b
          PROVE  q = r /\ i = n + 1
      BY <2>17, <3>1
    <3>2. QED BY <1>0, <1>1, <1>6, <2>4, <2>5, <2>6, <3>1 DEF FreshAlone
  <2>20. Counted'
    <3>1. ASSUME NEW c \in allocated' \ {NullBlock}
          PROVE  ref'[c] = Cardinality(Holders(c)')
      <4>1. CASE c = b
        <5>1. \A q \in Active : q \in Holders(c)' <=> q = r
          BY <1>3, <2>1, <2>6, <2>9, <2>10, <2>11, <4>1 DEF Holders
        <5>2. Holders(c)' \subseteq Active
          BY <2>6 DEF Holders
        <5>3. Holders(c)' = {r}
          BY <1>3, <5>1, <5>2
        <5>4. QED BY <2>3, <4>1, <5>3, FS_Singleton
      <4>2. CASE c # b
        <5>1. \A q \in Active : c \in Held(q)' <=> c \in Held(q)
          BY <2>9, <2>10, <4>2
        <5>2. Holders(c)' = Holders(c)
          BY <2>6, <5>1 DEF Holders
        <5>3. QED BY <1>2, <2>1, <2>3, <3>1, <4>2, <5>2 DEF Counted
      <4>3. QED BY <4>1, <4>2
    <3>2. QED BY <3>1 DEF Counted
  <2>21. StoringInv'
    BY <1>0, <1>1, <1>4, <1>6, <2>5 DEF StoringInv
  <2>22. QED
    BY <2>12, <2>13, <2>14, <2>15, <2>16, <2>18, <2>19, <2>20, <2>21 DEF CInv
<1>7. QED BY <1>1, <1>5, <1>6


LEMMA WRegisterInv ==
  ASSUME CInv, WRegister
  PROVE  CInv'
<1>0. PICK r \in Request : r = wreq
  BY StoringFacts DEF WRegister
<1> DEFINE n == Len(table[r])
           b == wblock
           h == whash
<1>1. /\ wpc = "register" /\ wpc' = "save"
      /\ blockHash' = [blockHash EXCEPT ![b] = h]
      /\ hashMap' = [hashMap EXCEPT ![h] = @ \cup {b}]
      /\ UNCHANGED <<created, free, allocated, ref, overlap, phase, table, context, index,
                     ssd, ipc, ireq, hits, k, queue, wreq, wblock, whash, lost>>
  BY DEF WRegister, RegisterHash, bounds, inference
<1>2. DataTypes /\ Control /\ MapSound /\ Names /\ FreshAlone /\ Counted
      /\ Lengths /\ AddingInv /\ StoringInv /\ Contents
  BY DEF CInv
<1>3. /\ r \in Active /\ n \in Nat /\ n <= Len(Sequence[r]) /\ Len(Sequence[r]) \in Nat
      /\ table[r] \in Seq(Block \ {NullBlock})
      /\ \A q \in Active : HeldAt(q) = 1 .. Len(table[q]) /\ Claimed(q) = {}
  BY <1>0, <1>1, StoringFacts
<1>4. table[r] # <<>> /\ b = table[r][n] /\ h = CH(r, n)
  BY <1>0, <1>1, <1>2 DEF StoringInv
<1>5. n \in 1 .. n /\ n \in 1 .. Len(Sequence[r]) /\ n \in HeldAt(r)
  BY <1>3, <1>4
<1>6. b \in Block /\ h \in Hash /\ b \in allocated \ {NullBlock}
  <2>1. b \in Block
    BY <1>3, <1>4, <1>5
  <2>2. h \in Hash
    BY <1>4, <1>5, ChainFacts
  <2>3. b \in allocated \ {NullBlock}
    BY <1>2, <1>3, <1>4, <1>5 DEF Names
  <2>4. QED BY <2>1, <2>2, <2>3
<1>7. /\ \A g \in Hash : b \notin hashMap[g]
      /\ \A q \in Active : \A i \in HeldAt(q) : table[q][i] = b => q = r /\ i = n
  BY <1>0, <1>1, <1>2 DEF FreshAlone
<1> HIDE DEF b, h
<1>8. /\ blockHash' \in [Block -> Hash \cup {NoHash}] /\ hashMap' \in [Hash -> SUBSET Block]
      /\ blockHash'[b] = h /\ \A c : c # b => blockHash'[c] = blockHash[c]
      /\ \A g \in Hash : hashMap'[g] = IF g = h THEN hashMap[g] \cup {b} ELSE hashMap[g]
  <2>1. blockHash \in [Block -> Hash \cup {NoHash}] /\ hashMap \in [Hash -> SUBSET Block]
    BY <1>2 DEF DataTypes
  <2>2. QED BY <1>1, <1>6, <2>1
<1>9. DataTypes'
  BY <1>1, <1>2, <1>8 DEF DataTypes
<1>10. Control'
  BY <1>1, <1>2 DEF Control
<1>11. MapSound'
  <2>1. ASSUME NEW g \in Hash, NEW c \in hashMap'[g]
        PROVE  c \in allocated \ {NullBlock} /\ blockHash'[c] = g
    <3>1. CASE c = b
      BY <1>6, <1>7, <1>8, <2>1, <3>1
    <3>2. CASE c # b
      BY <1>2, <1>8, <2>1, <3>2 DEF MapSound
    <3>3. QED BY <3>1, <3>2
  <2>2. QED BY <1>1, <2>1 DEF MapSound
<1>12. /\ Active' = Active /\ Fresh = {b} /\ Fresh' = {}
       /\ \A q \in Active : HeldAt(q)' = HeldAt(q) /\ Held(q)' = Held(q)
  BY <1>1 DEF Active, Fresh, HeldAt, Held, Claimed, b
<1>13. Names'
  <2>1. ASSUME NEW q \in Active, NEW i \in HeldAt(q)
        PROVE  /\ table[q][i] \in allocated \ {NullBlock}
               /\ blockHash'[table[q][i]] = CH(q, i)
    <3>1. CASE table[q][i] = b
      BY <1>4, <1>6, <1>7, <1>8, <2>1, <3>1 DEF h
    <3>2. CASE table[q][i] # b
      BY <1>2, <1>8, <1>12, <2>1, <3>2 DEF Names
    <3>3. QED BY <3>1, <3>2
  <2>2. QED BY <1>1, <1>12, <2>1 DEF Names
<1>14. FreshAlone'
  BY <1>1 DEF FreshAlone
<1>15. Counted'
  <2>1. \A c : Holders(c)' = Holders(c)
    BY <1>12 DEF Holders
  <2>2. QED BY <1>1, <1>2, <2>1 DEF Counted
<1>16. Lengths' /\ AddingInv' /\ Contents'
  <2>1. ipc' = "idle"
    BY <1>1, StoringFacts
  <2>2. QED BY <1>1, <1>2, <1>12, <2>1 DEF Lengths, AddingInv, Contents, Clean
<1>17. StoringInv'
  BY <1>1, <1>2 DEF StoringInv
<1>18. QED
  BY <1>9, <1>10, <1>11, <1>13, <1>14, <1>15, <1>16, <1>17 DEF CInv

\* The block whose save failed leaves the table and gives its reference back.
LEMMA WRollbackInv ==
  ASSUME PInv, CInv, WRollback
  PROVE  CInv'
<1>0. PICK r \in Request : r = wreq
  BY StoringFacts DEF WRollback
<1> DEFINE n == Len(table[r])
           b == wblock
<1>1. /\ wpc = "rollback" /\ FreeBlock(b) /\ wpc' = "index"
      /\ table' = [table EXCEPT ![r] = Prefix(@, n - 1)]
      /\ UNCHANGED <<overlap, phase, context, index, ssd, ipc, ireq, hits, k, queue, wreq,
                     wblock, whash, lost>>
  BY <1>0 DEF WRollback, bounds, inference
<1>2. DataTypes /\ Control /\ MapSound /\ Names /\ FreshAlone /\ Counted
      /\ Lengths /\ AddingInv /\ StoringInv /\ Contents /\ PoolTypes
  BY DEF CInv, PInv
<1>3. /\ r \in Active /\ phase[r] = "storing" /\ queue = <<>> /\ ipc = "idle" /\ Fresh = {}
      /\ n \in Nat /\ Len(Sequence[r]) \in Nat /\ Active \subseteq Request
      /\ table[r] \in Seq(Block \ {NullBlock}) /\ n <= Len(Sequence[r])
      /\ \A q \in Active : HeldAt(q) = 1 .. Len(table[q]) /\ Claimed(q) = {}
  BY <1>0, <1>1, StoringFacts DEF Fresh
<1>4. /\ n \in 1 .. n /\ n \in HeldAt(r) /\ b = table[r][n]
      /\ b \in allocated \ {NullBlock}
  BY <1>0, <1>1, SavedBlock
<1> HIDE DEF b
<1>5. /\ Len(table'[r]) = n - 1
      /\ \A i \in 1 .. n - 1 : table'[r][i] = table[r][i]
      /\ \A q \in Request \ {r} : table'[q] = table[q]
      /\ table' \in [Request -> Seq(Block \ {NullBlock})]
  <2>1. table'[r] = Prefix(table[r], n - 1) /\ \A q \in Request \ {r} : table'[q] = table[q]
    BY <1>1, <1>2 DEF DataTypes
  <2>2. n - 1 \in 0 .. Len(table[r])
    BY <1>3, <1>4
  <2> HIDE DEF n
  <2>3. /\ Prefix(table[r], n - 1) \in Seq(Block \ {NullBlock})
        /\ Len(Prefix(table[r], n - 1)) = n - 1
        /\ \A i \in 1 .. n - 1 : Prefix(table[r], n - 1)[i] = table[r][i]
    BY <1>3, <2>2, PrefixFacts
  <2>4. table' \in [Request -> Seq(Block \ {NullBlock})]
    BY <1>1, <1>2, <2>1, <2>3 DEF DataTypes
  <2>5. QED BY <2>1, <2>3, <2>4
<1>6. \A i : i \in 1 .. n <=> i \in 1 .. n - 1 \/ i = n
  BY <1>3, <1>4
<1>7. /\ Active' = Active /\ Fresh' = {}
      /\ \A q \in Active : HeldAt(q)' = 1 .. Len(table'[q]) /\ Claimed(q)' = {}
  BY <1>1, <1>3 DEF Active, Fresh, HeldAt, Claimed
<1>8. HeldAt(r) = 1 .. n /\ HeldAt(r)' = 1 .. n - 1
  BY <1>3, <1>5, <1>7
<1> HIDE DEF n
<1>9. \A i \in 1 .. n - 1 : table[r][i] # b
  <2>1. ASSUME NEW i \in 1 .. n - 1, table[r][i] = b PROVE FALSE
    <3>1. i \in HeldAt(r) /\ i # n
      BY <1>3, <1>6, <1>8
    <3>2. QED BY <1>2, <1>3, <1>4, <2>1, <3>1, NamedOnce
  <2>2. QED BY <2>1
<1>10. Held(r) = {table[r][i] : i \in 1 .. n} /\ Held(r)' = {table'[r][i] : i \in 1 .. n - 1}
  BY <1>3, <1>7, <1>8 DEF Held
<1>11. Held(r)' = Held(r) \ {b} /\ b \in Held(r)
  <2>1. \A c : c \in Held(r)' <=> c \in Held(r) /\ c # b
    BY <1>4, <1>5, <1>6, <1>9, <1>10
  <2>2. QED BY <1>4, <1>10, <2>1
<1>12. \A q \in Active \ {r} : Held(q)' = Held(q) /\ HeldAt(q)' = HeldAt(q)
  BY <1>3, <1>5, <1>7 DEF Held
<1>13. \A q \in Active : \A i \in HeldAt(q)' : i \in HeldAt(q) /\ table'[q][i] = table[q][i]
  <2>1. ASSUME NEW q \in Active, NEW i \in HeldAt(q)'
        PROVE  i \in HeldAt(q) /\ table'[q][i] = table[q][i]
    <3>1. CASE q = r
      BY <1>5, <1>6, <1>8, <2>1, <3>1
    <3>2. CASE q # r
      BY <1>3, <1>5, <1>12, <2>1, <3>2
    <3>3. QED BY <3>1, <3>2
  <2>2. QED BY <2>1
<1>14. /\ Names' /\ FreshAlone' /\ Counted' /\ MapSound'
       /\ ref' \in [Block -> Int] /\ hashMap' \in [Hash -> SUBSET Block]
       /\ blockHash' = blockHash
  <2>1. b \in Held(r) \cap (allocated \ {NullBlock}) /\ wpc' # "register"
    BY <1>1, <1>4, <1>11
  <2>2. QED BY <1>1, <1>2, <1>3, <1>7, <1>11, <1>12, <1>13, <2>1, GiveUp
<1>15. DataTypes'
  BY <1>1, <1>2, <1>5, <1>14 DEF DataTypes
<1>16. Control'
  BY <1>0, <1>1, <1>2, <1>3 DEF Control
<1>17. AddingInv' /\ Contents' /\ StoringInv'
  BY <1>1, <1>2, <1>3 DEF AddingInv, Contents, Clean, StoringInv
<1>18. Lengths'
  <2>1. Len(table'[r]) <= Len(Sequence[r])
    BY <1>3, <1>4, <1>5 DEF n
  <2>2. QED BY <1>1, <1>2, <1>3, <1>5, <1>7, <2>1 DEF Lengths
<1>19. QED BY <1>14, <1>15, <1>16, <1>17, <1>18 DEF CInv

\* A job that ends: without overlap the request is gone with it.
LEMMA StoredFacts ==
  ASSUME CInv, Calm, wpc # "idle", Stored
  PROVE  /\ phase' = [phase EXCEPT ![wreq] = "gone"]
         /\ wpc' = "idle" /\ wblock' \in Block /\ whash' \in Hash \cup {<<>>}
<1>1. phase[wreq] = "storing" /\ wblock' = NullBlock /\ wpc' = "idle" /\ whash' = <<>>
  BY StoringFacts DEF Stored
<1>2. NullBlock \in Block
  BY PoolAssumption DEF NullBlock, Block
<1>3. QED BY <1>1, <1>2 DEF Stored, Calm

LEMMA WRaisesInv ==
  ASSUME CInv, Calm, WRaises
  PROVE  CInv'
<1>0. PICK r \in Request : r = wreq
  BY StoringFacts DEF WRaises
<1>1. /\ wpc = "save" /\ lost' = lost \cup {r}
      /\ phase' = [phase EXCEPT ![r] = "gone"]
      /\ wpc' = "idle" /\ wblock' \in Block /\ whash' \in Hash \cup {<<>>}
      /\ UNCHANGED <<created, free, allocated, ref, blockHash, hashMap, overlap, table, context,
                     index, ssd, ipc, ireq, hits, k, queue>>
  BY <1>0, StoredFacts DEF WRaises, pool, inference
<1>2. DataTypes /\ Control /\ MapSound /\ Names /\ FreshAlone /\ Counted
      /\ Lengths /\ AddingInv /\ StoringInv /\ Contents
  BY DEF CInv
<1>3. /\ r \in Active /\ phase[r] = "storing" /\ queue = <<>> /\ ipc = "idle" /\ Fresh = {}
      /\ \A q \in Request : phase[q] = "storing" => q = r
  BY <1>0, <1>1, StoringFacts DEF Fresh
<1>4. DataTypes'
  BY <1>1, <1>2 DEF DataTypes
<1>5. /\ phase'[r] = "gone" /\ \A q \in Request \ {r} : phase'[q] = phase[q]
  BY <1>1, <1>2 DEF DataTypes
<1>6. Control'
  BY <1>1, <1>2, <1>3, <1>5 DEF Control
<1>7. Active' = Active /\ Fresh' = {}
  <2>1. \A q \in Request : q \in Active' <=> q \in Active
    BY <1>1, <1>3, <1>5 DEF Active
  <2>2. Active \subseteq Request /\ Active' \subseteq Request
    BY <1>2, <1>4 DEF Active, DataTypes
  <2>3. QED BY <1>1, <2>1, <2>2 DEF Fresh
<1>8. MapSound' /\ Contents' /\ AddingInv' /\ StoringInv'
  BY <1>1, <1>2, <1>3 DEF MapSound, Contents, Clean, AddingInv, StoringInv
<1>9. Lengths'
  BY <1>1, <1>2, <1>5, <1>7 DEF Lengths
<1>10. Names' /\ FreshAlone' /\ Counted'
  <2>1. \A q \in Active : /\ HeldAt(q)' = HeldAt(q) /\ Claimed(q)' = Claimed(q)
                          /\ \A i \in HeldAt(q) : table'[q][i] = table[q][i]
    BY <1>1 DEF HeldAt, Claimed
  <2>2. QED BY <1>1, <1>2, <1>3, <1>7, <2>1, Quiet
<1>11. QED BY <1>4, <1>6, <1>8, <1>9, <1>10 DEF CInv

LEMMA WReleaseInv ==
  ASSUME PInv, CInv, Calm, WRelease
  PROVE  CInv'
<1>0. PICK r \in Request : r = wreq
  BY StoringFacts DEF WRelease
<1>1. /\ wpc = "release" /\ ReleaseForEviction(Occurrences(table[r]))
      /\ phase' = [phase EXCEPT ![r] = "gone"]
      /\ wpc' = "idle" /\ wblock' \in Block /\ whash' \in Hash \cup {<<>>}
      /\ UNCHANGED <<created, free, allocated, blockHash, hashMap, overlap, table, context,
                     index, ssd, ipc, ireq, hits, k, queue, lost>>
  BY <1>0, StoredFacts DEF WRelease, ReleaseForEviction, bounds, inference
<1>2. DataTypes /\ Control /\ MapSound /\ Names /\ FreshAlone /\ Counted
      /\ Lengths /\ AddingInv /\ StoringInv /\ Contents /\ PoolTypes
  BY DEF CInv, PInv
<1>3. /\ r \in Active /\ r \notin lost /\ phase[r] = "storing" /\ queue = <<>>
      /\ ipc = "idle" /\ Fresh = {}
      /\ \A q \in Active : HeldAt(q) = 1 .. Len(table[q]) /\ Claimed(q) = {}
      /\ \A q \in Request : phase[q] = "storing" => q = r
  BY <1>0, <1>1, StoringFacts DEF Fresh
<1>4. /\ phase'[r] = "gone" /\ \A q \in Request \ {r} : phase'[q] = phase[q]
      /\ phase' \in [Request -> {"new", "adding", "running", "storing", "stored", "gone"}]
  BY <1>1, <1>2 DEF DataTypes
<1>5. Active' = Active \ {r} /\ Fresh' = {}
  <2>1. \A q \in Request : q \in Active' <=> q \in Active /\ q # r
    BY <1>1, <1>3, <1>4 DEF Active
  <2>2. Active \subseteq Request /\ Active' \subseteq Request
    BY <1>1, <1>2 DEF Active, DataTypes
  <2>3. QED BY <1>1, <2>1, <2>2 DEF Fresh
<1>6. \A q \in Active : HeldAt(q)' = HeldAt(q) /\ Claimed(q)' = Claimed(q) /\ Held(q)' = Held(q)
  BY <1>1 DEF HeldAt, Claimed, Held
<1>7. Counted' /\ ref' \in [Block -> Int]
  BY <1>1, <1>2, <1>3, <1>5, <1>6, LetGo
<1>8. DataTypes'
  BY <1>1, <1>2, <1>4, <1>7 DEF DataTypes
<1>9. Control'
  BY <1>1, <1>2, <1>3, <1>4 DEF Control
<1>10. MapSound' /\ Contents' /\ AddingInv' /\ StoringInv' /\ FreshAlone'
  BY <1>1, <1>2, <1>3 DEF MapSound, Contents, Clean, AddingInv, StoringInv, FreshAlone
<1>11. Lengths'
  BY <1>1, <1>2, <1>4, <1>5 DEF Lengths
<1>12. Names'
  BY <1>1, <1>2, <1>3, <1>5, <1>6 DEF Names
<1>13. QED BY <1>7, <1>8, <1>9, <1>10, <1>11, <1>12 DEF CInv

LEMMA SSDEvictInv ==
  ASSUME CInv, SSDEvict
  PROVE  CInv'
<1>1. PICK h \in Hash : ssd' = [ssd EXCEPT ![h] = NoHash]
  BY DEF SSDEvict
<1>2. UNCHANGED <<created, free, allocated, ref, blockHash, hashMap, overlap, phase, table,
                  context, index, ipc, ireq, hits, k, queue, wpc, wreq, wblock, whash, lost>>
  BY DEF SSDEvict, pool, inference, worker
<1>3. DataTypes /\ Control /\ MapSound /\ Names /\ FreshAlone /\ Counted
      /\ Lengths /\ AddingInv /\ StoringInv /\ Contents
  BY DEF CInv
<1>4. /\ ssd' \in [Hash -> Hash \cup {NoHash}]
      /\ \A g \in Hash : ssd'[g] \in {NoHash, g}
  BY <1>1, <1>3 DEF DataTypes, Contents
<1>5. DataTypes' /\ Contents'
  BY <1>2, <1>3, <1>4 DEF DataTypes, Contents, Clean
<1>6. Control' /\ MapSound' /\ Lengths' /\ AddingInv' /\ StoringInv'
  BY <1>2, <1>3 DEF Control, MapSound, Lengths, Active, AddingInv, StoringInv
<1>7. Names' /\ FreshAlone' /\ Counted'
  <2>1. /\ Active' = Active /\ Fresh' = Fresh
        /\ \A q \in Active : HeldAt(q)' = HeldAt(q) /\ Held(q)' = Held(q)
    BY <1>2 DEF Active, Fresh, HeldAt, Claimed, Held
  <2>2. \A b : Holders(b)' = Holders(b)
    BY <2>1 DEF Holders
  <2>3. QED BY <1>2, <1>3, <2>1, <2>2 DEF Names, FreshAlone, Counted
<1>8. QED BY <1>5, <1>6, <1>7 DEF CInv

\* Every block of the table is allocated and carries its own chain: the index
\* gets each prefix of the table under the chain it is of, and no block a hash.
LEMMA WIndexInv ==
  ASSUME CInv, WIndex
  PROVE  CInv'
<1> DEFINE t == table[wreq]
           n == Len(t)
           unnamed(b) == b \in allocated /\ blockHash[b] = NoHash
           name[i \in 0 .. Len(t)] ==
             IF i = 0 THEN <<>>
             ELSE IF t[i] \in allocated /\ blockHash[t[i]] # NoHash THEN blockHash[t[i]]
             ELSE ChainHash(name[i - 1], Sequence[wreq][i])
           lengths(h) == {i \in 1 .. Len(t) : name[i] = h}
<1>1. /\ wpc = "index" /\ wpc' = "release"
      /\ index' = [h \in Hash |->
                     IF lengths(h) = {} THEN index[h] ELSE Prefix(t, Max(lengths(h)))]
      /\ blockHash' = [b \in Block |->
           LET at == {i \in 1 .. Len(t) : t[i] = b}
           IN IF at # {} /\ unnamed(b) THEN name[Min(at)] ELSE blockHash[b]]
  BY DEF WIndex
<1>2. UNCHANGED <<created, free, allocated, ref, hashMap, overlap, phase, table,
                  context, ssd, ipc, ireq, hits, k, queue, wreq, wblock, whash, lost>>
  BY DEF WIndex, bounds, inference
<1>3. DataTypes /\ Control /\ Names /\ StoringInv /\ Contents
  BY DEF CInv
<1>4. /\ wreq \in Request /\ wreq \in Active /\ phase[wreq] = "storing" /\ queue = <<>>
      /\ ipc = "idle" /\ Fresh = {} /\ HeldAt(wreq) = 1 .. n
      /\ t \in Seq(Block \ {NullBlock}) /\ n \in Nat
      /\ n <= Len(Sequence[wreq]) /\ Len(Sequence[wreq]) \in Nat
      /\ \A q \in Request : phase[q] = "storing" => q = wreq
  BY <1>1, StoringFacts DEF Fresh
<1>5. ASSUME NEW i \in 1 .. n
      PROVE  /\ t[i] \in allocated /\ blockHash[t[i]] = CH(wreq, i)
             /\ CH(wreq, i) \in Hash /\ CH(wreq, i) # NoHash
  <2>1. i \in 1 .. Len(Sequence[wreq])
    BY <1>4
  <2>2. t[i] \in allocated /\ blockHash[t[i]] = CH(wreq, i)
    BY <1>3, <1>4 DEF Names
  <2>3. QED BY <1>4, <2>1, <2>2, ChainFacts
<1>6. \A i \in 1 .. n : name[i] = blockHash[t[i]]
  <2> DEFINE body(f) ==
        [i \in 0 .. Len(t) |->
             IF i = 0 THEN <<>>
             ELSE IF t[i] \in allocated /\ blockHash[t[i]] # NoHash THEN blockHash[t[i]]
             ELSE ChainHash(f[i - 1], Sequence[wreq][i])]
      g == [i \in 0 .. Len(t) |-> IF i = 0 THEN <<>> ELSE blockHash[t[i]]]
  <2>1. name = CHOOSE f : f = body(f)
    OBVIOUS
  <2>2. g = body(g)
    <3>1. \A i \in 0 .. Len(t) : i # 0 => i \in 1 .. n
      BY <1>4
    <3>2. \A i \in 0 .. Len(t) : i # 0 => t[i] \in allocated /\ blockHash[t[i]] # NoHash
      BY <1>5, <3>1
    <3>3. QED BY <3>2
  <2> HIDE DEF name, g, body
  <2>3. name = body(name)
    BY <2>1, <2>2
  <2>4. ASSUME NEW i \in 1 .. n
        PROVE  name[i] = blockHash[t[i]]
    <3>1. i \in 0 .. Len(t) /\ i # 0
      BY <1>4
    <3>2. t[i] \in allocated /\ blockHash[t[i]] # NoHash
      BY <1>5
    <3>3. QED BY <2>3, <3>1, <3>2 DEF body
  <2>5. QED BY <2>4
<1>7. \A b \in Block : ~ ({i \in 1 .. n : t[i] = b} # {} /\ unnamed(b))
  BY <1>5
<1> HIDE DEF name
<1>8. blockHash' = blockHash
  <2>1. blockHash' = [b \in Block |-> blockHash[b]]
    <3> HIDE DEF unnamed, t
    <3>1. QED BY <1>1, <1>7
  <2>2. QED BY <1>3, <2>1 DEF DataTypes
<1>9. index' \in [Hash -> Seq(Block)]
  <2>1. ASSUME NEW h \in Hash, lengths(h) # {}
        PROVE  Prefix(t, Max(lengths(h))) \in Seq(Block)
    <3>1. PICK i \in 1 .. n : name[i] = h
      BY <2>1
    <3>2. \A j \in 1 .. n : name[j] = h => j = i
      <4>1. ASSUME NEW j \in 1 .. n, name[j] = h PROVE j = i
        <5>1. CH(wreq, j) = CH(wreq, i)
          BY <1>5, <1>6, <3>1, <4>1
        <5>2. i \in 0 .. Len(Sequence[wreq]) /\ j \in 0 .. Len(Sequence[wreq])
          BY <1>4
        <5>3. QED BY <1>4, <5>1, <5>2, ChainFacts
      <4>2. QED BY <4>1
    <3>3. lengths(h) = {i}
      BY <3>1, <3>2
    <3>4. Max({i}) = i
      BY DEF Max
    <3>5. i \in 0 .. Len(t) /\ t \in Seq(Block)
      BY <1>4
    <3>6. Prefix(t, i) \in Seq(Block)
      BY <3>5, PrefixFacts
    <3>7. QED BY <3>3, <3>4, <3>6
  <2>2. ASSUME NEW h \in Hash
        PROVE  (IF lengths(h) = {} THEN index[h] ELSE Prefix(t, Max(lengths(h)))) \in Seq(Block)
    BY <1>3, <2>1 DEF DataTypes
  <2> HIDE DEF lengths, t
  <2>3. QED BY <1>1, <2>2
<1>10. StoringInv'
  BY <1>1 DEF StoringInv
<1>11. /\ whash' \in Hash \cup {<<>>} /\ wblock' \in Block
       /\ \A h \in Hash : ssd'[h] \in {NoHash, h}
       /\ ssd' \in [Hash -> Hash \cup {NoHash}]
  BY <1>2, <1>3 DEF DataTypes, Contents
<1> HIDE DEF lengths, t, n, unnamed
<1>12. QED BY <1>1, <1>2, <1>4, <1>8, <1>9, <1>10, <1>11, WorkerQuiet

------------------------------------------------------------------------------
\* The invariant holds at the start and every step keeps it.

LEMMA InitInv == Init => PInv /\ CInv
<1> SUFFICES ASSUME Init PROVE PInv /\ CInv
  OBVIOUS
<1>1. PInv
  BY EmptyPoolFacts DEF Init, PInv
<1>2. /\ allocated = {NullBlock} /\ NullBlock \in Block
      /\ ref \in [Block -> Int] /\ blockHash \in [Block -> Hash \cup {NoHash}]
      /\ hashMap = [h \in Hash |-> {}]
  BY PoolAssumption DEF Init, PoolInit, EmptyPool, NullBlock, Block
<1>3. /\ overlap \in Schedules /\ phase = [r \in Request |-> "new"]
      /\ table = [r \in Request |-> <<>>] /\ context = [r \in Request |-> <<>>]
      /\ index = [h \in Hash |-> <<>>] /\ ssd = [h \in Hash |-> NoHash]
      /\ ipc = "idle" /\ hits = <<>> /\ k = 0 /\ queue = <<>> /\ wpc = "idle"
      /\ wblock = NullBlock /\ whash = <<>> /\ lost = {}
  BY DEF Init
<1>4. DataTypes
  <2>1. /\ table \in [Request -> Seq(Block \ {NullBlock})]
        /\ context \in [Request -> Seq(Hash)] /\ index \in [Hash -> Seq(Block)]
        /\ hits \in Seq(Block)
    BY <1>3, EmptyIsSeq
  <2>2. hashMap \in [Hash -> SUBSET Block] /\ ssd \in [Hash -> Hash \cup {NoHash}]
    BY <1>2, <1>3
  <2>3. QED BY <1>2, <1>3, <2>1, <2>2 DEF DataTypes
<1>5. Control
  BY <1>3 DEF Control
<1>6. Active = {} /\ Fresh = {}
  BY <1>3 DEF Active, Fresh
<1>7. MapSound /\ Names /\ FreshAlone /\ Counted /\ AddingInv /\ StoringInv
  BY <1>2, <1>3, <1>6 DEF MapSound, Names, FreshAlone, Counted, AddingInv, StoringInv
<1>8. Lengths
  <2>1. ASSUME NEW r \in Request
        PROVE  table[r] = <<>> /\ context[r] = <<>> /\ Len(context[r]) <= Len(Prompt[r])
    BY <1>3, ChainFacts
  <2>2. QED BY <1>3, <1>6, <2>1 DEF Lengths
<1>9. Contents
  BY <1>3 DEF Contents, Clean
<1>10. QED BY <1>1, <1>4, <1>5, <1>7, <1>8, <1>9 DEF CInv

\* No step makes an overlapping schedule, or one that used the index, calm.
LEMMA CalmBefore ==
  ASSUME [Next]_vars, Calm'
  PROVE  Calm
<1>1. ASSUME NEW r \in Request,
             StartLookup(r) \/ Finish(r) \/ FinishNoStore(r) \/ Abort(r) \/ Drain(r)
      PROVE  Calm
  BY <1>1 DEF Calm, StartLookup, Finish, FinishNoStore, Abort, EndsWithoutStore, Drain,
              bounds
<1>2. CASE Adding
  BY <1>2 DEF Calm, Adding, LookupHit, LookupRestore, LookupEnd, Claim, AppendHit,
              LoadBlock, LoadFails, LoadStops, DropBlock, DropEnd, LoadEnd, DeleteBlock,
              DeleteEnd, bounds
<1>3. CASE Storing
  <2>1. CASE StoreBegin \/ WParent \/ WFind \/ WShare
    BY <2>1 DEF Calm, StoreBegin, WParent, WFind, WShare, bounds
  <2>2. CASE WAllocate \/ WRegister \/ WSave \/ WSaveFails
    BY <2>2 DEF Calm, WAllocate, WRegister, WSave, WSaveFails, bounds
  <2>3. CASE WRollback \/ WRaises \/ WRelease
    BY <2>3 DEF Calm, WRollback, WRaises, WRelease, bounds
  <2>4. CASE WIndex
    <3>1. UNCHANGED <<overlap, fellBack>>
      BY <2>4 DEF WIndex, bounds
    <3>2. QED BY <3>1 DEF Calm
  <2>5. QED BY <1>3, <2>1, <2>2, <2>3, <2>4 DEF Storing
<1>4. CASE FailAll \/ SSDEvict \/ Terminated \/ UNCHANGED vars
  BY <1>4 DEF Calm, FailAll, SSDEvict, Terminated, vars, bounds
<1>5. QED BY <1>1, <1>2, <1>3, <1>4 DEF Next

LEMMA UnchangedInv ==
  ASSUME CInv, UNCHANGED vars
  PROVE  CInv'
<1>1. UNCHANGED <<created, free, allocated, ref, blockHash, hashMap, overlap, phase, table,
                  context, index, ssd, ipc, ireq, hits, k, queue, wpc, wreq, wblock, whash,
                  lost>>
  BY DEF vars, pool, bounds, inference, worker
<1>2. DataTypes /\ Control /\ MapSound /\ Names /\ FreshAlone /\ Counted
      /\ Lengths /\ AddingInv /\ StoringInv /\ Contents
  BY DEF CInv
<1>3. DataTypes' /\ Contents'
  BY <1>1, <1>2 DEF DataTypes, Contents, Clean
<1>4. Control' /\ MapSound' /\ Lengths' /\ AddingInv' /\ StoringInv'
  BY <1>1, <1>2 DEF Control, MapSound, Lengths, Active, AddingInv, StoringInv
<1>5. /\ Active' = Active /\ Fresh' = Fresh
      /\ \A q \in Active : HeldAt(q)' = HeldAt(q) /\ Held(q)' = Held(q)
  BY <1>1 DEF Active, Fresh, HeldAt, Claimed, Held
<1>6. \A b : Holders(b)' = Holders(b)
  BY <1>5 DEF Holders
<1>7. Names' /\ FreshAlone' /\ Counted'
  BY <1>1, <1>2, <1>5, <1>6 DEF Names, FreshAlone, Counted
<1>8. QED BY <1>3, <1>4, <1>7 DEF CInv

LEMMA NextInv == PInv /\ IInv /\ [Next]_vars => IInv'
<1> SUFFICES ASSUME PInv, IInv, [Next]_vars, Calm' PROVE CInv'
  BY DEF IInv
<1>1. Calm /\ CInv
  BY CalmBefore DEF IInv
<1>2. ASSUME NEW r \in Request,
             StartLookup(r) \/ Finish(r) \/ FinishNoStore(r) \/ Abort(r) \/ Drain(r)
      PROVE  CInv'
  BY <1>1, <1>2, StartLookupInv, FinishInv, EndsWithoutStoreInv, DrainInv
<1>3. CASE Adding
  BY <1>1, <1>3, LookupHitInv, LookupRestoreInv, LookupEndInv, ClaimInv, AppendHitInv,
     LoadBlockInv, LoadFailsInv, GiveBackInv, DropEndInv, LoadEndInv, DeleteEndInv
     DEF Adding
<1>4. CASE FailAll
  BY <1>1, <1>4, FailAllInv
<1>5. CASE Storing
  BY <1>1, <1>5, StoreBeginInv, WParentInv, WFindInv, WShareInv, WAllocateInv,
     WRegisterInv, WSaveInv, WSaveFailsInv, WRollbackInv, WRaisesInv, WIndexInv,
     WReleaseInv
     DEF Storing
<1>6. CASE SSDEvict
  BY <1>1, <1>6, SSDEvictInv
<1>7. CASE Terminated \/ UNCHANGED vars
  BY <1>1, <1>7, UnchangedInv DEF Terminated
<1>8. QED BY <1>2, <1>3, <1>4, <1>5, <1>6, <1>7 DEF Next

LEMMA SpecInv == Spec => [](PInv /\ IInv)
<1>1. Init => PInv /\ IInv
  BY InitInv DEF IInv
<1>2. PInv /\ IInv /\ [Next]_vars => (PInv /\ IInv)'
  BY NextInv, PoolInv
<1>3. QED BY <1>1, <1>2, PTL DEF Spec

------------------------------------------------------------------------------
\* What a run checks of the calm states holds of them for every value of the
\* constants.  The types: a request that is admitted has one content of KV for
\* each block of its table.
THEOREM TypesCorrect == Spec => [](Calm => TypeOK)
<1>1. PInv /\ IInv => (Calm => TypeOK)
  <2> SUFFICES ASSUME PInv, CInv PROVE TypeOK
    BY DEF IInv
  <2>1. PoolTypes /\ DataTypes /\ Lengths
    BY DEF PInv, CInv
  <2>2. \A r \in Request :
          /\ table[r] \in Seq(Block \ {NullBlock})
          /\ phase[r] = "running" => Len(context[r]) = Len(table[r])
    BY <2>1 DEF DataTypes, Lengths
  <2>3. \A h \in Hash : index[h] \in Seq(Block)
    BY <2>1 DEF DataTypes
  <2>4. ssd \in [Hash -> Hash \cup {NoHash, Garbled}]
    BY <2>1 DEF DataTypes
  <2>5. QED BY <2>1, <2>2, <2>3, <2>4 DEF TypeOK, PoolTypes, DataTypes
<1>2. QED BY <1>1, SpecInv, PTL

\* find_cached_block and get_computed_blocks find only live blocks that still
\* carry the hash looked up.
THEOREM LookupCorrect == Spec => [](Calm => MapSound)
<1>1. PInv /\ IInv => (Calm => MapSound)
  BY DEF IInv, CInv
<1>2. QED BY <1>1, SpecInv, PTL

\* A request is given no KV but that of its own prompt, at its own positions.
THEOREM HitsClean == Spec => []CleanHits
<1>1. PInv /\ IInv => CleanHits
  BY DEF IInv, CInv, Contents, CleanHits
<1>2. QED BY <1>1, SpecInv, PTL

\* The SSD cache never holds, under a hash, KV of another chain.
THEOREM SSDHoldsItsChain == Spec => []SSDTrue
<1>1. PInv /\ IInv => SSDTrue
  BY DEF IInv, CInv, Contents, SSDTrue
<1>2. QED BY <1>1, SpecInv, PTL

\* The table of a running request names, in order, live blocks of its prompt.
THEOREM TablesNameTheirChain == Spec => []TableNamesItsChain
<1>1. PInv /\ IInv => TableNamesItsChain
  <2> SUFFICES ASSUME CInv, NEW r \in Request, phase[r] = "running",
                      NEW i \in 1 .. Len(table[r])
               PROVE  /\ table[r][i] \in allocated
                      /\ blockHash[table[r][i]] = Prefix(Prompt[r], i)
    BY DEF IInv, TableNamesItsChain
  <2>1. DataTypes /\ Control /\ Names /\ FreshAlone /\ Lengths
    BY DEF CInv
  <2>2. r # ireq \/ ipc = "idle"
    BY <2>1 DEF Control
  <2>3. r \in Active /\ HeldAt(r) = 1 .. Len(table[r])
    BY <2>2 DEF Active, HeldAt
  <2>4. table[r][i] \notin Fresh
    <3>1. CASE wpc = "register"
      <4>1. r # wreq
        BY <2>1, <3>1 DEF Control
      <4>2. QED BY <2>1, <2>3, <3>1, <4>1 DEF FreshAlone, Fresh
    <3>2. CASE wpc # "register"
      BY <3>2 DEF Fresh
    <3>3. QED BY <3>1, <3>2
  <2>5. table[r][i] \in allocated /\ blockHash[table[r][i]] = CH(r, i)
    BY <2>1, <2>3, <2>4 DEF Names
  <2>6. i \in 0 .. Len(Prompt[r])
    <3>1. table[r] \in Seq(Block \ {NullBlock}) /\ Len(table[r]) <= Len(Prompt[r])
      BY <2>1 DEF DataTypes, Lengths
    <3>2. Len(table[r]) \in Nat /\ Len(Prompt[r]) \in Nat
      BY <3>1, ChainFacts
    <3>3. QED BY <3>1, <3>2
  <2>7. QED BY <2>5, <2>6, ChainFacts
<1>2. QED BY <1>1, SpecInv, PTL

\* Between operations a block's count is that of the requests that name it, the
\* running ones and those that ended without releasing their blocks.  The
\* condition on the index fallback is the one under which tables name each
\* block once.
THEOREM ReferencesExact == Spec => [](~ fellBack => RefsExact)
<1>1. PInv /\ IInv => (~ fellBack => RefsExact)
  <2> SUFFICES ASSUME PInv, CInv, ~ overlap, ipc = "idle", queue = <<>>, wpc = "idle",
                      NEW b \in allocated \ {NullBlock}
               PROVE  ref[b] = SumFunctionOnSet([r \in Request |-> Occurrences(table[r])[b]],
                                                {r \in Request : phase[r] = "running"} \cup lost)
    BY DEF RefsExact, IInv, Calm
  <2> DEFINE w == [r \in Request |-> Occurrences(table[r])[b]]
  <2>1. /\ DataTypes /\ Control /\ Names /\ FreshAlone /\ Lengths /\ Counted
        /\ b \in Block
    BY DEF CInv, PInv, PoolTypes
  <2>2. Active = {r \in Request : phase[r] = "running"} \cup lost
    <3>1. \A r \in Request : phase[r] \notin {"adding", "storing"}
      BY <2>1 DEF Control
    <3>2. QED BY <3>1 DEF Active
  <2>3. \A r \in Active : HeldAt(r) = 1 .. Len(table[r]) /\ Claimed(r) = {}
    BY DEF HeldAt, Claimed
  <2>4. ASSUME NEW r \in Active
        PROVE  w[r] = IF r \in Holders(b) THEN 1 ELSE 0
    <3> DEFINE at == {i \in 1 .. Len(table[r]) : table[r][i] = b}
    <3>1. r \in Request
      BY <2>1 DEF Active, DataTypes
    <3>2. w[r] = Cardinality(at)
      BY <2>1, <3>1 DEF Occurrences
    <3>3. r \in Holders(b) <=> at # {}
      BY <2>3 DEF Holders, Held
    <3>4. CASE at = {}
      BY <3>2, <3>3, <3>4, FS_EmptySet
    <3>5. ASSUME NEW i \in at PROVE w[r] = 1
      <4>1. at = {i}
        BY <2>1, <2>3, <3>5, NamedOnce
      <4>2. QED BY <3>2, <4>1, FS_Singleton
    <3>6. QED BY <3>3, <3>4, <3>5
  <2>5. Holders(b) \in SUBSET Active /\ IsFiniteSet(Active)
    <3>1. Active \subseteq Request
      BY <2>1, HoldersFinite
    <3>2. QED BY <3>1, PrefixAssumption, FS_Subset DEF Holders
  <2> HIDE DEF w
  <2>6. SumFunctionOnSet(w, Active) = Cardinality(Holders(b))
    BY <2>4, <2>5, SumCountsMembers
  <2>7. QED BY <2>1, <2>2, <2>6 DEF Counted, w
<1>2. QED BY <1>1, SpecInv, PTL
=============================================================================
