---------------------------- MODULE SSDCacheProofs ----------------------------
(****************************************************************************)
(* Proofs about SSDCache, for any blocks, threads, limits and faults.       *)
(****************************************************************************)
EXTENDS SSDCache, DataFacts

------------------------------------------------------------------------------
(* The invariant of every schedule *)

Steps == {"idle", "enqueue", "unlink", "put", "owe", "inHot", "hotPut", "buffer", "bufferPut",
           "inIndex", "exists", "missing", "read", "discard", "deleteHot", "deleteIndex",
           "deleteFile", "wipe"}
WriterSteps == {"get", "open", "data", "rename", "check", "unlink", "fail", "cleanup", "finish", "drop"}

Item == [op : {"write", "unlink"}, hash : Hash, path : Path]
File == [hash : Hash, path : Path, whole : BOOLEAN]

\* No block twice.
OnePerBlock(s) == IsInjective(s) /\ \A e, f \in ToSet(s) : e.hash = f.hash => e = f

Types ==
  /\ mode \in Modes /\ overlap \in Overlapping /\ up \in BOOLEAN /\ closing \in BOOLEAN
  /\ index \in Seq(Entry) /\ OnePerBlock(index)
  /\ hot \in Seq(Entry) /\ OnePerBlock(hot)
  /\ limit \in 0 .. HotMax
  /\ pending \subseteq Hash /\ owedBytes \subseteq Hash /\ kept \subseteq Hash
  /\ queue \in Seq(Item) /\ Len(queue) <= QueueMax
  /\ disk \subseteq File
  /\ pc \in [Thread -> Steps] /\ cur \in [Thread -> Entry \cup {NoEntry}]
  /\ todo \in [Thread -> Seq(Entry)] /\ unlinks \in [Thread -> Seq(Entry)]
  /\ added \in [Thread -> BOOLEAN]
  /\ wpc \in WriterSteps /\ witem \in Entry \cup {NoEntry}
  /\ ops \in Nat /\ faults \in Nat /\ crashes \in 0 .. MaxCrashes
  /\ disturbed \in BOOLEAN

\* What each step finds.
PlacedAt(t) ==
  /\ pc[t] \in {"enqueue", "put", "owe"} => mode = "hot" /\ todo[t] # <<>>
  /\ pc[t] = "unlink" => mode \in {"hot", "buffer"} /\ (mode = "hot" => todo[t] # <<>>)
  /\ pc[t] \in {"buffer", "bufferPut"} => mode = "buffer"
  /\ pc[t] = "hotPut" => mode # "buffer"
  /\ pc[t] \in {"deleteHot", "deleteIndex", "deleteFile"} => unlinks[t] # <<>>
  /\ pc[t] \in {"unlink", "put", "owe", "inHot", "hotPut", "buffer", "bufferPut", "inIndex",
               "exists", "missing", "read", "discard"} => cur[t] \in Entry
Placed ==
  /\ \A t \in Thread : PlacedAt(t)
  /\ wpc # "get" => witem \in Entry
  /\ wpc = "drop" => mode = "buffer"

\* A restart finds temporary files, and takes them for files: each adds one to
\* the length of a name.
Longest == IF closing THEN crashes - 1 ELSE crashes
Named(s) == \A e \in ToSet(s) : e.path <= Longest
NamedAt(t) == Named(todo[t]) /\ Named(unlinks[t]) /\ cur[t].path <= Longest
NamesBounded ==
  /\ closing => up /\ crashes > 0
  /\ Named(index) /\ Named(hot) /\ Named(queue) /\ witem.path <= Longest
  /\ \A t \in Thread : NamedAt(t)
  /\ \A f \in disk : f.path <= (IF up THEN Longest + 1 ELSE crashes)

\* Nothing is in memory while the manager is down.
Down == ~ up => /\ index = <<>> /\ hot = <<>> /\ queue = <<>> /\ pending = {} /\ AtRest
                /\ wpc = "get" /\ crashes > 0

\* Without overlap at most one thread has an operation under way.
OneAtATime == ~ overlap => \A t, u \in Thread : pc[t] # "idle" /\ pc[u] # "idle" => t = u

\* A write of the block is queued, or in the writer's hands.
WriteIn(q, h) == \E e \in ToSet(q) : e.op = "write" /\ e.hash = h
Queued(h) == WriteIn(queue, h)
Writer(h) == wpc # "get" /\ witem.hash = h
PendingEnds ==
  /\ mode # "hot" => pending = {}
  /\ \A h \in pending : \/ Queued(h) \/ Writer(h)
                        \/ \E t \in Thread : pc[t] \in {"unlink", "put"} /\ cur[t].hash = h
BuffersEnd ==
  mode = "buffer" => \A h \in Hashes(hot) :
                       \/ Queued(h) \/ Writer(h)
                       \/ \E t \in Thread : pc[t] = "bufferPut" /\ cur[t].hash = h

\* A thread that has made room has it until its entry is in the index.
Adders == IF overlap THEN Cardinality(Thread) ELSE 1
RoomMade ==
  crashes = 0 =>
    Total(index) + Largest * Cardinality({t \in Thread : pc[t] = "unlink"}) <= Target + Largest * Adders

AInv == Types /\ Placed /\ NamesBounded /\ Down /\ OneAtATime /\ PendingEnds /\ BuffersEnd /\ RoomMade
------------------------------------------------------------------------------
(* Queues of blocks *)

\* The blocks of a queue.
LEMMA BlocksOf ==
  ASSUME NEW s \in Seq(Entry)
  PROVE  /\ Hashes(s) = {e.hash : e \in ToSet(s)} /\ Hashes(s) \subseteq Hash
         /\ ToSet(s) \subseteq Entry
         /\ s = <<>> <=> Hashes(s) = {}
         /\ Len(s) \in Nat
<1>1. Len(s) \in Nat /\ DOMAIN s = 1 .. Len(s)
  BY LenProperties
<1>2. ToSet(s) \subseteq Entry /\ (s = <<>> <=> ToSet(s) = {})
  BY NonEmptyQueue
<1>3. Hashes(s) = {e.hash : e \in ToSet(s)}
  BY <1>1 DEF Hashes, ToSet
<1>4. \A e \in Entry : e.hash \in Hash
  BY DEF Entry
<1>5. QED BY <1>1, <1>2, <1>3, <1>4

\* No block.
LEMMA NoBlocks == Hashes(<<>>) = {} /\ OnePerBlock(<<>>) /\ <<>> \in Seq(Entry)
BY EmptyQueue DEF OnePerBlock, Hashes

\* What is kept of a queue is no longer than it, and shorter if an item goes.
LEMMA KeptLength ==
  ASSUME NEW s \in Seq(Entry), NEW S
  PROVE  /\ Len(Kept(s, S)) \in Nat /\ Len(Kept(s, S)) <= Len(s)
         /\ ~ (ToSet(s) \subseteq S) => Len(Kept(s, S)) < Len(s)
<1> DEFINE t == Kept(s, S)
<1> HIDE DEF t
<1>1. /\ Kept(s, S) \in Seq(Entry) /\ ToSet(Kept(s, S)) = ToSet(s) \cap S
      /\ IsInjective(s) => IsInjective(Kept(s, S))
      /\ \E g \in [DOMAIN Kept(s, S) -> DOMAIN s] :
           IsInjective(g) /\ \A k \in DOMAIN Kept(s, S) : Kept(s, S)[k] = s[g[k]]
  BY KeptQueue
<1>2. t \in Seq(Entry) /\ ToSet(t) = ToSet(s) \cap S
  BY <1>1 DEF t
<1>3. PICK g \in [DOMAIN t -> DOMAIN s] : IsInjective(g) /\ \A k \in DOMAIN t : t[k] = s[g[k]]
  BY <1>1 DEF t
<1>4. /\ Len(t) \in Nat /\ DOMAIN t = 1 .. Len(t)
      /\ Len(s) \in Nat /\ DOMAIN s = 1 .. Len(s)
  BY <1>2, LenProperties
<1>5. \A n \in Nat : IsFiniteSet(1 .. n) /\ Cardinality(1 .. n) = n
  BY FS_Interval
<1>6. /\ IsFiniteSet(DOMAIN t) /\ Cardinality(DOMAIN t) = Len(t)
      /\ IsFiniteSet(DOMAIN s) /\ Cardinality(DOMAIN s) = Len(s)
  BY <1>4, <1>5
<1>7. Len(t) <= Len(s)
  <2>1. g \in Injection(DOMAIN t, DOMAIN s)
    BY <1>3 DEF Injection, IsInjective
  <2>2. QED BY <2>1, <1>6, FS_Injection
<1>8. ASSUME ~ (ToSet(s) \subseteq S) PROVE Len(t) < Len(s)
  <2>1. PICK i \in DOMAIN s : s[i] \notin S
    BY <1>8 DEF ToSet
  <2>2. \A k \in DOMAIN t : g[k] # i
    BY <1>2, <1>3, <2>1 DEF ToSet
  <2>3. g \in Injection(DOMAIN t, DOMAIN s \ {i})
    BY <1>3, <2>2 DEF Injection, IsInjective
  <2>4. IsFiniteSet(DOMAIN s \ {i}) /\ Cardinality(DOMAIN s \ {i}) = Len(s) - 1
    BY <1>6, <2>1, FS_RemoveElement
  <2>5. Cardinality(DOMAIN t) <= Cardinality(DOMAIN s \ {i})
    BY <2>3, <2>4, FS_Injection
  <2>6. QED BY <2>4, <2>5, <1>6, <1>4
<1>9. QED BY <1>4, <1>7, <1>8 DEF t

\* The entries of some blocks, in their order.
LEMMA KeptBlocks ==
  ASSUME NEW s \in Seq(Entry), NEW S
  PROVE  /\ Kept(s, S) \in Seq(Entry) /\ ToSet(Kept(s, S)) = ToSet(s) \cap S
         /\ Hashes(Kept(s, S)) \subseteq Hashes(s)
         /\ OnePerBlock(s) => OnePerBlock(Kept(s, S))
         /\ Len(Kept(s, S)) \in Nat /\ Len(Kept(s, S)) <= Len(s)
<1>1. /\ Kept(s, S) \in Seq(Entry) /\ ToSet(Kept(s, S)) = ToSet(s) \cap S
      /\ IsInjective(s) => IsInjective(Kept(s, S))
  BY KeptQueue
<1>2. Len(Kept(s, S)) \in Nat /\ Len(Kept(s, S)) <= Len(s)
  BY KeptLength
<1>3. Hashes(Kept(s, S)) \subseteq Hashes(s)
  BY <1>1, BlocksOf
<1>4. QED BY <1>1, <1>2, <1>3 DEF OnePerBlock

\* The queue without a block.
LEMMA WithoutBlock ==
  ASSUME NEW s \in Seq(Entry), NEW h
  PROVE  /\ Without(s, h) \in Seq(Entry) /\ ToSet(Without(s, h)) = {e \in ToSet(s) : e.hash # h}
         /\ Hashes(Without(s, h)) = Hashes(s) \ {h}
         /\ OnePerBlock(s) => OnePerBlock(Without(s, h))
         /\ Len(Without(s, h)) \in Nat /\ Len(Without(s, h)) <= Len(s)
         /\ h \in Hashes(s) => Len(Without(s, h)) < Len(s)
<1>1. ToSet(s) \subseteq Entry /\ Hashes(s) = {e.hash : e \in ToSet(s)} /\ Hashes(s) \subseteq Hash
  BY BlocksOf
<1> DEFINE S == Of(Hash \ {h})
<1>2. \A e \in ToSet(s) : e \in S <=> e.hash # h
  BY <1>1 DEF Of, Entry
<1> HIDE DEF S
<1>3. Without(s, h) = Kept(s, S)
  BY DEF Without, S
<1>4. ToSet(Without(s, h)) = {e \in ToSet(s) : e.hash # h} /\ Without(s, h) \in Seq(Entry)
  BY <1>2, <1>3, KeptBlocks
<1>5. Hashes(Without(s, h)) = Hashes(s) \ {h}
  BY <1>1, <1>4, BlocksOf
<1>6. h \in Hashes(s) => Len(Without(s, h)) < Len(s)
  <2>1. h \in Hashes(s) => ~ (ToSet(s) \subseteq S)
    BY <1>1, <1>2
  <2>2. QED BY <2>1, <1>3, KeptLength
<1>7. QED BY <1>3, <1>4, <1>5, <1>6, KeptBlocks

\* The queue with an entry, the newest, instead of those of the same block.
LEMMA RenewedBlock ==
  ASSUME NEW s \in Seq(Entry), NEW e \in Entry
  PROVE  LET r == Append(Without(s, e.hash), e)
         IN /\ r \in Seq(Entry) /\ ToSet(r) = {f \in ToSet(s) : f.hash # e.hash} \cup {e}
            /\ Hashes(r) = Hashes(s) \cup {e.hash}
            /\ OnePerBlock(s) => OnePerBlock(r)
            /\ Len(r) \in Nat /\ Len(r) <= Len(s) + 1
            /\ e.hash \in Hashes(s) => Len(r) <= Len(s)
<1> DEFINE w == Without(s, e.hash)
           r == Append(w, e)
<1>1. /\ w \in Seq(Entry) /\ ToSet(w) = {f \in ToSet(s) : f.hash # e.hash}
      /\ OnePerBlock(s) => OnePerBlock(w)
      /\ Hashes(w) = Hashes(s) \ {e.hash}
      /\ Len(w) \in Nat /\ Len(w) <= Len(s)
      /\ e.hash \in Hashes(s) => Len(w) < Len(s)
  BY WithoutBlock
<1> HIDE DEF w
<1>2. /\ r \in Seq(Entry) /\ ToSet(r) = ToSet(w) \cup {e} /\ Len(r) = Len(w) + 1
      /\ IsInjective(w) /\ e \notin ToSet(w) => IsInjective(r)
  BY <1>1, AppendQueue
<1> HIDE DEF r
<1>3. Hashes(r) = Hashes(s) \cup {e.hash}
  <2>1. Hashes(r) = {f.hash : f \in ToSet(r)} /\ Hashes(w) = {f.hash : f \in ToSet(w)}
    BY <1>1, <1>2, BlocksOf
  <2>2. QED BY <2>1, <1>1, <1>2
<1>4. OnePerBlock(s) => OnePerBlock(r)
  BY <1>1, <1>2 DEF OnePerBlock
<1>5. Len(s) \in Nat
  BY BlocksOf
<1>6. Len(r) \in Nat /\ Len(r) <= Len(s) + 1 /\ (e.hash \in Hashes(s) => Len(r) <= Len(s))
  BY <1>1, <1>2, <1>5
<1>7. QED BY <1>1, <1>2, <1>3, <1>4, <1>6 DEF r, w

\* The entry of a block.
LEMMA EntryIn ==
  ASSUME NEW s \in Seq(Entry), NEW h \in Hashes(s)
  PROVE  EntryOf(s, h) \in ToSet(s) /\ EntryOf(s, h).hash = h /\ EntryOf(s, h) \in Entry
<1>1. Len(s) \in Nat /\ DOMAIN s = 1 .. Len(s)
  BY LenProperties
<1>2. \E i \in 1 .. Len(s) : s[i].hash = h
  BY DEF Hashes
<1>3. QED BY <1>1, <1>2, ElementOfSeq DEF EntryOf, ToSet

\* A hit renews the entry of its block.
LEMMA RenewedEntry ==
  ASSUME NEW s \in Seq(Entry), OnePerBlock(s), NEW h \in Hashes(s)
  PROVE  LET r == Append(Without(s, h), EntryOf(s, h))
         IN /\ r \in Seq(Entry) /\ OnePerBlock(r) /\ ToSet(r) = ToSet(s) /\ Hashes(r) = Hashes(s)
            /\ Len(r) \in Nat /\ Len(r) <= Len(s)
<1> DEFINE e == EntryOf(s, h)
<1>1. e \in ToSet(s) /\ e.hash = h /\ e \in Entry
  BY EntryIn
<1> HIDE DEF e
<1> DEFINE r == Append(Without(s, e.hash), e)
<1>2. /\ r \in Seq(Entry) /\ ToSet(r) = {f \in ToSet(s) : f.hash # e.hash} \cup {e}
      /\ Hashes(r) = Hashes(s) \cup {e.hash}
      /\ OnePerBlock(r) /\ Len(r) \in Nat /\ Len(r) <= Len(s)
  BY <1>1, RenewedBlock
<1> HIDE DEF r
<1>3. ToSet(r) = ToSet(s) /\ Hashes(r) = Hashes(s)
  BY <1>1, <1>2 DEF OnePerBlock
<1>4. r = Append(Without(s, h), EntryOf(s, h))
  BY <1>1 DEF r, e
<1>5. QED BY <1>2, <1>3, <1>4

\* So does a hit in the index.
LEMMA TouchedIndex ==
  ASSUME index \in Seq(Entry), OnePerBlock(index), NEW h
  PROVE  /\ Touched(h) \in Seq(Entry) /\ ToSet(Touched(h)) = ToSet(index)
         /\ Hashes(Touched(h)) = Hashes(index)
         /\ OnePerBlock(Touched(h))
         /\ Len(Touched(h)) \in Nat /\ Len(Touched(h)) <= Len(index)
<1>1. CASE h \notin Hashes(index)
  BY <1>1, BlocksOf DEF Touched
<1>2. CASE h \in Hashes(index)
  <2>1. EntryOf(index, h).hash = h
    BY <1>2, EntryIn
  <2>2. Touched(h) = Append(Without(index, h), EntryOf(index, h))
    BY <1>2, <2>1 DEF Touched, IndexAdd
  <2>3. QED BY <1>2, <2>2, RenewedEntry
<1>3. QED BY <1>1, <1>2

\* The oldest entries, and the others.
LEMMA FirstAndRest ==
  ASSUME NEW s \in Seq(Entry), NEW n \in Nat, n <= Len(s)
  PROVE  /\ First(s, n) \in Seq(Entry) /\ From(s, n + 1) \in Seq(Entry)
         /\ ToSet(s) = ToSet(First(s, n)) \cup ToSet(From(s, n + 1))
         /\ Len(From(s, n + 1)) = Len(s) - n
         /\ OnePerBlock(s) => /\ OnePerBlock(First(s, n)) /\ OnePerBlock(From(s, n + 1))
                              /\ Hashes(First(s, n)) \cap Hashes(From(s, n + 1)) = {}
<1>0. n < Len(s) \/ n = Len(s)
  BY LenProperties
<1> DEFINE m == Len(s)
           f == First(s, n)
           r == From(s, n + 1)
<1>1. m \in Nat /\ DOMAIN s = 1 .. m /\ (\A i \in 1 .. m : s[i] \in Entry)
  BY LenProperties, ElementOfSeq
<1>2. f = SubSeq(s, 1, n)
  <2>1. CASE n < m
    BY <2>1 DEF First
  <2>2. CASE ~ (n < m)
    BY <1>0, <2>2 DEF First
  <2>3. QED BY <2>1, <2>2
<1>3. f \in Seq(Entry) /\ Len(f) = n /\ \A i \in 1 .. n : f[i] = s[i]
  <2>1. \A i \in 1 .. n : s[i] \in Entry
    BY <1>1
  <2>2. /\ SubSeq(s, 1, n) \in Seq(Entry) /\ Len(SubSeq(s, 1, n)) = (IF 1 <= n THEN n - 1 + 1 ELSE 0)
        /\ \A i \in 1 .. n - 1 + 1 : SubSeq(s, 1, n)[i] = s[1 + i - 1]
    BY <2>1, SubSeqProperties
  <2> HIDE DEF f
  <2>3. QED BY <1>2, <2>2
<1>4. r \in Seq(Entry) /\ Len(r) = m - n /\ \A i \in 1 .. m - n : r[i] = s[n + i]
  <2>1. \A i \in n + 1 .. m : s[i] \in Entry
    BY <1>1
  <2>2. n + 1 \in Int /\ m \in Int
    BY <1>1
  <2>3. /\ SubSeq(s, n + 1, m) \in Seq(Entry)
        /\ Len(SubSeq(s, n + 1, m)) = (IF n + 1 <= m THEN m - (n + 1) + 1 ELSE 0)
        /\ \A i \in 1 .. m - (n + 1) + 1 : SubSeq(s, n + 1, m)[i] = s[n + 1 + i - 1]
    BY <2>1, <2>2, SubSeqProperties
  <2>4. r = SubSeq(s, n + 1, m)
    BY DEF From
  <2> HIDE DEF r, m
  <2>5. QED BY <1>1, <2>3, <2>4
<1>5. DOMAIN f = 1 .. n /\ DOMAIN r = 1 .. m - n
  BY <1>3, <1>4, LenProperties
<1> HIDE DEF f, r, m
<1>6. \A i \in DOMAIN f : i \in DOMAIN s /\ f[i] = s[i] /\ i <= n
  BY <1>1, <1>3, <1>5 DEF m
<1>7. \A i \in DOMAIN r : n + i \in DOMAIN s /\ r[i] = s[n + i] /\ n + i > n
  <2> SUFFICES ASSUME NEW i \in 1 .. m - n
               PROVE  n + i \in 1 .. m /\ r[i] = s[n + i] /\ n + i > n
    BY <1>1, <1>5
  <2>1. QED BY <1>1, <1>4
<1>8. \A i \in DOMAIN s : i \in DOMAIN f \/ (i - n \in DOMAIN r /\ n + (i - n) = i)
  BY <1>1, <1>5
<1>9. ToSet(s) = ToSet(f) \cup ToSet(r)
  <2>1. ToSet(f) \cup ToSet(r) \subseteq ToSet(s)
    BY <1>6, <1>7 DEF ToSet
  <2>2. ASSUME NEW i \in DOMAIN s PROVE s[i] \in ToSet(f) \cup ToSet(r)
    BY <1>6, <1>7, <1>8 DEF ToSet
  <2>3. QED BY <2>1, <2>2 DEF ToSet
<1>10. ASSUME OnePerBlock(s)
       PROVE  OnePerBlock(f) /\ OnePerBlock(r) /\ Hashes(f) \cap Hashes(r) = {}
  <2>1. \A i, j \in DOMAIN s : s[i].hash = s[j].hash => i = j
    BY <1>10 DEF OnePerBlock, IsInjective, ToSet
  <2>2. IsInjective(f)
    BY <1>6, <2>1 DEF IsInjective
  <2>3. IsInjective(r)
    <3> SUFFICES ASSUME NEW i \in DOMAIN r, NEW j \in DOMAIN r, r[i] = r[j] PROVE i = j
      BY DEF IsInjective
    <3>1. n + i = n + j
      BY <1>7, <2>1
    <3>2. QED BY <3>1, <1>1, <1>5
  <2>4. \A i \in DOMAIN f, j \in DOMAIN r : f[i].hash # r[j].hash
    BY <1>1, <1>5, <1>6, <1>7, <2>1
  <2>5. Hashes(f) = {e.hash : e \in ToSet(f)} /\ Hashes(r) = {e.hash : e \in ToSet(r)}
    BY <1>3, <1>4, BlocksOf
  <2>6. Hashes(f) \cap Hashes(r) = {}
    BY <2>4, <2>5 DEF ToSet
  <2>7. QED BY <1>9, <1>10, <2>2, <2>3, <2>6 DEF OnePerBlock
<1>11. QED BY <1>3, <1>4, <1>9, <1>10 DEF f, r, m

\* Any number of the oldest.
LEMMA OldestBlocks ==
  ASSUME NEW s \in Seq(Entry), NEW n \in Nat
  PROVE  /\ First(s, n) \in Seq(Entry) /\ ToSet(First(s, n)) \subseteq ToSet(s)
         /\ OnePerBlock(s) => OnePerBlock(First(s, n))
<1>1. Len(s) \in Nat
  BY LenProperties
<1>2. CASE n <= Len(s)
  BY <1>2, FirstAndRest
<1>3. CASE n > Len(s)
  <2>1. First(s, n) = First(s, Len(s))
    BY <1>1, <1>3 DEF First
  <2>2. /\ First(s, Len(s)) \in Seq(Entry) /\ ToSet(First(s, Len(s))) \subseteq ToSet(s)
        /\ OnePerBlock(s) => OnePerBlock(First(s, Len(s)))
    <3> DEFINE k == Len(s)
    <3>1. k \in Nat /\ k <= Len(s)
      BY <1>1
    <3> HIDE DEF k
    <3>2. /\ First(s, k) \in Seq(Entry) /\ ToSet(First(s, k)) \subseteq ToSet(s)
          /\ OnePerBlock(s) => OnePerBlock(First(s, k))
      BY <3>1, FirstAndRest
    <3>3. QED BY <3>2 DEF k
  <2>3. QED BY <2>1, <2>2
<1>4. QED BY <1>1, <1>2, <1>3

\* What the index may hold is a number.
LEMMA TargetNumber == Target \in Nat /\ Largest \in Nat
<1>1. IndexMax \in Nat /\ Reserved \in Nat /\ Largest \in Nat
  BY SSDAssumption
<1>2. (9 * IndexMax) \div 10 \in Nat
  BY <1>1
<1>3. QED BY <1>1, <1>2 DEF Target

\* Blocks take a number of units; of fewer blocks, no more; and another block
\* takes no more than the largest.
LEMMA TotalOf ==
  ASSUME NEW s \in Seq(Entry)
  PROVE  /\ Total(s) \in Nat
         /\ s = <<>> => Total(s) = 0
         /\ \A r \in Seq(Entry) : Hashes(r) \subseteq Hashes(s) => Total(r) <= Total(s)
         /\ \A r \in Seq(Entry), h \in Hash :
              Hashes(r) \subseteq Hashes(s) \cup {h} => Total(r) <= Total(s) + Largest
<1>1. \A h \in Hash : Size[h] \in Nat /\ Size[h] <= Largest
  BY SSDAssumption
<1>2. Largest \in Nat
  BY SSDAssumption
<1>3. ASSUME NEW H \in SUBSET Hash
      PROVE  IsFiniteSet(H) /\ \A h \in H : Size[h] \in Nat
  BY <1>1, SSDAssumption, FS_Subset
<1>4. Hashes(s) \subseteq Hash /\ (s = <<>> => Hashes(s) = {})
  BY BlocksOf
<1>5. Total(s) \in Nat /\ (s = <<>> => Total(s) = 0)
  BY <1>3, <1>4, SumAddsUp DEF Total
<1>6. ASSUME NEW r \in Seq(Entry), Hashes(r) \subseteq Hashes(s) PROVE Total(r) <= Total(s)
  BY <1>3, <1>4, <1>6, SumOfPart DEF Total
<1>7. ASSUME NEW r \in Seq(Entry), NEW h \in Hash, Hashes(r) \subseteq Hashes(s) \cup {h}
      PROVE  Total(r) <= Total(s) + Largest
  <2> DEFINE R == Hashes(r)
             S == Hashes(s)
             Sum(H) == SumFunctionOnSet(Size, H)
  <2>1. R \subseteq Hash /\ R \subseteq S \cup {h} /\ S \subseteq Hash
    BY <1>4, <1>7, BlocksOf
  <2>2. Total(r) = Sum(R) /\ Total(s) = Sum(S)
    BY DEF Total
  <2> HIDE DEF R, S
  <2>3. Sum(R \ {h}) <= Sum(S) /\ Sum(R \ {h}) \in Nat /\ Sum(R) \in Nat /\ Sum(S) \in Nat
    <3>1. R \ {h} \in SUBSET S /\ R \ {h} \in SUBSET Hash
      BY <2>1
    <3>2. IsFiniteSet(S) /\ \A x \in S : Size[x] \in Nat
      BY <1>3, <2>1
    <3>3. Sum(R \ {h}) <= Sum(S)
      BY <3>1, <3>2, SumOfPart
    <3>4. ASSUME NEW H \in SUBSET Hash PROVE Sum(H) \in Nat
      BY <1>3, SumAddsUp
    <3> HIDE DEF Sum
    <3>5. QED BY <2>1, <3>1, <3>3, <3>4
  <2>4. Sum(R) <= Sum(R \ {h}) + Largest
    <3>1. CASE h \in R
      <4>1. IsFiniteSet(R) /\ \A x \in R : Size[x] \in Nat
        BY <1>3, <2>1
      <4>2. Sum(R) = Size[h] + Sum(R \ {h})
        BY <3>1, <4>1, SumAddsUp
      <4> HIDE DEF Sum
      <4>3. QED BY <1>1, <1>2, <2>3, <4>2
    <3>2. CASE h \notin R
      <4>1. R \ {h} = R
        BY <3>2
      <4>2. Sum(R \ {h}) = Sum(R)
        BY <4>1
      <4> HIDE DEF Sum
      <4>3. QED BY <1>2, <2>3, <4>2
    <3>3. QED BY <3>1, <3>2
  <2> HIDE DEF Sum
  <2>5. QED BY <1>2, <2>2, <2>3, <2>4
<1>8. QED BY <1>5, <1>6, <1>7

\* A set of positions that has all those before each of its own is the first few.
LEMMA FirstPositions ==
  ASSUME NEW n \in Nat, NEW G \in SUBSET (1 .. n), \A i \in G : \A j \in 1 .. i : j \in G
  PROVE  Cardinality(G) \in 0 .. n /\ G = 1 .. Cardinality(G)
<1> DEFINE B == {k \in 1 .. n + 1 : k \notin G}
<1>1. PICK m \in B : \A k \in B : m <= k
  <2>1. B \subseteq Nat /\ n + 1 \in B
    OBVIOUS
  <2> HIDE DEF B
  <2>2. QED BY <2>1, LeastOf
<1>2. G = 1 .. m - 1
  <2>1. ASSUME NEW k \in 1 .. m - 1 PROVE k \in G
    BY <1>1
  <2>2. ASSUME NEW i \in G PROVE i \in 1 .. m - 1
    <3>1. i \in 1 .. n /\ m \in 1 .. n + 1 /\ m \notin G
      BY <1>1
    <3>2. ~ (m <= i)
      <4> SUFFICES ASSUME m <= i PROVE FALSE
        OBVIOUS
      <4>1. m \in 1 .. i
        BY <3>1
      <4>2. QED BY <3>1, <4>1
    <3>3. QED BY <3>1, <3>2
  <2>3. QED BY <2>1, <2>2
<1>3. m - 1 \in 0 .. n
  BY <1>1
<1>4. Cardinality(1 .. m - 1) = m - 1
  BY <1>3, FS_Interval
<1>5. QED BY <1>2, <1>3, <1>4

\* The later a queue begins, the less it holds.
LEMMA LaterHoldsLess ==
  ASSUME NEW s \in Seq(Entry), NEW i \in 1 .. Len(s), NEW j \in 1 .. i
  PROVE  Total(From(s, i)) <= Total(From(s, j)) /\ Total(From(s, i)) \in Nat /\ Total(From(s, j)) \in Nat
<1> DEFINE m == Len(s)
<1>1. m \in Nat /\ \A k \in 1 .. m : s[k] \in Entry
  BY LenProperties, ElementOfSeq
<1>2. ASSUME NEW n \in 1 .. m
      PROVE  From(s, n) \in Seq(Entry) /\ Hashes(From(s, n)) = {s[k].hash : k \in n .. m}
  <2> DEFINE r == From(s, n)
  <2>1. \A k \in n .. m : s[k] \in Entry
    BY <1>1
  <2>2. r = SubSeq(s, n, m)
    BY DEF From
  <2>3. /\ SubSeq(s, n, m) \in Seq(Entry)
        /\ Len(SubSeq(s, n, m)) = (IF n <= m THEN m - n + 1 ELSE 0)
        /\ \A k \in 1 .. m - n + 1 : SubSeq(s, n, m)[k] = s[n + k - 1]
    <3> HIDE DEF m
    <3>1. QED BY <1>1, <2>1, SubSeqProperties
  <2> HIDE DEF r, m
  <2>4. r \in Seq(Entry) /\ Len(r) = m - n + 1 /\ \A k \in 1 .. m - n + 1 : r[k] = s[n + k - 1]
    BY <1>1, <2>2, <2>3
  <2>5. \A k \in 1 .. Len(r) : n + k - 1 \in n .. m /\ r[k] = s[n + k - 1]
    BY <1>1, <2>4
  <2>6. \A k \in n .. m : k - n + 1 \in 1 .. Len(r) /\ r[k - n + 1] = s[k]
    <3> SUFFICES ASSUME NEW k \in n .. m PROVE k - n + 1 \in 1 .. Len(r) /\ r[k - n + 1] = s[k]
      OBVIOUS
    <3>1. k - n + 1 \in 1 .. Len(r) /\ n + (k - n + 1) - 1 = k
      BY <1>1, <2>4
    <3>2. QED BY <2>4, <3>1
  <2>7. Hashes(r) = {s[k].hash : k \in n .. m}
    <3>1. \A x : x \in Hashes(r) <=> \E k \in 1 .. Len(r) : x = r[k].hash
      BY DEF Hashes
    <3>2. \A x : x \in Hashes(r) => \E k \in n .. m : x = s[k].hash
      BY <2>5, <3>1
    <3>3. \A x : (\E k \in n .. m : x = s[k].hash) => x \in Hashes(r)
      BY <2>6, <3>1
    <3>4. QED BY <3>2, <3>3
  <2>8. QED BY <2>4, <2>7 DEF r
<1>3. i \in 1 .. m /\ j \in 1 .. m /\ i .. m \subseteq j .. m
  BY <1>1
<1>4. Hashes(From(s, i)) \subseteq Hashes(From(s, j))
  BY <1>2, <1>3
<1>5. From(s, i) \in Seq(Entry) /\ From(s, j) \in Seq(Entry)
  BY <1>2, <1>3
<1>6. QED BY <1>4, <1>5, TotalOf

\* The blocks over the limit leave the index.
LEMMA EvictedIndex ==
  ASSUME index \in Seq(Entry), OnePerBlock(index)
  PROVE  LET gone == First(index, Over)
             rest == From(index, Over + 1)
         IN /\ gone \in Seq(Entry) /\ rest \in Seq(Entry)
            /\ ToSet(index) = ToSet(gone) \cup ToSet(rest)
            /\ OnePerBlock(gone) /\ OnePerBlock(rest) /\ Hashes(gone) \cap Hashes(rest) = {}
            /\ Hashes(index) = Hashes(gone) \cup Hashes(rest)
            /\ Total(rest) <= Target
<1>1. Len(index) \in Nat
  BY LenProperties
<1> DEFINE m == Len(index)
           G == {i \in 1 .. m : Total(From(index, i)) > Target}
<1>2. Over \in 0 .. m /\ G = 1 .. Over
  <2>1. ASSUME NEW i \in G, NEW j \in 1 .. i PROVE j \in G
    <3>1. i \in 1 .. m /\ j \in 1 .. m /\ Total(From(index, i)) > Target
      BY <1>1
    <3>2. /\ Total(From(index, i)) <= Total(From(index, j))
          /\ Total(From(index, i)) \in Nat /\ Total(From(index, j)) \in Nat
      BY <3>1, LaterHoldsLess
    <3>3. Total(From(index, j)) > Target
      BY <3>1, <3>2, TargetNumber
    <3>4. QED BY <3>1, <3>3
  <2>2. G \in SUBSET (1 .. m)
    OBVIOUS
  <2>3. Over = Cardinality(G)
    BY DEF Over, Exceeding
  <2> HIDE DEF G, m
  <2>4. m \in Nat
    BY <1>1 DEF m
  <2>5. QED BY <2>1, <2>2, <2>3, <2>4, FirstPositions
<1> DEFINE n == Over
<1> HIDE DEF n
<1>3. /\ First(index, n) \in Seq(Entry) /\ From(index, n + 1) \in Seq(Entry)
      /\ ToSet(index) = ToSet(First(index, n)) \cup ToSet(From(index, n + 1))
      /\ Len(From(index, n + 1)) = Len(index) - n
      /\ OnePerBlock(First(index, n)) /\ OnePerBlock(From(index, n + 1))
      /\ Hashes(First(index, n)) \cap Hashes(From(index, n + 1)) = {}
  <2>1. n \in Nat /\ n <= Len(index)
    BY <1>1, <1>2 DEF n
  <2>2. QED BY <2>1, FirstAndRest
<1>4. Hashes(index) = Hashes(First(index, n)) \cup Hashes(From(index, n + 1))
  <2>1. /\ Hashes(index) = {e.hash : e \in ToSet(index)}
        /\ Hashes(First(index, n)) = {e.hash : e \in ToSet(First(index, n))}
        /\ Hashes(From(index, n + 1)) = {e.hash : e \in ToSet(From(index, n + 1))}
    BY <1>3, BlocksOf
  <2>2. QED BY <2>1, <1>3
<1>5. Total(From(index, n + 1)) <= Target
  <2>1. n \in 0 .. m /\ G = 1 .. n
    BY <1>2 DEF n
  <2>2. CASE n < m
    <3>1. n + 1 \in 1 .. m /\ n + 1 \notin 1 .. n
      BY <1>1, <2>1, <2>2
    <3>2. ~ (Total(From(index, n + 1)) > Target)
      BY <2>1, <3>1
    <3>3. Total(From(index, n + 1)) \in Nat
      BY <1>3, TotalOf
    <3>4. QED BY <3>2, <3>3, TargetNumber
  <2>3. CASE n = m
    <3>1. Len(From(index, n + 1)) = 0
      BY <1>1, <1>3, <2>3
    <3>2. From(index, n + 1) = <<>>
      BY <1>3, <3>1, EmptySeq
    <3>3. Total(From(index, n + 1)) = 0
      BY <1>3, <3>2, TotalOf
    <3>4. QED BY <3>3, TargetNumber
  <2>4. QED BY <1>1, <2>1, <2>2, <2>3
<1>6. QED BY <1>3, <1>4, <1>5 DEF n

\* Tail of a queue of blocks.
LEMMA TailBlocks ==
  ASSUME NEW s \in Seq(Entry), s # <<>>
  PROVE  /\ Tail(s) \in Seq(Entry) /\ Head(s) \in Entry
         /\ ToSet(s) = ToSet(Tail(s)) \cup {Head(s)}
         /\ Hashes(s) = Hashes(Tail(s)) \cup {Head(s).hash}
         /\ Len(s) \in Nat /\ Len(Tail(s)) = Len(s) - 1
         /\ Tail(s) = <<>> <=> Len(s) = 1
         /\ OnePerBlock(s) => OnePerBlock(Tail(s)) /\ Head(s).hash \notin Hashes(Tail(s))
<1>1. /\ Tail(s) \in Seq(Entry) /\ ToSet(s) = ToSet(Tail(s)) \cup {Head(s)}
      /\ Len(Tail(s)) = Len(s) - 1
      /\ IsInjective(s) => IsInjective(Tail(s)) /\ Head(s) \notin ToSet(Tail(s))
  BY TailQueue
<1>2. Head(s) \in Entry /\ Len(s) \in Nat
  BY NonEmptyQueue, LenProperties
<1>3. Tail(s) = <<>> <=> Len(s) = 1
  <2>1. Tail(s) = <<>> <=> Len(Tail(s)) = 0
    BY <1>1, EmptySeq
  <2>2. QED BY <1>1, <1>2, <2>1
<1>4. Hashes(s) = {e.hash : e \in ToSet(s)} /\ Hashes(Tail(s)) = {e.hash : e \in ToSet(Tail(s))}
  BY <1>1, BlocksOf
<1>5. Hashes(s) = Hashes(Tail(s)) \cup {Head(s).hash}
  BY <1>1, <1>4
<1>6. OnePerBlock(s) => OnePerBlock(Tail(s)) /\ Head(s).hash \notin Hashes(Tail(s))
  BY <1>1, <1>4 DEF OnePerBlock
<1>7. QED BY <1>1, <1>2, <1>3, <1>5, <1>6

\* An entry kept: the oldest, if its block is not there.
LEMMA KeptBack ==
  ASSUME hot \in Seq(Entry), OnePerBlock(hot), NEW e \in Entry
  PROVE  /\ Keep(e) \in Seq(Entry) /\ OnePerBlock(Keep(e))
         /\ Hashes(Keep(e)) = Hashes(hot) \cup {e.hash}
         /\ ToSet(Keep(e)) \subseteq ToSet(hot) \cup {e}
<1>1. Hashes(hot) = {f.hash : f \in ToSet(hot)}
  BY BlocksOf
<1>2. CASE e.hash \in Hashes(hot)
  BY <1>2 DEF Keep
<1>3. CASE e.hash \notin Hashes(hot)
  <2>1. <<e>> \in Seq(Entry) /\ ToSet(<<e>>) = {e} /\ IsInjective(<<e>>)
    BY EmptyQueue
  <2> DEFINE one == <<e>>
  <2> HIDE DEF one
  <2>9. one \in Seq(Entry) /\ ToSet(one) = {e} /\ IsInjective(one) /\ IsInjective(hot)
    BY <2>1 DEF one, OnePerBlock
  <2>2. ToSet(one) \cap ToSet(hot) = {}
    BY <1>1, <1>3, <2>1 DEF one
  <2>3. /\ one \o hot \in Seq(Entry) /\ ToSet(one \o hot) = {e} \cup ToSet(hot)
        /\ IsInjective(one \o hot)
    BY <2>9, <2>2, ConcatQueue
  <2> DEFINE k == one \o hot
  <2>4. Keep(e) = k
    BY <1>3 DEF Keep, one
  <2> HIDE DEF k
  <2>5. k \in Seq(Entry) /\ ToSet(k) = {e} \cup ToSet(hot) /\ IsInjective(k)
    BY <2>3 DEF k
  <2>6. Hashes(k) = {f.hash : f \in ToSet(k)}
    BY <2>5, BlocksOf
  <2>7. OnePerBlock(k)
    BY <1>1, <1>3, <2>5 DEF OnePerBlock
  <2>8. QED BY <1>1, <2>4, <2>5, <2>6, <2>7
<1>4. QED BY <1>2, <1>3

------------------------------------------------------------------------------
(* What a step of one thread leaves alone *)

\* The manager is up while a thread has an operation under way.
LEMMA WorksUp ==
  ASSUME AInv, NEW t \in Thread, pc[t] # "idle"
  PROVE  up
BY DEF AInv, Down, AtRest

\* A thread's step, where only its own program counter and block move, and what
\* it finds in its next step is there.
LEMMA ThreadMoves ==
  ASSUME AInv, NEW t \in Thread, up, pc[t] # "idle" \/ overlap \/ AtRest,
         mode' = mode, overlap' = overlap, up' = up, closing' = closing,
         wpc' = wpc, witem' = witem, crashes' = crashes,
         \A u \in Thread : u # t => /\ pc'[u] = pc[u] /\ cur'[u] = cur[u]
                                    /\ todo'[u] = todo[u] /\ unlinks'[u] = unlinks[u],
         PlacedAt(t)', NamedAt(t)', Named(index)', Named(hot)', Named(queue)',
         \A f \in disk' : f.path <= Longest + 1
  PROVE  Placed' /\ NamesBounded' /\ Down' /\ OneAtATime'
<1>1. Placed'
  <2>1. ASSUME NEW u \in Thread, u # t PROVE PlacedAt(u)'
    BY <2>1 DEF AInv, Placed, PlacedAt
  <2>2. QED BY <2>1 DEF AInv, Placed
<1>2. Longest' = Longest
  BY DEF Longest
<1>3. NamesBounded'
  <2>1. ASSUME NEW u \in Thread, u # t PROVE NamedAt(u)'
    BY <1>2, <2>1 DEF AInv, NamesBounded, NamedAt, Named
  <2>2. QED BY <1>2, <2>1 DEF AInv, NamesBounded
<1>4. OneAtATime'
  BY DEF AInv, OneAtATime, AtRest
<1>5. QED BY <1>1, <1>3, <1>4 DEF Down

\* Which blocks are pending, and which way they go on.
LEMMA PendingMoves ==
  ASSUME AInv, NEW t \in Thread, mode' = mode, wpc' = wpc, witem' = witem,
         \A u \in Thread : u # t => pc'[u] = pc[u] /\ cur'[u] = cur[u],
         ToSet(queue) \subseteq ToSet(queue'),
         mode # "hot" => pending' \subseteq pending,
         \A h \in pending' : \/ h \in pending \/ WriteIn(queue', h)
                             \/ pc'[t] \in {"unlink", "put"} /\ cur'[t].hash = h,
         pc[t] \in {"unlink", "put"} =>
           \/ pc'[t] \in {"unlink", "put"} /\ cur'[t] = cur[t]
           \/ WriteIn(queue', cur[t].hash) \/ cur[t].hash \notin pending'
  PROVE  PendingEnds'
<1>1. \A h : Queued(h) => WriteIn(queue', h)
  BY DEF Queued, WriteIn
<1>2. \A h : Writer(h) => Writer(h)'
  BY DEF Writer
<1>3. ASSUME NEW h \in pending'
      PROVE  \/ WriteIn(queue', h) \/ Writer(h)'
             \/ \E u \in Thread : pc'[u] \in {"unlink", "put"} /\ cur'[u].hash = h
  <2>1. CASE pc'[t] \in {"unlink", "put"} /\ cur'[t].hash = h
    BY <2>1
  <2>2. CASE WriteIn(queue', h)
    BY <2>2
  <2>3. CASE h \in pending
    <3>1. CASE Queued(h) \/ Writer(h)
      BY <3>1, <1>1, <1>2
    <3>2. ASSUME NEW u \in Thread, pc[u] \in {"unlink", "put"}, cur[u].hash = h
          PROVE  WriteIn(queue', h) \/ (pc'[u] \in {"unlink", "put"} /\ cur'[u].hash = h)
      <4>1. CASE u = t
        BY <1>3, <3>2, <4>1
      <4>2. CASE u # t
        BY <3>2, <4>2
      <4>3. QED BY <4>1, <4>2
    <3>3. QED BY <2>3, <3>1, <3>2 DEF AInv, PendingEnds
  <2>4. QED BY <1>3, <2>1, <2>2, <2>3
<1>4. mode' # "hot" => pending' = {}
  BY DEF AInv, PendingEnds
<1>5. QED BY <1>3, <1>4 DEF PendingEnds, Queued

\* With the hot cache off, which buffers there are, and which way they go.
LEMMA BuffersMove ==
  ASSUME AInv, NEW t \in Thread, mode' = mode, wpc' = wpc, witem' = witem,
         \A u \in Thread : u # t => pc'[u] = pc[u] /\ cur'[u] = cur[u],
         ToSet(queue) \subseteq ToSet(queue'),
         mode = "buffer" =>
           /\ \A h \in Hashes(hot') : h \in Hashes(hot)
                                      \/ (pc'[t] = "bufferPut" /\ cur'[t].hash = h)
           /\ pc[t] = "bufferPut" =>
                \/ pc'[t] = "bufferPut" /\ cur'[t] = cur[t]
                \/ WriteIn(queue', cur[t].hash) \/ cur[t].hash \notin Hashes(hot')
  PROVE  BuffersEnd'
<1>1. \A h : Queued(h) => WriteIn(queue', h)
  BY DEF Queued, WriteIn
<1>2. \A h : Writer(h) => Writer(h)'
  BY DEF Writer
<1>3. Hashes(hot)' = Hashes(hot')
  BY DEF Hashes
<1>4. ASSUME mode' = "buffer", NEW h \in Hashes(hot')
      PROVE  \/ WriteIn(queue', h) \/ Writer(h)'
             \/ \E u \in Thread : pc'[u] = "bufferPut" /\ cur'[u].hash = h
  <2>1. CASE pc'[t] = "bufferPut" /\ cur'[t].hash = h
    BY <2>1
  <2>2. CASE h \in Hashes(hot)
    <3>1. CASE Queued(h) \/ Writer(h)
      BY <3>1, <1>1, <1>2
    <3>2. ASSUME NEW u \in Thread, pc[u] = "bufferPut", cur[u].hash = h
          PROVE  WriteIn(queue', h) \/ (pc'[u] = "bufferPut" /\ cur'[u].hash = h)
      <4>1. CASE u = t
        BY <1>4, <3>2, <4>1
      <4>2. CASE u # t
        BY <3>2, <4>2
      <4>3. QED BY <4>1, <4>2
    <3>3. QED BY <1>4, <2>2, <3>1, <3>2 DEF AInv, BuffersEnd
  <2>3. QED BY <1>4, <2>1, <2>2
<1>5. QED BY <1>3, <1>4 DEF BuffersEnd, Queued

\* Products of numbers: more of them is more, and one more is one more.
LEMMA Multiplied ==
  \A n \in Nat, a \in Nat, b \in Nat :
    /\ n * a \in Nat
    /\ a <= b => n * a <= n * b
    /\ n * (a + 1) = n * a + n
OBVIOUS

\* The index grows only by an entry that room was made for.
LEMMA RoomStays ==
  ASSUME AInv, overlap' = overlap, crashes' = crashes,
         index' \in Seq(Entry), ToSet(index') \subseteq ToSet(index),
         \A u \in Thread : pc'[u] = "unlink" => pc[u] = "unlink"
  PROVE  RoomMade'
<1> DEFINE K == {u \in Thread : pc[u] = "unlink"}
           N == {u \in Thread : pc'[u] = "unlink"}
<1>1. K \subseteq Thread /\ N \subseteq K
  OBVIOUS
<1>2. IsFiniteSet(Thread) /\ Cardinality(Thread) \in Nat
  BY SSDAssumption, FS_CardinalityType
<1>3. IsFiniteSet(K) /\ Cardinality(K) \in Nat
  BY <1>1, <1>2, FS_Subset, FS_CardinalityType
<1>4. Cardinality(N) <= Cardinality(K) /\ Cardinality(N) \in Nat
  BY <1>1, <1>3, FS_Subset, FS_CardinalityType
<1>5. Largest * Cardinality(N) <= Largest * Cardinality(K)
      /\ Largest * Cardinality(N) \in Nat /\ Largest * Cardinality(K) \in Nat
  <2> HIDE DEF K, N
  <2>1. QED BY <1>3, <1>4, TargetNumber, Multiplied
<1>6. Total(index') <= Total(index) /\ Total(index') \in Nat /\ Total(index) \in Nat
  <2>1. index \in Seq(Entry)
    BY DEF AInv, Types
  <2>2. Hashes(index') \subseteq Hashes(index)
    BY <2>1, BlocksOf
  <2>3. QED BY <2>1, <2>2, TotalOf
<1>7. crashes = 0 => Total(index) + Largest * Cardinality(K) <= Target + Largest * Adders
  BY DEF AInv, RoomMade
<1>8. Target + Largest * Adders \in Nat
  BY <1>2, TargetNumber, Multiplied DEF Adders
<1>9. Adders' = Adders
  BY DEF Adders
<1> HIDE DEF K, N
<1>10. crashes' = 0 => Total(index') + Largest * Cardinality(N) <= Target + Largest * Adders'
  BY <1>5, <1>6, <1>7, <1>8, <1>9
<1>11. QED BY <1>10 DEF RoomMade, Total, Hashes, Target, N

\* A thread evicts before it adds: it has the room then, and so have the others.
LEMMA RoomMakes ==
  ASSUME AInv, NEW t \in Thread, overlap' = overlap, crashes' = crashes,
         pc[t] # "idle" \/ overlap, pc[t] # "unlink", pc'[t] = "unlink",
         \A u \in Thread : u # t => pc'[u] = pc[u],
         index' \in Seq(Entry), Total(index') <= Target
  PROVE  RoomMade'
<1> DEFINE N == {u \in Thread : pc'[u] = "unlink"}
<1>1. IsFiniteSet(Thread) /\ Cardinality(Thread) \in Nat /\ N \subseteq Thread
  BY SSDAssumption, FS_CardinalityType
<1>2. Cardinality(N) <= Cardinality(Thread) /\ Cardinality(N) \in Nat
  BY <1>1, FS_Subset, FS_CardinalityType
<1>3. ~ overlap => N = {t}
  BY DEF AInv, OneAtATime
<1>4. ~ overlap => Cardinality(N) = 1
  BY <1>3, FS_Singleton
<1>5. Adders' = Adders
  BY DEF Adders
<1> HIDE DEF N
<1>6. Cardinality(N) <= Adders /\ Adders \in Nat
  BY <1>1, <1>2, <1>4 DEF Adders, AInv, Types
<1>7. Largest * Cardinality(N) <= Largest * Adders
      /\ Largest * Cardinality(N) \in Nat /\ Largest * Adders \in Nat
  BY <1>2, <1>6, TargetNumber, Multiplied
<1>8. Total(index') \in Nat
  BY TotalOf
<1>9. Total(index') + Largest * Cardinality(N) <= Target + Largest * Adders'
  BY <1>5, <1>7, <1>8, TargetNumber
<1>10. QED BY <1>9 DEF RoomMade, Total, Hashes, Target, N

\* The entry takes the room that was made for it.
LEMMA RoomUsed ==
  ASSUME AInv, NEW t \in Thread, overlap' = overlap, crashes' = crashes,
         pc[t] = "unlink", pc'[t] # "unlink",
         \A u \in Thread : u # t => pc'[u] = pc[u],
         index' \in Seq(Entry), cur[t] \in Entry, ToSet(index') \subseteq ToSet(index) \cup {cur[t]}
  PROVE  RoomMade'
<1> DEFINE K == {u \in Thread : pc[u] = "unlink"}
           N == {u \in Thread : pc'[u] = "unlink"}
<1>1. IsFiniteSet(Thread) /\ Cardinality(Thread) \in Nat /\ K \subseteq Thread
  BY SSDAssumption, FS_CardinalityType
<1>2. N = K \ {t} /\ t \in K
  OBVIOUS
<1>3. crashes = 0 => Total(index) + Largest * Cardinality(K) <= Target + Largest * Adders
  BY DEF AInv, RoomMade
<1>4. IsFiniteSet(K) /\ Cardinality(K) \in Nat
  BY <1>1, FS_Subset, FS_CardinalityType
<1> HIDE DEF K, N
<1>5. Cardinality(N) = Cardinality(K) - 1 /\ Cardinality(N) \in Nat
  BY <1>2, <1>4, FS_RemoveElement, FS_CardinalityType
<1>6. Adders' = Adders /\ Adders \in Nat
  BY <1>1 DEF Adders
<1>7. Largest * Cardinality(K) = Largest * Cardinality(N) + Largest
      /\ Largest * Cardinality(N) \in Nat /\ Largest * Adders \in Nat
  <2> DEFINE k == Cardinality(K)
             n == Cardinality(N)
  <2>1. k = n + 1 /\ n \in Nat
    BY <1>4, <1>5
  <2> HIDE DEF k, n
  <2>2. Largest * k = Largest * n + Largest /\ Largest * n \in Nat
    BY <2>1, TargetNumber, Multiplied
  <2>3. QED BY <1>6, <2>2, TargetNumber, Multiplied DEF k, n
<1>8. Total(index') <= Total(index) + Largest /\ Total(index') \in Nat /\ Total(index) \in Nat
  <2>1. index \in Seq(Entry) /\ cur[t].hash \in Hash
    BY DEF AInv, Types, Entry
  <2>2. Hashes(index') \subseteq Hashes(index) \cup {cur[t].hash}
    BY <2>1, BlocksOf
  <2>3. QED BY <2>1, <2>2, TotalOf
<1>9. crashes' = 0 => Total(index') + Largest * Cardinality(N) <= Target + Largest * Adders'
  <2> DEFINE a == Largest * Cardinality(N)
             b == Largest * Adders
  <2>1. crashes = 0 => Total(index) + a + Largest <= Target + b
    BY <1>3, <1>7, <1>8, TargetNumber
  <2>2. a \in Nat /\ b \in Nat
    BY <1>7
  <2> HIDE DEF a, b
  <2>3. crashes' = 0 => Total(index') + a <= Target + b
    BY <1>8, <2>1, <2>2, TargetNumber
  <2>4. QED BY <1>6, <2>3 DEF a, b
<1>10. QED BY <1>9 DEF RoomMade, Total, Hashes, Target, N

\* The new entry of a block is the one whose file has no "_tmp" in its name.
LEMMA NewEntry ==
  \A h \in Hash : [hash |-> h, path |-> 0] \in Entry
<1>1. 0 \in Path
  BY SSDAssumption DEF Path
<1>2. QED BY <1>1 DEF Entry

\* Names are as long as the restarts make them.
LEMMA LongestNat ==
  ASSUME AInv
  PROVE  Longest \in Nat
BY DEF AInv, Types, NamesBounded, Longest

\* An item for the writer, while the queue has room.
LEMMA QueuedItem ==
  ASSUME Types, Room > 0, NEW x \in Item
  PROVE  /\ Append(queue, x) \in Seq(Item) /\ Len(Append(queue, x)) <= QueueMax
         /\ ToSet(Append(queue, x)) = ToSet(queue) \cup {x}
<1>1. queue \in Seq(Item) /\ Len(queue) < QueueMax /\ Len(queue) \in Nat /\ QueueMax \in Nat
  BY SSDAssumption, LenProperties DEF Types, Room
<1>2. /\ Append(queue, x) \in Seq(Item) /\ Len(Append(queue, x)) = Len(queue) + 1
      /\ ToSet(Append(queue, x)) = ToSet(queue) \cup {x}
  BY <1>1, AppendQueue
<1>3. QED BY <1>1, <1>2

------------------------------------------------------------------------------
(* save_block *)

\* Steps that only move on.
LEMMA SaveStepsKeep ==
  ASSUME AInv, NEW t \in Thread, SaveInHot(t) \/ SaveRefused(t) \/ SaveHot(t)
  PROVE  AInv'
<1> USE DEF AInv
<1>1. /\ pc[t] = "inHot" /\ up /\ cur[t] \in Entry
      /\ kept' = kept \/ kept' = kept \cup {cur[t].hash}
      /\ \/ Done(t)
         \/ mode # "buffer" /\ pc' = [pc EXCEPT ![t] = "hotPut"] /\ UNCHANGED <<cur, added>>
      /\ UNCHANGED <<mode, overlap, up, closing, index, hot, limit, pending, owedBytes, queue, disk,
                     todo, unlinks, wpc, witem, ops, faults, crashes, disturbed>>
  BY WorksUp DEF SaveInHot, SaveRefused, SaveHot, Placed, PlacedAt, config, life, memory, writer,
                 counts
<1>2. /\ pc' \in [Thread -> Steps] /\ cur' \in [Thread -> Entry \cup {NoEntry}]
      /\ added' \in [Thread -> BOOLEAN]
      /\ \A u \in Thread : u # t => pc'[u] = pc[u] /\ cur'[u] = cur[u]
      /\ \/ pc'[t] = "idle" /\ cur'[t] = NoEntry
         \/ pc'[t] = "hotPut" /\ cur'[t] = cur[t] /\ mode # "buffer"
  BY <1>1 DEF Types, Done, Steps
<1>3. Types'
  BY <1>1, <1>2 DEF Types, Entry
<1>4. PlacedAt(t)'
  BY <1>1, <1>2 DEF PlacedAt
<1>5. Longest' = Longest
  BY <1>1 DEF Longest
<1>6. /\ NamedAt(t)' /\ Named(index)' /\ Named(hot)' /\ Named(queue)'
      /\ \A f \in disk' : f.path <= Longest + 1
  BY <1>1, <1>2, <1>5 DEF NamesBounded, NamedAt, Named, NoEntry, Longest, Types
<1>7. Placed' /\ NamesBounded' /\ Down' /\ OneAtATime'
  BY <1>1, <1>2, <1>4, <1>6, ThreadMoves
<1>8. PendingEnds'
  BY <1>1, <1>2, PendingMoves
<1>9. BuffersEnd'
  <2>1. Hashes(hot') = Hashes(hot) /\ pc[t] # "bufferPut"
    BY <1>1
  <2>2. ToSet(queue) \subseteq ToSet(queue') /\ mode' = mode /\ wpc' = wpc /\ witem' = witem
    BY <1>1
  <2>3. \A h \in Hashes(hot') : h \in Hashes(hot) \/ (pc'[t] = "bufferPut" /\ cur'[t].hash = h)
    BY <2>1
  <2>4. QED BY <1>2, <2>1, <2>2, <2>3, BuffersMove
<1>10. RoomMade'
  BY <1>1, <1>2, RoomStays DEF Types
<1>11. QED BY <1>3, <1>7, <1>8, <1>9, <1>10

\* save_block begins.
LEMMA SaveBeginKeeps ==
  ASSUME AInv, NEW t \in Thread, NEW h \in Hash, SaveBegin(t, h)
  PROVE  AInv'
<1> USE DEF AInv
<1>1. /\ up /\ pc[t] = "idle" /\ (overlap \/ AtRest) /\ ops' = ops + 1
      /\ \/ index' = Touched(h) /\ kept' = kept \cup {h} /\ UNCHANGED <<pc, cur>>
         \/ /\ index' = index /\ kept' = kept
            /\ pc' = [pc EXCEPT ![t] = "inHot"]
            /\ cur' = [cur EXCEPT ![t] = [hash |-> h, path |-> 0]]
      /\ UNCHANGED <<mode, overlap, up, closing, hot, limit, pending, owedBytes, queue, disk, todo,
                     unlinks, added, wpc, witem, faults, crashes, disturbed>>
  BY DEF SaveBegin, MayBegin, Begin, config, life, writer
<1>2. /\ index' \in Seq(Entry) /\ OnePerBlock(index') /\ ToSet(index') = ToSet(index)
      /\ Len(index') \in Nat /\ Len(index') <= Len(index)
      /\ pc' \in [Thread -> Steps] /\ cur' \in [Thread -> Entry \cup {NoEntry}]
      /\ \A u \in Thread : u # t => pc'[u] = pc[u] /\ cur'[u] = cur[u]
      /\ kept' \subseteq Hash
      /\ \/ pc'[t] = "idle" /\ cur'[t] = cur[t]
         \/ pc'[t] = "inHot" /\ cur'[t] = [hash |-> h, path |-> 0] /\ cur'[t] \in Entry
  <2> DEFINE new == [hash |-> h, path |-> 0]
  <2>1. new \in Entry
    BY NewEntry
  <2>2. Len(index) \in Nat
    BY LenProperties DEF Types
  <2>3. CASE index' = Touched(h) /\ kept' = kept \cup {h} /\ UNCHANGED <<pc, cur>>
    <3>1. index' \in Seq(Entry) /\ OnePerBlock(index') /\ ToSet(index') = ToSet(index) /\ Len(index') \in Nat /\ Len(index') <= Len(index)
      BY <2>3, TouchedIndex DEF Types
    <3>2. QED BY <1>1, <2>3, <3>1 DEF Types
  <2>4. CASE /\ index' = index /\ kept' = kept
             /\ pc' = [pc EXCEPT ![t] = "inHot"]
             /\ cur' = [cur EXCEPT ![t] = [hash |-> h, path |-> 0]]
    <3> HIDE DEF new
    <3>1. cur' = [cur EXCEPT ![t] = new]
      BY <2>4 DEF new
    <3>2. /\ pc' \in [Thread -> Steps] /\ cur' \in [Thread -> Entry \cup {NoEntry}] /\ pc'[t] = "inHot" /\ cur'[t] = new
          /\ \A u \in Thread : u # t => pc'[u] = pc[u] /\ cur'[u] = cur[u]
      BY <2>1, <2>4, <3>1 DEF Types, Steps
    <3>3. QED BY <2>1, <2>2, <2>4, <3>2 DEF Types, new
  <2>5. QED BY <1>1, <2>3, <2>4
<1>3. Types'
  BY <1>1, <1>2 DEF Types
<1>4. PlacedAt(t)'
  BY <1>1, <1>2 DEF PlacedAt, Placed
<1>5. Longest' = Longest
  BY <1>1 DEF Longest
<1>6. /\ NamedAt(t)' /\ Named(index)' /\ Named(hot)' /\ Named(queue)'
      /\ \A f \in disk' : f.path <= Longest + 1
  BY <1>1, <1>2, <1>5, LongestNat DEF NamesBounded, NamedAt, Named
<1>7. Placed' /\ NamesBounded' /\ Down' /\ OneAtATime'
  BY <1>1, <1>2, <1>4, <1>6, ThreadMoves
<1>8. PendingEnds'
  BY <1>1, <1>2, PendingMoves
<1>9. BuffersEnd'
  <2>1. Hashes(hot') = Hashes(hot) /\ pc[t] # "bufferPut" /\ pc'[t] # "bufferPut"
    BY <1>1, <1>2
  <2>2. QED BY <1>1, <1>2, <2>1, BuffersMove
<1>10. RoomMade'
  BY <1>1, <1>2, RoomStays DEF Types
<1>11. QED BY <1>3, <1>7, <1>8, <1>9, <1>10

\* The block goes into the hot cache; what it displaces is to be queued.
LEMMA PutHotKeeps ==
  ASSUME AInv, NEW t \in Thread, PutHot(t)
  PROVE  AInv'
<1> USE DEF AInv
<1>1. /\ pc[t] = "hotPut" /\ up /\ mode # "buffer" /\ cur[t] \in Entry
      /\ HotPut(t, cur[t], "idle")
      /\ cur' = [cur EXCEPT ![t] = NoEntry]
      /\ UNCHANGED <<mode, overlap, up, closing, index, limit, pending, owedBytes, queue, disk,
                     unlinks, added, wpc, witem, ops, faults, crashes, disturbed>>
  BY WorksUp DEF PutHot, Placed, PlacedAt, config, life, writer, counts
<1>2. /\ hot' \in Seq(Entry) /\ OnePerBlock(hot') /\ ToSet(hot') \subseteq ToSet(hot) \cup {cur[t]}
      /\ todo' \in [Thread -> Seq(Entry)] /\ ToSet(todo'[t]) \subseteq ToSet(hot)
      /\ todo'[t] # <<>> => mode = "hot"
      /\ pc' \in [Thread -> Steps] /\ cur' \in [Thread -> Entry \cup {NoEntry}]
      /\ \A u \in Thread : u # t => /\ pc'[u] = pc[u] /\ cur'[u] = cur[u] /\ todo'[u] = todo[u]
      /\ pc'[t] = (IF todo'[t] = <<>> THEN "idle" ELSE "enqueue") /\ cur'[t] = NoEntry
      /\ kept' \subseteq Hash
  <2> DEFINE e == cur[t]
             rest == Without(hot, e.hash)
             n == IF Excess(rest) > 0 THEN Excess(rest) ELSE 0
             victims == First(Evictable(rest), n)
             toWrite == Kept(victims, Unsaved)
             stay == Kept(rest, Of(Hash \ Hashes(victims)))
  <2>1. /\ rest \in Seq(Entry) /\ OnePerBlock(rest) /\ ToSet(rest) = {x \in ToSet(hot) : x.hash # e.hash}
        /\ Hashes(rest) = Hashes(hot) \ {e.hash} /\ Len(rest) \in Nat
    BY WithoutBlock DEF Types
  <2>2. n \in Nat
    BY <2>1 DEF Excess, Types
  <2>3. /\ hot' = Append(stay, e) /\ todo' = [todo EXCEPT ![t] = toWrite]
        /\ pc' = [pc EXCEPT ![t] = IF toWrite = <<>> THEN "idle" ELSE "enqueue"]
        /\ kept' \subseteq kept \cup {e.hash}
    BY <1>1 DEF HotPut
  <2> HIDE DEF rest, n
  <2>4. Evictable(rest) \in Seq(Entry) /\ ToSet(Evictable(rest)) \subseteq ToSet(rest)
    BY <2>1, KeptBlocks DEF Evictable
  <2>5. victims \in Seq(Entry) /\ ToSet(victims) \subseteq ToSet(rest)
    BY <2>2, <2>4, OldestBlocks
  <2> HIDE DEF victims
  <2>6. toWrite \in Seq(Entry) /\ ToSet(toWrite) \subseteq ToSet(rest) \cap Unsaved
    BY <2>5, KeptBlocks
  <2>7. stay \in Seq(Entry) /\ OnePerBlock(stay) /\ ToSet(stay) \subseteq ToSet(rest)
    BY <2>1, KeptBlocks
  <2> HIDE DEF toWrite, stay
  <2>8. e \notin ToSet(stay) /\ \A x \in ToSet(stay) : x.hash # e.hash
    BY <2>1, <2>7
  <2>9. hot' \in Seq(Entry) /\ ToSet(hot') = ToSet(stay) \cup {e} /\ IsInjective(hot')
    BY <1>1, <2>3, <2>7, <2>8, AppendQueue DEF OnePerBlock
  <2>10. OnePerBlock(hot')
    BY <2>7, <2>8, <2>9 DEF OnePerBlock
  <2>11. toWrite # <<>> => mode = "hot"
    <3>1. toWrite # <<>> => Unsaved # {}
      BY <2>6, NonEmptyQueue
    <3>2. Unsaved # {} => mode # "ram"
      BY DEF Unsaved, CanWrite
    <3>3. QED BY <1>1, <3>1, <3>2, SSDAssumption DEF Types
  <2>12. ToSet(hot') \subseteq ToSet(hot) \cup {e} /\ ToSet(toWrite) \subseteq ToSet(hot)
    BY <2>1, <2>6, <2>7, <2>9
  <2>13. kept' \subseteq Hash
    BY <1>1, <2>3 DEF Types, Entry
  <2>14. /\ todo' \in [Thread -> Seq(Entry)] /\ todo'[t] = toWrite
         /\ \A u \in Thread : u # t => todo'[u] = todo[u]
    BY <2>3, <2>6 DEF Types
  <2>15. /\ pc' \in [Thread -> Steps] /\ pc'[t] = (IF toWrite = <<>> THEN "idle" ELSE "enqueue")
         /\ \A u \in Thread : u # t => pc'[u] = pc[u]
    BY <2>3 DEF Types, Steps
  <2>16. /\ cur' \in [Thread -> Entry \cup {NoEntry}] /\ cur'[t] = NoEntry
         /\ \A u \in Thread : u # t => cur'[u] = cur[u]
    BY <1>1 DEF Types
  <2>17. QED BY <2>9, <2>10, <2>11, <2>12, <2>13, <2>14, <2>15, <2>16
<1>3. Types'
  BY <1>1, <1>2 DEF Types, Entry
<1>4. PlacedAt(t)'
  BY <1>1, <1>2 DEF PlacedAt
<1>5. Longest' = Longest
  BY <1>1 DEF Longest
<1>6. /\ NamedAt(t)' /\ Named(index)' /\ Named(hot)' /\ Named(queue)'
      /\ \A f \in disk' : f.path <= Longest + 1
  <2>1. Named(hot)' /\ Named(todo[t])'
    BY <1>2, <1>5 DEF NamesBounded, NamedAt, Named
  <2>2. QED BY <1>1, <1>2, <1>5, <2>1, LongestNat DEF NamesBounded, NamedAt, Named, NoEntry
<1>7. Placed' /\ NamesBounded' /\ Down' /\ OneAtATime'
  BY <1>1, <1>2, <1>4, <1>6, ThreadMoves
<1>8. PendingEnds'
  BY <1>1, <1>2, PendingMoves
<1>9. BuffersEnd'
  <2>1. mode # "buffer"
    BY <1>1
  <2>2. QED BY <1>1, <2>1 DEF BuffersEnd
<1>10. RoomMade'
  BY <1>1, <1>2, RoomStays DEF Types
<1>11. QED BY <1>3, <1>7, <1>8, <1>9, <1>10

\* The write-through save makes room in the index.
LEMMA SaveMakesRoomKeeps ==
  ASSUME AInv, NEW t \in Thread, SaveMakesRoom(t)
  PROVE  AInv'
<1> USE DEF AInv
<1>1. /\ pc[t] = "inHot" /\ up /\ mode = "buffer" /\ cur[t] \in Entry
      /\ unlinks' = [unlinks EXCEPT ![t] = First(index, Over)] /\ index' = From(index, Over + 1)
      /\ pc' = [pc EXCEPT ![t] = "unlink"] /\ kept' \subseteq kept
      /\ UNCHANGED <<mode, overlap, up, closing, hot, limit, pending, owedBytes, queue, disk, cur,
                     todo, added, wpc, witem, ops, faults, crashes, disturbed>>
  BY WorksUp DEF SaveMakesRoom, Evicting, Losing, Placed, PlacedAt, config, life, writer, counts
<1>2. /\ index' \in Seq(Entry) /\ OnePerBlock(index') /\ ToSet(index') \subseteq ToSet(index)
      /\ Total(index') <= Target
      /\ unlinks' \in [Thread -> Seq(Entry)] /\ ToSet(unlinks'[t]) \subseteq ToSet(index)
      /\ pc' \in [Thread -> Steps] /\ pc'[t] = "unlink"
      /\ \A u \in Thread : u # t => pc'[u] = pc[u] /\ unlinks'[u] = unlinks[u]
  <2> DEFINE gone == First(index, Over)
             rest == From(index, Over + 1)
  <2>1. /\ gone \in Seq(Entry) /\ rest \in Seq(Entry) /\ OnePerBlock(rest)
        /\ ToSet(index) = ToSet(gone) \cup ToSet(rest)
        /\ Total(rest) <= Target
    BY EvictedIndex DEF Types
  <2>2. unlinks' = [unlinks EXCEPT ![t] = gone] /\ index' = rest
    BY <1>1
  <2> HIDE DEF gone, rest
  <2>3. /\ unlinks' \in [Thread -> Seq(Entry)] /\ unlinks'[t] = gone
        /\ \A u \in Thread : u # t => unlinks'[u] = unlinks[u]
    BY <2>1, <2>2 DEF Types
  <2>4. /\ pc' \in [Thread -> Steps] /\ pc'[t] = "unlink"
        /\ \A u \in Thread : u # t => pc'[u] = pc[u]
    BY <1>1 DEF Types, Steps
  <2>5. QED BY <2>1, <2>2, <2>3, <2>4
<1>3. Types'
  BY <1>1, <1>2 DEF Types, Entry
<1>4. PlacedAt(t)'
  BY <1>1, <1>2 DEF PlacedAt
<1>5. Longest' = Longest
  BY <1>1 DEF Longest
<1>6. /\ NamedAt(t)' /\ Named(index)' /\ Named(hot)' /\ Named(queue)'
      /\ \A f \in disk' : f.path <= Longest + 1
  <2>1. Named(index)' /\ Named(unlinks[t])'
    BY <1>2, <1>5 DEF NamesBounded, Named
  <2>2. QED BY <1>1, <1>2, <1>5, <2>1 DEF NamesBounded, NamedAt, Named
<1>7. Placed' /\ NamesBounded' /\ Down' /\ OneAtATime'
  BY <1>1, <1>2, <1>4, <1>6, ThreadMoves
<1>8. PendingEnds'
  BY <1>1, <1>2, PendingMoves
<1>9. BuffersEnd'
  <2>1. Hashes(hot') = Hashes(hot) /\ pc[t] # "bufferPut"
    BY <1>1
  <2>2. QED BY <1>1, <1>2, <2>1, BuffersMove
<1>10. RoomMade'
  BY <1>1, <1>2, RoomMakes
<1>11. QED BY <1>3, <1>7, <1>8, <1>9, <1>10

\* The buffer to read the block from.
LEMMA SaveBuffersKeeps ==
  ASSUME AInv, NEW t \in Thread, SaveBuffers(t)
  PROVE  AInv'
<1> USE DEF AInv
<1>1. /\ pc[t] = "buffer" /\ up /\ mode = "buffer" /\ cur[t] \in Entry
      /\ hot' = Append(Without(hot, cur[t].hash), cur[t]) /\ pc' = [pc EXCEPT ![t] = "bufferPut"]
      /\ UNCHANGED <<mode, overlap, up, closing, index, limit, pending, owedBytes, queue, disk, cur,
                     todo, unlinks, added, wpc, witem, ops, faults, crashes, kept, disturbed>>
  BY WorksUp DEF SaveBuffers, Placed, PlacedAt, config, life, writer, counts
<1>2. /\ hot' \in Seq(Entry) /\ OnePerBlock(hot') /\ ToSet(hot') \subseteq ToSet(hot) \cup {cur[t]}
      /\ Hashes(hot') = Hashes(hot) \cup {cur[t].hash}
      /\ pc' \in [Thread -> Steps] /\ pc'[t] = "bufferPut"
      /\ \A u \in Thread : u # t => pc'[u] = pc[u]
  <2> DEFINE e == cur[t]
             r == Append(Without(hot, e.hash), e)
  <2>1. e \in Entry /\ hot' = r
    BY <1>1
  <2>2. /\ r \in Seq(Entry) /\ ToSet(r) = {f \in ToSet(hot) : f.hash # e.hash} \cup {e}
        /\ Hashes(r) = Hashes(hot) \cup {e.hash} /\ OnePerBlock(r)
    BY <2>1, RenewedBlock DEF Types
  <2> HIDE DEF r
  <2>3. pc' \in [Thread -> Steps] /\ pc'[t] = "bufferPut" /\ \A u \in Thread : u # t => pc'[u] = pc[u]
    BY <1>1 DEF Types, Steps
  <2>4. QED BY <2>1, <2>2, <2>3
<1>3. Types'
  BY <1>1, <1>2 DEF Types, Entry
<1>4. PlacedAt(t)'
  BY <1>1, <1>2 DEF PlacedAt
<1>5. Longest' = Longest
  BY <1>1 DEF Longest
<1>6. /\ NamedAt(t)' /\ Named(index)' /\ Named(hot)' /\ Named(queue)'
      /\ \A f \in disk' : f.path <= Longest + 1
  <2>1. Named(hot)'
    BY <1>1, <1>2, <1>5 DEF NamesBounded, NamedAt, Named
  <2>2. QED BY <1>1, <1>2, <1>5, <2>1 DEF NamesBounded, NamedAt, Named
<1>7. Placed' /\ NamesBounded' /\ Down' /\ OneAtATime'
  BY <1>1, <1>2, <1>4, <1>6, ThreadMoves
<1>8. PendingEnds'
  BY <1>1, <1>2, PendingMoves
<1>9. BuffersEnd'
  <2>1. /\ \A h \in Hashes(hot') : h \in Hashes(hot) \/ (pc'[t] = "bufferPut" /\ cur'[t].hash = h)
        /\ pc[t] # "bufferPut"
    BY <1>1, <1>2
  <2>2. QED BY <1>1, <1>2, <2>1, BuffersMove
<1>10. RoomMade'
  BY <1>1, <1>2, RoomStays DEF Types
<1>11. QED BY <1>3, <1>7, <1>8, <1>9, <1>10

\* The write is queued, or the save undone.
LEMMA SaveQueuesKeeps ==
  ASSUME AInv, NEW t \in Thread, SaveQueues(t)
  PROVE  AInv'
<1> USE DEF AInv
<1>1. /\ pc[t] = "bufferPut" /\ up /\ mode = "buffer" /\ cur[t] \in Entry
      /\ \/ /\ Room > 0 /\ queue' = Append(queue, WriteItem(cur[t])) /\ kept' = kept \cup {cur[t].hash}
            /\ UNCHANGED <<index, hot>>
         \/ /\ index' = Without(index, cur[t].hash) /\ hot' = Without(hot, cur[t].hash)
            /\ UNCHANGED <<queue, kept>>
      /\ Done(t)
      /\ UNCHANGED <<mode, overlap, up, closing, limit, pending, owedBytes, disk, todo, unlinks, wpc,
                     witem, ops, faults, crashes, disturbed>>
  BY WorksUp DEF SaveQueues, Placed, PlacedAt, config, life, writer, counts
<1>2. /\ index' \in Seq(Entry) /\ OnePerBlock(index') /\ ToSet(index') \subseteq ToSet(index)
      /\ Len(index') \in Nat /\ Len(index') <= Len(index)
      /\ hot' \in Seq(Entry) /\ OnePerBlock(hot') /\ ToSet(hot') \subseteq ToSet(hot) /\ Hashes(hot') \subseteq Hashes(hot)
      /\ queue' \in Seq(Item) /\ Len(queue') <= QueueMax /\ ToSet(queue) \subseteq ToSet(queue')
      /\ \A x \in ToSet(queue') : x \in ToSet(queue) \/ x.path = cur[t].path
      /\ WriteIn(queue', cur[t].hash) \/ cur[t].hash \notin Hashes(hot')
      /\ pc' \in [Thread -> Steps] /\ cur' \in [Thread -> Entry \cup {NoEntry}]
      /\ added' \in [Thread -> BOOLEAN]
      /\ \A u \in Thread : u # t => pc'[u] = pc[u] /\ cur'[u] = cur[u]
      /\ pc'[t] = "idle" /\ cur'[t] = NoEntry
  <2>1. /\ pc' \in [Thread -> Steps] /\ cur' \in [Thread -> Entry \cup {NoEntry}]
        /\ added' \in [Thread -> BOOLEAN]
        /\ \A u \in Thread : u # t => pc'[u] = pc[u] /\ cur'[u] = cur[u]
        /\ pc'[t] = "idle" /\ cur'[t] = NoEntry
    BY <1>1 DEF Done, Types, Steps
  <2>2. Len(index) \in Nat
    BY LenProperties DEF Types
  <2>3. CASE /\ Room > 0 /\ queue' = Append(queue, WriteItem(cur[t]))
             /\ UNCHANGED <<index, hot>>
    <3>1. WriteItem(cur[t]) \in Item
      BY <1>1 DEF WriteItem, Item, Entry
    <3>2. /\ queue' \in Seq(Item) /\ Len(queue') <= QueueMax
          /\ ToSet(queue') = ToSet(queue) \cup {WriteItem(cur[t])}
      BY <2>3, <3>1, QueuedItem
    <3>3. /\ WriteItem(cur[t]).op = "write" /\ WriteItem(cur[t]).hash = cur[t].hash
          /\ WriteItem(cur[t]).path = cur[t].path
      BY DEF WriteItem
    <3>4. WriteIn(queue', cur[t].hash)
      BY <3>2, <3>3 DEF WriteIn
    <3>5. QED BY <2>1, <2>2, <2>3, <3>2, <3>3, <3>4 DEF Types
  <2>4. CASE /\ index' = Without(index, cur[t].hash) /\ hot' = Without(hot, cur[t].hash)
             /\ UNCHANGED queue
    <3>1. /\ index' \in Seq(Entry) /\ OnePerBlock(index') /\ ToSet(index') \subseteq ToSet(index)
          /\ Len(index') \in Nat /\ Len(index') <= Len(index)
      BY <2>4, WithoutBlock DEF Types
    <3>2. /\ hot' \in Seq(Entry) /\ OnePerBlock(hot') /\ ToSet(hot') \subseteq ToSet(hot)
          /\ Hashes(hot') = Hashes(hot) \ {cur[t].hash}
      BY <2>4, WithoutBlock DEF Types
    <3>3. QED BY <2>1, <2>4, <3>1, <3>2 DEF Types
  <2>5. QED BY <1>1, <2>3, <2>4
<1>3. Types'
  BY <1>1, <1>2 DEF Types, Entry
<1>4. PlacedAt(t)'
  BY <1>1, <1>2 DEF PlacedAt
<1>5. Longest' = Longest
  BY <1>1 DEF Longest
<1>6. /\ NamedAt(t)' /\ Named(index)' /\ Named(hot)' /\ Named(queue)'
      /\ \A f \in disk' : f.path <= Longest + 1
  <2>1. Named(index)' /\ Named(hot)' /\ Named(queue)'
    BY <1>2, <1>5 DEF NamesBounded, NamedAt, Named
  <2>2. QED BY <1>1, <1>2, <1>5, <2>1, LongestNat DEF NamesBounded, NamedAt, Named, NoEntry
<1>7. Placed' /\ NamesBounded' /\ Down' /\ OneAtATime'
  BY <1>1, <1>2, <1>4, <1>6, ThreadMoves
<1>8. PendingEnds'
  BY <1>1, <1>2, PendingMoves
<1>9. BuffersEnd'
  <2>1. \A h \in Hashes(hot') : h \in Hashes(hot)
    BY <1>2
  <2>2. QED BY <1>1, <1>2, <2>1, BuffersMove
<1>10. RoomMade'
  BY <1>1, <1>2, RoomStays DEF Types
<1>11. QED BY <1>3, <1>7, <1>8, <1>9, <1>10

------------------------------------------------------------------------------
(* _enqueue_ssd_write *)

\* The next entry to be queued, or the end.
LEMMA NextTodo ==
  ASSUME AInv, NEW t \in Thread, todo[t] # <<>>,
         todo' = [todo EXCEPT ![t] = Tail(@)],
         \/ Len(todo[t]) > 1 /\ pc' = [pc EXCEPT ![t] = "enqueue"] /\ UNCHANGED <<cur, added>>
         \/ Len(todo[t]) = 1 /\ Done(t)
  PROVE  /\ todo' \in [Thread -> Seq(Entry)] /\ ToSet(todo'[t]) \subseteq ToSet(todo[t])
         /\ pc' \in [Thread -> Steps] /\ cur' \in [Thread -> Entry \cup {NoEntry}]
         /\ added' \in [Thread -> BOOLEAN]
         /\ \A u \in Thread : u # t => /\ pc'[u] = pc[u] /\ cur'[u] = cur[u] /\ todo'[u] = todo[u]
         /\ \/ todo'[t] # <<>> /\ pc'[t] = "enqueue" /\ cur'[t] = cur[t]
            \/ pc'[t] = "idle" /\ cur'[t] = NoEntry
<1> DEFINE rest == Tail(todo[t])
<1>1. todo[t] \in Seq(Entry) /\ todo' = [todo EXCEPT ![t] = rest]
  BY DEF AInv, Types
<1>2. /\ rest \in Seq(Entry) /\ ToSet(rest) \subseteq ToSet(todo[t])
      /\ (rest = <<>> <=> Len(todo[t]) = 1) /\ Len(todo[t]) \in Nat
  BY <1>1, TailBlocks
<1> HIDE DEF rest
<1>3. /\ todo' \in [Thread -> Seq(Entry)] /\ todo'[t] = rest
      /\ \A u \in Thread : u # t => todo'[u] = todo[u]
  BY <1>1, <1>2 DEF AInv, Types
<1>4. CASE Len(todo[t]) > 1 /\ pc' = [pc EXCEPT ![t] = "enqueue"] /\ UNCHANGED <<cur, added>>
  <2>1. rest # <<>>
    <3> DEFINE n == Len(todo[t])
    <3>1. n \in Nat /\ n > 1
      BY <1>2, <1>4
    <3> HIDE DEF n
    <3>2. n # 1
      BY <3>1
    <3>3. QED BY <1>2, <3>2 DEF n
  <2>2. /\ pc' \in [Thread -> Steps] /\ pc'[t] = "enqueue"
        /\ \A u \in Thread : u # t => pc'[u] = pc[u]
    BY <1>4 DEF AInv, Types, Steps
  <2>3. QED BY <1>2, <1>3, <1>4, <2>1, <2>2 DEF AInv, Types
<1>5. CASE Len(todo[t]) = 1 /\ Done(t)
  <2>1. /\ pc' \in [Thread -> Steps] /\ cur' \in [Thread -> Entry \cup {NoEntry}]
        /\ added' \in [Thread -> BOOLEAN] /\ pc'[t] = "idle" /\ cur'[t] = NoEntry
        /\ \A u \in Thread : u # t => pc'[u] = pc[u] /\ cur'[u] = cur[u]
    BY <1>5 DEF AInv, Types, Done, Steps
  <2>2. QED BY <1>2, <1>3, <2>1
<1>6. QED BY <1>4, <1>5

\* Its block is pending; the index makes room for it if it has no entry.
LEMMA EnqueueBeginKeeps ==
  ASSUME AInv, NEW t \in Thread, EnqueueBegin(t)
  PROVE  AInv'
<1> USE DEF AInv
<1>1. /\ pc[t] = "enqueue" /\ up /\ mode = "hot" /\ todo[t] # <<>>
      /\ cur' = [cur EXCEPT ![t] = Head(todo[t])] /\ pending' = pending \cup {Head(todo[t]).hash}
      /\ kept' \subseteq kept
      /\ \/ added' = [added EXCEPT ![t] = FALSE] /\ pc' = [pc EXCEPT ![t] = "put"] /\ UNCHANGED <<index, unlinks>>
         \/ /\ added' = [added EXCEPT ![t] = TRUE] /\ pc' = [pc EXCEPT ![t] = "unlink"]
            /\ unlinks' = [unlinks EXCEPT ![t] = First(index, Over)] /\ index' = From(index, Over + 1)
      /\ UNCHANGED <<mode, overlap, up, closing, hot, limit, owedBytes, queue, disk, todo, wpc, witem,
                     ops, faults, crashes, disturbed>>
  BY WorksUp DEF EnqueueBegin, Evicting, Losing, Placed, PlacedAt, config, life, writer, counts
<1>2. /\ cur'[t] \in ToSet(todo[t]) /\ cur'[t] \in Entry /\ cur' \in [Thread -> Entry \cup {NoEntry}]
      /\ pending' = pending \cup {cur'[t].hash} /\ pending' \subseteq Hash
      /\ index' \in Seq(Entry) /\ OnePerBlock(index') /\ ToSet(index') \subseteq ToSet(index)
      /\ \/ pc'[t] = "put" /\ UNCHANGED <<index, unlinks>>
         \/ pc'[t] = "unlink" /\ Total(index') <= Target /\ ToSet(unlinks'[t]) \subseteq ToSet(index)
      /\ pc' \in [Thread -> Steps] /\ added' \in [Thread -> BOOLEAN] /\ unlinks' \in [Thread -> Seq(Entry)]
      /\ \A u \in Thread : u # t => pc'[u] = pc[u] /\ cur'[u] = cur[u] /\ unlinks'[u] = unlinks[u]
  <2> DEFINE gone == First(index, Over)
             rest == From(index, Over + 1)
             e == Head(todo[t])
  <2>1. /\ gone \in Seq(Entry) /\ rest \in Seq(Entry) /\ OnePerBlock(rest)
        /\ ToSet(index) = ToSet(gone) \cup ToSet(rest)
        /\ Total(rest) <= Target
    BY EvictedIndex DEF Types
  <2>2. e \in Entry /\ e \in ToSet(todo[t])
    BY <1>1, NonEmptyQueue DEF Types
  <2>3. /\ cur' = [cur EXCEPT ![t] = e] /\ pending' = pending \cup {e.hash}
        /\ \/ /\ added' = [added EXCEPT ![t] = FALSE] /\ pc' = [pc EXCEPT ![t] = "put"]
              /\ UNCHANGED <<index, unlinks>>
           \/ /\ added' = [added EXCEPT ![t] = TRUE] /\ pc' = [pc EXCEPT ![t] = "unlink"]
              /\ unlinks' = [unlinks EXCEPT ![t] = gone] /\ index' = rest
    BY <1>1
  <2> HIDE DEF gone, rest, e
  <2>4. /\ cur' \in [Thread -> Entry \cup {NoEntry}] /\ cur'[t] = e
        /\ \A u \in Thread : u # t => cur'[u] = cur[u]
    BY <2>2, <2>3 DEF Types
  <2>5. pending' \subseteq Hash
    BY <2>2, <2>3 DEF Types, Entry
  <2>6. CASE /\ added' = [added EXCEPT ![t] = FALSE] /\ pc' = [pc EXCEPT ![t] = "put"]
             /\ UNCHANGED <<index, unlinks>>
    <3>1. /\ pc' \in [Thread -> Steps] /\ added' \in [Thread -> BOOLEAN] /\ pc'[t] = "put"
          /\ \A u \in Thread : u # t => pc'[u] = pc[u]
      BY <2>6 DEF Types, Steps
    <3>2. QED BY <2>2, <2>3, <2>4, <2>5, <2>6, <3>1 DEF Types
  <2>7. CASE /\ added' = [added EXCEPT ![t] = TRUE] /\ pc' = [pc EXCEPT ![t] = "unlink"]
             /\ unlinks' = [unlinks EXCEPT ![t] = gone] /\ index' = rest
    <3>1. /\ pc' \in [Thread -> Steps] /\ added' \in [Thread -> BOOLEAN] /\ pc'[t] = "unlink"
          /\ \A u \in Thread : u # t => pc'[u] = pc[u]
      BY <2>7 DEF Types, Steps
    <3>2. /\ unlinks' \in [Thread -> Seq(Entry)] /\ unlinks'[t] = gone
          /\ \A u \in Thread : u # t => unlinks'[u] = unlinks[u]
      BY <2>1, <2>7 DEF Types
    <3>3. QED BY <2>1, <2>2, <2>3, <2>4, <2>5, <2>7, <3>1, <3>2
  <2>8. QED BY <2>3, <2>6, <2>7
<1>3. Types'
  BY <1>1, <1>2 DEF Types
<1>4. PlacedAt(t)'
  BY <1>1, <1>2 DEF PlacedAt
<1>5. Longest' = Longest
  BY <1>1 DEF Longest
<1>6. /\ NamedAt(t)' /\ Named(index)' /\ Named(hot)' /\ Named(queue)'
      /\ \A f \in disk' : f.path <= Longest + 1
  <2>1. Named(index)' /\ Named(unlinks[t])' /\ cur'[t].path <= Longest
    BY <1>1, <1>2, <1>5 DEF NamesBounded, NamedAt, Named
  <2>2. QED BY <1>1, <1>2, <1>5, <2>1 DEF NamesBounded, NamedAt, Named
<1>7. Placed' /\ NamesBounded' /\ Down' /\ OneAtATime'
  BY <1>1, <1>2, <1>4, <1>6, ThreadMoves
<1>8. PendingEnds'
  BY <1>1, <1>2, PendingMoves
<1>9. BuffersEnd'
  <2>1. mode # "buffer"
    BY <1>1
  <2>2. QED BY <1>1, <2>1 DEF BuffersEnd
<1>10. RoomMade'
  <2>1. CASE pc'[t] = "put" /\ UNCHANGED <<index, unlinks>>
    BY <1>1, <1>2, <2>1, RoomStays
  <2>2. CASE pc'[t] = "unlink" /\ Total(index') <= Target
    BY <1>1, <1>2, <2>2, RoomMakes
  <2>3. QED BY <1>2, <2>1, <2>2
<1>11. QED BY <1>3, <1>7, <1>8, <1>9, <1>10

\* The index has room: the entry goes in.
LEMMA UnlinkAddsKeeps ==
  ASSUME AInv, NEW t \in Thread, UnlinkEvicted(t), unlinks[t] = <<>>
  PROVE  AInv'
<1> USE DEF AInv
<1>1. /\ pc[t] = "unlink" /\ up /\ cur[t] \in Entry /\ mode \in {"hot", "buffer"}
      /\ mode = "hot" => todo[t] # <<>>
      /\ index' = IndexAdd(cur[t])
      /\ pc' = [pc EXCEPT ![t] = IF mode = "buffer" THEN "buffer" ELSE "put"]
      /\ UNCHANGED <<mode, overlap, up, closing, hot, limit, pending, owedBytes, queue, disk, cur, todo,
                     unlinks, added, wpc, witem, ops, faults, crashes, kept, disturbed>>
  BY WorksUp DEF UnlinkEvicted, Placed, PlacedAt, config, life, writer, counts
<1>2. /\ index' \in Seq(Entry) /\ OnePerBlock(index') /\ ToSet(index') \subseteq ToSet(index) \cup {cur[t]}
      /\ Len(index') \in Nat /\ Len(index') <= Len(index) + 1 /\ Len(index) \in Nat
      /\ pc' \in [Thread -> Steps] /\ pc'[t] = (IF mode = "buffer" THEN "buffer" ELSE "put")
      /\ \A u \in Thread : u # t => pc'[u] = pc[u]
  <2> DEFINE e == cur[t]
             r == Append(Without(index, e.hash), e)
  <2>1. index' = r /\ e \in Entry
    BY <1>1 DEF IndexAdd
  <2>2. /\ r \in Seq(Entry) /\ ToSet(r) = {f \in ToSet(index) : f.hash # e.hash} \cup {e}
        /\ OnePerBlock(r) /\ Len(r) \in Nat /\ Len(r) <= Len(index) + 1
    BY <2>1, RenewedBlock DEF Types
  <2> HIDE DEF r
  <2>3. /\ pc' \in [Thread -> Steps] /\ pc'[t] = (IF mode = "buffer" THEN "buffer" ELSE "put")
        /\ \A u \in Thread : u # t => pc'[u] = pc[u]
    BY <1>1 DEF Types, Steps
  <2>4. Len(index) \in Nat
    BY LenProperties DEF Types
  <2>5. QED BY <2>1, <2>2, <2>3, <2>4
<1>3. Types'
  BY <1>1, <1>2 DEF Types, Entry
<1>4. PlacedAt(t)'
  BY <1>1, <1>2 DEF PlacedAt
<1>5. Longest' = Longest
  BY <1>1 DEF Longest
<1>6. /\ NamedAt(t)' /\ Named(index)' /\ Named(hot)' /\ Named(queue)'
      /\ \A f \in disk' : f.path <= Longest + 1
  <2>1. Named(index)'
    BY <1>2, <1>5 DEF NamesBounded, NamedAt, Named
  <2>2. QED BY <1>1, <1>2, <1>5, <2>1 DEF NamesBounded, NamedAt, Named
<1>7. Placed' /\ NamesBounded' /\ Down' /\ OneAtATime'
  BY <1>1, <1>2, <1>4, <1>6, ThreadMoves
<1>8. PendingEnds'
  <2>1. CASE mode = "hot"
    BY <1>1, <1>2, <2>1, PendingMoves
  <2>2. CASE mode = "buffer"
    BY <1>1, <2>2 DEF PendingEnds
  <2>3. QED BY <1>1, <2>1, <2>2
<1>9. BuffersEnd'
  <2>1. Hashes(hot') = Hashes(hot) /\ pc[t] # "bufferPut" /\ pc'[t] # "bufferPut"
    BY <1>1, <1>2
  <2>2. QED BY <1>1, <1>2, <2>1, BuffersMove
<1>10. RoomMade'
  BY <1>1, <1>2, RoomUsed
<1>11. QED BY <1>3, <1>7, <1>8, <1>9, <1>10

\* The file of an evicted block: left to the writer, or removed here.
LEMMA UnlinkEvictedKeeps ==
  ASSUME AInv, NEW t \in Thread, UnlinkEvicted(t), unlinks[t] # <<>>
  PROVE  AInv'
<1> USE DEF AInv
<1>1. /\ pc[t] = "unlink" /\ up
      /\ unlinks' = [unlinks EXCEPT ![t] = Tail(@)]
      /\ \/ /\ Room > 0 /\ disk' = disk
            /\ queue' = Append(queue, [op |-> "unlink", hash |-> Head(unlinks[t]).hash,
                                       path |-> Head(unlinks[t]).path])
         \/ disk' = Unlinked(Head(unlinks[t]).hash, Head(unlinks[t]).path) /\ queue' = queue
      /\ UNCHANGED <<mode, overlap, up, closing, index, hot, limit, pending, owedBytes, pc, cur, todo,
                     added, wpc, witem, ops, faults, crashes, kept, disturbed>>
  BY WorksUp DEF UnlinkEvicted, config, life, writer, counts
<1>2. /\ queue' \in Seq(Item) /\ Len(queue') <= QueueMax /\ ToSet(queue) \subseteq ToSet(queue')
      /\ \A x \in ToSet(queue') : x \in ToSet(queue) \/ x.path = Head(unlinks[t]).path
      /\ disk' \subseteq disk /\ Head(unlinks[t]) \in ToSet(unlinks[t])
      /\ ToSet(unlinks'[t]) \subseteq ToSet(unlinks[t]) /\ unlinks' \in [Thread -> Seq(Entry)]
      /\ \A u \in Thread : u # t => unlinks'[u] = unlinks[u]
  <2> DEFINE e == Head(unlinks[t])
             rest == Tail(unlinks[t])
             x == [op |-> "unlink", hash |-> e.hash, path |-> e.path]
  <2>1. /\ e \in Entry /\ rest \in Seq(Entry) /\ ToSet(unlinks[t]) = ToSet(rest) \cup {e}
    BY TailBlocks DEF Types
  <2>2. /\ unlinks' = [unlinks EXCEPT ![t] = rest]
        /\ \/ Room > 0 /\ disk' = disk /\ queue' = Append(queue, x)
           \/ disk' = Unlinked(e.hash, e.path) /\ queue' = queue
    BY <1>1
  <2> HIDE DEF e, rest
  <2>3. x \in Item /\ x.path = e.path
    BY <2>1 DEF Item, Entry
  <2> HIDE DEF x
  <2>4. Unlinked(e.hash, e.path) \subseteq disk
    BY DEF Unlinked
  <2>5. /\ unlinks' \in [Thread -> Seq(Entry)] /\ unlinks'[t] = rest
        /\ \A u \in Thread : u # t => unlinks'[u] = unlinks[u]
    BY <2>1, <2>2 DEF Types
  <2>6. CASE Room > 0 /\ disk' = disk /\ queue' = Append(queue, x)
    <3>1. /\ queue' \in Seq(Item) /\ Len(queue') <= QueueMax
          /\ ToSet(queue') = ToSet(queue) \cup {x}
      BY <2>3, <2>6, QueuedItem
    <3>2. QED BY <2>1, <2>3, <2>5, <2>6, <3>1 DEF e
  <2>7. CASE disk' = Unlinked(e.hash, e.path) /\ queue' = queue
    BY <2>1, <2>4, <2>5, <2>7 DEF Types, e
  <2>8. QED BY <2>2, <2>6, <2>7
<1>3. Types'
  BY <1>1, <1>2 DEF Types, Entry
<1>4. PlacedAt(t)'
  BY <1>1, <1>2 DEF Placed, PlacedAt
<1>5. Longest' = Longest
  BY <1>1 DEF Longest
<1>6. /\ NamedAt(t)' /\ Named(index)' /\ Named(hot)' /\ Named(queue)'
      /\ \A f \in disk' : f.path <= Longest + 1
  <2>1. Named(queue)' /\ Named(unlinks[t])'
    BY <1>2, <1>5 DEF NamesBounded, NamedAt, Named
  <2>2. QED BY <1>1, <1>2, <1>5, <2>1 DEF NamesBounded, NamedAt, Named
<1>7. Placed' /\ NamesBounded' /\ Down' /\ OneAtATime'
  BY <1>1, <1>2, <1>4, <1>6, ThreadMoves
<1>8. PendingEnds'
  BY <1>1, <1>2, PendingMoves
<1>9. BuffersEnd'
  <2>1. Hashes(hot') = Hashes(hot) /\ pc[t] # "bufferPut"
    BY <1>1
  <2>2. QED BY <1>1, <1>2, <2>1, BuffersMove
<1>10. RoomMade'
  BY <1>1, <1>2, RoomStays DEF Types
<1>11. QED BY <1>3, <1>7, <1>8, <1>9, <1>10

\* The queue takes the write.
LEMMA EnqueuePutKeeps ==
  ASSUME AInv, NEW t \in Thread, EnqueuePut(t)
  PROVE  AInv'
<1> USE DEF AInv
<1>1. /\ pc[t] = "put" /\ up /\ mode = "hot" /\ todo[t] # <<>> /\ cur[t] \in Entry /\ Room > 0
      /\ queue' = Append(queue, WriteItem(cur[t])) /\ pc' = [pc EXCEPT ![t] = "owe"]
      /\ UNCHANGED <<mode, overlap, up, closing, index, hot, limit, pending, owedBytes, disk, cur, todo,
                     unlinks, added, wpc, witem, ops, faults, crashes, kept, disturbed>>
  BY WorksUp DEF EnqueuePut, Placed, PlacedAt, config, life, writer, counts
<1>2. /\ queue' \in Seq(Item) /\ Len(queue') <= QueueMax /\ ToSet(queue) \subseteq ToSet(queue')
      /\ \A x \in ToSet(queue') : x \in ToSet(queue) \/ x.path = cur[t].path
      /\ WriteIn(queue', cur[t].hash)
      /\ pc' \in [Thread -> Steps] /\ pc'[t] = "owe"
      /\ \A u \in Thread : u # t => pc'[u] = pc[u]
  <2> DEFINE x == WriteItem(cur[t])
  <2>1. x \in Item /\ x.op = "write" /\ x.hash = cur[t].hash /\ x.path = cur[t].path
    BY <1>1 DEF WriteItem, Item, Entry
  <2> HIDE DEF x
  <2>2. /\ queue' \in Seq(Item) /\ Len(queue') <= QueueMax /\ ToSet(queue') = ToSet(queue) \cup {x}
    BY <1>1, <2>1, QueuedItem DEF x
  <2>3. WriteIn(queue', cur[t].hash)
    BY <2>1, <2>2 DEF WriteIn
  <2>4. /\ pc' \in [Thread -> Steps] /\ pc'[t] = "owe"
        /\ \A u \in Thread : u # t => pc'[u] = pc[u]
    BY <1>1 DEF Types, Steps
  <2>5. QED BY <2>1, <2>2, <2>3, <2>4
<1>3. Types'
  BY <1>1, <1>2 DEF Types, Entry
<1>4. PlacedAt(t)'
  BY <1>1, <1>2 DEF PlacedAt
<1>5. Longest' = Longest
  BY <1>1 DEF Longest
<1>6. /\ NamedAt(t)' /\ Named(index)' /\ Named(hot)' /\ Named(queue)'
      /\ \A f \in disk' : f.path <= Longest + 1
  <2>1. Named(queue)'
    BY <1>2, <1>5 DEF NamesBounded, NamedAt, Named
  <2>2. QED BY <1>1, <1>2, <1>5, <2>1 DEF NamesBounded, NamedAt, Named
<1>7. Placed' /\ NamesBounded' /\ Down' /\ OneAtATime'
  BY <1>1, <1>2, <1>4, <1>6, ThreadMoves
<1>8. PendingEnds'
  BY <1>1, <1>2, PendingMoves
<1>9. BuffersEnd'
  <2>1. mode # "buffer"
    BY <1>1
  <2>2. QED BY <1>1, <2>1 DEF BuffersEnd
<1>10. RoomMade'
  BY <1>1, <1>2, RoomStays DEF Types
<1>11. QED BY <1>3, <1>7, <1>8, <1>9, <1>10

\* The bytes of the write are put down as owed.
LEMMA EnqueueOweKeeps ==
  ASSUME AInv, NEW t \in Thread, EnqueueOwe(t)
  PROVE  AInv'
<1> USE DEF AInv
<1>1. /\ pc[t] = "owe" /\ up /\ mode = "hot" /\ todo[t] # <<>> /\ cur[t] \in Entry
      /\ todo' = [todo EXCEPT ![t] = Tail(@)] /\ owedBytes' = owedBytes \cup {cur[t].hash}
      /\ \/ Len(todo[t]) > 1 /\ pc' = [pc EXCEPT ![t] = "enqueue"] /\ UNCHANGED <<cur, added>>
         \/ Len(todo[t]) = 1 /\ Done(t)
      /\ UNCHANGED <<mode, overlap, up, closing, index, hot, limit, pending, queue, disk, unlinks, wpc,
                     witem, ops, faults, crashes, kept, disturbed>>
  BY WorksUp DEF EnqueueOwe, Placed, PlacedAt, config, life, writer, counts
<1>2. /\ todo' \in [Thread -> Seq(Entry)] /\ ToSet(todo'[t]) \subseteq ToSet(todo[t])
      /\ pc' \in [Thread -> Steps] /\ cur' \in [Thread -> Entry \cup {NoEntry}]
      /\ added' \in [Thread -> BOOLEAN] /\ owedBytes' \subseteq Hash
      /\ \A u \in Thread : u # t => /\ pc'[u] = pc[u] /\ cur'[u] = cur[u] /\ todo'[u] = todo[u]
      /\ \/ todo'[t] # <<>> /\ pc'[t] = "enqueue" /\ cur'[t] = cur[t]
         \/ pc'[t] = "idle" /\ cur'[t] = NoEntry
  <2>1. owedBytes' \subseteq Hash
    BY <1>1 DEF Types, Entry
  <2>2. QED BY <1>1, <2>1, NextTodo
<1>3. Types'
  BY <1>1, <1>2 DEF Types
<1>4. PlacedAt(t)'
  BY <1>1, <1>2 DEF PlacedAt
<1>5. Longest' = Longest
  BY <1>1 DEF Longest
<1>6. /\ NamedAt(t)' /\ Named(index)' /\ Named(hot)' /\ Named(queue)'
      /\ \A f \in disk' : f.path <= Longest + 1
  <2>1. Named(todo[t])'
    BY <1>2, <1>5 DEF NamesBounded, NamedAt, Named
  <2>2. QED BY <1>1, <1>2, <1>5, <2>1, LongestNat DEF NamesBounded, NamedAt, Named, NoEntry
<1>7. Placed' /\ NamesBounded' /\ Down' /\ OneAtATime'
  BY <1>1, <1>2, <1>4, <1>6, ThreadMoves
<1>8. PendingEnds'
  BY <1>1, <1>2, PendingMoves
<1>9. BuffersEnd'
  <2>1. mode # "buffer"
    BY <1>1
  <2>2. QED BY <1>1, <2>1 DEF BuffersEnd
<1>10. RoomMade'
  BY <1>1, <1>2, RoomStays DEF Types
<1>11. QED BY <1>3, <1>7, <1>8, <1>9, <1>10

\* The queue is full: the index entry is undone and the entry kept.
LEMMA EnqueueFullKeeps ==
  ASSUME AInv, NEW t \in Thread, EnqueueFull(t)
  PROVE  AInv'
<1> USE DEF AInv
<1>1. /\ pc[t] = "put" /\ up /\ mode = "hot" /\ todo[t] # <<>> /\ cur[t] \in Entry
      /\ index' = IF added[t] THEN Without(index, cur[t].hash) ELSE index
      /\ pending' = pending \ {cur[t].hash} /\ hot' = Keep(cur[t]) /\ kept' \subseteq kept
      /\ todo' = [todo EXCEPT ![t] = Tail(@)]
      /\ \/ Len(todo[t]) > 1 /\ pc' = [pc EXCEPT ![t] = "enqueue"] /\ UNCHANGED <<cur, added>>
         \/ Len(todo[t]) = 1 /\ Done(t)
      /\ UNCHANGED <<mode, overlap, up, closing, limit, owedBytes, queue, disk, unlinks, wpc,
                     witem, ops, faults, crashes, disturbed>>
  BY WorksUp DEF EnqueueFull, Placed, PlacedAt, config, life, writer, counts
<1>2. /\ index' \in Seq(Entry) /\ OnePerBlock(index') /\ ToSet(index') \subseteq ToSet(index)
      /\ Len(index') \in Nat /\ Len(index') <= Len(index)
      /\ hot' \in Seq(Entry) /\ OnePerBlock(hot') /\ ToSet(hot') \subseteq ToSet(hot) \cup {cur[t]}
      /\ todo' \in [Thread -> Seq(Entry)] /\ ToSet(todo'[t]) \subseteq ToSet(todo[t])
      /\ pc' \in [Thread -> Steps] /\ cur' \in [Thread -> Entry \cup {NoEntry}]
      /\ added' \in [Thread -> BOOLEAN]
      /\ \A u \in Thread : u # t => /\ pc'[u] = pc[u] /\ cur'[u] = cur[u] /\ todo'[u] = todo[u]
      /\ \/ todo'[t] # <<>> /\ pc'[t] = "enqueue" /\ cur'[t] = cur[t]
         \/ pc'[t] = "idle" /\ cur'[t] = NoEntry
  <2>1. /\ index' \in Seq(Entry) /\ OnePerBlock(index') /\ ToSet(index') \subseteq ToSet(index)
        /\ Len(index') \in Nat /\ Len(index') <= Len(index)
    <3>1. Len(index) \in Nat
      BY LenProperties DEF Types
    <3>2. /\ Without(index, cur[t].hash) \in Seq(Entry) /\ OnePerBlock(Without(index, cur[t].hash))
          /\ ToSet(Without(index, cur[t].hash)) \subseteq ToSet(index)
          /\ Len(Without(index, cur[t].hash)) \in Nat
          /\ Len(Without(index, cur[t].hash)) <= Len(index)
      BY WithoutBlock DEF Types
    <3>3. QED BY <1>1, <3>1, <3>2 DEF Types
  <2>2. /\ hot' \in Seq(Entry) /\ OnePerBlock(hot') /\ ToSet(hot') \subseteq ToSet(hot) \cup {cur[t]}
    BY <1>1, KeptBack DEF Types
  <2>3. /\ todo' \in [Thread -> Seq(Entry)] /\ ToSet(todo'[t]) \subseteq ToSet(todo[t])
        /\ pc' \in [Thread -> Steps] /\ cur' \in [Thread -> Entry \cup {NoEntry}] /\ added' \in [Thread -> BOOLEAN]
        /\ \A u \in Thread : u # t => /\ pc'[u] = pc[u] /\ cur'[u] = cur[u] /\ todo'[u] = todo[u]
        /\ \/ todo'[t] # <<>> /\ pc'[t] = "enqueue" /\ cur'[t] = cur[t]
           \/ pc'[t] = "idle" /\ cur'[t] = NoEntry
    BY <1>1, NextTodo
  <2>4. QED BY <2>1, <2>2, <2>3
<1>3. Types'
  BY <1>1, <1>2 DEF Types
<1>4. PlacedAt(t)'
  BY <1>1, <1>2 DEF PlacedAt
<1>5. Longest' = Longest
  BY <1>1 DEF Longest
<1>6. /\ NamedAt(t)' /\ Named(index)' /\ Named(hot)' /\ Named(queue)'
      /\ \A f \in disk' : f.path <= Longest + 1
  <2>1. Named(index)' /\ Named(hot)' /\ Named(todo[t])'
    BY <1>2, <1>5 DEF NamesBounded, NamedAt, Named
  <2>2. QED BY <1>1, <1>2, <1>5, <2>1, LongestNat DEF NamesBounded, NamedAt, Named, NoEntry
<1>7. Placed' /\ NamesBounded' /\ Down' /\ OneAtATime'
  BY <1>1, <1>2, <1>4, <1>6, ThreadMoves
<1>8. PendingEnds'
  BY <1>1, <1>2, PendingMoves
<1>9. BuffersEnd'
  <2>1. mode # "buffer"
    BY <1>1
  <2>2. QED BY <1>1, <2>1 DEF BuffersEnd
<1>10. RoomMade'
  BY <1>1, <1>2, RoomStays DEF Types
<1>11. QED BY <1>3, <1>7, <1>8, <1>9, <1>10

\* close() skips a block whose file exists.
LEMMA FlushSkipKeeps ==
  ASSUME AInv, NEW t \in Thread, FlushSkip(t)
  PROVE  AInv'
<1> USE DEF AInv
<1>1. /\ pc[t] = "enqueue" /\ up /\ mode = "hot" /\ todo[t] # <<>>
      /\ todo' = [todo EXCEPT ![t] = Tail(@)] /\ disturbed' \in BOOLEAN
      /\ \/ Len(todo[t]) > 1 /\ pc' = [pc EXCEPT ![t] = "enqueue"] /\ UNCHANGED <<cur, added>>
         \/ Len(todo[t]) = 1 /\ Done(t)
      /\ UNCHANGED <<mode, overlap, up, closing, index, hot, limit, pending, owedBytes, queue, disk, unlinks, wpc,
                     witem, ops, faults, crashes, kept>>
  <2>1. Types /\ FlushSkip(t) => disturbed' \in BOOLEAN
    BY DEF FlushSkip, Types
  <2>2. UNCHANGED pc /\ pc[t] = "enqueue" => pc' = [pc EXCEPT ![t] = "enqueue"]
    BY DEF Types
  <2>3. QED BY <2>1, <2>2, WorksUp DEF FlushSkip, Placed, PlacedAt, config, life, memory, writer, counts
<1>2. /\ todo' \in [Thread -> Seq(Entry)] /\ ToSet(todo'[t]) \subseteq ToSet(todo[t])
      /\ pc' \in [Thread -> Steps] /\ cur' \in [Thread -> Entry \cup {NoEntry}]
      /\ added' \in [Thread -> BOOLEAN]
      /\ \A u \in Thread : u # t => /\ pc'[u] = pc[u] /\ cur'[u] = cur[u] /\ todo'[u] = todo[u]
      /\ \/ todo'[t] # <<>> /\ pc'[t] = "enqueue" /\ cur'[t] = cur[t]
         \/ pc'[t] = "idle" /\ cur'[t] = NoEntry
  BY <1>1, NextTodo
<1>3. Types'
  BY <1>1, <1>2 DEF Types
<1>4. PlacedAt(t)'
  BY <1>1, <1>2 DEF PlacedAt
<1>5. Longest' = Longest
  BY <1>1 DEF Longest
<1>6. /\ NamedAt(t)' /\ Named(index)' /\ Named(hot)' /\ Named(queue)'
      /\ \A f \in disk' : f.path <= Longest + 1
  <2>1. Named(todo[t])'
    BY <1>2, <1>5 DEF NamesBounded, NamedAt, Named
  <2>2. QED BY <1>1, <1>2, <1>5, <2>1, LongestNat DEF NamesBounded, NamedAt, Named, NoEntry
<1>7. Placed' /\ NamesBounded' /\ Down' /\ OneAtATime'
  BY <1>1, <1>2, <1>4, <1>6, ThreadMoves
<1>8. PendingEnds'
  BY <1>1, <1>2, PendingMoves
<1>9. BuffersEnd'
  <2>1. mode # "buffer"
    BY <1>1
  <2>2. QED BY <1>1, <2>1 DEF BuffersEnd
<1>10. RoomMade'
  BY <1>1, <1>2, RoomStays DEF Types
<1>11. QED BY <1>3, <1>7, <1>8, <1>9, <1>10

------------------------------------------------------------------------------
(* load_block, load_block_with_metadata *)

\* load_block begins: in memory a hit, otherwise on to the index.
LEMMA LoadBeginKeeps ==
  ASSUME AInv, NEW t \in Thread, NEW h \in Hash, LoadBegin(t, h)
  PROVE  AInv'
<1> USE DEF AInv
<1>1. /\ up /\ pc[t] = "idle" /\ (overlap \/ AtRest) /\ ops' = ops + 1
      /\ \/ /\ hot' = IF h \in Hashes(hot) THEN Append(Without(hot, h), EntryOf(hot, h)) ELSE hot
            /\ index' = Touched(h) /\ UNCHANGED <<pc, cur>>
         \/ /\ index' = index /\ hot' = hot
            /\ pc' = [pc EXCEPT ![t] = "inIndex"]
            /\ cur' = [cur EXCEPT ![t] = [hash |-> h, path |-> 0]]
      /\ UNCHANGED <<mode, overlap, up, closing, limit, pending, owedBytes, queue, disk, todo,
                     unlinks, added, wpc, witem, faults, crashes, kept, disturbed>>
  BY DEF LoadBegin, MayBegin, Begin, config, life, writer
<1>2. /\ index' \in Seq(Entry) /\ OnePerBlock(index') /\ ToSet(index') = ToSet(index)
      /\ Len(index') \in Nat /\ Len(index') <= Len(index)
      /\ hot' \in Seq(Entry) /\ OnePerBlock(hot') /\ ToSet(hot') = ToSet(hot) /\ Hashes(hot') = Hashes(hot)
      /\ pc' \in [Thread -> Steps] /\ cur' \in [Thread -> Entry \cup {NoEntry}]
      /\ \A u \in Thread : u # t => pc'[u] = pc[u] /\ cur'[u] = cur[u]
      /\ \/ pc'[t] = "idle" /\ cur'[t] = cur[t]
         \/ pc'[t] = "inIndex" /\ cur'[t] = [hash |-> h, path |-> 0] /\ cur'[t] \in Entry
  <2> DEFINE new == [hash |-> h, path |-> 0]
             r == Append(Without(hot, h), EntryOf(hot, h))
  <2>1. new \in Entry
    BY NewEntry
  <2>2. Len(index) \in Nat /\ hot \in Seq(Entry) /\ OnePerBlock(hot)
    BY LenProperties DEF Types
  <2>3. h \in Hashes(hot) => /\ r \in Seq(Entry) /\ OnePerBlock(r) /\ ToSet(r) = ToSet(hot)
                              /\ Hashes(r) = Hashes(hot)
    BY <2>2, RenewedEntry
  <2>4. CASE /\ hot' = IF h \in Hashes(hot) THEN Append(Without(hot, h), EntryOf(hot, h)) ELSE hot
             /\ index' = Touched(h) /\ UNCHANGED <<pc, cur>>
    <3>1. index' \in Seq(Entry) /\ OnePerBlock(index') /\ ToSet(index') = ToSet(index) /\ Len(index') \in Nat /\ Len(index') <= Len(index)
      BY <2>2, <2>4, TouchedIndex DEF Types
    <3>2. hot' \in Seq(Entry) /\ OnePerBlock(hot') /\ ToSet(hot') = ToSet(hot) /\ Hashes(hot') = Hashes(hot)
      <4> HIDE DEF r
      <4>1. hot' = IF h \in Hashes(hot) THEN r ELSE hot
        BY <2>4 DEF r
      <4>2. QED BY <2>2, <2>3, <4>1
    <3>3. QED BY <1>1, <2>4, <3>1, <3>2 DEF Types
  <2>5. CASE /\ index' = index /\ hot' = hot
             /\ pc' = [pc EXCEPT ![t] = "inIndex"]
             /\ cur' = [cur EXCEPT ![t] = [hash |-> h, path |-> 0]]
    <3> HIDE DEF new
    <3>1. cur' = [cur EXCEPT ![t] = new]
      BY <2>5 DEF new
    <3>2. /\ pc' \in [Thread -> Steps] /\ cur' \in [Thread -> Entry \cup {NoEntry}] /\ pc'[t] = "inIndex" /\ cur'[t] = new
          /\ \A u \in Thread : u # t => pc'[u] = pc[u] /\ cur'[u] = cur[u]
      BY <2>1, <2>5, <3>1 DEF Types, Steps
    <3>3. QED BY <2>1, <2>2, <2>5, <3>2 DEF Types, new
  <2>6. QED BY <1>1, <2>4, <2>5
<1>3. Types'
  BY <1>1, <1>2 DEF Types
<1>4. PlacedAt(t)'
  BY <1>1, <1>2 DEF PlacedAt, Placed
<1>5. Longest' = Longest
  BY <1>1 DEF Longest
<1>6. /\ NamedAt(t)' /\ Named(index)' /\ Named(hot)' /\ Named(queue)'
      /\ \A f \in disk' : f.path <= Longest + 1
  BY <1>1, <1>2, <1>5, LongestNat DEF NamesBounded, NamedAt, Named
<1>7. Placed' /\ NamesBounded' /\ Down' /\ OneAtATime'
  BY <1>1, <1>2, <1>4, <1>6, ThreadMoves
<1>8. PendingEnds'
  BY <1>1, <1>2, PendingMoves
<1>9. BuffersEnd'
  <2>1. Hashes(hot') = Hashes(hot) /\ pc[t] # "bufferPut" /\ pc'[t] # "bufferPut"
    BY <1>1, <1>2
  <2>2. QED BY <1>1, <1>2, <2>1, BuffersMove
<1>10. RoomMade'
  BY <1>1, <1>2, RoomStays DEF Types
<1>11. QED BY <1>3, <1>7, <1>8, <1>9, <1>10

\* The index is asked for the block.
LEMMA LoadIndexKeeps ==
  ASSUME AInv, NEW t \in Thread, LoadIndex(t)
  PROVE  AInv'
<1> USE DEF AInv
<1>1. /\ pc[t] = "inIndex" /\ up
      /\ \/ /\ cur[t].hash \in Hashes(index) /\ added' = added
            /\ cur' = [cur EXCEPT ![t] = EntryOf(index, cur[t].hash)]
            /\ pc' = [pc EXCEPT ![t] = "exists"]
         \/ Done(t)
      /\ UNCHANGED <<mode, overlap, up, closing, index, hot, limit, pending, owedBytes, queue, disk, todo,
                     unlinks, wpc, witem, ops, faults, crashes, kept, disturbed>>
  BY WorksUp DEF LoadIndex, config, life, memory, writer, counts
<1>2. /\ pc' \in [Thread -> Steps] /\ cur' \in [Thread -> Entry \cup {NoEntry}]
      /\ added' \in [Thread -> BOOLEAN]
      /\ \A u \in Thread : u # t => pc'[u] = pc[u] /\ cur'[u] = cur[u]
      /\ \/ pc'[t] = "idle" /\ cur'[t] = NoEntry
         \/ pc'[t] = "exists" /\ cur'[t] \in Entry /\ cur'[t] \in ToSet(index)
  <2>1. CASE /\ cur[t].hash \in Hashes(index) /\ added' = added
             /\ cur' = [cur EXCEPT ![t] = EntryOf(index, cur[t].hash)]
             /\ pc' = [pc EXCEPT ![t] = "exists"]
    <3> DEFINE e == EntryOf(index, cur[t].hash)
    <3>1. e \in ToSet(index) /\ e \in Entry
      BY <2>1, EntryIn DEF Types
    <3>2. cur' = [cur EXCEPT ![t] = e]
      BY <2>1
    <3> HIDE DEF e
    <3>3. QED BY <2>1, <3>1, <3>2 DEF Types, Steps
  <2>2. CASE Done(t)
    BY <2>2 DEF Types, Done, Steps
  <2>3. QED BY <1>1, <2>1, <2>2
<1>3. Types'
  BY <1>1, <1>2 DEF Types, Entry
<1>4. PlacedAt(t)'
  BY <1>1, <1>2 DEF PlacedAt
<1>5. Longest' = Longest
  BY <1>1 DEF Longest
<1>6. /\ NamedAt(t)' /\ Named(index)' /\ Named(hot)' /\ Named(queue)'
      /\ \A f \in disk' : f.path <= Longest + 1
  BY <1>1, <1>2, <1>5, LongestNat DEF NamesBounded, NamedAt, Named, NoEntry
<1>7. Placed' /\ NamesBounded' /\ Down' /\ OneAtATime'
  BY <1>1, <1>2, <1>4, <1>6, ThreadMoves
<1>8. PendingEnds'
  BY <1>1, <1>2, PendingMoves
<1>9. BuffersEnd'
  <2>1. Hashes(hot') = Hashes(hot) /\ pc[t] # "bufferPut" /\ pc'[t] # "bufferPut"
    BY <1>1, <1>2
  <2>2. QED BY <1>1, <1>2, <2>1, BuffersMove
<1>10. RoomMade'
  BY <1>1, <1>2, RoomStays DEF Types
<1>11. QED BY <1>3, <1>7, <1>8, <1>9, <1>10

\* The file is looked for.
LEMMA LoadExistsKeeps ==
  ASSUME AInv, NEW t \in Thread, LoadExists(t)
  PROVE  AInv'
<1> USE DEF AInv
<1>1. /\ pc[t] = "exists" /\ up /\ cur[t] \in Entry
      /\ pc' = [pc EXCEPT ![t] = IF FileAt(cur[t].hash, cur[t].path) THEN "read" ELSE "missing"]
      /\ UNCHANGED <<mode, overlap, up, closing, index, hot, limit, pending, owedBytes, queue, disk, cur, todo,
                     unlinks, added, wpc, witem, ops, faults, crashes, kept, disturbed>>
  BY WorksUp DEF LoadExists, Placed, PlacedAt, config, life, memory, writer, counts
<1>2. /\ pc' \in [Thread -> Steps] /\ pc'[t] \in {"read", "missing"}
      /\ \A u \in Thread : u # t => pc'[u] = pc[u]
  BY <1>1 DEF Types, Steps
<1>3. Types'
  BY <1>1, <1>2 DEF Types
<1>4. PlacedAt(t)'
  BY <1>1, <1>2 DEF PlacedAt
<1>5. Longest' = Longest
  BY <1>1 DEF Longest
<1>6. /\ NamedAt(t)' /\ Named(index)' /\ Named(hot)' /\ Named(queue)'
      /\ \A f \in disk' : f.path <= Longest + 1
  BY <1>1, <1>2, <1>5 DEF NamesBounded, NamedAt, Named, NoEntry, Longest, Types
<1>7. Placed' /\ NamesBounded' /\ Down' /\ OneAtATime'
  BY <1>1, <1>2, <1>4, <1>6, ThreadMoves
<1>8. PendingEnds'
  BY <1>1, <1>2, PendingMoves
<1>9. BuffersEnd'
  <2>1. Hashes(hot') = Hashes(hot) /\ pc[t] # "bufferPut" /\ pc'[t] # "bufferPut"
    BY <1>1, <1>2
  <2>2. QED BY <1>1, <1>2, <2>1, BuffersMove
<1>10. RoomMade'
  BY <1>1, <1>2, RoomStays DEF Types
<1>11. QED BY <1>3, <1>7, <1>8, <1>9, <1>10

\* A missing file takes its block out of the index.
LEMMA LoadMissingKeeps ==
  ASSUME AInv, NEW t \in Thread, LoadMissing(t)
  PROVE  AInv'
<1> USE DEF AInv
<1>1. /\ pc[t] = "missing" /\ up /\ index' = Without(index, cur[t].hash) /\ Done(t)
      /\ UNCHANGED <<mode, overlap, up, closing, hot, limit, pending, owedBytes, queue, disk, todo,
                     unlinks, wpc, witem, ops, faults, crashes, kept, disturbed>>
  BY WorksUp DEF LoadMissing, config, life, writer, counts
<1>2. /\ index' \in Seq(Entry) /\ OnePerBlock(index') /\ ToSet(index') \subseteq ToSet(index)
      /\ Len(index') \in Nat /\ Len(index') <= Len(index)
      /\ pc' \in [Thread -> Steps] /\ cur' \in [Thread -> Entry \cup {NoEntry}]
      /\ added' \in [Thread -> BOOLEAN]
      /\ \A u \in Thread : u # t => pc'[u] = pc[u] /\ cur'[u] = cur[u]
      /\ pc'[t] = "idle" /\ cur'[t] = NoEntry
  <2> DEFINE w == Without(index, cur[t].hash)
  <2>1. /\ w \in Seq(Entry) /\ OnePerBlock(w) /\ ToSet(w) \subseteq ToSet(index)
        /\ Len(w) \in Nat /\ Len(w) <= Len(index)
    BY WithoutBlock DEF Types
  <2>2. index' = w
    BY <1>1
  <2> HIDE DEF w
  <2>3. /\ pc' \in [Thread -> Steps] /\ cur' \in [Thread -> Entry \cup {NoEntry}]
        /\ added' \in [Thread -> BOOLEAN] /\ pc'[t] = "idle" /\ cur'[t] = NoEntry
        /\ \A u \in Thread : u # t => pc'[u] = pc[u] /\ cur'[u] = cur[u]
    BY <1>1 DEF Types, Done, Steps
  <2>4. QED BY <1>1, <2>1, <2>2, <2>3
<1>3. Types'
  BY <1>1, <1>2 DEF Types
<1>4. PlacedAt(t)'
  BY <1>1, <1>2 DEF PlacedAt
<1>5. Longest' = Longest
  BY <1>1 DEF Longest
<1>6. /\ NamedAt(t)' /\ Named(index)' /\ Named(hot)' /\ Named(queue)'
      /\ \A f \in disk' : f.path <= Longest + 1
  <2>1. Named(index)'
    BY <1>2, <1>5 DEF NamesBounded, NamedAt, Named
  <2>2. QED BY <1>1, <1>2, <1>5, <2>1, LongestNat DEF NamesBounded, NamedAt, Named, NoEntry
<1>7. Placed' /\ NamesBounded' /\ Down' /\ OneAtATime'
  BY <1>1, <1>2, <1>4, <1>6, ThreadMoves
<1>8. PendingEnds'
  BY <1>1, <1>2, PendingMoves
<1>9. BuffersEnd'
  <2>1. Hashes(hot') = Hashes(hot) /\ pc[t] # "bufferPut" /\ pc'[t] # "bufferPut"
    BY <1>1, <1>2
  <2>2. QED BY <1>1, <1>2, <2>1, BuffersMove
<1>10. RoomMade'
  BY <1>1, <1>2, RoomStays DEF Types
<1>11. QED BY <1>3, <1>7, <1>8, <1>9, <1>10

\* The file is read; with the hot cache on, it gets a copy.
LEMMA LoadReadsKeeps ==
  ASSUME AInv, NEW t \in Thread, LoadReads(t)
  PROVE  AInv'
<1> USE DEF AInv
<1>1. /\ pc[t] = "read" /\ up /\ cur[t] \in Entry /\ index' = Touched(cur[t].hash)
      /\ \/ Done(t)
         \/ mode # "buffer" /\ pc' = [pc EXCEPT ![t] = "hotPut"] /\ UNCHANGED <<cur, added>>
      /\ UNCHANGED <<mode, overlap, up, closing, hot, limit, pending, owedBytes, queue, disk, todo,
                     unlinks, wpc, witem, ops, faults, crashes, kept, disturbed>>
  BY WorksUp DEF LoadReads, Placed, PlacedAt, config, life, writer, counts
<1>2. /\ index' \in Seq(Entry) /\ OnePerBlock(index') /\ ToSet(index') \subseteq ToSet(index)
      /\ Len(index') \in Nat /\ Len(index') <= Len(index)
      /\ pc' \in [Thread -> Steps] /\ cur' \in [Thread -> Entry \cup {NoEntry}]
      /\ added' \in [Thread -> BOOLEAN]
      /\ \A u \in Thread : u # t => pc'[u] = pc[u] /\ cur'[u] = cur[u]
      /\ \/ pc'[t] = "idle" /\ cur'[t] = NoEntry
         \/ pc'[t] = "hotPut" /\ cur'[t] = cur[t] /\ mode # "buffer"
  <2>1. /\ index' \in Seq(Entry) /\ OnePerBlock(index') /\ ToSet(index') \subseteq ToSet(index)
        /\ Len(index') \in Nat /\ Len(index') <= Len(index)
    BY <1>1, TouchedIndex DEF Types
  <2>2. /\ pc' \in [Thread -> Steps] /\ cur' \in [Thread -> Entry \cup {NoEntry}]
        /\ added' \in [Thread -> BOOLEAN]
        /\ \A u \in Thread : u # t => pc'[u] = pc[u] /\ cur'[u] = cur[u]
        /\ \/ pc'[t] = "idle" /\ cur'[t] = NoEntry
           \/ pc'[t] = "hotPut" /\ cur'[t] = cur[t] /\ mode # "buffer"
    BY <1>1 DEF Types, Done, Steps
  <2>3. QED BY <2>1, <2>2
<1>3. Types'
  BY <1>1, <1>2 DEF Types
<1>4. PlacedAt(t)'
  BY <1>1, <1>2 DEF PlacedAt
<1>5. Longest' = Longest
  BY <1>1 DEF Longest
<1>6. /\ NamedAt(t)' /\ Named(index)' /\ Named(hot)' /\ Named(queue)'
      /\ \A f \in disk' : f.path <= Longest + 1
  <2>1. Named(index)'
    BY <1>2, <1>5 DEF NamesBounded, NamedAt, Named
  <2>2. QED BY <1>1, <1>2, <1>5, <2>1, LongestNat DEF NamesBounded, NamedAt, Named, NoEntry
<1>7. Placed' /\ NamesBounded' /\ Down' /\ OneAtATime'
  BY <1>1, <1>2, <1>4, <1>6, ThreadMoves
<1>8. PendingEnds'
  BY <1>1, <1>2, PendingMoves
<1>9. BuffersEnd'
  <2>1. Hashes(hot') = Hashes(hot) /\ pc[t] # "bufferPut" /\ pc'[t] # "bufferPut"
    BY <1>1, <1>2
  <2>2. QED BY <1>1, <1>2, <2>1, BuffersMove
<1>10. RoomMade'
  BY <1>1, <1>2, RoomStays DEF Types
<1>11. QED BY <1>3, <1>7, <1>8, <1>9, <1>10

\* The file cannot be read: the index gives the block up.
LEMMA LoadFailsKeeps ==
  ASSUME AInv, NEW t \in Thread, LoadFails(t)
  PROVE  AInv'
<1> USE DEF AInv
<1>1. /\ pc[t] = "read" /\ up /\ cur[t] \in Entry /\ index' = Without(index, cur[t].hash)
      /\ pc' = [pc EXCEPT ![t] = "discard"] /\ faults' \in Nat /\ kept' \subseteq kept
      /\ UNCHANGED <<mode, overlap, up, closing, hot, limit, pending, owedBytes, queue, disk, cur, todo,
                     unlinks, added, wpc, witem, ops, crashes, disturbed>>
  BY WorksUp DEF LoadFails, Placed, PlacedAt, Types, config, life, writer
<1>2. /\ index' \in Seq(Entry) /\ OnePerBlock(index') /\ ToSet(index') \subseteq ToSet(index)
      /\ Len(index') \in Nat /\ Len(index') <= Len(index)
      /\ pc' \in [Thread -> Steps] /\ pc'[t] = "discard"
      /\ \A u \in Thread : u # t => pc'[u] = pc[u]
  <2> DEFINE w == Without(index, cur[t].hash)
  <2>1. /\ w \in Seq(Entry) /\ OnePerBlock(w) /\ ToSet(w) \subseteq ToSet(index)
        /\ Len(w) \in Nat /\ Len(w) <= Len(index)
    BY WithoutBlock DEF Types
  <2>2. index' = w
    BY <1>1
  <2> HIDE DEF w
  <2>3. /\ pc' \in [Thread -> Steps] /\ pc'[t] = "discard"
        /\ \A u \in Thread : u # t => pc'[u] = pc[u]
    BY <1>1 DEF Types, Done, Steps
  <2>4. QED BY <1>1, <2>1, <2>2, <2>3
<1>3. Types'
  BY <1>1, <1>2 DEF Types
<1>4. PlacedAt(t)'
  BY <1>1, <1>2 DEF PlacedAt
<1>5. Longest' = Longest
  BY <1>1 DEF Longest
<1>6. /\ NamedAt(t)' /\ Named(index)' /\ Named(hot)' /\ Named(queue)'
      /\ \A f \in disk' : f.path <= Longest + 1
  <2>1. Named(index)'
    BY <1>2, <1>5 DEF NamesBounded, NamedAt, Named
  <2>2. QED BY <1>1, <1>2, <1>5, <2>1, LongestNat DEF NamesBounded, NamedAt, Named, NoEntry
<1>7. Placed' /\ NamesBounded' /\ Down' /\ OneAtATime'
  BY <1>1, <1>2, <1>4, <1>6, ThreadMoves
<1>8. PendingEnds'
  BY <1>1, <1>2, PendingMoves
<1>9. BuffersEnd'
  <2>1. Hashes(hot') = Hashes(hot) /\ pc[t] # "bufferPut" /\ pc'[t] # "bufferPut"
    BY <1>1, <1>2
  <2>2. QED BY <1>1, <1>2, <2>1, BuffersMove
<1>10. RoomMade'
  BY <1>1, <1>2, RoomStays DEF Types
<1>11. QED BY <1>3, <1>7, <1>8, <1>9, <1>10

\* What is left of the file is removed.
LEMMA LoadDiscardsKeeps ==
  ASSUME AInv, NEW t \in Thread, LoadDiscards(t)
  PROVE  AInv'
<1> USE DEF AInv
<1>1. /\ pc[t] = "discard" /\ up /\ disk' \subseteq disk /\ Done(t)
      /\ UNCHANGED <<mode, overlap, up, closing, index, hot, limit, pending, owedBytes, queue, todo,
                     unlinks, wpc, witem, ops, faults, crashes, kept, disturbed>>
  BY WorksUp DEF LoadDiscards, Unlinked, config, life, memory, writer, counts
<1>2. /\ pc' \in [Thread -> Steps] /\ cur' \in [Thread -> Entry \cup {NoEntry}]
      /\ added' \in [Thread -> BOOLEAN]
      /\ \A u \in Thread : u # t => pc'[u] = pc[u] /\ cur'[u] = cur[u]
      /\ pc'[t] = "idle" /\ cur'[t] = NoEntry
  BY <1>1 DEF Types, Done, Steps
<1>3. Types'
  BY <1>1, <1>2 DEF Types
<1>4. PlacedAt(t)'
  BY <1>1, <1>2 DEF PlacedAt
<1>5. Longest' = Longest
  BY <1>1 DEF Longest
<1>6. /\ NamedAt(t)' /\ Named(index)' /\ Named(hot)' /\ Named(queue)'
      /\ \A f \in disk' : f.path <= Longest + 1
  BY <1>1, <1>2, <1>5, LongestNat DEF NamesBounded, NamedAt, Named, NoEntry
<1>7. Placed' /\ NamesBounded' /\ Down' /\ OneAtATime'
  BY <1>1, <1>2, <1>4, <1>6, ThreadMoves
<1>8. PendingEnds'
  BY <1>1, <1>2, PendingMoves
<1>9. BuffersEnd'
  <2>1. Hashes(hot') = Hashes(hot) /\ pc[t] # "bufferPut" /\ pc'[t] # "bufferPut"
    BY <1>1, <1>2
  <2>2. QED BY <1>1, <1>2, <2>1, BuffersMove
<1>10. RoomMade'
  BY <1>1, <1>2, RoomStays DEF Types
<1>11. QED BY <1>3, <1>7, <1>8, <1>9, <1>10

------------------------------------------------------------------------------
(* Memory pressure and the admin routes *)

\* Blocks leave the hot cache under pressure; those to be saved first are to be queued.
LEMMA ShedKeeps ==
  ASSUME AInv, NEW t \in Thread, NEW n \in 1 .. HotMax, NEW drop \in BOOLEAN, Shed(t, n, drop)
  PROVE  AInv'
<1> USE DEF AInv
<1>1. /\ up /\ pc[t] = "idle" /\ (overlap \/ AtRest) /\ ops' = ops + 1 /\ mode # "buffer"
      /\ \E gone, S : /\ hot' = Kept(hot, gone)
                      /\ todo' = [todo EXCEPT ![t] = S]
                      /\ pc' = [pc EXCEPT ![t] = IF S = <<>> THEN "idle" ELSE "enqueue"]
                      /\ S \in Seq(Entry) /\ ToSet(S) \subseteq ToSet(hot)
                      /\ S # <<>> => mode = "hot"
      /\ limit' = (IF Len(hot') < limit THEN Len(hot') ELSE limit) /\ kept' \subseteq kept
      /\ UNCHANGED <<mode, overlap, up, closing, index, pending, owedBytes, queue, disk, cur,
                     unlinks, added, wpc, witem, faults, crashes, disturbed>>
  <2> DEFINE clean == Kept(hot, Of(Hashes(index)))
             dirty == Kept(hot, Of(Hash \ Hashes(index)))
             usable == IF drop THEN dirty
                       ELSE IF CanWrite THEN First(dirty, Room) ELSE <<>>
             gone == Hashes(First(clean \o usable, n))
             S == IF drop THEN <<>> ELSE Kept(dirty, Of(gone))
  <2>1. /\ up /\ pc[t] = "idle" /\ (overlap \/ AtRest) /\ ops' = ops + 1 /\ mode # "buffer"
        /\ hot' = Kept(hot, Of(Hash \ gone)) /\ limit' = (IF Len(hot') < limit THEN Len(hot') ELSE limit)
        /\ todo' = [todo EXCEPT ![t] = S]
        /\ pc' = [pc EXCEPT ![t] = IF S = <<>> THEN "idle" ELSE "enqueue"]
        /\ kept' \subseteq kept
    BY DEF Shed, MayBegin, Begin
  <2>2. UNCHANGED <<mode, overlap, up, closing, index, pending, owedBytes, queue, disk, cur,
                       unlinks, added, wpc, witem, faults, crashes, disturbed>>
    BY DEF Shed, config, life, writer
  <2>3. dirty \in Seq(Entry) /\ ToSet(dirty) \subseteq ToSet(hot)
    BY KeptBlocks DEF Types
  <2>4. S \in Seq(Entry) /\ ToSet(S) \subseteq ToSet(hot)
    <3> HIDE DEF dirty, gone
    <3>1. CASE drop
      BY <3>1, NoBlocks, EmptyQueue
    <3>2. CASE ~ drop
      BY <2>3, <3>2, KeptBlocks
    <3>3. QED BY <3>1, <3>2
  <2>5. ASSUME S # <<>> PROVE mode = "hot"
    <3>1. ~ drop /\ S = Kept(dirty, Of(gone))
      BY <2>5
    <3>2. ASSUME mode = "ram" PROVE FALSE
      <4>1. gone = Hashes(First(clean \o <<>>, n))
        BY <3>1, <3>2 DEF CanWrite
      <4> DEFINE cl == clean
      <4>2. cl \in Seq(Entry) /\ ToSet(cl) \subseteq Of(Hashes(index))
        BY KeptBlocks DEF Types
      <4> HIDE DEF cl
      <4>3. cl \o <<>> = cl
        BY <4>2, ConcatEmptySeq
      <4>4. gone = Hashes(First(cl, n)) /\ n \in Nat
        BY <4>1, <4>3 DEF cl
      <4>5. gone \subseteq Hashes(index)
        <5>1. First(cl, n) \in Seq(Entry) /\ ToSet(First(cl, n)) \subseteq ToSet(cl)
          BY <4>2, <4>4, OldestBlocks
        <5> DEFINE f == First(cl, n)
        <5> HIDE DEF f
        <5>2. f \in Seq(Entry) /\ ToSet(f) \subseteq Of(Hashes(index))
          BY <4>2, <5>1 DEF f
        <5>3. Hashes(f) \subseteq Hashes(index)
          BY <5>2, BlocksOf DEF Of
        <5>4. QED BY <4>4, <5>3 DEF f
      <4> HIDE DEF gone
      <4>6. ToSet(dirty) \subseteq Of(Hash \ Hashes(index))
        BY KeptBlocks DEF Types
      <4> HIDE DEF dirty, S
      <4>7. S \in Seq(Entry) /\ ToSet(S) = ToSet(dirty) \cap Of(gone)
        BY <2>3, <3>1, KeptBlocks
      <4>8. ToSet(S) = {}
        BY <4>5, <4>6, <4>7 DEF Of
      <4>9. QED BY <2>5, <4>7, <4>8, NonEmptyQueue
    <3>3. mode \in {"hot", "buffer", "ram"}
      BY SSDAssumption DEF Types
    <3>4. QED BY <2>1, <3>2, <3>3
  <2> HIDE DEF S, gone
  <2>6. QED BY <2>1, <2>2, <2>4, <2>5
<1>2. /\ hot' \in Seq(Entry) /\ OnePerBlock(hot') /\ ToSet(hot') \subseteq ToSet(hot)
      /\ limit' \in 0 .. HotMax
      /\ kept' \subseteq Hash
      /\ todo' \in [Thread -> Seq(Entry)] /\ ToSet(todo'[t]) \subseteq ToSet(hot)
      /\ todo'[t] # <<>> => mode = "hot"
      /\ pc' \in [Thread -> Steps] /\ pc'[t] = (IF todo'[t] = <<>> THEN "idle" ELSE "enqueue")
      /\ \A u \in Thread : u # t => pc'[u] = pc[u] /\ todo'[u] = todo[u]
  <2>1. PICK gone, S : /\ hot' = Kept(hot, gone)
                       /\ todo' = [todo EXCEPT ![t] = S]
                       /\ pc' = [pc EXCEPT ![t] = IF S = <<>> THEN "idle" ELSE "enqueue"]
                       /\ S \in Seq(Entry) /\ ToSet(S) \subseteq ToSet(hot)
                       /\ S # <<>> => mode = "hot"
    BY <1>1
  <2>2. hot' \in Seq(Entry) /\ OnePerBlock(hot') /\ ToSet(hot') \subseteq ToSet(hot) /\ Len(hot') \in Nat
    BY <2>1, KeptBlocks DEF Types
  <2>3. limit' \in 0 .. HotMax
    BY <1>1, <2>2, SSDAssumption DEF Types
  <2>4. /\ todo' \in [Thread -> Seq(Entry)] /\ todo'[t] = S
        /\ \A u \in Thread : u # t => todo'[u] = todo[u]
    BY <2>1 DEF Types
  <2>5. /\ pc' \in [Thread -> Steps] /\ pc'[t] = (IF S = <<>> THEN "idle" ELSE "enqueue")
        /\ \A u \in Thread : u # t => pc'[u] = pc[u]
    BY <2>1 DEF Types, Steps
  <2>6. QED BY <1>1, <2>1, <2>2, <2>3, <2>4, <2>5 DEF Types
<1>3. Types'
  BY <1>1, <1>2 DEF Types
<1>4. PlacedAt(t)'
  BY <1>1, <1>2 DEF PlacedAt
<1>5. Longest' = Longest
  BY <1>1 DEF Longest
<1>6. /\ NamedAt(t)' /\ Named(index)' /\ Named(hot)' /\ Named(queue)'
      /\ \A f \in disk' : f.path <= Longest + 1
  <2>1. Named(hot)' /\ Named(todo[t])'
    BY <1>2, <1>5 DEF NamesBounded, Named
  <2>2. QED BY <1>1, <1>2, <1>5, <2>1, LongestNat DEF NamesBounded, NamedAt, Named
<1>7. Placed' /\ NamesBounded' /\ Down' /\ OneAtATime'
  BY <1>1, <1>2, <1>4, <1>6, ThreadMoves
<1>8. PendingEnds'
  BY <1>1, <1>2, PendingMoves
<1>9. BuffersEnd'
  <2>1. mode # "buffer"
    BY <1>1
  <2>2. QED BY <1>1, <2>1 DEF BuffersEnd
<1>10. RoomMade'
  BY <1>1, <1>2, RoomStays DEF Types
<1>11. QED BY <1>3, <1>7, <1>8, <1>9, <1>10

\* The hot cache may have one block more again.
LEMMA RelaxKeeps ==
  ASSUME AInv, NEW t \in Thread, Relax(t)
  PROVE  AInv'
<1> USE DEF AInv
<1>1. /\ up /\ pc[t] = "idle" /\ (overlap \/ AtRest) /\ ops' = ops + 1 /\ limit < HotMax /\ limit' = limit + 1
      /\ UNCHANGED <<mode, overlap, up, closing, index, hot, pending, owedBytes, queue, disk, pc, cur,
                     todo, unlinks, added, wpc, witem, faults, crashes, kept, disturbed>>
  BY DEF Relax, MayBegin, Begin, config, life, caller, writer
<1>2. /\ limit' \in 0 .. HotMax
  BY <1>1, SSDAssumption DEF Types
<1>3. Types'
  BY <1>1, <1>2 DEF Types
<1>4. PlacedAt(t)'
  BY <1>1, <1>2 DEF PlacedAt
<1>5. Longest' = Longest
  BY <1>1 DEF Longest
<1>6. /\ NamedAt(t)' /\ Named(index)' /\ Named(hot)' /\ Named(queue)'
      /\ \A f \in disk' : f.path <= Longest + 1
  BY <1>1, <1>2, <1>5 DEF NamesBounded, NamedAt, Named, NoEntry, Longest, Types
<1>7. Placed' /\ NamesBounded' /\ Down' /\ OneAtATime'
  BY <1>1, <1>2, <1>4, <1>6, ThreadMoves
<1>8. PendingEnds'
  BY <1>1, <1>2, PendingMoves
<1>9. BuffersEnd'
  <2>1. Hashes(hot') = Hashes(hot) /\ pc[t] # "bufferPut" /\ pc'[t] # "bufferPut"
    BY <1>1, <1>2
  <2>2. QED BY <1>1, <1>2, <2>1, BuffersMove
<1>10. RoomMade'
  BY <1>1, <1>2, RoomStays DEF Types
<1>11. QED BY <1>3, <1>7, <1>8, <1>9, <1>10

\* clear_hot_cache.
LEMMA ClearHotKeeps ==
  ASSUME AInv, NEW t \in Thread, ClearHot(t)
  PROVE  AInv'
<1> USE DEF AInv
<1>1. /\ up /\ pc[t] = "idle" /\ (overlap \/ AtRest) /\ ops' = ops + 1 /\ hot' = <<>>
      /\ kept' \subseteq kept /\ disturbed' = (disturbed \/ (mode = "buffer" /\ hot # <<>>))
      /\ UNCHANGED <<mode, overlap, up, closing, index, limit, pending, owedBytes, queue, disk, pc, cur,
                     todo, unlinks, added, wpc, witem, faults, crashes>>
  BY DEF ClearHot, MayBegin, Begin, config, life, caller, writer
<1>2. /\ hot' \in Seq(Entry) /\ OnePerBlock(hot') /\ ToSet(hot') = {} /\ Hashes(hot') = {}
      /\ disturbed' \in BOOLEAN
  <2>1. disturbed' \in BOOLEAN
    BY <1>1 DEF Types
  <2>2. QED BY <1>1, <2>1, NoBlocks, EmptyQueue
<1>3. Types'
  BY <1>1, <1>2 DEF Types
<1>4. PlacedAt(t)'
  BY <1>1, <1>2 DEF PlacedAt
<1>5. Longest' = Longest
  BY <1>1 DEF Longest
<1>6. /\ NamedAt(t)' /\ Named(index)' /\ Named(hot)' /\ Named(queue)'
      /\ \A f \in disk' : f.path <= Longest + 1
  <2>1. Named(hot)'
    BY <1>2 DEF Named
  <2>2. QED BY <1>1, <1>5, <2>1, LongestNat DEF NamesBounded, NamedAt, Named
<1>7. Placed' /\ NamesBounded' /\ Down' /\ OneAtATime'
  BY <1>1, <1>2, <1>4, <1>6, ThreadMoves
<1>8. PendingEnds'
  BY <1>1, <1>2, PendingMoves
<1>9. BuffersEnd'
  <2>1. Hashes(hot') = {} /\ pc[t] # "bufferPut"
    BY <1>1, <1>2
  <2>2. QED BY <1>1, <1>2, <2>1, BuffersMove
<1>10. RoomMade'
  BY <1>1, <1>2, RoomStays DEF Types
<1>11. QED BY <1>3, <1>7, <1>8, <1>9, <1>10

\* clear() begins with the entries of the index.
LEMMA ClearBeginKeeps ==
  ASSUME AInv, NEW t \in Thread, ClearBegin(t)
  PROVE  AInv'
<1> USE DEF AInv
<1>1. /\ up /\ pc[t] = "idle" /\ (overlap \/ AtRest) /\ ops' = ops + 1
      /\ unlinks' = [unlinks EXCEPT ![t] = index] /\ pc' = [pc EXCEPT ![t] = IF index = <<>> THEN "wipe" ELSE "deleteHot"]
      /\ UNCHANGED <<mode, overlap, up, closing, index, hot, limit, pending, owedBytes, queue, disk, cur,
                     todo, added, wpc, witem, faults, crashes, kept, disturbed>>
  BY DEF ClearBegin, MayBegin, Begin, config, life, memory, writer
<1>2. /\ unlinks' \in [Thread -> Seq(Entry)] /\ unlinks'[t] = index
      /\ pc' \in [Thread -> Steps] /\ pc'[t] = (IF index = <<>> THEN "wipe" ELSE "deleteHot")
      /\ \A u \in Thread : u # t => pc'[u] = pc[u] /\ unlinks'[u] = unlinks[u]
  BY <1>1 DEF Types, Steps
<1>3. Types'
  BY <1>1, <1>2 DEF Types
<1>4. PlacedAt(t)'
  BY <1>1, <1>2 DEF PlacedAt
<1>5. Longest' = Longest
  BY <1>1 DEF Longest
<1>6. /\ NamedAt(t)' /\ Named(index)' /\ Named(hot)' /\ Named(queue)'
      /\ \A f \in disk' : f.path <= Longest + 1
  <2>1. Named(unlinks[t])'
    BY <1>2, <1>5 DEF NamesBounded, Named
  <2>2. QED BY <1>1, <1>2, <1>5, <2>1, LongestNat DEF NamesBounded, NamedAt, Named
<1>7. Placed' /\ NamesBounded' /\ Down' /\ OneAtATime'
  BY <1>1, <1>2, <1>4, <1>6, ThreadMoves
<1>8. PendingEnds'
  BY <1>1, <1>2, PendingMoves
<1>9. BuffersEnd'
  <2>1. Hashes(hot') = Hashes(hot) /\ pc[t] # "bufferPut" /\ pc'[t] # "bufferPut"
    BY <1>1, <1>2
  <2>2. QED BY <1>1, <1>2, <2>1, BuffersMove
<1>10. RoomMade'
  BY <1>1, <1>2, RoomStays DEF Types
<1>11. QED BY <1>3, <1>7, <1>8, <1>9, <1>10

\* delete_block: the hot cache first.
LEMMA DeleteHotKeeps ==
  ASSUME AInv, NEW t \in Thread, DeleteHot(t)
  PROVE  AInv'
<1> USE DEF AInv
<1>1. /\ pc[t] = "deleteHot" /\ up /\ unlinks[t] # <<>> /\ hot' = Without(hot, Head(unlinks[t]).hash)
      /\ pc' = [pc EXCEPT ![t] = "deleteIndex"] /\ kept' \subseteq kept
      /\ UNCHANGED <<mode, overlap, up, closing, index, limit, pending, owedBytes, queue, disk, cur,
                     todo, unlinks, added, wpc, witem, ops, faults, crashes, disturbed>>
  BY WorksUp DEF DeleteHot, Placed, PlacedAt, config, life, writer, counts
<1>2. /\ hot' \in Seq(Entry) /\ OnePerBlock(hot') /\ ToSet(hot') \subseteq ToSet(hot) /\ Hashes(hot') \subseteq Hashes(hot)
      /\ pc' \in [Thread -> Steps] /\ pc'[t] = "deleteIndex"
      /\ \A u \in Thread : u # t => pc'[u] = pc[u]
  <2> DEFINE w == Without(hot, Head(unlinks[t]).hash)
  <2>1. w \in Seq(Entry) /\ OnePerBlock(w) /\ ToSet(w) \subseteq ToSet(hot) /\ Hashes(w) \subseteq Hashes(hot)
    BY WithoutBlock DEF Types
  <2>2. hot' = w
    BY <1>1
  <2> HIDE DEF w
  <2>3. pc' \in [Thread -> Steps] /\ pc'[t] = "deleteIndex" /\ \A u \in Thread : u # t => pc'[u] = pc[u]
    BY <1>1 DEF Types, Steps
  <2>4. QED BY <2>1, <2>2, <2>3
<1>3. Types'
  BY <1>1, <1>2 DEF Types
<1>4. PlacedAt(t)'
  BY <1>1, <1>2 DEF PlacedAt
<1>5. Longest' = Longest
  BY <1>1 DEF Longest
<1>6. /\ NamedAt(t)' /\ Named(index)' /\ Named(hot)' /\ Named(queue)'
      /\ \A f \in disk' : f.path <= Longest + 1
  <2>1. Named(hot)'
    BY <1>2, <1>5 DEF NamesBounded, Named
  <2>2. QED BY <1>1, <1>2, <1>5, <2>1, LongestNat DEF NamesBounded, NamedAt, Named
<1>7. Placed' /\ NamesBounded' /\ Down' /\ OneAtATime'
  BY <1>1, <1>2, <1>4, <1>6, ThreadMoves
<1>8. PendingEnds'
  BY <1>1, <1>2, PendingMoves
<1>9. BuffersEnd'
  <2>1. Hashes(hot') \subseteq Hashes(hot) /\ pc[t] # "bufferPut" /\ pc'[t] # "bufferPut"
    BY <1>1, <1>2
  <2>2. QED BY <1>1, <1>2, <2>1, BuffersMove
<1>10. RoomMade'
  BY <1>1, <1>2, RoomStays DEF Types
<1>11. QED BY <1>3, <1>7, <1>8, <1>9, <1>10

\* On to the next block, or to the files that are left.
LEMMA NextDeleted ==
  ASSUME AInv, NEW t \in Thread, unlinks[t] # <<>>, Deleted(t)
  PROVE  /\ unlinks' \in [Thread -> Seq(Entry)] /\ ToSet(unlinks'[t]) \subseteq ToSet(unlinks[t])
         /\ pc' \in [Thread -> Steps]
         /\ pc'[t] \in {"deleteHot", "wipe"} /\ (pc'[t] = "deleteHot" => unlinks'[t] # <<>>)
         /\ \A u \in Thread : u # t => pc'[u] = pc[u] /\ unlinks'[u] = unlinks[u]
<1> DEFINE rest == Tail(unlinks[t])
           n == Len(unlinks[t])
<1>1. unlinks[t] \in Seq(Entry)
  BY DEF AInv, Types
<1>2. /\ unlinks' = [unlinks EXCEPT ![t] = rest]
      /\ pc' = [pc EXCEPT ![t] = IF n = 1 THEN "wipe" ELSE "deleteHot"]
  BY DEF Deleted
<1>3. /\ rest \in Seq(Entry) /\ ToSet(rest) \subseteq ToSet(unlinks[t])
      /\ (rest = <<>> <=> n = 1)
  BY <1>1, TailBlocks
<1> HIDE DEF rest, n
<1>4. /\ unlinks' \in [Thread -> Seq(Entry)] /\ unlinks'[t] = rest
      /\ \A u \in Thread : u # t => unlinks'[u] = unlinks[u]
  BY <1>2, <1>3 DEF AInv, Types
<1>5. /\ pc' \in [Thread -> Steps] /\ pc'[t] = (IF n = 1 THEN "wipe" ELSE "deleteHot")
      /\ \A u \in Thread : u # t => pc'[u] = pc[u]
  BY <1>2 DEF AInv, Types, Steps
<1>6. QED BY <1>3, <1>4, <1>5

\* delete_block: the index.
LEMMA DeleteIndexKeeps ==
  ASSUME AInv, NEW t \in Thread, DeleteIndex(t)
  PROVE  AInv'
<1> USE DEF AInv
<1>1. /\ pc[t] = "deleteIndex" /\ up /\ unlinks[t] # <<>> /\ index' = Without(index, Head(unlinks[t]).hash)
      /\ \/ pc' = [pc EXCEPT ![t] = "deleteFile"] /\ unlinks' = unlinks
         \/ Deleted(t)
      /\ kept' \subseteq kept
      /\ UNCHANGED <<mode, overlap, up, closing, hot, limit, pending, owedBytes, queue, disk, cur,
                     todo, added, wpc, witem, ops, faults, crashes, disturbed>>
  BY WorksUp DEF DeleteIndex, Placed, PlacedAt, config, life, writer, counts
<1>2. /\ index' \in Seq(Entry) /\ OnePerBlock(index') /\ ToSet(index') \subseteq ToSet(index)
      /\ Len(index') \in Nat /\ Len(index') <= Len(index)
      /\ unlinks' \in [Thread -> Seq(Entry)] /\ ToSet(unlinks'[t]) \subseteq ToSet(unlinks[t])
      /\ pc' \in [Thread -> Steps]
      /\ pc'[t] \in {"deleteFile", "deleteHot", "wipe"} /\ (pc'[t] # "wipe" => unlinks'[t] # <<>>)
      /\ \A u \in Thread : u # t => pc'[u] = pc[u] /\ unlinks'[u] = unlinks[u]
  <2> DEFINE w == Without(index, Head(unlinks[t]).hash)
  <2>1. /\ w \in Seq(Entry) /\ OnePerBlock(w) /\ ToSet(w) \subseteq ToSet(index)
        /\ Len(w) \in Nat /\ Len(w) <= Len(index)
    BY WithoutBlock DEF Types
  <2>2. index' = w
    BY <1>1
  <2> HIDE DEF w
  <2>3. CASE pc' = [pc EXCEPT ![t] = "deleteFile"] /\ unlinks' = unlinks
    <3>1. /\ pc' \in [Thread -> Steps] /\ pc'[t] = "deleteFile"
          /\ \A u \in Thread : u # t => pc'[u] = pc[u]
      BY <2>3 DEF Types, Steps
    <3>2. QED BY <1>1, <2>1, <2>2, <2>3, <3>1 DEF Types
  <2>4. CASE Deleted(t)
    BY <1>1, <2>1, <2>2, <2>4, NextDeleted
  <2>5. QED BY <1>1, <2>3, <2>4
<1>3. Types'
  BY <1>1, <1>2 DEF Types
<1>4. PlacedAt(t)'
  BY <1>1, <1>2 DEF PlacedAt
<1>5. Longest' = Longest
  BY <1>1 DEF Longest
<1>6. /\ NamedAt(t)' /\ Named(index)' /\ Named(hot)' /\ Named(queue)'
      /\ \A f \in disk' : f.path <= Longest + 1
  <2>1. Named(index)' /\ Named(unlinks[t])'
    BY <1>2, <1>5 DEF NamesBounded, NamedAt, Named
  <2>2. QED BY <1>1, <1>2, <1>5, <2>1, LongestNat DEF NamesBounded, NamedAt, Named
<1>7. Placed' /\ NamesBounded' /\ Down' /\ OneAtATime'
  BY <1>1, <1>2, <1>4, <1>6, ThreadMoves
<1>8. PendingEnds'
  BY <1>1, <1>2, PendingMoves
<1>9. BuffersEnd'
  <2>1. Hashes(hot') = Hashes(hot) /\ pc[t] # "bufferPut" /\ pc'[t] # "bufferPut"
    BY <1>1, <1>2
  <2>2. QED BY <1>1, <1>2, <2>1, BuffersMove
<1>10. RoomMade'
  BY <1>1, <1>2, RoomStays DEF Types
<1>11. QED BY <1>3, <1>7, <1>8, <1>9, <1>10

\* delete_block: the file.
LEMMA DeleteFileKeeps ==
  ASSUME AInv, NEW t \in Thread, DeleteFile(t)
  PROVE  AInv'
<1> USE DEF AInv
<1>1. /\ pc[t] = "deleteFile" /\ up /\ unlinks[t] # <<>> /\ disk' \subseteq disk /\ Deleted(t)
      /\ UNCHANGED <<mode, overlap, up, closing, index, hot, limit, pending, owedBytes, queue, cur,
                     todo, added, wpc, witem, ops, faults, crashes, kept, disturbed>>
  BY WorksUp DEF DeleteFile, Unlinked, Placed, PlacedAt, config, life, memory, writer, counts
<1>2. /\ unlinks' \in [Thread -> Seq(Entry)] /\ ToSet(unlinks'[t]) \subseteq ToSet(unlinks[t])
      /\ pc' \in [Thread -> Steps]
      /\ pc'[t] \in {"deleteHot", "wipe"} /\ (pc'[t] # "wipe" => unlinks'[t] # <<>>)
      /\ \A u \in Thread : u # t => pc'[u] = pc[u] /\ unlinks'[u] = unlinks[u]
  BY <1>1, NextDeleted
<1>3. Types'
  BY <1>1, <1>2 DEF Types
<1>4. PlacedAt(t)'
  BY <1>1, <1>2 DEF PlacedAt
<1>5. Longest' = Longest
  BY <1>1 DEF Longest
<1>6. /\ NamedAt(t)' /\ Named(index)' /\ Named(hot)' /\ Named(queue)'
      /\ \A f \in disk' : f.path <= Longest + 1
  <2>1. Named(unlinks[t])'
    BY <1>2, <1>5 DEF NamesBounded, NamedAt, Named
  <2>2. QED BY <1>1, <1>2, <1>5, <2>1, LongestNat DEF NamesBounded, NamedAt, Named
<1>7. Placed' /\ NamesBounded' /\ Down' /\ OneAtATime'
  BY <1>1, <1>2, <1>4, <1>6, ThreadMoves
<1>8. PendingEnds'
  BY <1>1, <1>2, PendingMoves
<1>9. BuffersEnd'
  <2>1. Hashes(hot') = Hashes(hot) /\ pc[t] # "bufferPut" /\ pc'[t] # "bufferPut"
    BY <1>1, <1>2
  <2>2. QED BY <1>1, <1>2, <2>1, BuffersMove
<1>10. RoomMade'
  BY <1>1, <1>2, RoomStays DEF Types
<1>11. QED BY <1>3, <1>7, <1>8, <1>9, <1>10

\* The route removes the files that are left.
LEMMA WipeKeeps ==
  ASSUME AInv, NEW t \in Thread, Wipe(t)
  PROVE  AInv'
<1> USE DEF AInv
<1>1. /\ pc[t] = "wipe" /\ up /\ disk' \subseteq disk /\ kept' \subseteq kept
      /\ pc' = pc \/ pc' = [pc EXCEPT ![t] = "idle"]
      /\ UNCHANGED <<mode, overlap, up, closing, index, hot, limit, pending, owedBytes, queue, cur,
                     todo, unlinks, added, wpc, witem, ops, faults, crashes, disturbed>>
  BY WorksUp DEF Wipe, config, life, memory, writer, counts
<1>2. /\ pc' \in [Thread -> Steps] /\ pc'[t] \in {"idle", "wipe"}
      /\ \A u \in Thread : u # t => pc'[u] = pc[u]
  BY <1>1 DEF Types, Steps
<1>3. Types'
  BY <1>1, <1>2 DEF Types
<1>4. PlacedAt(t)'
  BY <1>1, <1>2 DEF PlacedAt
<1>5. Longest' = Longest
  BY <1>1 DEF Longest
<1>6. /\ NamedAt(t)' /\ Named(index)' /\ Named(hot)' /\ Named(queue)'
      /\ \A f \in disk' : f.path <= Longest + 1
  BY <1>1, <1>2, <1>5, LongestNat DEF NamesBounded, NamedAt, Named
<1>7. Placed' /\ NamesBounded' /\ Down' /\ OneAtATime'
  BY <1>1, <1>2, <1>4, <1>6, ThreadMoves
<1>8. PendingEnds'
  BY <1>1, <1>2, PendingMoves
<1>9. BuffersEnd'
  <2>1. Hashes(hot') = Hashes(hot) /\ pc[t] # "bufferPut" /\ pc'[t] # "bufferPut"
    BY <1>1, <1>2
  <2>2. QED BY <1>1, <1>2, <2>1, BuffersMove
<1>10. RoomMade'
  BY <1>1, <1>2, RoomStays DEF Types
<1>11. QED BY <1>3, <1>7, <1>8, <1>9, <1>10

------------------------------------------------------------------------------
(* The writer *)

\* A step of the writer, where what it finds in its next step is there.
LEMMA WriterMoves ==
  ASSUME AInv, up, UNCHANGED <<mode, overlap, up, closing, crashes, pc, cur, todo, unlinks>>,
         wpc' # "get" => witem' \in Entry, wpc' = "drop" => mode = "buffer",
         witem'.path <= Longest, Named(index)', Named(hot)', Named(queue)',
         \A f \in disk' : f.path <= Longest + 1
  PROVE  Placed' /\ NamesBounded' /\ Down' /\ OneAtATime'
<1>1. Placed'
  <2>1. ASSUME NEW u \in Thread PROVE PlacedAt(u)'
    BY <2>1 DEF AInv, Placed, PlacedAt
  <2>2. QED BY <2>1 DEF Placed
<1>2. Longest' = Longest
  BY DEF Longest
<1>3. NamesBounded'
  <2>1. ASSUME NEW u \in Thread PROVE NamedAt(u)'
    BY <1>2, <2>1 DEF AInv, NamesBounded, NamedAt, Named
  <2>2. QED BY <1>2, <2>1 DEF AInv, NamesBounded
<1>4. OneAtATime'
  BY DEF AInv, OneAtATime
<1>5. QED BY <1>1, <1>3, <1>4 DEF Down

\* A block whose write leaves the queue or the writer's hands is no longer
\* pending, and has no buffer.
LEMMA WriterEnds ==
  ASSUME AInv, UNCHANGED <<mode, pc, cur>>,
         pending' \subseteq pending, Hashes(hot') \subseteq Hashes(hot),
         \A h \in Hash : Queued(h) \/ Writer(h) =>
           \/ WriteIn(queue', h)
           \/ wpc' # "get" /\ witem'.hash = h
           \/ h \notin pending' /\ (mode = "buffer" => h \notin Hashes(hot'))
  PROVE  PendingEnds' /\ BuffersEnd'
<1>1. pending \subseteq Hash /\ Hashes(hot) \subseteq Hash
  BY BlocksOf DEF AInv, Types
<1>2. ASSUME NEW h \in pending'
      PROVE  \/ WriteIn(queue', h) \/ Writer(h)'
             \/ \E t \in Thread : pc'[t] \in {"unlink", "put"} /\ cur'[t].hash = h
  BY <1>1, <1>2 DEF AInv, PendingEnds, Writer
<1>3. ASSUME mode = "buffer", NEW h \in Hashes(hot')
      PROVE  \/ WriteIn(queue', h) \/ Writer(h)'
             \/ \E t \in Thread : pc'[t] = "bufferPut" /\ cur'[t].hash = h
  BY <1>1, <1>3 DEF AInv, BuffersEnd, Writer
<1>4. mode' # "hot" => pending' = {}
  BY DEF AInv, PendingEnds
<1>5. Hashes(hot)' = Hashes(hot')
  BY DEF Hashes
<1>6. QED BY <1>2, <1>3, <1>4, <1>5 DEF PendingEnds, BuffersEnd, Queued

\* The item comes out of the queue; an unlink is done at once.
LEMMA WGetKeeps ==
  ASSUME AInv, WGet
  PROVE  AInv'
<1> USE DEF AInv
<1> DEFINE item == Head(queue)
           rest == Tail(queue)
<1>1. /\ up /\ wpc = "get" /\ queue # <<>> /\ queue' = rest
      /\ \/ disk' \subseteq disk /\ item.op = "unlink" /\ UNCHANGED <<wpc, witem>>
         \/ /\ item.op = "write" /\ disk' = disk /\ wpc' = "open"
            /\ witem' = [hash |-> item.hash, path |-> item.path]
      /\ UNCHANGED <<mode, overlap, up, closing, index, hot, limit, pending, owedBytes, pc, cur, todo,
                     unlinks, added, ops, faults, crashes, kept, disturbed>>
  BY DEF WGet, Unlinked, config, life, caller, writer, counts
<1>2. /\ rest \in Seq(Item) /\ Len(rest) = Len(queue) - 1 /\ Len(queue) \in Nat
      /\ ToSet(queue) = ToSet(rest) \cup {item} /\ item \in Item
  BY <1>1, TailQueue, NonEmptyQueue, LenProperties DEF Types
<1> HIDE DEF item, rest
<1>3. /\ wpc' \in WriterSteps /\ witem' \in Entry \cup {NoEntry} /\ wpc' # "drop"
      /\ wpc' # "get" => witem' \in Entry
      /\ disk' \subseteq disk
      /\ witem'.path = witem.path \/ witem'.path = item.path
      /\ item.op = "write" => wpc' # "get" /\ witem'.hash = item.hash
  <2> DEFINE x == [hash |-> item.hash, path |-> item.path]
  <2>1. x \in Entry /\ x.hash = item.hash /\ x.path = item.path
    BY <1>2 DEF Item, Entry
  <2>2. \/ disk' \subseteq disk /\ item.op = "unlink" /\ UNCHANGED <<wpc, witem>>
        \/ item.op = "write" /\ disk' = disk /\ wpc' = "open" /\ witem' = x
    BY <1>1
  <2> HIDE DEF x
  <2>3. QED BY <1>1, <2>1, <2>2 DEF Types, WriterSteps
<1>4. Types'
  <2>1. queue' \in Seq(Item) /\ Len(queue') <= QueueMax
    BY <1>1, <1>2, SSDAssumption DEF Types
  <2>2. QED BY <1>1, <1>3, <2>1 DEF Types
<1>5. /\ Longest' = Longest /\ witem'.path <= Longest
      /\ Named(index)' /\ Named(hot)' /\ Named(queue)'
      /\ \A f \in disk' : f.path <= Longest + 1
  BY <1>1, <1>2, <1>3 DEF NamesBounded, Named, Longest
<1>6. Placed' /\ NamesBounded' /\ Down' /\ OneAtATime'
  BY <1>1, <1>3, <1>5, WriterMoves
<1>7. PendingEnds' /\ BuffersEnd'
  <2>1. ASSUME NEW h \in Hash, Queued(h) \/ Writer(h)
        PROVE  WriteIn(queue', h) \/ (wpc' # "get" /\ witem'.hash = h)
    BY <1>1, <1>2, <1>3, <2>1 DEF Queued, WriteIn, Writer
  <2>2. pending' \subseteq pending /\ Hashes(hot') \subseteq Hashes(hot)
    BY <1>1
  <2>3. QED BY <1>1, <2>1, <2>2, WriterEnds
<1>8. RoomMade'
  BY <1>1, RoomStays DEF Types
<1>9. QED BY <1>4, <1>6, <1>7, <1>8

\* What the writer does with a file: on success or failure the names stay.
LEMMA WriterWorks ==
  ASSUME AInv, WOpen \/ WData \/ WRename \/ WCheck \/ WUnlink \/ WCleanup \/ WError
  PROVE  AInv'
<1> USE DEF AInv
<1>1. /\ wpc # "get" /\ wpc' \in WriterSteps \ {"get", "drop"} /\ disturbed' \in BOOLEAN /\ faults' \in Nat
      /\ UNCHANGED <<mode, overlap, up, closing, index, hot, limit, pending, owedBytes, queue, witem, pc, cur,
                     todo, unlinks, added, ops, crashes, kept>>
  <2>1. CASE WOpen \/ WData \/ WUnlink \/ WCleanup
    BY <2>1 DEF WOpen, WData, WUnlink, WCleanup, Types, WriterSteps, config, life, memory, caller, counts
  <2>2. CASE WRename
    BY <2>2 DEF WRename, Types, WriterSteps, config, life, memory, caller, counts
  <2>3. CASE WCheck
    BY <2>3 DEF WCheck, Types, WriterSteps, config, life, memory, caller, counts
  <2>4. CASE WError
    BY <2>4 DEF WError, Types, WriterSteps, config, life, memory, caller
  <2>5. QED BY <2>1, <2>2, <2>3, <2>4
<1>2. up /\ witem \in Entry /\ Longest \in Nat /\ Longest <= MaxCrashes /\ Longest' = Longest
  BY <1>1, SSDAssumption DEF Down, Placed, Longest, Types, NamesBounded
<1>3. /\ witem.hash \in Hash /\ witem.path \in Path /\ witem.path + 1 \in Path
      /\ witem.path <= Longest /\ witem.path + 1 <= Longest + 1
  BY <1>2, SSDAssumption DEF Entry, Path, NamesBounded
<1>4. disk \subseteq File /\ \A f \in disk : f.path <= Longest + 1
  BY <1>2 DEF Types, NamesBounded
<1>5. disk' \subseteq File /\ \A f \in disk' : f.path <= Longest + 1
  <2>1. CASE disk' \subseteq disk
    BY <1>4, <2>1
  <2>2. CASE WOpen
    <3> DEFINE new == [hash |-> witem.hash, path |-> witem.path + 1, whole |-> FALSE]
    <3>1. new \in File /\ new.path = witem.path + 1
      BY <1>3 DEF File
    <3>2. disk' \subseteq disk \cup {new}
      BY <2>2 DEF WOpen, Unlinked
    <3> HIDE DEF new
    <3>3. QED BY <1>3, <1>4, <3>1, <3>2
  <2>3. CASE WData
    <3>1. \A g \in disk' : \E f \in disk : g = f \/ g = [f EXCEPT !.whole = TRUE]
      BY <2>3 DEF WData
    <3>2. \A f \in File : [f EXCEPT !.whole = TRUE] \in File /\ [f EXCEPT !.whole = TRUE].path = f.path
      BY DEF File
    <3>3. QED BY <1>4, <3>1, <3>2
  <2>4. CASE WRename
    <3> DEFINE new == [hash |-> witem.hash, path |-> witem.path, whole |-> TRUE]
    <3>1. new \in File /\ new.path = witem.path
      BY <1>3 DEF File
    <3>2. disk' \subseteq disk \cup {new}
      BY <2>4 DEF WRename
    <3> HIDE DEF new
    <3>3. witem.path <= Longest + 1
      BY <1>2, <1>3 DEF Path
    <3>4. QED BY <1>4, <3>1, <3>2, <3>3
  <2>5. CASE WCheck \/ WUnlink \/ WCleanup \/ WError
    <3>1. disk' \subseteq disk
      BY <2>5 DEF WCheck, WUnlink, WCleanup, WError, Unlinked
    <3>2. QED BY <2>1, <3>1
  <2>6. QED BY <2>2, <2>3, <2>4, <2>5
<1>6. Types'
  BY <1>1, <1>5 DEF Types
<1>7. Named(index)' /\ Named(hot)' /\ Named(queue)'
  BY <1>1, <1>2 DEF NamesBounded, Named
<1>8. Placed' /\ NamesBounded' /\ Down' /\ OneAtATime'
  BY <1>1, <1>2, <1>3, <1>5, <1>7, WriterMoves
<1>9. PendingEnds' /\ BuffersEnd'
  <2>1. ASSUME NEW h \in Hash, Queued(h) \/ Writer(h)
        PROVE  WriteIn(queue', h) \/ (wpc' # "get" /\ witem'.hash = h)
    BY <1>1, <2>1 DEF Queued, Writer
  <2>2. pending' \subseteq pending /\ Hashes(hot') \subseteq Hashes(hot)
    BY <1>1
  <2>3. QED BY <1>1, <2>1, <2>2, WriterEnds
<1>10. RoomMade'
  BY <1>1, RoomStays DEF Types
<1>11. QED BY <1>6, <1>8, <1>9, <1>10

\* A write that failed: the index gives the block up.
LEMMA WFailKeeps ==
  ASSUME AInv, WFail
  PROVE  AInv'
<1> USE DEF AInv
<1>1. /\ wpc = "fail" /\ wpc' = "cleanup" /\ disturbed' \in BOOLEAN /\ kept' \subseteq kept
      /\ index' = Without(index, witem.hash)
      /\ UNCHANGED <<mode, overlap, up, closing, hot, limit, pending, owedBytes, queue, disk, witem, pc, cur,
                     todo, unlinks, added, ops, faults, crashes>>
  BY DEF WFail, Types, config, life, caller, counts
<1>2. up /\ witem \in Entry /\ Longest' = Longest
  BY <1>1 DEF Down, Placed, Longest
<1>3. /\ index' \in Seq(Entry) /\ OnePerBlock(index') /\ ToSet(index') \subseteq ToSet(index)
      /\ Len(index') \in Nat /\ Len(index') <= Len(index)
  <2> DEFINE w == Without(index, witem.hash)
  <2>1. /\ w \in Seq(Entry) /\ OnePerBlock(w) /\ ToSet(w) \subseteq ToSet(index)
        /\ Len(w) \in Nat /\ Len(w) <= Len(index)
    BY WithoutBlock DEF Types
  <2>2. index' = w
    BY <1>1
  <2> HIDE DEF w
  <2>3. QED BY <2>1, <2>2
<1>4. Types'
  BY <1>1, <1>3 DEF Types, WriterSteps
<1>5. /\ witem'.path <= Longest /\ Named(index)' /\ Named(hot)' /\ Named(queue)'
      /\ \A f \in disk' : f.path <= Longest + 1
  BY <1>1, <1>2, <1>3 DEF NamesBounded, Named
<1>6. Placed' /\ NamesBounded' /\ Down' /\ OneAtATime'
  BY <1>1, <1>2, <1>5, WriterMoves
<1>7. PendingEnds' /\ BuffersEnd'
  <2>1. ASSUME NEW h \in Hash, Queued(h) \/ Writer(h)
        PROVE  WriteIn(queue', h) \/ (wpc' # "get" /\ witem'.hash = h)
    BY <1>1, <2>1 DEF Queued, Writer
  <2>2. pending' \subseteq pending /\ Hashes(hot') \subseteq Hashes(hot)
    BY <1>1
  <2>3. QED BY <1>1, <2>1, <2>2, WriterEnds
<1>8. RoomMade'
  BY <1>1, <1>3, RoomStays
<1>9. QED BY <1>4, <1>6, <1>7, <1>8

\* The finally clause: the block is no longer pending.
LEMMA WFinishKeeps ==
  ASSUME AInv, WFinish
  PROVE  AInv'
<1> USE DEF AInv
<1>1. /\ wpc = "finish" /\ pending' = pending \ {witem.hash} /\ owedBytes' \subseteq owedBytes
      /\ disturbed' \in BOOLEAN
      /\ wpc' = (IF mode = "buffer" THEN "drop" ELSE "get")
      /\ witem' = (IF mode = "buffer" THEN witem ELSE NoEntry)
      /\ UNCHANGED <<mode, overlap, up, closing, index, hot, limit, queue, disk, pc, cur,
                     todo, unlinks, added, ops, faults, crashes, kept>>
  BY DEF WFinish, NoLongerPending, Types, config, life, caller, counts
<1>2. up /\ witem \in Entry /\ Longest' = Longest /\ Longest \in Nat
  BY <1>1, LongestNat DEF Down, Placed, Longest
<1>3. /\ wpc' \in WriterSteps /\ witem' \in Entry \cup {NoEntry}
      /\ wpc' # "get" => witem' \in Entry
      /\ wpc' = "drop" => mode = "buffer"
      /\ witem'.path <= Longest
  BY <1>1, <1>2 DEF WriterSteps, NamesBounded, NoEntry
<1>4. Types'
  BY <1>1, <1>3 DEF Types
<1>5. /\ Named(index)' /\ Named(hot)' /\ Named(queue)'
      /\ \A f \in disk' : f.path <= Longest + 1
  BY <1>1, <1>2 DEF NamesBounded, Named
<1>6. Placed' /\ NamesBounded' /\ Down' /\ OneAtATime'
  BY <1>1, <1>2, <1>3, <1>5, WriterMoves
<1>7. PendingEnds' /\ BuffersEnd'
  <2>1. ASSUME NEW h \in Hash, Queued(h) \/ Writer(h)
        PROVE  \/ WriteIn(queue', h) \/ (wpc' # "get" /\ witem'.hash = h)
               \/ h \notin pending' /\ (mode = "buffer" => h \notin Hashes(hot'))
    BY <1>1, <2>1 DEF Queued, Writer
  <2>2. pending' \subseteq pending /\ Hashes(hot') \subseteq Hashes(hot)
    BY <1>1
  <2>3. QED BY <1>1, <2>1, <2>2, WriterEnds
<1>8. RoomMade'
  BY <1>1, RoomStays DEF Types
<1>9. QED BY <1>4, <1>6, <1>7, <1>8

\* With the hot cache off, the buffer of the block goes.
LEMMA WDropKeeps ==
  ASSUME AInv, WDrop
  PROVE  AInv'
<1> USE DEF AInv
<1>1. /\ wpc = "drop" /\ wpc' = "get" /\ witem' = NoEntry /\ disturbed' \in BOOLEAN
      /\ hot' = Without(hot, witem.hash)
      /\ UNCHANGED <<mode, overlap, up, closing, index, limit, pending, owedBytes, queue, disk, pc, cur,
                     todo, unlinks, added, ops, faults, crashes, kept>>
  BY DEF WDrop, Types, config, life, caller, counts
<1>2. up /\ mode = "buffer" /\ Longest' = Longest /\ Longest \in Nat
  BY <1>1, LongestNat DEF Down, Placed, Longest
<1>3. /\ hot' \in Seq(Entry) /\ OnePerBlock(hot') /\ ToSet(hot') \subseteq ToSet(hot)
      /\ Hashes(hot') = Hashes(hot) \ {witem.hash}
  <2> DEFINE w == Without(hot, witem.hash)
  <2>1. /\ w \in Seq(Entry) /\ OnePerBlock(w) /\ ToSet(w) \subseteq ToSet(hot)
        /\ Hashes(w) = Hashes(hot) \ {witem.hash}
    BY WithoutBlock DEF Types
  <2>2. hot' = w
    BY <1>1
  <2> HIDE DEF w
  <2>3. QED BY <2>1, <2>2
<1>4. Types'
  BY <1>1, <1>3 DEF Types, WriterSteps
<1>5. /\ witem'.path <= Longest /\ Named(index)' /\ Named(hot)' /\ Named(queue)'
      /\ \A f \in disk' : f.path <= Longest + 1
  BY <1>1, <1>2, <1>3 DEF NamesBounded, Named, NoEntry
<1>6. Placed' /\ NamesBounded' /\ Down' /\ OneAtATime'
  BY <1>1, <1>2, <1>5, WriterMoves
<1>7. PendingEnds' /\ BuffersEnd'
  <2>1. pending = {}
    BY <1>2 DEF PendingEnds
  <2>2. ASSUME NEW h \in Hash, Queued(h) \/ Writer(h)
        PROVE  \/ WriteIn(queue', h)
               \/ h \notin pending' /\ (mode = "buffer" => h \notin Hashes(hot'))
    BY <1>1, <1>3, <2>1, <2>2 DEF Queued, Writer
  <2>3. pending' \subseteq pending /\ Hashes(hot') \subseteq Hashes(hot)
    BY <1>1, <1>3
  <2>4. QED BY <1>1, <2>2, <2>3, WriterEnds
<1>8. RoomMade'
  BY <1>1, RoomStays DEF Types
<1>9. QED BY <1>4, <1>6, <1>7, <1>8

------------------------------------------------------------------------------
(* The life of the manager *)

\* What is in memory goes.
LEMMA EmptiedKeeps ==
  ASSUME AInv, Emptied, UNCHANGED <<mode, overlap, limit, disk, ops, faults, disturbed>>,
         crashes' \in 1 .. MaxCrashes, kept' \subseteq kept,
         \A f \in disk : f.path <= crashes'
  PROVE  AInv'
<1> USE DEF AInv
<1>1. /\ up' = FALSE /\ closing' = FALSE /\ index' = <<>> /\ hot' = <<>> /\ queue' = <<>>
      /\ pending' = {} /\ owedBytes' = {}
      /\ pc' = [u \in Thread |-> "idle"] /\ cur' = [u \in Thread |-> NoEntry]
      /\ todo' = [u \in Thread |-> <<>>] /\ unlinks' = [u \in Thread |-> <<>>]
      /\ added' = [u \in Thread |-> FALSE] /\ wpc' = "get" /\ witem' = NoEntry
  BY DEF Emptied
<1>2. <<>> \in Seq(Entry) /\ OnePerBlock(<<>>) /\ Hashes(<<>>) = {} /\ ToSet(<<>>) = {}
  BY NoBlocks, EmptyQueue
<1>3. <<>> \in Seq(Item) /\ Len(<<>>) = 0
  BY EmptyQueue
<1>4. Types'
  <2>1. /\ index' \in Seq(Entry) /\ OnePerBlock(index') /\ hot' \in Seq(Entry) /\ OnePerBlock(hot')
        /\ queue' \in Seq(Item) /\ Len(queue') <= QueueMax
    BY <1>1, <1>2, <1>3, SSDAssumption
  <2>2. /\ pc' \in [Thread -> Steps] /\ cur' \in [Thread -> Entry \cup {NoEntry}]
        /\ added' \in [Thread -> BOOLEAN] /\ witem' \in Entry \cup {NoEntry}
    BY <1>1 DEF Steps
  <2>3. todo' \in [Thread -> Seq(Entry)] /\ unlinks' \in [Thread -> Seq(Entry)]
    BY <1>1, <1>2
  <2>4. /\ crashes' \in 0 .. MaxCrashes /\ kept' \subseteq Hash /\ limit' \in 0 .. HotMax
        /\ disk' \subseteq File /\ mode' \in Modes /\ overlap' \in Overlapping /\ disturbed' \in BOOLEAN
        /\ ops' \in Nat /\ faults' \in Nat
    BY SSDAssumption DEF Types
  <2>5. /\ up' \in BOOLEAN /\ closing' \in BOOLEAN /\ pending' \subseteq Hash /\ owedBytes' \subseteq Hash
        /\ wpc' \in WriterSteps
    BY <1>1 DEF WriterSteps
  <2> HIDE DEF AInv
  <2>6. QED BY <2>1, <2>2, <2>3, <2>4, <2>5 DEF Types
<1>5. Placed'
  BY <1>1 DEF Placed, PlacedAt
<1>6. Longest' = crashes' /\ crashes' \in Nat
  BY <1>1 DEF Longest
<1>7. NamesBounded'
  <2>1. Named(<<>>)'
    BY <1>2 DEF Named
  <2>2. ASSUME NEW u \in Thread PROVE NamedAt(u)'
    <3>1. todo'[u] = <<>> /\ unlinks'[u] = <<>> /\ cur'[u].path = 0
      BY <1>1 DEF NoEntry
    <3>2. QED BY <1>6, <2>1, <3>1 DEF NamedAt, Named
  <2>3. Named(index)' /\ Named(hot)' /\ Named(queue)' /\ witem'.path <= Longest'
    BY <1>1, <1>2, <1>6 DEF Named, NoEntry
  <2>4. QED BY <1>1, <1>6, <2>2, <2>3 DEF NamesBounded
<1>8. Down'
  BY <1>1 DEF Down, AtRest
<1>9. OneAtATime'
  BY <1>1 DEF OneAtATime
<1>10. PendingEnds' /\ BuffersEnd'
  <2>1. Hashes(hot)' = {}
    BY <1>1, <1>2 DEF Hashes
  <2>2. QED BY <1>1, <2>1 DEF PendingEnds, BuffersEnd
<1>11. RoomMade'
  BY DEF RoomMade
<1>12. QED BY <1>4, <1>5, <1>7, <1>8, <1>9, <1>10, <1>11

\* A crash.
LEMMA CrashKeeps ==
  ASSUME AInv, Crash
  PROVE  AInv'
<1>1. /\ up /\ Emptied /\ crashes < MaxCrashes /\ crashes' = crashes + 1 /\ kept' \subseteq kept
      /\ UNCHANGED <<mode, overlap, limit, disk, ops, faults, disturbed>>
  BY DEF Crash, config
<1>2. crashes' \in 1 .. MaxCrashes /\ crashes \in Nat
  BY <1>1, SSDAssumption DEF AInv, Types
<1>3. Longest + 1 <= crashes' /\ Longest \in Nat
  BY <1>1, <1>2, LongestNat DEF Longest
<1>4. \A f \in disk : f.path <= crashes'
  <2>1. \A f \in disk : f.path \in Nat /\ f.path <= Longest + 1
    BY <1>1, SSDAssumption DEF AInv, Types, NamesBounded, File, Path
  <2>2. QED BY <1>2, <1>3, <2>1
<1>5. QED BY <1>1, <1>2, <1>4, EmptiedKeeps

\* The end of close().
LEMMA CloseEndKeeps ==
  ASSUME AInv, CloseEnd
  PROVE  AInv'
<1>1. /\ closing /\ Emptied /\ kept' \subseteq kept
      /\ UNCHANGED <<mode, overlap, limit, disk, ops, faults, crashes, disturbed>>
  BY DEF CloseEnd, config, counts
<1>2. up /\ crashes' \in 1 .. MaxCrashes /\ Longest + 1 = crashes'
  BY <1>1, SSDAssumption DEF AInv, Types, NamesBounded, Longest
<1>3. \A f \in disk : f.path <= crashes'
  BY <1>2 DEF AInv, NamesBounded
<1>4. QED BY <1>1, <1>2, <1>3, EmptiedKeeps

\* close() begins: what is in the hot cache is to be queued.
LEMMA CloseBeginKeeps ==
  ASSUME AInv, NEW t \in Thread, CloseBegin(t)
  PROVE  AInv'
<1> USE DEF AInv
<1>1. /\ up /\ ~ closing /\ AtRest /\ crashes < MaxCrashes /\ crashes' = crashes + 1 /\ closing' = TRUE
      /\ todo' = [todo EXCEPT ![t] = IF mode = "hot" THEN hot ELSE <<>>]
      /\ pc' = [pc EXCEPT ![t] = IF mode = "hot" /\ hot # <<>> THEN "enqueue" ELSE "idle"]
      /\ UNCHANGED <<mode, overlap, up, index, hot, limit, pending, owedBytes, queue, disk, cur, unlinks,
                     added, wpc, witem, ops, faults, kept, disturbed>>
  BY DEF CloseBegin, config, memory, writer
<1>2. /\ todo' \in [Thread -> Seq(Entry)] /\ ToSet(todo'[t]) \subseteq ToSet(hot)
      /\ \A u \in Thread : u # t => pc'[u] = pc[u] /\ todo'[u] = todo[u]
      /\ pc' \in [Thread -> Steps]
      /\ \/ pc'[t] = "idle"
         \/ pc'[t] = "enqueue" /\ mode = "hot" /\ todo'[t] # <<>>
  <2> DEFINE S == IF mode = "hot" THEN hot ELSE <<>>
             next == IF mode = "hot" /\ hot # <<>> THEN "enqueue" ELSE "idle"
  <2>1. S \in Seq(Entry) /\ ToSet(S) \subseteq ToSet(hot)
    BY NoBlocks, EmptyQueue DEF Types
  <2>2. next = "idle" \/ (next = "enqueue" /\ mode = "hot" /\ S # <<>>)
    OBVIOUS
  <2>3. todo' = [todo EXCEPT ![t] = S] /\ pc' = [pc EXCEPT ![t] = next]
    BY <1>1
  <2> HIDE DEF S, next
  <2>4. /\ todo' \in [Thread -> Seq(Entry)] /\ todo'[t] = S
        /\ \A u \in Thread : u # t => todo'[u] = todo[u]
    BY <2>1, <2>3 DEF Types
  <2>5. /\ pc' \in [Thread -> Steps] /\ pc'[t] = next
        /\ \A u \in Thread : u # t => pc'[u] = pc[u]
    BY <2>2, <2>3 DEF Types, Steps
  <2>6. QED BY <2>1, <2>2, <2>4, <2>5
<1>3. crashes \in Nat /\ crashes' \in 1 .. MaxCrashes
  BY <1>1, SSDAssumption DEF Types
<1>4. Types'
  BY <1>1, <1>2, <1>3 DEF Types
<1>5. Longest' = Longest
  BY <1>1, <1>3 DEF Longest
<1>6. Placed'
  <2>1. PlacedAt(t)'
    BY <1>1, <1>2 DEF PlacedAt
  <2>2. ASSUME NEW u \in Thread, u # t PROVE PlacedAt(u)'
    BY <1>1, <1>2, <2>2 DEF Placed, PlacedAt
  <2>3. wpc' = wpc /\ witem' = witem /\ mode' = mode
    BY <1>1
  <2>4. QED BY <2>1, <2>2, <2>3 DEF Placed
<1>7. NamesBounded'
  <2>1. NamedAt(t)'
    BY <1>1, <1>2, <1>5 DEF NamesBounded, NamedAt, Named
  <2>2. ASSUME NEW u \in Thread, u # t PROVE NamedAt(u)'
    BY <1>1, <1>2, <1>5, <2>2 DEF NamesBounded, NamedAt, Named
  <2>3. QED BY <1>1, <1>3, <1>5, <2>1, <2>2 DEF NamesBounded, Named
<1>8. Down'
  BY <1>1 DEF Down
<1>9. OneAtATime'
  BY <1>1, <1>2 DEF OneAtATime, AtRest
<1>10. PendingEnds'
  BY <1>1, <1>2, PendingMoves DEF AtRest
<1>11. BuffersEnd'
  <2>1. Hashes(hot') = Hashes(hot) /\ pc[t] # "bufferPut"
    BY <1>1 DEF AtRest
  <2>2. QED BY <1>1, <1>2, <2>1, BuffersMove
<1>12. RoomMade'
  BY <1>3 DEF RoomMade
<1>13. QED BY <1>4, <1>6, <1>7, <1>8, <1>9, <1>10, <1>11, <1>12

\* A sequence of each of some names is a sequence, and none is twice in it.
LEMMA ScanOrder ==
  ASSUME NEW names \in SUBSET Hash, NEW last \in [names -> Path], NEW order \in SetToSeqs(names)
  PROVE  LET found == [i \in 1 .. Len(order) |-> [hash |-> order[i], path |-> last[order[i]]]]
         IN /\ found \in Seq(Entry) /\ OnePerBlock(found)
            /\ \A e \in ToSet(found) : e.hash \in names /\ e.path = last[e.hash]
<1> DEFINE n == Cardinality(names)
           found == [i \in 1 .. Len(order) |-> [hash |-> order[i], path |-> last[order[i]]]]
<1>1. n \in Nat
  BY SSDAssumption, FS_Subset, FS_CardinalityType
<1>2. order \in [1 .. n -> names] /\ \A i, j \in 1 .. n : i # j => order[i] # order[j]
  BY DEF SetToSeqs
<1> HIDE DEF n
<1>3. Len(order) = n /\ order \in Seq(names)
  BY <1>1, <1>2, SeqDef, LenProperties
<1>4. DOMAIN found = 1 .. n /\ \A i \in 1 .. n : found[i] = [hash |-> order[i], path |-> last[order[i]]]
  BY <1>3
<1> HIDE DEF found
<1>5. \A i \in 1 .. n : /\ found[i] \in Entry /\ found[i].hash = order[i] /\ order[i] \in names
                        /\ found[i].path = last[order[i]]
  BY <1>2, <1>4 DEF Entry
<1>6. found \in Seq(Entry)
  <2>1. found = [i \in 1 .. n |-> found[i]]
    BY <1>3 DEF found
  <2>2. found \in [1 .. n -> Entry]
    BY <1>5, <2>1
  <2>3. QED BY <1>1, <2>2, SeqDef
<1>7. OnePerBlock(found)
  BY <1>2, <1>4, <1>5 DEF OnePerBlock, IsInjective, ToSet
<1>8. \A e \in ToSet(found) : e.hash \in names /\ e.path = last[e.hash]
  BY <1>4, <1>5 DEF ToSet
<1>9. QED BY <1>6, <1>7, <1>8 DEF found

\* A restart: the scan puts the files it finds in the index.
LEMMA OpenKeeps ==
  ASSUME AInv, Open
  PROVE  AInv'
<1> USE DEF AInv
<1>1. /\ ~ up /\ up' = TRUE /\ limit' = (IF mode = "buffer" THEN 0 ELSE HotMax)
      /\ UNCHANGED <<mode, overlap, closing, hot, pending, owedBytes, queue, disk, pc, cur, todo, unlinks,
                     added, wpc, witem, ops, faults, crashes, kept>>
  BY DEF Open, config, caller, writer, counts
<1>2. /\ index' \in Seq(Entry) /\ OnePerBlock(index')
      /\ \A e \in ToSet(index') : \E f \in disk : f.path = e.path
      /\ disturbed' \in BOOLEAN
  <2>1. PICK readable \in SUBSET {f \in disk : ~ f.whole} :
          LET found == readable \cup {f \in disk : f.whole}
              names == {f.hash : f \in found}
          IN /\ disturbed' = (disturbed \/ readable # {})
             /\ \E order \in SetToSeqs(names) :
                \E last \in [names -> Path] :
                  /\ \A h \in names : \E f \in found : f.hash = h /\ f.path = last[h]
                  /\ index' = [i \in 1 .. Len(order) |-> [hash |-> order[i], path |-> last[order[i]]]]
    BY DEF Open
  <2> DEFINE found == readable \cup {f \in disk : f.whole}
             names == {f.hash : f \in found}
  <2>2. PICK order \in SetToSeqs(names), last \in [names -> Path] :
          /\ \A h \in names : \E f \in found : f.hash = h /\ f.path = last[h]
          /\ index' = [i \in 1 .. Len(order) |-> [hash |-> order[i], path |-> last[order[i]]]]
    BY <2>1
  <2>3. found \subseteq disk /\ names \subseteq Hash
    BY DEF Types, File
  <2> HIDE DEF names, found
  <2>4. /\ index' \in Seq(Entry) /\ OnePerBlock(index')
        /\ \A e \in ToSet(index') : e.hash \in names /\ e.path = last[e.hash]
    <3> DEFINE scan == [i \in 1 .. Len(order) |-> [hash |-> order[i], path |-> last[order[i]]]]
    <3>1. /\ scan \in Seq(Entry) /\ OnePerBlock(scan)
          /\ \A e \in ToSet(scan) : e.hash \in names /\ e.path = last[e.hash]
      BY <2>3, ScanOrder
    <3>2. index' = scan
      BY <2>2
    <3> HIDE DEF scan
    <3>3. QED BY <3>1, <3>2
  <2>5. \A e \in ToSet(index') : \E f \in disk : f.path = e.path
    BY <2>2, <2>3, <2>4
  <2>6. disturbed' \in BOOLEAN
    BY <2>1 DEF Types
  <2>7. QED BY <2>4, <2>5, <2>6
<1>3. limit' \in 0 .. HotMax
  BY <1>1, SSDAssumption
<1>4. Types'
  BY <1>1, <1>2, <1>3 DEF Types
<1>5. Longest = crashes /\ Longest' = crashes /\ crashes \in Nat
  BY <1>1 DEF Longest, NamesBounded, Types
<1>6. Placed'
  <2>1. ASSUME NEW u \in Thread PROVE PlacedAt(u)'
    BY <1>1, <2>1 DEF Placed, PlacedAt
  <2>2. QED BY <1>1, <2>1 DEF Placed
<1>7. NamesBounded'
  <2>1. \A f \in disk : f.path \in Nat /\ f.path <= crashes
    BY <1>1, SSDAssumption DEF NamesBounded, Types, File, Path
  <2>2. Named(index)'
    BY <1>2, <1>5, <2>1 DEF Named
  <2>3. ASSUME NEW u \in Thread PROVE NamedAt(u)'
    BY <1>1, <1>5, <2>3 DEF NamesBounded, NamedAt, Named
  <2>4. Named(hot)' /\ Named(queue)' /\ witem'.path <= Longest'
    BY <1>1, <1>5 DEF NamesBounded, Named
  <2>5. \A f \in disk' : f.path <= Longest' + 1
    BY <1>1, <1>5, <2>1
  <2>6. QED BY <1>1, <1>5, <2>2, <2>3, <2>4, <2>5 DEF NamesBounded
<1>8. Down' /\ OneAtATime'
  BY <1>1 DEF Down, OneAtATime
<1>9. PendingEnds' /\ BuffersEnd'
  <2>1. Hashes(hot)' = Hashes(hot) /\ Hashes(hot) = {} /\ pending = {}
    BY <1>1, NoBlocks DEF Hashes, Down
  <2>2. QED BY <1>1, <2>1 DEF PendingEnds, BuffersEnd
<1>10. RoomMade'
  BY <1>1 DEF RoomMade, Down, Types
<1>11. QED BY <1>4, <1>6, <1>7, <1>8, <1>9, <1>10

------------------------------------------------------------------------------
(* The invariant, and what it says *)

\* A new manager satisfies the invariant.
LEMMA InitHolds == Init => AInv
<1> SUFFICES ASSUME Init PROVE AInv
  OBVIOUS
<1> USE DEF Init
<1>1. <<>> \in Seq(Entry) /\ OnePerBlock(<<>>) /\ Hashes(<<>>) = {} /\ ToSet(<<>>) = {}
  BY NoBlocks, EmptyQueue
<1>2. queue \in Seq(Item) /\ Len(queue) <= QueueMax
  BY EmptyQueue, SSDAssumption
<1>3. limit \in 0 .. HotMax /\ 0 \in 0 .. MaxCrashes
  BY SSDAssumption
<1>4. Types
  <2>1. /\ pc \in [Thread -> Steps] /\ cur \in [Thread -> Entry \cup {NoEntry}]
        /\ added \in [Thread -> BOOLEAN]
    BY DEF Steps
  <2>2. todo \in [Thread -> Seq(Entry)] /\ unlinks \in [Thread -> Seq(Entry)]
    BY <1>1
  <2>3. QED BY <1>1, <1>2, <1>3, <2>1, <2>2 DEF Types, WriterSteps
<1>5. Placed
  BY DEF Placed, PlacedAt
<1>6. Longest = 0
  BY DEF Longest
<1>7. NamesBounded
  <2>1. Named(index) /\ Named(hot) /\ Named(queue) /\ witem.path <= Longest
    BY <1>1, <1>6 DEF Named, NoEntry
  <2>2. ASSUME NEW u \in Thread PROVE NamedAt(u)
    BY <1>1, <1>6 DEF NamedAt, Named, NoEntry
  <2>3. QED BY <2>1, <2>2 DEF NamesBounded
<1>8. Down /\ OneAtATime
  BY DEF Down, OneAtATime
<1>9. PendingEnds /\ BuffersEnd
  BY <1>1 DEF PendingEnds, BuffersEnd
<1>10. RoomMade
  <2>1. {u \in Thread : pc[u] = "unlink"} = {}
    OBVIOUS
  <2>2. Len(<<>>) = 0 /\ Cardinality({}) = 0
    BY EmptySeq, FS_EmptySet
  <2>3. Adders \in Nat
    BY SSDAssumption, FS_CardinalityType DEF Adders
  <2>4. Total(index) = 0
    BY <1>1, EmptyQueue, TotalOf
  <2>5. Total(index) + Largest * Cardinality({u \in Thread : pc[u] = "unlink"}) = 0
    <3> DEFINE K == {u \in Thread : pc[u] = "unlink"}
    <3>1. K = {}
      BY <2>1
    <3> HIDE DEF K
    <3>2. Cardinality(K) = 0
      BY <2>2, <3>1
    <3>3. QED BY <2>4, <3>2, TargetNumber DEF K
  <2>6. Target + Largest * Adders \in Nat
    BY <2>3, TargetNumber, Multiplied
  <2>7. QED BY <2>5, <2>6 DEF RoomMade
<1>11. QED BY <1>4, <1>5, <1>7, <1>8, <1>9, <1>10 DEF AInv

\* Every step of every thread and of the writer, a crash, a close and a restart
\* keep it.
LEMMA StepKeeps == AInv /\ [Next]_vars => AInv'
<1> SUFFICES ASSUME AInv, [Next]_vars PROVE AInv'
  OBVIOUS
<1>1. ASSUME NEW t \in Thread, Enqueuing(t) PROVE AInv'
  <2>1. CASE UnlinkEvicted(t)
    BY <2>1, UnlinkAddsKeeps, UnlinkEvictedKeeps
  <2>2. QED BY <1>1, <2>1, EnqueueBeginKeeps, EnqueuePutKeeps, EnqueueOweKeeps, EnqueueFullKeeps,
               FlushSkipKeeps DEF Enqueuing
<1>2. ASSUME NEW t \in Thread, Saving(t) PROVE AInv'
  BY <1>2, SaveStepsKeep, PutHotKeeps, SaveMakesRoomKeeps, SaveBuffersKeeps, SaveQueuesKeeps DEF Saving
<1>3. ASSUME NEW t \in Thread, Loading(t) PROVE AInv'
  BY <1>3, LoadIndexKeeps, LoadExistsKeeps, LoadMissingKeeps, LoadReadsKeeps, LoadFailsKeeps,
     LoadDiscardsKeeps DEF Loading
<1>4. ASSUME NEW t \in Thread, Clearing(t) PROVE AInv'
  BY <1>4, DeleteHotKeeps, DeleteIndexKeeps, DeleteFileKeeps, WipeKeeps DEF Clearing
<1>5. ASSUME NEW t \in Thread,
             \/ \E h \in Hash : SaveBegin(t, h) \/ LoadBegin(t, h)
             \/ \E n \in 1 .. HotMax, drop \in BOOLEAN : Shed(t, n, drop)
             \/ Relax(t) \/ ClearHot(t) \/ ClearBegin(t) \/ CloseBegin(t)
      PROVE  AInv'
  <2>1. CASE \E h \in Hash : SaveBegin(t, h) \/ LoadBegin(t, h)
    BY <2>1, SaveBeginKeeps, LoadBeginKeeps
  <2>2. CASE \E n \in 1 .. HotMax, drop \in BOOLEAN : Shed(t, n, drop)
    BY <2>2, ShedKeeps
  <2>3. CASE Relax(t) \/ ClearHot(t) \/ ClearBegin(t) \/ CloseBegin(t)
    BY <2>3, RelaxKeeps, ClearHotKeeps, ClearBeginKeeps, CloseBeginKeeps
  <2>4. QED BY <1>5, <2>1, <2>2, <2>3
<1>6. CASE Writing \/ WError
  <2>1. CASE WOpen \/ WData \/ WRename \/ WCheck \/ WUnlink \/ WCleanup \/ WError
    BY <2>1, WriterWorks
  <2>2. CASE WGet \/ WFail \/ WFinish \/ WDrop
    BY <2>2, WGetKeeps, WFailKeeps, WFinishKeeps, WDropKeeps
  <2>3. QED BY <1>6, <2>1, <2>2 DEF Writing
<1>7. CASE Crash \/ CloseEnd \/ Open
  BY <1>7, CrashKeeps, CloseEndKeeps, OpenKeeps
<1>8. CASE UNCHANGED vars
  <2>1. UNCHANGED <<mode, overlap, up, closing, index, hot, limit, pending, owedBytes, queue, disk, pc, cur,
                    todo, unlinks, added, wpc, witem, ops, faults, crashes, kept, disturbed>>
    BY <1>8 DEF vars, config, life, memory, caller, writer, counts
  <2>2. Types'
    BY <2>1 DEF AInv, Types
  <2>3. Placed' /\ NamesBounded' /\ Down' /\ OneAtATime'
    <3>1. Longest' = Longest
      BY <2>1 DEF Longest
    <3>2. \A u \in Thread : PlacedAt(u)' /\ NamedAt(u)'
      BY <2>1, <3>1 DEF AInv, Placed, PlacedAt, NamesBounded, NamedAt, Named
    <3>3. NamesBounded'
      BY <2>1, <3>1, <3>2 DEF AInv, NamesBounded, Named
    <3>4. Placed'
      BY <2>1, <3>2 DEF AInv, Placed
    <3>5. QED BY <2>1, <3>3, <3>4 DEF AInv, Down, AtRest, OneAtATime
  <2>4. PendingEnds' /\ BuffersEnd'
    <3>1. ASSUME NEW h PROVE Queued(h)' = Queued(h) /\ Writer(h)' = Writer(h)
      BY <2>1 DEF Queued, WriteIn, Writer
    <3>2. Hashes(hot)' = Hashes(hot)
      BY <2>1 DEF Hashes
    <3>3. QED BY <2>1, <3>1, <3>2 DEF AInv, PendingEnds, BuffersEnd
  <2>5. RoomMade'
    BY <2>1 DEF AInv, RoomMade, Adders, Total, Hashes, Target
  <2>6. QED BY <2>2, <2>3, <2>4, <2>5 DEF AInv
<1>9. QED BY <1>1, <1>2, <1>3, <1>4, <1>5, <1>6, <1>7, <1>8 DEF Next, Step, Terminated

\* In every reachable state the invariant of every schedule holds: what each
\* step finds is there, every pending block is on its way to the writer, and a
\* thread that evicted has the room it made.
THEOREM SpecAInv == Spec => []AInv
<1>1. QED BY InitHolds, StepKeeps, PTL DEF Spec

\* A sequence without a block twice has as many blocks as entries.
LEMMA BlocksCounted ==
  ASSUME NEW s \in Seq(Entry), OnePerBlock(s)
  PROVE  Cardinality(Hashes(s)) = Len(s)
<1> DEFINE n == Len(s)
           f == [i \in 1 .. n |-> s[i].hash]
<1>1. n \in Nat /\ DOMAIN s = 1 .. n
  BY LenProperties
<1>2. f \in Bijection(1 .. n, Hashes(s))
  <2>1. f \in [1 .. n -> Hashes(s)]
    BY DEF Hashes
  <2>2. \A i, j \in 1 .. n : f[i] = f[j] => i = j
    BY <1>1 DEF OnePerBlock, IsInjective, ToSet
  <2>3. \A h \in Hashes(s) : \E i \in 1 .. n : f[i] = h
    BY DEF Hashes
  <2> HIDE DEF f, n
  <2>4. QED BY <2>1, <2>2, <2>3 DEF Bijection, Injection, Surjection, IsInjective
<1>3. QED BY <1>1, <1>2, FS_CountingElements DEF ExistsBijection

\* Every state is of its type; no block is twice in the index or in the hot
\* cache, whatever the threads, the writer and the restarts do.
THEOREM TypesCorrect == Spec => []TypeOK
<1>1. AInv => TypeOK
  BY BlocksCounted DEF AInv, Types, TypeOK, Item, File
<1>2. QED BY <1>1, SpecAInv, PTL

\* Once threads and writer are at rest no block is taken for pending, and with
\* the hot cache off no buffer is left behind: whatever failed, was evicted,
\* cleared or saved twice on the way.
THEOREM NothingLeftPending == Spec => []NothingPending
<1>1. ASSUME AInv, Quiet PROVE pending = {} /\ (mode = "buffer" => hot = <<>>)
  <2>1. /\ \A h : ~ Queued(h) /\ ~ Writer(h)
        /\ \A t \in Thread : pc[t] = "idle"
    BY <1>1, EmptyQueue DEF Quiet, AtRest, Queued, WriteIn, Writer
  <2>2. pending = {}
    BY <1>1, <2>1 DEF AInv, PendingEnds
  <2>3. mode = "buffer" => Hashes(hot) = {}
    BY <1>1, <2>1 DEF AInv, BuffersEnd
  <2>4. hot \in Seq(Entry)
    BY <1>1 DEF AInv, Types
  <2>5. QED BY <2>2, <2>3, <2>4, BlocksOf
<1>2. AInv => NothingPending
  BY <1>1 DEF NothingPending
<1>3. QED BY <1>2, SpecAInv, PTL

\* The index exceeds its target by at most the largest block there is, and where
\* calls overlap by at most one such block for each thread: for any sizes of the
\* blocks, above and below the fixed reserve, any threads and any maximum.
THEOREM IndexWithinLimit == Spec => []SizeLimit
<1>1. ASSUME AInv, crashes = 0 PROVE Total(index) <= Target + Largest * Adders
  <2> DEFINE K == {u \in Thread : pc[u] = "unlink"}
  <2>1. Cardinality(K) \in Nat /\ Cardinality(Thread) \in Nat
    BY SSDAssumption, FS_Subset, FS_CardinalityType
  <2>2. Total(index) + Largest * Cardinality(K) <= Target + Largest * Adders
    BY <1>1 DEF AInv, RoomMade
  <2>3. Total(index) \in Nat
    BY <1>1, TotalOf DEF AInv, Types
  <2> HIDE DEF K
  <2>4. Largest * Cardinality(K) \in Nat /\ Target + Largest * Adders \in Nat
    BY <2>1, TargetNumber, Multiplied DEF Adders
  <2>5. QED BY <2>2, <2>3, <2>4
<1>2. AInv => SizeLimit
  BY <1>1 DEF SizeLimit, Adders
<1>3. QED BY <1>2, SpecAInv, PTL

------------------------------------------------------------------------------
(* The invariant of a calm schedule: no overlap, and nothing disturbed *)

\* Entries of the same block are the same entry.
Agree(s, r) == \A e \in ToSet(s), f \in ToSet(r) : e.hash = f.hash => e = f
IndexedAs(e) == \A f \in ToSet(index) : f.hash = e.hash => f = e

\* What a thread has still to queue: blocks out of the hot cache and not yet in
\* the index, or, on close, those of the hot cache.
Chain == {"enqueue", "unlink", "put", "owe"}
TodoAt(t) ==
  /\ (pc[t] \notin Chain \/ mode # "hot") => todo[t] = <<>>
  /\ OnePerBlock(todo[t]) /\ Agree(todo[t], hot) /\ Agree(todo[t], index)
  /\ mode = "hot" /\ pc[t] \in {"unlink", "put", "owe"} => cur[t] = Head(todo[t])
  /\ mode = "hot" /\ pc[t] = "unlink" => added[t]
  /\ pc[t] = "put" /\ ~ added[t] => closing
  /\ closing => /\ pc[t] = "idle" \/ (pc[t] \in Chain /\ mode = "hot")
                /\ Hashes(todo[t]) \subseteq Hashes(hot)
  /\ ~ closing => /\ Hashes(todo[t]) \cap Hashes(hot) = {}
                  /\ \A e \in ToSet(todo[t]) : e.hash \in Hashes(index) =>
                                                 pc[t] \in {"put", "owe"} /\ e = cur[t]

\* What a thread knows of the index from its earlier steps.
CursorAt(t) ==
  /\ pc[t] \in {"inHot", "unlink", "missing", "discard"} => cur[t].hash \notin Hashes(index)
  /\ pc[t] \in {"hotPut", "exists", "read", "put", "buffer", "bufferPut"} => IndexedAs(cur[t])
  /\ pc[t] = "unlink" => Hashes(unlinks[t]) \cap Hashes(index) = {}
  /\ pc[t] \in {"deleteHot", "deleteIndex", "deleteFile"} =>
       OnePerBlock(unlinks[t]) /\ ToSet(index) \subseteq ToSet(unlinks[t])
  /\ pc[t] = "deleteFile" => Head(unlinks[t]).hash \notin Hashes(index)
  /\ pc[t] = "wipe" => index = <<>>

\* A memory-only cache has no index and no file.
RamOnly == mode = "ram" => index = <<>> /\ disk = {} /\ wpc = "get"

\* The blocks of the hot cache that are on the SSD, or have no SSD to go to.
Saved == {h \in Hashes(hot) : mode = "ram" \/ h \in Hashes(index)}
WithinLimit ==
  mode # "buffer" /\ ~ closing => Cardinality(Saved) <= limit \/ Cardinality(Saved) <= 1

\* Items of a queue about a block, the last of them a write, an unlink of a file
\* among them, and before each write of its block.
UnlinkItem(e) == [op |-> "unlink", hash |-> e.hash, path |-> e.path]
About(q, h) == \E x \in ToSet(q) : x.hash = h
WriteLast(q, e) == \E j \in 1 .. Len(q) : /\ q[j] = WriteItem(e)
                                          /\ \A i \in 1 .. Len(q) : i > j => q[i].hash # e.hash
UnlinkIn(q, f) == UnlinkItem(f) \in ToSet(q)
UnlinkedFirst(q, f) ==
  \A j \in 1 .. Len(q) : q[j].op = "write" /\ q[j].hash = f.hash =>
                           \E i \in 1 .. Len(q) : i < j /\ q[i] = UnlinkItem(f)

\* Every entry of the index has its file, and nothing in the queue or in the
\* writer's hands takes it away; or its write is the last of the queue about
\* it, or under way, or about to be queued.
OnDisk(e) ==
  /\ Whole(e) /\ ~ About(queue, e.hash)
  /\ Writer(e.hash) => witem = e /\ wpc \in {"check", "finish", "drop"}
InHand(e) == witem = e /\ wpc \in {"open", "data", "rename", "fail"} /\ ~ About(queue, e.hash)
ComingBy(t, e) ==
  cur[t] = e /\ (pc[t] \in {"buffer", "bufferPut"} \/ (pc[t] = "put" /\ added[t]))
IndexBacked ==
  \A e \in ToSet(index) :
    OnDisk(e) \/ WriteLast(queue, e) \/ InHand(e) \/ \E t \in Thread : ComingBy(t, e)

\* Every whole file is that of an entry, or its removal is queued, the writer's
\* or a thread's.
NameOf(f) == [hash |-> f.hash, path |-> f.path]
WriterHas(f) ==
  /\ f.hash = witem.hash
  /\ \/ f.path = witem.path /\ wpc \in {"check", "unlink", "fail", "cleanup"}
     \/ f.path = witem.path + 1 /\ wpc \in {"rename", "fail", "cleanup"}
ThreadHas(t, f) ==
  \/ pc[t] = "unlink" /\ NameOf(f) \in ToSet(unlinks[t])
  \/ pc[t] = "discard" /\ cur[t] = NameOf(f)
  \/ pc[t] = "deleteFile" /\ Head(unlinks[t]) = NameOf(f)
  \/ pc[t] = "wipe"
WholeFiles == {f \in disk : f.whole}
FilesOwned ==
  up => \A f \in WholeFiles : \/ NameOf(f) \in ToSet(index)
                              \/ UnlinkIn(queue, f) \/ WriterHas(f)
                              \/ \E t \in Thread : ThreadHas(t, f)

\* A block is not written while a file of it is still there.
Writes(t) == pc[t] \in {"put", "buffer", "bufferPut"}
Going(f) == UnlinkIn(queue, f) \/ WriterHas(f)
FilesFirst ==
  \A f \in WholeFiles :
    /\ UnlinkedFirst(queue, f) \/ WriterHas(f)
    /\ \A t \in Thread : Writes(t) /\ cur[t].hash = f.hash => Going(f)
    /\ wpc \in {"open", "data"} => witem.hash # f.hash
    /\ wpc = "rename" /\ witem.hash = f.hash => f.path = witem.path + 1
OneFile ==
  /\ \A f, g \in disk : f.hash = g.hash /\ f.path = g.path => f = g
  /\ \A f, g \in WholeFiles : f.hash = g.hash => f = g

\* An entry whose file is not there yet is answered from memory.
HeldBy(t, e) ==
  \/ pc[t] = "buffer" /\ cur[t] = e
  \/ pc[t] = "deleteIndex" /\ Head(unlinks[t]).hash = e.hash
Held(e) ==
  \/ e.hash \in pending
  \/ e.hash \in Hashes(hot) /\ (mode = "buffer" \/ closing)
InMemory ==
  \A e \in ToSet(index) : OnDisk(e) \/ Held(e) \/ \E t \in Thread : HeldBy(t, e)
LoadAt(t) ==
  pc[t] \in {"inIndex", "exists", "read"} =>
    \A e \in ToSet(index) : e.hash = cur[t].hash => OnDisk(e)

\* Where a block is that save_block answered True for.
SaveAt(t) ==
  /\ mode = "hot" /\ pc[t] \in {"unlink", "put"} => cur[t].hash \in pending
  /\ mode = "buffer" /\ pc[t] \in {"unlink", "buffer", "bufferPut"} => cur[t].hash \notin kept
  /\ pc[t] = "bufferPut" => cur[t].hash \in Hashes(hot)
  /\ pc[t] = "deleteIndex" => Head(unlinks[t]).hash \notin kept
  /\ pc[t] = "put" /\ cur[t].hash \in kept => cur[t].hash \in Hashes(index)
Ahead(t) == IF pc[t] = "owe" THEN Hashes(Tail(todo[t])) ELSE Hashes(todo[t])
KeptAt(h) ==
  \/ h \in Hashes(index)
  \/ h \in Hashes(hot) /\ ~ (closing /\ mode = "hot")
  \/ \E t \in Thread : h \in Ahead(t)
KeptSomewhere == up => \A h \in kept : KeptAt(h)
KeptOnDisk == ~ up => \A h \in kept : \E f \in WholeFiles : f.hash = h

\* What every state of a calm schedule satisfies.
ThreadOrder(t) == TodoAt(t) /\ CursorAt(t) /\ LoadAt(t) /\ SaveAt(t)
HotAgrees == mode = "hot" => Agree(hot, index)
Orderly ==
  /\ \A t \in Thread : ThreadOrder(t)
  /\ HotAgrees /\ RamOnly /\ WithinLimit
  /\ IndexBacked /\ FilesOwned /\ FilesFirst /\ OneFile
  /\ InMemory /\ KeptSomewhere /\ KeptOnDisk
CalmInv == Calm => Orderly

\* An item put in the queue: the last, and the first about its block if there
\* was none.
LEMMA QueueGrows ==
  ASSUME NEW q \in Seq(Item), NEW x \in Item, NEW r, r = Append(q, x)
  PROVE  /\ \A h : About(r, h) <=> About(q, h) \/ x.hash = h
         /\ \A e : WriteLast(q, e) /\ x.hash # e.hash => WriteLast(r, e)
         /\ \A e : x = WriteItem(e) => WriteLast(r, e)
         /\ \A f : UnlinkIn(r, f) <=> UnlinkIn(q, f) \/ x = UnlinkItem(f)
         /\ \A f : /\ UnlinkedFirst(q, f)
                   /\ x.op = "write" /\ x.hash = f.hash => UnlinkIn(q, f)
                   => UnlinkedFirst(r, f)
<1> DEFINE n == Len(q)
<1>1. /\ r \in Seq(Item) /\ ToSet(r) = ToSet(q) \cup {x} /\ Len(r) = n + 1
      /\ n \in Nat /\ DOMAIN q = 1 .. n
  BY AppendQueue, LenProperties
<1>2. r[n + 1] = x /\ \A i \in 1 .. n : r[i] = q[i]
  BY AppendProperties
<1> HIDE DEF n
<1>3. n + 1 \in 1 .. n + 1 /\ (\A i \in 1 .. n + 1 : i \in 1 .. n \/ i = n + 1)
      /\ (\A i \in 1 .. n : i \in 1 .. n + 1 /\ ~ (i > n + 1) /\ i < n + 1)
  BY <1>1
<1>4. \A h : About(r, h) <=> About(q, h) \/ x.hash = h
  BY <1>1 DEF About
<1>5. ASSUME NEW e, WriteLast(q, e), x.hash # e.hash PROVE WriteLast(r, e)
  <2>1. PICK j \in 1 .. n : /\ q[j] = WriteItem(e)
                            /\ \A i \in 1 .. n : i > j => q[i].hash # e.hash
    BY <1>5 DEF WriteLast, n
  <2>2. j \in 1 .. n + 1 /\ r[j] = WriteItem(e)
    BY <1>2, <1>3, <2>1
  <2>3. \A i \in 1 .. n + 1 : i > j => r[i].hash # e.hash
    BY <1>2, <1>3, <1>5, <2>1
  <2>4. QED BY <1>1, <2>2, <2>3 DEF WriteLast
<1>6. ASSUME NEW e, x = WriteItem(e) PROVE WriteLast(r, e)
  <2>1. \A i \in 1 .. n + 1 : ~ (i > n + 1)
    BY <1>1
  <2>2. QED BY <1>1, <1>2, <1>3, <1>6, <2>1 DEF WriteLast
<1>7. \A f : UnlinkIn(r, f) <=> UnlinkIn(q, f) \/ x = UnlinkItem(f)
  BY <1>1 DEF UnlinkIn
<1>8. ASSUME NEW f, UnlinkedFirst(q, f), x.op = "write" /\ x.hash = f.hash => UnlinkIn(q, f)
      PROVE  UnlinkedFirst(r, f)
  <2> SUFFICES ASSUME NEW j \in 1 .. n + 1, r[j].op = "write", r[j].hash = f.hash
               PROVE  \E i \in 1 .. n + 1 : i < j /\ r[i] = UnlinkItem(f)
    BY <1>1 DEF UnlinkedFirst
  <2>1. CASE j \in 1 .. n
    <3>1. PICK i \in 1 .. n : i < j /\ q[i] = UnlinkItem(f)
      BY <1>2, <1>8, <2>1 DEF UnlinkedFirst, n
    <3>2. QED BY <1>2, <1>3, <3>1
  <2>2. CASE j = n + 1
    <3>1. PICK i \in 1 .. n : q[i] = UnlinkItem(f)
      BY <1>1, <1>2, <1>8, <2>2 DEF UnlinkIn, ToSet
    <3>2. QED BY <1>2, <1>3, <2>2, <3>1
  <2>3. QED BY <1>3, <2>1, <2>2
<1>9. QED BY <1>4, <1>5, <1>6, <1>7, <1>8

\* The first item leaves the queue.
LEMMA QueueShrinks ==
  ASSUME NEW q \in Seq(Item), q # <<>>, NEW r, r = Tail(q), NEW x, x = Head(q)
  PROVE  /\ r \in Seq(Item) /\ x \in Item
         /\ \A h : About(q, h) <=> About(r, h) \/ x.hash = h
         /\ \A e : WriteLast(q, e) =>
                     WriteLast(r, e) \/ (x = WriteItem(e) /\ ~ About(r, e.hash))
         /\ \A f : UnlinkIn(q, f) <=> UnlinkIn(r, f) \/ x = UnlinkItem(f)
         /\ \A f : UnlinkedFirst(q, f) /\ x # UnlinkItem(f) => UnlinkedFirst(r, f)
         /\ \A f : x.op = "write" /\ x.hash = f.hash => ~ UnlinkedFirst(q, f)
<1> DEFINE n == Len(q)
<1>1. /\ r \in Seq(Item) /\ ToSet(q) = ToSet(r) \cup {x} /\ Len(r) = n - 1 /\ x \in Item
      /\ \A i \in DOMAIN r : i + 1 \in DOMAIN q /\ r[i] = q[i + 1]
  BY TailQueue, NonEmptyQueue
<1>2. n \in Nat \ {0} /\ DOMAIN q = 1 .. n /\ DOMAIN r = 1 .. n - 1 /\ x = q[1]
  BY <1>1, LenProperties, HeadTailProperties, EmptySeq
<1> HIDE DEF n
<1>3. /\ \A i \in 1 .. n - 1 : i + 1 \in 1 .. n /\ r[i] = q[i + 1]
      /\ \A i \in 1 .. n : i = 1 \/ (i - 1 \in 1 .. n - 1 /\ q[i] = r[i - 1])
      /\ 1 \in 1 .. n
  <2>1. \A i \in 1 .. n : i = 1 \/ (i - 1 \in 1 .. n - 1 /\ (i - 1) + 1 = i)
    BY <1>2
  <2>2. QED BY <1>1, <1>2, <2>1
<1>4. \A h : About(q, h) <=> About(r, h) \/ x.hash = h
  BY <1>1 DEF About
<1>5. ASSUME NEW e, WriteLast(q, e)
      PROVE  WriteLast(r, e) \/ (x = WriteItem(e) /\ ~ About(r, e.hash))
  <2>1. PICK j \in 1 .. n : /\ q[j] = WriteItem(e)
                            /\ \A i \in 1 .. n : i > j => q[i].hash # e.hash
    BY <1>5 DEF WriteLast, n
  <2>2. CASE j = 1
    <3>1. ASSUME NEW i \in 1 .. n - 1 PROVE r[i].hash # e.hash
      <4>1. i + 1 > 1
        BY <1>2
      <4>2. i + 1 \in 1 .. n /\ r[i] = q[i + 1]
        BY <1>3
      <4>3. QED BY <2>1, <2>2, <4>1, <4>2
    <3>2. QED BY <1>2, <2>1, <2>2, <3>1 DEF About, ToSet
  <2>3. CASE j # 1
    <3>1. j - 1 \in 1 .. n - 1 /\ r[j - 1] = WriteItem(e)
      BY <1>3, <2>1, <2>3
    <3>2. ASSUME NEW i \in 1 .. n - 1, i > j - 1 PROVE r[i].hash # e.hash
      <4>1. i + 1 > j
        BY <3>2, <1>2
      <4>2. QED BY <1>3, <2>1, <4>1
    <3>3. QED BY <1>1, <3>1, <3>2 DEF WriteLast
  <2>4. QED BY <2>2, <2>3
<1>6. \A f : UnlinkIn(q, f) <=> UnlinkIn(r, f) \/ x = UnlinkItem(f)
  BY <1>1 DEF UnlinkIn
<1>7. ASSUME NEW f, UnlinkedFirst(q, f), x # UnlinkItem(f) PROVE UnlinkedFirst(r, f)
  <2> SUFFICES ASSUME NEW j \in 1 .. n - 1, r[j].op = "write", r[j].hash = f.hash
               PROVE  \E i \in 1 .. n - 1 : i < j /\ r[i] = UnlinkItem(f)
    BY <1>1 DEF UnlinkedFirst
  <2>1. PICK i \in 1 .. n : i < j + 1 /\ q[i] = UnlinkItem(f)
    BY <1>3, <1>7 DEF UnlinkedFirst, n
  <2>2. i # 1
    BY <1>2, <1>7, <2>1
  <2>3. i - 1 \in 1 .. n - 1 /\ r[i - 1] = UnlinkItem(f)
    BY <1>3, <2>1, <2>2
  <2>4. i - 1 < j
    BY <1>2, <2>1
  <2>5. QED BY <2>3, <2>4
<1>8. ASSUME NEW f, x.op = "write", x.hash = f.hash PROVE ~ UnlinkedFirst(q, f)
  <2>1. \A i \in 1 .. n : ~ (i < 1)
    BY <1>2
  <2>2. QED BY <1>2, <1>3, <1>8, <2>1 DEF UnlinkedFirst, n
<1>9. QED BY <1>1, <1>4, <1>5, <1>6, <1>7, <1>8

\* In a calm schedule the other threads rest.
LEMMA OthersRest ==
  ASSUME AInv, Orderly, ~ overlap, NEW t \in Thread, pc[t] # "idle" \/ AtRest
  PROVE  \A u \in Thread : u # t => pc[u] = "idle" /\ todo[u] = <<>>
<1> SUFFICES ASSUME NEW u \in Thread, u # t PROVE pc[u] = "idle" /\ todo[u] = <<>>
  OBVIOUS
<1>1. pc[u] = "idle"
  BY DEF AInv, OneAtATime, AtRest
<1>2. TodoAt(u)
  BY DEF Orderly, ThreadOrder
<1>3. QED BY <1>1, <1>2 DEF TodoAt, Chain

\* What holds of a thread at rest.
LEMMA OneThread ==
  ASSUME NEW t \in Thread, ThreadOrder(t)',
         \A u \in Thread : u # t => pc'[u] = "idle" /\ todo'[u] = <<>>
  PROVE  \A u \in Thread : ThreadOrder(u)'
<1> SUFFICES ASSUME NEW u \in Thread, u # t PROVE ThreadOrder(u)'
  OBVIOUS
<1>1. pc'[u] = "idle" /\ todo'[u] = <<>>
  OBVIOUS
<1>2. OnePerBlock(<<>>) /\ Hashes(<<>>) = {} /\ ToSet(<<>>) = {}
  BY NoBlocks, EmptyQueue
<1>3. Agree(<<>>, hot)' /\ Agree(<<>>, index)'
  BY <1>2 DEF Agree
<1>4. TodoAt(u)'
  BY <1>1, <1>2, <1>3 DEF TodoAt, Chain, OnePerBlock
<1>5. CursorAt(u)' /\ LoadAt(u)' /\ SaveAt(u)'
  BY <1>1 DEF CursorAt, LoadAt, SaveAt
<1>6. QED BY <1>4, <1>5 DEF ThreadOrder

\* A step of a thread that queues nothing and adds nothing to the index.
LEMMA FilesStay ==
  ASSUME Types, Types', Orderly, up, NEW t \in Thread,
         \A u \in Thread : u # t => pc[u] = "idle" /\ pc'[u] = "idle",
         UNCHANGED <<mode, queue, wpc, witem>>,
         ToSet(index') \subseteq ToSet(index), disk' \subseteq disk,
         \A e \in ToSet(index') : Whole(e) => Whole(e)',
         \A e \in ToSet(index') : ComingBy(t, e) => ComingBy(t, e)',
         \A f \in WholeFiles' : NameOf(f) \in ToSet(index) \/ ThreadHas(t, f) =>
                                  NameOf(f) \in ToSet(index') \/ Going(f) \/ ThreadHas(t, f)',
         Writes(t)' => \/ Writes(t) /\ cur'[t] = cur[t]
                       \/ \A f \in WholeFiles' : f.hash = cur'[t].hash => Going(f)
  PROVE  /\ RamOnly' /\ IndexBacked' /\ FilesOwned' /\ FilesFirst' /\ OneFile'
         /\ \A e \in ToSet(index') : OnDisk(e) => OnDisk(e)'
<1>1. RamOnly'
  BY NonEmptyQueue DEF Orderly, RamOnly, Types
<1>2. \A e \in ToSet(index') : OnDisk(e) => OnDisk(e)'
  BY DEF OnDisk, Writer, About
<1>3. ASSUME NEW e \in ToSet(index')
      PROVE  OnDisk(e)' \/ WriteLast(queue', e) \/ InHand(e)' \/ ComingBy(t, e)'
  <2>1. \A u \in Thread : ComingBy(u, e) => u = t
    BY DEF ComingBy
  <2>2. OnDisk(e) \/ WriteLast(queue, e) \/ InHand(e) \/ ComingBy(t, e)
    BY <2>1 DEF Orderly, IndexBacked
  <2>3. InHand(e) => InHand(e)'
    BY DEF InHand, About
  <2>4. QED BY <1>2, <2>2, <2>3
<1>4. IndexBacked'
  BY <1>3 DEF IndexBacked
<1>5. /\ WholeFiles' \subseteq WholeFiles
      /\ \A f : /\ UnlinkIn(queue', f) = UnlinkIn(queue, f) /\ WriterHas(f)' = WriterHas(f)
                /\ UnlinkedFirst(queue', f) = UnlinkedFirst(queue, f)
  BY DEF WholeFiles, WriterHas
<1>6. FilesOwned'
  <2> SUFFICES ASSUME NEW f \in WholeFiles'
               PROVE  \/ NameOf(f) \in ToSet(index') \/ UnlinkIn(queue', f) \/ WriterHas(f)'
                      \/ ThreadHas(t, f)'
    BY DEF FilesOwned, NameOf
  <2>1. \A u \in Thread : ThreadHas(u, f) => u = t
    BY DEF ThreadHas
  <2>2. NameOf(f) \in ToSet(index) \/ UnlinkIn(queue, f) \/ WriterHas(f) \/ ThreadHas(t, f)
    BY <1>5, <2>1 DEF Orderly, FilesOwned
  <2>3. QED BY <1>5, <2>2 DEF Going
<1>7. FilesFirst'
  <2> SUFFICES ASSUME NEW f \in WholeFiles'
               PROVE  /\ UnlinkedFirst(queue', f) \/ WriterHas(f)'
                      /\ \A u \in Thread : Writes(u)' /\ cur'[u].hash = f.hash => Going(f)'
                      /\ wpc' \in {"open", "data"} => witem'.hash # f.hash
                      /\ wpc' = "rename" /\ witem'.hash = f.hash => f.path = witem'.path + 1
    BY DEF FilesFirst
  <2>1. /\ UnlinkedFirst(queue, f) \/ WriterHas(f)
        /\ \A u \in Thread : Writes(u) /\ cur[u].hash = f.hash => Going(f)
        /\ wpc \in {"open", "data"} => witem.hash # f.hash
        /\ wpc = "rename" /\ witem.hash = f.hash => f.path = witem.path + 1
    BY <1>5 DEF Orderly, FilesFirst
  <2>2. ASSUME NEW u \in Thread, Writes(u)', cur'[u].hash = f.hash PROVE Going(f)'
    <3>1. u = t
      BY <2>2 DEF Writes
    <3>2. Going(f)
      BY <2>1, <2>2, <3>1
    <3>3. QED BY <1>5, <3>2 DEF Going
  <2>3. QED BY <1>5, <2>1, <2>2
<1>8. OneFile'
  BY <1>5 DEF Orderly, OneFile
<1>9. QED BY <1>1, <1>2, <1>4, <1>6, <1>7, <1>8

\* ... and takes no entry out of memory whose file is not there.
LEMMA MemoryStays ==
  ASSUME Orderly, NEW t \in Thread,
         \A u \in Thread : u # t => pc[u] = "idle",
         ToSet(index') \subseteq ToSet(index),
         \A e \in ToSet(index') : OnDisk(e) => OnDisk(e)',
         \A e \in ToSet(index') : Held(e) \/ HeldBy(t, e) =>
                                    Held(e)' \/ HeldBy(t, e)' \/ OnDisk(e)'
  PROVE  InMemory'
<1> SUFFICES ASSUME NEW e \in ToSet(index') PROVE OnDisk(e)' \/ Held(e)' \/ HeldBy(t, e)'
  BY DEF InMemory
<1>1. \A u \in Thread : HeldBy(u, e) => u = t
  BY DEF HeldBy
<1>2. OnDisk(e) \/ Held(e) \/ HeldBy(t, e)
  BY <1>1 DEF Orderly, InMemory
<1>3. QED BY <1>2

\* The blocks counted against the limit are finitely many.
LEMMA SavedFinite ==
  ASSUME Types
  PROVE  IsFiniteSet(Saved) /\ Cardinality(Saved) \in Nat
<1>1. Saved \subseteq Hash
  BY BlocksOf DEF Types, Saved
<1>2. QED BY <1>1, SSDAssumption, FS_Subset, FS_CardinalityType

\* No block more counts against the same limit, or a higher one.
LEMMA LimitStays ==
  ASSUME Types, Types', Orderly, mode' = mode, closing' = closing \/ closing',
         limit' = limit \/ limit' = limit + 1, Saved' \subseteq Saved
  PROVE  WithinLimit'
<1>1. IsFiniteSet(Saved) /\ Cardinality(Saved) \in Nat
  BY SavedFinite
<1>2. Cardinality(Saved') <= Cardinality(Saved) /\ Cardinality(Saved') \in Nat
  BY <1>1, FS_Subset, FS_CardinalityType
<1>3. limit \in Nat
  BY SSDAssumption DEF Types
<1>4. QED BY <1>1, <1>2, <1>3 DEF Orderly, WithinLimit

------------------------------------------------------------------------------
(* The threads in a calm schedule *)

\* A step in memory alone, that takes no buffer away.
LEMMA MemoryStep ==
  ASSUME Types, Types', Orderly, up, NEW t \in Thread,
         \A u \in Thread : u # t => pc[u] = "idle" /\ pc'[u] = "idle",
         UNCHANGED <<mode, queue, disk, pending, wpc, witem>>, closing => closing',
         ToSet(index') = ToSet(index),
         Hashes(hot) \subseteq Hashes(hot') \/ (mode # "buffer" /\ ~ closing),
         pc[t] \notin {"unlink", "put", "buffer", "bufferPut", "discard", "deleteIndex", "deleteFile",
                       "wipe"},
         ~ Writes(t)'
  PROVE  /\ RamOnly' /\ IndexBacked' /\ FilesOwned' /\ FilesFirst' /\ OneFile' /\ InMemory'
         /\ \A e \in ToSet(index') : OnDisk(e) => OnDisk(e)'
<1>1. /\ \A e : Whole(e) => Whole(e)'
      /\ \A e : ~ ComingBy(t, e) /\ ~ HeldBy(t, e)
      /\ \A f : ~ ThreadHas(t, f)
  BY DEF Whole, ComingBy, HeldBy, ThreadHas
<1>2. /\ RamOnly' /\ IndexBacked' /\ FilesOwned' /\ FilesFirst' /\ OneFile'
      /\ \A e \in ToSet(index') : OnDisk(e) => OnDisk(e)'
  BY <1>1, FilesStay
<1>3. \A e : Held(e) => Held(e)'
  BY DEF Held, Hashes
<1>4. InMemory'
  BY <1>1, <1>2, <1>3, MemoryStays
<1>5. QED BY <1>2, <1>4

\* A thread with nothing to queue.
LEMMA NothingToQueue ==
  ASSUME NEW t \in Thread, todo'[t] = <<>>,
         pc'[t] \notin Chain \/ (pc'[t] = "unlink" /\ mode' # "hot"),
         closing' => pc'[t] = "idle"
  PROVE  TodoAt(t)'
<1>1. OnePerBlock(<<>>) /\ Hashes(<<>>) = {} /\ ToSet(<<>>) = {}
  BY NoBlocks, EmptyQueue
<1>2. Agree(<<>>, hot)' /\ Agree(<<>>, index)'
  BY <1>1 DEF Agree
<1>3. QED BY <1>1, <1>2 DEF TodoAt, Chain, OnePerBlock

\* Only the thread's own step and block move.
LEMMA OnlyCursor ==
  ASSUME AInv, AInv', Calm, Orderly, NEW t \in Thread, pc[t] # "idle" \/ AtRest,
         up, pc[t] \notin Chain, pc'[t] \notin Chain, todo' = todo,
         \A u \in Thread : u # t => pc'[u] = pc[u],
         UNCHANGED <<mode, up, closing, queue, disk, pending, wpc, witem>>,
         limit' = limit \/ limit' = limit + 1,
         closing => pc'[t] = "idle",
         ToSet(index') = ToSet(index), ToSet(hot') = ToSet(hot),
         pc[t] \notin {"unlink", "put", "buffer", "bufferPut", "discard", "deleteIndex", "deleteFile",
                       "wipe"},
         ~ Writes(t)',
         CursorAt(t)', SaveAt(t)',
         (\A e \in ToSet(index') : OnDisk(e) => OnDisk(e)') => LoadAt(t)',
         \A h \in kept' : h \in kept \/ h \in Hashes(index) \/ (h \in Hashes(hot) /\ ~ closing)
  PROVE  Orderly'
<1>1. \A u \in Thread : u # t => pc[u] = "idle" /\ todo[u] = <<>>
  BY OthersRest DEF Calm
<1>2. Types /\ Types'
  BY DEF AInv
<1>3. todo[t] = <<>>
  BY DEF Orderly, ThreadOrder, TodoAt
<1>4. TodoAt(t)'
  BY <1>3, NothingToQueue
<1>5. Hashes(index') = Hashes(index) /\ Hashes(hot') = Hashes(hot)
  BY <1>2, BlocksOf DEF Types
<1>6. /\ RamOnly' /\ IndexBacked' /\ FilesOwned' /\ FilesFirst' /\ OneFile' /\ InMemory'
      /\ \A e \in ToSet(index') : OnDisk(e) => OnDisk(e)'
  BY <1>1, <1>2, <1>5, MemoryStep
<1>7. \A u \in Thread : ThreadOrder(u)'
  BY <1>1, <1>4, <1>6, OneThread DEF ThreadOrder
<1>8. HotAgrees'
  BY DEF Orderly, HotAgrees, Agree
<1>9. WithinLimit'
  <2>1. Saved' \subseteq Saved
    BY <1>5 DEF Saved, Hashes
  <2>2. QED BY <1>2, <2>1, LimitStays
<1>10. KeptSomewhere'
  <2> SUFFICES ASSUME NEW h \in kept' PROVE KeptAt(h)'
    BY DEF KeptSomewhere
  <2>1. \A u \in Thread : Ahead(u) = {}
    BY <1>1, <1>3, NoBlocks DEF Ahead, Chain
  <2>2. KeptAt(h)' <=> h \in Hashes(index') \/ (h \in Hashes(hot') /\ ~ (closing' /\ mode' = "hot"))
                         \/ \E u \in Thread : h \in Ahead(u)'
    BY DEF KeptAt, Hashes
  <2>3. h \in kept => KeptAt(h)
    BY DEF Orderly, KeptSomewhere
  <2>4. QED BY <1>5, <2>1, <2>2, <2>3 DEF KeptAt
<1>11. KeptOnDisk'
  BY DEF KeptOnDisk
<1>12. QED BY <1>6, <1>7, <1>8, <1>9, <1>10, <1>11 DEF Orderly

\* save_block begins, finds the block in memory, or is refused.
LEMMA SaveStepsOrderly ==
  ASSUME AInv, AInv', Calm, Orderly, NEW t \in Thread,
         \/ \E h \in Hash : SaveBegin(t, h)
         \/ SaveInHot(t) \/ SaveRefused(t) \/ SaveHot(t)
  PROVE  Orderly'
<1> USE DEF AInv
<1>1. CASE \E h \in Hash : SaveBegin(t, h)
  <2>1. PICK h \in Hash : SaveBegin(t, h)
    BY <1>1
  <2>2. /\ up /\ ~ closing /\ pc[t] = "idle" /\ AtRest
        /\ UNCHANGED <<mode, up, closing, hot, limit, queue, disk, pending, todo, wpc, witem>>
        /\ \/ h \in Hashes(index) /\ index' = Touched(h) /\ kept' = kept \cup {h} /\ UNCHANGED <<pc, cur>>
           \/ /\ h \notin Hashes(index) /\ index' = index /\ kept' = kept
              /\ pc' = [pc EXCEPT ![t] = "inHot"]
              /\ cur' = [cur EXCEPT ![t] = [hash |-> h, path |-> 0]]
    BY <2>1 DEF SaveBegin, MayBegin, Begin, Calm, config, life, writer
  <2>3. ToSet(index') = ToSet(index) /\ Hashes(index') = Hashes(index)
    BY <2>2, TouchedIndex DEF Types
  <2>4. /\ \A u \in Thread : u # t => pc'[u] = pc[u]
        /\ \/ pc'[t] = "idle"
           \/ pc'[t] = "inHot" /\ cur'[t].hash \notin Hashes(index')
    BY <2>2, <2>3 DEF Types
  <2>5. CursorAt(t)' /\ SaveAt(t)' /\ LoadAt(t)' /\ ~ Writes(t)'
    BY <2>4 DEF CursorAt, SaveAt, LoadAt, Writes, Hashes
  <2>6. \A g \in kept' : g \in kept \/ g \in Hashes(index)
    BY <2>2
  <2>7. pc[t] \notin Chain /\ pc'[t] \notin Chain
    BY <2>2, <2>4 DEF Chain
  <2>8. QED BY <2>2, <2>3, <2>4, <2>5, <2>6, <2>7, OnlyCursor
<1>2. CASE SaveInHot(t) \/ SaveRefused(t) \/ SaveHot(t)
  <2>1. /\ up /\ pc[t] = "inHot"
        /\ UNCHANGED <<mode, up, closing, index, hot, limit, queue, disk, pending, todo, wpc, witem>>
        /\ \/ /\ pc' = [pc EXCEPT ![t] = "idle"]
              /\ kept' = kept \/ (cur[t].hash \in Hashes(hot) /\ kept' = kept \cup {cur[t].hash})
           \/ pc' = [pc EXCEPT ![t] = "hotPut"] /\ cur' = cur /\ kept' = kept
    BY <1>2, WorksUp DEF SaveInHot, SaveRefused, SaveHot, Done, config, life, memory, writer
  <2>2. /\ \A u \in Thread : u # t => pc'[u] = pc[u]
        /\ pc'[t] = "idle" \/ (pc'[t] = "hotPut" /\ cur' = cur)
    BY <2>1 DEF Types
  <2>3. ~ closing /\ cur[t].hash \notin Hashes(index) /\ Hashes(index) = {f.hash : f \in ToSet(index)}
    BY <2>1, BlocksOf DEF Orderly, ThreadOrder, TodoAt, CursorAt, Chain, Types
  <2>4. CursorAt(t)' /\ SaveAt(t)' /\ LoadAt(t)' /\ ~ Writes(t)'
    BY <2>1, <2>2, <2>3 DEF CursorAt, SaveAt, LoadAt, Writes, IndexedAs
  <2>5. \A g \in kept' : g \in kept \/ (g \in Hashes(hot) /\ ~ closing)
    BY <2>1, <2>3
  <2>6. pc[t] \notin Chain /\ pc'[t] \notin Chain
    BY <2>1, <2>2 DEF Chain
  <2>7. QED BY <2>1, <2>2, <2>3, <2>4, <2>5, <2>6, OnlyCursor
<1>3. QED BY <1>1, <1>2

\* load_block begins, looks the block up, finds its file and reads it.
LEMMA LoadStepsOrderly ==
  ASSUME AInv, AInv', Calm, Orderly, NEW t \in Thread,
         \/ \E h \in Hash : LoadBegin(t, h)
         \/ LoadIndex(t) \/ LoadExists(t) \/ LoadReads(t)
  PROVE  Orderly'
<1> USE DEF AInv
<1>1. CASE \E h \in Hash : LoadBegin(t, h)
  <2>1. PICK h \in Hash : LoadBegin(t, h)
    BY <1>1
  <2>2. /\ up /\ ~ closing /\ pc[t] = "idle" /\ AtRest
        /\ UNCHANGED <<mode, up, closing, limit, queue, disk, pending, todo, wpc, witem, kept>>
        /\ \/ /\ index' = Touched(h) /\ UNCHANGED <<pc, cur>>
              /\ hot' = IF h \in Hashes(hot) THEN Append(Without(hot, h), EntryOf(hot, h)) ELSE hot
           \/ /\ h \notin Hashes(hot) \cup pending /\ hot' = hot /\ index' = index
              /\ pc' = [pc EXCEPT ![t] = "inIndex"]
              /\ cur' = [cur EXCEPT ![t] = [hash |-> h, path |-> 0]]
    BY <2>1 DEF LoadBegin, MayBegin, Begin, Calm, config, life, writer
  <2>3. ToSet(index') = ToSet(index)
    BY <2>2, TouchedIndex DEF Types
  <2>4. ToSet(hot') = ToSet(hot)
    BY <2>2, RenewedEntry DEF Types
  <2>5. /\ \A u \in Thread : u # t => pc'[u] = pc[u]
        /\ \/ pc'[t] = "idle"
           \/ pc'[t] = "inIndex" /\ cur'[t].hash \notin Hashes(hot) \cup pending
    BY <2>2 DEF Types
  <2>6. CursorAt(t)' /\ SaveAt(t)' /\ ~ Writes(t)'
    BY <2>5 DEF CursorAt, SaveAt, Writes
  <2>7. ASSUME \A e \in ToSet(index') : OnDisk(e) => OnDisk(e)' PROVE LoadAt(t)'
    <3>1. \A e \in ToSet(index) : OnDisk(e) \/ Held(e)
      BY <2>2 DEF Orderly, InMemory, HeldBy, AtRest
    <3>2. \A e \in ToSet(index) : e.hash \notin Hashes(hot) \cup pending => OnDisk(e)
      BY <3>1 DEF Held
    <3>3. QED BY <2>3, <2>5, <2>7, <3>2 DEF LoadAt
  <2>8. pc[t] \notin Chain /\ pc'[t] \notin Chain
    BY <2>2, <2>5 DEF Chain
  <2>9. QED BY <2>2, <2>3, <2>4, <2>5, <2>6, <2>7, <2>8, OnlyCursor
<1>2. CASE LoadIndex(t) \/ LoadExists(t) \/ LoadReads(t)
  <2>1. /\ up /\ pc[t] \in {"inIndex", "exists", "read"}
        /\ UNCHANGED <<mode, up, closing, hot, limit, queue, disk, pending, todo, wpc, witem, kept>>
        /\ index' = index \/ index' = Touched(cur[t].hash)
    BY <1>2, WorksUp DEF LoadIndex, LoadExists, LoadReads, config, life, memory, writer
  <2>2. /\ ToSet(index') = ToSet(index) /\ Hashes(index') = Hashes(index)
        /\ Hashes(index) = {f.hash : f \in ToSet(index)}
    BY <2>1, TouchedIndex, BlocksOf DEF Types
  <2>3. /\ ~ closing
        /\ pc[t] \in {"exists", "read"} => IndexedAs(cur[t])
        /\ \A e \in ToSet(index) : e.hash = cur[t].hash => OnDisk(e)
    BY <2>1 DEF Orderly, ThreadOrder, TodoAt, CursorAt, LoadAt, Chain
  <2>4. /\ \A u \in Thread : u # t => pc'[u] = pc[u]
        /\ \/ pc'[t] = "idle"
           \/ /\ pc'[t] = "exists" /\ IndexedAs(cur'[t]) /\ cur'[t].hash = cur[t].hash
           \/ pc'[t] = "read" /\ IndexedAs(cur'[t]) /\ cur'[t].hash = cur[t].hash
           \/ pc'[t] = "missing" /\ cur'[t].hash \notin Hashes(index)
           \/ pc'[t] = "hotPut" /\ IndexedAs(cur'[t])
    <3>1. CASE LoadIndex(t)
      <4>1. CASE cur[t].hash \in Hashes(index)
        <5>1. /\ cur' = [cur EXCEPT ![t] = EntryOf(index, cur[t].hash)]
              /\ pc' = [pc EXCEPT ![t] = "exists"]
          BY <3>1, <4>1 DEF LoadIndex
        <5>2. /\ EntryOf(index, cur[t].hash) \in ToSet(index)
              /\ EntryOf(index, cur[t].hash).hash = cur[t].hash
          BY <4>1, EntryIn DEF Types
        <5>3. IndexedAs(EntryOf(index, cur[t].hash))
          BY <5>2 DEF IndexedAs, Types, OnePerBlock
        <5>4. QED BY <5>1, <5>2, <5>3 DEF Types
      <4>2. CASE cur[t].hash \notin Hashes(index)
        BY <3>1, <4>2 DEF LoadIndex, Done, Types
      <4>3. QED BY <4>1, <4>2
    <3>2. CASE LoadExists(t)
      <4>1. /\ pc[t] = "exists" /\ cur' = cur
            /\ pc' = [pc EXCEPT ![t] = IF FileAt(cur[t].hash, cur[t].path) THEN "read" ELSE "missing"]
        BY <3>2 DEF LoadExists
      <4>2. IndexedAs(cur[t])
        BY <2>3, <4>1
      <4>3. \A e \in ToSet(index) : e.hash = cur[t].hash => e = cur[t] /\ Whole(e)
        BY <2>3, <4>2 DEF IndexedAs, OnDisk
      <4>4. cur[t].hash \in Hashes(index) => FileAt(cur[t].hash, cur[t].path)
        BY <2>2, <4>3 DEF Whole, FileAt
      <4>5. QED BY <4>1, <4>2, <4>4 DEF Types
    <3>3. CASE LoadReads(t)
      BY <2>3, <3>3 DEF LoadReads, Done, Types
    <3>4. QED BY <1>2, <3>1, <3>2, <3>3
  <2>5. CursorAt(t)' /\ SaveAt(t)' /\ ~ Writes(t)'
    <3>1. IndexedAs(cur'[t]) => \A f \in ToSet(index') : f.hash = cur'[t].hash => f = cur'[t]
      BY <2>2 DEF IndexedAs
    <3>2. pc'[t] \in {"exists", "read", "hotPut"} =>
            \A f \in ToSet(index') : f.hash = cur'[t].hash => f = cur'[t]
      BY <2>4, <3>1
    <3>3. pc'[t] = "missing" => cur'[t].hash \notin Hashes(index')
      BY <2>2, <2>4
    <3>4. pc'[t] \in {"idle", "exists", "read", "missing", "hotPut"}
      BY <2>4
    <3>5. CursorAt(t)'
      BY <3>2, <3>3, <3>4 DEF CursorAt, IndexedAs, Hashes
    <3>6. QED BY <3>4, <3>5 DEF SaveAt, Writes
  <2>6. ASSUME \A e \in ToSet(index') : OnDisk(e) => OnDisk(e)' PROVE LoadAt(t)'
    BY <2>2, <2>3, <2>4, <2>6 DEF LoadAt
  <2>7. pc[t] \notin Chain /\ pc'[t] \notin Chain
    BY <2>1, <2>4 DEF Chain
  <2>8. ToSet(hot') = ToSet(hot)
    BY <2>1
  <2>9. QED BY <2>1, <2>2, <2>3, <2>4, <2>5, <2>6, <2>7, <2>8, OnlyCursor
<1>3. QED BY <1>1, <1>2

\* The limit is relaxed, or the index is listed to be cleared.
LEMMA RelaxClearOrderly ==
  ASSUME AInv, AInv', Calm, Orderly, NEW t \in Thread, Relax(t) \/ ClearBegin(t)
  PROVE  Orderly'
<1> USE DEF AInv
<1>1. /\ up /\ ~ closing /\ pc[t] = "idle" /\ AtRest
      /\ UNCHANGED <<mode, up, closing, index, hot, queue, disk, pending, todo, wpc, witem, kept>>
      /\ limit' = limit \/ limit' = limit + 1
  BY DEF Relax, ClearBegin, MayBegin, Begin, Calm, config, life, memory, writer, caller
<1>2. /\ \A u \in Thread : u # t => pc'[u] = pc[u]
      /\ \/ pc'[t] = "idle"
         \/ pc'[t] = "deleteHot" /\ unlinks'[t] = index
         \/ pc'[t] = "wipe" /\ index = <<>>
  <2>1. CASE Relax(t)
    BY <1>1, <2>1 DEF Relax, caller
  <2>2. CASE ClearBegin(t)
    BY <1>1, <2>2 DEF ClearBegin, Types
  <2>3. QED BY <2>1, <2>2
<1>3. CursorAt(t)' /\ SaveAt(t)' /\ LoadAt(t)' /\ ~ Writes(t)'
  <2>1. OnePerBlock(index)
    BY DEF Types
  <2>2. QED BY <1>1, <1>2, <2>1 DEF CursorAt, SaveAt, LoadAt, Writes
<1>4. pc[t] \notin Chain /\ pc'[t] \notin Chain
  BY <1>1, <1>2 DEF Chain
<1>5. ToSet(index') = ToSet(index) /\ ToSet(hot') = ToSet(hot)
  BY <1>1
<1>6. QED BY <1>1, <1>2, <1>3, <1>4, <1>5, OnlyCursor

\* The hot cache is emptied.
LEMMA ClearHotOrderly ==
  ASSUME AInv, AInv', Calm, Calm', Orderly, NEW t \in Thread, ClearHot(t)
  PROVE  Orderly'
<1> USE DEF AInv
<1>1. /\ up /\ ~ closing /\ pc[t] = "idle" /\ AtRest /\ hot' = <<>> /\ kept' = kept \ Hashes(hot)
      /\ UNCHANGED <<mode, up, closing, index, limit, queue, disk, pending, wpc, witem, pc, cur, todo,
                     unlinks, added>>
      /\ mode = "buffer" => hot = <<>>
  BY DEF ClearHot, MayBegin, Begin, Calm, config, life, writer, caller
<1>2. Hashes(hot') = {} /\ ToSet(hot') = {} /\ (mode = "buffer" => Hashes(hot) = {})
  BY <1>1, NoBlocks, EmptyQueue
<1>3. \A u \in Thread : u # t => pc[u] = "idle" /\ todo[u] = <<>>
  BY <1>1, OthersRest DEF Calm
<1>4. todo[t] = <<>>
  BY <1>1 DEF Orderly, ThreadOrder, TodoAt, Chain
<1>5. TodoAt(t)'
  BY <1>1, <1>4, NothingToQueue DEF Chain
<1>6. CursorAt(t)' /\ SaveAt(t)' /\ LoadAt(t)' /\ ~ Writes(t)'
  BY <1>1 DEF CursorAt, SaveAt, LoadAt, Writes
<1>7. \A u \in Thread : ThreadOrder(u)'
  BY <1>1, <1>3, <1>5, <1>6, OneThread DEF ThreadOrder
<1>8. RamOnly' /\ IndexBacked' /\ FilesOwned' /\ FilesFirst' /\ OneFile' /\ InMemory'
  <2>1. Hashes(hot) \subseteq Hashes(hot') \/ (mode # "buffer" /\ ~ closing)
    BY <1>1, <1>2
  <2>2. \A u \in Thread : u # t => pc[u] = "idle" /\ pc'[u] = "idle"
    BY <1>1, <1>3
  <2>3. pc[t] \notin {"unlink", "put", "buffer", "bufferPut", "discard", "deleteIndex", "deleteFile",
                       "wipe"}
    BY <1>1
  <2>4. ToSet(index') = ToSet(index)
    BY <1>1
  <2>5. QED BY <1>1, <1>6, <2>1, <2>2, <2>3, <2>4, MemoryStep
<1>9. HotAgrees'
  BY <1>2 DEF HotAgrees, Agree
<1>10. WithinLimit'
  <2>1. Saved' \subseteq Saved
    BY <1>2 DEF Saved, Hashes
  <2>2. QED BY <1>1, <2>1, LimitStays
<1>11. KeptSomewhere'
  <2> SUFFICES ASSUME NEW h \in kept' PROVE KeptAt(h)'
    BY DEF KeptSomewhere
  <2>1. h \in kept /\ h \notin Hashes(hot)
    BY <1>1
  <2>2. \A u \in Thread : Ahead(u) = {}
    BY <1>1, <1>3, <1>4, NoBlocks DEF Ahead
  <2>3. h \in Hashes(index)
    BY <1>1, <2>1, <2>2 DEF Orderly, KeptSomewhere, KeptAt
  <2>4. QED BY <1>1, <2>3 DEF KeptAt, Hashes
<1>12. KeptOnDisk'
  BY <1>1 DEF KeptOnDisk
<1>13. QED BY <1>7, <1>8, <1>9, <1>10, <1>11, <1>12 DEF Orderly

\* Blocks leave the hot cache, or one enters it; the unsaved ones are to be queued.
LEMMA HotChanges ==
  ASSUME AInv, AInv', Calm, Orderly, NEW t \in Thread, pc[t] = "hotPut" \/ (pc[t] = "idle" /\ AtRest),
         up, ~ closing, mode # "buffer",
         UNCHANGED <<mode, up, closing, index, queue, disk, pending, wpc, witem>>,
         \A u \in Thread : u # t => pc'[u] = pc[u] /\ todo'[u] = todo[u],
         pc'[t] = (IF todo'[t] = <<>> THEN "idle" ELSE "enqueue"),
         todo'[t] # <<>> => mode = "hot",
         OnePerBlock(todo'[t]),
         Hashes(todo'[t]) \cap Hashes(index) = {}, Hashes(todo'[t]) \cap Hashes(hot') = {},
         \A e \in ToSet(hot') : e \in ToSet(hot) \/ IndexedAs(e),
         \A h \in kept' : h \in kept \cup Hashes(hot'),
         \A h \in kept' : h \in Hashes(hot) => h \in Hashes(hot') \cup Hashes(todo'[t]) \cup Hashes(index),
         WithinLimit'
  PROVE  Orderly'
<1>1. \A u \in Thread : u # t => pc[u] = "idle" /\ todo[u] = <<>> /\ pc'[u] = "idle" /\ todo'[u] = <<>>
  BY OthersRest DEF Calm
<1>2. Types /\ Types'
  BY DEF AInv
<1>3. pc'[t] \in {"idle", "enqueue"} /\ (pc'[t] = "idle" <=> todo'[t] = <<>>)
  OBVIOUS
<1>4. /\ Hashes(todo'[t]) = {e.hash : e \in ToSet(todo'[t])}
      /\ Hashes(hot') = {e.hash : e \in ToSet(hot')}
      /\ Hashes(index) = {e.hash : e \in ToSet(index)}
  BY <1>2, BlocksOf DEF Types
<1>5. Agree(todo'[t], hot') /\ Agree(todo'[t], index)
  BY <1>4 DEF Agree
<1>6. TodoAt(t)'
  <2>1. (pc'[t] \notin Chain \/ mode' # "hot") => todo'[t] = <<>>
    BY <1>3 DEF Chain
  <2>2. Agree(todo[t], hot)' /\ Agree(todo[t], index)' /\ OnePerBlock(todo[t])'
    BY <1>5 DEF Agree
  <2>3. Hashes(todo[t])' \cap Hashes(hot)' = {}
    BY DEF Hashes
  <2>4. \A e \in ToSet(todo[t])' : e.hash \notin Hashes(index)'
    BY <1>4
  <2>5. ~ closing' /\ pc'[t] \notin {"unlink", "put", "owe"}
    BY <1>3
  <2>6. QED BY <2>1, <2>2, <2>3, <2>4, <2>5 DEF TodoAt
<1>7. CursorAt(t)' /\ LoadAt(t)' /\ SaveAt(t)' /\ ~ Writes(t)'
  BY <1>3 DEF CursorAt, LoadAt, SaveAt, Writes
<1>8. \A u \in Thread : ThreadOrder(u)'
  BY <1>1, <1>6, <1>7, OneThread DEF ThreadOrder
<1>9. RamOnly' /\ IndexBacked' /\ FilesOwned' /\ FilesFirst' /\ OneFile' /\ InMemory'
  <2>1. ToSet(index') = ToSet(index)
    OBVIOUS
  <2>2. pc[t] \notin {"unlink", "put", "buffer", "bufferPut", "discard", "deleteIndex", "deleteFile",
                       "wipe"}
    OBVIOUS
  <2>3. QED BY <1>1, <1>2, <1>7, <2>1, <2>2, MemoryStep
<1>10. HotAgrees'
  BY DEF Orderly, HotAgrees, Agree, IndexedAs
<1>11. KeptSomewhere'
  <2> SUFFICES ASSUME NEW h \in kept' PROVE KeptAt(h)'
    BY DEF KeptSomewhere
  <2>1. todo[t] = <<>>
    BY DEF Orderly, ThreadOrder, TodoAt, Chain
  <2>2. \A u \in Thread : Ahead(u) = {}
    BY <1>1, <2>1, NoBlocks DEF Ahead
  <2>3. Ahead(t)' = Hashes(todo'[t])
    BY <1>3 DEF Ahead, Hashes
  <2>4. h \in Hashes(hot') \/ h \in Hashes(hot) \/ h \in Hashes(index)
    BY <2>2 DEF Orderly, KeptSomewhere, KeptAt
  <2>5. h \in Hashes(hot') \/ h \in Hashes(todo'[t]) \/ h \in Hashes(index')
    BY <2>4
  <2>6. QED BY <2>3, <2>5 DEF KeptAt, Hashes
<1>12. KeptOnDisk'
  BY DEF KeptOnDisk
<1>13. QED BY <1>8, <1>9, <1>10, <1>11, <1>12 DEF Orderly

\* The oldest n of a queue are n, or all.
LEMMA FirstCounted ==
  ASSUME NEW s \in Seq(Entry), NEW n \in Nat
  PROVE  /\ n <= Len(s) => Len(First(s, n)) = n
         /\ n > Len(s) => First(s, n) = s
<1>1. Len(s) \in Nat /\ \A i \in 1 .. Len(s) : s[i] \in Entry
  BY LenProperties, ElementOfSeq
<1> DEFINE m == IF n < Len(s) THEN n ELSE Len(s)
<1>2. m \in Nat /\ m <= Len(s) /\ (n <= Len(s) => m = n) /\ (n > Len(s) => m = Len(s))
  BY <1>1
<1>3. First(s, n) = SubSeq(s, 1, m)
  BY DEF First
<1> HIDE DEF m
<1>4. \A i \in 1 .. m : s[i] \in Entry
  BY <1>1, <1>2
<1>5. /\ SubSeq(s, 1, m) \in Seq(Entry) /\ Len(SubSeq(s, 1, m)) = (IF 1 <= m THEN m - 1 + 1 ELSE 0)
      /\ \A i \in 1 .. m - 1 + 1 : SubSeq(s, 1, m)[i] = s[1 + i - 1]
  BY <1>2, <1>4, SubSeqProperties
<1>6. Len(SubSeq(s, 1, m)) = m /\ \A i \in 1 .. m : SubSeq(s, 1, m)[i] = s[i]
  BY <1>2, <1>5
<1>7. ASSUME n > Len(s) PROVE First(s, n) = s
  <2>1. m = Len(s)
    BY <1>2, <1>7
  <2>2. QED BY <2>1, <1>3, <1>5, <1>6, SeqEqual
<1>8. QED BY <1>2, <1>3, <1>6, <1>7

\* A block enters the hot cache: it makes room for its block, or nothing is left
\* that may be taken out.
LEMMA PutHotOrderly ==
  ASSUME AInv, AInv', Calm, Orderly, NEW t \in Thread, PutHot(t)
  PROVE  Orderly'
<1> USE DEF AInv
<1>1. /\ pc[t] = "hotPut" /\ up /\ mode # "buffer" /\ cur[t] \in Entry
      /\ HotPut(t, cur[t], "idle")
      /\ UNCHANGED <<mode, up, closing, index, limit, pending, queue, disk, wpc, witem>>
  BY WorksUp DEF PutHot, Placed, PlacedAt, config, life, writer, counts
<1>2. ~ closing /\ IndexedAs(cur[t])
  BY <1>1 DEF Orderly, ThreadOrder, TodoAt, CursorAt, Chain
<1> DEFINE e == cur[t]
           rest == Without(hot, e.hash)
           n == IF Excess(rest) > 0 THEN Excess(rest) ELSE 0
           ev == Evictable(rest)
           victims == First(ev, n)
           gone == Hashes(victims)
           toWrite == Kept(victims, Unsaved)
           stay == Kept(rest, Of(Hash \ gone))
<1>3. /\ rest \in Seq(Entry) /\ OnePerBlock(rest) /\ ToSet(rest) = {x \in ToSet(hot) : x.hash # e.hash}
      /\ Hashes(rest) = Hashes(hot) \ {e.hash} /\ Len(rest) \in Nat
  BY WithoutBlock DEF Types
<1>4. n \in Nat /\ (n = 0 => Len(rest) + 1 <= limit) /\ (n # 0 => n = Len(rest) + 1 - limit)
      /\ limit \in Nat
  <2>1. limit \in Nat
    BY SSDAssumption DEF Types
  <2> HIDE DEF rest
  <2>2. n = IF Len(rest) + 1 - limit > 0 THEN Len(rest) + 1 - limit ELSE 0
    BY DEF Excess
  <2> HIDE DEF n
  <2>3. QED BY <1>3, <2>1, <2>2
<1>5. /\ hot' = Append(stay, e) /\ todo' = [todo EXCEPT ![t] = toWrite]
      /\ pc' = [pc EXCEPT ![t] = IF toWrite = <<>> THEN "idle" ELSE "enqueue"]
      /\ kept' = (kept \cup {e.hash}) \ (IF mode = "ram" THEN gone ELSE {})
  BY <1>1 DEF HotPut
<1> HIDE DEF rest, n, e
<1>6. /\ ev \in Seq(Entry) /\ OnePerBlock(ev) /\ ToSet(ev) \subseteq ToSet(rest)
      /\ ToSet(rest) \ Unsaved \subseteq ToSet(ev) /\ Len(ev) \in Nat /\ Len(ev) <= Len(rest)
  <2>1. ToSet(rest) \subseteq Entry
    BY <1>3, BlocksOf
  <2>2. QED BY <1>3, <2>1, KeptBlocks DEF Evictable
<1> HIDE DEF ev
<1>7. /\ victims \in Seq(Entry) /\ ToSet(victims) \subseteq ToSet(ev) /\ OnePerBlock(victims)
      /\ n <= Len(ev) => Len(victims) = n
      /\ n > Len(ev) => victims = ev
  BY <1>4, <1>6, OldestBlocks, FirstCounted
<1> HIDE DEF victims
<1>8. /\ gone = {x.hash : x \in ToSet(victims)} /\ gone \subseteq Hashes(rest) /\ gone \subseteq Hash
      /\ Hashes(rest) = {x.hash : x \in ToSet(rest)} /\ Hashes(rest) \subseteq Hash
      /\ Cardinality(gone) = Len(victims) /\ Cardinality(Hashes(rest)) = Len(rest)
  <2>1. gone = {x.hash : x \in ToSet(victims)} /\ gone \subseteq Hash
    BY <1>7, BlocksOf
  <2>2. Hashes(rest) = {x.hash : x \in ToSet(rest)} /\ Hashes(rest) \subseteq Hash
    BY <1>3, BlocksOf
  <2>3. Cardinality(gone) = Len(victims)
    BY <1>7, BlocksCounted
  <2>4. Cardinality(Hashes(rest)) = Len(rest)
    BY <1>3, BlocksCounted
  <2>5. \A x \in ToSet(victims) : x \in ToSet(rest)
    BY <1>6, <1>7
  <2> HIDE DEF gone
  <2>6. gone \subseteq Hashes(rest)
    BY <2>1, <2>2, <2>5
  <2>7. QED BY <2>1, <2>2, <2>3, <2>4, <2>6
<1>9. /\ toWrite \in Seq(Entry) /\ ToSet(toWrite) = ToSet(victims) \cap Unsaved /\ OnePerBlock(toWrite)
      /\ Hashes(toWrite) = {x.hash : x \in ToSet(toWrite)}
  BY <1>7, KeptBlocks, BlocksOf
<1> HIDE DEF gone
<1>10. /\ stay \in Seq(Entry) /\ OnePerBlock(stay) /\ ToSet(stay) = ToSet(rest) \cap Of(Hash \ gone)
       /\ Hashes(stay) = {x.hash : x \in ToSet(stay)}
  BY <1>3, KeptBlocks, BlocksOf
<1>11. Hashes(stay) = Hashes(rest) \ gone
  <2>1. \A x \in ToSet(rest) : x \in Of(Hash \ gone) <=> x.hash \notin gone
    <3>1. ToSet(rest) \subseteq Entry /\ \A x \in Entry : x.hash \in Hash
      BY <1>3, BlocksOf DEF Entry
    <3>2. QED BY <3>1 DEF Of
  <2>2. QED BY <1>8, <1>10, <2>1
<1> HIDE DEF toWrite, stay
<1>12. e \in Entry /\ e \notin ToSet(stay)
  BY <1>1, <1>3, <1>10 DEF e
<1>13. /\ hot' \in Seq(Entry) /\ ToSet(hot') = ToSet(stay) \cup {e} /\ OnePerBlock(hot')
       /\ Hashes(hot') = {x.hash : x \in ToSet(hot')}
  <2>1. hot' \in Seq(Entry) /\ OnePerBlock(hot')
    BY DEF Types
  <2>2. ToSet(hot') = ToSet(stay) \cup {e}
    <3>1. stay \in Seq(Entry)
      BY <1>10
    <3>2. e \in Entry
      BY <1>12
    <3>3. ToSet(Append(stay, e)) = ToSet(stay) \cup {e}
      BY <3>1, <3>2, AppendQueue
    <3>4. QED BY <1>5, <3>3
  <2>3. QED BY <2>1, <2>2, BlocksOf
<1>14. Hashes(hot') = (Hashes(rest) \ gone) \cup {e.hash}
  <2>1. \A h : h \in Hashes(hot') <=> h \in Hashes(stay) \/ h = e.hash
    BY <1>10, <1>13
  <2>2. QED BY <1>11, <2>1
<1>15. WithinLimit'
  <2>1. /\ Cardinality(Hashes(hot')) \in Nat /\ IsFiniteSet(Hashes(hot')) /\ IsFiniteSet(Hashes(rest))
        /\ IsFiniteSet(gone)
    BY <1>8, <1>13, BlocksOf, SSDAssumption, FS_Subset, FS_CardinalityType
  <2>2. Saved' \subseteq Hashes(hot')
    BY DEF Saved, Hashes
  <2>3. Cardinality(Saved') <= Cardinality(Hashes(hot')) /\ IsFiniteSet(Saved') /\ Cardinality(Saved') \in Nat
    BY <2>1, <2>2, FS_Subset, FS_CardinalityType
  <2>4. CASE n <= Len(ev)
    <3>1. Cardinality(Hashes(rest) \ gone) = Len(rest) - n
      <4>1. Hashes(rest) \cap gone = gone
        BY <1>8
      <4> DEFINE R == Hashes(rest)
      <4>2. IsFiniteSet(R) /\ R \cap gone = gone /\ Cardinality(R) = Len(rest)
        BY <1>8, <2>1, <4>1
      <4> HIDE DEF R
      <4>3. Cardinality(R \ gone) = Cardinality(R) - Cardinality(gone)
        <5>1. IsFiniteSet(R)
          BY <4>2
        <5>2. Cardinality(R \ gone) = Cardinality(R) - Cardinality(R \cap gone)
          BY <5>1, FS_Difference
        <5>3. QED BY <4>2, <5>2
      <4>4. Cardinality(R \ gone) = Len(rest) - n
        BY <1>7, <1>8, <2>4, <4>2, <4>3
      <4>5. QED BY <4>4 DEF R
    <3>2. Cardinality(Hashes(hot')) <= Len(rest) - n + 1
      <4>1. IsFiniteSet(Hashes(rest) \ gone)
        BY <2>1, FS_Difference
      <4> DEFINE S == Hashes(rest) \ gone
      <4> HIDE DEF S
      <4>2. Cardinality(S \cup {e.hash}) = IF e.hash \in S THEN Cardinality(S) ELSE Cardinality(S) + 1
        BY <4>1, FS_AddElement DEF S
      <4>3. Cardinality(S) = Len(rest) - n /\ Hashes(hot') = S \cup {e.hash}
        BY <1>14, <3>1 DEF S
      <4>4. QED BY <1>3, <1>4, <4>2, <4>3
    <3>3. Cardinality(Hashes(hot')) <= limit
      BY <1>3, <1>4, <2>1, <3>2
    <3>4. Cardinality(Saved') <= limit'
      BY <1>1, <1>4, <2>1, <2>3, <3>3
    <3>5. QED BY <3>4 DEF WithinLimit
  <2>5. CASE n > Len(ev)
    <3>1. victims = ev
      BY <1>7, <2>5
    <3>2. ASSUME NEW h \in Saved' PROVE h = e.hash
      <4>1. h \in Hashes(hot') /\ (mode = "ram" \/ h \in Hashes(index))
        BY <1>1, <3>2 DEF Saved, Hashes
      <4>2. CASE h \in Hashes(rest) \ gone
        <5>1. PICK x \in ToSet(rest) : x.hash = h
          BY <1>8, <4>2
        <5>2. x \notin ToSet(victims)
          BY <1>8, <4>2, <5>1
        <5>3. x \in Unsaved
          BY <1>6, <3>1, <5>1, <5>2
        <5>4. QED BY <4>1, <5>1, <5>3 DEF Unsaved, Of, CanWrite
      <4>3. QED BY <1>14, <4>1, <4>2
    <3>3. Saved' \subseteq {e.hash}
      BY <3>2
    <3>4. Cardinality(Saved') <= 1
      <4>1. IsFiniteSet({e.hash}) /\ Cardinality({e.hash}) = 1
        BY FS_Singleton
      <4>2. QED BY <3>3, <4>1, FS_Subset
    <3>5. QED BY <3>4 DEF WithinLimit
  <2>6. QED BY <1>4, <1>6, <2>4, <2>5
<1>16. \A x \in ToSet(toWrite) : x \in Unsaved /\ x.hash \in gone
  BY <1>8, <1>9
<1>17. \A x \in Unsaved : mode # "ram" /\ x.hash \notin Hashes(index)
  BY DEF Unsaved, CanWrite, Of
<1>18. toWrite # <<>> => mode = "hot"
  <2>1. toWrite # <<>> => ToSet(toWrite) # {}
    BY <1>9, NonEmptyQueue
  <2>2. toWrite # <<>> => mode # "ram"
    BY <1>16, <1>17, <2>1
  <2>3. QED BY <1>1, <2>2, SSDAssumption DEF Types
<1>19. /\ todo'[t] = toWrite /\ pc'[t] = (IF toWrite = <<>> THEN "idle" ELSE "enqueue")
       /\ \A u \in Thread : u # t => pc'[u] = pc[u] /\ todo'[u] = todo[u]
  BY <1>5 DEF Types
<1>20. Hashes(toWrite) \cap Hashes(index) = {}
  BY <1>9, <1>16, <1>17
<1>21. Hashes(toWrite) \cap Hashes(hot') = {}
  <2>1. e.hash \notin gone
    BY <1>3, <1>8
  <2>2. QED BY <1>9, <1>14, <1>16, <2>1
<1>22. \A x \in ToSet(hot') : x \in ToSet(hot) \/ IndexedAs(x)
  BY <1>2, <1>3, <1>10, <1>13 DEF e
<1>23. \A h \in kept' : h \in kept \cup Hashes(hot')
  BY <1>5, <1>14
<1>24. ASSUME NEW h \in kept', h \in Hashes(hot)
       PROVE  h \in Hashes(hot') \cup Hashes(toWrite) \cup Hashes(index)
  <2>1. CASE h \notin gone
    BY <1>3, <1>14, <1>24, <2>1
  <2>2. CASE h \in gone
    <3>1. mode # "ram" /\ h \in Hash
      BY <1>5, <1>8, <1>24, <2>2
    <3>2. PICK x \in ToSet(victims) : x.hash = h
      BY <1>8, <2>2
    <3>3. x \in Entry
      BY <1>7, BlocksOf
    <3>4. h \notin Hashes(index) => x \in Unsaved
      BY <3>1, <3>2, <3>3 DEF Unsaved, CanWrite, Of
    <3>5. QED BY <1>9, <3>2, <3>4
  <2>3. QED BY <2>1, <2>2
<1>25. QED BY <1>1, <1>2, <1>9, <1>15, <1>18, <1>19, <1>20, <1>21, <1>22, <1>23, <1>24, HotChanges

\* Memory pressure takes blocks out: saved ones go, unsaved ones are queued or dropped.
LEMMA ShedOrderly ==
  ASSUME AInv, AInv', Calm, Orderly, NEW t \in Thread, NEW n \in 1 .. HotMax, NEW drop \in BOOLEAN,
         Shed(t, n, drop)
  PROVE  Orderly'
<1> USE DEF AInv
<1> DEFINE clean == Kept(hot, Of(Hashes(index)))
           dirty == Kept(hot, Of(Hash \ Hashes(index)))
           usable == IF drop THEN dirty ELSE IF CanWrite THEN First(dirty, Room) ELSE <<>>
           gone == Hashes(First(clean \o usable, n))
           S == IF drop THEN <<>> ELSE Kept(dirty, Of(gone))
<1>1. /\ up /\ ~ closing /\ pc[t] = "idle" /\ AtRest /\ mode # "buffer"
      /\ hot' = Kept(hot, Of(Hash \ gone)) /\ limit' = (IF Len(hot') < limit THEN Len(hot') ELSE limit)
      /\ todo' = [todo EXCEPT ![t] = S]
      /\ pc' = [pc EXCEPT ![t] = IF S = <<>> THEN "idle" ELSE "enqueue"]
      /\ kept' = IF drop THEN kept \ (gone \cap Hashes(dirty)) ELSE kept
  BY DEF Shed, MayBegin, Begin, Calm
<1>2. UNCHANGED <<mode, up, closing, index, queue, disk, pending, wpc, witem>>
  BY DEF Shed, config, life, writer
<1>3. /\ dirty \in Seq(Entry) /\ OnePerBlock(dirty) /\ ToSet(dirty) = ToSet(hot) \cap Of(Hash \ Hashes(index))
  BY KeptBlocks DEF Types
<1>4. mode = "ram" /\ ~ drop => gone = {}
  <2>1. ASSUME mode = "ram", ~ drop PROVE gone = {}
    <3>1. gone = Hashes(First(clean \o <<>>, n)) /\ index = <<>>
      BY <2>1 DEF CanWrite, Orderly, RamOnly
    <3> DEFINE cl == clean
    <3>2. cl \in Seq(Entry) /\ ToSet(cl) \subseteq Of(Hashes(index))
      BY KeptBlocks DEF Types
    <3>3. Hashes(index) = {}
      BY <3>1, NoBlocks
    <3> HIDE DEF cl
    <3>4. cl \o <<>> = cl
      BY <3>2, ConcatEmptySeq
    <3>5. n \in Nat /\ gone = Hashes(First(cl, n))
      BY <3>1, <3>4 DEF cl
    <3>6. First(cl, n) \in Seq(Entry) /\ ToSet(First(cl, n)) \subseteq ToSet(cl)
      BY <3>2, <3>5, OldestBlocks
    <3> DEFINE f == First(cl, n)
    <3> HIDE DEF f
    <3>7. f \in Seq(Entry) /\ ToSet(f) = {}
      BY <3>2, <3>3, <3>6 DEF f, Of
    <3>8. Hashes(f) = {}
      BY <3>7, BlocksOf
    <3>9. QED BY <3>5, <3>8 DEF f
  <2>2. QED BY <2>1
<1> HIDE DEF gone, dirty
<1>5. S \in Seq(Entry) /\ OnePerBlock(S) /\ ToSet(S) = (IF drop THEN {} ELSE ToSet(dirty) \cap Of(gone))
  <2>1. CASE drop
    BY <2>1, NoBlocks, EmptyQueue
  <2>2. CASE ~ drop
    BY <1>3, <2>2, KeptBlocks
  <2>3. QED BY <2>1, <2>2
<1> HIDE DEF S
<1>6. /\ hot' \in Seq(Entry) /\ OnePerBlock(hot') /\ ToSet(hot') = ToSet(hot) \cap Of(Hash \ gone)
      /\ Len(hot') \in Nat /\ limit \in Nat
  <2>1. limit \in Nat
    BY SSDAssumption DEF Types
  <2>2. hot \in Seq(Entry) /\ OnePerBlock(hot)
    BY DEF Types
  <2>3. QED BY <1>1, <2>1, <2>2, KeptBlocks
<1>7. /\ Hashes(hot') = {x.hash : x \in ToSet(hot')} /\ Hashes(hot) = {x.hash : x \in ToSet(hot)}
      /\ Hashes(S) = {x.hash : x \in ToSet(S)} /\ Hashes(dirty) = {x.hash : x \in ToSet(dirty)}
      /\ Cardinality(Hashes(hot')) = Len(hot') /\ Hashes(hot') \subseteq Hash
      /\ ToSet(hot) \subseteq Entry /\ \A x \in Entry : x.hash \in Hash
  BY <1>3, <1>5, <1>6, BlocksOf, BlocksCounted DEF Types, Entry
<1>8. \A x \in ToSet(hot) : /\ x \in Of(Hash \ gone) <=> x.hash \notin gone
                            /\ x \in Of(gone) <=> x.hash \in gone
                            /\ x \in Of(Hash \ Hashes(index)) <=> x.hash \notin Hashes(index)
  BY <1>7 DEF Of
<1>9. WithinLimit'
  <2>1. CASE Len(hot') < limit
    <3>1. IsFiniteSet(Hashes(hot')) /\ Saved' \subseteq Hashes(hot')
      BY <1>7, SSDAssumption, FS_Subset DEF Saved, Hashes
    <3>2. Cardinality(Saved') <= Len(hot')
      BY <1>7, <3>1, FS_Subset
    <3>3. QED BY <1>1, <2>1, <3>2 DEF WithinLimit
  <2>2. CASE ~ (Len(hot') < limit)
    <3>1. Hashes(hot') \subseteq Hashes(hot)
      BY <1>6, <1>7
    <3>2. Saved' \subseteq Saved
      BY <1>2, <3>1 DEF Saved, Hashes
    <3>3. QED BY <1>1, <1>2, <2>2, <3>2, LimitStays
  <2>3. QED BY <2>1, <2>2
<1>10. /\ todo'[t] = S /\ pc'[t] = (IF S = <<>> THEN "idle" ELSE "enqueue")
       /\ \A u \in Thread : u # t => pc'[u] = pc[u] /\ todo'[u] = todo[u]
  BY <1>1 DEF Types
<1>11. S # <<>> => mode = "hot"
  <2>1. S # <<>> => ToSet(S) # {}
    BY <1>5, NonEmptyQueue
  <2>2. S # <<>> => ~ drop /\ gone # {}
    BY <1>5, <2>1 DEF Of
  <2>3. QED BY <1>1, <1>4, <2>2, SSDAssumption DEF Types
<1>12. Hashes(S) \cap Hashes(index) = {} /\ Hashes(S) \cap Hashes(hot') = {}
  <2>1. \A x \in ToSet(S) : x.hash \notin Hashes(index) /\ x.hash \in gone
    BY <1>3, <1>5, <1>8
  <2>2. \A x \in ToSet(hot') : x.hash \notin gone
    BY <1>6, <1>8
  <2>3. QED BY <1>7, <2>1, <2>2
<1>13. \A x \in ToSet(hot') : x \in ToSet(hot) \/ IndexedAs(x)
  BY <1>6
<1>14. \A h \in kept' : h \in kept \cup Hashes(hot')
  BY <1>1
<1>15. ASSUME NEW h \in kept', h \in Hashes(hot)
       PROVE  h \in Hashes(hot') \cup Hashes(S) \cup Hashes(index)
  <2>1. PICK x \in ToSet(hot) : x.hash = h
    BY <1>7, <1>15
  <2>2. CASE h \notin gone
    BY <1>6, <1>7, <1>8, <2>1, <2>2
  <2>3. CASE h \in gone /\ h \notin Hashes(index)
    <3>1. x \in ToSet(dirty)
      BY <1>3, <1>8, <2>1, <2>3
    <3>2. ~ drop
      BY <1>1, <1>7, <1>15, <2>1, <2>3, <3>1
    <3>3. x \in ToSet(S)
      BY <1>5, <1>8, <2>1, <2>3, <3>1, <3>2
    <3>4. QED BY <1>7, <2>1, <3>3
  <2>4. QED BY <2>2, <2>3
<1>16. QED BY <1>1, <1>2, <1>5, <1>9, <1>10, <1>11, <1>12, <1>13, <1>14, <1>15, HotChanges

\* What a thread has still to queue, once its first entry is dealt with.
LEMMA RestToQueue ==
  ASSUME AInv, AInv', Orderly, NEW t \in Thread, mode = "hot", mode' = mode, closing' = closing,
         todo[t] # <<>>, todo' = [todo EXCEPT ![t] = Tail(@)],
         \/ Len(todo[t]) > 1 /\ pc' = [pc EXCEPT ![t] = "enqueue"] /\ UNCHANGED <<cur, added>>
         \/ Len(todo[t]) = 1 /\ Done(t),
         closing \/ (pc[t] \in {"put", "owe"} /\ cur[t] = Head(todo[t])),
         ToSet(index') \subseteq ToSet(index),
         ToSet(hot') \subseteq ToSet(hot) \cup {Head(todo[t])},
         closing => Hashes(hot) \subseteq Hashes(hot')
  PROVE  /\ TodoAt(t)' /\ CursorAt(t)' /\ SaveAt(t)' /\ LoadAt(t)' /\ ~ Writes(t)'
         /\ pc'[t] \in {"idle", "enqueue"}
         /\ Ahead(t)' = Hashes(Tail(todo[t]))
         /\ Hashes(todo[t]) = Hashes(Tail(todo[t])) \cup {Head(todo[t]).hash}
         /\ \A u \in Thread : u # t => pc'[u] = pc[u] /\ todo'[u] = todo[u]
<1> DEFINE rest == Tail(todo[t])
           h == Head(todo[t])
<1>1. /\ todo'[t] = rest /\ \A u \in Thread : u # t => pc'[u] = pc[u] /\ todo'[u] = todo[u]
      /\ \/ rest # <<>> /\ pc'[t] = "enqueue"
         \/ pc'[t] = "idle"
  BY NextTodo DEF AInv, Types
<1>2. TodoAt(t) /\ todo[t] \in Seq(Entry)
  BY DEF Orderly, ThreadOrder, AInv, Types
<1>3. /\ rest \in Seq(Entry) /\ ToSet(todo[t]) = ToSet(rest) \cup {h}
      /\ Hashes(todo[t]) = Hashes(rest) \cup {h.hash}
      /\ OnePerBlock(rest) /\ h.hash \notin Hashes(rest)
      /\ rest = <<>> <=> Len(todo[t]) = 1
      /\ Hashes(rest) = {e.hash : e \in ToSet(rest)}
  BY <1>2, TailBlocks, BlocksOf DEF TodoAt
<1> HIDE DEF rest, h
<1>4. pc'[t] = "idle" => rest = <<>>
  <2>1. CASE Len(todo[t]) > 1 /\ pc' = [pc EXCEPT ![t] = "enqueue"]
    BY <2>1 DEF AInv, Types
  <2>2. CASE Len(todo[t]) = 1
    BY <1>3, <2>2
  <2>3. QED BY <2>1, <2>2
<1>5. Agree(rest, hot') /\ Agree(rest, index')
  BY <1>2, <1>3 DEF Agree, TodoAt, h
<1>6. /\ index' \in Seq(Entry) /\ hot' \in Seq(Entry) /\ index \in Seq(Entry) /\ hot \in Seq(Entry)
  BY DEF AInv, Types
<1>7. /\ Hashes(index') = {e.hash : e \in ToSet(index')} /\ Hashes(index) = {e.hash : e \in ToSet(index)}
      /\ Hashes(hot') = {e.hash : e \in ToSet(hot')} /\ Hashes(hot) = {e.hash : e \in ToSet(hot)}
  BY <1>6, BlocksOf
<1>8. ASSUME ~ closing PROVE Hashes(rest) \cap Hashes(hot') = {} /\ Hashes(rest) \cap Hashes(index') = {}
  <2>1. /\ Hashes(rest) \cap Hashes(hot) = {} /\ cur[t] = h
        /\ \A e \in ToSet(rest) : e.hash \in Hashes(index) => e = cur[t]
    BY <1>2, <1>3, <1>8 DEF TodoAt, h
  <2>2. \A g \in Hashes(hot') : g \in Hashes(hot) \/ g = h.hash
    BY <1>7 DEF h
  <2>3. Hashes(index') \subseteq Hashes(index)
    BY <1>7
  <2>4. \A e \in ToSet(rest) : e.hash \notin Hashes(index)
    BY <1>3, <2>1
  <2>5. QED BY <1>3, <2>1, <2>2, <2>3, <2>4
<1>9. closing => Hashes(rest) \subseteq Hashes(hot')
  BY <1>2, <1>3 DEF TodoAt
<1>10. TodoAt(t)'
  <2>1. (pc'[t] \notin Chain \/ mode' # "hot") => todo'[t] = <<>>
    BY <1>1, <1>4 DEF Chain
  <2>2. Agree(todo[t], hot)' /\ Agree(todo[t], index)' /\ OnePerBlock(todo[t])'
    BY <1>1, <1>3, <1>5 DEF Agree
  <2>3. Hashes(todo[t])' = Hashes(rest) /\ Hashes(hot)' = Hashes(hot') /\ Hashes(index)' = Hashes(index')
    BY <1>1 DEF Hashes
  <2>4. ~ closing' => \A e \in ToSet(todo[t])' : e.hash \notin Hashes(index)'
    BY <1>1, <1>3, <1>8, <2>3
  <2>5. pc'[t] \in {"idle", "enqueue"} /\ (closing' <=> closing)
    BY <1>1
  <2>6. pc'[t] \in {"idle", "enqueue"} => pc'[t] \in Chain \cup {"idle"}
    BY DEF Chain
  <2>7. QED BY <1>8, <1>9, <2>1, <2>2, <2>3, <2>4, <2>5, <2>6 DEF TodoAt
<1>11. CursorAt(t)' /\ SaveAt(t)' /\ LoadAt(t)' /\ ~ Writes(t)'
  BY <1>1 DEF CursorAt, SaveAt, LoadAt, Writes
<1>12. Ahead(t)' = Hashes(rest)
  BY <1>1 DEF Ahead, Hashes
<1>13. QED BY <1>1, <1>3, <1>10, <1>11, <1>12 DEF rest, h

\* close() takes a block for saved, or the bytes of a queued write are put down.
LEMMA EnqueueEndsOrderly ==
  ASSUME AInv, AInv', Calm, Calm', Orderly, NEW t \in Thread, EnqueueOwe(t) \/ FlushSkip(t)
  PROVE  Orderly'
<1> USE DEF AInv
<1>1. /\ pc[t] \in {"owe", "enqueue"} /\ up /\ mode = "hot" /\ todo[t] # <<>>
      /\ todo' = [todo EXCEPT ![t] = Tail(@)]
      /\ \/ Len(todo[t]) > 1 /\ pc' = [pc EXCEPT ![t] = "enqueue"] /\ UNCHANGED <<cur, added>>
         \/ Len(todo[t]) = 1 /\ Done(t)
      /\ UNCHANGED <<mode, up, closing, index, hot, limit, pending, queue, disk, wpc, witem, kept>>
      /\ \/ pc[t] = "owe"
         \/ closing /\ pc[t] = "enqueue" /\ Head(todo[t]).hash \in Hashes(index)
  <2>1. CASE EnqueueOwe(t)
    BY <2>1, WorksUp DEF EnqueueOwe, Placed, PlacedAt, config, life, writer, counts
  <2>2. CASE FlushSkip(t)
    <3>1. UNCHANGED pc /\ pc[t] = "enqueue" => pc' = [pc EXCEPT ![t] = "enqueue"]
      BY DEF Types
    <3>2. Head(todo[t]).hash \in Hashes(index)
      BY <2>2 DEF FlushSkip, Calm
    <3>3. QED
      BY <2>2, <3>1, <3>2, WorksUp DEF FlushSkip, Placed, PlacedAt, config, life, memory, writer, counts
  <2>3. QED BY <2>1, <2>2
<1>2. \A u \in Thread : u # t => pc[u] = "idle" /\ todo[u] = <<>>
  BY <1>1, OthersRest DEF Calm
<1>3. pc[t] = "owe" => cur[t] = Head(todo[t])
  BY <1>1 DEF Orderly, ThreadOrder, TodoAt
<1>4. /\ TodoAt(t)' /\ CursorAt(t)' /\ SaveAt(t)' /\ LoadAt(t)' /\ ~ Writes(t)'
      /\ pc'[t] \in {"idle", "enqueue"}
      /\ Ahead(t)' = Hashes(Tail(todo[t]))
      /\ Hashes(todo[t]) = Hashes(Tail(todo[t])) \cup {Head(todo[t]).hash}
      /\ \A u \in Thread : u # t => pc'[u] = pc[u] /\ todo'[u] = todo[u]
  <2>1. ToSet(index') \subseteq ToSet(index) /\ ToSet(hot') \subseteq ToSet(hot) \cup {Head(todo[t])}
        /\ Hashes(hot) \subseteq Hashes(hot')
    BY <1>1
  <2>2. closing \/ (pc[t] \in {"put", "owe"} /\ cur[t] = Head(todo[t]))
    BY <1>1, <1>3
  <2>3. QED BY <1>1, <2>1, <2>2, RestToQueue
<1>5. \A u \in Thread : ThreadOrder(u)'
  BY <1>2, <1>4, OneThread DEF ThreadOrder
<1>6. RamOnly' /\ IndexBacked' /\ FilesOwned' /\ FilesFirst' /\ OneFile' /\ InMemory'
  <2>1. ToSet(index') = ToSet(index) /\ Hashes(hot) \subseteq Hashes(hot')
    BY <1>1
  <2>2. pc[t] \notin {"unlink", "put", "buffer", "bufferPut", "discard", "deleteIndex", "deleteFile",
                       "wipe"}
    BY <1>1
  <2>3. \A u \in Thread : u # t => pc[u] = "idle" /\ pc'[u] = "idle"
    BY <1>2, <1>4
  <2>4. QED BY <1>1, <1>4, <2>1, <2>2, <2>3, MemoryStep
<1>7. HotAgrees' /\ KeptOnDisk'
  BY <1>1 DEF Orderly, HotAgrees, KeptOnDisk, Agree
<1>8. WithinLimit'
  <2>1. Saved' \subseteq Saved
    BY <1>1 DEF Saved, Hashes
  <2>2. QED BY <1>1, <2>1, LimitStays
<1>9. KeptSomewhere'
  <2> SUFFICES ASSUME NEW h \in kept' PROVE KeptAt(h)'
    BY DEF KeptSomewhere
  <2>1. \A u \in Thread : u # t => Ahead(u) = {}
    BY <1>2, NoBlocks DEF Ahead
  <2>2. KeptAt(h)
    BY <1>1 DEF Orderly, KeptSomewhere
  <2>3. h \in Ahead(t) => h \in Ahead(t)' \/ h \in Hashes(index)
    BY <1>1, <1>4 DEF Ahead
  <2>4. h \in Hashes(index) \/ (h \in Hashes(hot) /\ ~ (closing /\ mode = "hot")) \/ h \in Ahead(t)'
    BY <2>1, <2>2, <2>3 DEF KeptAt
  <2>5. QED BY <1>1, <2>4 DEF KeptAt, Hashes
<1>10. QED BY <1>5, <1>6, <1>7, <1>8, <1>9 DEF Orderly

\* The buffer a queued write is read from.
LEMMA SaveBuffersOrderly ==
  ASSUME AInv, AInv', Calm, Orderly, NEW t \in Thread, SaveBuffers(t)
  PROVE  Orderly'
<1> USE DEF AInv
<1>1. /\ pc[t] = "buffer" /\ up /\ mode = "buffer" /\ cur[t] \in Entry
      /\ hot' = Append(Without(hot, cur[t].hash), cur[t]) /\ pc' = [pc EXCEPT ![t] = "bufferPut"]
      /\ UNCHANGED <<mode, up, closing, index, limit, pending, queue, disk, wpc, witem, kept, cur, todo>>
  BY WorksUp DEF SaveBuffers, Placed, PlacedAt, config, life, writer, counts
<1>2. /\ pc'[t] = "bufferPut" /\ \A u \in Thread : u # t => pc'[u] = pc[u]
      /\ Hashes(hot') = Hashes(hot) \cup {cur[t].hash}
  BY <1>1, RenewedBlock DEF Types
<1>3. \A u \in Thread : u # t => pc[u] = "idle" /\ todo[u] = <<>>
  BY <1>1, OthersRest DEF Calm
<1>4. /\ todo[t] = <<>> /\ ~ closing /\ IndexedAs(cur[t]) /\ cur[t].hash \notin kept
  BY <1>1 DEF Orderly, ThreadOrder, TodoAt, CursorAt, SaveAt, Chain
<1>5. TodoAt(t)'
  BY <1>1, <1>2, <1>4, NothingToQueue DEF Chain
<1>6. CursorAt(t)' /\ SaveAt(t)' /\ LoadAt(t)'
  BY <1>1, <1>2, <1>4 DEF CursorAt, SaveAt, LoadAt, IndexedAs, Hashes
<1>7. \A u \in Thread : ThreadOrder(u)'
  BY <1>1, <1>2, <1>3, <1>5, <1>6, OneThread DEF ThreadOrder
<1>8. /\ RamOnly' /\ IndexBacked' /\ FilesOwned' /\ FilesFirst' /\ OneFile'
      /\ \A e \in ToSet(index') : OnDisk(e) => OnDisk(e)'
  <2>1. ToSet(index') \subseteq ToSet(index) /\ disk' \subseteq disk
    BY <1>1
  <2>2. \A e : (Whole(e) => Whole(e)') /\ (ComingBy(t, e) => ComingBy(t, e)')
    BY <1>1, <1>2 DEF Whole, ComingBy
  <2>3. \A f : ~ ThreadHas(t, f)
    BY <1>1 DEF ThreadHas
  <2>4. Writes(t) /\ cur'[t] = cur[t]
    BY <1>1 DEF Writes
  <2>5. \A u \in Thread : u # t => pc[u] = "idle" /\ pc'[u] = "idle"
    BY <1>2, <1>3
  <2>6. \A f \in WholeFiles' : NameOf(f) \in ToSet(index) \/ ThreadHas(t, f) =>
                                  NameOf(f) \in ToSet(index') \/ Going(f) \/ ThreadHas(t, f)'
    BY <1>1, <2>3
  <2>7. QED BY <1>1, <2>1, <2>2, <2>4, <2>5, <2>6, FilesStay
<1>9. InMemory'
  <2>1. ToSet(index') \subseteq ToSet(index)
    BY <1>1
  <2>2. \A e : Held(e) => Held(e)'
    BY <1>1, <1>2 DEF Held, Hashes
  <2>3. \A e : HeldBy(t, e) => Held(e)'
    BY <1>1, <1>2 DEF HeldBy, Held, Hashes
  <2>4. QED BY <1>3, <1>8, <2>1, <2>2, <2>3, MemoryStays
<1>10. HotAgrees' /\ WithinLimit' /\ KeptOnDisk'
  BY <1>1 DEF HotAgrees, WithinLimit, KeptOnDisk
<1>11. KeptSomewhere'
  <2> SUFFICES ASSUME NEW h \in kept' PROVE KeptAt(h)'
    BY DEF KeptSomewhere
  <2>1. \A u \in Thread : Ahead(u) = {}
    BY <1>1, <1>3, <1>4, NoBlocks DEF Ahead
  <2>2. h \in Hashes(index) \/ h \in Hashes(hot)
    BY <1>1, <2>1 DEF Orderly, KeptSomewhere, KeptAt
  <2>3. QED BY <1>1, <1>2, <1>4, <2>2 DEF KeptAt, Hashes
<1>12. QED BY <1>7, <1>8, <1>9, <1>10, <1>11 DEF Orderly

\* delete_block: the hot cache.
LEMMA DeleteHotOrderly ==
  ASSUME AInv, AInv', Calm, Orderly, NEW t \in Thread, DeleteHot(t)
  PROVE  Orderly'
<1> USE DEF AInv
<1>1. /\ pc[t] = "deleteHot" /\ up /\ hot' = Without(hot, Head(unlinks[t]).hash)
      /\ pc' = [pc EXCEPT ![t] = "deleteIndex"] /\ kept' = kept \ {Head(unlinks[t]).hash}
      /\ UNCHANGED <<mode, up, closing, index, limit, pending, queue, disk, wpc, witem, cur, todo, unlinks>>
  BY WorksUp DEF DeleteHot, config, life, writer, counts
<1> DEFINE g == Head(unlinks[t]).hash
<1>2. /\ pc'[t] = "deleteIndex" /\ \A u \in Thread : u # t => pc'[u] = pc[u]
      /\ Hashes(hot') = Hashes(hot) \ {g} /\ ToSet(hot') \subseteq ToSet(hot)
  <2>1. hot \in Seq(Entry)
    BY DEF Types
  <2>2. Hashes(hot') = Hashes(hot) \ {g} /\ ToSet(hot') \subseteq ToSet(hot)
    BY <1>1, <2>1, WithoutBlock
  <2>3. QED BY <1>1, <2>2 DEF Types
<1>3. \A u \in Thread : u # t => pc[u] = "idle" /\ todo[u] = <<>>
  BY <1>1, OthersRest DEF Calm
<1>4. /\ todo[t] = <<>> /\ ~ closing
      /\ OnePerBlock(unlinks[t]) /\ ToSet(index) \subseteq ToSet(unlinks[t])
  BY <1>1 DEF Orderly, ThreadOrder, TodoAt, CursorAt, Chain
<1>5. TodoAt(t)'
  BY <1>1, <1>2, <1>4, NothingToQueue DEF Chain
<1>6. CursorAt(t)' /\ SaveAt(t)' /\ LoadAt(t)' /\ ~ Writes(t)'
  BY <1>1, <1>2, <1>4 DEF CursorAt, SaveAt, LoadAt, Writes
<1>7. \A u \in Thread : ThreadOrder(u)'
  BY <1>1, <1>2, <1>3, <1>5, <1>6, OneThread DEF ThreadOrder
<1>8. /\ RamOnly' /\ IndexBacked' /\ FilesOwned' /\ FilesFirst' /\ OneFile'
      /\ \A e \in ToSet(index') : OnDisk(e) => OnDisk(e)'
  <2>1. ToSet(index') \subseteq ToSet(index) /\ disk' \subseteq disk
    BY <1>1
  <2>2. \A e : (Whole(e) => Whole(e)') /\ (ComingBy(t, e) => ComingBy(t, e)')
    BY <1>1, <1>2 DEF Whole, ComingBy
  <2>3. \A f : ~ ThreadHas(t, f)
    BY <1>1 DEF ThreadHas
  <2>5. \A u \in Thread : u # t => pc[u] = "idle" /\ pc'[u] = "idle"
    BY <1>2, <1>3
  <2>6. \A f \in WholeFiles' : NameOf(f) \in ToSet(index) \/ ThreadHas(t, f) =>
                                  NameOf(f) \in ToSet(index') \/ Going(f) \/ ThreadHas(t, f)'
    BY <1>1, <2>3
  <2>7. QED BY <1>1, <1>6, <2>1, <2>2, <2>5, <2>6, FilesStay
<1>9. InMemory'
  <2>1. ToSet(index') \subseteq ToSet(index)
    BY <1>1
  <2>2. \A e : Held(e) /\ e.hash # g => Held(e)'
    BY <1>1, <1>2 DEF Held, Hashes
  <2>3. \A e : ~ HeldBy(t, e) /\ (e.hash = g => HeldBy(t, e)')
    BY <1>1, <1>2 DEF HeldBy
  <2>4. QED BY <1>3, <1>8, <2>1, <2>2, <2>3, MemoryStays
<1>10. HotAgrees' /\ KeptOnDisk'
  BY <1>1, <1>2 DEF Orderly, HotAgrees, KeptOnDisk, Agree
<1>11. WithinLimit'
  <2>1. Saved' \subseteq Saved
    BY <1>1, <1>2 DEF Saved, Hashes
  <2>2. QED BY <1>1, <2>1, LimitStays
<1>12. KeptSomewhere'
  <2> SUFFICES ASSUME NEW h \in kept' PROVE KeptAt(h)'
    BY DEF KeptSomewhere
  <2>1. \A u \in Thread : Ahead(u) = {}
    BY <1>1, <1>3, <1>4, NoBlocks DEF Ahead
  <2>2. h # g /\ (h \in Hashes(index) \/ h \in Hashes(hot))
    BY <1>1, <2>1 DEF Orderly, KeptSomewhere, KeptAt
  <2>3. QED BY <1>1, <1>2, <1>4, <2>2 DEF KeptAt, Hashes
<1>13. QED BY <1>7, <1>8, <1>9, <1>10, <1>11, <1>12 DEF Orderly

\* close() begins: everything in the hot cache is to be queued.
LEMMA CloseBeginOrderly ==
  ASSUME AInv, AInv', Calm, Orderly, NEW t \in Thread, CloseBegin(t)
  PROVE  Orderly'
<1> USE DEF AInv
<1>1. /\ up /\ ~ closing /\ AtRest /\ closing' = TRUE
      /\ todo' = [todo EXCEPT ![t] = IF mode = "hot" THEN hot ELSE <<>>]
      /\ pc' = [pc EXCEPT ![t] = IF mode = "hot" /\ hot # <<>> THEN "enqueue" ELSE "idle"]
      /\ UNCHANGED <<mode, up, index, hot, limit, pending, queue, disk, wpc, witem, cur, kept>>
  BY DEF CloseBegin, config, memory, writer
<1>2. pc[t] = "idle"
  BY <1>1 DEF AtRest
<1>3. /\ pc'[t] = (IF mode = "hot" /\ hot # <<>> THEN "enqueue" ELSE "idle")
      /\ todo'[t] = (IF mode = "hot" THEN hot ELSE <<>>)
      /\ \A u \in Thread : u # t => pc'[u] = pc[u] /\ todo'[u] = todo[u]
  BY <1>1 DEF Types
<1>4. \A u \in Thread : u # t => pc[u] = "idle" /\ todo[u] = <<>>
  BY <1>1, OthersRest DEF Calm
<1>5. OnePerBlock(hot) /\ (mode = "hot" => Agree(hot, index))
  BY DEF Types, Orderly, HotAgrees
<1>6. TodoAt(t)'
  <2>1. CASE mode = "hot" /\ hot # <<>>
    <3>1. todo'[t] = hot /\ pc'[t] = "enqueue" /\ hot' = hot /\ index' = index /\ closing' /\ mode' = "hot"
      BY <1>1, <1>3, <2>1
    <3>2. Agree(hot, hot)
      BY <1>5 DEF Agree, OnePerBlock
    <3>3. Agree(todo[t], hot)' /\ Agree(todo[t], index)' /\ OnePerBlock(todo[t])'
      BY <1>5, <2>1, <3>1, <3>2 DEF Agree
    <3>4. Hashes(todo[t])' \subseteq Hashes(hot)'
      BY <3>1 DEF Hashes
    <3>5. QED BY <3>1, <3>3, <3>4 DEF TodoAt, Chain
  <2>2. CASE ~ (mode = "hot" /\ hot # <<>>)
    BY <1>1, <1>3, <2>2, NothingToQueue DEF Chain
  <2>3. QED BY <2>1, <2>2
<1>7. CursorAt(t)' /\ SaveAt(t)' /\ LoadAt(t)' /\ ~ Writes(t)'
  BY <1>3 DEF CursorAt, SaveAt, LoadAt, Writes
<1>8. \A u \in Thread : ThreadOrder(u)'
  BY <1>3, <1>4, <1>6, <1>7, OneThread DEF ThreadOrder
<1>9. RamOnly' /\ IndexBacked' /\ FilesOwned' /\ FilesFirst' /\ OneFile' /\ InMemory'
  <2>1. ToSet(index') = ToSet(index) /\ Hashes(hot) \subseteq Hashes(hot')
    BY <1>1
  <2>2. pc[t] \notin {"unlink", "put", "buffer", "bufferPut", "discard", "deleteIndex", "deleteFile",
                       "wipe"}
    BY <1>2
  <2>3. \A u \in Thread : u # t => pc[u] = "idle" /\ pc'[u] = "idle"
    BY <1>3, <1>4
  <2>4. QED BY <1>1, <1>7, <2>1, <2>2, <2>3, MemoryStep
<1>10. HotAgrees' /\ KeptOnDisk' /\ WithinLimit'
  BY <1>1 DEF Orderly, HotAgrees, KeptOnDisk, WithinLimit, Agree
<1>11. KeptSomewhere'
  <2> SUFFICES ASSUME NEW h \in kept' PROVE KeptAt(h)'
    BY DEF KeptSomewhere
  <2>1. todo[t] = <<>>
    BY <1>2 DEF Orderly, ThreadOrder, TodoAt, Chain
  <2>2. \A u \in Thread : Ahead(u) = {}
    BY <1>2, <1>4, <2>1, NoBlocks DEF Ahead
  <2>3. h \in Hashes(index) \/ h \in Hashes(hot)
    BY <1>1, <2>2 DEF Orderly, KeptSomewhere, KeptAt
  <2>4. mode = "hot" /\ h \in Hashes(hot) => h \in Ahead(t)'
    <3>1. mode = "hot" => todo'[t] = hot /\ pc'[t] # "owe"
      BY <1>3
    <3>2. QED BY <3>1 DEF Ahead, Hashes
  <2>5. QED BY <1>1, <2>3, <2>4 DEF KeptAt, Hashes
<1>12. QED BY <1>8, <1>9, <1>10, <1>11 DEF Orderly

\* A missing file: its block is out of the index already.
LEMMA LoadMissingOrderly ==
  ASSUME AInv, AInv', Calm, Orderly, NEW t \in Thread, LoadMissing(t)
  PROVE  Orderly'
<1> USE DEF AInv
<1>1. /\ pc[t] = "missing" /\ up /\ index' = Without(index, cur[t].hash)
      /\ pc' = [pc EXCEPT ![t] = "idle"]
      /\ UNCHANGED <<mode, up, closing, hot, limit, pending, queue, disk, wpc, witem, todo, kept>>
  BY WorksUp DEF LoadMissing, Done, config, life, writer, counts
<1>2. pc'[t] = "idle" /\ \A u \in Thread : u # t => pc'[u] = pc[u]
  BY <1>1 DEF Types
<1>3. ToSet(index') = ToSet(index)
  <2>1. cur[t].hash \notin Hashes(index)
    BY <1>1 DEF Orderly, ThreadOrder, CursorAt
  <2>2. index \in Seq(Entry) /\ Hashes(index) = {e.hash : e \in ToSet(index)}
    BY BlocksOf DEF Types
  <2>3. ToSet(index') = {e \in ToSet(index) : e.hash # cur[t].hash}
    BY <1>1, <2>2, WithoutBlock
  <2>4. QED BY <2>1, <2>2, <2>3
<1>4. CursorAt(t)' /\ SaveAt(t)' /\ LoadAt(t)' /\ ~ Writes(t)'
  BY <1>2 DEF CursorAt, SaveAt, LoadAt, Writes
<1>5. pc[t] \notin Chain /\ pc'[t] \notin Chain
  BY <1>1, <1>2 DEF Chain
<1>6. QED BY <1>1, <1>2, <1>3, <1>4, <1>5, OnlyCursor

\* A step that only takes entries out of the index, of a thread with nothing to
\* queue.
LEMMA IndexShrinks ==
  ASSUME AInv, AInv', Calm, Orderly, NEW t \in Thread, pc[t] # "idle", up, ~ closing, closing' = closing,
         pc[t] \notin Chain, pc'[t] \notin Chain \/ (pc'[t] = "unlink" /\ mode # "hot"),
         todo' = todo, \A u \in Thread : u # t => pc'[u] = pc[u],
         UNCHANGED <<mode, up, limit, pending, queue, disk, wpc, witem>>,
         ToSet(index') \subseteq ToSet(index), ToSet(hot') \subseteq ToSet(hot),
         \A e \in ToSet(index') : ~ ComingBy(t, e) /\ ~ HeldBy(t, e),
         \A e \in ToSet(index') : e.hash \in Hashes(hot) => e.hash \in Hashes(hot'),
         \A f \in WholeFiles : NameOf(f) \in ToSet(index) \/ ThreadHas(t, f) =>
                                 NameOf(f) \in ToSet(index') \/ Going(f) \/ ThreadHas(t, f)',
         CursorAt(t)', SaveAt(t)', LoadAt(t)', ~ Writes(t)',
         \A h \in kept' : /\ h \in kept
                          /\ h \in Hashes(index) => h \in Hashes(index') \/ h \in Hashes(hot')
                          /\ h \in Hashes(hot) => h \in Hashes(hot')
  PROVE  Orderly'
<1>1. \A u \in Thread : u # t => pc[u] = "idle" /\ todo[u] = <<>> /\ pc'[u] = "idle" /\ todo'[u] = <<>>
  BY OthersRest DEF Calm
<1>2. Types /\ Types'
  BY DEF AInv
<1>3. todo[t] = <<>>
  BY DEF Orderly, ThreadOrder, TodoAt
<1>4. TodoAt(t)'
  BY <1>3, NothingToQueue
<1>5. \A u \in Thread : ThreadOrder(u)'
  BY <1>1, <1>4, OneThread DEF ThreadOrder
<1>6. /\ RamOnly' /\ IndexBacked' /\ FilesOwned' /\ FilesFirst' /\ OneFile'
      /\ \A e \in ToSet(index') : OnDisk(e) => OnDisk(e)'
  <2>1. \A e : Whole(e) => Whole(e)'
    BY DEF Whole
  <2>2. WholeFiles' = WholeFiles
    BY DEF WholeFiles
  <2>3. QED BY <1>1, <1>2, <2>1, <2>2, FilesStay
<1>7. InMemory'
  <2>1. \A e \in ToSet(index') : Held(e) => Held(e)'
    BY DEF Held, Hashes
  <2>2. QED BY <1>1, <1>6, <2>1, MemoryStays
<1>8. HotAgrees' /\ KeptOnDisk'
  BY DEF Orderly, HotAgrees, KeptOnDisk, Agree
<1>9. Hashes(hot') \subseteq Hashes(hot) /\ Hashes(index') \subseteq Hashes(index)
  <2>1. /\ Hashes(hot) = {e.hash : e \in ToSet(hot)} /\ Hashes(hot') = {e.hash : e \in ToSet(hot')}
        /\ Hashes(index) = {e.hash : e \in ToSet(index)} /\ Hashes(index') = {e.hash : e \in ToSet(index')}
    BY <1>2, BlocksOf DEF Types
  <2>2. QED BY <2>1
<1>10. WithinLimit'
  <2>1. Saved' \subseteq Saved
    BY <1>9 DEF Saved, Hashes
  <2>2. QED BY <1>2, <2>1, LimitStays
<1>11. KeptSomewhere'
  <2> SUFFICES ASSUME NEW h \in kept' PROVE KeptAt(h)'
    BY DEF KeptSomewhere
  <2>1. \A u \in Thread : Ahead(u) = {}
    BY <1>1, <1>3, NoBlocks DEF Ahead, Chain
  <2>2. h \in Hashes(index) \/ h \in Hashes(hot)
    BY <2>1 DEF Orderly, KeptSomewhere, KeptAt
  <2>3. QED BY <2>2 DEF KeptAt, Hashes
<1>12. QED BY <1>5, <1>6, <1>7, <1>8, <1>10, <1>11 DEF Orderly

\* A read that fails takes its block out of the index; the file is to go.
LEMMA LoadFailsOrderly ==
  ASSUME AInv, AInv', Calm, Orderly, NEW t \in Thread, LoadFails(t)
  PROVE  Orderly'
<1> USE DEF AInv
<1> DEFINE h == cur[t].hash
<1>1. /\ pc[t] = "read" /\ up /\ index' = Without(index, h)
      /\ pc' = [pc EXCEPT ![t] = "discard"]
      /\ UNCHANGED <<mode, up, closing, hot, limit, pending, queue, disk, wpc, witem, todo, cur>>
      /\ \/ ~ FileAt(cur[t].hash, cur[t].path) /\ kept' = kept
         \/ /\ \E f \in disk : f.hash = cur[t].hash /\ f.path = cur[t].path /\ ~ f.whole
            /\ kept' = kept
         \/ kept' = kept \ {cur[t].hash}
  BY WorksUp DEF LoadFails, config, life, writer, counts
<1>2. pc'[t] = "discard" /\ \A u \in Thread : u # t => pc'[u] = pc[u]
  BY <1>1 DEF Types
<1>3. /\ index \in Seq(Entry) /\ Hashes(index) = {e.hash : e \in ToSet(index)}
      /\ ToSet(index') = {e \in ToSet(index) : e.hash # h} /\ Hashes(index') = Hashes(index) \ {h}
  <2>1. index \in Seq(Entry)
    BY DEF Types
  <2>2. QED BY <1>1, <2>1, WithoutBlock, BlocksOf
<1>4. ~ closing /\ IndexedAs(cur[t]) /\ \A e \in ToSet(index) : e.hash = h => OnDisk(e)
  BY <1>1 DEF Orderly, ThreadOrder, TodoAt, CursorAt, LoadAt, Chain
<1>5. \A g \in kept' : g \in kept /\ (g \in Hashes(index) => g \in Hashes(index'))
  <2>1. ASSUME h \in Hashes(index), kept' = kept,
               \/ ~ FileAt(cur[t].hash, cur[t].path)
               \/ \E f \in disk : f.hash = cur[t].hash /\ f.path = cur[t].path /\ ~ f.whole
        PROVE  FALSE
    <3>1. Whole(cur[t])
      BY <1>3, <1>4, <2>1 DEF IndexedAs, OnDisk
    <3>2. FileAt(cur[t].hash, cur[t].path)
      BY <3>1 DEF Whole, FileAt
    <3>3. PICK f \in disk : f.hash = cur[t].hash /\ f.path = cur[t].path /\ ~ f.whole
      BY <2>1, <3>2
    <3>4. f = [hash |-> cur[t].hash, path |-> cur[t].path, whole |-> TRUE]
      BY <3>1, <3>3 DEF Whole, Orderly, OneFile
    <3>5. QED BY <3>3, <3>4
  <2>2. QED BY <1>1, <1>3, <2>1
<1>6. CursorAt(t)' /\ SaveAt(t)' /\ LoadAt(t)' /\ ~ Writes(t)'
  <2>1. cur'[t].hash \notin Hashes(index')
    BY <1>1, <1>3
  <2>2. QED BY <1>2, <2>1 DEF CursorAt, SaveAt, LoadAt, Writes, Hashes
<1>7. \A f \in WholeFiles : NameOf(f) \in ToSet(index) \/ ThreadHas(t, f) =>
                              NameOf(f) \in ToSet(index') \/ Going(f) \/ ThreadHas(t, f)'
  <2>1. \A f : ~ ThreadHas(t, f)
    BY <1>1 DEF ThreadHas
  <2>2. \A f : NameOf(f) \in ToSet(index) => NameOf(f) \in ToSet(index') \/ cur[t] = NameOf(f)
    BY <1>3, <1>4 DEF IndexedAs
  <2>3. \A f : cur[t] = NameOf(f) => ThreadHas(t, f)'
    BY <1>1, <1>2 DEF ThreadHas, NameOf
  <2>4. QED BY <2>1, <2>2, <2>3
<1>8. \A e : ~ ComingBy(t, e) /\ ~ HeldBy(t, e)
  BY <1>1 DEF ComingBy, HeldBy
<1>9. pc[t] \notin Chain /\ pc'[t] \notin Chain
  BY <1>1, <1>2 DEF Chain
<1> HIDE DEF h
<1>10. QED BY <1>1, <1>2, <1>3, <1>4, <1>5, <1>6, <1>7, <1>8, <1>9, IndexShrinks

\* delete_block: the index.
LEMMA DeleteIndexOrderly ==
  ASSUME AInv, AInv', Calm, Orderly, NEW t \in Thread, DeleteIndex(t)
  PROVE  Orderly'
<1> USE DEF AInv
<1> DEFINE x == Head(unlinks[t])
           h == Head(unlinks[t]).hash
           rest == Tail(unlinks[t])
<1>1. /\ pc[t] = "deleteIndex" /\ up /\ index' = Without(index, h) /\ kept' = kept \ {h}
      /\ unlinks[t] # <<>>
      /\ UNCHANGED <<mode, up, closing, hot, limit, pending, queue, disk, wpc, witem, todo, cur>>
      /\ \/ pc' = [pc EXCEPT ![t] = "deleteFile"] /\ unlinks' = unlinks
         \/ h \notin Hashes(index) /\ Deleted(t)
  BY WorksUp DEF DeleteIndex, Placed, PlacedAt, config, life, writer, counts
<1>2. /\ index \in Seq(Entry) /\ Hashes(index) = {e.hash : e \in ToSet(index)}
      /\ ToSet(index') = {e \in ToSet(index) : e.hash # h} /\ Hashes(index') = Hashes(index) \ {h}
  <2>1. index \in Seq(Entry)
    BY DEF Types
  <2>2. QED BY <1>1, <2>1, WithoutBlock, BlocksOf
<1>3. /\ ~ closing /\ OnePerBlock(unlinks[t]) /\ ToSet(index) \subseteq ToSet(unlinks[t])
  BY <1>1 DEF Orderly, ThreadOrder, TodoAt, CursorAt, Chain
<1>4. /\ rest \in Seq(Entry) /\ x \in Entry /\ OnePerBlock(rest)
      /\ ToSet(unlinks[t]) = ToSet(rest) \cup {x} /\ (rest = <<>> <=> Len(unlinks[t]) = 1)
  BY <1>1, <1>3, TailBlocks DEF Types
<1> HIDE DEF x, h, rest
<1>5. x.hash = h /\ x \notin ToSet(index')
  BY <1>2 DEF x, h
<1>6. /\ \A u \in Thread : u # t => pc'[u] = pc[u]
      /\ \/ pc'[t] = "deleteFile" /\ unlinks'[t] = unlinks[t]
         \/ /\ h \notin Hashes(index) /\ unlinks'[t] = rest
            /\ pc'[t] = "deleteHot" \/ (pc'[t] = "wipe" /\ rest = <<>>)
  <2>1. CASE pc' = [pc EXCEPT ![t] = "deleteFile"] /\ unlinks' = unlinks
    BY <2>1 DEF Types
  <2>2. CASE h \notin Hashes(index) /\ Deleted(t)
    <3>1. unlinks' = [unlinks EXCEPT ![t] = rest] /\ unlinks \in [Thread -> Seq(Entry)]
      BY <2>2 DEF Deleted, rest, Types
    <3>2. pc' = [pc EXCEPT ![t] = IF rest = <<>> THEN "wipe" ELSE "deleteHot"] /\ pc \in [Thread -> Steps]
      BY <1>4, <2>2 DEF Deleted, Types
    <3>3. QED BY <2>2, <3>1, <3>2
  <2>3. QED BY <1>1, <2>1, <2>2
<1>7. CursorAt(t)'
  <2>1. CASE pc'[t] = "deleteFile" /\ unlinks'[t] = unlinks[t]
    <3>1. /\ OnePerBlock(unlinks[t])' /\ ToSet(index)' \subseteq ToSet(unlinks[t])'
          /\ Head(unlinks'[t]).hash \notin Hashes(index')
      BY <1>2, <1>3, <2>1 DEF OnePerBlock, h
    <3>2. QED BY <2>1, <3>1 DEF CursorAt, Hashes
  <2>2. CASE h \notin Hashes(index) /\ unlinks'[t] = rest /\ pc'[t] = "deleteHot"
    <3>1. OnePerBlock(unlinks[t])' /\ ToSet(index)' \subseteq ToSet(unlinks[t])'
      BY <1>2, <1>3, <1>4, <1>5, <2>2 DEF OnePerBlock
    <3>2. QED BY <2>2, <3>1 DEF CursorAt
  <2>3. CASE h \notin Hashes(index) /\ pc'[t] = "wipe" /\ rest = <<>>
    <3>1. ToSet(index') = {}
      BY <1>2, <1>3, <1>4, <1>5, <2>3, EmptyQueue
    <3>2. index' = <<>>
      BY <3>1, NonEmptyQueue DEF Types
    <3>3. QED BY <2>3, <3>2 DEF CursorAt
  <2>4. QED BY <1>6, <2>1, <2>2, <2>3
<1>8. SaveAt(t)' /\ LoadAt(t)' /\ ~ Writes(t)'
  BY <1>6 DEF SaveAt, LoadAt, Writes
<1>9. \A f \in WholeFiles : NameOf(f) \in ToSet(index) \/ ThreadHas(t, f) =>
                              NameOf(f) \in ToSet(index') \/ Going(f) \/ ThreadHas(t, f)'
  <2>1. \A f : ~ ThreadHas(t, f)
    BY <1>1 DEF ThreadHas
  <2>2. \A f : NameOf(f) \in ToSet(index) => NameOf(f) \in ToSet(index') \/ (x = NameOf(f) /\ h \in Hashes(index))
    BY <1>2, <1>3, <1>4, <1>5 DEF OnePerBlock
  <2>3. \A f : x = NameOf(f) /\ h \in Hashes(index) => ThreadHas(t, f)'
    BY <1>6 DEF ThreadHas, NameOf, x
  <2>4. QED BY <2>1, <2>2, <2>3
<1>10. \A e \in ToSet(index') : ~ ComingBy(t, e) /\ ~ HeldBy(t, e)
  BY <1>1, <1>2 DEF ComingBy, HeldBy, h
<1>11. \A g \in kept' : g \in kept /\ (g \in Hashes(index) => g \in Hashes(index'))
  BY <1>1, <1>2
<1>12. pc[t] \notin Chain /\ pc'[t] \notin Chain
  BY <1>1, <1>6 DEF Chain
<1>13. ToSet(hot') \subseteq ToSet(hot) /\ ToSet(index') \subseteq ToSet(index) /\ pc[t] # "idle"
  BY <1>1, <1>2
<1>14. QED
  BY <1>1, <1>3, <1>6, <1>7, <1>8, <1>9, <1>10, <1>11, <1>12, <1>13, IndexShrinks

\* The write-through save makes room in the index.
LEMMA SaveMakesRoomOrderly ==
  ASSUME AInv, AInv', Calm, Orderly, NEW t \in Thread, SaveMakesRoom(t)
  PROVE  Orderly'
<1> USE DEF AInv
<1> DEFINE gone == First(index, Over)
           rest == From(index, Over + 1)
<1>1. /\ pc[t] = "inHot" /\ up /\ mode = "buffer" /\ index' = rest /\ cur[t].hash \notin Hashes(hot)
      /\ unlinks' = [unlinks EXCEPT ![t] = gone] /\ kept' = kept \ Hashes(gone)
      /\ pc' = [pc EXCEPT ![t] = "unlink"]
      /\ UNCHANGED <<mode, up, closing, hot, limit, pending, queue, disk, wpc, witem, todo, cur>>
  BY WorksUp DEF SaveMakesRoom, Evicting, Losing, config, life, writer, counts
<1>2. /\ gone \in Seq(Entry) /\ rest \in Seq(Entry) /\ ToSet(index) = ToSet(gone) \cup ToSet(rest)
      /\ Hashes(gone) \cap Hashes(rest) = {} /\ Hashes(index) = Hashes(gone) \cup Hashes(rest)
  BY EvictedIndex DEF Types
<1> HIDE DEF gone, rest
<1>3. /\ pc'[t] = "unlink" /\ unlinks'[t] = gone /\ \A u \in Thread : u # t => pc'[u] = pc[u]
  BY <1>1 DEF Types
<1>4. /\ ~ closing /\ todo[t] = <<>> /\ cur[t].hash \notin Hashes(index)
  BY <1>1 DEF Orderly, ThreadOrder, TodoAt, CursorAt, Chain
<1>5. cur[t].hash \notin kept
  <2>1. \A u \in Thread : u # t => todo[u] = <<>>
    BY <1>1, OthersRest DEF Calm
  <2>2. \A u \in Thread : Ahead(u) = {}
    BY <1>1, <1>4, <2>1, NoBlocks, OthersRest DEF Ahead, Calm
  <2>3. QED BY <1>1, <1>4, <2>2 DEF Orderly, KeptSomewhere, KeptAt
<1>6. CursorAt(t)' /\ SaveAt(t)' /\ LoadAt(t)' /\ ~ Writes(t)'
  <2>1. /\ cur'[t].hash \notin Hashes(index)' /\ Hashes(unlinks[t])' \cap Hashes(index)' = {}
        /\ cur'[t].hash \notin kept'
    <3>1. cur'[t] = cur[t] /\ index' = rest /\ unlinks'[t] = gone
      BY <1>1, <1>3
    <3>2. Hashes(index)' = Hashes(rest) /\ Hashes(unlinks[t])' = Hashes(gone)
      BY <3>1 DEF Hashes
    <3>3. cur[t].hash \notin Hashes(rest)
      BY <1>2, <1>4
    <3>4. QED BY <1>1, <1>2, <1>5, <3>1, <3>2, <3>3
  <2>2. QED BY <1>1, <1>3, <2>1 DEF CursorAt, SaveAt, LoadAt, Writes
<1>7. \A f \in WholeFiles : NameOf(f) \in ToSet(index) \/ ThreadHas(t, f) =>
                              NameOf(f) \in ToSet(index') \/ Going(f) \/ ThreadHas(t, f)'
  <2>1. \A f : ~ ThreadHas(t, f)
    BY <1>1 DEF ThreadHas
  <2>2. \A f : NameOf(f) \in ToSet(gone) => ThreadHas(t, f)'
    BY <1>3 DEF ThreadHas, NameOf
  <2>3. QED BY <1>1, <1>2, <2>1, <2>2
<1>8. \A e : ~ ComingBy(t, e) /\ ~ HeldBy(t, e)
  BY <1>1 DEF ComingBy, HeldBy
<1>9. \A g \in kept' : g \in kept /\ (g \in Hashes(index) => g \in Hashes(index'))
  BY <1>1, <1>2
<1>10. pc[t] \notin Chain /\ (pc'[t] \notin Chain \/ (pc'[t] = "unlink" /\ mode # "hot"))
  BY <1>1, <1>3 DEF Chain
<1>11. ToSet(hot') \subseteq ToSet(hot) /\ ToSet(index') \subseteq ToSet(index) /\ pc[t] # "idle"
  BY <1>1, <1>2
<1>12. QED
  BY <1>1, <1>3, <1>4, <1>6, <1>7, <1>8, <1>9, <1>10, <1>11, IndexShrinks

\* The write-through save finds the queue full: its entry and its buffer go.
LEMMA SaveUndoneOrderly ==
  ASSUME AInv, AInv', Calm, Orderly, NEW t \in Thread, SaveQueues(t), Room = 0
  PROVE  Orderly'
<1> USE DEF AInv
<1> DEFINE h == cur[t].hash
<1>1. /\ pc[t] = "bufferPut" /\ up /\ mode = "buffer"
      /\ index' = Without(index, h) /\ hot' = Without(hot, h) /\ pc' = [pc EXCEPT ![t] = "idle"]
      /\ UNCHANGED <<mode, up, closing, limit, pending, queue, disk, wpc, witem, todo, kept>>
  BY WorksUp DEF SaveQueues, Done, Placed, PlacedAt, config, life, writer, counts
<1>2. /\ index \in Seq(Entry) /\ hot \in Seq(Entry)
  BY DEF Types
<1>3. /\ ToSet(index') = {e \in ToSet(index) : e.hash # h} /\ Hashes(index') = Hashes(index) \ {h}
      /\ ToSet(hot') = {e \in ToSet(hot) : e.hash # h} /\ Hashes(hot') = Hashes(hot) \ {h}
  BY <1>1, <1>2, WithoutBlock
<1>4. /\ pc'[t] = "idle" /\ \A u \in Thread : u # t => pc'[u] = pc[u]
  BY <1>1 DEF Types
<1>5. /\ ~ closing /\ h \notin kept
  BY <1>1 DEF Orderly, ThreadOrder, TodoAt, SaveAt, Chain
<1>6. CursorAt(t)' /\ SaveAt(t)' /\ LoadAt(t)' /\ ~ Writes(t)'
  BY <1>4 DEF CursorAt, SaveAt, LoadAt, Writes
<1>7. \A f \in WholeFiles : NameOf(f) \in ToSet(index) \/ ThreadHas(t, f) =>
                              NameOf(f) \in ToSet(index') \/ Going(f) \/ ThreadHas(t, f)'
  <2>1. \A f : ~ ThreadHas(t, f)
    BY <1>1 DEF ThreadHas
  <2>2. \A f \in WholeFiles : f.hash = h => Going(f)
    BY <1>1 DEF Orderly, FilesFirst, Writes
  <2>3. QED BY <1>3, <2>1, <2>2 DEF NameOf
<1>8. \A e \in ToSet(index') : ~ ComingBy(t, e) /\ ~ HeldBy(t, e)
  BY <1>1, <1>3 DEF ComingBy, HeldBy
<1>9. \A g \in kept' : /\ g \in kept /\ (g \in Hashes(index) => g \in Hashes(index'))
                       /\ g \in Hashes(hot) => g \in Hashes(hot')
  BY <1>1, <1>3, <1>5
<1>10. pc[t] \notin Chain /\ pc'[t] \notin Chain /\ pc[t] # "idle"
  BY <1>1, <1>4 DEF Chain
<1>11. /\ ToSet(hot') \subseteq ToSet(hot) /\ ToSet(index') \subseteq ToSet(index)
       /\ \A e \in ToSet(index') : e.hash \in Hashes(hot) => e.hash \in Hashes(hot')
  BY <1>3
<1> HIDE DEF h
<1>12. QED
  BY <1>1, <1>4, <1>5, <1>6, <1>7, <1>8, <1>9, <1>10, <1>11, IndexShrinks

\* A step of a thread whose block is on its way into the index, or out of it:
\* what is left to show of the other parts.
LEMMA EnqueueSteps ==
  ASSUME AInv, AInv', Calm, Orderly, NEW t \in Thread, pc[t] \in {"enqueue", "put"}, up,
         \A u \in Thread : u # t => pc'[u] = pc[u] /\ todo'[u] = todo[u],
         UNCHANGED <<mode, up, closing, limit, queue, disk, wpc, witem>>,
         ToSet(index') \subseteq ToSet(index),
         \A h \in Hashes(hot') : h \in Hashes(hot) \/ (mode = "hot" /\ (closing \/ h \notin Hashes(index'))),
         mode = "hot" => Agree(hot', index'),
         \A e \in ToSet(index') : ~ ComingBy(t, e),
         \A e \in ToSet(index') : Held(e) => Held(e)',
         \A f \in WholeFiles : NameOf(f) \in ToSet(index) =>
                                 NameOf(f) \in ToSet(index') \/ Going(f) \/ ThreadHas(t, f)',
         Writes(t)' => \A f \in WholeFiles : f.hash = cur'[t].hash => Going(f),
         TodoAt(t)', CursorAt(t)', SaveAt(t)', LoadAt(t)',
         \A h \in kept' : h \in kept /\ (KeptAt(h) => KeptAt(h)')
  PROVE  Orderly'
<1>1. \A u \in Thread : u # t => pc[u] = "idle" /\ todo[u] = <<>> /\ pc'[u] = "idle" /\ todo'[u] = <<>>
  BY OthersRest DEF Calm
<1>2. Types /\ Types'
  BY DEF AInv
<1>3. \A u \in Thread : ThreadOrder(u)'
  BY <1>1, OneThread DEF ThreadOrder
<1>4. (\A f : ~ ThreadHas(t, f)) /\ \A e : ~ HeldBy(t, e)
  BY DEF ThreadHas, HeldBy
<1>5. /\ RamOnly' /\ IndexBacked' /\ FilesOwned' /\ FilesFirst' /\ OneFile'
      /\ \A e \in ToSet(index') : OnDisk(e) => OnDisk(e)'
  <2>1. \A e : Whole(e) => Whole(e)'
    BY DEF Whole
  <2>2. WholeFiles' = WholeFiles
    BY DEF WholeFiles
  <2>3. QED BY <1>1, <1>2, <1>4, <2>1, <2>2, FilesStay
<1>6. InMemory'
  BY <1>1, <1>4, <1>5, MemoryStays
<1>7. HotAgrees' /\ KeptOnDisk'
  BY DEF HotAgrees, KeptOnDisk, Agree
<1>8. WithinLimit'
  <2>1. CASE closing \/ mode = "buffer"
    BY <2>1 DEF WithinLimit
  <2>2. CASE ~ closing /\ mode # "buffer"
    <3>1. Hashes(index') \subseteq Hashes(index)
      <4>1. /\ Hashes(index) = {e.hash : e \in ToSet(index)}
            /\ Hashes(index') = {e.hash : e \in ToSet(index')}
        BY <1>2, BlocksOf DEF Types
      <4>2. QED BY <4>1
    <3>2. Saved' \subseteq Saved
      BY <2>2, <3>1 DEF Saved, Hashes
    <3>3. QED BY <1>2, <3>2, LimitStays
  <2>3. QED BY <2>1, <2>2
<1>9. KeptSomewhere'
  BY DEF Orderly, KeptSomewhere
<1>10. QED BY <1>3, <1>5, <1>6, <1>7, <1>8, <1>9 DEF Orderly

\* A write the full queue refuses: the entry made for it is undone, its block kept.
LEMMA EnqueueFullOrderly ==
  ASSUME AInv, AInv', Calm, Orderly, NEW t \in Thread, EnqueueFull(t)
  PROVE  Orderly'
<1> USE DEF AInv
<1> DEFINE h == cur[t].hash
<1>1. /\ pc[t] = "put" /\ up /\ mode = "hot" /\ todo[t] # <<>> /\ cur[t] \in Entry
      /\ index' = IF added[t] THEN Without(index, h) ELSE index
      /\ pending' = pending \ {h}
      /\ hot' = Keep(cur[t])
      /\ kept' = IF closing THEN kept \ {h} ELSE kept
      /\ todo' = [todo EXCEPT ![t] = Tail(@)]
      /\ \/ Len(todo[t]) > 1 /\ pc' = [pc EXCEPT ![t] = "enqueue"] /\ UNCHANGED <<cur, added>>
         \/ Len(todo[t]) = 1 /\ Done(t)
      /\ UNCHANGED <<mode, up, closing, limit, queue, disk, wpc, witem>>
  BY WorksUp DEF EnqueueFull, Placed, PlacedAt, config, life, writer, counts
<1>2. /\ cur[t] = Head(todo[t]) /\ IndexedAs(cur[t]) /\ (~ added[t] => closing)
      /\ closing => Hashes(todo[t]) \subseteq Hashes(hot)
  BY <1>1 DEF Orderly, ThreadOrder, TodoAt, CursorAt
<1>3. /\ index \in Seq(Entry) /\ hot \in Seq(Entry) /\ OnePerBlock(hot)
      /\ index' \in Seq(Entry) /\ hot' \in Seq(Entry)
  BY DEF Types
<1>4. /\ ToSet(index') \subseteq ToSet(index)
      /\ added[t] => ToSet(index') = {e \in ToSet(index) : e.hash # h} /\ Hashes(index') = Hashes(index) \ {h}
      /\ ~ added[t] => index' = index
  BY <1>1, <1>3, WithoutBlock
<1>5. Hashes(hot') = Hashes(hot) \cup {h} /\ ToSet(hot') \subseteq ToSet(hot) \cup {cur[t]}
  BY <1>1, <1>3, KeptBack
<1>6. /\ TodoAt(t)' /\ CursorAt(t)' /\ SaveAt(t)' /\ LoadAt(t)' /\ ~ Writes(t)'
      /\ Ahead(t)' = Hashes(Tail(todo[t]))
      /\ Hashes(todo[t]) = Hashes(Tail(todo[t])) \cup {Head(todo[t]).hash}
      /\ \A u \in Thread : u # t => pc'[u] = pc[u] /\ todo'[u] = todo[u]
  <2>1. ToSet(hot') \subseteq ToSet(hot) \cup {Head(todo[t])} /\ Hashes(hot) \subseteq Hashes(hot')
    BY <1>2, <1>5
  <2>2. closing' = closing /\ mode' = mode /\ pc[t] \in {"put", "owe"}
    BY <1>1
  <2>3. QED BY <1>1, <1>2, <1>4, <2>1, <2>2, RestToQueue
<1> HIDE DEF h
<1>7. \A g \in Hashes(hot') : g \in Hashes(hot) \/ (mode = "hot" /\ (closing \/ g \notin Hashes(index')))
  BY <1>1, <1>2, <1>4, <1>5
<1>8. Agree(hot', index')
  <2>1. Agree(hot, index)
    BY <1>1 DEF Orderly, HotAgrees
  <2>2. QED BY <1>2, <1>4, <1>5, <2>1 DEF Agree, IndexedAs
<1>9. \A e \in ToSet(index') : ~ ComingBy(t, e)
  BY <1>1, <1>4 DEF ComingBy, h
<1>10. ASSUME NEW e \in ToSet(index'), Held(e) PROVE Held(e)'
  <2>1. CASE e.hash = h
    <3>1. closing
      BY <1>2, <1>4, <2>1
    <3>2. QED BY <1>1, <1>5, <2>1, <3>1 DEF Held, Hashes
  <2>2. CASE e.hash # h
    BY <1>1, <1>5, <1>10, <2>2 DEF Held, Hashes
  <2>3. QED BY <2>1, <2>2
<1>11. \A f \in WholeFiles : NameOf(f) \in ToSet(index) =>
                               NameOf(f) \in ToSet(index') \/ Going(f) \/ ThreadHas(t, f)'
  <2>1. \A f \in WholeFiles : f.hash = h => Going(f)
    BY <1>1 DEF Orderly, FilesFirst, Writes, h
  <2>2. QED BY <1>4, <2>1 DEF NameOf
<1>12. ASSUME NEW g \in kept' PROVE g \in kept /\ (KeptAt(g) => KeptAt(g)')
  <2>1. g \in kept /\ (closing => g # h)
    BY <1>1, <1>12
  <2>2. /\ Hashes(index)' = Hashes(index') /\ Hashes(hot)' = Hashes(hot')
    BY DEF Hashes
  <2>3. CASE g = h
    <3>1. g \in Hashes(hot') /\ ~ closing'
      BY <1>1, <1>5, <2>1, <2>3
    <3>2. QED BY <2>1, <2>2, <3>1 DEF KeptAt
  <2>4. CASE g # h
    <3>1. g \in Hashes(index) => g \in Hashes(index')
      BY <1>4, <2>4
    <3>2. g \in Hashes(hot) => g \in Hashes(hot')
      BY <1>5
    <3>3. ASSUME NEW u \in Thread, g \in Ahead(u) PROVE \E v \in Thread : g \in Ahead(v)'
      <4>1. CASE u = t
        BY <1>1, <1>2, <1>6, <2>4, <3>3, <4>1 DEF Ahead, h
      <4>2. CASE u # t
        BY <1>6, <3>3, <4>2 DEF Ahead, Hashes
      <4>3. QED BY <4>1, <4>2
    <3>4. QED BY <1>1, <2>1, <2>2, <3>1, <3>2, <3>3 DEF KeptAt
  <2>5. QED BY <2>3, <2>4
<1>13. QED
  BY <1>1, <1>4, <1>6, <1>7, <1>8, <1>9, <1>10, <1>11, <1>12, EnqueueSteps

\* A block is about to be queued: the index makes room for it.
LEMMA EnqueueBeginOrderly ==
  ASSUME AInv, AInv', Calm, Orderly, NEW t \in Thread, EnqueueBegin(t)
  PROVE  Orderly'
<1> USE DEF AInv
<1> DEFINE e == Head(todo[t])
           gone == First(index, Over)
           rest == From(index, Over + 1)
<1>1. /\ pc[t] = "enqueue" /\ up /\ mode = "hot" /\ todo[t] # <<>>
      /\ ~ (closing /\ FileAt(e.hash, e.path))
      /\ cur' = [cur EXCEPT ![t] = e] /\ pending' = pending \cup {e.hash}
      /\ \/ /\ e.hash \in Hashes(index) /\ added' = [added EXCEPT ![t] = FALSE]
            /\ pc' = [pc EXCEPT ![t] = "put"] /\ UNCHANGED <<index, unlinks, kept>>
         \/ /\ e.hash \notin Hashes(index) /\ added' = [added EXCEPT ![t] = TRUE]
            /\ pc' = [pc EXCEPT ![t] = "unlink"]
            /\ unlinks' = [unlinks EXCEPT ![t] = gone] /\ index' = rest
            /\ kept' = kept \ Hashes(gone)
      /\ UNCHANGED <<mode, up, closing, hot, limit, queue, disk, wpc, witem, todo>>
  BY WorksUp DEF EnqueueBegin, Evicting, Losing, Placed, PlacedAt, config, life, writer, counts
<1>2. /\ gone \in Seq(Entry) /\ rest \in Seq(Entry) /\ ToSet(index) = ToSet(gone) \cup ToSet(rest)
      /\ Hashes(gone) \cap Hashes(rest) = {} /\ Hashes(index) = Hashes(gone) \cup Hashes(rest)
  BY EvictedIndex DEF Types
<1> HIDE DEF e, gone, rest
<1>3. /\ cur'[t] = e /\ todo'[t] = todo[t]
      /\ \/ /\ pc'[t] = "put" /\ ~ added'[t] /\ e.hash \in Hashes(index)
            /\ index' = index /\ kept' = kept
         \/ /\ pc'[t] = "unlink" /\ added'[t] /\ e.hash \notin Hashes(index) /\ unlinks'[t] = gone
            /\ index' = rest /\ kept' = kept \ Hashes(gone)
      /\ \A u \in Thread : u # t => pc'[u] = pc[u] /\ todo'[u] = todo[u]
  <2>1. pc \in [Thread -> Steps] /\ added \in [Thread -> BOOLEAN] /\ unlinks \in [Thread -> Seq(Entry)]
        /\ cur \in [Thread -> Entry \cup {NoEntry}]
    BY DEF Types
  <2>2. QED BY <1>1, <2>1
<1>4. TodoAt(t) /\ e \in ToSet(todo[t]) /\ index \in Seq(Entry) /\ todo[t] \in Seq(Entry)
  BY <1>1, NonEmptyQueue DEF Orderly, ThreadOrder, Types, e
<1>5. /\ Hashes(index) = {x.hash : x \in ToSet(index)} /\ Hashes(todo[t]) = {x.hash : x \in ToSet(todo[t])}
      /\ Hashes(rest) = {x.hash : x \in ToSet(rest)}
  BY <1>2, <1>4, BlocksOf
<1>6. \A x \in ToSet(index) : x.hash = e.hash => x = e
  BY <1>4 DEF TodoAt, Agree
<1>7. ~ closing => Hashes(todo[t]) \cap Hashes(index) = {}
  BY <1>1, <1>4, <1>5 DEF TodoAt
<1>8. e.hash \in Hashes(index) => closing /\ e \in ToSet(index) /\ ~ FileAt(e.hash, e.path)
  BY <1>1, <1>4, <1>5, <1>6, <1>7
<1>9. ToSet(index') \subseteq ToSet(index) /\ Hashes(index') \subseteq Hashes(index) /\ hot' = hot
  BY <1>1, <1>2, <1>3
<1>10. TodoAt(t)'
  <2>1. pc'[t] \in {"put", "unlink"} /\ mode' = "hot" /\ cur'[t] = Head(todo'[t])
        /\ (pc'[t] = "unlink" => added'[t]) /\ (closing' <=> closing)
        /\ (pc'[t] = "put" /\ ~ added'[t] => closing')
    BY <1>1, <1>3, <1>8 DEF e
  <2>2. OnePerBlock(todo[t])' /\ Agree(todo[t], hot)' /\ Agree(todo[t], index)'
    BY <1>3, <1>4, <1>9 DEF TodoAt, OnePerBlock, Agree
  <2>3. /\ closing => Hashes(todo[t])' \subseteq Hashes(hot)'
        /\ ~ closing => Hashes(todo[t])' \cap Hashes(hot)' = {}
    <3>1. Hashes(todo[t])' = Hashes(todo[t]) /\ Hashes(hot)' = Hashes(hot)
      BY <1>3, <1>9 DEF Hashes
    <3>2. QED BY <1>4, <3>1 DEF TodoAt
  <2>4. ~ closing => \A x \in ToSet(todo[t])' : x.hash \notin Hashes(index)'
    <3>1. Hashes(index)' = Hashes(index') /\ ToSet(todo[t])' = ToSet(todo[t])
      BY <1>3 DEF Hashes
    <3>2. QED BY <1>5, <1>7, <1>9, <3>1
  <2>5. pc'[t] \in Chain
    BY <2>1 DEF Chain
  <2>6. QED BY <2>1, <2>2, <2>3, <2>4, <2>5 DEF TodoAt
<1>11. CursorAt(t)' /\ SaveAt(t)' /\ LoadAt(t)'
  <2>1. IndexedAs(cur[t])'
    BY <1>3, <1>6, <1>9 DEF IndexedAs
  <2>2. Hashes(index)' = Hashes(index') /\ Hashes(unlinks[t])' = Hashes(unlinks'[t])
    BY DEF Hashes
  <2>3. pc'[t] = "unlink" => cur'[t].hash \notin Hashes(index)' /\ Hashes(unlinks[t])' \cap Hashes(index)' = {}
    BY <1>2, <1>3, <1>9, <2>2
  <2>4. pc'[t] \in {"put", "unlink"} /\ (pc'[t] = "put" => cur'[t].hash \in Hashes(index)')
        /\ cur'[t].hash \in pending' /\ mode' = "hot"
    BY <1>1, <1>3, <2>2
  <2>5. QED BY <2>1, <2>3, <2>4 DEF CursorAt, SaveAt, LoadAt
<1>12. ASSUME NEW f \in WholeFiles, Writes(t)', f.hash = cur'[t].hash PROVE Going(f)
  <2>1. f.hash = e.hash /\ e \in ToSet(index) /\ ~ FileAt(e.hash, e.path) /\ f \in disk
    BY <1>3, <1>8, <1>12 DEF Writes, WholeFiles
  <2>2. NameOf(f) \notin ToSet(index)
    <3>1. ASSUME NameOf(f) = e PROVE FALSE
      <4>1. f.path = e.path
        BY <3>1 DEF NameOf
      <4>2. QED BY <2>1, <4>1 DEF FileAt
    <3>2. NameOf(f).hash = e.hash
      BY <2>1 DEF NameOf
    <3>3. QED BY <1>6, <3>1, <3>2
  <2>3. \A u \in Thread : ~ ThreadHas(u, f)
    BY <1>1, OthersRest DEF ThreadHas, Calm
  <2>4. QED BY <1>1, <2>2, <2>3 DEF Orderly, FilesOwned, Going
<1>13. \A f \in WholeFiles : NameOf(f) \in ToSet(index) =>
                               NameOf(f) \in ToSet(index') \/ Going(f) \/ ThreadHas(t, f)'
  <2>1. \A f : pc'[t] = "unlink" /\ NameOf(f) \in ToSet(gone) => ThreadHas(t, f)'
    BY <1>3 DEF ThreadHas, NameOf
  <2>2. QED BY <1>2, <1>3, <2>1
<1>14. \A x : ~ ComingBy(t, x)
  BY <1>1 DEF ComingBy
<1>15. \A x : Held(x) => Held(x)'
  BY <1>1 DEF Held, Hashes
<1>16. Agree(hot', index')
  <2>1. Agree(hot, index)
    BY <1>1 DEF Orderly, HotAgrees
  <2>2. QED BY <1>9, <2>1 DEF Agree
<1>17. ASSUME NEW g \in kept' PROVE g \in kept /\ (KeptAt(g) => KeptAt(g)')
  <2>1. g \in kept /\ (g \in Hashes(index) => g \in Hashes(index'))
    BY <1>2, <1>3, <1>17
  <2>2. /\ Hashes(index)' = Hashes(index') /\ Hashes(hot)' = Hashes(hot)
    BY <1>1 DEF Hashes
  <2>3. \A u \in Thread : Ahead(u)' = Ahead(u)
    <3>1. pc[t] # "owe" /\ pc'[t] # "owe"
      BY <1>1, <1>3
    <3>2. \A u \in Thread : todo'[u] = todo[u] /\ (pc'[u] = "owe" <=> pc[u] = "owe")
      BY <1>3, <3>1
    <3>3. QED BY <3>2 DEF Ahead, Hashes
  <2>4. QED BY <1>1, <2>1, <2>2, <2>3 DEF KeptAt
<1>18. \A h \in Hashes(hot') : h \in Hashes(hot)
  BY <1>9
<1>19. QED
  BY <1>1, <1>3, <1>9, <1>10, <1>11, <1>12, <1>13, <1>14, <1>15, <1>16, <1>17, <1>18, EnqueueSteps

\* A thread removes a file: none of an entry.
LEMMA DiskShrinks ==
  ASSUME AInv, AInv', Calm, Orderly, NEW t \in Thread, pc[t] \in {"discard", "deleteFile", "wipe", "unlink"},
         up, \A u \in Thread : u # t => pc'[u] = pc[u], todo' = todo,
         UNCHANGED <<mode, up, closing, index, hot, limit, pending, queue, wpc, witem>>,
         disk' \subseteq disk,
         \A e \in ToSet(index) : Whole(e) => Whole(e)',
         \A f \in WholeFiles' : ThreadHas(t, f) => ThreadHas(t, f)',
         pc'[t] \in {"idle", "unlink", "deleteHot", "wipe"},
         TodoAt(t)', CursorAt(t)', SaveAt(t)',
         kept' \subseteq kept
  PROVE  Orderly'
<1>1. \A u \in Thread : u # t => pc[u] = "idle" /\ todo[u] = <<>> /\ pc'[u] = "idle" /\ todo'[u] = <<>>
  BY OthersRest DEF Calm
<1>2. Types /\ Types'
  BY DEF AInv
<1>3. LoadAt(t)' /\ ~ Writes(t)'
  BY DEF LoadAt, Writes
<1>4. \A u \in Thread : ThreadOrder(u)'
  BY <1>1, <1>3, OneThread DEF ThreadOrder
<1>5. \A e : ~ ComingBy(t, e) /\ ~ HeldBy(t, e)
  BY DEF ComingBy, HeldBy
<1>6. /\ RamOnly' /\ IndexBacked' /\ FilesOwned' /\ FilesFirst' /\ OneFile'
      /\ \A e \in ToSet(index') : OnDisk(e) => OnDisk(e)'
  BY <1>1, <1>2, <1>3, <1>5, FilesStay
<1>7. InMemory'
  <2>1. \A e : Held(e) => Held(e)'
    BY DEF Held, Hashes
  <2>2. QED BY <1>1, <1>5, <1>6, <2>1, MemoryStays
<1>8. HotAgrees' /\ KeptOnDisk'
  BY DEF Orderly, HotAgrees, KeptOnDisk, Agree
<1>9. WithinLimit'
  <2>1. Saved' \subseteq Saved
    BY DEF Saved, Hashes
  <2>2. QED BY <1>2, <2>1, LimitStays
<1>10. KeptSomewhere'
  <2> SUFFICES ASSUME NEW h \in kept' PROVE KeptAt(h)'
    BY DEF KeptSomewhere
  <2>1. KeptAt(h)
    BY DEF Orderly, KeptSomewhere
  <2>2. \A u \in Thread : Ahead(u) = Ahead(u)'
    BY <1>1 DEF Ahead, Hashes
  <2>3. QED BY <2>1, <2>2 DEF KeptAt, Hashes
<1>11. QED BY <1>4, <1>6, <1>7, <1>8, <1>9, <1>10 DEF Orderly

\* Removing the file of a block that is not in the index.
LEMMA OthersWhole ==
  ASSUME Types, NEW x, x.hash \notin Hashes(index), disk' = Unlinked(x.hash, x.path)
  PROVE  /\ disk' \subseteq disk /\ \A e \in ToSet(index) : Whole(e) => Whole(e)'
         /\ \A f \in WholeFiles' : NameOf(f) # x
<1>1. Hashes(index) = {e.hash : e \in ToSet(index)}
  BY BlocksOf DEF Types
<1>2. \A e \in ToSet(index) : Whole(e) => Whole(e)'
  BY <1>1 DEF Whole, Unlinked
<1>3. \A f \in disk' : NameOf(f) # x
  BY DEF Unlinked, NameOf
<1>4. QED BY <1>2, <1>3 DEF Unlinked, WholeFiles

\* load_block removes the file it could not read.
LEMMA LoadDiscardsOrderly ==
  ASSUME AInv, AInv', Calm, Orderly, NEW t \in Thread, LoadDiscards(t)
  PROVE  Orderly'
<1> USE DEF AInv
<1>1. /\ pc[t] = "discard" /\ up /\ disk' = Unlinked(cur[t].hash, cur[t].path)
      /\ pc' = [pc EXCEPT ![t] = "idle"]
      /\ UNCHANGED <<mode, up, closing, index, hot, limit, pending, queue, wpc, witem, todo, kept>>
  BY WorksUp DEF LoadDiscards, Done, config, life, memory, writer, counts
<1>2. pc'[t] = "idle" /\ \A u \in Thread : u # t => pc'[u] = pc[u]
  BY <1>1 DEF Types
<1>3. todo[t] = <<>> /\ cur[t].hash \notin Hashes(index)
  BY <1>1 DEF Orderly, ThreadOrder, TodoAt, CursorAt, Chain
<1>4. /\ disk' \subseteq disk /\ \A e \in ToSet(index) : Whole(e) => Whole(e)'
      /\ \A f \in WholeFiles' : NameOf(f) # cur[t]
  BY <1>1, <1>3, OthersWhole
<1>5. \A f \in WholeFiles' : ~ ThreadHas(t, f)
  BY <1>1, <1>4 DEF ThreadHas
<1>6. TodoAt(t)'
  BY <1>1, <1>2, <1>3, NothingToQueue DEF Chain
<1>7. CursorAt(t)' /\ SaveAt(t)'
  BY <1>2 DEF CursorAt, SaveAt
<1>8. QED BY <1>1, <1>2, <1>4, <1>5, <1>6, <1>7, DiskShrinks

\* delete_block: the file.
LEMMA DeleteFileOrderly ==
  ASSUME AInv, AInv', Calm, Orderly, NEW t \in Thread, DeleteFile(t)
  PROVE  Orderly'
<1> USE DEF AInv
<1> DEFINE x == Head(unlinks[t])
           rest == Tail(unlinks[t])
<1>1. /\ pc[t] = "deleteFile" /\ up /\ disk' = Unlinked(x.hash, x.path) /\ Deleted(t)
      /\ unlinks[t] # <<>>
      /\ UNCHANGED <<mode, up, closing, index, hot, limit, pending, queue, wpc, witem, todo, kept>>
  BY WorksUp DEF DeleteFile, Placed, PlacedAt, config, life, memory, writer, counts
<1>2. /\ todo[t] = <<>> /\ ~ closing /\ OnePerBlock(unlinks[t]) /\ ToSet(index) \subseteq ToSet(unlinks[t])
      /\ x.hash \notin Hashes(index)
  BY <1>1 DEF Orderly, ThreadOrder, TodoAt, CursorAt, Chain
<1>3. /\ rest \in Seq(Entry) /\ x \in Entry /\ OnePerBlock(rest)
      /\ ToSet(unlinks[t]) = ToSet(rest) \cup {x} /\ (rest = <<>> <=> Len(unlinks[t]) = 1)
  BY <1>1, <1>2, TailBlocks DEF Types
<1>4. /\ disk' \subseteq disk /\ \A e \in ToSet(index) : Whole(e) => Whole(e)'
      /\ \A f \in WholeFiles' : NameOf(f) # x
  BY <1>1, <1>2, OthersWhole
<1>5. \A f \in WholeFiles' : ~ ThreadHas(t, f)
  BY <1>1, <1>4 DEF ThreadHas
<1>6. x \notin ToSet(index)
  <2>1. Hashes(index) = {e.hash : e \in ToSet(index)}
    BY BlocksOf DEF Types
  <2>2. QED BY <1>2, <2>1
<1> HIDE DEF x, rest
<1>7. /\ \A u \in Thread : u # t => pc'[u] = pc[u]
      /\ unlinks'[t] = rest /\ (pc'[t] = "deleteHot" \/ (pc'[t] = "wipe" /\ rest = <<>>))
  <2>1. unlinks' = [unlinks EXCEPT ![t] = rest] /\ unlinks \in [Thread -> Seq(Entry)]
    BY <1>1 DEF Deleted, rest, Types
  <2>2. pc' = [pc EXCEPT ![t] = IF rest = <<>> THEN "wipe" ELSE "deleteHot"] /\ pc \in [Thread -> Steps]
    BY <1>1, <1>3 DEF Deleted, Types
  <2>3. QED BY <2>1, <2>2
<1>8. TodoAt(t)'
  BY <1>1, <1>2, <1>7, NothingToQueue DEF Chain
<1>9. CursorAt(t)' /\ SaveAt(t)'
  <2>1. pc'[t] = "wipe" => index' = <<>>
    <3>1. ToSet(<<>>) = {} /\ index \in Seq(Entry) /\ index' = index
      BY <1>1, EmptyQueue DEF Types
    <3>2. pc'[t] = "wipe" => ToSet(rest) = {}
      BY <1>7, <3>1
    <3>3. pc'[t] = "wipe" => ToSet(index) = {}
      BY <1>2, <1>3, <1>6, <3>2
    <3>4. QED BY <3>1, <3>3, NonEmptyQueue
  <2>2. OnePerBlock(unlinks[t])' /\ ToSet(index)' \subseteq ToSet(unlinks[t])'
    BY <1>1, <1>2, <1>3, <1>6, <1>7 DEF OnePerBlock
  <2>3. pc'[t] \in {"deleteHot", "wipe"}
    BY <1>7
  <2>4. QED BY <2>1, <2>2, <2>3 DEF CursorAt, SaveAt
<1>10. QED BY <1>1, <1>4, <1>5, <1>7, <1>8, <1>9, DiskShrinks

\* The clear route removes every file that is left.
LEMMA WipeOrderly ==
  ASSUME AInv, AInv', Calm, Orderly, NEW t \in Thread, Wipe(t)
  PROVE  Orderly'
<1> USE DEF AInv
<1>1. /\ pc[t] = "wipe" /\ up /\ disk' \subseteq disk /\ kept' \subseteq kept
      /\ \/ pc' = pc
         \/ disk = {} /\ pc' = [pc EXCEPT ![t] = "idle"]
      /\ UNCHANGED <<mode, up, closing, index, hot, limit, pending, queue, wpc, witem, todo>>
  BY WorksUp DEF Wipe, config, life, memory, writer, counts
<1>2. /\ pc'[t] = "wipe" \/ (pc'[t] = "idle" /\ disk = {})
      /\ \A u \in Thread : u # t => pc'[u] = pc[u]
  BY <1>1 DEF Types
<1>3. todo[t] = <<>> /\ ~ closing /\ index = <<>>
  BY <1>1 DEF Orderly, ThreadOrder, TodoAt, CursorAt, Chain
<1>4. \A e \in ToSet(index) : Whole(e) => Whole(e)'
  BY <1>3, EmptyQueue
<1>5. \A f \in WholeFiles' : ThreadHas(t, f)'
  BY <1>1, <1>2 DEF ThreadHas, WholeFiles
<1>6. TodoAt(t)'
  BY <1>1, <1>2, <1>3, NothingToQueue DEF Chain
<1>7. CursorAt(t)' /\ SaveAt(t)'
  BY <1>1, <1>2, <1>3 DEF CursorAt, SaveAt
<1>8. QED BY <1>1, <1>2, <1>4, <1>5, <1>6, <1>7, DiskShrinks

\* A thread on its way to the next evicted file.
LEMMA NextUnlink ==
  ASSUME AInv, Orderly, NEW t \in Thread, pc[t] = "unlink", unlinks[t] # <<>>,
         unlinks' = [unlinks EXCEPT ![t] = Tail(@)],
         UNCHANGED <<pc, cur, todo, added, mode, closing, index, hot, pending, kept>>
  PROVE  /\ TodoAt(t)' /\ CursorAt(t)' /\ SaveAt(t)' /\ LoadAt(t)' /\ ~ Writes(t)'
         /\ Head(unlinks[t]) \in Entry /\ Head(unlinks[t]).hash \notin Hashes(index)
         /\ \A f : /\ ThreadHas(t, f) => ThreadHas(t, f)' \/ NameOf(f) = Head(unlinks[t])
                   /\ ThreadHas(t, f)' => ThreadHas(t, f)
<1> DEFINE x == Head(unlinks[t])
           rest == Tail(unlinks[t])
<1>1. unlinks[t] \in Seq(Entry) /\ unlinks'[t] = rest
  BY DEF AInv, Types
<1>2. /\ rest \in Seq(Entry) /\ x \in Entry /\ ToSet(unlinks[t]) = ToSet(rest) \cup {x}
      /\ Hashes(unlinks[t]) = Hashes(rest) \cup {x.hash}
  BY <1>1, TailBlocks
<1> HIDE DEF x, rest
<1>3. cur[t].hash \notin Hashes(index) /\ Hashes(unlinks[t]) \cap Hashes(index) = {}
  BY DEF Orderly, ThreadOrder, CursorAt
<1>4. TodoAt(t)'
  <2>1. TodoAt(t)
    BY DEF Orderly, ThreadOrder
  <2>2. /\ Hashes(todo[t])' = Hashes(todo[t]) /\ Hashes(hot)' = Hashes(hot)
        /\ Hashes(index)' = Hashes(index)
    BY DEF Hashes
  <2>3. /\ OnePerBlock(todo[t])' <=> OnePerBlock(todo[t])
        /\ Agree(todo[t], hot)' <=> Agree(todo[t], hot)
        /\ Agree(todo[t], index)' <=> Agree(todo[t], index)
    BY DEF OnePerBlock, Agree
  <2>4. QED BY <2>1, <2>2, <2>3 DEF TodoAt
<1>5. Hashes(index)' = Hashes(index) /\ Hashes(unlinks[t])' = Hashes(rest)
  BY <1>1 DEF Hashes
<1>6. CursorAt(t)' /\ LoadAt(t)' /\ ~ Writes(t)'
  BY <1>2, <1>3, <1>5 DEF CursorAt, LoadAt, Writes
<1>7. SaveAt(t)'
  BY DEF Orderly, ThreadOrder, SaveAt
<1>8. \A f : /\ ThreadHas(t, f) => ThreadHas(t, f)' \/ NameOf(f) = x
             /\ ThreadHas(t, f)' => ThreadHas(t, f)
  BY <1>1, <1>2 DEF ThreadHas, NameOf
<1>9. QED BY <1>2, <1>3, <1>4, <1>6, <1>7, <1>8 DEF x

\* The queue is full: the thread removes an evicted file itself.
LEMMA UnlinkHereOrderly ==
  ASSUME AInv, AInv', Calm, Orderly, NEW t \in Thread, UnlinkEvicted(t), unlinks[t] # <<>>, Room = 0
  PROVE  Orderly'
<1> USE DEF AInv
<1> DEFINE x == Head(unlinks[t])
<1>1. /\ pc[t] = "unlink" /\ up /\ disk' = Unlinked(x.hash, x.path)
      /\ unlinks' = [unlinks EXCEPT ![t] = Tail(@)]
      /\ UNCHANGED <<pc, cur, todo, added, mode, up, closing, index, hot, limit, pending, queue, wpc, witem,
                     kept>>
  BY WorksUp DEF UnlinkEvicted, config, life, writer, counts
<1>2. /\ TodoAt(t)' /\ CursorAt(t)' /\ SaveAt(t)'
      /\ x.hash \notin Hashes(index)
      /\ \A f : ThreadHas(t, f) => ThreadHas(t, f)' \/ NameOf(f) = x
  BY <1>1, NextUnlink
<1>3. /\ disk' \subseteq disk /\ \A e \in ToSet(index) : Whole(e) => Whole(e)'
      /\ \A f \in WholeFiles' : NameOf(f) # x
  BY <1>1, <1>2, OthersWhole
<1> HIDE DEF x
<1>4. QED BY <1>1, <1>2, <1>3, DiskShrinks

\* A thread puts an item in the queue: a write of its block, or the removal of a
\* file that is no entry's.
LEMMA QueueStep ==
  ASSUME Types, Types', Orderly, up, NEW t \in Thread,
         \A u \in Thread : u # t => pc[u] = "idle" /\ pc'[u] = "idle",
         UNCHANGED <<mode, index, hot, pending, disk, wpc, witem>>, closing => closing',
         NEW x \in Item, queue' = Append(queue, x),
         \A e \in ToSet(index) : x.hash = e.hash => x = WriteItem(e) /\ Held(e),
         \A e \in ToSet(index) : ComingBy(t, e) => x = WriteItem(e),
         \A e : ~ HeldBy(t, e),
         \A f \in WholeFiles : ThreadHas(t, f) => ThreadHas(t, f)' \/ x = UnlinkItem(f),
         \A f \in WholeFiles : x.op = "write" /\ x.hash = f.hash => Going(f),
         ~ Writes(t)'
  PROVE  RamOnly' /\ IndexBacked' /\ FilesOwned' /\ FilesFirst' /\ OneFile' /\ InMemory'
<1>1. /\ queue \in Seq(Item)
      /\ \A h : About(queue', h) <=> About(queue, h) \/ x.hash = h
      /\ \A e : WriteLast(queue, e) /\ x.hash # e.hash => WriteLast(queue', e)
      /\ \A e : x = WriteItem(e) => WriteLast(queue', e)
      /\ \A f : UnlinkIn(queue', f) <=> UnlinkIn(queue, f) \/ x = UnlinkItem(f)
      /\ \A f : /\ UnlinkedFirst(queue, f)
                /\ x.op = "write" /\ x.hash = f.hash => UnlinkIn(queue, f)
                => UnlinkedFirst(queue', f)
  <2>1. queue \in Seq(Item)
    BY DEF Types
  <2>2. QED BY <2>1, QueueGrows
<1>2. /\ \A e : OnDisk(e) /\ x.hash # e.hash => OnDisk(e)'
      /\ \A e : InHand(e) /\ x.hash # e.hash => InHand(e)'
  BY <1>1 DEF OnDisk, InHand, Whole, Writer
<1>3. /\ WholeFiles' = WholeFiles
      /\ \A f : (WriterHas(f)' <=> WriterHas(f)) /\ (Going(f) => Going(f)')
  BY <1>1 DEF WholeFiles, WriterHas, Going
<1>4. RamOnly' /\ OneFile'
  BY <1>3 DEF Orderly, RamOnly, OneFile
<1>5. IndexBacked'
  <2> SUFFICES ASSUME NEW e \in ToSet(index)
               PROVE  OnDisk(e)' \/ WriteLast(queue', e) \/ InHand(e)'
    BY DEF IndexBacked
  <2>1. CASE x.hash = e.hash
    BY <1>1, <2>1
  <2>2. CASE x.hash # e.hash
    <3>1. \A u \in Thread : ComingBy(u, e) => u = t
      BY DEF ComingBy
    <3>2. ~ (x = WriteItem(e))
      BY <2>2 DEF WriteItem
    <3>3. OnDisk(e) \/ WriteLast(queue, e) \/ InHand(e)
      BY <3>1, <3>2 DEF Orderly, IndexBacked
    <3>4. QED BY <1>1, <1>2, <2>2, <3>3
  <2>3. QED BY <2>1, <2>2
<1>6. FilesOwned'
  <2> SUFFICES ASSUME NEW f \in WholeFiles
               PROVE  \/ NameOf(f) \in ToSet(index') \/ UnlinkIn(queue', f) \/ WriterHas(f)'
                      \/ ThreadHas(t, f)'
    BY <1>3 DEF FilesOwned, NameOf
  <2>1. \A u \in Thread : ThreadHas(u, f) => u = t
    BY DEF ThreadHas
  <2>2. NameOf(f) \in ToSet(index) \/ UnlinkIn(queue, f) \/ WriterHas(f) \/ ThreadHas(t, f)
    BY <2>1 DEF Orderly, FilesOwned
  <2>3. QED BY <1>1, <1>3, <2>2
<1>7. FilesFirst'
  <2> SUFFICES ASSUME NEW f \in WholeFiles
               PROVE  /\ UnlinkedFirst(queue', f) \/ WriterHas(f)'
                      /\ \A u \in Thread : Writes(u)' /\ cur'[u].hash = f.hash => Going(f)'
                      /\ wpc' \in {"open", "data"} => witem'.hash # f.hash
                      /\ wpc' = "rename" /\ witem'.hash = f.hash => f.path = witem'.path + 1
    BY <1>3 DEF FilesFirst
  <2>1. /\ UnlinkedFirst(queue, f) \/ WriterHas(f)
        /\ wpc \in {"open", "data"} => witem.hash # f.hash
        /\ wpc = "rename" /\ witem.hash = f.hash => f.path = witem.path + 1
    BY DEF Orderly, FilesFirst
  <2>2. \A u \in Thread : ~ Writes(u)'
    BY DEF Writes
  <2>3. UnlinkedFirst(queue', f) \/ WriterHas(f)
    BY <1>1, <2>1 DEF Going
  <2>4. QED BY <1>3, <2>1, <2>2, <2>3
<1>8. InMemory'
  <2> SUFFICES ASSUME NEW e \in ToSet(index) PROVE OnDisk(e)' \/ Held(e)'
    BY DEF InMemory
  <2>1. Held(e) => Held(e)'
    BY DEF Held, Hashes
  <2>2. \A u \in Thread : ~ HeldBy(u, e)
    BY DEF HeldBy
  <2>3. OnDisk(e) \/ Held(e)
    BY <2>2 DEF Orderly, InMemory
  <2>4. QED BY <1>2, <2>1, <2>3
<1>9. QED BY <1>4, <1>5, <1>6, <1>7, <1>8

\* An evicted file is left to the writer.
LEMMA UnlinkLeftOrderly ==
  ASSUME AInv, AInv', Calm, Orderly, NEW t \in Thread, UnlinkEvicted(t), unlinks[t] # <<>>, Room > 0
  PROVE  Orderly'
<1> USE DEF AInv
<1> DEFINE g == Head(unlinks[t])
           x == [op |-> "unlink", hash |-> g.hash, path |-> g.path]
<1>1. /\ pc[t] = "unlink" /\ up /\ queue' = Append(queue, x) /\ disk' = disk
      /\ unlinks' = [unlinks EXCEPT ![t] = Tail(@)]
      /\ UNCHANGED <<pc, cur, todo, added, mode, up, closing, index, hot, limit, pending, wpc, witem, kept>>
  <2>1. QueueMax - Len(queue) # 0
    BY SSDAssumption, LenProperties DEF Types, Room
  <2>2. QED BY <2>1, WorksUp DEF UnlinkEvicted, Room, config, life, writer, counts
<1>2. /\ TodoAt(t)' /\ CursorAt(t)' /\ SaveAt(t)' /\ LoadAt(t)' /\ ~ Writes(t)'
      /\ g \in Entry /\ g.hash \notin Hashes(index)
      /\ \A f : ThreadHas(t, f) => ThreadHas(t, f)' \/ NameOf(f) = g
  BY <1>1, NextUnlink
<1> HIDE DEF g
<1>3. x \in Item /\ x.op = "unlink" /\ x.hash = g.hash
  BY <1>2 DEF Item, Entry
<1>4. \A f : NameOf(f) = g => x = UnlinkItem(f)
  BY DEF NameOf, UnlinkItem
<1>5. \A u \in Thread : u # t => pc[u] = "idle" /\ todo[u] = <<>>
  BY <1>1, OthersRest DEF Calm
<1>6. \A e \in ToSet(index) : x.hash # e.hash
  <2>1. Hashes(index) = {e.hash : e \in ToSet(index)}
    BY BlocksOf DEF Types
  <2>2. QED BY <1>2, <1>3, <2>1
<1>7. \A e : ~ ComingBy(t, e) /\ ~ HeldBy(t, e)
  BY <1>1 DEF ComingBy, HeldBy
<1> HIDE DEF x
<1>8. RamOnly' /\ IndexBacked' /\ FilesOwned' /\ FilesFirst' /\ OneFile' /\ InMemory'
  <2>1. \A f \in WholeFiles : ThreadHas(t, f) => ThreadHas(t, f)' \/ x = UnlinkItem(f)
    BY <1>2, <1>4
  <2>2. QED BY <1>1, <1>2, <1>3, <1>5, <1>6, <1>7, <2>1, QueueStep
<1>9. \A u \in Thread : ThreadOrder(u)'
  BY <1>1, <1>2, <1>5, OneThread DEF ThreadOrder
<1>10. HotAgrees' /\ KeptOnDisk'
  BY <1>1 DEF Orderly, HotAgrees, KeptOnDisk, Agree
<1>11. WithinLimit'
  <2>1. Saved' \subseteq Saved
    BY <1>1 DEF Saved, Hashes
  <2>2. QED BY <1>1, <2>1, LimitStays
<1>12. KeptSomewhere'
  BY <1>1 DEF Orderly, KeptSomewhere, KeptAt, Ahead, Hashes
<1>13. QED BY <1>8, <1>9, <1>10, <1>11, <1>12 DEF Orderly

\* The write of an evicted block is queued.
LEMMA EnqueuePutOrderly ==
  ASSUME AInv, AInv', Calm, Orderly, NEW t \in Thread, EnqueuePut(t)
  PROVE  Orderly'
<1> USE DEF AInv
<1> DEFINE x == WriteItem(cur[t])
<1>1. /\ pc[t] = "put" /\ up /\ mode = "hot" /\ cur[t] \in Entry /\ queue' = Append(queue, x)
      /\ pc' = [pc EXCEPT ![t] = "owe"] /\ todo[t] # <<>>
      /\ UNCHANGED <<cur, todo, added, mode, up, closing, index, hot, limit, pending, disk, wpc, witem, kept>>
  BY WorksUp DEF EnqueuePut, Placed, PlacedAt, config, life, writer, counts
<1>2. pc'[t] = "owe" /\ \A u \in Thread : u # t => pc'[u] = pc[u]
  BY <1>1 DEF Types
<1>3. x \in Item /\ x.op = "write" /\ x.hash = cur[t].hash
  BY <1>1 DEF WriteItem, Item, Entry
<1>4. TodoAt(t) /\ CursorAt(t) /\ SaveAt(t)
  BY DEF Orderly, ThreadOrder
<1>5. cur[t] = Head(todo[t]) /\ IndexedAs(cur[t]) /\ cur[t].hash \in pending
      /\ (cur[t].hash \in kept => cur[t].hash \in Hashes(index))
  BY <1>1, <1>4 DEF TodoAt, CursorAt, SaveAt
<1>6. \A u \in Thread : u # t => pc[u] = "idle" /\ todo[u] = <<>>
  BY <1>1, OthersRest DEF Calm
<1>7. \A e \in ToSet(index) : x.hash = e.hash => x = WriteItem(e) /\ Held(e)
  BY <1>3, <1>5 DEF IndexedAs, Held
<1>8. (\A e : ComingBy(t, e) => x = WriteItem(e)) /\ (\A e : ~ HeldBy(t, e)) /\ \A f : ~ ThreadHas(t, f)
  BY <1>1 DEF ComingBy, HeldBy, ThreadHas
<1>9. \A f \in WholeFiles : x.hash = f.hash => Going(f)
  BY <1>1, <1>3 DEF Orderly, FilesFirst, Writes
<1>10. ~ Writes(t)'
  BY <1>2 DEF Writes
<1> HIDE DEF x
<1>11. RamOnly' /\ IndexBacked' /\ FilesOwned' /\ FilesFirst' /\ OneFile' /\ InMemory'
  BY <1>1, <1>2, <1>3, <1>6, <1>7, <1>8, <1>9, <1>10, QueueStep
<1>12. TodoAt(t)'
  <2>1. /\ Hashes(todo[t])' = Hashes(todo[t]) /\ Hashes(hot)' = Hashes(hot)
        /\ Hashes(index)' = Hashes(index)
    BY <1>1 DEF Hashes
  <2>2. /\ OnePerBlock(todo[t])' <=> OnePerBlock(todo[t])
        /\ Agree(todo[t], hot)' <=> Agree(todo[t], hot)
        /\ Agree(todo[t], index)' <=> Agree(todo[t], index)
    BY <1>1 DEF OnePerBlock, Agree
  <2>3. QED BY <1>1, <1>2, <1>4, <1>5, <2>1, <2>2 DEF TodoAt, Chain
<1>13. CursorAt(t)' /\ SaveAt(t)' /\ LoadAt(t)'
  BY <1>2 DEF CursorAt, SaveAt, LoadAt
<1>14. \A u \in Thread : ThreadOrder(u)'
  BY <1>1, <1>2, <1>6, <1>12, <1>13, OneThread DEF ThreadOrder
<1>15. HotAgrees' /\ KeptOnDisk'
  BY <1>1 DEF Orderly, HotAgrees, KeptOnDisk, Agree
<1>16. WithinLimit'
  <2>1. Saved' \subseteq Saved
    BY <1>1 DEF Saved, Hashes
  <2>2. QED BY <1>1, <2>1, LimitStays
<1>17. KeptSomewhere'
  <2> SUFFICES ASSUME NEW h \in kept PROVE KeptAt(h)'
    BY <1>1 DEF KeptSomewhere
  <2>1. KeptAt(h)
    BY <1>1 DEF Orderly, KeptSomewhere
  <2>2. Hashes(todo[t]) = Hashes(Tail(todo[t])) \cup {cur[t].hash}
    <3>1. todo[t] \in Seq(Entry)
      BY DEF Types
    <3>2. QED BY <1>1, <1>5, <3>1, TailBlocks
  <2>3. \A u \in Thread : h \in Ahead(u) => h \in Ahead(u)' \/ h \in Hashes(index)
    <3>1. h \in Ahead(t) => h \in Ahead(t)' \/ h \in Hashes(index)
      BY <1>1, <1>2, <1>5, <2>2 DEF Ahead, Hashes
    <3>2. \A u \in Thread : u # t => Ahead(u) = Ahead(u)'
      BY <1>1, <1>2 DEF Ahead, Hashes
    <3>3. QED BY <3>1, <3>2
  <2>4. QED BY <1>1, <2>1, <2>3 DEF KeptAt, Hashes
<1>18. QED BY <1>11, <1>14, <1>15, <1>16, <1>17 DEF Orderly

\* The write-through save queues its write.
LEMMA SaveQueuesOrderly ==
  ASSUME AInv, AInv', Calm, Orderly, NEW t \in Thread, SaveQueues(t), Room > 0
  PROVE  Orderly'
<1> USE DEF AInv
<1> DEFINE x == WriteItem(cur[t])
<1>1. /\ pc[t] = "bufferPut" /\ up /\ mode = "buffer" /\ cur[t] \in Entry /\ queue' = Append(queue, x)
      /\ pc' = [pc EXCEPT ![t] = "idle"] /\ kept' = kept \cup {cur[t].hash}
      /\ UNCHANGED <<todo, mode, up, closing, index, hot, limit, pending, disk, wpc, witem>>
  <2>1. QueueMax - Len(queue) # 0
    BY SSDAssumption, LenProperties DEF Types, Room
  <2>2. QED BY <2>1, WorksUp DEF SaveQueues, Room, Done, Placed, PlacedAt, config, life, writer, counts
<1>2. pc'[t] = "idle" /\ \A u \in Thread : u # t => pc'[u] = pc[u]
  BY <1>1 DEF Types
<1>3. x \in Item /\ x.op = "write" /\ x.hash = cur[t].hash
  BY <1>1 DEF WriteItem, Item, Entry
<1>4. /\ todo[t] = <<>> /\ ~ closing /\ IndexedAs(cur[t]) /\ cur[t].hash \in Hashes(hot)
  BY <1>1 DEF Orderly, ThreadOrder, TodoAt, CursorAt, SaveAt, Chain
<1>5. \A u \in Thread : u # t => pc[u] = "idle" /\ todo[u] = <<>>
  BY <1>1, OthersRest DEF Calm
<1>6. \A e \in ToSet(index) : x.hash = e.hash => x = WriteItem(e) /\ Held(e)
  BY <1>1, <1>3, <1>4 DEF IndexedAs, Held
<1>7. (\A e : ComingBy(t, e) => x = WriteItem(e)) /\ (\A e : ~ HeldBy(t, e)) /\ \A f : ~ ThreadHas(t, f)
  BY <1>1 DEF ComingBy, HeldBy, ThreadHas
<1>8. \A f \in WholeFiles : x.hash = f.hash => Going(f)
  BY <1>1, <1>3 DEF Orderly, FilesFirst, Writes
<1>9. CursorAt(t)' /\ SaveAt(t)' /\ LoadAt(t)' /\ ~ Writes(t)'
  BY <1>2 DEF CursorAt, SaveAt, LoadAt, Writes
<1> HIDE DEF x
<1>10. RamOnly' /\ IndexBacked' /\ FilesOwned' /\ FilesFirst' /\ OneFile' /\ InMemory'
  BY <1>1, <1>2, <1>3, <1>5, <1>6, <1>7, <1>8, <1>9, QueueStep
<1>11. TodoAt(t)'
  BY <1>1, <1>2, <1>4, NothingToQueue DEF Chain
<1>12. \A u \in Thread : ThreadOrder(u)'
  BY <1>1, <1>2, <1>5, <1>9, <1>11, OneThread DEF ThreadOrder
<1>13. HotAgrees' /\ KeptOnDisk' /\ WithinLimit'
  BY <1>1 DEF HotAgrees, KeptOnDisk, WithinLimit
<1>14. KeptSomewhere'
  <2> SUFFICES ASSUME NEW h \in kept' PROVE KeptAt(h)'
    BY DEF KeptSomewhere
  <2>1. \A u \in Thread : Ahead(u) = {}
    BY <1>1, <1>4, <1>5, NoBlocks DEF Ahead
  <2>2. h \in Hashes(index) \/ h \in Hashes(hot)
    BY <1>1, <1>4, <2>1 DEF Orderly, KeptSomewhere, KeptAt
  <2>3. QED BY <1>1, <1>4, <2>2 DEF KeptAt, Hashes
<1>15. QED BY <1>10, <1>12, <1>13, <1>14 DEF Orderly

\* The block is in the index, and its file is to come.
LEMMA UnlinkAddsOrderly ==
  ASSUME AInv, AInv', Calm, Orderly, NEW t \in Thread, UnlinkEvicted(t), unlinks[t] = <<>>
  PROVE  Orderly'
<1> USE DEF AInv
<1> DEFINE c == cur[t]
           next == IF mode = "buffer" THEN "buffer" ELSE "put"
<1>1. /\ pc[t] = "unlink" /\ up /\ index' = IndexAdd(c) /\ pc' = [pc EXCEPT ![t] = next]
      /\ mode \in {"hot", "buffer"} /\ c \in Entry /\ (mode = "hot" => todo[t] # <<>>)
      /\ UNCHANGED <<cur, todo, unlinks, added, mode, up, closing, queue, disk, hot, limit, pending, wpc, witem,
                     kept>>
  BY WorksUp DEF UnlinkEvicted, Placed, PlacedAt, config, life, writer, counts
<1>2. pc'[t] = next /\ \A u \in Thread : u # t => pc'[u] = pc[u]
  BY <1>1 DEF Types
<1>3. TodoAt(t) /\ CursorAt(t) /\ SaveAt(t)
  BY DEF Orderly, ThreadOrder
<1>4. c.hash \notin Hashes(index)
  BY <1>1, <1>3 DEF CursorAt
<1>5. /\ ToSet(index') = ToSet(index) \cup {c}
      /\ Hashes(index') = Hashes(index) \cup {c.hash}
      /\ \A e \in ToSet(index) : e.hash # c.hash
  <2>1. Hashes(index) = {e.hash : e \in ToSet(index)}
    BY BlocksOf DEF Types
  <2>2. /\ ToSet(index') = {f \in ToSet(index) : f.hash # c.hash} \cup {c}
        /\ Hashes(index') = Hashes(index) \cup {c.hash}
    BY <1>1, RenewedBlock DEF Types, IndexAdd
  <2>3. QED BY <1>4, <2>1, <2>2
<1>6. mode = "hot" => /\ c = Head(todo[t]) /\ c \in ToSet(todo[t]) /\ c.hash \in Hashes(todo[t])
                      /\ added[t] /\ c.hash \in pending
  <2>1. mode = "hot" => c = Head(todo[t]) /\ added[t] /\ c.hash \in pending
    BY <1>1, <1>3 DEF TodoAt, SaveAt
  <2>2. mode = "hot" => /\ ToSet(todo[t]) = ToSet(Tail(todo[t])) \cup {Head(todo[t])}
                        /\ Hashes(todo[t]) = Hashes(Tail(todo[t])) \cup {Head(todo[t]).hash}
    BY <1>1, TailBlocks DEF Types
  <2>3. QED BY <2>1, <2>2
<1>7. \A u \in Thread : u # t => pc[u] = "idle" /\ todo[u] = <<>>
  BY <1>1, OthersRest DEF Calm
<1> HIDE DEF c
<1>8. TodoAt(t)'
  <2>1. CASE mode = "buffer"
    <3>1. todo[t] = <<>> /\ ~ closing
      BY <1>1, <1>3, <2>1 DEF TodoAt
    <3>2. pc'[t] \notin Chain
      BY <1>2, <2>1 DEF Chain
    <3>3. QED BY <1>1, <3>1, <3>2, NothingToQueue
  <2>2. CASE mode = "hot"
    <3>1. /\ Hashes(todo[t])' = Hashes(todo[t]) /\ Hashes(hot)' = Hashes(hot)
          /\ Hashes(index)' = Hashes(index) \cup {c.hash}
      BY <1>1, <1>5 DEF Hashes
    <3>2. /\ OnePerBlock(todo[t])' <=> OnePerBlock(todo[t])
          /\ Agree(todo[t], hot)' <=> Agree(todo[t], hot)
      BY <1>1 DEF OnePerBlock, Agree
    <3>3. \A e \in ToSet(todo[t]) : e.hash = c.hash => e = c
      BY <1>3, <1>6, <2>2 DEF TodoAt, OnePerBlock
    <3>4. Agree(todo[t], index)'
      BY <1>1, <1>3, <1>5, <3>3 DEF TodoAt, Agree
    <3>5. pc'[t] = "put" /\ added'[t] /\ cur'[t] = c /\ c = Head(todo'[t])
      BY <1>1, <1>2, <1>6, <2>2 DEF c
    <3>6. ~ closing => \A e \in ToSet(todo[t]) : e.hash \in Hashes(index)' => e = c
      BY <1>1, <1>3, <3>1, <3>3 DEF TodoAt
    <3>7. QED BY <1>1, <1>3, <3>1, <3>2, <3>4, <3>5, <3>6 DEF TodoAt, Chain
  <2>3. QED BY <1>1, <2>1, <2>2
<1>9. CursorAt(t)' /\ LoadAt(t)'
  <2>1. IndexedAs(cur[t])'
    BY <1>1, <1>5 DEF IndexedAs, c
  <2>2. QED BY <1>2, <2>1 DEF CursorAt, LoadAt
<1>10. SaveAt(t)'
  <2>1. pc'[t] = "buffer" => mode = "buffer"
    BY <1>2
  <2>2. c.hash \in Hashes(index)'
    BY <1>5
  <2>3. pc'[t] \in {"buffer", "put"} /\ cur'[t] = c
    BY <1>1, <1>2 DEF c
  <2>4. mode = "buffer" => c.hash \notin kept
    BY <1>1, <1>3 DEF SaveAt, c
  <2>5. QED BY <1>1, <1>6, <2>1, <2>2, <2>3, <2>4 DEF SaveAt
<1>11. \A u \in Thread : ThreadOrder(u)'
  BY <1>1, <1>2, <1>7, <1>8, <1>9, <1>10, OneThread DEF ThreadOrder
<1>12. HotAgrees'
  <2>1. mode = "hot" => Agree(todo[t], hot)
    BY <1>3 DEF TodoAt
  <2>2. QED BY <1>1, <1>5, <1>6, <2>1 DEF Orderly, HotAgrees, Agree
<1>13. RamOnly' /\ OneFile' /\ KeptOnDisk'
  BY <1>1 DEF Orderly, RamOnly, OneFile, WholeFiles, KeptOnDisk
<1>14. WithinLimit'
  <2>1. mode = "hot" /\ ~ closing => Saved' \subseteq Saved
    <3>1. mode = "hot" /\ ~ closing => Hashes(todo[t]) \cap Hashes(hot) = {}
      BY <1>3 DEF TodoAt
    <3>2. Hashes(hot)' = Hashes(hot) /\ Hashes(index)' = Hashes(index) \cup {c.hash}
      BY <1>1, <1>5 DEF Hashes
    <3>3. QED BY <1>1, <1>6, <3>1, <3>2 DEF Saved
  <2>2. CASE mode = "hot" /\ ~ closing
    BY <1>1, <2>1, <2>2, LimitStays
  <2>3. CASE ~ (mode = "hot" /\ ~ closing)
    BY <1>1, <2>3 DEF WithinLimit
  <2>4. QED BY <2>2, <2>3
<1>15. /\ \A e : (OnDisk(e)' <=> OnDisk(e)) /\ (InHand(e)' <=> InHand(e)) /\ (Held(e) <=> Held(e)')
       /\ \A f : (WriterHas(f)' <=> WriterHas(f)) /\ (Going(f)' <=> Going(f)) /\ ~ ThreadHas(t, f)
       /\ \A u \in Thread : \A e : ~ ComingBy(u, e) /\ ~ HeldBy(u, e)
       /\ \A u \in Thread : \A f : ~ ThreadHas(u, f)
       /\ WholeFiles' = WholeFiles
  <2>1. \A e : (OnDisk(e)' <=> OnDisk(e)) /\ (InHand(e)' <=> InHand(e))
    BY <1>1 DEF OnDisk, InHand, Whole, Writer, About
  <2>2. \A e : Held(e) <=> Held(e)'
    BY <1>1 DEF Held, Hashes
  <2>3. \A f : (WriterHas(f)' <=> WriterHas(f)) /\ (Going(f)' <=> Going(f))
    BY <1>1 DEF WriterHas, Going
  <2>4. \A f : ~ ThreadHas(t, f)
    BY <1>1, EmptyQueue DEF ThreadHas
  <2>5. \A u \in Thread : \A e : ~ ComingBy(u, e) /\ ~ HeldBy(u, e)
    BY <1>1, <1>7 DEF ComingBy, HeldBy
  <2>6. \A u \in Thread : \A f : ~ ThreadHas(u, f)
    BY <1>7, <2>4 DEF ThreadHas
  <2>7. QED BY <1>1, <2>1, <2>2, <2>3, <2>4, <2>5, <2>6 DEF WholeFiles
<1>16. IndexBacked'
  <2> SUFFICES ASSUME NEW e \in ToSet(index')
               PROVE  OnDisk(e)' \/ WriteLast(queue', e) \/ InHand(e)' \/ ComingBy(t, e)'
    BY DEF IndexBacked
  <2>1. CASE e = c
    <3>1. pc'[t] = "buffer" \/ (pc'[t] = "put" /\ added'[t])
      BY <1>1, <1>2, <1>6
    <3>2. QED BY <1>1, <2>1, <3>1 DEF ComingBy, c
  <2>2. CASE e \in ToSet(index)
    <3>1. OnDisk(e) \/ WriteLast(queue, e) \/ InHand(e)
      BY <1>15, <2>2 DEF Orderly, IndexBacked
    <3>2. QED BY <1>1, <1>15, <3>1
  <2>3. QED BY <1>5, <2>1, <2>2
<1>17. FilesOwned' /\ \A f \in WholeFiles : NameOf(f) \notin ToSet(index) => Going(f)
  <2>1. \A f \in WholeFiles : NameOf(f) \in ToSet(index) \/ UnlinkIn(queue, f) \/ WriterHas(f)
    BY <1>1, <1>15 DEF Orderly, FilesOwned
  <2>2. \A f \in WholeFiles' : \/ NameOf(f) \in ToSet(index') \/ UnlinkIn(queue', f) \/ WriterHas(f)'
    BY <1>1, <1>5, <1>15, <2>1
  <2>3. QED BY <2>1, <2>2 DEF FilesOwned, NameOf, Going
<1>18. FilesFirst'
  <2> SUFFICES ASSUME NEW f \in WholeFiles
               PROVE  /\ UnlinkedFirst(queue', f) \/ WriterHas(f)'
                      /\ \A u \in Thread : Writes(u)' /\ cur'[u].hash = f.hash => Going(f)'
                      /\ wpc' \in {"open", "data"} => witem'.hash # f.hash
                      /\ wpc' = "rename" /\ witem'.hash = f.hash => f.path = witem'.path + 1
    BY <1>15 DEF FilesFirst
  <2>1. /\ UnlinkedFirst(queue, f) \/ WriterHas(f)
        /\ wpc \in {"open", "data"} => witem.hash # f.hash
        /\ wpc = "rename" /\ witem.hash = f.hash => f.path = witem.path + 1
    BY DEF Orderly, FilesFirst
  <2>2. ASSUME NEW u \in Thread, Writes(u)', cur'[u].hash = f.hash PROVE Going(f)'
    <3>1. u = t
      BY <1>2, <1>7, <2>2 DEF Writes
    <3>2. f.hash = c.hash /\ NameOf(f).hash = f.hash
      BY <1>1, <2>2, <3>1 DEF c, NameOf
    <3>3. NameOf(f) \notin ToSet(index)
      BY <1>5, <3>2
    <3>4. QED BY <1>15, <1>17, <3>3
  <2>3. QED BY <1>1, <1>15, <2>1, <2>2
<1>19. InMemory'
  <2> SUFFICES ASSUME NEW e \in ToSet(index') PROVE OnDisk(e)' \/ Held(e)' \/ HeldBy(t, e)'
    BY DEF InMemory
  <2>1. CASE e = c
    <3>1. mode = "hot" => Held(e)
      BY <1>6, <2>1 DEF Held
    <3>2. mode = "buffer" => HeldBy(t, e)'
      BY <1>1, <1>2, <2>1 DEF HeldBy, c
    <3>3. QED BY <1>1, <1>15, <3>1, <3>2
  <2>2. CASE e \in ToSet(index)
    BY <1>15, <2>2 DEF Orderly, InMemory
  <2>3. QED BY <1>5, <2>1, <2>2
<1>20. KeptSomewhere'
  <2> SUFFICES ASSUME NEW h \in kept PROVE KeptAt(h)'
    BY <1>1 DEF KeptSomewhere
  <2>1. KeptAt(h)
    BY <1>1 DEF Orderly, KeptSomewhere
  <2>2. \A u \in Thread : Ahead(u)' = Ahead(u)
    <3>1. \A u \in Thread : (pc'[u] = "owe") <=> (pc[u] = "owe")
      BY <1>1, <1>2
    <3>2. QED BY <1>1, <3>1 DEF Ahead, Hashes
  <2>3. Hashes(hot)' = Hashes(hot) /\ Hashes(index)' = Hashes(index) \cup {c.hash}
    BY <1>1, <1>5 DEF Hashes
  <2>4. QED BY <1>1, <2>1, <2>2, <2>3 DEF KeptAt
<1>21. QED BY <1>11, <1>12, <1>13, <1>14, <1>16, <1>17, <1>18, <1>19, <1>20 DEF Orderly

------------------------------------------------------------------------------
(* The writer in a calm schedule *)

\* No write of the block is to come: its entry has its file, or the writer has it.
LEMMA NoneComing ==
  ASSUME Orderly, NEW e \in ToSet(index), ~ WriteComing(e.hash)
  PROVE  OnDisk(e) \/ InHand(e)
<1>1. ~ WriteLast(queue, e)
  BY DEF WriteLast, WriteComing, WriteItem
<1>2. \A t \in Thread : ~ ComingBy(t, e)
  BY DEF ComingBy, WriteComing
<1>3. QED BY <1>1, <1>2 DEF Orderly, IndexBacked

\* A step of the writer, as the threads see it.
LEMMA WriterAround ==
  ASSUME Types, Types', Orderly, up,
         UNCHANGED <<mode, up, closing, limit, pc, cur, todo, unlinks, added>>,
         ToSet(index') \subseteq ToSet(index), ToSet(hot') \subseteq ToSet(hot),
         hot' = hot \/ mode = "buffer", kept' \subseteq kept,
         \A h \in kept' : h \in Hashes(index) => h \in Hashes(index'),
         \A h \in kept' : h \in Hashes(hot) => h \in Hashes(hot') \/ h \in Hashes(index'),
         \A t \in Thread : pc[t] \in {"unlink", "put"} /\ cur[t].hash \in pending =>
                             cur[t].hash \in pending',
         \A t \in Thread : pc[t] = "bufferPut" /\ cur[t].hash \in Hashes(hot) =>
                             cur[t].hash \in Hashes(hot'),
         \A e \in ToSet(index') : OnDisk(e) => OnDisk(e)'
  PROVE  (\A t \in Thread : ThreadOrder(t)') /\ HotAgrees' /\ WithinLimit' /\ KeptSomewhere' /\ KeptOnDisk'
<1>1. /\ Hashes(index)' = Hashes(index') /\ Hashes(hot)' = Hashes(hot')
      /\ Hashes(index') \subseteq Hashes(index) /\ Hashes(hot') \subseteq Hashes(hot)
      /\ \A t \in Thread : Hashes(todo[t])' = Hashes(todo[t])
      /\ \A t \in Thread : Hashes(unlinks[t])' = Hashes(unlinks[t])
  <2>1. /\ Hashes(index) = {e.hash : e \in ToSet(index)} /\ Hashes(index') = {e.hash : e \in ToSet(index')}
        /\ Hashes(hot) = {e.hash : e \in ToSet(hot)} /\ Hashes(hot') = {e.hash : e \in ToSet(hot')}
    BY BlocksOf DEF Types
  <2>2. Hashes(index') \subseteq Hashes(index) /\ Hashes(hot') \subseteq Hashes(hot)
    BY <2>1
  <2>3. QED BY <2>2 DEF Hashes
<1>2. ASSUME NEW t \in Thread PROVE TodoAt(t)'
  <2>1. TodoAt(t)
    BY DEF Orderly, ThreadOrder
  <2>2. /\ OnePerBlock(todo[t])' <=> OnePerBlock(todo[t])
        /\ Agree(todo[t], hot) => Agree(todo[t], hot)'
        /\ Agree(todo[t], index) => Agree(todo[t], index)'
    BY DEF OnePerBlock, Agree
  <2>3. closing => Hashes(todo[t]) \subseteq Hashes(hot')
    <3>1. mode = "buffer" => Hashes(todo[t]) = {}
      BY <2>1, NoBlocks DEF TodoAt
    <3>2. hot' = hot => (closing => Hashes(todo[t]) \subseteq Hashes(hot'))
      BY <2>1 DEF TodoAt
    <3>3. QED BY <3>1, <3>2
  <2>4. QED BY <1>1, <2>1, <2>2, <2>3 DEF TodoAt
<1>3. ASSUME NEW t \in Thread PROVE CursorAt(t)'
  <2>1. CursorAt(t)
    BY DEF Orderly, ThreadOrder
  <2>2. IndexedAs(cur[t]) => IndexedAs(cur[t])'
    BY DEF IndexedAs
  <2>3. index = <<>> => index' = <<>>
    BY NonEmptyQueue, EmptyQueue DEF Types
  <2>4. OnePerBlock(unlinks[t])' <=> OnePerBlock(unlinks[t])
    BY DEF OnePerBlock
  <2>5. QED BY <1>1, <2>1, <2>2, <2>3, <2>4 DEF CursorAt
<1>4. ASSUME NEW t \in Thread PROVE LoadAt(t)' /\ SaveAt(t)'
  <2>1. LoadAt(t) /\ SaveAt(t)
    BY DEF Orderly, ThreadOrder
  <2>2. LoadAt(t)'
    BY <2>1 DEF LoadAt
  <2>3. SaveAt(t)'
    BY <1>1, <2>1 DEF SaveAt
  <2>4. QED BY <2>2, <2>3
<1>5. HotAgrees'
  BY DEF Orderly, HotAgrees, Agree
<1>6. WithinLimit'
  <2>1. Saved' \subseteq Saved
    BY <1>1 DEF Saved
  <2>2. QED BY <2>1, LimitStays
<1>7. KeptSomewhere'
  <2> SUFFICES ASSUME NEW h \in kept' PROVE KeptAt(h)'
    BY DEF KeptSomewhere
  <2>1. KeptAt(h)
    BY DEF Orderly, KeptSomewhere
  <2>2. \A t \in Thread : Ahead(t)' = Ahead(t)
    BY DEF Ahead, Hashes
  <2>3. QED BY <1>1, <2>1, <2>2 DEF KeptAt
<1>8. KeptOnDisk'
  BY DEF KeptOnDisk
<1>9. QED BY <1>2, <1>3, <1>4, <1>5, <1>6, <1>7, <1>8 DEF ThreadOrder

\* ... and as the files see it, once it has taken its item from the queue.
LEMMA WriterFiles ==
  ASSUME Types', Orderly, up, wpc # "get", UNCHANGED <<mode, pc, cur, added, unlinks, queue>>,
         ToSet(index') \subseteq ToSet(index),
         \A e \in ToSet(index') : OnDisk(e) => OnDisk(e)',
         \A e \in ToSet(index') : InHand(e) => InHand(e)' \/ OnDisk(e)',
         \A e \in ToSet(index') : Held(e) => Held(e)' \/ OnDisk(e)',
         \A f \in WholeFiles' :
           \/ WriterHas(f)'
           \/ /\ f \in WholeFiles
              /\ WriterHas(f) => NameOf(f) \in ToSet(index') /\ ~ WriteComing(f.hash)
              /\ NameOf(f) \in ToSet(index) => NameOf(f) \in ToSet(index'),
         \A f \in WholeFiles' : wpc' \in {"open", "data"} => witem'.hash # f.hash,
         \A f \in WholeFiles' : wpc' = "rename" /\ witem'.hash = f.hash => f.path = witem'.path + 1
  PROVE  RamOnly' /\ IndexBacked' /\ FilesOwned' /\ FilesFirst' /\ InMemory'
<1>1. RamOnly'
  BY DEF Orderly, RamOnly
<1>2. \A e : \A t \in Thread : (ComingBy(t, e)' <=> ComingBy(t, e)) /\ (HeldBy(t, e)' <=> HeldBy(t, e))
  BY DEF ComingBy, HeldBy
<1>3. IndexBacked'
  <2> SUFFICES ASSUME NEW e \in ToSet(index')
               PROVE  OnDisk(e)' \/ WriteLast(queue', e) \/ InHand(e)' \/ \E t \in Thread : ComingBy(t, e)'
    BY DEF IndexBacked
  <2>1. OnDisk(e) \/ WriteLast(queue, e) \/ InHand(e) \/ \E t \in Thread : ComingBy(t, e)
    BY DEF Orderly, IndexBacked
  <2>2. QED BY <1>2, <2>1
<1>4. InMemory'
  <2> SUFFICES ASSUME NEW e \in ToSet(index')
               PROVE  OnDisk(e)' \/ Held(e)' \/ \E t \in Thread : HeldBy(t, e)'
    BY DEF InMemory
  <2>1. OnDisk(e) \/ Held(e) \/ \E t \in Thread : HeldBy(t, e)
    BY DEF Orderly, InMemory
  <2>2. QED BY <1>2, <2>1
<1>5. FilesOwned'
  <2> SUFFICES ASSUME NEW f \in WholeFiles', ~ WriterHas(f)'
               PROVE  \/ NameOf(f) \in ToSet(index') \/ UnlinkIn(queue', f)
                      \/ \E t \in Thread : ThreadHas(t, f)'
    BY DEF FilesOwned, NameOf
  <2>1. /\ f \in WholeFiles
        /\ WriterHas(f) => NameOf(f) \in ToSet(index')
        /\ NameOf(f) \in ToSet(index) => NameOf(f) \in ToSet(index')
    OBVIOUS
  <2>2. \/ NameOf(f) \in ToSet(index) \/ UnlinkIn(queue, f) \/ WriterHas(f)
        \/ \E t \in Thread : ThreadHas(t, f)
    BY <2>1 DEF Orderly, FilesOwned
  <2>3. \A t \in Thread : ThreadHas(t, f) => ThreadHas(t, f)'
    BY DEF ThreadHas
  <2>4. QED BY <2>1, <2>2, <2>3
<1>6. FilesFirst'
  <2> SUFFICES ASSUME NEW f \in WholeFiles'
               PROVE  /\ UnlinkedFirst(queue', f) \/ WriterHas(f)'
                      /\ \A t \in Thread : Writes(t)' /\ cur'[t].hash = f.hash => Going(f)'
                      /\ wpc' \in {"open", "data"} => witem'.hash # f.hash
                      /\ wpc' = "rename" /\ witem'.hash = f.hash => f.path = witem'.path + 1
    BY DEF FilesFirst
  <2>1. WriterHas(f)' => Going(f)'
    BY DEF Going
  <2>2. ASSUME ~ WriterHas(f)'
        PROVE  /\ UnlinkedFirst(queue, f)
               /\ \A t \in Thread : Writes(t) /\ cur[t].hash = f.hash => UnlinkIn(queue, f)
    <3>1. f \in WholeFiles /\ (WriterHas(f) => ~ WriteComing(f.hash))
      BY <2>2
    <3>2. ~ WriteComing(f.hash) => /\ UnlinkedFirst(queue, f)
                                   /\ \A t \in Thread : ~ (Writes(t) /\ cur[t].hash = f.hash)
      BY DEF WriteComing, UnlinkedFirst, Writes
    <3>3. /\ UnlinkedFirst(queue, f) \/ WriterHas(f)
          /\ \A t \in Thread : Writes(t) /\ cur[t].hash = f.hash => Going(f)
      BY <3>1 DEF Orderly, FilesFirst
    <3>4. QED BY <3>1, <3>2, <3>3 DEF Going
  <2>3. \A t \in Thread : Writes(t)' <=> Writes(t)
    BY DEF Writes
  <2>4. UnlinkIn(queue, f) => Going(f)'
    BY DEF Going
  <2>5. QED BY <2>1, <2>2, <2>3, <2>4
<1>7. QED BY <1>1, <1>3, <1>4, <1>5, <1>6

\* A step of the writer that changes its files, and nothing in memory.
LEMMA WriterOnly ==
  ASSUME AInv, AInv', Orderly, wpc # "get",
         UNCHANGED <<mode, up, closing, index, hot, limit, pending, queue, pc, cur, todo, unlinks, added,
                     kept>>,
         \A e \in ToSet(index) : OnDisk(e) => OnDisk(e)',
         \A e \in ToSet(index) : InHand(e) => InHand(e)' \/ OnDisk(e)',
         \A f \in WholeFiles' :
           \/ WriterHas(f)'
           \/ f \in WholeFiles /\ (WriterHas(f) => NameOf(f) \in ToSet(index) /\ ~ WriteComing(f.hash)),
         \A f \in WholeFiles' : wpc' \in {"open", "data"} => witem'.hash # f.hash,
         \A f \in WholeFiles' : wpc' = "rename" /\ witem'.hash = f.hash => f.path = witem'.path + 1,
         OneFile'
  PROVE  Orderly'
<1>1. Types /\ Types' /\ up
  BY DEF AInv, Down
<1>2. (\A t \in Thread : ThreadOrder(t)') /\ HotAgrees' /\ WithinLimit' /\ KeptSomewhere' /\ KeptOnDisk'
  BY <1>1, WriterAround
<1>3. \A e : Held(e) => Held(e)'
  BY DEF Held, Hashes
<1>4. RamOnly' /\ IndexBacked' /\ FilesOwned' /\ FilesFirst' /\ InMemory'
  BY <1>1, <1>3, WriterFiles
<1>5. QED BY <1>2, <1>4 DEF Orderly

\* The writer opens the temporary file: it is not whole.
LEMMA WOpenOrderly ==
  ASSUME AInv, AInv', Orderly, WOpen
  PROVE  Orderly'
<1>1. /\ wpc = "open" /\ wpc' = "data" /\ witem' = witem /\ disk \subseteq File
      /\ disk' = Unlinked(witem.hash, witem.path + 1)
                   \cup {[hash |-> witem.hash, path |-> witem.path + 1, whole |-> FALSE]}
      /\ UNCHANGED <<mode, up, closing, index, hot, limit, pending, queue, pc, cur, todo, unlinks, added, kept>>
  BY DEF AInv, Types, WOpen, config, life, memory, caller
<1>2. WholeFiles' \subseteq WholeFiles
  BY <1>1 DEF WholeFiles, Unlinked
<1>3. \A e : OnDisk(e) => OnDisk(e)'
  BY <1>1 DEF OnDisk, Writer, Whole, Unlinked, About
<1>4. \A e : InHand(e) => InHand(e)'
  BY <1>1 DEF InHand, About
<1>5. \A f : ~ WriterHas(f)
  BY <1>1 DEF WriterHas
<1>6. \A f \in WholeFiles' : witem'.hash # f.hash
  BY <1>1, <1>2 DEF Orderly, FilesFirst
<1>7. OneFile'
  <2> DEFINE new == [hash |-> witem.hash, path |-> witem.path + 1, whole |-> FALSE]
  <2>0. /\ \A f \in disk' : f = new \/ (f \in disk /\ ~ (f.hash = witem.hash /\ f.path = witem.path + 1))
        /\ new.hash = witem.hash /\ new.path = witem.path + 1
    BY <1>1 DEF Unlinked
  <2> HIDE DEF new
  <2>1. \A f, g \in disk' : f.hash = g.hash /\ f.path = g.path => f = g
    BY <2>0 DEF Orderly, OneFile
  <2>2. QED BY <1>2, <2>1 DEF Orderly, OneFile
<1>8. QED BY <1>1, <1>2, <1>3, <1>4, <1>5, <1>6, <1>7, WriterOnly

\* ... completes it: the only whole file of its block ...
LEMMA WDataOrderly ==
  ASSUME AInv, AInv', Orderly, WData
  PROVE  Orderly'
<1> PICK new : new = [hash |-> witem.hash, path |-> witem.path + 1, whole |-> TRUE]
  OBVIOUS
<1>1. /\ wpc = "data" /\ wpc' = "rename" /\ witem' = witem /\ disk \subseteq File
      /\ disk' = {IF f.hash = witem.hash /\ f.path = witem.path + 1
                  THEN [f EXCEPT !.whole = TRUE] ELSE f : f \in disk}
      /\ UNCHANGED <<mode, up, closing, index, hot, limit, pending, queue, pc, cur, todo, unlinks, added, kept>>
  BY DEF AInv, Types, WData, config, life, memory, caller
<1>2. \A f \in WholeFiles : f.hash # witem.hash
  BY <1>1 DEF Orderly, FilesFirst
<1>3. \A f \in disk : f.hash = witem.hash /\ f.path = witem.path + 1 => [f EXCEPT !.whole = TRUE] = new
  <2> SUFFICES ASSUME NEW f \in disk, f.hash = witem.hash, f.path = witem.path + 1
               PROVE  [f EXCEPT !.whole = TRUE] = new
    OBVIOUS
  <2> DEFINE g == [f EXCEPT !.whole = TRUE]
  <2>1. f \in [hash : Hash, path : Path, whole : BOOLEAN]
    BY <1>1 DEF File
  <2>2. /\ g \in [hash : Hash, path : Path, whole : BOOLEAN]
        /\ g.hash = f.hash /\ g.path = f.path /\ g.whole = TRUE
    BY <2>1
  <2>3. new \in [hash : Hash, path : Path, whole : BOOLEAN]
    BY <2>1
  <2> HIDE DEF g
  <2>4. g = new
    BY <2>2, <2>3
  <2>5. QED BY <2>4 DEF g
<1>4. /\ \A f \in disk' : f = new \/ (f \in disk /\ ~ (f.hash = witem.hash /\ f.path = witem.path + 1))
      /\ \A f \in disk : ~ (f.hash = witem.hash /\ f.path = witem.path + 1) => f \in disk'
  BY <1>1, <1>3
<1>5. new.hash = witem.hash /\ new.path = witem.path + 1 /\ new.whole
  OBVIOUS
<1>6. \A f \in WholeFiles' : f = new \/ f \in WholeFiles
  BY <1>4 DEF WholeFiles
<1>7. \A e : OnDisk(e) => OnDisk(e)'
  <2> SUFFICES ASSUME NEW e, OnDisk(e) PROVE OnDisk(e)'
    OBVIOUS
  <2>1. e.hash # witem.hash
    BY <1>1 DEF OnDisk, Writer
  <2>2. Whole(e)'
    BY <1>4, <2>1 DEF OnDisk, Whole
  <2>3. QED BY <1>1, <2>1, <2>2 DEF OnDisk, Writer, About
<1>8. \A e : InHand(e) => InHand(e)'
  BY <1>1 DEF InHand, About
<1>9. (\A f : ~ WriterHas(f)) /\ WriterHas(new)'
  BY <1>1, <1>5 DEF WriterHas
<1>10. \A f \in WholeFiles' : witem'.hash = f.hash => f.path = witem'.path + 1
  BY <1>1, <1>2, <1>5, <1>6
<1>11. OneFile'
  <2>1. \A f, g \in disk' : f.hash = g.hash /\ f.path = g.path => f = g
    BY <1>4, <1>5 DEF Orderly, OneFile
  <2>2. \A f, g \in WholeFiles' : f.hash = g.hash => f = g
    BY <1>2, <1>5, <1>6 DEF Orderly, OneFile
  <2>3. QED BY <2>1, <2>2 DEF OneFile
<1>12. QED BY <1>1, <1>6, <1>7, <1>8, <1>9, <1>10, <1>11, WriterOnly

\* ... and gives it its name.
LEMMA WRenameOrderly ==
  ASSUME AInv, AInv', Orderly, WRename
  PROVE  Orderly'
<1> PICK new : new = [hash |-> witem.hash, path |-> witem.path, whole |-> TRUE]
  OBVIOUS
<1>1. /\ wpc = "rename" /\ witem' = witem /\ disk \subseteq File
      /\ UNCHANGED <<mode, up, closing, index, hot, limit, pending, queue, pc, cur, todo, unlinks, added, kept>>
  BY DEF AInv, Types, WRename, config, life, memory, caller
<1>2. witem \in Entry
  BY <1>1 DEF AInv, Placed
<1>3. \A e : OnDisk(e) => e.hash # witem.hash
  BY <1>1 DEF OnDisk, Writer
<1>4. \A f \in WholeFiles : f.hash = witem.hash => f.path = witem.path + 1
  BY <1>1 DEF Orderly, FilesFirst
<1>5. CASE wpc' = "fail" /\ disk' = disk
  <2>1. \A e : (OnDisk(e) => OnDisk(e)') /\ (InHand(e) => InHand(e)')
    BY <1>1, <1>5 DEF OnDisk, InHand, Writer, Whole, About
  <2>2. WholeFiles' = WholeFiles /\ \A f : WriterHas(f) => WriterHas(f)'
    BY <1>1, <1>5 DEF WholeFiles, WriterHas
  <2>3. OneFile'
    BY <1>5, <2>2 DEF Orderly, OneFile
  <2>4. QED BY <1>1, <1>5, <2>1, <2>2, <2>3, WriterOnly
<1>6. CASE /\ wpc' = "check"
           /\ disk' = {f \in disk : ~ (f.hash = witem.hash
                                       /\ f.path \in {witem.path, witem.path + 1})} \cup {new}
  <2>1. new.hash = witem.hash /\ new.path = witem.path /\ new.whole
    OBVIOUS
  <2>2. \A f \in disk' : f = new \/ (f \in disk /\ ~ (f.hash = witem.hash
                                                      /\ f.path \in {witem.path, witem.path + 1}))
    BY <1>6
  <2>3. \A f \in WholeFiles' : f = new \/ (f \in WholeFiles /\ f.hash # witem.hash)
    BY <1>4, <2>2 DEF WholeFiles
  <2>4. ASSUME NEW e, OnDisk(e) PROVE OnDisk(e)'
    <3>1. Whole(e)'
      BY <1>3, <1>6, <2>4 DEF OnDisk, Whole
    <3>2. QED BY <1>1, <1>3, <2>4, <3>1 DEF OnDisk, Writer, About
  <2>5. ASSUME NEW e, InHand(e) PROVE OnDisk(e)'
    <3>1. e = witem /\ ~ About(queue, e.hash)
      BY <2>5 DEF InHand
    <3>2. Whole(e)'
      BY <1>6, <3>1 DEF Whole
    <3>3. QED BY <1>1, <1>6, <3>1, <3>2 DEF OnDisk, Writer, About
  <2>6. WriterHas(new)' /\ \A f : WriterHas(f) => f.hash = witem.hash
    BY <1>1, <1>6, <2>1 DEF WriterHas
  <2>7. OneFile'
    <3>1. \A f, g \in disk' : f.hash = g.hash /\ f.path = g.path => f = g
      BY <2>1, <2>2 DEF Orderly, OneFile
    <3>2. \A f, g \in WholeFiles' : f.hash = g.hash => f = g
      BY <2>1, <2>3 DEF Orderly, OneFile
    <3>3. QED BY <3>1, <3>2 DEF OneFile
  <2>8. wpc' \notin {"open", "data", "rename"}
    BY <1>6
  <2>9. QED BY <1>1, <2>3, <2>4, <2>5, <2>6, <2>7, <2>8, WriterOnly
<1>7. QED BY <1>5, <1>6 DEF WRename

\* ... but removes it again if the block has been evicted ...
LEMMA WCheckOrderly ==
  ASSUME AInv, AInv', Calm', Orderly, WCheck
  PROVE  Orderly'
<1>1. /\ wpc = "check" /\ witem' = witem /\ ~ WriteComing(witem.hash)
      /\ wpc' = IF witem.hash \in Hashes(index) THEN "finish" ELSE "unlink"
      /\ UNCHANGED <<mode, up, closing, index, hot, limit, pending, queue, pc, cur, todo, unlinks, added, kept, disk>>
  BY DEF WCheck, config, life, memory, caller, Calm
<1>2. Hashes(index) = {e.hash : e \in ToSet(index)}
  BY BlocksOf DEF AInv, Types
<1>3. \A e : ~ InHand(e)
  BY <1>1 DEF InHand
<1>4. \A e \in ToSet(index) : e.hash = witem.hash => e = witem
  BY <1>1, <1>3, NoneComing DEF OnDisk, Writer
<1>5. \A e \in ToSet(index) : OnDisk(e) => OnDisk(e)'
  BY <1>1, <1>2 DEF OnDisk, Writer, Whole, About
<1>6. WholeFiles' = WholeFiles
  BY <1>1 DEF WholeFiles
<1>7. ASSUME NEW f, WriterHas(f)
      PROVE  WriterHas(f)' \/ (NameOf(f) \in ToSet(index) /\ ~ WriteComing(f.hash))
  <2>1. f.hash = witem.hash /\ f.path = witem.path
    BY <1>1, <1>7 DEF WriterHas
  <2>2. witem \in Entry /\ witem = [hash |-> witem.hash, path |-> witem.path]
    BY <1>1 DEF AInv, Placed, Entry
  <2>3. NameOf(f) = witem
    BY <2>1, <2>2 DEF NameOf
  <2>4. CASE witem.hash \in Hashes(index)
    BY <1>1, <1>2, <1>4, <2>1, <2>3, <2>4
  <2>5. CASE witem.hash \notin Hashes(index)
    BY <1>1, <2>1, <2>5 DEF WriterHas
  <2>6. QED BY <2>4, <2>5
<1>8. OneFile' /\ wpc' \notin {"open", "data", "rename"}
  BY <1>1, <1>6 DEF Orderly, OneFile
<1>9. QED BY <1>1, <1>3, <1>5, <1>6, <1>7, <1>8, WriterOnly

\* ... and an evicted block's file goes ...
LEMMA WUnlinkOrderly ==
  ASSUME AInv, AInv', Orderly, WUnlink
  PROVE  Orderly'
<1>1. /\ wpc = "unlink" /\ wpc' = "finish" /\ witem' = witem /\ disk' = Unlinked(witem.hash, witem.path)
      /\ UNCHANGED <<mode, up, closing, index, hot, limit, pending, queue, pc, cur, todo, unlinks, added, kept>>
  BY DEF WUnlink, config, life, memory, caller
<1>2. \A e : ~ InHand(e) /\ (OnDisk(e) => OnDisk(e)')
  BY <1>1 DEF InHand, OnDisk, Writer, Whole, Unlinked, About
<1>3. disk' \subseteq disk /\ \A f \in WholeFiles' : f \in WholeFiles /\ ~ WriterHas(f)
  BY <1>1 DEF WholeFiles, WriterHas, Unlinked
<1>4. OneFile'
  BY <1>3 DEF Orderly, OneFile
<1>5. QED BY <1>1, <1>2, <1>3, <1>4, WriterOnly

\* The write goes wrong ...
LEMMA WErrorOrderly ==
  ASSUME AInv, AInv', Orderly, WError
  PROVE  Orderly'
<1>1. /\ wpc \in {"open", "data"} /\ wpc' = "fail" /\ witem' = witem
      /\ UNCHANGED <<mode, up, closing, index, hot, limit, pending, queue, pc, cur, todo, unlinks, added, kept,
                     disk>>
  BY DEF WError, config, life, memory, caller
<1>2. \A e : (InHand(e) => InHand(e)') /\ (OnDisk(e) => OnDisk(e)')
  BY <1>1 DEF InHand, OnDisk, Writer, Whole, About
<1>3. WholeFiles' = WholeFiles /\ \A f \in WholeFiles' : ~ WriterHas(f)
  BY <1>1 DEF WholeFiles, WriterHas
<1>4. OneFile'
  BY <1>1, <1>3 DEF Orderly, OneFile
<1>5. QED BY <1>1, <1>2, <1>3, <1>4, WriterOnly

\* ... and what there is of the files is removed.
LEMMA WCleanupOrderly ==
  ASSUME AInv, AInv', Orderly, WCleanup
  PROVE  Orderly'
<1>1. /\ wpc = "cleanup" /\ wpc' = "finish" /\ witem' = witem
      /\ disk' = {f \in disk : ~ (f.hash = witem.hash /\ f.path \in {witem.path, witem.path + 1})}
      /\ UNCHANGED <<mode, up, closing, index, hot, limit, pending, queue, pc, cur, todo, unlinks, added, kept>>
  BY DEF WCleanup, config, life, memory, caller
<1>2. \A e : ~ InHand(e) /\ (OnDisk(e) => OnDisk(e)')
  BY <1>1 DEF InHand, OnDisk, Writer, Whole, About
<1>3. disk' \subseteq disk /\ \A f \in WholeFiles' : f \in WholeFiles /\ ~ WriterHas(f)
  BY <1>1 DEF WholeFiles, WriterHas
<1>4. OneFile'
  BY <1>3 DEF Orderly, OneFile
<1>5. QED BY <1>1, <1>2, <1>3, <1>4, WriterOnly

\* A block whose write failed is no entry any more.
LEMMA WFailOrderly ==
  ASSUME AInv, AInv', Calm', Orderly, WFail
  PROVE  Orderly'
<1> DEFINE h == witem.hash
<1>1. /\ wpc = "fail" /\ wpc' = "cleanup" /\ witem' = witem /\ ~ WriteComing(h)
      /\ index' = Without(index, h) /\ kept' = kept \ {h}
      /\ UNCHANGED <<mode, up, closing, hot, limit, pending, queue, pc, cur, todo, unlinks, added, disk>>
  BY DEF WFail, config, life, caller, Calm
<1>2. Types /\ Types' /\ up /\ witem \in Entry
  BY <1>1 DEF AInv, Down, Placed
<1>3. /\ ToSet(index') = {e \in ToSet(index) : e.hash # h}
      /\ Hashes(index') = Hashes(index) \ {h}
  BY <1>1, <1>2, WithoutBlock DEF Types
<1>4. \A e \in ToSet(index) : e.hash = h => e = witem
  BY <1>1, NoneComing DEF OnDisk, Writer, InHand
<1>5. \A e \in ToSet(index') : (OnDisk(e) => OnDisk(e)') /\ ~ InHand(e) /\ (Held(e) => Held(e)')
  BY <1>1, <1>3 DEF OnDisk, Writer, Whole, About, InHand, Held, Hashes
<1>6. WholeFiles' = WholeFiles /\ \A f : WriterHas(f) => WriterHas(f)'
  BY <1>1 DEF WholeFiles, WriterHas
<1>7. ASSUME NEW f, NameOf(f) \in ToSet(index) PROVE NameOf(f) \in ToSet(index') \/ WriterHas(f)'
  <2>1. NameOf(f).hash = f.hash /\ NameOf(f).path = f.path
    BY DEF NameOf
  <2>2. CASE f.hash # h
    BY <1>3, <1>7, <2>1, <2>2
  <2>3. CASE f.hash = h
    <3>1. f.hash = witem.hash /\ f.path = witem.path
      BY <1>4, <1>7, <2>1, <2>3
    <3>2. QED BY <1>1, <3>1 DEF WriterHas
  <2>4. QED BY <2>2, <2>3
<1>8. OneFile'
  BY <1>1, <1>6 DEF Orderly, OneFile
<1> HIDE DEF h
<1>9. (\A t \in Thread : ThreadOrder(t)') /\ HotAgrees' /\ WithinLimit' /\ KeptSomewhere' /\ KeptOnDisk'
  BY <1>1, <1>2, <1>3, <1>5, WriterAround
<1>10. RamOnly' /\ IndexBacked' /\ FilesOwned' /\ FilesFirst' /\ InMemory'
  <2>1. /\ wpc # "get" /\ wpc' \notin {"open", "data", "rename"}
        /\ ToSet(index') \subseteq ToSet(index)
    BY <1>1, <1>3
  <2>2. \A f \in WholeFiles' : WriterHas(f)' \/ (f \in WholeFiles /\ ~ WriterHas(f)
                                 /\ (NameOf(f) \in ToSet(index) => NameOf(f) \in ToSet(index')))
    BY <1>6, <1>7
  <2>3. QED BY <1>1, <1>2, <1>5, <2>1, <2>2, WriterFiles
<1>11. QED BY <1>8, <1>9, <1>10 DEF Orderly

\* A write is over: its block is no longer pending.
LEMMA WFinishOrderly ==
  ASSUME AInv, AInv', Calm', Orderly, WFinish
  PROVE  Orderly'
<1> DEFINE h == witem.hash
<1>1. /\ wpc = "finish" /\ wpc' \in {"drop", "get"} /\ (wpc' = "drop" => witem' = witem)
      /\ ~ WriteComing(h) /\ pending' = pending \ {h}
      /\ UNCHANGED <<mode, up, closing, index, hot, limit, queue, pc, cur, todo, unlinks, added, disk, kept>>
  BY DEF WFinish, NoLongerPending, config, life, caller, Calm
<1>2. Types /\ Types' /\ up
  BY <1>1 DEF AInv, Down
<1>3. \A e : (OnDisk(e) => OnDisk(e)') /\ ~ InHand(e)
  BY <1>1 DEF OnDisk, Writer, Whole, About, InHand
<1>4. \A e \in ToSet(index) : e.hash = h => OnDisk(e)
  BY <1>1, <1>3, NoneComing
<1>5. \A e \in ToSet(index) : Held(e) => Held(e)' \/ OnDisk(e)'
  BY <1>1, <1>3, <1>4 DEF Held, Hashes
<1>6. \A t \in Thread : pc[t] \in {"unlink", "put"} => cur[t].hash # h
  BY <1>1 DEF WriteComing
<1>7. WholeFiles' = WholeFiles /\ \A f : ~ WriterHas(f)
  BY <1>1 DEF WholeFiles, WriterHas
<1>8. OneFile'
  BY <1>1, <1>7 DEF Orderly, OneFile
<1> HIDE DEF h
<1>9. (\A t \in Thread : ThreadOrder(t)') /\ HotAgrees' /\ WithinLimit' /\ KeptSomewhere' /\ KeptOnDisk'
  BY <1>1, <1>2, <1>3, <1>6, WriterAround
<1>10. RamOnly' /\ IndexBacked' /\ FilesOwned' /\ FilesFirst' /\ InMemory'
  <2>1. wpc # "get" /\ wpc' \notin {"open", "data", "rename"}
    BY <1>1
  <2>2. QED BY <1>1, <1>2, <1>3, <1>5, <1>7, <2>1, WriterFiles
<1>11. QED BY <1>8, <1>9, <1>10 DEF Orderly

\* ... and with the hot cache off its buffer goes.
LEMMA WDropOrderly ==
  ASSUME AInv, AInv', Calm', Orderly, WDrop
  PROVE  Orderly'
<1> DEFINE h == witem.hash
<1>1. /\ wpc = "drop" /\ wpc' = "get" /\ mode = "buffer"
      /\ ~ WriteComing(h) /\ hot' = Without(hot, h) /\ (h \in kept => h \in Hashes(index))
      /\ UNCHANGED <<mode, up, closing, index, pending, limit, queue, pc, cur, todo, unlinks, added, disk,
                     kept>>
  BY DEF WDrop, config, life, caller, Calm, AInv, Placed
<1>2. Types /\ Types' /\ up
  BY <1>1 DEF AInv, Down
<1>3. \A e : (OnDisk(e) => OnDisk(e)') /\ ~ InHand(e)
  BY <1>1 DEF OnDisk, Writer, Whole, About, InHand
<1>4. \A e \in ToSet(index) : e.hash = h => OnDisk(e)
  BY <1>1, <1>3, NoneComing
<1>5. /\ ToSet(hot') \subseteq ToSet(hot)
      /\ Hashes(hot') = Hashes(hot) \ {h}
  <2>1. ToSet(hot') = {e \in ToSet(hot) : e.hash # h} /\ Hashes(hot') = Hashes(hot) \ {h}
    BY <1>1, <1>2, WithoutBlock DEF Types
  <2>2. QED BY <2>1
<1>6. \A e \in ToSet(index) : Held(e) => Held(e)' \/ OnDisk(e)'
  <2>1. Hashes(hot)' = Hashes(hot) \ {h}
    BY <1>5 DEF Hashes
  <2>2. QED BY <1>1, <1>3, <1>4, <2>1 DEF Held
<1>7. \A t \in Thread : pc[t] = "bufferPut" => cur[t].hash # h
  BY <1>1 DEF WriteComing
<1>8. WholeFiles' = WholeFiles /\ \A f : ~ WriterHas(f)
  BY <1>1 DEF WholeFiles, WriterHas
<1>9. OneFile'
  BY <1>1, <1>8 DEF Orderly, OneFile
<1> HIDE DEF h
<1>10. (\A t \in Thread : ThreadOrder(t)') /\ HotAgrees' /\ WithinLimit' /\ KeptSomewhere' /\ KeptOnDisk'
  BY <1>1, <1>2, <1>3, <1>5, <1>7, WriterAround
<1>11. RamOnly' /\ IndexBacked' /\ FilesOwned' /\ FilesFirst' /\ InMemory'
  <2>1. wpc # "get" /\ wpc' \notin {"open", "data", "rename"}
    BY <1>1
  <2>2. QED BY <1>1, <1>2, <1>3, <1>6, <1>8, <2>1, WriterFiles
<1>12. QED BY <1>9, <1>10, <1>11 DEF Orderly

\* The writer takes an item: it removes the file, or begins the write.
LEMMA WGetOrderly ==
  ASSUME AInv, AInv', Orderly, WGet
  PROVE  Orderly'
<1> DEFINE x == Head(queue)
<1>1. /\ up /\ mode # "ram" /\ wpc = "get" /\ queue # <<>> /\ queue' = Tail(queue)
      /\ \/ x.op = "unlink" /\ disk' = Unlinked(x.hash, x.path) /\ UNCHANGED <<wpc, witem>>
         \/ /\ x.op = "write" /\ witem' = [hash |-> x.hash, path |-> x.path] /\ wpc' = "open"
            /\ disk' = disk
      /\ UNCHANGED <<mode, up, closing, index, hot, pending, limit, pc, cur, todo, unlinks, added, kept>>
  BY DEF WGet, CanWrite, config, life, caller, writer
<1>2. Types /\ Types'
  BY DEF AInv
<1>3. /\ queue' \in Seq(Item) /\ x \in Item
      /\ \A h : About(queue, h) <=> About(queue', h) \/ x.hash = h
      /\ \A e : WriteLast(queue, e) =>
                  WriteLast(queue', e) \/ (x = WriteItem(e) /\ ~ About(queue', e.hash))
      /\ \A f : UnlinkIn(queue, f) <=> UnlinkIn(queue', f) \/ x = UnlinkItem(f)
      /\ \A f : UnlinkedFirst(queue, f) /\ x # UnlinkItem(f) => UnlinkedFirst(queue', f)
      /\ \A f : x.op = "write" /\ x.hash = f.hash => ~ UnlinkedFirst(queue, f)
  <2>1. queue \in Seq(Item)
    BY <1>2 DEF Types
  <2>2. QED BY <1>1, <2>1, QueueShrinks
<1> HIDE DEF x
<1>4. \A f : ~ WriterHas(f)
  BY <1>1 DEF WriterHas
<1>5. ASSUME NEW e, OnDisk(e) PROVE OnDisk(e)'
  <2>1. x.hash # e.hash /\ ~ About(queue', e.hash) /\ Whole(e)
    BY <1>3, <1>5 DEF OnDisk
  <2>2. Whole(e)'
    BY <1>1, <2>1 DEF Whole, Unlinked
  <2>3. ~ Writer(e.hash)'
    BY <1>1, <2>1 DEF Writer
  <2>4. QED BY <2>1, <2>2, <2>3 DEF OnDisk
<1>6. /\ \A f \in WholeFiles' : f \in WholeFiles /\ x # UnlinkItem(f)
      /\ disk' \subseteq disk
  BY <1>1 DEF WholeFiles, Unlinked, UnlinkItem
<1>7. (\A t \in Thread : ThreadOrder(t)') /\ HotAgrees' /\ WithinLimit' /\ KeptSomewhere' /\ KeptOnDisk'
  BY <1>1, <1>2, <1>5, WriterAround
<1>8. RamOnly' /\ OneFile'
  BY <1>1, <1>6 DEF RamOnly, Orderly, OneFile
<1>9. \A e : \A t \in Thread : (ComingBy(t, e)' <=> ComingBy(t, e)) /\ (HeldBy(t, e)' <=> HeldBy(t, e))
  BY <1>1 DEF ComingBy, HeldBy
<1>10. IndexBacked'
  <2> SUFFICES ASSUME NEW e \in ToSet(index)
               PROVE  OnDisk(e)' \/ WriteLast(queue', e) \/ InHand(e)' \/ \E t \in Thread : ComingBy(t, e)'
    BY <1>1 DEF IndexBacked
  <2>1. OnDisk(e) \/ WriteLast(queue, e) \/ \E t \in Thread : ComingBy(t, e)
    BY <1>1 DEF Orderly, IndexBacked, InHand
  <2>2. ASSUME x = WriteItem(e), ~ About(queue', e.hash) PROVE InHand(e)'
    <3>1. x.op = "write" /\ x.hash = e.hash /\ x.path = e.path
      BY <2>2 DEF WriteItem
    <3>2. e \in Entry
      BY <1>2, BlocksOf DEF Types
    <3>3. witem' = e /\ wpc' = "open"
      BY <1>1, <3>1, <3>2 DEF Entry
    <3>4. QED BY <2>2, <3>3 DEF InHand
  <2>3. QED BY <1>3, <1>5, <1>9, <2>1, <2>2
<1>11. InMemory'
  <2> SUFFICES ASSUME NEW e \in ToSet(index)
               PROVE  OnDisk(e)' \/ Held(e)' \/ \E t \in Thread : HeldBy(t, e)'
    BY <1>1 DEF InMemory
  <2>1. OnDisk(e) \/ Held(e) \/ \E t \in Thread : HeldBy(t, e)
    BY DEF Orderly, InMemory
  <2>2. Held(e) => Held(e)'
    BY <1>1 DEF Held, Hashes
  <2>3. QED BY <1>5, <1>9, <2>1, <2>2
<1>12. FilesOwned'
  <2> SUFFICES ASSUME NEW f \in WholeFiles'
               PROVE  \/ NameOf(f) \in ToSet(index') \/ UnlinkIn(queue', f)
                      \/ \E t \in Thread : ThreadHas(t, f)'
    BY DEF FilesOwned, NameOf
  <2>1. \/ NameOf(f) \in ToSet(index) \/ UnlinkIn(queue, f)
        \/ \E t \in Thread : ThreadHas(t, f)
    BY <1>1, <1>4, <1>6 DEF Orderly, FilesOwned
  <2>2. \A t \in Thread : ThreadHas(t, f) => ThreadHas(t, f)'
    BY <1>1 DEF ThreadHas
  <2>3. QED BY <1>1, <1>3, <1>6, <2>1, <2>2
<1>13. FilesFirst'
  <2> SUFFICES ASSUME NEW f \in WholeFiles'
               PROVE  /\ UnlinkedFirst(queue', f)
                      /\ \A t \in Thread : Writes(t)' /\ cur'[t].hash = f.hash => Going(f)'
                      /\ wpc' \in {"open", "data"} => witem'.hash # f.hash
                      /\ wpc' # "rename"
    BY DEF FilesFirst
  <2>1. /\ UnlinkedFirst(queue, f)
        /\ \A t \in Thread : Writes(t) /\ cur[t].hash = f.hash => UnlinkIn(queue, f)
    BY <1>4, <1>6 DEF Orderly, FilesFirst, Going
  <2>2. UnlinkedFirst(queue', f) /\ (UnlinkIn(queue, f) => Going(f)')
    BY <1>3, <1>6, <2>1 DEF Going
  <2>3. x.op = "write" => x.hash # f.hash
    BY <1>3, <2>1
  <2>4. wpc' \in {"open", "data"} => witem'.hash # f.hash
    BY <1>1, <2>3
  <2>5. \A t \in Thread : Writes(t)' <=> Writes(t)
    BY <1>1 DEF Writes
  <2>6. QED BY <1>1, <2>1, <2>2, <2>4, <2>5
<1>14. QED BY <1>7, <1>8, <1>10, <1>11, <1>12, <1>13 DEF Orderly

------------------------------------------------------------------------------
(* A crash, a close and a restart in a calm schedule *)

\* Threads at rest, with nothing to queue.
LEMMA RestOrder ==
  ASSUME \A t \in Thread : pc'[t] = "idle" /\ todo'[t] = <<>>
  PROVE  \A t \in Thread : ThreadOrder(t)'
<1> SUFFICES ASSUME NEW t \in Thread PROVE ThreadOrder(t)'
  OBVIOUS
<1>1. TodoAt(t)'
  BY NothingToQueue DEF Chain
<1>2. CursorAt(t)' /\ LoadAt(t)' /\ SaveAt(t)'
  BY DEF CursorAt, LoadAt, SaveAt
<1>3. QED BY <1>1, <1>2 DEF ThreadOrder

\* What an empty hot cache, an empty queue and an idle writer say.
LEMMA EmptyMemory ==
  ASSUME hot' = <<>>, queue' = <<>>, wpc' = "get", \A t \in Thread : pc'[t] = "idle" /\ todo'[t] = <<>>,
         OneFile'
  PROVE  /\ \A t \in Thread : ThreadOrder(t)'
         /\ HotAgrees' /\ WithinLimit' /\ FilesFirst'
         /\ \A e : Whole(e)' => OnDisk(e)'
<1>1. Hashes(hot)' = {} /\ ToSet(hot)' = {} /\ ToSet(queue)' = {} /\ Len(queue)' = 0
  BY NoBlocks, EmptyQueue, EmptySeq DEF Hashes
<1>2. HotAgrees'
  BY <1>1 DEF HotAgrees, Agree
<1>3. WithinLimit'
  <2>1. Saved' = {}
    BY <1>1 DEF Saved
  <2>2. Cardinality(Saved)' = 0
    BY <2>1, FS_EmptySet
  <2>3. QED BY <2>2 DEF WithinLimit
<1>4. FilesFirst'
  <2>1. \A f : UnlinkedFirst(queue, f)'
    BY <1>1 DEF UnlinkedFirst
  <2>2. \A t \in Thread : ~ Writes(t)'
    BY DEF Writes
  <2>3. QED BY <2>1, <2>2 DEF FilesFirst
<1>5. \A e : Whole(e)' => OnDisk(e)'
  BY <1>1 DEF OnDisk, Writer, About
<1>6. QED BY <1>2, <1>3, <1>4, <1>5, RestOrder

\* What is in memory goes, and the whole files are of the blocks still kept.
LEMMA EmptiedOrderly ==
  ASSUME Orderly, Emptied, mode' = mode, disk' = disk,
         \A h \in kept' : \E f \in WholeFiles : f.hash = h
  PROVE  Orderly'
<1>1. /\ ~ up' /\ index' = <<>> /\ hot' = <<>> /\ queue' = <<>> /\ wpc' = "get"
      /\ \A t \in Thread : pc'[t] = "idle" /\ todo'[t] = <<>>
  BY DEF Emptied
<1>2. WholeFiles' = WholeFiles
  BY DEF WholeFiles
<1>3. OneFile'
  BY <1>2 DEF Orderly, OneFile
<1>4. ToSet(index)' = {}
  BY <1>1, EmptyQueue
<1>5. RamOnly' /\ IndexBacked' /\ FilesOwned' /\ InMemory' /\ KeptSomewhere' /\ KeptOnDisk'
  BY <1>1, <1>2, <1>4 DEF Orderly, RamOnly, IndexBacked, FilesOwned, InMemory, KeptSomewhere, KeptOnDisk
<1>6. QED BY <1>1, <1>3, <1>5, EmptyMemory DEF Orderly

\* A crash: only what is whole is owed.
LEMMA CrashOrderly ==
  ASSUME Orderly, Crash
  PROVE  Orderly'
<1>1. /\ Emptied /\ mode' = mode /\ disk' = disk
      /\ kept' = kept \cap {f.hash : f \in {g \in disk : g.whole}}
  BY DEF Crash, config
<1>2. \A h \in kept' : \E f \in WholeFiles : f.hash = h
  BY <1>1 DEF WholeFiles
<1>3. QED BY <1>1, <1>2, EmptiedOrderly

\* close() ends: every block kept has its file.
LEMMA CloseEndOrderly ==
  ASSUME AInv, Orderly, CloseEnd
  PROVE  Orderly'
<1>1. /\ closing /\ AtRest /\ queue = <<>> /\ wpc = "get" /\ up /\ Emptied /\ mode' = mode /\ disk' = disk
      /\ kept' = IF mode = "ram" THEN {} ELSE kept
  BY DEF CloseEnd, config, AInv, NamesBounded
<1>2. \A t \in Thread : pc[t] = "idle" /\ todo[t] = <<>>
  BY <1>1 DEF AtRest, Orderly, ThreadOrder, TodoAt, Chain
<1>3. Len(queue) = 0 /\ ToSet(queue) = {}
  BY <1>1, EmptySeq, EmptyQueue
<1>4. ASSUME NEW h \in kept, mode # "ram" PROVE \E f \in WholeFiles : f.hash = h
  <2>1. \A t \in Thread : h \notin Ahead(t)
    BY <1>2, NoBlocks DEF Ahead
  <2>2. mode = "buffer" => h \notin Hashes(hot)
    BY <1>2, <1>3, <1>1 DEF AInv, BuffersEnd, Queued, WriteIn, Writer
  <2>3. mode \in {"hot", "buffer"}
    BY <1>4, SSDAssumption DEF AInv, Types
  <2>4. h \in Hashes(index)
    BY <1>1, <2>1, <2>2, <2>3 DEF Orderly, KeptSomewhere, KeptAt
  <2>5. PICK e \in ToSet(index) : e.hash = h
    <3>1. Hashes(index) = {e.hash : e \in ToSet(index)}
      BY BlocksOf DEF AInv, Types
    <3>2. QED BY <2>4, <3>1
  <2>6. OnDisk(e)
    <3>1. ~ WriteLast(queue, e)
      BY <1>3 DEF WriteLast
    <3>2. ~ InHand(e) /\ \A t \in Thread : ~ ComingBy(t, e)
      BY <1>1, <1>2 DEF InHand, ComingBy
    <3>3. QED BY <3>1, <3>2 DEF Orderly, IndexBacked
  <2>7. QED BY <2>5, <2>6 DEF OnDisk, Whole, WholeFiles
<1>5. \A h \in kept' : \E f \in WholeFiles : f.hash = h
  BY <1>1, <1>4
<1>6. QED BY <1>1, <1>5, EmptiedOrderly

\* The sequences of some names have every one of them.
LEMMA ScanCovers ==
  ASSUME NEW names \in SUBSET Hash, NEW last \in [names -> Path], NEW order \in SetToSeqs(names),
         NEW found, found = [i \in 1 .. Len(order) |-> [hash |-> order[i], path |-> last[order[i]]]]
  PROVE  Hashes(found) = names
<1> DEFINE n == Cardinality(names)
<1>1. n \in Nat /\ IsFiniteSet(names)
  BY SSDAssumption, FS_Subset, FS_CardinalityType
<1>2. order \in [1 .. n -> names]
  BY DEF SetToSeqs
<1> HIDE DEF n
<1>3. Len(order) = n
  BY <1>1, <1>2, SeqDef, LenProperties
<1>4. /\ found \in Seq(Entry) /\ OnePerBlock(found)
      /\ \A e \in ToSet(found) : e.hash \in names
  BY ScanOrder
<1>5. Len(found) = n
  <2>1. DOMAIN found = 1 .. n
    BY <1>3
  <2>2. QED BY <1>1, <1>4, <2>1, LenProperties
<1>6. Hashes(found) \subseteq names
  BY <1>4, BlocksOf
<1>7. Cardinality(Hashes(found)) = n
  BY <1>4, <1>5, BlocksCounted
<1> DEFINE H == Hashes(found)
<1>8. H \subseteq names /\ Cardinality(H) = Cardinality(names)
  BY <1>6, <1>7 DEF n
<1> HIDE DEF H
<1>9. H = names
  BY <1>1, <1>8, FS_Subset
<1>10. QED BY <1>9 DEF H

\* A restart: the index is that of the whole files.
LEMMA OpenOrderly ==
  ASSUME AInv, AInv', Calm', Orderly, Open
  PROVE  Orderly'
<1>1. /\ ~ up /\ up' = TRUE
      /\ UNCHANGED <<mode, closing, hot, pending, queue, disk, pc, cur, todo, unlinks, added, wpc, witem,
                     kept>>
  BY DEF Open, config, caller, writer, counts
<1>2. hot = <<>> /\ queue = <<>> /\ AtRest /\ wpc = "get"
  BY <1>1 DEF AInv, Down
<1>3. \A t \in Thread : pc[t] = "idle" /\ todo[t] = <<>>
  BY <1>2 DEF AtRest, Orderly, ThreadOrder, TodoAt, Chain
<1>4. /\ \A e \in ToSet(index') : \E f \in WholeFiles : f.hash = e.hash /\ f.path = e.path
      /\ \A f \in WholeFiles : f.hash \in Hashes(index')
  <2>1. PICK readable \in SUBSET {f \in disk : ~ f.whole} :
          LET found == readable \cup {f \in disk : f.whole}
              names == {f.hash : f \in found}
          IN /\ disturbed' = (disturbed \/ readable # {})
             /\ \E order \in SetToSeqs(names) :
                \E last \in [names -> Path] :
                  /\ \A h \in names : \E f \in found : f.hash = h /\ f.path = last[h]
                  /\ index' = [i \in 1 .. Len(order) |-> [hash |-> order[i], path |-> last[order[i]]]]
    BY DEF Open
  <2> DEFINE found == readable \cup {f \in disk : f.whole}
             names == {f.hash : f \in found}
  <2>2. PICK order \in SetToSeqs(names), last \in [names -> Path] :
          /\ \A h \in names : \E f \in found : f.hash = h /\ f.path = last[h]
          /\ index' = [i \in 1 .. Len(order) |-> [hash |-> order[i], path |-> last[order[i]]]]
    BY <2>1
  <2>3. readable = {}
    BY <2>1 DEF Calm
  <2>4. found = WholeFiles /\ names \subseteq Hash /\ \A f \in WholeFiles : f.hash \in names
    BY <2>3 DEF AInv, Types, File, WholeFiles
  <2> HIDE DEF names, found
  <2>5. \A e \in ToSet(index') : e.hash \in names /\ e.path = last[e.hash]
    <3> DEFINE scan == [i \in 1 .. Len(order) |-> [hash |-> order[i], path |-> last[order[i]]]]
    <3>1. \A e \in ToSet(scan) : e.hash \in names /\ e.path = last[e.hash]
      BY <2>4, ScanOrder
    <3>2. index' = scan
      BY <2>2
    <3> HIDE DEF scan
    <3>3. QED BY <3>1, <3>2
  <2>6. Hashes(index') = names
    BY <2>2, <2>4, ScanCovers
  <2>7. QED BY <2>2, <2>4, <2>5, <2>6
<1>5. WholeFiles' = WholeFiles
  BY <1>1 DEF WholeFiles
<1>6. OneFile'
  BY <1>1, <1>5 DEF Orderly, OneFile
<1>7. /\ \A t \in Thread : ThreadOrder(t)'
      /\ HotAgrees' /\ WithinLimit' /\ FilesFirst'
      /\ \A e : Whole(e)' => OnDisk(e)'
  BY <1>1, <1>2, <1>3, <1>6, EmptyMemory
<1>8. \A e \in ToSet(index') : OnDisk(e)'
  <2>1. ASSUME NEW e \in ToSet(index') PROVE Whole(e)'
    <3>1. PICK f \in WholeFiles : f.hash = e.hash /\ f.path = e.path
      BY <1>4
    <3>2. f \in disk /\ f \in File /\ f.whole
      BY DEF WholeFiles, AInv, Types
    <3>3. f = [hash |-> e.hash, path |-> e.path, whole |-> TRUE]
      BY <3>1, <3>2 DEF File
    <3>4. QED BY <1>1, <3>2, <3>3 DEF Whole
  <2>2. QED BY <1>7, <2>1
<1>9. IndexBacked' /\ InMemory'
  BY <1>8 DEF IndexBacked, InMemory
<1>10. RamOnly'
  <2>1. mode = "ram" => WholeFiles = {}
    BY DEF Orderly, RamOnly, WholeFiles
  <2>2. mode = "ram" => ToSet(index') = {}
    BY <1>4, <2>1
  <2>3. index' \in Seq(Entry)
    BY DEF AInv, Types
  <2>4. QED BY <1>1, <2>2, <2>3, NonEmptyQueue DEF Orderly, RamOnly
<1>11. FilesOwned'
  <2>1. ASSUME NEW f \in WholeFiles PROVE NameOf(f) \in ToSet(index')
    <3>1. index' \in Seq(Entry)
      BY DEF AInv, Types
    <3>2. PICK e \in ToSet(index') : e.hash = f.hash
      BY <1>4, <3>1, BlocksOf
    <3>3. PICK g \in WholeFiles : g.hash = e.hash /\ g.path = e.path
      BY <1>4
    <3>4. g = f
      BY <3>2, <3>3 DEF Orderly, OneFile
    <3>5. e \in Entry
      BY <3>1, BlocksOf
    <3>6. NameOf(f) = e
      BY <3>2, <3>3, <3>4, <3>5 DEF NameOf, Entry
    <3>7. QED BY <3>6
  <2>2. QED BY <1>5, <2>1 DEF FilesOwned, NameOf
<1>12. KeptSomewhere' /\ KeptOnDisk'
  <2>1. \A h \in kept : h \in Hashes(index')
    BY <1>1, <1>4 DEF Orderly, KeptOnDisk
  <2>2. Hashes(index)' = Hashes(index')
    BY DEF Hashes
  <2>3. QED BY <1>1, <2>1, <2>2 DEF KeptSomewhere, KeptAt, KeptOnDisk
<1>13. QED BY <1>6, <1>7, <1>9, <1>10, <1>11, <1>12 DEF Orderly

\* A step that changes nothing.
LEMMA StutterOrderly ==
  ASSUME Orderly, UNCHANGED vars
  PROVE  Orderly'
<1>1. UNCHANGED <<mode, up, closing, index, hot, limit, pending, queue, disk, pc, cur, todo, unlinks, added,
                  wpc, witem, kept>>
  BY DEF vars, config, life, memory, caller, writer
<1>2. ASSUME NEW t \in Thread PROVE ThreadOrder(t)'
  <2>1. TodoAt(t) /\ CursorAt(t) /\ LoadAt(t) /\ SaveAt(t)
    BY DEF Orderly, ThreadOrder
  <2>2. /\ Hashes(todo[t])' = Hashes(todo[t]) /\ Hashes(hot)' = Hashes(hot)
        /\ Hashes(index)' = Hashes(index) /\ Hashes(unlinks[t])' = Hashes(unlinks[t])
    BY <1>1 DEF Hashes
  <2>3. /\ OnePerBlock(todo[t])' <=> OnePerBlock(todo[t])
        /\ OnePerBlock(unlinks[t])' <=> OnePerBlock(unlinks[t])
        /\ Agree(todo[t], hot)' <=> Agree(todo[t], hot)
        /\ Agree(todo[t], index)' <=> Agree(todo[t], index)
        /\ IndexedAs(cur[t])' <=> IndexedAs(cur[t])
    BY <1>1 DEF OnePerBlock, Agree, IndexedAs
  <2>4. TodoAt(t)'
    BY <1>1, <2>1, <2>2, <2>3 DEF TodoAt
  <2>5. CursorAt(t)'
    BY <1>1, <2>1, <2>2, <2>3 DEF CursorAt
  <2>6. SaveAt(t)'
    BY <1>1, <2>1, <2>2 DEF SaveAt
  <2>7. LoadAt(t)'
    <3>1. \A e : OnDisk(e)' <=> OnDisk(e)
      BY <1>1 DEF OnDisk, Whole, Writer, About
    <3>2. QED BY <1>1, <2>1, <3>1 DEF LoadAt
  <2>8. QED BY <2>4, <2>5, <2>6, <2>7 DEF ThreadOrder
<1>3. HotAgrees' /\ RamOnly'
  BY <1>1 DEF Orderly, HotAgrees, Agree, RamOnly
<1>4. WithinLimit'
  <2>1. Saved' = Saved
    BY <1>1 DEF Saved, Hashes
  <2>2. QED BY <1>1, <2>1 DEF Orderly, WithinLimit
<1>5. /\ \A e : (OnDisk(e)' <=> OnDisk(e)) /\ (InHand(e)' <=> InHand(e)) /\ (Held(e)' <=> Held(e))
      /\ \A t \in Thread : \A e : (ComingBy(t, e)' <=> ComingBy(t, e)) /\ (HeldBy(t, e)' <=> HeldBy(t, e))
      /\ \A f : (WriterHas(f)' <=> WriterHas(f)) /\ (Going(f)' <=> Going(f))
      /\ \A t \in Thread : \A f : ThreadHas(t, f)' <=> ThreadHas(t, f)
      /\ WholeFiles' = WholeFiles
  <2>1. \A e : (OnDisk(e)' <=> OnDisk(e)) /\ (InHand(e)' <=> InHand(e))
    BY <1>1 DEF OnDisk, Whole, Writer, About, InHand
  <2>2. \A e : Held(e)' <=> Held(e)
    BY <1>1 DEF Held, Hashes
  <2>3. \A t \in Thread : \A e : (ComingBy(t, e)' <=> ComingBy(t, e)) /\ (HeldBy(t, e)' <=> HeldBy(t, e))
    BY <1>1 DEF ComingBy, HeldBy
  <2>4. \A f : (WriterHas(f)' <=> WriterHas(f)) /\ (Going(f)' <=> Going(f))
    BY <1>1 DEF WriterHas, Going
  <2>5. \A t \in Thread : \A f : ThreadHas(t, f)' <=> ThreadHas(t, f)
    BY <1>1 DEF ThreadHas
  <2>6. WholeFiles' = WholeFiles
    BY <1>1 DEF WholeFiles
  <2>7. QED BY <2>1, <2>2, <2>3, <2>4, <2>5, <2>6
<1>6. IndexBacked' /\ InMemory'
  BY <1>1, <1>5 DEF Orderly, IndexBacked, InMemory
<1>7. FilesOwned'
  BY <1>1, <1>5 DEF Orderly, FilesOwned, NameOf
<1>8. FilesFirst'
  BY <1>1, <1>5 DEF Orderly, FilesFirst, Writes
<1>9. OneFile' /\ KeptOnDisk'
  BY <1>1, <1>5 DEF Orderly, OneFile, KeptOnDisk
<1>10. KeptSomewhere'
  <2>1. \A t \in Thread : Ahead(t)' = Ahead(t)
    BY <1>1 DEF Ahead, Hashes
  <2>2. Hashes(index)' = Hashes(index) /\ Hashes(hot)' = Hashes(hot)
    BY <1>1 DEF Hashes
  <2>3. QED BY <1>1, <2>1, <2>2 DEF Orderly, KeptSomewhere, KeptAt
<1>11. QED BY <1>2, <1>3, <1>4, <1>6, <1>7, <1>8, <1>9, <1>10 DEF Orderly

\* A new manager is in order.
LEMMA InitOrderly == Init => Orderly
<1> SUFFICES ASSUME Init PROVE Orderly
  OBVIOUS
<1> USE DEF Init
<1>1. /\ Hashes(<<>>) = {} /\ OnePerBlock(<<>>) /\ ToSet(<<>>) = {} /\ Len(<<>>) = 0
  BY NoBlocks, EmptyQueue, EmptySeq
<1>2. ASSUME NEW t \in Thread PROVE ThreadOrder(t)
  <2>1. TodoAt(t)
    BY <1>1 DEF TodoAt, Agree, Chain
  <2>2. QED BY <2>1 DEF CursorAt, LoadAt, SaveAt, ThreadOrder
<1>3. HotAgrees /\ RamOnly
  BY <1>1 DEF HotAgrees, Agree, RamOnly
<1>4. WithinLimit
  <2>1. Saved = {}
    BY <1>1 DEF Saved
  <2>2. Cardinality(Saved) = 0
    BY <2>1, FS_EmptySet
  <2>3. QED BY <2>2 DEF WithinLimit
<1>5. WholeFiles = {}
  BY DEF WholeFiles
<1>6. IndexBacked /\ FilesOwned /\ FilesFirst /\ OneFile /\ InMemory /\ KeptSomewhere /\ KeptOnDisk
  BY <1>1, <1>5 DEF IndexBacked, FilesOwned, FilesFirst, OneFile, InMemory, KeptSomewhere, KeptOnDisk
<1>7. QED BY <1>2, <1>3, <1>4, <1>6 DEF Orderly

\* Every step of a calm schedule keeps its order.
LEMMA OrderKeeps ==
  ASSUME AInv, AInv', Calm, Calm', Orderly, [Next]_vars
  PROVE  Orderly'
<1>0. Room = 0 \/ Room > 0
  <2>1. queue \in Seq(Item) /\ Len(queue) <= QueueMax /\ QueueMax \in Nat
    BY SSDAssumption DEF AInv, Types
  <2>2. Len(queue) \in Nat
    BY <2>1, LenProperties
  <2>3. QED BY <2>1, <2>2 DEF Room
<1>1. ASSUME NEW t \in Thread, Enqueuing(t) PROVE Orderly'
  <2>1. CASE UnlinkEvicted(t)
    BY <1>0, <2>1, UnlinkAddsOrderly, UnlinkHereOrderly, UnlinkLeftOrderly
  <2>2. CASE EnqueueBegin(t) \/ EnqueuePut(t) \/ EnqueueFull(t)
    BY <2>2, EnqueueBeginOrderly, EnqueuePutOrderly, EnqueueFullOrderly
  <2>3. CASE EnqueueOwe(t) \/ FlushSkip(t)
    BY <2>3, EnqueueEndsOrderly
  <2>4. QED BY <1>1, <2>1, <2>2, <2>3 DEF Enqueuing
<1>2. ASSUME NEW t \in Thread, Saving(t) PROVE Orderly'
  <2>1. CASE SaveInHot(t) \/ SaveRefused(t) \/ SaveHot(t)
    BY <2>1, SaveStepsOrderly
  <2>2. CASE PutHot(t) \/ SaveMakesRoom(t) \/ SaveBuffers(t)
    BY <2>2, PutHotOrderly, SaveMakesRoomOrderly, SaveBuffersOrderly
  <2>3. CASE SaveQueues(t)
    BY <1>0, <2>3, SaveUndoneOrderly, SaveQueuesOrderly
  <2>4. QED BY <1>2, <2>1, <2>2, <2>3 DEF Saving
<1>3. ASSUME NEW t \in Thread, Loading(t) PROVE Orderly'
  <2>1. CASE LoadIndex(t) \/ LoadExists(t) \/ LoadReads(t)
    BY <2>1, LoadStepsOrderly
  <2>2. CASE LoadMissing(t) \/ LoadFails(t) \/ LoadDiscards(t)
    BY <2>2, LoadMissingOrderly, LoadFailsOrderly, LoadDiscardsOrderly
  <2>3. QED BY <1>3, <2>1, <2>2 DEF Loading
<1>4. ASSUME NEW t \in Thread, Clearing(t) PROVE Orderly'
  BY <1>4, DeleteHotOrderly, DeleteIndexOrderly, DeleteFileOrderly, WipeOrderly DEF Clearing
<1>5. ASSUME NEW t \in Thread,
             \/ \E h \in Hash : SaveBegin(t, h) \/ LoadBegin(t, h)
             \/ \E n \in 1 .. HotMax, drop \in BOOLEAN : Shed(t, n, drop)
             \/ Relax(t) \/ ClearHot(t) \/ ClearBegin(t) \/ CloseBegin(t)
      PROVE  Orderly'
  <2>1. CASE \E h \in Hash : SaveBegin(t, h)
    BY <2>1, SaveStepsOrderly
  <2>2. CASE \E h \in Hash : LoadBegin(t, h)
    BY <2>2, LoadStepsOrderly
  <2>3. CASE \E n \in 1 .. HotMax, drop \in BOOLEAN : Shed(t, n, drop)
    BY <2>3, ShedOrderly
  <2>4. CASE Relax(t) \/ ClearBegin(t)
    BY <2>4, RelaxClearOrderly
  <2>5. CASE ClearHot(t) \/ CloseBegin(t)
    BY <2>5, ClearHotOrderly, CloseBeginOrderly
  <2>6. QED BY <1>5, <2>1, <2>2, <2>3, <2>4, <2>5
<1>6. CASE Writing \/ WError
  <2>1. CASE WGet \/ WOpen \/ WData \/ WRename \/ WUnlink \/ WCleanup \/ WError
    BY <2>1, WGetOrderly, WOpenOrderly, WDataOrderly, WRenameOrderly, WUnlinkOrderly, WCleanupOrderly,
       WErrorOrderly
  <2>2. CASE WCheck \/ WFail \/ WFinish \/ WDrop
    BY <2>2, WCheckOrderly, WFailOrderly, WFinishOrderly, WDropOrderly
  <2>3. QED BY <1>6, <2>1, <2>2 DEF Writing
<1>7. CASE Crash \/ CloseEnd \/ Open
  BY <1>7, CrashOrderly, CloseEndOrderly, OpenOrderly
<1>8. CASE UNCHANGED vars
  BY <1>8, StutterOrderly
<1>9. QED BY <1>1, <1>2, <1>3, <1>4, <1>5, <1>6, <1>7, <1>8 DEF Next, Step, Terminated

\* A schedule that is calm now has always been.
LEMMA CalmBefore == AInv /\ [Next]_vars => (Calm' => Calm)
<1> SUFFICES ASSUME AInv, [Next]_vars PROVE overlap' = overlap /\ (disturbed => disturbed')
  BY DEF Calm
<1>1. ASSUME NEW t \in Thread, Step(t) PROVE overlap' = overlap /\ (disturbed => disturbed')
  <2>1. CASE Enqueuing(t)
    <3>1. CASE FlushSkip(t)
      BY <3>1 DEF FlushSkip, config
    <3>2. CASE EnqueueBegin(t) \/ UnlinkEvicted(t)
      BY <3>2 DEF EnqueueBegin, UnlinkEvicted, config
    <3>3. CASE EnqueuePut(t) \/ EnqueueOwe(t) \/ EnqueueFull(t)
      BY <3>3 DEF EnqueuePut, EnqueueOwe, EnqueueFull, config
    <3>4. QED BY <2>1, <3>1, <3>2, <3>3 DEF Enqueuing
  <2>2. CASE Saving(t)
    BY <2>2 DEF Saving, SaveInHot, SaveRefused, SaveHot, PutHot, SaveMakesRoom, SaveBuffers, SaveQueues, config
  <2>3. CASE Loading(t)
    BY <2>3 DEF Loading, LoadIndex, LoadExists, LoadMissing, LoadReads, LoadFails, LoadDiscards, config
  <2>4. CASE Clearing(t)
    BY <2>4 DEF Clearing, DeleteHot, DeleteIndex, DeleteFile, Wipe, config
  <2>5. QED BY <1>1, <2>1, <2>2, <2>3, <2>4 DEF Step
<1>2. ASSUME NEW t \in Thread,
             \/ \E h \in Hash : SaveBegin(t, h) \/ LoadBegin(t, h)
             \/ \E n \in 1 .. HotMax, drop \in BOOLEAN : Shed(t, n, drop)
             \/ Relax(t) \/ ClearHot(t) \/ ClearBegin(t) \/ CloseBegin(t)
      PROVE  overlap' = overlap /\ (disturbed => disturbed')
  <2>1. CASE \E h \in Hash : SaveBegin(t, h) \/ LoadBegin(t, h)
    BY <2>1 DEF SaveBegin, LoadBegin, config
  <2>2. CASE \E n \in 1 .. HotMax, drop \in BOOLEAN : Shed(t, n, drop)
    BY <2>2 DEF Shed, config
  <2>3. CASE Relax(t) \/ ClearBegin(t) \/ CloseBegin(t)
    BY <2>3 DEF Relax, ClearBegin, CloseBegin, config
  <2>4. CASE ClearHot(t)
    BY <2>4 DEF ClearHot, config
  <2>5. QED BY <1>2, <2>1, <2>2, <2>3, <2>4
<1>3. CASE Writing \/ WError
  <2>1. CASE WGet \/ WOpen \/ WData \/ WRename
    BY <2>1 DEF WGet, WOpen, WData, WRename, config
  <2>2. CASE WUnlink \/ WError \/ WCleanup
    BY <2>2 DEF WUnlink, WError, WCleanup, config
  <2>3. CASE WCheck
    BY <2>3 DEF WCheck, config
  <2>4. CASE WFail
    BY <2>4 DEF WFail, config
  <2>5. CASE WFinish
    BY <2>5 DEF WFinish, config
  <2>6. CASE WDrop
    BY <2>6 DEF WDrop, config
  <2>7. QED BY <1>3, <2>1, <2>2, <2>3, <2>4, <2>5, <2>6 DEF Writing
<1>4. CASE Crash \/ CloseEnd \/ Open
  <2>1. CASE Crash \/ CloseEnd
    BY <2>1 DEF Crash, CloseEnd, config
  <2>2. CASE Open
    BY <2>2 DEF Open, config
  <2>3. QED BY <1>4, <2>1, <2>2
<1>5. CASE UNCHANGED vars
  BY <1>5 DEF vars, config
<1>6. QED BY <1>1, <1>2, <1>3, <1>4, <1>5 DEF Next, Terminated

\* As long as no two operations overlap and nothing was disturbed, the index,
\* the queue, the writer, the files and the memory agree about every block.
THEOREM SpecCalmInv == Spec => []CalmInv
<1>1. Init => CalmInv
  BY InitOrderly DEF CalmInv
<1>2. AInv /\ AInv' /\ CalmInv /\ [Next]_vars => CalmInv'
  BY OrderKeeps, CalmBefore DEF CalmInv
<1>3. QED BY <1>1, <1>2, SpecAInv, PTL DEF Spec

------------------------------------------------------------------------------
(* What a calm schedule promises *)

\* A block save_block answered True for can be loaded until an eviction, a
\* deletion, a failed write or a crash takes it: it is in the hot cache, on the
\* way from there to the queue, waiting for its write, or whole on the SSD,
\* through every step of the threads, of the writer, of a close and a restart.
THEOREM SavedStaysLoadable == Spec => []KeptLoadable
<1>1. ASSUME AInv, Orderly, up, NEW h \in kept PROVE Loadable(h)
  <2>1. KeptAt(h)
    BY <1>1 DEF Orderly, KeptSomewhere
  <2>2. ASSUME NEW t \in Thread, h \in Ahead(t) PROVE h \in Hashes(todo[t])
    <3>1. CASE pc[t] = "owe"
      <4>1. todo[t] \in Seq(Entry) /\ todo[t] # <<>>
        BY <1>1, <3>1 DEF AInv, Types, Placed, PlacedAt
      <4>2. Hashes(todo[t]) = Hashes(Tail(todo[t])) \cup {Head(todo[t]).hash}
        BY <4>1, TailBlocks
      <4>3. QED BY <2>2, <3>1, <4>2 DEF Ahead
    <3>2. QED BY <2>2, <3>1 DEF Ahead
  <2>3. CASE h \in Hashes(index)
    <3> DEFINE e == EntryOf(index, h)
    <3>1. e \in ToSet(index) /\ e.hash = h
      BY <1>1, <2>3, EntryIn DEF AInv, Types
    <3> HIDE DEF e
    <3>2. OnDisk(e) \/ Held(e) \/ \E t \in Thread : HeldBy(t, e)
      BY <1>1, <3>1 DEF Orderly, InMemory
    <3>3. OnDisk(e) => Loadable(h)
      BY <2>3 DEF OnDisk, Loadable, e
    <3>4. Held(e) => Loadable(h)
      BY <3>1 DEF Held, Loadable
    <3>5. ASSUME NEW t \in Thread, HeldBy(t, e) PROVE FALSE
      <4>1. SaveAt(t) /\ PlacedAt(t)
        BY <1>1 DEF Orderly, ThreadOrder, AInv, Placed
      <4>2. QED BY <1>1, <3>1, <3>5, <4>1 DEF HeldBy, SaveAt, PlacedAt
    <3>6. QED BY <3>2, <3>3, <3>4, <3>5
  <2>4. CASE h \in Hashes(hot)
    BY <2>4 DEF Loadable
  <2>5. CASE \E t \in Thread : h \in Ahead(t)
    BY <2>2, <2>5 DEF Loadable
  <2>6. QED BY <2>1, <2>3, <2>4, <2>5 DEF KeptAt
<1>2. AInv /\ CalmInv => KeptLoadable
  BY <1>1 DEF CalmInv, KeptLoadable
<1>3. QED BY <1>2, SpecAInv, SpecCalmInv, PTL

\* Once threads and writer are at rest every entry of the index has its file, and
\* every whole file is that of an entry: whatever was evicted, deleted, saved
\* again or failed on the way, nothing on the SSD escapes the size limit.
THEOREM FilesMatchIndex == Spec => []DiskMatchesIndex
<1>1. ASSUME AInv, Orderly, Quiet
      PROVE  /\ \A i \in 1 .. Len(index) : FileAt(index[i].hash, index[i].path)
             /\ \A f \in disk : f.whole => \E i \in 1 .. Len(index) :
                                             index[i].hash = f.hash /\ index[i].path = f.path
  <2>1. /\ up /\ wpc = "get" /\ Len(queue) = 0 /\ ToSet(queue) = {}
        /\ \A t \in Thread : pc[t] = "idle"
    BY <1>1, EmptySeq, EmptyQueue DEF Quiet, AtRest
  <2>2. index \in Seq(Entry) /\ DOMAIN index = 1 .. Len(index)
    BY <1>1, LenProperties DEF AInv, Types
  <2>3. ASSUME NEW e \in ToSet(index) PROVE OnDisk(e)
    <3>1. ~ WriteLast(queue, e)
      BY <2>1 DEF WriteLast
    <3>2. ~ InHand(e) /\ \A t \in Thread : ~ ComingBy(t, e)
      BY <2>1 DEF InHand, ComingBy
    <3>3. QED BY <1>1, <3>1, <3>2 DEF Orderly, IndexBacked
  <2>4. \A i \in 1 .. Len(index) : index[i] \in ToSet(index)
    BY <2>2 DEF ToSet
  <2>5. \A i \in 1 .. Len(index) : FileAt(index[i].hash, index[i].path)
    BY <2>3, <2>4 DEF OnDisk, Whole, FileAt
  <2>6. ASSUME NEW f \in disk, f.whole
        PROVE  \E i \in 1 .. Len(index) : index[i].hash = f.hash /\ index[i].path = f.path
    <3>1. f \in WholeFiles
      BY <2>6 DEF WholeFiles
    <3>2. ~ UnlinkIn(queue, f) /\ ~ WriterHas(f) /\ \A t \in Thread : ~ ThreadHas(t, f)
      BY <2>1 DEF UnlinkIn, WriterHas, ThreadHas
    <3>3. NameOf(f) \in ToSet(index)
      BY <1>1, <2>1, <3>1, <3>2 DEF Orderly, FilesOwned
    <3>4. PICK i \in 1 .. Len(index) : index[i] = NameOf(f)
      BY <2>2, <3>3 DEF ToSet
    <3>5. QED BY <3>4 DEF NameOf
  <2>7. QED BY <2>5, <2>6
<1>2. AInv /\ CalmInv => DiskMatchesIndex
  BY <1>1 DEF CalmInv, DiskMatchesIndex
<1>3. QED BY <1>2, SpecAInv, SpecCalmInv, PTL

\* The blocks of the hot cache that are counted against its limit.
LEMMA SavedCounted ==
  ASSUME Types
  PROVE  Len(Kept(hot, Entry \ Unsaved)) = Cardinality(Saved)
<1> DEFINE s == Kept(hot, Entry \ Unsaved)
<1>1. hot \in Seq(Entry) /\ OnePerBlock(hot)
  BY DEF Types
<1>2. /\ s \in Seq(Entry) /\ OnePerBlock(s)
      /\ ToSet(s) = ToSet(hot) \cap (Entry \ Unsaved)
  BY <1>1, KeptBlocks
<1> HIDE DEF s
<1>3. \A e \in ToSet(hot) : e \in Entry \ Unsaved <=> mode = "ram" \/ e.hash \in Hashes(index)
  <2>1. ToSet(hot) \subseteq Entry
    BY <1>1, BlocksOf
  <2>2. QED BY <2>1 DEF Unsaved, CanWrite, Of, Entry
<1>4. Hashes(s) = Saved
  <2>1. Hashes(s) = {e.hash : e \in ToSet(s)} /\ Hashes(hot) = {e.hash : e \in ToSet(hot)}
    BY <1>1, <1>2, BlocksOf
  <2>2. \A h : h \in Hashes(s) <=> h \in Saved
    BY <1>2, <1>3, <2>1 DEF Saved
  <2>3. QED BY <2>2 DEF Saved, Hashes
<1>5. QED BY <1>2, <1>4, BlocksCounted DEF s

\* At rest the hot cache holds no more blocks that could be dropped than its
\* limit, or the newest alone: whatever the limit was shed to while unsaved
\* blocks had to stay, and whichever of them were written since.
THEOREM HotCacheWithinLimit == Spec => []SavedWithinLimit
<1>1. ASSUME AInv, Orderly, mode # "buffer", ~ closing
      PROVE  \/ Len(Kept(hot, Entry \ Unsaved)) <= limit
             \/ Len(Kept(hot, Entry \ Unsaved)) = 1
  <2>1. Cardinality(Saved) \in Nat /\ limit \in Nat
    BY <1>1, SavedFinite, SSDAssumption DEF AInv, Types
  <2>2. Cardinality(Saved) <= limit \/ Cardinality(Saved) <= 1
    BY <1>1 DEF Orderly, WithinLimit
  <2>3. Len(Kept(hot, Entry \ Unsaved)) = Cardinality(Saved)
    BY <1>1, SavedCounted DEF AInv
  <2>4. Cardinality(Saved) <= limit \/ Cardinality(Saved) = 1
    BY <2>1, <2>2
  <2>5. QED BY <2>3, <2>4
<1>2. AInv /\ CalmInv => SavedWithinLimit
  BY <1>1 DEF CalmInv, SavedWithinLimit
<1>3. QED BY <1>2, SpecAInv, SpecCalmInv, PTL
=============================================================================
