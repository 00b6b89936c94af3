------------------------ MODULE KVCacheManagerProofs ------------------------
(***************************************************************************)
(* Proofs about the two parts that Scheduler is composed of: about         *)
(* KVCacheManager, for every set of requests, every finite pool and every  *)
(* block, head and tail size; and about what the operations of             *)
(* RequestQueue do to the requests in a queue, for queues of any length    *)
(* under either policy.                                                    *)
(***************************************************************************)
EXTENDS KVCacheManager, RequestQueue, FiniteSetTheorems, SequenceTheorems,
        NaturalsInduction, WellFoundedInduction, TLAPS

(* The conjuncts of KVInv support each other: a count stays natural because *)
(* a table that gives a block back is the only one that names it, and a new *)
(* block is unshared because the count of a free block is 0.                *)

\* Tables are sequences over the blocks and the placeholder.
LEMMA TableFacts ==
    ASSUME KVTypeOK, NEW r \in Request
    PROVE  /\ reqToBlocks[r] \in Seq(Block \cup {NullBlock})
           /\ Len(reqToBlocks[r]) \in Nat
           /\ DOMAIN reqToBlocks[r] = 1 .. Len(reqToBlocks[r])
           /\ \A i \in DOMAIN reqToBlocks[r] : reqToBlocks[r][i] \in Block \cup {NullBlock}
  <1>1. reqToBlocks[r] \in Seq(Block \cup {NullBlock})
    BY Zenon DEF KVTypeOK
  <1>2. QED
    BY Zenon, <1>1, LenProperties, ElementOfSeq

\* RefCntMatches spelled out over entries of tables.
LEMMA RefCntByEntry ==
    ASSUME KVTypeOK, RefCntMatches, NEW b \in Block
    PROVE  /\ (\E r \in Request : \E i \in DOMAIN reqToBlocks[r] : reqToBlocks[r][i] = b)
                => refCnt[b] = 1 /\ b \notin freeBlocks
           /\ ~(\E r \in Request : \E i \in DOMAIN reqToBlocks[r] : reqToBlocks[r][i] = b)
                => refCnt[b] = 0 /\ b \in freeBlocks
  BY ZenonT(60), KVAssumption DEF RefCntMatches, BlocksOf

\* ... and back, for the next state.
LEMMA EntryToRefCnt ==
    ASSUME \A b \in Block :
             /\ (\E r \in Request : \E i \in DOMAIN reqToBlocks'[r] : reqToBlocks'[r][i] = b)
                  => refCnt'[b] = 1 /\ b \notin freeBlocks'
             /\ ~(\E r \in Request : \E i \in DOMAIN reqToBlocks'[r] : reqToBlocks'[r][i] = b)
                  => refCnt'[b] = 0 /\ b \in freeBlocks'
    PROVE  RefCntMatches'
  BY KVAssumption DEF RefCntMatches, BlocksOf

\* popleft_n hands out n different free blocks when the queue holds as many.
LEMMA PopLeftNFacts ==
    ASSUME freeBlocks \in SUBSET Block,
           NEW n \in Nat, n <= Cardinality(freeBlocks)
    PROVE  /\ PopLeftN(n) \in [1 .. n -> freeBlocks]
           /\ \A i, j \in 1 .. n : PopLeftN(n)[i] = PopLeftN(n)[j] => i = j
  <1> DEFINE m == Cardinality(freeBlocks)
  <1>1. IsFiniteSet(freeBlocks)
    BY Zenon, KVAssumption, FS_Subset
  <1>2. m \in Nat /\ ExistsBijection(1 .. m, freeBlocks)
    BY Zenon, <1>1, FS_CardinalityType
  <1>3. PICK f \in Bijection(1 .. m, freeBlocks) : TRUE
    BY Zenon, <1>2 DEF ExistsBijection
  <1>4. /\ f \in [1 .. m -> freeBlocks]
        /\ \A i, j \in 1 .. m : f[i] = f[j] => i = j
    BY Zenon, <1>3 DEF Bijection, Injection, IsInjective
  <1> DEFINE g == [i \in 1 .. n |-> f[i]]
  <1>5. 1 .. n \subseteq 1 .. m
    BY SMTT(120), <1>2
  <1>6. /\ g \in [1 .. n -> freeBlocks]
        /\ \A i, j \in 1 .. n : g[i] = g[j] => i = j
    BY Zenon, <1>4, <1>5
  <1>7. QED
    BY ZenonT(60), <1>6 DEF PopLeftN

\* get_new_blocks keeps the invariant: the blocks it adds to a table were named
\* by none.
LEMMA GetNewBlocksKeepsInv ==
    ASSUME KVInv, NEW r \in Request, NEW n \in Nat, n <= Cardinality(freeBlocks),
           GetNewBlocks(r, n),
           longRequests' \subseteq Request, tailBlocks' \in [Request -> Nat]
    PROVE  KVInv'
  <1> DEFINE new == PopLeftN(n)
             taken == {new[i] : i \in 1 .. n}
             old == reqToBlocks[r]
  <1>0. KVTypeOK /\ NoSharedBlock /\ RefCntMatches
    BY Zenon DEF KVInv
  <1>1. /\ new \in [1 .. n -> freeBlocks]
        /\ \A i, j \in 1 .. n : new[i] = new[j] => i = j
    BY Zenon, <1>0, PopLeftNFacts DEF KVTypeOK
  <1>2. /\ freeBlocks' = freeBlocks \ taken
        /\ refCnt' = [b \in Block |-> IF b \in taken THEN refCnt[b] + 1 ELSE refCnt[b]]
        /\ reqToBlocks' = [reqToBlocks EXCEPT ![r] = old \o new]
    BY Zenon DEF GetNewBlocks
  <1>3. freeBlocks \subseteq Block /\ taken \subseteq freeBlocks
    BY SMTT(120), <1>0, <1>1 DEF KVTypeOK
  <1>4. /\ new \in Seq(Block \cup {NullBlock})
        /\ Len(new) = n
    BY SMTT(120), <1>1, <1>3
  <1>5. /\ old \in Seq(Block \cup {NullBlock})
        /\ Len(old) \in Nat
        /\ DOMAIN old = 1 .. Len(old)
    BY Zenon, <1>0, TableFacts
  <1>6. /\ old \o new \in Seq(Block \cup {NullBlock})
        /\ Len(old \o new) = Len(old) + n
        /\ \A i \in 1 .. Len(old) + n :
              (old \o new)[i] = IF i <= Len(old) THEN old[i] ELSE new[i - Len(old)]
    <2> HIDE DEF old, new
    <2> QED
      BY SMTT(120), <1>4, <1>5
  <1>7. DOMAIN (old \o new) = 1 .. Len(old) + n
    BY Zenon, <1>6, LenProperties
  <1>8. /\ reqToBlocks' \in [Request -> Seq(Block \cup {NullBlock})]
        /\ reqToBlocks'[r] = old \o new
        /\ \A s \in Request \ {r} : reqToBlocks'[s] = reqToBlocks[s]
    BY Zenon, <1>0, <1>2, <1>6 DEF KVTypeOK
  <1>9. KVTypeOK'
    <2>1. freeBlocks' \subseteq Block
      BY Zenon, <1>2, <1>3
    <2>2. refCnt' \in [Block -> Nat]
      BY SMTT(120), <1>0, <1>2 DEF KVTypeOK
    <2>3. QED
      BY Zenon, <1>8, <2>1, <2>2 DEF KVTypeOK
  <1> HIDE DEF new, old
  \* An entry of a new table is an old one or one of the new blocks.
  <1>10. ASSUME NEW s \in Request, NEW i \in DOMAIN reqToBlocks'[s]
         PROVE  \/ i \in DOMAIN reqToBlocks[s] /\ reqToBlocks'[s][i] = reqToBlocks[s][i]
                \/ /\ s = r /\ i - Len(old) \in 1 .. n
                   /\ reqToBlocks'[s][i] = new[i - Len(old)]
    <2>1. CASE s # r
      BY Zenon, <2>1, <1>8
    <2>2. CASE s = r
      <3>1. i \in 1 .. Len(old) + n /\ reqToBlocks'[s][i] = (old \o new)[i]
        BY Zenon, <2>2, <1>7, <1>8
      <3>2. CASE i <= Len(old)
        <4>1. i \in DOMAIN old /\ (old \o new)[i] = old[i]
          BY SMTT(120), <3>1, <3>2, <1>5, <1>6
        <4>2. QED
          BY Zenon, <2>2, <3>1, <4>1 DEF old
      <3>3. CASE ~(i <= Len(old))
        <4>1. i - Len(old) \in 1 .. n /\ (old \o new)[i] = new[i - Len(old)]
          BY SMTT(120), <3>1, <3>3, <1>5, <1>6
        <4>2. QED
          BY Zenon, <2>2, <3>1, <4>1
      <3>4. QED
        BY Zenon, <3>2, <3>3
    <2>3. QED
      BY Zenon, <2>1, <2>2
  \* A new block was in no old table.
  <1>11. ASSUME NEW k \in 1 .. n, NEW s \in Request, NEW i \in DOMAIN reqToBlocks[s]
         PROVE  reqToBlocks[s][i] # new[k]
    <2>1. new[k] \in freeBlocks /\ new[k] \in Block
      BY Zenon, <1>1, <1>3
    <2>2. QED
      BY Zenon, <1>0, <2>1, RefCntByEntry
  <1>12. NoSharedBlock'
    <2> SUFFICES ASSUME NEW s \in Request, NEW t \in Request,
                        NEW i \in DOMAIN reqToBlocks'[s], NEW j \in DOMAIN reqToBlocks'[t],
                        reqToBlocks'[s][i] = reqToBlocks'[t][j]
                 PROVE  (s = t /\ i = j) \/ reqToBlocks'[s][i] = NullBlock
      BY Zenon DEF NoSharedBlock
    <2>1. CASE /\ i \in DOMAIN reqToBlocks[s] /\ reqToBlocks'[s][i] = reqToBlocks[s][i]
               /\ j \in DOMAIN reqToBlocks[t] /\ reqToBlocks'[t][j] = reqToBlocks[t][j]
      BY ZenonT(60), <1>0, <2>1 DEF NoSharedBlock
    <2>2. CASE /\ s = r /\ i - Len(old) \in 1 .. n /\ reqToBlocks'[s][i] = new[i - Len(old)]
               /\ t = r /\ j - Len(old) \in 1 .. n /\ reqToBlocks'[t][j] = new[j - Len(old)]
      <3>1. i - Len(old) = j - Len(old)
        BY Zenon, <2>2, <1>1
      <3>2. i \in Int /\ j \in Int /\ Len(old) \in Int
        BY SMTT(120), <2>2, <1>5, <1>7, <1>8
      <3>3. QED
        BY SMTT(120), <2>2, <3>1, <3>2
    <2>3. QED
      BY SMTT(120), <2>1, <2>2, <1>10, <1>11
  <1>13. ASSUME NEW b \in Block
         PROVE  (\E s \in Request : \E i \in DOMAIN reqToBlocks'[s] : reqToBlocks'[s][i] = b)
                  <=> \/ b \in taken
                      \/ \E s \in Request : \E i \in DOMAIN reqToBlocks[s] : reqToBlocks[s][i] = b
    <2>1. ASSUME NEW k \in 1 .. n
          PROVE  \E i \in DOMAIN reqToBlocks'[r] : reqToBlocks'[r][i] = new[k]
      <3>1. /\ Len(old) + k \in DOMAIN reqToBlocks'[r]
            /\ reqToBlocks'[r][Len(old) + k] = new[k]
        BY SMTT(120), <1>5, <1>6, <1>7, <1>8
      <3>2. QED
        BY Zenon, <3>1
    <2>2. ASSUME NEW s \in Request, NEW i \in DOMAIN reqToBlocks[s]
          PROVE  i \in DOMAIN reqToBlocks'[s] /\ reqToBlocks'[s][i] = reqToBlocks[s][i]
      <3>1. CASE s # r
        BY Zenon, <3>1, <1>8
      <3>2. CASE s = r
        <4>1. i \in 1 .. Len(old) /\ i \in 1 .. Len(old) + n
          BY SMTT(120), <3>2, <1>5 DEF old
        <4>2. (old \o new)[i] = old[i]
          BY SMTT(120), <4>1, <1>6
        <4>3. QED
          BY Zenon, <3>2, <4>1, <4>2, <1>7, <1>8 DEF old
      <3>3. QED
        BY Zenon, <3>1, <3>2
    <2>3. QED
      BY SMTT(120), <2>1, <2>2, <1>10
  <1>14. RefCntMatches'
    <2> SUFFICES ASSUME NEW b \in Block
                 PROVE  /\ (\E s \in Request : \E i \in DOMAIN reqToBlocks'[s] : reqToBlocks'[s][i] = b)
                             => refCnt'[b] = 1 /\ b \notin freeBlocks'
                        /\ ~(\E s \in Request : \E i \in DOMAIN reqToBlocks'[s] : reqToBlocks'[s][i] = b)
                             => refCnt'[b] = 0 /\ b \in freeBlocks'
      BY Zenon, EntryToRefCnt
    <2> DEFINE named == \E s \in Request : \E i \in DOMAIN reqToBlocks[s] : reqToBlocks[s][i] = b
               namedThen ==
                 \E s \in Request : \E i \in DOMAIN reqToBlocks'[s] : reqToBlocks'[s][i] = b
    <2>1. /\ named => refCnt[b] = 1 /\ b \notin freeBlocks
          /\ ~named => refCnt[b] = 0 /\ b \in freeBlocks
      BY Zenon, <1>0, RefCntByEntry
    <2>2. namedThen <=> b \in taken \/ named
      BY Zenon, <1>13
    <2> HIDE DEF named, namedThen, taken
    <2>3. refCnt'[b] = IF b \in taken THEN refCnt[b] + 1 ELSE refCnt[b]
      BY Zenon, <1>2
    <2>4. /\ b \in freeBlocks' <=> b \in freeBlocks /\ b \notin taken
          /\ b \in taken => b \in freeBlocks
      BY Zenon, <1>2, <1>3
    <2>5. /\ namedThen => refCnt'[b] = 1 /\ b \notin freeBlocks'
          /\ ~namedThen => refCnt'[b] = 0 /\ b \in freeBlocks'
      BY SMTT(120), <2>1, <2>2, <2>3, <2>4
    <2>6. QED
      BY Zenon, <2>5 DEF namedThen
  <1>15. QED
    BY Zenon, <1>9, <1>12, <1>14 DEF KVInv

\* Sizes in blocks are natural numbers.
LEMMA CdivType ==
    ASSUME NEW n \in Nat
    PROVE  Cdiv(n) \in Nat
  <1> DEFINE m == n + BlockSize - 1
  <1>1. BlockSize \in Nat /\ BlockSize > 0 /\ m \in Nat
    BY SMTT(120), KVAssumption
  <1>2. m \div BlockSize \in Nat
    <2> HIDE DEF m
    <2> QED
      BY SMTT(120), <1>1
  <1>3. QED
    BY Zenon, <1>2 DEF Cdiv

\* free_middle_blocks only gives back entries of the table.
LEMMA MiddleIndicesFacts ==
    ASSUME KVTypeOK, NEW r \in Request, NEW i \in MiddleIndices(r)
    PROVE  i \in DOMAIN reqToBlocks[r] /\ reqToBlocks[r][i] \in Block
  <1>1. HeadBlocks \in Nat
    BY Zenon, KVAssumption, CdivType DEF HeadBlocks
  <1>2. tailBlocks[r] \in Nat
    BY Zenon DEF KVTypeOK
  <1>3. i \in HeadBlocks + 1 .. Len(reqToBlocks[r]) - tailBlocks[r] /\ reqToBlocks[r][i] # NullBlock
    BY Zenon DEF MiddleIndices
  <1>4. i \in 1 .. Len(reqToBlocks[r])
    BY SMTT(120), <1>1, <1>2, <1>3, TableFacts
  <1>5. QED
    BY Zenon, <1>3, <1>4, TableFacts

\* A block is given back by the entry of a table that is dropped or cleared.
LEMMA ReleasedFacts ==
    ASSUME KVTypeOK, NEW gone \in SUBSET Request, NEW sparse \in SUBSET Request
    PROVE  /\ Released(gone, sparse) \subseteq Block
           /\ \A b \in Block :
                b \in Released(gone, sparse) <=>
                  \E r \in Request : \E i \in DOMAIN reqToBlocks[r] :
                      /\ reqToBlocks[r][i] = b
                      /\ r \in gone \/ (r \in sparse /\ i \in MiddleIndices(r))
  <1>1. \A b : b \in Released(gone, sparse) <=>
            \/ \E r \in gone : b \in BlocksOf(reqToBlocks[r])
            \/ \E r \in sparse : \E i \in MiddleIndices(r) : b = reqToBlocks[r][i]
    BY SMTT(120) DEF Released
  <1>2. \A b : \A r \in gone : b \in BlocksOf(reqToBlocks[r]) <=>
            b \in Block /\ \E i \in DOMAIN reqToBlocks[r] : b = reqToBlocks[r][i]
    BY ZenonT(60), TableFacts, KVAssumption DEF BlocksOf
  <1>3. Released(gone, sparse) \subseteq Block
    BY SMTT(120), <1>1, <1>2, MiddleIndicesFacts
  <1>4. QED
    BY SMTT(120), <1>1, <1>2, <1>3, MiddleIndicesFacts

\* The entries of the table of a request after a call of free or free_sparse_kv.
LEMMA TableAfterFacts ==
    ASSUME KVTypeOK, NEW gone \in SUBSET Request, NEW sparse \in SUBSET Request,
           NEW r \in Request
    PROVE  /\ TableAfter(r, gone, sparse) \in Seq(Block \cup {NullBlock})
           /\ r \in gone => DOMAIN TableAfter(r, gone, sparse) = {}
           /\ r \notin gone =>
                /\ DOMAIN TableAfter(r, gone, sparse) = DOMAIN reqToBlocks[r]
                /\ \A i \in DOMAIN reqToBlocks[r] :
                     TableAfter(r, gone, sparse)[i] =
                        IF r \in sparse /\ i \in MiddleIndices(r)
                        THEN NullBlock ELSE reqToBlocks[r][i]
  <1> DEFINE table == reqToBlocks[r]
             cleared == [i \in DOMAIN table |->
                            IF i \in MiddleIndices(r) THEN NullBlock ELSE table[i]]
  <1>1. table \in Seq(Block \cup {NullBlock}) /\ Len(table) \in Nat
        /\ DOMAIN table = 1 .. Len(table)
        /\ \A i \in DOMAIN table : table[i] \in Block \cup {NullBlock}
    BY Zenon, TableFacts
  <1>2. CASE r \in gone
    <2>1. TableAfter(r, gone, sparse) = << >>
      BY Zenon, <1>2 DEF TableAfter
    <2>2. << >> \in Seq(Block \cup {NullBlock}) /\ DOMAIN << >> = {}
      OBVIOUS
    <2>3. QED
      BY Zenon, <1>2, <2>1, <2>2
  <1>3. CASE r \in sparse \ gone
    <2>1. TableAfter(r, gone, sparse) = cleared
      BY Zenon, <1>3 DEF TableAfter
    <2>2. cleared \in [1 .. Len(table) -> Block \cup {NullBlock}]
      BY Zenon, <1>1
    <2>3. cleared \in Seq(Block \cup {NullBlock})
      BY SMTT(120), <1>1, <2>2, SeqDef
    <2>4. QED
      BY Zenon, <1>3, <2>1, <2>3
  <1>4. CASE r \notin gone /\ r \notin sparse
    <2>1. TableAfter(r, gone, sparse) = table
      BY Zenon, <1>4 DEF TableAfter
    <2>2. QED
      BY Zenon, <1>1, <1>4, <2>1
  <1>5. QED
    BY Zenon, <1>2, <1>3, <1>4

\* free and free_sparse_kv keep the invariant: the entry that gives a block back
\* is the only one that names it, so its count drops to 0.
LEMMA FreeBlocksKeepsInv ==
    ASSUME KVInv, NEW gone \in SUBSET Request, NEW sparse \in SUBSET Request,
           FreeBlocks(gone, sparse)
    PROVE  KVInv'
  <1> DEFINE given == Released(gone, sparse)
             Drops(r, i) == r \in gone \/ (r \in sparse /\ i \in MiddleIndices(r))
  <1>0. KVTypeOK /\ NoSharedBlock /\ RefCntMatches
    BY Zenon DEF KVInv
  <1>1. /\ refCnt' = [b \in Block |-> IF b \in given THEN refCnt[b] - 1 ELSE refCnt[b]]
        /\ freeBlocks' = freeBlocks \cup {b \in given : refCnt'[b] = 0}
        /\ reqToBlocks' = [r \in Request |-> TableAfter(r, gone, sparse)]
        /\ longRequests' = longRequests /\ tailBlocks' = tailBlocks
    BY Zenon DEF FreeBlocks
  <1>2. \A b \in given : b \in Block /\ refCnt[b] = 1 /\ refCnt'[b] = 0
    <2> SUFFICES ASSUME NEW b \in given
                 PROVE  b \in Block /\ refCnt[b] = 1 /\ refCnt'[b] = 0
      BY Zenon
    <2>1. b \in Block /\ \E r \in Request : \E i \in DOMAIN reqToBlocks[r] : reqToBlocks[r][i] = b
      BY SMTT(120), <1>0, ReleasedFacts
    <2>2. refCnt[b] = 1 /\ refCnt'[b] = refCnt[b] - 1
      BY Zenon, <1>0, <1>1, <2>1, RefCntByEntry
    <2>3. QED
      BY SMTT(120), <2>1, <2>2
  <1>3. freeBlocks' = freeBlocks \cup given
    BY Zenon, <1>1, <1>2
  <1>4. KVTypeOK'
    <2>1. reqToBlocks' \in [Request -> Seq(Block \cup {NullBlock})]
      BY Zenon, <1>0, <1>1, TableAfterFacts
    <2>2. refCnt' \in [Block -> Nat]
      <3>1. \A b \in Block : refCnt'[b] = IF b \in given THEN 0 ELSE refCnt[b]
        BY Zenon, <1>1, <1>2
      <3>2. \A b \in Block : refCnt'[b] \in Nat
        BY SMTT(120), <1>0, <3>1 DEF KVTypeOK
      <3>3. QED
        BY Zenon, <1>1, <3>2
    <2>3. QED
      BY Zenon, <1>0, <1>1, <1>2, <1>3, <2>1, <2>2 DEF KVTypeOK
  \* An entry that is left is a placeholder or an old entry that was not dropped.
  <1>5. ASSUME NEW r \in Request, NEW i \in DOMAIN reqToBlocks'[r]
        PROVE  /\ i \in DOMAIN reqToBlocks[r]
               /\ reqToBlocks'[r][i] = IF Drops(r, i) THEN NullBlock ELSE reqToBlocks[r][i]
    BY SMTT(120), <1>0, <1>1, TableAfterFacts
  <1>6. ASSUME NEW r \in Request, NEW i \in DOMAIN reqToBlocks[r], ~Drops(r, i)
        PROVE  i \in DOMAIN reqToBlocks'[r] /\ reqToBlocks'[r][i] = reqToBlocks[r][i]
    BY SMTT(120), <1>0, <1>1, <1>6, TableAfterFacts
  <1>7. NoSharedBlock'
    BY SMTT(120), <1>0, <1>5 DEF NoSharedBlock
  <1>8. ASSUME NEW b \in Block
        PROVE  (\E r \in Request : \E i \in DOMAIN reqToBlocks'[r] : reqToBlocks'[r][i] = b)
                 <=> /\ b \notin given
                     /\ \E r \in Request : \E i \in DOMAIN reqToBlocks[r] : reqToBlocks[r][i] = b
    <2>1. b # NullBlock
      BY Zenon, KVAssumption
    <2>2. b \in given <=> \E r \in Request : \E i \in DOMAIN reqToBlocks[r] :
                            reqToBlocks[r][i] = b /\ Drops(r, i)
      <3>1. KVTypeOK
        BY Zenon, <1>0
      <3>2. \A c \in Block :
                c \in Released(gone, sparse) <=>
                  \E r \in Request : \E i \in DOMAIN reqToBlocks[r] :
                      /\ reqToBlocks[r][i] = c
                      /\ r \in gone \/ (r \in sparse /\ i \in MiddleIndices(r))
        BY ZenonT(60), <3>1, ReleasedFacts
      <3>3. QED
        BY Zenon, <3>2
    <2>3. ASSUME NEW r \in Request, NEW i \in DOMAIN reqToBlocks'[r], reqToBlocks'[r][i] = b
          PROVE  b \notin given /\ i \in DOMAIN reqToBlocks[r] /\ reqToBlocks[r][i] = b
      <3>1. i \in DOMAIN reqToBlocks[r] /\ reqToBlocks[r][i] = b /\ ~Drops(r, i)
        BY Zenon, <1>5, <2>1, <2>3
      <3>2. QED
        BY ZenonT(60), <1>0, <2>1, <2>2, <3>1 DEF NoSharedBlock
    <2>4. QED
      BY ZenonT(60), <1>6, <2>2, <2>3
  <1>9. RefCntMatches'
    <2> SUFFICES ASSUME NEW b \in Block
                 PROVE  /\ (\E r \in Request : \E i \in DOMAIN reqToBlocks'[r] : reqToBlocks'[r][i] = b)
                             => refCnt'[b] = 1 /\ b \notin freeBlocks'
                        /\ ~(\E r \in Request : \E i \in DOMAIN reqToBlocks'[r] : reqToBlocks'[r][i] = b)
                             => refCnt'[b] = 0 /\ b \in freeBlocks'
      BY Zenon, EntryToRefCnt
    <2>1. b \notin given => refCnt'[b] = refCnt[b]
      BY Zenon, <1>1
    <2>2. QED
      BY Zenon, <1>0, <1>2, <1>3, <1>8, <2>1, RefCntByEntry
  <1>10. QED
    BY Zenon, <1>4, <1>7, <1>9 DEF KVInv

\* The tail starts inside the prompt, so its size is a natural number.
LEMMA ComputeTailBlocksType ==
    ASSUME NEW promptLen \in Nat
    PROVE  ComputeTailBlocks(promptLen) \in Nat
  <1> DEFINE x == AtLeast0(promptLen - TailSize)
             q == x \div BlockSize
  <1>1. BlockSize \in Nat /\ BlockSize > 0 /\ x \in Nat /\ x <= promptLen
    BY SMTT(120), KVAssumption DEF AtLeast0
  <1>2. q \in Nat /\ q * BlockSize \in Nat /\ q * BlockSize <= x
    <2> HIDE DEF x
    <2>1. x = (BlockSize * q) + (x % BlockSize) /\ x % BlockSize \in 0 .. BlockSize - 1 /\ q \in Int
      BY SMTT(120), <1>1
    <2>2. q \in Nat
      BY SMTT(120), <1>1
    <2> HIDE DEF q
    <2>3. q * BlockSize = BlockSize * q /\ q * BlockSize \in Nat
      BY SMTT(120), <1>1, <2>2
    <2>4. QED
      BY SMTT(120), <1>1, <2>1, <2>2, <2>3
  <1>3. promptLen - q * BlockSize \in Nat
    <2> HIDE DEF q, x
    <2> QED
      BY SMTT(120), <1>1, <1>2
  <1>4. QED
    BY Zenon, <1>3, CdivType DEF ComputeTailBlocks, TailStart

\* allocate_new_blocks brings the table to the length that the tokens need.
LEMMA BlocksTakenFacts ==
    ASSUME KVTypeOK, NEW r \in Request,
           NEW computed \in Int, NEW external \in Int, NEW new \in Int
    PROVE  /\ BlocksTaken(r, computed, external, new) \in Nat
           /\ Len(reqToBlocks[r]) + BlocksTaken(r, computed, external, new)
                >= Cdiv(NumTokensNeedSlot(computed, external, new))
  <1> DEFINE t == NumTokensNeedSlot(computed, external, new)
             m == t + BlockSize - 1
  <1>1. t \in Int /\ BlockSize \in Nat /\ BlockSize > 0
    BY SMTT(120), KVAssumption DEF NumTokensNeedSlot, AtMost
  <1>2. m \div BlockSize \in Int
    <2>1. m \in Int
      <3> HIDE DEF t
      <3> QED
        BY SMTT(120), <1>1
    <2> HIDE DEF m
    <2> QED
      BY SMTT(120), <1>1, <2>1
  <1>3. Cdiv(t) \in Int
    BY Zenon, <1>2 DEF Cdiv
  <1>4. Len(reqToBlocks[r]) \in Nat
    BY Zenon, TableFacts
  <1> HIDE DEF t
  <1>5. QED
    BY SMTT(120), <1>3, <1>4 DEF BlocksTaken, AtLeast0, t

\* allocate_slots keeps the invariant, whatever it is asked for.
LEMMA AllocateSlotsKeepsInv ==
    ASSUME KVInv, NEW r \in Request, NEW mask \in BOOLEAN, NEW numTokens \in Nat,
           NEW computed \in Int, NEW external \in Int, NEW new \in Int,
           AllocateSlots(r, mask, numTokens, computed, external, new)
    PROVE  KVInv'
  <1> DEFINE n == BlocksTaken(r, computed, external, new)
             ok == AllocationResult(r, mask, numTokens, computed, external, new) = "ok"
  <1>1. KVTypeOK
    BY Zenon DEF KVInv
  <1>2. longRequests' \subseteq Request /\ tailBlocks' \in [Request -> Nat]
    <2>1. ComputeTailBlocks(numTokens) \in Nat
      BY Zenon, ComputeTailBlocksType
    <2>2. QED
      BY Zenon, <1>1, <2>1 DEF AllocateSlots, MarkLongRequest, KVTypeOK
  <1>3. CASE ok
    <2>1. n \in Nat
      BY Zenon, <1>1, BlocksTakenFacts
    <2>2. Cardinality(freeBlocks) \in Nat
      BY Zenon, <1>1, KVAssumption, FS_Subset, FS_CardinalityType DEF KVTypeOK
    <2>3. ~(n > Cardinality(freeBlocks))
      BY Zenon, <1>3 DEF AllocationResult
    <2>4. n <= Cardinality(freeBlocks)
      <3> HIDE DEF n
      <3> QED
        BY SMTT(120), <2>1, <2>2, <2>3
    <2>5. GetNewBlocks(r, n)
      BY Zenon, <1>3 DEF AllocateSlots
    <2>6. QED
      BY Zenon, <1>2, <2>1, <2>4, <2>5, GetNewBlocksKeepsInv
  <1>4. CASE ~ok
    <2>1. UNCHANGED <<freeBlocks, refCnt, reqToBlocks>>
      BY Zenon, <1>4 DEF AllocateSlots
    <2>2. KVTypeOK'
      BY Zenon, <1>1, <1>2, <2>1 DEF KVTypeOK
    <2>3. NoSharedBlock'
      BY SMTT(120), <2>1 DEF KVInv, NoSharedBlock
    <2>4. RefCntMatches'
      BY SMTT(120), <2>1 DEF KVInv, RefCntMatches, BlocksOf
    <2>5. QED
      BY Zenon, <2>2, <2>3, <2>4 DEF KVInv
  <1>5. QED
    BY Zenon, <1>3, <1>4

\* allocate_slots touches no other table, and what it returns has the slots.
LEMMA AllocateSlotsFacts ==
    ASSUME KVInv, NEW r \in Request, NEW mask, NEW numTokens,
           NEW computed \in Int, NEW external \in Int, NEW new \in Int,
           AllocateSlots(r, mask, numTokens, computed, external, new)
    PROVE  /\ \A s \in Request \ {r} : reqToBlocks'[s] = reqToBlocks[s]
           /\ AllocationResult(r, mask, numTokens, computed, external, new) = "ok" =>
                Len(reqToBlocks'[r]) >= Cdiv(NumTokensNeedSlot(computed, external, new))
  <1> DEFINE n == BlocksTaken(r, computed, external, new)
             ok == AllocationResult(r, mask, numTokens, computed, external, new) = "ok"
  <1>1. KVTypeOK
    BY Zenon DEF KVInv
  <1>2. CASE ok
    <2>1. n \in Nat /\ Len(reqToBlocks[r]) + n >= Cdiv(NumTokensNeedSlot(computed, external, new))
      BY Zenon, <1>1, BlocksTakenFacts
    <2>2. Cardinality(freeBlocks) \in Nat
      BY Zenon, <1>1, KVAssumption, FS_Subset, FS_CardinalityType DEF KVTypeOK
    <2>3. ~(n > Cardinality(freeBlocks))
      BY Zenon, <1>2 DEF AllocationResult
    <2> HIDE DEF n
    <2>4. n <= Cardinality(freeBlocks)
      BY SMTT(120), <2>1, <2>2, <2>3
    <2>5. PopLeftN(n) \in [1 .. n -> freeBlocks]
      BY Zenon, <1>1, <2>1, <2>4, PopLeftNFacts DEF KVTypeOK
    <2>6. reqToBlocks' = [reqToBlocks EXCEPT ![r] = @ \o PopLeftN(n)]
      BY Zenon, <1>2 DEF AllocateSlots, GetNewBlocks, n
    <2>7. PopLeftN(n) \in Seq(Block \cup {NullBlock}) /\ Len(PopLeftN(n)) = n
      BY SMTT(120), <1>1, <2>1, <2>5 DEF KVTypeOK
    <2>8. Len(reqToBlocks[r] \o PopLeftN(n)) = Len(reqToBlocks[r]) + n
      <3> DEFINE p == PopLeftN(n)
      <3>1. reqToBlocks[r] \in Seq(Block \cup {NullBlock})
        BY Zenon, <1>1, TableFacts
      <3>2. p \in Seq(Block \cup {NullBlock}) /\ Len(p) = n
        BY Zenon, <2>7
      <3> HIDE DEF p
      <3>3. Len(reqToBlocks[r] \o p) = Len(reqToBlocks[r]) + n
        BY SMTT(120), <3>1, <3>2
      <3> QED
        BY Zenon, <3>3 DEF p
    <2>9. QED
      BY Zenon, <1>1, <2>1, <2>6, <2>8 DEF KVTypeOK
  <1>3. CASE ~ok
    BY Zenon, <1>3 DEF AllocateSlots
  <1>4. QED
    BY Zenon, <1>2, <1>3

\* free empties the tables of the requests in gone; the others keep their length.
LEMMA FreeBlocksFacts ==
    ASSUME KVInv, NEW gone \in SUBSET Request, NEW sparse \in SUBSET Request,
           FreeBlocks(gone, sparse), NEW r \in Request
    PROVE  /\ r \in gone => reqToBlocks'[r] = << >>
           /\ r \notin gone => /\ Len(reqToBlocks'[r]) = Len(reqToBlocks[r])
                               /\ reqToBlocks'[r] = << >> <=> reqToBlocks[r] = << >>
  <1>1. KVTypeOK
    BY Zenon DEF KVInv
  <1>2. reqToBlocks'[r] = TableAfter(r, gone, sparse)
    BY Zenon DEF FreeBlocks
  <1>3. r \in gone => reqToBlocks'[r] = << >>
    BY Zenon, <1>2 DEF TableAfter
  <1>4. ASSUME r \notin gone
        PROVE  /\ Len(reqToBlocks'[r]) = Len(reqToBlocks[r])
               /\ reqToBlocks'[r] = << >> <=> reqToBlocks[r] = << >>
    <2>1. /\ reqToBlocks'[r] \in Seq(Block \cup {NullBlock})
          /\ DOMAIN reqToBlocks'[r] = DOMAIN reqToBlocks[r]
      BY SMTT(120), <1>1, <1>2, <1>4, TableAfterFacts
    <2>2. reqToBlocks[r] \in Seq(Block \cup {NullBlock})
      BY Zenon, <1>1, TableFacts
    <2>3. \A s \in Seq(Block \cup {NullBlock}) :
            Len(s) \in Nat /\ DOMAIN s = 1 .. Len(s) /\ (s = << >> <=> Len(s) = 0)
      BY Zenon, LenProperties, EmptySeq
    <2>4. Len(reqToBlocks'[r]) = Len(reqToBlocks[r])
      BY SMTT(120), <2>1, <2>2, <2>3
    <2>5. QED
      BY Zenon, <2>1, <2>2, <2>3, <2>4
  <1>5. QED
    BY Zenon, <1>3, <1>4

-----------------------------------------------------------------------------
(* The theorems *)

LEMMA KVInitInv == KVInit => KVInv
  <1> SUFFICES ASSUME KVInit PROVE KVInv
    BY Zenon
  <1>1. \A r \in Request : reqToBlocks[r] = << >> /\ DOMAIN reqToBlocks[r] = {}
    BY SMTT(120) DEF KVInit
  <1>2. KVTypeOK
    BY SMTT(120) DEF KVInit, KVTypeOK
  <1>3. NoSharedBlock
    BY Zenon, <1>1 DEF NoSharedBlock
  <1>4. RefCntMatches
    BY Zenon, <1>1 DEF KVInit, RefCntMatches, BlocksOf
  <1>5. QED
    BY Zenon, <1>2, <1>3, <1>4 DEF KVInv

LEMMA KVNextInv == KVInv /\ [KVNext]_kvVars => KVInv'
  <1> SUFFICES ASSUME KVInv, [KVNext]_kvVars PROVE KVInv'
    BY Zenon
  <1>1. CASE KVFree
    BY Zenon, <1>1, FreeBlocksKeepsInv DEF KVFree
  <1>2. ASSUME NEW r \in Request, KVAllocate(r)
        PROVE  KVInv'
    <2>1. PICK mask \in BOOLEAN, numTokens \in 0 .. MaxModelLen, computed \in 0 .. MaxModelLen,
               external \in 0 .. MaxModelLen, new \in 0 .. MaxModelLen :
                  AllocateSlots(r, mask, numTokens, computed, external, new)
      BY Zenon, <1>2 DEF KVAllocate
    <2>2. numTokens \in Nat /\ computed \in Nat /\ external \in Nat /\ new \in Nat
      BY SMTT(120), KVAssumption
    <2>3. QED
      BY SMTT(120), <2>1, <2>2, AllocateSlotsKeepsInv
  <1>3. CASE UNCHANGED kvVars
    BY SMTT(120), <1>3 DEF kvVars, KVInv, KVTypeOK, NoSharedBlock, RefCntMatches, BlocksOf
  <1>4. QED
    BY Zenon, <1>1, <1>2, <1>3 DEF KVNext

\* In every run of the manager, whatever the scheduler calls and for any pool,
\* block size, head and tail: the tables, the counts and the free queue agree.
THEOREM PoolStaysConsistent == KVSpec => []KVInv
BY KVInitInv, KVNextInv, PTL DEF KVSpec

\* No block of the pool is ever in two tables, or twice in one: two requests
\* never write to the same slot.
THEOREM BlocksAreExclusive == KVSpec => []NoSharedBlock
  <1>1. KVInv => NoSharedBlock
    BY Zenon DEF KVInv
  <1>2. QED
    BY PoolStaysConsistent, <1>1, PTL

\* Every block is named by one table, with count 1, or in the free queue, with
\* count 0: free, free_sparse_kv and allocate_slots neither leak nor free twice.
THEOREM NoBlockIsLeaked == KVSpec => []RefCntMatches
  <1>1. KVInv => RefCntMatches
    BY Zenon DEF KVInv
  <1>2. QED
    BY PoolStaysConsistent, <1>1, PTL

-----------------------------------------------------------------------------
(* The queues: what each operation does to the requests in a queue          *)

\* A nonempty set of natural numbers has a least element.
LEMMA Smallest ==
    ASSUME NEW S \in SUBSET Nat, S # {}
    PROVE  \E n \in S : \A m \in S : n <= m
<1>1. PICK n \in S : \A m \in S : <<m, n>> \notin OpToRel(<, Nat)
    BY Zenon, NatLessThanWellFounded, WFMin
<1>2. \A m \in S : ~(m < n)
    BY Zenon, <1>1 DEF OpToRel
<1> QED BY SMTT(120), <1>2

LEMMA QueueFacts ==
    ASSUME NEW queue, IsQueue(queue)
    PROVE  /\ queue \in Seq(Nat) /\ Len(queue) \in Nat /\ DOMAIN queue = 1 .. Len(queue)
           /\ \A i \in 1 .. Len(queue) : queue[i] \in Nat /\ queue[i] \in Range(queue)
           /\ \A i, j \in 1 .. Len(queue) : queue[i] = queue[j] => i = j
           /\ \A r : r \in Range(queue) <=> \E i \in 1 .. Len(queue) : queue[i] = r
           /\ Range(queue) \subseteq Nat
<1>1. queue \in Seq(Nat)
    BY Zenon DEF IsQueue
<1>2. Len(queue) \in Nat /\ DOMAIN queue = 1 .. Len(queue) /\ \A i \in 1 .. Len(queue) : queue[i] \in Nat
    BY Zenon, <1>1, LenProperties, ElementOfSeq
<1> QED BY Zenon, <1>1, <1>2 DEF IsQueue, IsInjective, Range

\* ... and how to establish it.
LEMMA MakeQueue ==
    ASSUME NEW queue \in Seq(Nat),
           \A i, j \in 1 .. Len(queue) : queue[i] = queue[j] => i = j
    PROVE  IsQueue(queue)
<1>1. DOMAIN queue = 1 .. Len(queue)
    BY Zenon, LenProperties
<1> QED BY Zenon, <1>1 DEF IsQueue, IsInjective

LEMMA EmptyQueue == IsQueue(<< >>) /\ Range(<< >>) = {}
BY SMTT(120) DEF IsQueue, IsInjective, Range

\* A request that is put into a queue at any place, between left and right.
LEMMA InsertFacts ==
    ASSUME NEW left \in Seq(Nat), NEW right \in Seq(Nat), IsQueue(left \o right),
           NEW r \in Nat, r \notin Range(left \o right)
    PROVE  Joined(left \o <<r>> \o right, left \o right, r)
<1> DEFINE q == left \o right
           n == left \o <<r>> \o right
           a == Len(left)
           b == Len(right)
<1>1. a \in Nat /\ b \in Nat
    BY Zenon, LenProperties
<1>2. /\ q \in Seq(Nat) /\ Len(q) = a + b
      /\ \A i \in 1 .. a + b : q[i] = IF i <= a THEN left[i] ELSE right[i - a]
    OBVIOUS
<1>3. n \in Seq(Nat) /\ Len(n) = a + b + 1
    OBVIOUS
<1>4. \A i \in 1 .. a + b + 1 : n[i] = IF i <= a THEN left[i] ELSE IF i = a + 1 THEN r ELSE right[i - a - 1]
    <2> DEFINE m == left \o <<r>>
    <2>1. m \in Seq(Nat) /\ Len(m) = a + 1 /\ \A i \in 1 .. a + 1 : m[i] = IF i <= a THEN left[i] ELSE r
        OBVIOUS
    <2>2. \A i \in 1 .. a + 1 + b : (m \o right)[i] = IF i <= a + 1 THEN m[i] ELSE right[i - (a + 1)]
        <3> HIDE DEF m
        <3> QED BY SMTT(120), <2>1
    <2> DEFINE z == m \o right
    <2> HIDE DEF m, a, b, z
    <2>3. ASSUME NEW i \in 1 .. a + b + 1
          PROVE  z[i] = IF i <= a THEN left[i] ELSE IF i = a + 1 THEN r ELSE right[i - a - 1]
        <3>1. z[i] = IF i <= a + 1 THEN m[i] ELSE right[i - (a + 1)]
            <4>1. i \in 1 .. a + 1 + b
                BY SMTT(120), <1>1
            <4> QED BY Zenon, <2>2, <4>1 DEF z
        <3>2. i <= a + 1 => m[i] = IF i <= a THEN left[i] ELSE r
            BY SMTT(120), <1>1, <2>1
        <3>3. i - (a + 1) = i - a - 1
            BY SMTT(120), <1>1
        <3> QED BY <1>1, <3>1, <3>2, <3>3
    <2> QED BY Zenon, <2>3 DEF m, z
<1> DEFINE From(i) == IF i <= a THEN i ELSE i - 1
<1>5. \A i \in 1 .. a + b + 1 : i # a + 1 => From(i) \in 1 .. a + b /\ n[i] = q[From(i)]
    <2> SUFFICES ASSUME NEW i \in 1 .. a + b + 1, i # a + 1
                 PROVE  From(i) \in 1 .. a + b /\ n[i] = q[From(i)]
        BY Zenon
    <2> HIDE DEF n, q, a, b
    <2>1. CASE i <= a
        <3>1. From(i) = i /\ i \in 1 .. a + b
            BY SMTT(120), <2>1, <1>1
        <3> QED BY Zenon, <2>1, <3>1, <1>2, <1>4
    <2>2. CASE i > a + 1
        <3>1. From(i) = i - 1 /\ i - 1 \in 1 .. a + b /\ ~(i - 1 <= a) /\ i - 1 - a = i - a - 1
            BY SMTT(120), <2>2, <1>1
        <3>2. n[i] = right[i - a - 1] /\ q[i - 1] = right[i - 1 - a]
            BY Zenon, <2>2, <3>1, <1>1, <1>2, <1>4
        <3> QED BY Zenon, <3>1, <3>2
    <2> QED BY SMTT(120), <1>1, <2>1, <2>2
<1>6. \A i \in 1 .. a + b : \E j \in 1 .. a + b + 1 : j # a + 1 /\ i = From(j)
    <2> SUFFICES ASSUME NEW i \in 1 .. a + b PROVE \E j \in 1 .. a + b + 1 : j # a + 1 /\ i = From(j)
        BY Zenon
    <2> HIDE DEF a, b
    <2>1. CASE i <= a
        <3>1. i \in 1 .. a + b + 1 /\ i # a + 1 /\ i = From(i)
            BY SMTT(120), <1>1, <2>1
        <3> QED BY Zenon, <3>1
    <2>2. CASE i > a
        <3>1. i + 1 \in 1 .. a + b + 1 /\ i + 1 # a + 1 /\ i = From(i + 1)
            BY SMTT(120), <1>1, <2>2
        <3> QED BY Zenon, <3>1
    <2> QED BY SMTT(120), <1>1, <2>1, <2>2
<1>7. \A i \in 1 .. a + b : q[i] # r /\ q[i] \in Range(q)
    BY Zenon, <1>2, QueueFacts
<1>8. n[a + 1] = r /\ a + 1 \in 1 .. a + b + 1
    <2> HIDE DEF n, a, b
    <2> QED BY SMTT(120), <1>1, <1>4
<1>9. \A i, j \in 1 .. a + b : q[i] = q[j] => i = j
    BY Zenon, <1>2, QueueFacts
<1> HIDE DEF n, q, a, b
<1>10. \A i, j \in 1 .. a + b + 1 : n[i] = n[j] => i = j
    <2> SUFFICES ASSUME NEW i \in 1 .. a + b + 1, NEW j \in 1 .. a + b + 1, n[i] = n[j] PROVE i = j
        BY Zenon
    <2>1. CASE i # a + 1 /\ j # a + 1
        <3>1. From(i) = From(j)
            BY ZenonT(60), <2>1, <1>5, <1>9
        <3> QED BY SMTT(120), <3>1, <2>1, <1>1
    <2>2. CASE i = a + 1 \/ j = a + 1
        <3>1. \A k \in 1 .. a + b + 1 : k # a + 1 => n[k] # r
            BY Zenon, <1>5, <1>7
        <3> QED BY Zenon, <2>2, <3>1, <1>8
    <2> QED BY Zenon, <2>1, <2>2
<1>11. IsQueue(n)
    BY Zenon, <1>3, <1>10, MakeQueue
<1>12. ASSUME NEW x PROVE x \in Range(n) <=> x \in Range(q) \cup {r}
    <2>1. x \in Range(n) <=> \E i \in 1 .. a + b + 1 : n[i] = x
        BY ZenonT(60), <1>3, <1>11, QueueFacts
    <2>2. x \in Range(q) <=> \E i \in 1 .. a + b : q[i] = x
        BY ZenonT(60), <1>2, QueueFacts DEF q
    <2>3. ASSUME NEW i \in 1 .. a + b + 1, n[i] = x PROVE x \in Range(q) \cup {r}
        BY Zenon, <2>3, <1>5, <1>7, <1>8
    <2>4. ASSUME NEW i \in 1 .. a + b, q[i] = x PROVE \E j \in 1 .. a + b + 1 : n[j] = x
        BY ZenonT(60), <2>4, <1>5, <1>6
    <2> QED BY Zenon, <2>1, <2>2, <2>3, <2>4, <1>8
<1> QED BY Zenon, <1>11, <1>12 DEF n, q, Joined


LEMMA AppendFacts ==
    ASSUME NEW queue, IsQueue(queue), NEW r \in Nat \ Range(queue)
    PROVE  Joined(Append(queue, r), queue, r)
<1>1. queue \in Seq(Nat) /\ << >> \in Seq(Nat)
    BY SMTT(120), QueueFacts
<1>2. <<r>> \in Seq(Nat) /\ queue \o <<r>> \in Seq(Nat)
    BY SMTT(120), <1>1
<1>3. queue \o << >> = queue /\ (queue \o <<r>>) \o << >> = queue \o <<r>>
    BY Zenon, <1>1, <1>2, ConcatEmptySeq
<1>4. Append(queue, r) = queue \o <<r>>
    BY Zenon, <1>1, AppendIsConcat
<1>5. IsQueue(queue \o << >>) /\ r \in Nat /\ r \notin Range(queue \o << >>)
    BY Zenon, <1>3
<1>6. Joined((queue \o <<r>>) \o << >>, queue \o << >>, r)
    BY Zenon, <1>1, <1>5, InsertFacts
<1> QED BY Zenon, <1>3, <1>4, <1>6

LEMMA ConsFacts ==
    ASSUME NEW queue, IsQueue(queue), NEW r \in Nat \ Range(queue)
    PROVE  Joined(<<r>> \o queue, queue, r)
<1>1. queue \in Seq(Nat) /\ << >> \in Seq(Nat)
    BY QueueFacts
<1>2. <<r>> \in Seq(Nat)
    OBVIOUS
<1>3. << >> \o queue = queue /\ << >> \o <<r>> = <<r>>
    BY Zenon, <1>1, <1>2, ConcatEmptySeq
<1>5. IsQueue(<< >> \o queue) /\ r \in Nat /\ r \notin Range(<< >> \o queue)
    BY Zenon, <1>3
<1>6. Joined((<< >> \o <<r>>) \o queue, << >> \o queue, r)
    BY Zenon, <1>1, <1>5, InsertFacts
<1> QED BY Zenon, <1>3, <1>6

\* A heap gets the request it is given, and keeps its own.
LEMMA PushFacts ==
    ASSUME NEW queue, IsQueue(queue), NEW r \in Nat \ Range(queue)
    PROVE  Joined(Push(queue, r), queue, r)
<1> DEFINE before == {i \in DOMAIN queue : Before(queue[i], r)}
           k == Cardinality(before)
           left == SubSeq(queue, 1, k)
           right == SubSeq(queue, k + 1, Len(queue))
<1>1. queue \in Seq(Nat) /\ Len(queue) \in Nat /\ DOMAIN queue = 1 .. Len(queue)
    BY Zenon, QueueFacts
<1>2. k \in 0 .. Len(queue)
    <2>1. IsFiniteSet(1 .. Len(queue)) /\ Cardinality(1 .. Len(queue)) = Len(queue)
        <3>1. 1 \in Int /\ Len(queue) \in Int /\ (Len(queue) - 1) + 1 = Len(queue)
            BY SMTT(120), <1>1
        <3>2. IsFiniteSet(1 .. Len(queue))
            BY Zenon, <3>1, FS_Interval
        <3>3. Cardinality(1 .. Len(queue)) = IF 1 > Len(queue) THEN 0 ELSE Len(queue) - 1 + 1
            BY Zenon, <3>1, FS_Interval
        <3> QED BY SMTT(120), <1>1, <3>2, <3>3
    <2>2. before \subseteq 1 .. Len(queue)
        BY Zenon, <1>1
    <2>3. IsFiniteSet(before) /\ k <= Len(queue)
        BY Zenon, <2>1, <2>2, FS_Subset
    <2>4. k \in Nat
        BY Zenon, <2>3, FS_CardinalityType
    <2> QED BY SMTT(120), <1>1, <2>3, <2>4
<1> HIDE DEF k
<1>3. left \in Seq(Nat) /\ right \in Seq(Nat) /\ left \o right = queue
    <2>1. \A i \in 1 .. Len(queue) : queue[i] \in Nat
        BY Zenon, QueueFacts
    <2>2. left \in Seq(Nat) /\ right \in Seq(Nat)
        <3>1. \A i \in 1 .. k : queue[i] \in Nat
            BY SMTT(120), <1>1, <1>2, <2>1
        <3>2. \A i \in k + 1 .. Len(queue) : queue[i] \in Nat
            BY SMTT(120), <1>1, <1>2, <2>1
        <3>3. k \in Int /\ k + 1 \in Int /\ Len(queue) \in Int /\ 1 \in Int
            BY SMTT(120), <1>1, <1>2
        <3> QED BY Zenon, <3>1, <3>2, <3>3, SubSeqProperties
    <2>3. left \o right = SubSeq(queue, 1, Len(queue))
        <3>1. 1 \in 1 .. Len(queue) + 1 /\ k \in 1 - 1 .. Len(queue) /\ Len(queue) \in k .. Len(queue)
            BY SMTT(120), <1>1, <1>2
        <3> QED BY Zenon, <1>1, <3>1, ConcatAdjacentSubSeq
    <2> QED BY Zenon, <1>1, <2>2, <2>3, SubSeqFull
<1>4. Push(queue, r) = left \o <<r>> \o right
    BY Zenon DEF Push, k
<1> HIDE DEF left, right
<1>5. IsQueue(left \o right) /\ r \in Nat /\ r \notin Range(left \o right)
    BY Zenon, <1>3
<1>6. Joined(left \o <<r>> \o right, left \o right, r)
    BY Zenon, <1>3, <1>5, InsertFacts
<1> QED BY Zenon, <1>3, <1>4, <1>6

LEMMA AddToFacts ==
    ASSUME NEW queue, IsQueue(queue), NEW r \in Nat \ Range(queue)
    PROVE  Joined(AddTo(queue, r), queue, r)
BY Zenon, AppendFacts, PushFacts DEF AddTo

LEMMA PrependToFacts ==
    ASSUME NEW queue, IsQueue(queue), NEW r \in Nat \ Range(queue)
    PROVE  Joined(PrependTo(queue, r), queue, r)
BY Zenon, ConsFacts, PushFacts DEF PrependTo

\* pop_request takes the first request out.
LEMMA PopFacts ==
    ASSUME NEW queue, IsQueue(queue), queue # << >>
    PROVE  Head(queue) \in Range(queue) /\ Left(Tail(queue), queue, {Head(queue)})
<1> DEFINE n == Len(queue)
           t == Tail(queue)
<1>1. /\ queue \in Seq(Nat) /\ n \in Nat /\ n # 0
      /\ \A i, j \in 1 .. n : queue[i] = queue[j] => i = j
      /\ \A x : x \in Range(queue) <=> \E i \in 1 .. n : queue[i] = x
    BY SMTT(120), QueueFacts
<1>2. /\ t \in Seq(Nat) /\ Len(t) = n - 1 /\ \A i \in 1 .. n - 1 : t[i] = queue[i + 1]
      /\ Head(queue) = queue[1]
    BY SMTT(120), <1>1
<1> HIDE DEF t, n
<1>3. IsQueue(t)
    <2>1. \A i, j \in 1 .. n - 1 : t[i] = t[j] => i = j
        <3> SUFFICES ASSUME NEW i \in 1 .. n - 1, NEW j \in 1 .. n - 1, t[i] = t[j] PROVE i = j
            BY Zenon
        <3>1. i + 1 \in 1 .. n /\ j + 1 \in 1 .. n /\ queue[i + 1] = queue[j + 1]
            BY SMTT(120), <1>1, <1>2
        <3>2. i + 1 = j + 1
            BY Zenon, <1>1, <3>1
        <3> QED BY SMTT(120), <3>2
    <2> QED BY Zenon, <1>2, <2>1, MakeQueue
<1>4. ASSUME NEW x PROVE x \in Range(t) <=> x \in Range(queue) /\ x # queue[1]
    <2>1. x \in Range(t) <=> \E i \in 1 .. n - 1 : t[i] = x
        BY SMTT(120), <1>2, <1>3, QueueFacts
    <2>2. ASSUME NEW i \in 1 .. n - 1, t[i] = x PROVE x \in Range(queue) /\ x # queue[1]
        <3>1. i + 1 \in 1 .. n /\ 1 \in 1 .. n /\ i + 1 # 1 /\ queue[i + 1] = x
            BY SMTT(120), <1>1, <1>2, <2>2
        <3> QED BY Zenon, <1>1, <3>1
    <2>3. ASSUME NEW i \in 1 .. n, queue[i] = x, x # queue[1] PROVE \E j \in 1 .. n - 1 : t[j] = x
        <3>1. i - 1 \in 1 .. n - 1 /\ t[i - 1] = x
            BY SMTT(120), <1>1, <1>2, <2>3
        <3> QED BY Zenon, <3>1
    <2> QED BY Zenon, <1>1, <2>1, <2>2, <2>3
<1>5. 1 \in 1 .. n
    BY <1>1
<1> QED BY SMTT(120), <1>1, <1>2, <1>3, <1>4, <1>5 DEF t, Left


\* remove_requests and remove_all keep the order and drop the requests in gone.
LEMMA RemoveAllFacts ==
    ASSUME NEW queue, IsQueue(queue), NEW gone
    PROVE  Left(RemoveAll(queue, gone), queue, gone)
<1> DEFINE N == Len(queue)
           Next(f, n) == IF n = 0 THEN << >>
                         ELSE IF queue[n] \in gone THEN f[n - 1] ELSE Append(f[n - 1], queue[n])
           Rec(f, m) == f = [n \in 0 .. m |-> Next(f, n)]
           Has(m) == \E f : Rec(f, m)
<1>1. N \in Nat
    BY Zenon, QueueFacts
<1>2. Has(0)
    <2> DEFINE f == [n \in 0 .. 0 |-> << >>]
    <2>1. f = [n \in 0 .. 0 |-> Next(f, n)]
        <3>1. \A n \in 0 .. 0 : n = 0
            OBVIOUS
        <3> QED BY Zenon, <3>1
    <2> QED BY Zenon, <2>1
<1>3. ASSUME NEW m \in Nat \ {0}, Has(m - 1) PROVE Has(m)
    <2>1. PICK g : Rec(g, m - 1)
        BY Zenon, <1>3
    <2> DEFINE f == [n \in 0 .. m |-> IF n = m THEN Next(g, m) ELSE g[n]]
    <2>2. \A n \in 0 .. m - 1 : g[n] = Next(g, n)
        BY Zenon, <2>1
    <2>3. ASSUME NEW n \in 0 .. m PROVE f[n] = Next(f, n)
        <3>1. n # 0 => n - 1 \in 0 .. m /\ n - 1 # m /\ f[n - 1] = g[n - 1]
            BY SMTT(120), <1>3
        <3>2. Next(f, n) = Next(g, n)
            <4> HIDE DEF f
            <4> QED BY Zenon, <3>1
        <3>3. CASE n = m
            <4>1. f[n] = Next(g, n)
                BY Zenon, <3>3
            <4> HIDE DEF f, Next
            <4> QED BY Zenon, <4>1, <3>2
        <3>4. CASE n # m
            <4>1. n \in 0 .. m - 1
                BY SMTT(120), <3>4, <1>3
            <4>2. f[n] = g[n]
                BY Zenon, <3>4
            <4> QED BY Zenon, <4>1, <4>2, <2>2, <3>2
        <3> QED BY Zenon, <3>3, <3>4
    <2>4. f = [n \in 0 .. m |-> f[n]]
        BY Zenon
    <2> HIDE DEF f, Next
    <2>5. f = [n \in 0 .. m |-> Next(f, n)]
        BY Zenon, <2>3, <2>4
    <2> QED BY Zenon, <2>5
<1> HIDE DEF Has
<1>4. \A m \in Nat : Has(m)
    <2> DEFINE S == {m \in Nat : ~Has(m)}
    <2> SUFFICES ASSUME S # {} PROVE FALSE
        BY Zenon
    <2>1. PICK m \in S : \A k \in S : m <= k
        BY Zenon, Smallest
    <2>2. m # 0 /\ m - 1 \in Nat /\ m - 1 \notin S
        BY SMTT(120), <1>2, <2>1
    <2> QED BY Zenon, <1>3, <2>1, <2>2
<1> DEFINE kept == CHOOSE f : Rec(f, N)
<1>5. Rec(kept, N)
    BY Zenon, <1>1, <1>4 DEF Has
<1>6. RemoveAll(queue, gone) = kept[N]
    BY Zenon DEF RemoveAll
<1>7. \A n \in 0 .. N : kept[n] = Next(kept, n)
    <2> HIDE DEF kept
    <2> QED BY Zenon, <1>5
<1> HIDE DEF kept
\* The first n requests without those in gone
<1> DEFINE Good(n) == IsQueue(kept[n]) /\ Range(kept[n]) = {queue[j] : j \in 1 .. n} \ gone
<1>8. Good(0)
    <2>1. kept[0] = << >>
        BY SMTT(120), <1>1, <1>7
    <2>2. {queue[j] : j \in 1 .. 0} = {}
        OBVIOUS
    <2> QED BY Zenon, <2>1, <2>2, EmptyQueue
<1>9. ASSUME NEW n \in 1 .. N, Good(n - 1) PROVE Good(n)
    <2>1. n - 1 \in 0 .. N /\ n \in 0 .. N /\ n # 0
        BY SMTT(120), <1>1
    <2>2. {queue[j] : j \in 1 .. n} = {queue[j] : j \in 1 .. n - 1} \cup {queue[n]}
        <3>1. 1 .. n = 1 .. n - 1 \cup {n}
            BY SMTT(120), <1>1
        <3> QED BY Zenon, <3>1
    <2>3. CASE queue[n] \in gone
        <3>1. kept[n] = kept[n - 1]
            BY Zenon, <2>1, <2>3, <1>7
        <3> QED BY ZenonT(60), <3>1, <2>2, <2>3, <1>9
    <2>4. CASE queue[n] \notin gone
        <3>1. kept[n] = Append(kept[n - 1], queue[n])
            BY Zenon, <2>1, <2>4, <1>7
        <3>2. queue[n] \in Nat /\ queue[n] \notin {queue[j] : j \in 1 .. n - 1}
            <4>1. \A j \in 1 .. n - 1 : j \in 1 .. N /\ j # n
                BY <1>1
            <4> QED BY ZenonT(60), <4>1, QueueFacts
        <3>3. queue[n] \in Nat \ Range(kept[n - 1])
            BY Zenon, <3>2, <1>9
        <3>4. Joined(Append(kept[n - 1], queue[n]), kept[n - 1], queue[n])
            BY Zenon, <1>9, <3>3, AppendFacts
        <3> QED BY ZenonT(60), <3>1, <3>4, <2>2, <2>4, <1>9 DEF Joined
    <2> QED BY Zenon, <2>3, <2>4
<1> HIDE DEF Good
<1>10. \A n \in 0 .. N : Good(n)
    <2> DEFINE S == {n \in 0 .. N : ~Good(n)}
    <2> SUFFICES ASSUME S # {} PROVE FALSE
        BY Zenon
    <2>0. S \in SUBSET Nat
        BY SMTT(120), <1>1
    <2>1. PICK m \in S : \A k \in S : m <= k
        BY Zenon, <2>0, Smallest
    <2>2. m \in 1 .. N /\ m - 1 \in 0 .. N /\ m - 1 \notin S
        BY SMTT(120), <1>1, <1>8, <2>0, <2>1
    <2> QED BY Zenon, <1>9, <2>1, <2>2
<1>11. Good(N)
    BY SMTT(120), <1>1, <1>10
<1>12. {queue[j] : j \in 1 .. N} = Range(queue)
    BY SMTT(120), QueueFacts
<1> QED BY Zenon, <1>6, <1>11, <1>12 DEF Good, Left

\* prepend_requests moves the requests of another queue into this one.
LEMMA PrependRequestsFacts ==
    ASSUME NEW queue, IsQueue(queue), NEW others, IsQueue(others),
           Range(queue) \cap Range(others) = {}
    PROVE  /\ IsQueue(PrependRequests(queue, others))
           /\ Range(PrependRequests(queue, others)) = Range(queue) \cup Range(others)
<1> DEFINE N == Len(others)
           Next(f, n) == IF n = 0 THEN queue ELSE PrependTo(f[n - 1], others[n])
           Rec(f, m) == f = [n \in 0 .. m |-> Next(f, n)]
           Has(m) == \E f : Rec(f, m)
<1>1. N \in Nat
    BY Zenon, QueueFacts
<1>2. Has(0)
    <2> DEFINE f == [n \in 0 .. 0 |-> queue]
    <2>1. f = [n \in 0 .. 0 |-> Next(f, n)]
        <3>1. \A n \in 0 .. 0 : n = 0
            OBVIOUS
        <3> QED BY Zenon, <3>1
    <2> QED BY Zenon, <2>1
<1>3. ASSUME NEW m \in Nat \ {0}, Has(m - 1) PROVE Has(m)
    <2>1. PICK g : Rec(g, m - 1)
        BY Zenon, <1>3
    <2> DEFINE f == [n \in 0 .. m |-> IF n = m THEN Next(g, m) ELSE g[n]]
    <2>2. \A n \in 0 .. m - 1 : g[n] = Next(g, n)
        BY Zenon, <2>1
    <2>3. ASSUME NEW n \in 0 .. m PROVE f[n] = Next(f, n)
        <3>1. n # 0 => n - 1 \in 0 .. m /\ n - 1 # m /\ f[n - 1] = g[n - 1]
            BY SMTT(120), <1>3
        <3>2. Next(f, n) = Next(g, n)
            <4> HIDE DEF f
            <4> QED BY Zenon, <3>1
        <3>3. CASE n = m
            <4>1. f[n] = Next(g, n)
                BY Zenon, <3>3
            <4> HIDE DEF f, Next
            <4> QED BY Zenon, <4>1, <3>2
        <3>4. CASE n # m
            <4>1. n \in 0 .. m - 1
                BY SMTT(120), <3>4, <1>3
            <4>2. f[n] = g[n]
                BY Zenon, <3>4
            <4> QED BY Zenon, <4>1, <4>2, <2>2, <3>2
        <3> QED BY Zenon, <3>3, <3>4
    <2>4. f = [n \in 0 .. m |-> f[n]]
        BY Zenon
    <2> HIDE DEF f, Next
    <2>5. f = [n \in 0 .. m |-> Next(f, n)]
        BY Zenon, <2>3, <2>4
    <2> QED BY Zenon, <2>5
<1> HIDE DEF Has
<1>4. \A m \in Nat : Has(m)
    <2> DEFINE S == {m \in Nat : ~Has(m)}
    <2> SUFFICES ASSUME S # {} PROVE FALSE
        BY Zenon
    <2>1. PICK m \in S : \A k \in S : m <= k
        BY Zenon, Smallest
    <2>2. m # 0 /\ m - 1 \in Nat /\ m - 1 \notin S
        BY SMTT(120), <1>2, <2>1
    <2> QED BY Zenon, <1>3, <2>1, <2>2
<1> DEFINE pushed == CHOOSE f : Rec(f, N)
<1>5. Rec(pushed, N)
    BY Zenon, <1>1, <1>4 DEF Has
<1>6. PrependRequests(queue, others) = pushed[N]
    BY Zenon DEF PrependRequests
<1>7. \A n \in 0 .. N : pushed[n] = Next(pushed, n)
    <2> HIDE DEF pushed
    <2> QED BY Zenon, <1>5
<1> HIDE DEF pushed
\* The queue after the first n others
<1> DEFINE Good(n) == /\ IsQueue(pushed[n])
                      /\ Range(pushed[n]) = Range(queue) \cup {others[j] : j \in 1 .. n}
<1>8. Good(0)
    <2>1. pushed[0] = queue
        BY SMTT(120), <1>1, <1>7
    <2>2. {others[j] : j \in 1 .. 0} = {}
        OBVIOUS
    <2> QED BY Zenon, <2>1, <2>2
<1>9. ASSUME NEW n \in 1 .. N, Good(n - 1) PROVE Good(n)
    <2>1. n \in 0 .. N /\ n # 0
        BY SMTT(120), <1>1
    <2>2. {others[j] : j \in 1 .. n} = {others[j] : j \in 1 .. n - 1} \cup {others[n]}
        <3>1. 1 .. n = 1 .. n - 1 \cup {n}
            BY SMTT(120), <1>1
        <3> QED BY Zenon, <3>1
    <2>3. pushed[n] = PrependTo(pushed[n - 1], others[n])
        BY Zenon, <2>1, <1>7
    <2>4. others[n] \in Nat /\ others[n] \in Range(others)
                /\ others[n] \notin {others[j] : j \in 1 .. n - 1}
        <3>1. \A j \in 1 .. n - 1 : j \in 1 .. N /\ j # n
            BY <1>1
        <3> QED BY SMTT(120), <3>1, QueueFacts
    <2>5. others[n] \in Nat \ Range(pushed[n - 1])
        BY Zenon, <2>4, <1>9
    <2>6. Joined(PrependTo(pushed[n - 1], others[n]), pushed[n - 1], others[n])
        BY Zenon, <1>9, <2>5, PrependToFacts
    <2> QED BY Zenon, <2>2, <2>3, <2>6, <1>9 DEF Joined
<1> HIDE DEF Good
<1>10. \A n \in 0 .. N : Good(n)
    <2> DEFINE S == {n \in 0 .. N : ~Good(n)}
    <2> SUFFICES ASSUME S # {} PROVE FALSE
        BY Zenon
    <2>0. S \in SUBSET Nat
        BY SMTT(120), <1>1
    <2>1. PICK m \in S : \A k \in S : m <= k
        BY Zenon, <2>0, Smallest
    <2>2. m \in 1 .. N /\ m - 1 \in 0 .. N /\ m - 1 \notin S
        BY SMTT(120), <1>1, <1>8, <2>0, <2>1
    <2> QED BY Zenon, <1>9, <2>1, <2>2
<1>11. Good(N)
    BY SMTT(120), <1>1, <1>10
<1>12. {others[j] : j \in 1 .. N} = Range(others)
    BY SMTT(120), QueueFacts
<1> QED BY Zenon, <1>6, <1>11, <1>12 DEF Good

\* A nonempty set of indices has a last one.
LEMMA Largest ==
    ASSUME NEW n \in Nat, NEW S \in SUBSET (1 .. n), S # {}
    PROVE  \E i \in S : \A j \in S : j <= i
<1> DEFINE T == {n - i : i \in S}
<1>1. T \in SUBSET Nat /\ T # {}
    <2>1. \A i \in S : n - i \in Nat
        OBVIOUS
    <2>2. PICK i \in S : TRUE
        BY Zenon
    <2> QED BY Zenon, <2>1, <2>2
<1>2. PICK k \in T : \A m \in T : k <= m
    BY Zenon, <1>1, Smallest
<1>3. PICK i \in S : k = n - i
    BY Zenon, <1>2
<1>4. ASSUME NEW j \in S PROVE j <= i
    <2>1. n - j \in T /\ i \in 1 .. n /\ j \in 1 .. n
        BY Zenon, <1>3
    <2>2. n - i <= n - j
        BY Zenon, <1>2, <1>3, <2>1
    <2> QED BY SMTT(120), <2>1, <2>2
<1> QED BY Zenon, <1>4

\* Among some places of a queue one has the request that comes after all others.
LEMMA LastRequest ==
    ASSUME NEW queue, IsQueue(queue), NEW A, Range(queue) \subseteq A, Priority \in [A -> Nat],
           NEW S \in SUBSET (1 .. Len(queue)), S # {}
    PROVE  \E i \in S : \A j \in S : i = j \/ Before(queue[j], queue[i])
<1> DEFINE N == Len(queue)
           Last(T, i) == i \in T /\ \A j \in T : i = j \/ Before(queue[j], queue[i])
           Good(n) == \A T \in SUBSET (1 .. n) : T # {} => \E i : Last(T, i)
<1>1. N \in Nat
    BY Zenon, QueueFacts
<1>2. \A i \in 1 .. N : queue[i] \in Nat /\ Priority[queue[i]] \in Nat
    BY Zenon, QueueFacts
<1>3. \A i, j \in 1 .. N : i = j \/ Before(queue[i], queue[j]) \/ Before(queue[j], queue[i])
    <2> SUFFICES ASSUME NEW i \in 1 .. N, NEW j \in 1 .. N, i # j
                 PROVE  Before(queue[i], queue[j]) \/ Before(queue[j], queue[i])
        BY Zenon
    <2>1. queue[i] # queue[j]
        BY Zenon, QueueFacts
    <2> QED BY SMTT(120), <2>1, <1>2 DEF Before
<1>4. \A i, j, k \in 1 .. N : Before(queue[i], queue[j]) /\ Before(queue[j], queue[k])
                                => Before(queue[i], queue[k])
    BY SMTT(120), <1>2 DEF Before
<1>5. Good(0)
    OBVIOUS
<1>6. ASSUME NEW n \in 1 .. N, Good(n - 1) PROVE Good(n)
    <2> SUFFICES ASSUME NEW T \in SUBSET (1 .. n), T # {} PROVE \E i : Last(T, i)
        BY Zenon
    <2> DEFINE U == T \ {n}
    <2>0. U \in SUBSET (1 .. n - 1) /\ U \in SUBSET (1 .. N) /\ n \in 1 .. N
        BY SMTT(120), <1>1
    <2>1. CASE n \notin T
        <3>1. T = U
            BY Zenon, <2>1
        <3> QED BY Zenon, <3>1, <2>0, <1>6
    <2>2. CASE n \in T /\ U = {}
        <3>1. Last(T, n)
            BY Zenon, <2>2
        <3> QED BY Zenon, <3>1
    <2>3. CASE n \in T /\ U # {}
        <3>1. PICK i : Last(U, i)
            BY Zenon, <2>0, <2>3, <1>6
        <3>2. i \in 1 .. N /\ n # i /\ i \in T
            BY Zenon, <3>1, <2>0
        <3>3. CASE Before(queue[n], queue[i])
            <4>1. Last(T, i)
                BY Zenon, <3>1, <3>2, <3>3
            <4> QED BY Zenon, <4>1
        <3>4. CASE Before(queue[i], queue[n])
            <4>1. \A j \in U : Before(queue[j], queue[n])
                BY Zenon, <3>1, <3>2, <3>4, <2>0, <1>4
            <4>2. Last(T, n)
                BY Zenon, <4>1, <2>3
            <4> QED BY SMTT(120), <4>2
        <3> QED BY Zenon, <3>2, <3>3, <3>4, <2>0, <1>3
    <2> QED BY Zenon, <2>1, <2>2, <2>3
<1> HIDE DEF Good
<1>7. \A n \in 0 .. N : Good(n)
    <2> DEFINE X == {n \in 0 .. N : ~Good(n)}
    <2> SUFFICES ASSUME X # {} PROVE FALSE
        BY Zenon
    <2>0. X \in SUBSET Nat
        BY SMTT(120), <1>1
    <2>1. PICK m \in X : \A k \in X : m <= k
        BY Zenon, <2>0, Smallest
    <2>2. m \in 1 .. N /\ m - 1 \in 0 .. N /\ m - 1 \notin X
        BY SMTT(120), <1>1, <1>5, <2>0, <2>1
    <2> QED BY Zenon, <1>6, <2>1, <2>2
<1>8. Good(N)
    BY SMTT(120), <1>1, <1>7
<1> QED BY Zenon, <1>8 DEF Good

\* Two queues without a common request, one after the other, are a queue.
LEMMA ConcatFacts ==
    ASSUME NEW p, IsQueue(p), NEW q, IsQueue(q), Range(p) \cap Range(q) = {}
    PROVE  IsQueue(p \o q) /\ Range(p \o q) = Range(p) \cup Range(q)
<1> DEFINE a == Len(p)
           b == Len(q)
           c == p \o q
<1>1. p \in Seq(Nat) /\ q \in Seq(Nat) /\ a \in Nat /\ b \in Nat
    BY Zenon, QueueFacts
<1>2. /\ c \in Seq(Nat) /\ Len(c) = a + b
      /\ \A i \in 1 .. a + b : c[i] = IF i <= a THEN p[i] ELSE q[i - a]
    BY SMTT(120), <1>1
<1> HIDE DEF a, b, c
<1>3. \A i \in 1 .. a + b : IF i <= a THEN i \in 1 .. a ELSE i - a \in 1 .. b
    BY SMTT(120), <1>1
<1>4. \A i \in 1 .. a + b : i <= a => c[i] = p[i] /\ i \in 1 .. a /\ c[i] \in Range(p)
    <2>1. \A i \in 1 .. a : p[i] \in Range(p)
        BY Zenon, QueueFacts DEF a
    <2> QED BY Zenon, <1>2, <1>3, <2>1
<1>5. \A i \in 1 .. a + b : ~(i <= a) => c[i] = q[i - a] /\ i - a \in 1 .. b /\ c[i] \in Range(q)
    <2>1. \A i \in 1 .. b : q[i] \in Range(q)
        BY Zenon, QueueFacts DEF b
    <2> QED BY Zenon, <1>2, <1>3, <2>1
<1>6. \A i, j \in 1 .. a + b : c[i] = c[j] => i = j
    <2> SUFFICES ASSUME NEW i \in 1 .. a + b, NEW j \in 1 .. a + b, c[i] = c[j] PROVE i = j
        BY Zenon
    <2>1. CASE i <= a /\ j <= a
        <3>1. p[i] = p[j] /\ i \in 1 .. a /\ j \in 1 .. a
            BY Zenon, <2>1, <1>4
        <3> QED BY SMTT(120), <3>1, QueueFacts DEF a
    <2>2. CASE ~(i <= a) /\ ~(j <= a)
        <3>1. q[i - a] = q[j - a] /\ i - a \in 1 .. b /\ j - a \in 1 .. b
            BY Zenon, <2>2, <1>5
        <3>2. i - a = j - a
            BY Zenon, <3>1, QueueFacts DEF b
        <3> QED BY SMTT(120), <3>2, <1>1
    <2>3. CASE (i <= a /\ ~(j <= a)) \/ (j <= a /\ ~(i <= a))
        BY Zenon, <2>3, <1>4, <1>5
    <2> QED BY Zenon, <2>1, <2>2, <2>3
<1>7. IsQueue(c)
    BY Zenon, <1>2, <1>6, MakeQueue
<1>8. ASSUME NEW x PROVE x \in Range(c) <=> x \in Range(p) \/ x \in Range(q)
    <2>1. x \in Range(c) <=> \E i \in 1 .. a + b : c[i] = x
        BY SMTT(120), <1>2, <1>7, QueueFacts
    <2>2. ASSUME NEW i \in 1 .. a + b, c[i] = x PROVE x \in Range(p) \/ x \in Range(q)
        BY Zenon, <2>2, <1>4, <1>5
    <2>3. ASSUME x \in Range(p) PROVE \E i \in 1 .. a + b : c[i] = x
        <3>1. PICK i \in 1 .. a : p[i] = x
            BY Zenon, <2>3, QueueFacts DEF a
        <3>2. i \in 1 .. a + b /\ i <= a
            BY SMTT(120), <1>1
        <3> QED BY Zenon, <3>1, <3>2, <1>4
    <2>4. ASSUME x \in Range(q) PROVE \E i \in 1 .. a + b : c[i] = x
        <3>1. PICK i \in 1 .. b : q[i] = x
            BY Zenon, <2>4, QueueFacts DEF b
        <3>2. i + a \in 1 .. a + b /\ ~(i + a <= a) /\ (i + a) - a = i
            BY SMTT(120), <1>1
        <3> QED BY Zenon, <3>1, <3>2, <1>5
    <2> QED BY Zenon, <2>1, <2>2, <2>3, <2>4
<1> QED BY Zenon, <1>7, <1>8 DEF c
=============================================================================
