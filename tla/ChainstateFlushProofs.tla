----------------------- MODULE ChainstateFlushProofs -----------------------
(***************************************************************************)
(* The coins of a node that may stop at any moment, for every tree of      *)
(* valid blocks, any coins and any number of batches, crashes and replays. *)
(*                                                                         *)
(* What makes ReplayBlocks work is that every coin on disk is, at every    *)
(* moment of a flush, what it is at the old tip or what it is at the new   *)
(* one.  Rolling a transaction back or forward decides the coins it        *)
(* touches whatever they were, so both walks keep this, with the block     *)
(* they have reached in the old tip's place.                               *)
(***************************************************************************)
EXTENDS ChainstateFlush, BlockPathProofs

\* Leaves that name no prover: SMT, then Zenon, with time to spare.
USE SMTT(20), ZenonT(30)

\* While DB_HEAD_BLOCKS is there, DB_BEST_BLOCK is not, the node does not run,
\* and whoever flushes, the node or ReplayBlocks, flushes to the first head.
Transition ==
    heads # <<>> =>
        /\ best = None /\ phase \in {"off", "flush"}
        /\ heads = <<heads[1], heads[2]>>
        /\ phase = "flush" => tip = heads[1]

\* The flags of a cache over base: a clean entry is the base's coin, and what is
\* FRESH is spent in the base.
Sound(c, base) ==
    \A o \in OutPoints :
       /\ c[o].in /\ ~c[o].dirty => c[o].coin = base[o]
       /\ c[o].fresh => base[o] = Spent
       /\ ~c[o].in => ~c[o].dirty /\ ~c[o].fresh

\* The UTXO set before transaction i of block b.
Before(b, i) == Applied(UtxoAt[Parent[b]], b)[i - 1]

\* The undo data of b, by the meaning of the blocks up to b.
UndoOf(b) == [i \in DOMAIN Txs[b] |-> [o \in Txs[b][i].ins |-> Before(b, i)[o]]]

\* The variables that hold coins and blocks hold coins and blocks.
CoinsType ==
    /\ db \in UtxoMaps /\ cache \in Caches
    /\ best \in Maybe(Blocks) /\ tip \in Maybe(Blocks)
    /\ heads # <<>> => heads[1] \in Blocks /\ heads[2] \in Maybe(Blocks)
    /\ index \subseteq Blocks /\ mem \subseteq Blocks
    /\ DOMAIN undo = Blocks
    /\ phase \in {"off", "run", "flush"}

\* The block index knows every block that the coins on disk refer to, with its
\* ancestors, and the undo data of each block it knows.
IndexInv ==
    /\ best # None => Path[best] \subseteq index
    /\ heads # <<>> => Path[heads[1]] \subseteq index /\ Path[heads[2]] \subseteq index
    /\ phase # "off" => tip \in Blocks /\ Path[tip] \subseteq mem /\ index \subseteq mem
    /\ phase = "flush" => Path[tip] \subseteq index
    /\ \A b \in (mem \cup index) \ {Genesis} : undo[b] = UndoOf(b)

\* Every coin on disk is the one of the best block, or of one of the two heads.
DiskInv ==
    IF heads = <<>> THEN db = UtxoAt[best]
    ELSE \A o \in OutPoints : db[o] = UtxoAt[heads[2]][o] \/ db[o] = UtxoAt[heads[1]][o]

\* What the process sees through its cache is the UTXO set of its tip, also
\* while it flushes the cache.
CacheInv ==
    /\ phase = "off" => cache = EmptyCache
    /\ phase # "off" => Sound(cache, db) /\ Look(cache, db) = UtxoAt[tip]

CoinsInv == CoinsType /\ IndexInv /\ DiskInv /\ CacheInv

IInv == Transition /\ CoinsInv

-----------------------------------------------------------------------------
(***************************************************************************)
(* The views.                                                              *)
(***************************************************************************)

\* Every stored coin is a block, and Spent is none.
LEMMA CoinFacts == Spendable = Blocks /\ Spent \notin Blocks /\ MaybeCoin = Blocks \cup {Spent}
BY CoinsAssumption, SpentAssumption DEF Spendable, MaybeCoin

\* What a view over base answers.
LEMMA LookFacts ==
  ASSUME NEW c \in Caches, NEW base \in UtxoMaps
  PROVE  /\ Look(c, base) \in UtxoMaps
         /\ \A o \in OutPoints : Look(c, base)[o] = IF c[o].in THEN c[o].coin ELSE base[o]
BY DEF Look, Caches, UtxoMaps, Entry

\* An empty cache is sound and shows its base.
LEMMA EmptyFacts ==
  ASSUME NEW base \in UtxoMaps
  PROVE  EmptyCache \in Caches /\ Sound(EmptyCache, base) /\ Look(EmptyCache, base) = base
<1>1. EmptyCache \in Caches /\ Sound(EmptyCache, base)
  BY DEF EmptyCache, NoEntry, Caches, Entry, MaybeCoin, Sound
<1>2. Look(EmptyCache, base) = base
  BY DEF EmptyCache, NoEntry, Look, UtxoMaps
<1> QED BY <1>1, <1>2

\* One outpoint spent in a view over base: a FRESH coin is forgotten because
\* the base does not have it.
LEMMA SpendEntry ==
  ASSUME NEW c \in Caches, NEW base \in UtxoMaps, NEW o \in OutPoints
  PROVE  /\ SpendCoin(c, base, o)[o] \in Entry
         /\ SpendCoin(c, base, o)[o] =
              IF c[o].in THEN IF c[o].fresh THEN NoEntry ELSE SpentEntry
              ELSE IF base[o] = Spent THEN c[o] ELSE SpentEntry
<1>1. c[o] \in Entry /\ base[o] \in MaybeCoin
  BY DEF Caches, UtxoMaps
<1>2. NoEntry \in Entry /\ SpentEntry \in Entry
  BY DEF NoEntry, SpentEntry, Entry, MaybeCoin
<1>3. CASE c[o].in \/ base[o] = Spent
  <2>1. FetchCoin(c, base, o) = c
    BY <1>3 DEF FetchCoin
  <2> QED BY <1>1, <1>2, <1>3, <2>1 DEF SpendCoin, Caches
<1>4. CASE ~(c[o].in \/ base[o] = Spent)
  <2> DEFINE f == FetchCoin(c, base, o)
  <2>1. f \in Caches /\ f[o].in /\ ~f[o].fresh
    BY <1>1, <1>4 DEF FetchCoin, Caches, Entry
  <2> QED BY <1>1, <1>2, <1>4, <2>1 DEF SpendCoin, Caches
<1> QED BY <1>3, <1>4

\* Spending a set of outpoints.
LEMMA SpendAllFacts ==
  ASSUME NEW c \in Caches, NEW base \in UtxoMaps, NEW S \in SUBSET OutPoints
  PROVE  /\ SpendAll(c, base, S) \in Caches
         /\ Sound(c, base) =>
              /\ Sound(SpendAll(c, base, S), base)
              /\ \A o \in OutPoints : Look(SpendAll(c, base, S), base)[o] =
                                        IF o \in S THEN Spent ELSE Look(c, base)[o]
<1> DEFINE d == SpendAll(c, base, S)
<1>1. d \in Caches
  BY SpendEntry, ZenonT(30) DEF SpendAll, Caches
<1>2. ASSUME Sound(c, base), NEW o \in OutPoints
      PROVE  /\ d[o].in /\ ~d[o].dirty => d[o].coin = base[o]
             /\ d[o].fresh => base[o] = Spent
             /\ ~d[o].in => ~d[o].dirty /\ ~d[o].fresh
             /\ Look(d, base)[o] = IF o \in S THEN Spent ELSE Look(c, base)[o]
  <2>1. Look(d, base)[o] = IF d[o].in THEN d[o].coin ELSE base[o]
    BY <1>1, LookFacts
  <2>2. Look(c, base)[o] = IF c[o].in THEN c[o].coin ELSE base[o]
    BY LookFacts
  <2>3. /\ c[o].in /\ ~c[o].dirty => c[o].coin = base[o]
        /\ c[o].fresh => base[o] = Spent
        /\ ~c[o].in => ~c[o].dirty /\ ~c[o].fresh
    BY <1>2 DEF Sound
  <2>4. CASE o \notin S
    <3>1. d[o] = c[o]
      BY <2>4, ZenonT(30) DEF SpendAll
    <3> QED BY <2>1, <2>2, <2>3, <2>4, <3>1
  <2>5. CASE o \in S
    <3>1. d[o] = SpendCoin(c, base, o)[o]
      BY <2>5 DEF SpendAll
    <3>2. d[o] = IF c[o].in THEN IF c[o].fresh THEN NoEntry ELSE SpentEntry
                 ELSE IF base[o] = Spent THEN c[o] ELSE SpentEntry
      BY <3>1, SpendEntry
    <3> QED BY <2>1, <2>2, <2>3, <2>5, <3>2 DEF NoEntry, SpentEntry
  <2> QED BY <2>4, <2>5
<1> QED BY <1>1, <1>2 DEF Sound

\* One of the coins that are added.
LEMMA AddEntry ==
  ASSUME NEW c \in Caches, NEW S, NEW coin, NEW may, NEW o \in OutPoints, o \in S => coin[o] \in Blocks
  PROVE  AddAll(c, S, coin, may)[o] =
           IF o \in S THEN [in |-> TRUE, coin |-> coin[o], dirty |-> TRUE,
                            fresh |-> c[o].fresh \/ (o \notin may /\ ~c[o].dirty)]
           ELSE c[o]
<1>1. o \in S => coin[o] \notin Unspendable
  BY CoinsAssumption
<1> QED BY <1>1 DEF AddAll, AddCoin, Caches

\* Adding coins to a cache gives a cache.
LEMMA AddAllType ==
  ASSUME NEW c \in Caches, NEW S \in SUBSET OutPoints, NEW coin, \A o \in S : coin[o] \in Blocks, NEW may
  PROVE  AddAll(c, S, coin, may) \in Caches
<1> DEFINE d == AddAll(c, S, coin, may)
<1>1. ASSUME NEW o \in OutPoints PROVE d[o] \in Entry
  <2>1. c[o] \in Entry
    BY DEF Caches
  <2> DEFINE fresh == c[o].fresh \/ (o \notin may /\ ~c[o].dirty)
  <2>2. fresh \in BOOLEAN
    OBVIOUS
  <2>3. o \in S => coin[o] \in MaybeCoin
    BY CoinFacts
  <2>4. d[o] = IF o \in S THEN [in |-> TRUE, coin |-> coin[o], dirty |-> TRUE, fresh |-> fresh]
               ELSE c[o]
    BY AddEntry
  <2> HIDE DEF d, fresh
  <2> QED BY <2>1, <2>2, <2>3, <2>4 DEF Entry
<1>2. d = [o \in OutPoints |-> d[o]]
  BY DEF AddAll
<1> HIDE DEF d
<1>3. d \in Caches
  BY <1>1, <1>2, ZenonT(30) DEF Caches
<1> QED BY <1>3 DEF d

\* The coins of u are those of v, but coin on S.
Replaced(u, v, S, coin) == \A o \in OutPoints : u[o] = IF o \in S THEN coin[o] ELSE v[o]

\* Adding a set of coins is sound where a coin that may be there is overwritten.
LEMMA AddAllFacts ==
  ASSUME NEW c \in Caches, NEW base \in UtxoMaps, Sound(c, base), NEW S \in SUBSET OutPoints,
         NEW coin, \A o \in S : coin[o] \in Blocks,
         NEW may, \A o \in S \ may : Look(c, base)[o] = Spent
  PROVE  /\ Sound(AddAll(c, S, coin, may), base)
         /\ Replaced(Look(AddAll(c, S, coin, may), base), Look(c, base), S, coin)
<1> DEFINE d == AddAll(c, S, coin, may)
<1>1. ASSUME NEW o \in OutPoints
      PROVE  d[o] = IF o \in S
                    THEN [in |-> TRUE, coin |-> coin[o], dirty |-> TRUE,
                          fresh |-> c[o].fresh \/ (o \notin may /\ ~c[o].dirty)]
                    ELSE c[o]
  BY AddEntry
<1>2. d \in Caches
  BY AddAllType, ZenonT(30)
<1>3. ASSUME NEW o \in OutPoints
      PROVE  /\ d[o].in /\ ~d[o].dirty => d[o].coin = base[o]
             /\ d[o].fresh => base[o] = Spent
             /\ ~d[o].in => ~d[o].dirty /\ ~d[o].fresh
             /\ Look(d, base)[o] = IF o \in S THEN coin[o] ELSE Look(c, base)[o]
  <2>1. Look(d, base)[o] = IF d[o].in THEN d[o].coin ELSE base[o]
    <3> HIDE DEF d
    <3> QED BY <1>2, LookFacts
  <2>2. Look(c, base)[o] = IF c[o].in THEN c[o].coin ELSE base[o]
    BY LookFacts, ZenonT(30)
  <2>3. /\ c[o].in /\ ~c[o].dirty => c[o].coin = base[o]
        /\ c[o].fresh => base[o] = Spent
        /\ ~c[o].in => ~c[o].dirty /\ ~c[o].fresh
    BY DEF Sound
  <2>4. o \in S /\ o \notin may => Look(c, base)[o] = Spent
    OBVIOUS
  <2> HIDE DEF d
  <2>5. CASE o \notin S
    <3>1. d[o] = c[o]
      BY <1>1, <2>5, ZenonT(30)
    <3> QED BY <2>1, <2>2, <2>3, <2>5, <3>1
  <2>6. CASE o \in S
    <3> DEFINE fresh == c[o].fresh \/ (o \notin may /\ ~c[o].dirty)
    <3>1. d[o] = [in |-> TRUE, coin |-> coin[o], dirty |-> TRUE, fresh |-> fresh]
      BY <1>1, <2>6
    <3>2. d[o].in /\ d[o].coin = coin[o] /\ d[o].dirty /\ d[o].fresh = fresh
      <4> HIDE DEF fresh
      <4> QED BY <3>1
    <3>3. /\ d[o].in /\ d[o].coin = coin[o] /\ d[o].dirty
          /\ d[o].fresh => c[o].fresh \/ (o \notin may /\ ~c[o].dirty)
      BY <3>2, ZenonT(30)
    <3>4. d[o].fresh => base[o] = Spent
      BY <2>2, <2>3, <2>4, <2>6, <3>3
    <3> QED BY <2>1, <2>6, <3>3, <3>4, ZenonT(30)
  <2> QED BY <2>5, <2>6
<1> QED BY <1>2, <1>3, ZenonT(30) DEF Sound, Replaced

\* Looking coins up in a cache changes nothing that it shows.
LEMMA FetchedFacts ==
  ASSUME NEW c \in Caches, NEW base \in UtxoMaps, NEW S \in SUBSET OutPoints, Sound(c, base)
  PROVE  /\ Fetched(c, base, S) \in Caches
         /\ Sound(Fetched(c, base, S), base)
         /\ Look(Fetched(c, base, S), base) = Look(c, base)
<1> DEFINE d == Fetched(c, base, S)
<1>1. ASSUME NEW o \in OutPoints
      PROVE  d[o] = IF o \notin S \/ c[o].in \/ base[o] = Spent THEN c[o]
                    ELSE [in |-> TRUE, coin |-> base[o], dirty |-> FALSE, fresh |-> FALSE]
  BY DEF Fetched, FetchCoin, Caches
<1>2. ASSUME NEW o \in OutPoints PROVE d[o] \in Entry
  <2>1. c[o] \in Entry /\ base[o] \in MaybeCoin
    BY DEF Caches, UtxoMaps
  <2> DEFINE e == [in |-> TRUE, coin |-> base[o], dirty |-> FALSE, fresh |-> FALSE]
  <2>2. e \in Entry
    BY <2>1 DEF Entry
  <2> HIDE DEF d
  <2> QED BY <1>1, <2>1, <2>2
<1>3. d \in Caches
  <2>1. d = [o \in OutPoints |-> d[o]]
    BY DEF Fetched
  <2> HIDE DEF d
  <2> QED BY <1>2, <2>1 DEF Caches
<1> HIDE DEF d
<1>4. Sound(d, base)
  <2> SUFFICES ASSUME NEW o \in OutPoints
               PROVE  /\ d[o].in /\ ~d[o].dirty => d[o].coin = base[o]
                      /\ d[o].fresh => base[o] = Spent
                      /\ ~d[o].in => ~d[o].dirty /\ ~d[o].fresh
    BY ZenonT(30) DEF Sound
  <2>1. CASE o \notin S \/ c[o].in \/ base[o] = Spent
    BY <1>1, <2>1, ZenonT(30) DEF Sound
  <2>2. CASE ~(o \notin S \/ c[o].in \/ base[o] = Spent)
    <3>1. d[o] = [in |-> TRUE, coin |-> base[o], dirty |-> FALSE, fresh |-> FALSE]
      BY <1>1, <2>2
    <3> QED BY <3>1
  <2> QED BY <2>1, <2>2
<1>5. ASSUME NEW o \in OutPoints PROVE Look(d, base)[o] = Look(c, base)[o]
  <2>1. Look(d, base)[o] = IF d[o].in THEN d[o].coin ELSE base[o]
    BY <1>3, LookFacts
  <2>2. Look(c, base)[o] = IF c[o].in THEN c[o].coin ELSE base[o]
    BY LookFacts
  <2>3. CASE o \notin S \/ c[o].in \/ base[o] = Spent
    BY <1>1, <2>1, <2>2, <2>3, ZenonT(30)
  <2>4. CASE ~(o \notin S \/ c[o].in \/ base[o] = Spent)
    <3>1. d[o] = [in |-> TRUE, coin |-> base[o], dirty |-> FALSE, fresh |-> FALSE]
      BY <1>1, <2>4
    <3> QED BY <2>1, <2>2, <2>4, <3>1
  <2> QED BY <2>3, <2>4
<1>6. Look(d, base) = Look(c, base)
  BY <1>5 DEF Look
<1> QED BY <1>3, <1>4, <1>6 DEF d

\* Flush of a view into the cache it stands on.
LEMMA BatchWriteFacts ==
  ASSUME NEW p \in Caches, NEW c \in Caches, NEW base \in UtxoMaps,
         Sound(p, base), Sound(c, Look(p, base))
  PROVE  /\ BatchWrite(p, c) \in Caches
         /\ Sound(BatchWrite(p, c), base)
         /\ Look(BatchWrite(p, c), base) = Look(c, Look(p, base))
<1> DEFINE d == BatchWrite(p, c)
<1>1. ASSUME NEW o \in OutPoints
      PROVE  /\ d[o] \in Entry
             /\ d[o].in /\ ~d[o].dirty => d[o].coin = base[o]
             /\ d[o].fresh => base[o] = Spent
             /\ ~d[o].in => ~d[o].dirty /\ ~d[o].fresh
             /\ (IF d[o].in THEN d[o].coin ELSE base[o]) =
                   IF c[o].in THEN c[o].coin ELSE IF p[o].in THEN p[o].coin ELSE base[o]
  <2>1. p[o] \in Entry /\ c[o] \in Entry /\ d[o] = MergeEntry(p[o], c[o])
    BY ZenonT(30) DEF Caches, BatchWrite
  <2>2. Look(p, base)[o] = IF p[o].in THEN p[o].coin ELSE base[o]
    BY LookFacts, ZenonT(30)
  <2>3. /\ p[o].in /\ ~p[o].dirty => p[o].coin = base[o]
        /\ p[o].fresh => base[o] = Spent
        /\ ~p[o].in => ~p[o].dirty /\ ~p[o].fresh
        /\ c[o].in /\ ~c[o].dirty => c[o].coin = Look(p, base)[o]
        /\ c[o].fresh => Look(p, base)[o] = Spent
        /\ ~c[o].in => ~c[o].dirty /\ ~c[o].fresh
    BY ZenonT(30) DEF Sound
  <2> HIDE DEF d
  <2>4. CASE ~c[o].in \/ ~c[o].dirty
    <3>1. d[o] = p[o]
      BY <2>1, <2>4, ZenonT(30) DEF MergeEntry
    <3> QED BY <2>1, <2>2, <2>3, <2>4, <3>1, ZenonT(30)
  <2>5. CASE c[o].in /\ c[o].dirty /\ ~p[o].in /\ c[o].fresh /\ c[o].coin = Spent
    <3>1. d[o] = p[o]
      BY <2>1, <2>5, ZenonT(30) DEF MergeEntry
    <3> QED BY <2>1, <2>2, <2>3, <2>5, <3>1
  <2>6. CASE c[o].in /\ c[o].dirty /\ ~p[o].in /\ ~(c[o].fresh /\ c[o].coin = Spent)
    <3>1. d[o] = [in |-> TRUE, coin |-> c[o].coin, dirty |-> TRUE, fresh |-> c[o].fresh]
      BY <2>1, <2>6, ZenonT(30) DEF MergeEntry
    <3> QED BY <2>1, <2>2, <2>3, <2>6, <3>1, ZenonT(30) DEF Entry
  <2>7. CASE c[o].in /\ c[o].dirty /\ p[o].in /\ p[o].fresh /\ c[o].coin = Spent
    <3>1. d[o] = NoEntry
      BY <2>1, <2>7, ZenonT(30) DEF MergeEntry
    <3> QED BY <2>1, <2>2, <2>3, <2>7, <3>1 DEF Entry, NoEntry, MaybeCoin
  <2>8. CASE c[o].in /\ c[o].dirty /\ p[o].in /\ ~(p[o].fresh /\ c[o].coin = Spent)
    <3>1. d[o] = [in |-> TRUE, coin |-> c[o].coin, dirty |-> TRUE, fresh |-> p[o].fresh]
      BY <2>1, <2>8, ZenonT(30) DEF MergeEntry, Entry
    <3> QED BY <2>1, <2>2, <2>3, <2>8, <3>1 DEF Entry
  <2> QED BY <2>4, <2>5, <2>6, <2>7, <2>8, ZenonT(30)
<1>2. d \in Caches
  <2>1. d = [o \in OutPoints |-> d[o]]
    BY DEF BatchWrite
  <2> HIDE DEF d
  <2> QED BY <1>1, <2>1 DEF Caches
<1> HIDE DEF d
<1>3. Sound(d, base)
  BY <1>1, ZenonT(30) DEF Sound
<1>4. ASSUME NEW o \in OutPoints PROVE Look(d, base)[o] = Look(c, Look(p, base))[o]
  <2>1. Look(p, base) \in UtxoMaps /\ Look(p, base)[o] = IF p[o].in THEN p[o].coin ELSE base[o]
    BY LookFacts
  <2>2. Look(d, base)[o] = IF d[o].in THEN d[o].coin ELSE base[o]
    BY <1>2, LookFacts
  <2>3. Look(c, Look(p, base))[o] = IF c[o].in THEN c[o].coin ELSE Look(p, base)[o]
    BY <2>1, LookFacts, ZenonT(30)
  <2> QED BY <1>1, <2>1, <2>2, <2>3, ZenonT(30)
<1>5. Look(d, base) = Look(c, Look(p, base))
  BY <1>4 DEF Look
<1> QED BY <1>2, <1>3, <1>5, ZenonT(30) DEF d

-----------------------------------------------------------------------------
(***************************************************************************)
(* The blocks: what the recursions over transactions and blocks compute.   *)
(***************************************************************************)

\* Transactions spend and make outpoints.
LEMMA TxFacts ==
  ASSUME NEW b \in Blocks
  PROVE  /\ Len(Txs[b]) \in Nat /\ DOMAIN Txs[b] = 1..Len(Txs[b])
         /\ \A i \in 1..Len(Txs[b]) : Txs[b][i].ins \in SUBSET OutPoints /\ Txs[b][i].outs \in SUBSET OutPoints
<1> DEFINE R == [ins : SUBSET OutPoints, outs : SUBSET OutPoints]
<1>1. Txs[b] \in Seq(R)
  BY TxsAssumption, ZenonT(30)
<1>2. /\ Len(Txs[b]) \in Nat /\ DOMAIN Txs[b] = 1..Len(Txs[b])
      /\ \A i \in 1..Len(Txs[b]) : Txs[b][i] \in R
  <2> HIDE DEF R
  <2> QED BY <1>1
<1>3. \A r \in R : r.ins \in SUBSET OutPoints /\ r.outs \in SUBSET OutPoints
  OBVIOUS
<1> QED BY <1>2, <1>3

\* The UTXO sets along a block.
LEMMA AppliedFacts ==
  ASSUME NEW b \in Blocks, NEW u \in UtxoMaps
  PROVE  /\ Applied(u, b) \in [0..Len(Txs[b]) -> UtxoMaps]
         /\ Applied(u, b)[0] = u
         /\ \A i \in 1..Len(Txs[b]) : \A o \in OutPoints :
               Applied(u, b)[i][o] = IF o \in Txs[b][i].ins THEN Spent
                                     ELSE IF o \in Txs[b][i].outs THEN b ELSE Applied(u, b)[i - 1][o]
<1> DEFINE n == Len(Txs[b])
           tx(i, v) == [o \in OutPoints |-> IF o \in Txs[b][i].ins THEN Spent
                                            ELSE IF o \in Txs[b][i].outs THEN b ELSE v[o]]
           step == [i \in 1..n |-> [v \in UtxoMaps |-> tx(i, v)]]
<1>1. n \in Nat
  BY TxFacts
<1>2. ASSUME NEW i \in 1..n, NEW v \in UtxoMaps PROVE tx(i, v) \in UtxoMaps
  BY CoinFacts DEF UtxoMaps
<1>3. step \in [1..n -> [UtxoMaps -> UtxoMaps]]
  BY <1>2, ZenonT(30)
<1>4. PICK g : Iterates(g, UtxoMaps, n, u, step)
  <2> HIDE DEF step, n
  <2> QED BY <1>1, <1>3, Iteration
<1>5. ASSUME NEW i \in 0..n, i # 0 PROVE g[i] = tx(i, g[i - 1])
  <2>1. i \in 1..n /\ i - 1 \in 0..n
    BY <1>1, <1>5
  <2>2. g[i] = step[i][g[i - 1]] /\ g[i - 1] \in UtxoMaps
    BY <1>4, <2>1, ZenonT(30) DEF Iterates
  <2> HIDE DEF tx, n
  <2> QED BY <2>1, <2>2
<1>6. g = [i \in 0..n |-> IF i = 0 THEN u ELSE tx(i, g[i - 1])]
  <2>1. g[0] = u /\ g = [i \in 0..n |-> g[i]]
    BY <1>4, ZenonT(30) DEF Iterates
  <2> HIDE DEF step, tx, n
  <2> QED BY <1>5, <2>1, ZenonT(30)
<1>7. PICK k : k = Applied(u, b) /\ k = [i \in 0..n |-> IF i = 0 THEN u ELSE tx(i, k[i - 1])]
  <2>1. Applied(u, b) = CHOOSE k : k = [i \in 0..n |-> IF i = 0 THEN u ELSE tx(i, k[i - 1])]
    BY ZenonT(30) DEF Applied
  <2> HIDE DEF tx, n
  <2> QED BY <1>6, <2>1, ZenonT(30)
<1>8. k[0] = u /\ \A i \in 1..n : k[i] = tx(i, k[i - 1])
  <2>1. 0 \in 0..n /\ \A i \in 1..n : i \in 0..n /\ i # 0
    BY <1>1
  <2> HIDE DEF tx, n
  <2> QED BY <1>7, <2>1, ZenonT(30)
<1>9. \A i \in 0..n : k[i] \in UtxoMaps
  <2> HIDE DEF tx, n
  <2> QED BY <1>1, <1>2, <1>8, IteratesIn
<1>10. k \in [0..n -> UtxoMaps]
  <2>1. k = [i \in 0..n |-> k[i]]
    <3> HIDE DEF tx, n
    <3> QED BY <1>7
  <2> QED BY <1>9, <2>1
<1>11. \A i \in 1..n : \A o \in OutPoints :
         k[i][o] = IF o \in Txs[b][i].ins THEN Spent ELSE IF o \in Txs[b][i].outs THEN b ELSE k[i - 1][o]
  BY <1>8, ZenonT(30)
<1> QED BY <1>7, <1>8, <1>10, <1>11, ZenonT(30)

\* The UTXO set of a block is what its transactions make of its parent's.
LEMMA UtxoFacts ==
  /\ \A b \in Blocks \cup {None} : UtxoAt[b] \in UtxoMaps
  /\ UtxoAt[None] = [o \in OutPoints |-> Spent] /\ UtxoAt[Genesis] = UtxoAt[None]
  /\ \A b \in Blocks \ {Genesis} : UtxoAt[b] = Applied(UtxoAt[Parent[b]], b)[Len(Txs[b])]
<1> DEFINE none == [o \in OutPoints |-> Spent]
           top(b, u) == IF b \in {None, Genesis} THEN none ELSE Applied(u, b)[Len(Txs[b])]
           step == [b \in Blocks |-> [u \in UtxoMaps |-> top(b, u)]]
<1>1. none \in UtxoMaps
  BY DEF UtxoMaps, MaybeCoin
<1>2. ASSUME NEW b \in Blocks, NEW u \in UtxoMaps PROVE top(b, u) \in UtxoMaps
  <2>1. Len(Txs[b]) \in 0..Len(Txs[b])
    BY TxFacts
  <2>2. Applied(u, b)[Len(Txs[b])] \in UtxoMaps
    BY <2>1, AppliedFacts
  <2> QED BY <1>1, <2>2
<1> HIDE DEF none, top
<1>3. step \in TreeSteps(UtxoMaps)
  BY <1>2 DEF TreeSteps
<1>4. PICK f : TreeSolution(f, UtxoMaps, none, step)
  <2> HIDE DEF step
  <2> QED BY <1>1, <1>3, TreeRecursion
<1>5. top(None, f[Parent[None]]) = none /\ top(Genesis, UtxoAt[Parent[Genesis]]) = none
      /\ top(None, UtxoAt[Parent[None]]) = none
  BY DEF top
<1>6. f = [b \in Blocks \cup {None} |-> top(b, f[Parent[b]])]
  <2>1. ASSUME NEW b \in Blocks PROVE f[b] = top(b, f[Parent[b]])
    <3>1. f[Parent[b]] \in UtxoMaps
      BY <1>4, TreeAssumption DEF TreeSolution
    <3> QED BY <1>4, <3>1, ZenonT(30) DEF TreeSolution
  <2>2. ASSUME NEW b \in Blocks \cup {None} PROVE f[b] = top(b, f[Parent[b]])
    BY <1>4, <1>5, <2>1 DEF TreeSolution
  <2>3. f = [b \in Blocks \cup {None} |-> f[b]]
    BY <1>4 DEF TreeSolution
  <2> QED BY <2>2, <2>3
<1>7. UtxoAt = [b \in Blocks \cup {None} |-> top(b, UtxoAt[Parent[b]])]
  <2>1. UtxoAt = CHOOSE u : u = [b \in Blocks \cup {None} |-> top(b, u[Parent[b]])]
    BY ZenonT(30) DEF UtxoAt, top, none
  <2> QED BY <1>6, <2>1, ZenonT(30)
<1>8. \A b \in Blocks \cup {None} : UtxoAt[b] = top(b, UtxoAt[Parent[b]])
  BY <1>7, ZenonT(30)
<1>9. UtxoAt[None] = none /\ UtxoAt[Genesis] = none
  BY <1>5, <1>8, TreeAssumption, ZenonT(30)
<1> DEFINE T == {b \in Blocks : UtxoAt[b] \in UtxoMaps}
<1>10. ASSUME NEW b \in Blocks, b = Genesis \/ Parent[b] \in T PROVE b \in T
  BY <1>1, <1>2, <1>8, <1>9, <1>10, ZenonT(30)
<1>11. Blocks \subseteq T
  <2> HIDE DEF T
  <2> QED BY <1>10, TreeInduction
<1>12. \A b \in Blocks \cup {None} : UtxoAt[b] \in UtxoMaps
  BY <1>1, <1>9, <1>11, ZenonT(30)
<1>13. ASSUME NEW b \in Blocks \ {Genesis} PROVE UtxoAt[b] = Applied(UtxoAt[Parent[b]], b)[Len(Txs[b])]
  <2>1. top(b, UtxoAt[Parent[b]]) = Applied(UtxoAt[Parent[b]], b)[Len(Txs[b])]
    BY TreeAssumption DEF top
  <2> QED BY <1>8, <2>1
<1> QED BY <1>9, <1>12, <1>13 DEF none

\* Transaction i of b takes the UTXO set u to v: it spends what is there and
\* makes what is not.
Moves(b, i, u, v) ==
    \A o \in OutPoints :
       /\ v[o] = IF o \in Txs[b][i].ins THEN Spent ELSE IF o \in Txs[b][i].outs THEN b ELSE u[o]
       /\ o \in Txs[b][i].ins => u[o] \in Blocks
       /\ o \in Txs[b][i].outs => u[o] = Spent /\ o \notin Txs[b][i].ins

\* The UTXO sets along a valid block, from its parent's to its own.
LEMMA AlongBlock ==
  ASSUME NEW b \in Blocks \ {Genesis}
  PROVE  /\ \A i \in 0..Len(Txs[b]) : Applied(UtxoAt[Parent[b]], b)[i] \in UtxoMaps
         /\ Applied(UtxoAt[Parent[b]], b)[0] = UtxoAt[Parent[b]]
         /\ Applied(UtxoAt[Parent[b]], b)[Len(Txs[b])] = UtxoAt[b]
         /\ \A i \in 1..Len(Txs[b]) :
               Moves(b, i, Applied(UtxoAt[Parent[b]], b)[i - 1], Applied(UtxoAt[Parent[b]], b)[i])
<1> DEFINE along == Applied(UtxoAt[Parent[b]], b)
           n == Len(Txs[b])
<1>1. UtxoAt[Parent[b]] \in UtxoMaps
  BY UtxoFacts, TreeAssumption, ZenonT(30)
<1>2. /\ along \in [0..n -> UtxoMaps] /\ along[0] = UtxoAt[Parent[b]]
      /\ \A i \in 1..n : \A o \in OutPoints :
            along[i][o] = IF o \in Txs[b][i].ins THEN Spent
                          ELSE IF o \in Txs[b][i].outs THEN b ELSE along[i - 1][o]
  BY <1>1, AppliedFacts
<1>3. along[n] = UtxoAt[b]
  BY UtxoFacts
<1>4. ASSUME NEW i \in 1..n
      PROVE  /\ \A o \in Txs[b][i].ins : along[i - 1][o] # Spent
             /\ \A o \in Txs[b][i].outs : along[i - 1][o] = Spent
  <2>1. i \in DOMAIN Txs[b]
    BY TxFacts, ZenonT(30)
  <2> QED BY <2>1, ValidAssumption, ZenonT(30)
<1>5. ASSUME NEW i \in 1..n, NEW o \in OutPoints PROVE along[i - 1][o] \in Blocks \cup {Spent}
  <2>1. i - 1 \in 0..n
    BY TxFacts
  <2>2. along[i - 1] \in UtxoMaps
    BY <1>2, <2>1, ZenonT(30)
  <2> QED BY <2>2, CoinFacts DEF UtxoMaps
<1> HIDE DEF along, n
<1>6. \A i \in 0..n : along[i] \in UtxoMaps
  BY <1>2
<1>7. ASSUME NEW i \in 1..n, NEW o \in OutPoints
      PROVE  /\ o \in Txs[b][i].ins => along[i - 1][o] \in Blocks
             /\ o \in Txs[b][i].outs => along[i - 1][o] = Spent /\ o \notin Txs[b][i].ins
  BY <1>4, <1>5, ZenonT(30)
<1>8. ASSUME NEW i \in 1..n PROVE Moves(b, i, along[i - 1], along[i])
  <2> HIDE DEF along, n
  <2> QED BY <1>2, <1>7, ZenonT(30) DEF Moves
<1> QED BY <1>2, <1>3, <1>6, <1>8, ZenonT(30) DEF along, n

\* The undo data of a valid block are the coins that its transactions spend.
LEMMA UndoFacts ==
  ASSUME NEW b \in Blocks \ {Genesis}, NEW i \in 1..Len(Txs[b])
  PROVE  \A o \in Txs[b][i].ins : /\ UndoOf(b)[i][o] = Applied(UtxoAt[Parent[b]], b)[i - 1][o]
                                  /\ UndoOf(b)[i][o] \in Blocks
<1>1. i \in DOMAIN Txs[b] /\ Txs[b][i].ins \in SUBSET OutPoints
  BY TxFacts, ZenonT(30)
<1>2. \A o \in Txs[b][i].ins : UndoOf(b)[i][o] = Applied(UtxoAt[Parent[b]], b)[i - 1][o]
  BY <1>1 DEF UndoOf, Before
<1>3. \A o \in Txs[b][i].ins : Applied(UtxoAt[Parent[b]], b)[i - 1][o] \in Blocks
  <2>1. Moves(b, i, Applied(UtxoAt[Parent[b]], b)[i - 1], Applied(UtxoAt[Parent[b]], b)[i])
    BY AlongBlock, ZenonT(30)
  <2> QED BY <1>1, <2>1, ZenonT(30) DEF Moves
<1> QED BY <1>2, <1>3

\* The views along ConnectBlock.
LEMMA ConnectingViews ==
  ASSUME NEW c \in Caches, NEW base \in UtxoMaps, NEW b \in Blocks
  PROVE  /\ \A i \in 0..Len(Txs[b]) : Connecting(c, base, b)[i] \in Caches
         /\ Connecting(c, base, b)[0] = c
         /\ \A i \in 1..Len(Txs[b]) : Connecting(c, base, b)[i] = UpdateCoins(Connecting(c, base, b)[i - 1], base, b, i)
<1> DEFINE n == Len(Txs[b])
           tx(i, v) == UpdateCoins(v, base, b, i)
           step == [i \in 1..n |-> [v \in Caches |-> tx(i, v)]]
<1>1. n \in Nat
  BY TxFacts
<1>2. ASSUME NEW i \in 1..n, NEW v \in Caches PROVE tx(i, v) \in Caches
  <2> DEFINE spent == SpendAll(v, base, Txs[b][i].ins)
             may == IF i = 1 THEN OutPoints ELSE {}
  <2>1. Txs[b][i].ins \in SUBSET OutPoints /\ Txs[b][i].outs \in SUBSET OutPoints
    BY TxFacts
  <2>2. spent \in Caches
    BY <2>1, SpendAllFacts
  <2>3. \A o \in Txs[b][i].outs : From(b)[o] \in Blocks
    BY <2>1 DEF From
  <2>4. tx(i, v) = AddAll(spent, Txs[b][i].outs, From(b), may)
    BY ZenonT(30) DEF UpdateCoins
  <2> HIDE DEF spent, may, tx
  <2> QED BY <2>1, <2>2, <2>3, <2>4, AddAllType, ZenonT(30)
<1>3. step \in [1..n -> [Caches -> Caches]]
  <2> HIDE DEF n, tx
  <2> QED BY <1>2
<1>4. PICK g : Iterates(g, Caches, n, c, step)
  <2> HIDE DEF step, n
  <2> QED BY <1>1, <1>3, Iteration
<1>5. ASSUME NEW i \in 0..n, i # 0 PROVE g[i] = tx(i, g[i - 1])
  <2>1. i \in 1..n /\ i - 1 \in 0..n
    BY <1>1, <1>5
  <2>2. g[i] = step[i][g[i - 1]] /\ g[i - 1] \in Caches
    BY <1>4, <2>1, ZenonT(30) DEF Iterates
  <2> HIDE DEF n, tx
  <2> QED BY <2>1, <2>2
<1>6. g = [i \in 0..n |-> IF i = 0 THEN c ELSE tx(i, g[i - 1])]
  <2>1. g[0] = c /\ g = [i \in 0..n |-> g[i]]
    BY <1>4 DEF Iterates
  <2> HIDE DEF step, n, tx
  <2> QED BY <1>5, <2>1, ZenonT(30)
<1>7. PICK k : k = Connecting(c, base, b) /\ k = [i \in 0..n |-> IF i = 0 THEN c ELSE tx(i, k[i - 1])]
  <2>1. Connecting(c, base, b) = CHOOSE k : k = [i \in 0..n |-> IF i = 0 THEN c ELSE tx(i, k[i - 1])]
    BY ZenonT(30) DEF Connecting
  <2> HIDE DEF n, tx
  <2> QED BY <1>6, <2>1, ZenonT(30)
<1>8. k[0] = c /\ \A i \in 1..n : k[i] = tx(i, k[i - 1])
  <2>1. 0 \in 0..n /\ \A i \in 1..n : i \in 0..n /\ i # 0
    BY <1>1
  <2> HIDE DEF n, tx
  <2> QED BY <1>7, <2>1, ZenonT(30)
<1>9. \A i \in 0..n : k[i] \in Caches
  <2> HIDE DEF n, tx
  <2> QED BY <1>1, <1>2, <1>8, IteratesIn
<1> QED BY <1>7, <1>8, <1>9, ZenonT(30)

\* The views along DisconnectBlock, from the last transaction to the first.
LEMMA DisconnectingViews ==
  ASSUME NEW c \in Caches, NEW base \in UtxoMaps, NEW b \in Blocks \ {Genesis}, undo[b] = UndoOf(b)
  PROVE  /\ \A i \in 0..Len(Txs[b]) : Disconnecting(c, base, b)[i] \in Caches
         /\ Disconnecting(c, base, b)[0] = c
         /\ \A i \in 1..Len(Txs[b]) : Disconnecting(c, base, b)[i] = DisconnectTx(Disconnecting(c, base, b)[i - 1], base, b, Len(Txs[b]) + 1 - i)
<1> DEFINE n == Len(Txs[b])
           tx(i, v) == DisconnectTx(v, base, b, Len(Txs[b]) + 1 - i)
           step == [i \in 1..n |-> [v \in Caches |-> tx(i, v)]]
<1>1. n \in Nat
  BY TxFacts, ZenonT(30)
<1>2. ASSUME NEW i \in 1..n, NEW v \in Caches PROVE tx(i, v) \in Caches
  <2> DEFINE j == n + 1 - i
             spent == SpendAll(v, base, Txs[b][j].outs)
             may == Present(spent, base)
  <2>1. j \in 1..n
    BY <1>1
  <2>2. Txs[b][j].ins \in SUBSET OutPoints /\ Txs[b][j].outs \in SUBSET OutPoints
    <3> HIDE DEF j
    <3> QED BY <2>1, TxFacts, ZenonT(30)
  <2>3. spent \in Caches
    <3> HIDE DEF j
    <3> QED BY <2>2, SpendAllFacts
  <2>4. \A o \in Txs[b][j].ins : undo[b][j][o] \in Blocks
    <3> HIDE DEF j
    <3> QED BY <2>1, UndoFacts
  <2>5. tx(i, v) = AddAll(spent, Txs[b][j].ins, undo[b][j], may)
    BY ZenonT(30) DEF DisconnectTx
  <2> HIDE DEF spent, may, tx, j
  <2> QED BY <2>2, <2>3, <2>4, <2>5, AddAllType, ZenonT(30)
<1>3. step \in [1..n -> [Caches -> Caches]]
  <2> HIDE DEF n, tx
  <2> QED BY <1>2
<1>4. PICK g : Iterates(g, Caches, n, c, step)
  <2> HIDE DEF step, n
  <2> QED BY <1>1, <1>3, Iteration, ZenonT(30)
<1>5. ASSUME NEW i \in 0..n, i # 0 PROVE g[i] = tx(i, g[i - 1])
  <2>1. i \in 1..n /\ i - 1 \in 0..n
    BY <1>1, <1>5
  <2>2. g[i] = step[i][g[i - 1]] /\ g[i - 1] \in Caches
    BY <1>4, <2>1, ZenonT(30) DEF Iterates
  <2> HIDE DEF n, tx
  <2> QED BY <2>1, <2>2
<1>6. g = [i \in 0..n |-> IF i = 0 THEN c ELSE tx(i, g[i - 1])]
  <2>1. g[0] = c /\ g = [i \in 0..n |-> g[i]]
    BY <1>4 DEF Iterates
  <2> HIDE DEF step, n, tx
  <2> QED BY <1>5, <2>1, ZenonT(30)
<1>7. PICK k : k = Disconnecting(c, base, b) /\ k = [i \in 0..n |-> IF i = 0 THEN c ELSE tx(i, k[i - 1])]
  <2>1. Disconnecting(c, base, b) = CHOOSE k : k = [i \in 0..n |-> IF i = 0 THEN c ELSE tx(i, k[i - 1])]
    BY ZenonT(30) DEF Disconnecting
  <2> HIDE DEF n, tx
  <2> QED BY <1>6, <2>1, ZenonT(30)
<1>8. k[0] = c /\ \A i \in 1..n : k[i] = tx(i, k[i - 1])
  <2>1. 0 \in 0..n /\ \A i \in 1..n : i \in 0..n /\ i # 0
    BY <1>1
  <2> HIDE DEF n, tx
  <2> QED BY <1>7, <2>1, ZenonT(30)
<1>9. \A i \in 0..n : k[i] \in Caches
  <2> HIDE DEF n, tx
  <2> QED BY <1>1, <1>2, <1>8, IteratesIn, ZenonT(30)
<1> QED BY <1>7, <1>8, <1>9, ZenonT(30)

\* The views along RollforwardBlock.
LEMMA RollforwardViews ==
  ASSUME NEW c \in Caches, NEW base \in UtxoMaps, NEW b \in Blocks
  PROVE  /\ \A i \in 0..Len(Txs[b]) : Rollforward(c, base, b)[i] \in Caches
         /\ Rollforward(c, base, b)[0] = c
         /\ \A i \in 1..Len(Txs[b]) : Rollforward(c, base, b)[i] = RollforwardTx(Rollforward(c, base, b)[i - 1], base, b, i)
<1> DEFINE n == Len(Txs[b])
           tx(i, v) == RollforwardTx(v, base, b, i)
           step == [i \in 1..n |-> [v \in Caches |-> tx(i, v)]]
<1>1. n \in Nat
  BY TxFacts
<1>2. ASSUME NEW i \in 1..n, NEW v \in Caches PROVE tx(i, v) \in Caches
  <2> DEFINE spent == SpendAll(v, base, Txs[b][i].ins)
             may == Present(spent, base)
  <2>1. Txs[b][i].ins \in SUBSET OutPoints /\ Txs[b][i].outs \in SUBSET OutPoints
    BY TxFacts
  <2>2. spent \in Caches
    BY <2>1, SpendAllFacts
  <2>3. \A o \in Txs[b][i].outs : From(b)[o] \in Blocks
    BY <2>1 DEF From
  <2>4. tx(i, v) = AddAll(spent, Txs[b][i].outs, From(b), may)
    BY ZenonT(30) DEF RollforwardTx
  <2> HIDE DEF spent, may, tx
  <2> QED BY <2>1, <2>2, <2>3, <2>4, AddAllType, ZenonT(30)
<1>3. step \in [1..n -> [Caches -> Caches]]
  <2> HIDE DEF n, tx
  <2> QED BY <1>2
<1>4. PICK g : Iterates(g, Caches, n, c, step)
  <2> HIDE DEF step, n
  <2> QED BY <1>1, <1>3, Iteration
<1>5. ASSUME NEW i \in 0..n, i # 0 PROVE g[i] = tx(i, g[i - 1])
  <2>1. i \in 1..n /\ i - 1 \in 0..n
    BY <1>1, <1>5
  <2>2. g[i] = step[i][g[i - 1]] /\ g[i - 1] \in Caches
    BY <1>4, <2>1, ZenonT(30) DEF Iterates
  <2> HIDE DEF n, tx
  <2> QED BY <2>1, <2>2
<1>6. g = [i \in 0..n |-> IF i = 0 THEN c ELSE tx(i, g[i - 1])]
  <2>1. g[0] = c /\ g = [i \in 0..n |-> g[i]]
    BY <1>4 DEF Iterates
  <2> HIDE DEF step, n, tx
  <2> QED BY <1>5, <2>1, ZenonT(30)
<1>7. PICK k : k = Rollforward(c, base, b) /\ k = [i \in 0..n |-> IF i = 0 THEN c ELSE tx(i, k[i - 1])]
  <2>1. Rollforward(c, base, b) = CHOOSE k : k = [i \in 0..n |-> IF i = 0 THEN c ELSE tx(i, k[i - 1])]
    BY ZenonT(30) DEF Rollforward
  <2> HIDE DEF n, tx
  <2> QED BY <1>6, <2>1, ZenonT(30)
<1>8. k[0] = c /\ \A i \in 1..n : k[i] = tx(i, k[i - 1])
  <2>1. 0 \in 0..n /\ \A i \in 1..n : i \in 0..n /\ i # 0
    BY <1>1
  <2> HIDE DEF n, tx
  <2> QED BY <1>7, <2>1, ZenonT(30)
<1>9. \A i \in 0..n : k[i] \in Caches
  <2> HIDE DEF n, tx
  <2> QED BY <1>1, <1>2, <1>8, IteratesIn
<1> QED BY <1>7, <1>8, <1>9, ZenonT(30)

-----------------------------------------------------------------------------
(***************************************************************************)
(* One transaction, and one block.                                         *)
(***************************************************************************)

\* UpdateCoins moves the view from the set before transaction i to the set after.
LEMMA UpdateStep ==
  ASSUME NEW c \in Caches, NEW base \in UtxoMaps, Sound(c, base),
         NEW b \in Blocks \ {Genesis}, NEW i \in 1..Len(Txs[b]),
         Look(c, base) = Applied(UtxoAt[Parent[b]], b)[i - 1]
  PROVE  /\ Sound(UpdateCoins(c, base, b, i), base)
         /\ Look(UpdateCoins(c, base, b, i), base) = Applied(UtxoAt[Parent[b]], b)[i]
<1> DEFINE along == Applied(UtxoAt[Parent[b]], b)
           ins == Txs[b][i].ins
           outs == Txs[b][i].outs
           spent == SpendAll(c, base, ins)
           may == IF i = 1 THEN OutPoints ELSE {}
           r == UpdateCoins(c, base, b, i)
<1>1. ins \in SUBSET OutPoints /\ outs \in SUBSET OutPoints
  BY TxFacts, ZenonT(30)
<1>2. /\ spent \in Caches /\ Sound(spent, base)
      /\ \A o \in OutPoints : Look(spent, base)[o] = IF o \in ins THEN Spent ELSE Look(c, base)[o]
  BY <1>1, SpendAllFacts
<1>3. \A o \in OutPoints :
         /\ along[i][o] = IF o \in ins THEN Spent ELSE IF o \in outs THEN b ELSE along[i - 1][o]
         /\ o \in outs => along[i - 1][o] = Spent /\ o \notin ins
  <2>1. Moves(b, i, along[i - 1], along[i])
    BY AlongBlock, ZenonT(30)
  <2> HIDE DEF along
  <2> QED BY <2>1, ZenonT(30) DEF Moves
<1>4. along[i] \in UtxoMaps
  <2>1. i \in 0..Len(Txs[b])
    BY TxFacts
  <2> QED BY <2>1, AlongBlock, ZenonT(30)
<1>5. \A o \in outs : From(b)[o] = b
  BY <1>1 DEF From
<1>6. r = AddAll(spent, outs, From(b), may)
  BY ZenonT(30) DEF UpdateCoins
<1>7. Look(c, base) = along[i - 1]
  OBVIOUS
<1> HIDE DEF along, ins, outs, spent, may, r
<1>8. \A o \in outs : From(b)[o] \in Blocks
  BY <1>5
<1>9. \A o \in outs \ may : Look(spent, base)[o] = Spent
  BY <1>1, <1>2, <1>3, <1>7, ZenonT(30)
<1>10. r \in Caches
  BY <1>1, <1>2, <1>6, <1>8, AddAllType, ZenonT(30)
<1>11. /\ Sound(r, base)
       /\ \A o \in OutPoints : Look(r, base)[o] = IF o \in outs THEN From(b)[o] ELSE Look(spent, base)[o]
  <2>1. Sound(AddAll(spent, outs, From(b), may), base)
    BY <1>1, <1>2, <1>8, <1>9, AddAllFacts, ZenonT(30)
  <2>2. Replaced(Look(AddAll(spent, outs, From(b), may), base), Look(spent, base), outs, From(b))
    BY <1>1, <1>2, <1>8, <1>9, AddAllFacts, ZenonT(30)
  <2> QED BY <1>6, <2>1, <2>2 DEF Replaced
<1>12. \A o \in OutPoints : Look(r, base)[o] = along[i][o]
  BY <1>2, <1>3, <1>5, <1>7, <1>11, ZenonT(30)
<1>13. Look(r, base) \in UtxoMaps
  BY <1>10, LookFacts, ZenonT(30)
<1>14. Look(r, base) = along[i]
  BY <1>4, <1>12, <1>13 DEF UtxoMaps
<1> QED BY <1>11, <1>14, ZenonT(30) DEF r, along

\* DisconnectBlock on one transaction.
LEMMA DisconnectTxFacts ==
  ASSUME NEW c \in Caches, NEW base \in UtxoMaps, Sound(c, base),
         NEW b \in Blocks \ {Genesis}, undo[b] = UndoOf(b), NEW i \in 1..Len(Txs[b])
  PROVE  /\ Sound(DisconnectTx(c, base, b, i), base)
         /\ \A o \in OutPoints : Look(DisconnectTx(c, base, b, i), base)[o] =
               IF o \in Txs[b][i].ins THEN Before(b, i)[o]
               ELSE IF o \in Txs[b][i].outs THEN Spent ELSE Look(c, base)[o]
<1> DEFINE first == Txs[b][i].outs
           next == Txs[b][i].ins
           spent == SpendAll(c, base, first)
           may == Present(spent, base)
           coin == undo[b][i]
           r == DisconnectTx(c, base, b, i)
<1>1. first \in SUBSET OutPoints /\ next \in SUBSET OutPoints
  BY TxFacts, ZenonT(30)
<1>2. /\ spent \in Caches /\ Sound(spent, base)
      /\ \A o \in OutPoints : Look(spent, base)[o] = IF o \in first THEN Spent ELSE Look(c, base)[o]
  BY <1>1, SpendAllFacts
<1>3. \A o \in next : coin[o] = Before(b, i)[o] /\ coin[o] \in Blocks
  BY UndoFacts DEF Before
<1>4. r = AddAll(spent, next, coin, may)
  BY ZenonT(30) DEF DisconnectTx
<1>5. \A o \in next \ may : Look(spent, base)[o] = Spent
  BY <1>1 DEF Present, HaveCoin
<1> HIDE DEF first, next, spent, may, coin, r
<1>6. \A o \in next : coin[o] \in Blocks
  BY <1>3, ZenonT(30)
<1>7. /\ Sound(r, base)
      /\ \A o \in OutPoints : Look(r, base)[o] = IF o \in next THEN coin[o] ELSE Look(spent, base)[o]
  <2>1. Sound(AddAll(spent, next, coin, may), base)
    BY <1>1, <1>2, <1>5, <1>6, AddAllFacts, ZenonT(30)
  <2>2. Replaced(Look(AddAll(spent, next, coin, may), base), Look(spent, base), next, coin)
    BY <1>1, <1>2, <1>5, <1>6, AddAllFacts, ZenonT(30)
  <2> QED BY <1>4, <2>1, <2>2, ZenonT(30) DEF Replaced
<1>8. \A o \in OutPoints : Look(r, base)[o] = IF o \in next THEN Before(b, i)[o]
                                               ELSE IF o \in first THEN Spent ELSE Look(c, base)[o]
  BY <1>2, <1>3, <1>7, ZenonT(30)
<1> QED BY <1>7, <1>8, ZenonT(30) DEF r, next, first

\* RollforwardBlock on one transaction.
LEMMA RollforwardTxFacts ==
  ASSUME NEW c \in Caches, NEW base \in UtxoMaps, Sound(c, base),
         NEW b \in Blocks, NEW i \in 1..Len(Txs[b])
  PROVE  /\ Sound(RollforwardTx(c, base, b, i), base)
         /\ \A o \in OutPoints : Look(RollforwardTx(c, base, b, i), base)[o] =
               IF o \in Txs[b][i].outs THEN b
               ELSE IF o \in Txs[b][i].ins THEN Spent ELSE Look(c, base)[o]
<1> DEFINE first == Txs[b][i].ins
           next == Txs[b][i].outs
           spent == SpendAll(c, base, first)
           may == Present(spent, base)
           coin == From(b)
           r == RollforwardTx(c, base, b, i)
<1>1. first \in SUBSET OutPoints /\ next \in SUBSET OutPoints
  BY TxFacts, ZenonT(30)
<1>2. /\ spent \in Caches /\ Sound(spent, base)
      /\ \A o \in OutPoints : Look(spent, base)[o] = IF o \in first THEN Spent ELSE Look(c, base)[o]
  BY <1>1, SpendAllFacts
<1>3. \A o \in next : coin[o] = b /\ coin[o] \in Blocks
  BY <1>1 DEF From
<1>4. r = AddAll(spent, next, coin, may)
  BY ZenonT(30) DEF RollforwardTx
<1>5. \A o \in next \ may : Look(spent, base)[o] = Spent
  BY <1>1 DEF Present, HaveCoin
<1> HIDE DEF first, next, spent, may, coin, r
<1>6. \A o \in next : coin[o] \in Blocks
  BY <1>3, ZenonT(30)
<1>7. /\ Sound(r, base)
      /\ \A o \in OutPoints : Look(r, base)[o] = IF o \in next THEN coin[o] ELSE Look(spent, base)[o]
  <2>1. Sound(AddAll(spent, next, coin, may), base)
    BY <1>1, <1>2, <1>5, <1>6, AddAllFacts, ZenonT(30)
  <2>2. Replaced(Look(AddAll(spent, next, coin, may), base), Look(spent, base), next, coin)
    BY <1>1, <1>2, <1>5, <1>6, AddAllFacts, ZenonT(30)
  <2> QED BY <1>4, <2>1, <2>2 DEF Replaced
<1>8. \A o \in OutPoints : Look(r, base)[o] = IF o \in next THEN b
                                               ELSE IF o \in first THEN Spent ELSE Look(c, base)[o]
  BY <1>2, <1>3, <1>7, ZenonT(30)
<1> QED BY <1>7, <1>8 DEF r, next, first

\* The coins of u are those of v, except that on the outpoints of D they may be
\* those of w.
Near(u, v, w, D) == \A o \in OutPoints : u[o] = v[o] \/ (o \in D /\ u[o] = w[o])

\* DisconnectBlock on a transaction decides the coins it touches whatever they
\* were: they are those before it.
LEMMA DisconnectStep ==
  ASSUME NEW c \in Caches, NEW base \in UtxoMaps, Sound(c, base),
         NEW b \in Blocks \ {Genesis}, undo[b] = UndoOf(b), NEW i \in 1..Len(Txs[b]),
         NEW w, NEW D, Near(Look(c, base), Applied(UtxoAt[Parent[b]], b)[i], w, D)
  PROVE  Near(Look(DisconnectTx(c, base, b, i), base), Applied(UtxoAt[Parent[b]], b)[i - 1], w, D)
<1> DEFINE along == Applied(UtxoAt[Parent[b]], b)
           ins == Txs[b][i].ins
           outs == Txs[b][i].outs
           r == DisconnectTx(c, base, b, i)
<1>1. \A o \in OutPoints : Look(r, base)[o] = IF o \in ins THEN along[i - 1][o]
                                               ELSE IF o \in outs THEN Spent ELSE Look(c, base)[o]
  BY DisconnectTxFacts DEF Before
<1>2. \A o \in OutPoints :
         /\ along[i][o] = IF o \in ins THEN Spent ELSE IF o \in outs THEN b ELSE along[i - 1][o]
         /\ o \in outs => along[i - 1][o] = Spent /\ o \notin ins
  <2>1. Moves(b, i, along[i - 1], along[i])
    BY AlongBlock, ZenonT(30)
  <2> HIDE DEF along
  <2> QED BY <2>1, ZenonT(30) DEF Moves
<1>3. \A o \in OutPoints : Look(c, base)[o] = along[i][o] \/ (o \in D /\ Look(c, base)[o] = w[o])
  BY ZenonT(30) DEF Near
<1> HIDE DEF along, ins, outs, r
<1>4. Near(Look(r, base), along[i - 1], w, D)
  BY <1>1, <1>2, <1>3, ZenonT(30) DEF Near
<1> QED BY <1>4, ZenonT(30) DEF r, along

\* So does RollforwardBlock: they are those after it.
LEMMA RollforwardStep ==
  ASSUME NEW c \in Caches, NEW base \in UtxoMaps, Sound(c, base),
         NEW b \in Blocks \ {Genesis}, NEW i \in 1..Len(Txs[b]),
         NEW w, NEW D, Near(Look(c, base), Applied(UtxoAt[Parent[b]], b)[i - 1], w, D)
  PROVE  Near(Look(RollforwardTx(c, base, b, i), base), Applied(UtxoAt[Parent[b]], b)[i], w, D)
<1> DEFINE along == Applied(UtxoAt[Parent[b]], b)
           ins == Txs[b][i].ins
           outs == Txs[b][i].outs
           r == RollforwardTx(c, base, b, i)
<1>1. \A o \in OutPoints : Look(r, base)[o] = IF o \in outs THEN b
                                               ELSE IF o \in ins THEN Spent ELSE Look(c, base)[o]
  BY RollforwardTxFacts
<1>2. \A o \in OutPoints :
         /\ along[i][o] = IF o \in ins THEN Spent ELSE IF o \in outs THEN b ELSE along[i - 1][o]
         /\ o \in outs => along[i - 1][o] = Spent /\ o \notin ins
  <2>1. Moves(b, i, along[i - 1], along[i])
    BY AlongBlock, ZenonT(30)
  <2> HIDE DEF along
  <2> QED BY <2>1, ZenonT(30) DEF Moves
<1>3. \A o \in OutPoints : Look(c, base)[o] = along[i - 1][o] \/ (o \in D /\ Look(c, base)[o] = w[o])
  BY ZenonT(30) DEF Near
<1> HIDE DEF along, ins, outs, r
<1>4. Near(Look(r, base), along[i], w, D)
  BY <1>1, <1>2, <1>3, ZenonT(30) DEF Near
<1> QED BY <1>4, ZenonT(30) DEF r, along

\* ConnectBlock on the coins of the parent: the view shows the coins of the block,
\* and the undo data are what the block spent.
LEMMA ConnectBlockFacts ==
  ASSUME NEW b \in Blocks \ {Genesis}, NEW base, base = UtxoAt[Parent[b]]
  PROVE  /\ ConnectBlock(EmptyCache, base, b) \in Caches
         /\ Sound(ConnectBlock(EmptyCache, base, b), base)
         /\ Look(ConnectBlock(EmptyCache, base, b), base) = UtxoAt[b]
         /\ BlockUndo(EmptyCache, base, b) = UndoOf(b)
<1> DEFINE n == Len(Txs[b])
           along == Applied(UtxoAt[Parent[b]], b)
           view == Connecting(EmptyCache, base, b)
           T == {i \in Nat : i \in 0..n => Sound(view[i], base) /\ Look(view[i], base) = along[i]}
<1>1. n \in Nat /\ DOMAIN Txs[b] = 1..n
  BY TxFacts, ZenonT(30)
<1>2. base \in UtxoMaps
  BY UtxoFacts, TreeAssumption
<1>3. EmptyCache \in Caches /\ Sound(EmptyCache, base) /\ Look(EmptyCache, base) = base
  BY <1>2, EmptyFacts, ZenonT(30)
<1>4. /\ \A i \in 0..n : view[i] \in Caches
      /\ view[0] = EmptyCache
      /\ \A i \in 1..n : view[i] = UpdateCoins(view[i - 1], base, b, i)
  <2> HIDE DEF n
  <2> QED BY <1>2, <1>3, ConnectingViews DEF n
<1>5. along[0] = base /\ along[n] = UtxoAt[b]
  BY AlongBlock, ZenonT(30)
<1>6. ASSUME NEW i \in 1..n, view[i - 1] \in Caches, Sound(view[i - 1], base), Look(view[i - 1], base) = along[i - 1]
      PROVE  Sound(view[i], base) /\ Look(view[i], base) = along[i]
  <2>1. view[i] = UpdateCoins(view[i - 1], base, b, i)
    BY <1>4, ZenonT(30)
  <2> HIDE DEF view
  <2>2. /\ Sound(UpdateCoins(view[i - 1], base, b, i), base)
        /\ Look(UpdateCoins(view[i - 1], base, b, i), base) = along[i]
    BY <1>2, <1>6, UpdateStep, ZenonT(30)
  <2> QED BY <2>1, <2>2
<1> HIDE DEF view, along, n
<1>7. 0 \in T
  BY <1>3, <1>4, <1>5, ZenonT(30)
<1>8. ASSUME NEW i \in Nat, i \in T PROVE i + 1 \in T
  <2> SUFFICES ASSUME i + 1 \in 0..n PROVE Sound(view[i + 1], base) /\ Look(view[i + 1], base) = along[i + 1]
    BY NatSucc, ZenonT(30)
  <2>1. i + 1 \in 1..n /\ (i + 1) - 1 = i /\ i \in 0..n
    BY <1>1
  <2>2. view[i] \in Caches /\ Sound(view[i], base) /\ Look(view[i], base) = along[i]
    BY <1>4, <1>8, <2>1, ZenonT(30)
  <2> QED BY <1>6, <2>1, <2>2, ZenonT(30)
<1>9. \A i \in 0..n : Sound(view[i], base) /\ Look(view[i], base) = along[i]
  <2> HIDE DEF T
  <2>1. Nat \subseteq T
    BY <1>7, <1>8, NatSetInduction, ZenonT(30)
  <2> QED BY <1>1, <2>1 DEF T
<1>10. n \in 0..n
  BY <1>1
<1>11. ConnectBlock(EmptyCache, base, b) = view[n]
  BY ZenonT(30) DEF ConnectBlock, view, n
<1>12. BlockUndo(EmptyCache, base, b) = UndoOf(b)
  <2>1. BlockUndo(EmptyCache, base, b) =
          [i \in DOMAIN Txs[b] |-> [o \in Txs[b][i].ins |-> Look(view[i - 1], base)[o]]]
    BY ZenonT(30) DEF BlockUndo, view
  <2>2. UndoOf(b) = [i \in DOMAIN Txs[b] |-> [o \in Txs[b][i].ins |-> along[i - 1][o]]]
    BY ZenonT(30) DEF UndoOf, Before, along
  <2>3. ASSUME NEW i \in DOMAIN Txs[b] PROVE Look(view[i - 1], base) = along[i - 1]
    <3>1. i - 1 \in 0..n
      BY <1>1
    <3> QED BY <1>9, <3>1, ZenonT(30)
  <2> QED BY <2>1, <2>2, <2>3
<1> QED BY <1>4, <1>5, <1>9, <1>10, <1>11, <1>12, ZenonT(30)

\* The views along DisconnectBlock: the coins before the transactions that are
\* undone, except those of D that were other than the block's and that none of
\* these touched.
LEMMA DisconnectingFacts ==
  ASSUME NEW c \in Caches, NEW base \in UtxoMaps, Sound(c, base),
         NEW b \in Blocks \ {Genesis}, undo[b] = UndoOf(b),
         NEW w, NEW D, Near(Look(c, base), UtxoAt[b], w, D)
  PROVE  \A k \in 0..Len(Txs[b]) :
           /\ Disconnecting(c, base, b)[k] \in Caches
           /\ Sound(Disconnecting(c, base, b)[k], base)
           /\ Near(Look(Disconnecting(c, base, b)[k], base),
                   Applied(UtxoAt[Parent[b]], b)[Len(Txs[b]) - k], w, D)
<1> DEFINE n == Len(Txs[b])
           along == Applied(UtxoAt[Parent[b]], b)
           view == Disconnecting(c, base, b)
           T == {k \in Nat : k \in 0..n => Sound(view[k], base) /\ Near(Look(view[k], base), along[n - k], w, D)}
<1>1. n \in Nat
  BY TxFacts, ZenonT(30)
<1>2. /\ \A k \in 0..n : view[k] \in Caches
      /\ view[0] = c
      /\ \A k \in 1..n : view[k] = DisconnectTx(view[k - 1], base, b, n + 1 - k)
  BY DisconnectingViews
<1>3. along[n] = UtxoAt[b]
  BY AlongBlock, ZenonT(30)
<1>4. ASSUME NEW k \in 1..n, view[k - 1] \in Caches, Sound(view[k - 1], base),
             Near(Look(view[k - 1], base), along[n + 1 - k], w, D)
      PROVE  Sound(view[k], base) /\ Near(Look(view[k], base), along[n - k], w, D)
  <2> DEFINE i == n + 1 - k
  <2>1. view[k] = DisconnectTx(view[k - 1], base, b, i)
    BY <1>2, ZenonT(30)
  <2>2. i \in 1..n /\ i - 1 = n - k
    BY <1>1
  <2>3. Near(Look(view[k - 1], base), along[i], w, D)
    BY <1>4, ZenonT(30)
  <2> HIDE DEF view, i
  <2>4. Sound(DisconnectTx(view[k - 1], base, b, i), base)
    BY <1>4, <2>2, DisconnectTxFacts, ZenonT(30)
  <2>5. Near(Look(DisconnectTx(view[k - 1], base, b, i), base), along[i - 1], w, D)
    BY <1>4, <2>2, <2>3, DisconnectStep, ZenonT(30)
  <2> QED BY <2>1, <2>2, <2>4, <2>5, ZenonT(30)
<1>5. Near(Look(c, base), UtxoAt[b], w, D) /\ Sound(c, base)
  OBVIOUS
<1> HIDE DEF view, along, n
<1>6. 0 \in T
  <2>1. n - 0 = n
    BY <1>1
  <2> QED BY <1>2, <1>3, <1>5, <2>1, ZenonT(30)
<1>7. ASSUME NEW k \in Nat, k \in T PROVE k + 1 \in T
  <2> SUFFICES ASSUME k + 1 \in 0..n
               PROVE  Sound(view[k + 1], base) /\ Near(Look(view[k + 1], base), along[n - (k + 1)], w, D)
    BY NatSucc, ZenonT(30)
  <2>1. k + 1 \in 1..n /\ (k + 1) - 1 = k /\ k \in 0..n /\ n + 1 - (k + 1) = n - k
    BY <1>1
  <2>2. view[k] \in Caches /\ Sound(view[k], base) /\ Near(Look(view[k], base), along[n - k], w, D)
    BY <1>2, <1>7, <2>1, ZenonT(30)
  <2> QED BY <1>4, <2>1, <2>2, ZenonT(30)
<1>8. \A k \in 0..n : Sound(view[k], base) /\ Near(Look(view[k], base), along[n - k], w, D)
  <2> HIDE DEF T
  <2>1. Nat \subseteq T
    BY <1>6, <1>7, NatSetInduction, ZenonT(30)
  <2> QED BY <1>1, <2>1 DEF T
<1> QED BY <1>2, <1>8, ZenonT(30) DEF view, along, n

\* DisconnectBlock moves the view from a block to its parent.
LEMMA DisconnectBlockFacts ==
  ASSUME NEW c \in Caches, NEW base \in UtxoMaps, Sound(c, base),
         NEW b \in Blocks \ {Genesis}, undo[b] = UndoOf(b),
         NEW w, NEW D, Near(Look(c, base), UtxoAt[b], w, D)
  PROVE  /\ DisconnectBlock(c, base, b) \in Caches
         /\ Sound(DisconnectBlock(c, base, b), base)
         /\ Near(Look(DisconnectBlock(c, base, b), base), UtxoAt[Parent[b]], w, D)
<1> DEFINE n == Len(Txs[b])
           along == Applied(UtxoAt[Parent[b]], b)
           view == Disconnecting(c, base, b)
<1>1. n \in 0..n /\ n - n = 0
  BY TxFacts
<1>2. /\ view[n] \in Caches /\ Sound(view[n], base)
      /\ Near(Look(view[n], base), along[n - n], w, D)
  BY <1>1, DisconnectingFacts, ZenonT(30)
<1>3. along[0] = UtxoAt[Parent[b]]
  BY AlongBlock, ZenonT(30)
<1>4. DisconnectBlock(c, base, b) = view[n]
  BY ZenonT(30) DEF DisconnectBlock
<1> HIDE DEF n, along, view
<1> QED BY <1>1, <1>2, <1>3, <1>4, ZenonT(30)

\* The coins of a block are what its DisconnectBlock expects.
LEMMA DisconnectsCleanFacts ==
  ASSUME NEW b \in Blocks \ {Genesis}, undo[b] = UndoOf(b), NEW base, base = UtxoAt[b]
  PROVE  /\ DisconnectsClean(EmptyCache, base, b)
         /\ DisconnectBlock(EmptyCache, base, b) \in Caches
         /\ Sound(DisconnectBlock(EmptyCache, base, b), base)
         /\ Look(DisconnectBlock(EmptyCache, base, b), base) = UtxoAt[Parent[b]]
<1> DEFINE n == Len(Txs[b])
           along == Applied(UtxoAt[Parent[b]], b)
           view == Disconnecting(EmptyCache, base, b)
           spent(i) == SpendAll(view[n - i], base, Txs[b][i].outs)
<1>1. base \in UtxoMaps /\ UtxoAt[Parent[b]] \in UtxoMaps
  BY UtxoFacts, TreeAssumption, ZenonT(30)
<1>2. EmptyCache \in Caches /\ Sound(EmptyCache, base) /\ Look(EmptyCache, base) = base
  BY <1>1, EmptyFacts, ZenonT(30)
<1>3. Near(Look(EmptyCache, base), UtxoAt[b], base, {})
  BY <1>2, ZenonT(30) DEF Near
<1>4. ASSUME NEW i \in DOMAIN Txs[b]
      PROVE  /\ \A o \in Txs[b][i].outs : Look(view[n - i], base)[o] = b
             /\ \A o \in Txs[b][i].ins : ~HaveCoin(spent(i), base, o)
  <2>1. i \in 1..n /\ n - i \in 0..n /\ n - (n - i) = i
    BY TxFacts
  <2>2. Txs[b][i].ins \in SUBSET OutPoints /\ Txs[b][i].outs \in SUBSET OutPoints
    BY <2>1, TxFacts, ZenonT(30)
  <2>3. view[n - i] \in Caches /\ Sound(view[n - i], base) /\ Near(Look(view[n - i], base), along[n - (n - i)], base, {})
    <3> HIDE DEF n
    <3>1. \A k \in 0..n : /\ view[k] \in Caches /\ Sound(view[k], base)
                           /\ Near(Look(view[k], base), along[n - k], base, {})
      BY <1>1, <1>2, <1>3, DisconnectingFacts, ZenonT(30) DEF n
    <3> QED BY <2>1, <3>1
  <2>4. \A o \in OutPoints :
         /\ along[i][o] = IF o \in Txs[b][i].ins THEN Spent ELSE IF o \in Txs[b][i].outs THEN b ELSE along[i - 1][o]
         /\ o \in Txs[b][i].outs => o \notin Txs[b][i].ins
    <3>1. Moves(b, i, along[i - 1], along[i])
      BY <2>1, AlongBlock, ZenonT(30)
    <3> HIDE DEF along
    <3> QED BY <3>1, ZenonT(30) DEF Moves
  <2>5. \A o \in OutPoints : Look(spent(i), base)[o] = IF o \in Txs[b][i].outs THEN Spent ELSE Look(view[n - i], base)[o]
    <3> HIDE DEF view, n
    <3> QED BY <1>1, <2>2, <2>3, SpendAllFacts
  <2> HIDE DEF view, along, n, spent
  <2>6. \A o \in OutPoints : Look(view[n - i], base)[o] = along[i][o]
    BY <2>1, <2>3, ZenonT(30) DEF Near
  <2>7. \A o \in Txs[b][i].outs : Look(view[n - i], base)[o] = b
    BY <2>2, <2>4, <2>6, ZenonT(30)
  <2>8. \A o \in Txs[b][i].ins : Look(spent(i), base)[o] = Spent
    BY <2>2, <2>4, <2>5, <2>6, ZenonT(30)
  <2> QED BY <2>7, <2>8, ZenonT(30) DEF HaveCoin
<1>5. DisconnectsClean(EmptyCache, base, b)
  BY <1>4, ZenonT(30) DEF DisconnectsClean
<1>6. /\ DisconnectBlock(EmptyCache, base, b) \in Caches
      /\ Sound(DisconnectBlock(EmptyCache, base, b), base)
      /\ Near(Look(DisconnectBlock(EmptyCache, base, b), base), UtxoAt[Parent[b]], base, {})
  BY <1>1, <1>2, <1>3, DisconnectBlockFacts, ZenonT(30)
<1>7. Look(DisconnectBlock(EmptyCache, base, b), base) \in UtxoMaps
  BY <1>1, <1>6, LookFacts, ZenonT(30)
<1>8. Look(DisconnectBlock(EmptyCache, base, b), base) = UtxoAt[Parent[b]]
  BY <1>1, <1>6, <1>7 DEF Near, UtxoMaps
<1> QED BY <1>5, <1>6, <1>8, ZenonT(30)

\* RollforwardBlock moves the view from the parent of a block to the block.
LEMMA RollforwardBlockFacts ==
  ASSUME NEW c \in Caches, NEW base \in UtxoMaps, Sound(c, base), NEW b \in Blocks \ {Genesis},
         NEW w, NEW D, Near(Look(c, base), UtxoAt[Parent[b]], w, D)
  PROVE  /\ RollforwardBlock(c, base, b) \in Caches
         /\ Sound(RollforwardBlock(c, base, b), base)
         /\ Near(Look(RollforwardBlock(c, base, b), base), UtxoAt[b], w, D)
<1> DEFINE n == Len(Txs[b])
           along == Applied(UtxoAt[Parent[b]], b)
           view == Rollforward(c, base, b)
           T == {i \in Nat : i \in 0..n => Sound(view[i], base) /\ Near(Look(view[i], base), along[i], w, D)}
<1>1. n \in Nat /\ n \in 0..n
  <2>1. n \in Nat
    BY TxFacts, ZenonT(30)
  <2> HIDE DEF n, along, view, T
  <2> QED BY <2>1
<1>2. /\ \A i \in 0..n : view[i] \in Caches
      /\ view[0] = c
      /\ \A i \in 1..n : view[i] = RollforwardTx(view[i - 1], base, b, i)
  BY RollforwardViews, ZenonT(30)
<1>3. along[0] = UtxoAt[Parent[b]] /\ along[n] = UtxoAt[b]
  BY AlongBlock, ZenonT(30)
<1>4. ASSUME NEW i \in 1..n, view[i - 1] \in Caches, Sound(view[i - 1], base),
             Near(Look(view[i - 1], base), along[i - 1], w, D)
      PROVE  Sound(view[i], base) /\ Near(Look(view[i], base), along[i], w, D)
  <2>1. view[i] = RollforwardTx(view[i - 1], base, b, i)
    BY <1>2
  <2> HIDE DEF view
  <2>2. Sound(RollforwardTx(view[i - 1], base, b, i), base)
    BY <1>4, RollforwardTxFacts, ZenonT(30)
  <2>3. Near(Look(RollforwardTx(view[i - 1], base, b, i), base), along[i], w, D)
    BY <1>4, RollforwardStep, ZenonT(30)
  <2> QED BY <2>1, <2>2, <2>3, ZenonT(30)
<1>5. Near(Look(c, base), UtxoAt[Parent[b]], w, D) /\ Sound(c, base)
  OBVIOUS
<1>6. RollforwardBlock(c, base, b) = view[n]
  BY ZenonT(30) DEF RollforwardBlock
<1> HIDE DEF view, along, n
<1>7. 0 \in T
  BY <1>2, <1>3, <1>5, ZenonT(30)
<1>8. ASSUME NEW i \in Nat, i \in T PROVE i + 1 \in T
  <2> SUFFICES ASSUME i + 1 \in 0..n
               PROVE  Sound(view[i + 1], base) /\ Near(Look(view[i + 1], base), along[i + 1], w, D)
    BY NatSucc, ZenonT(30)
  <2>1. i + 1 \in 1..n /\ (i + 1) - 1 = i /\ i \in 0..n
    BY <1>1
  <2>2. view[i] \in Caches /\ Sound(view[i], base) /\ Near(Look(view[i], base), along[i], w, D)
    BY <1>2, <1>8, <2>1, ZenonT(30)
  <2> QED BY <1>4, <2>1, <2>2, ZenonT(30)
<1>9. \A i \in 0..n : Sound(view[i], base) /\ Near(Look(view[i], base), along[i], w, D)
  <2> HIDE DEF T
  <2>1. Nat \subseteq T
    BY <1>7, <1>8, NatSetInduction, ZenonT(30)
  <2> QED BY <1>1, <2>1 DEF T
<1> QED BY <1>1, <1>2, <1>3, <1>6, <1>9, ZenonT(30)

-----------------------------------------------------------------------------
(***************************************************************************)
(* ReplayBlocks.                                                           *)
(***************************************************************************)

\* What an interrupted flush leaves: two heads, every coin as it is at one of
\* them, and the undo data of the old branch.
Replaying ==
    /\ db \in UtxoMaps /\ heads[1] \in Blocks /\ heads[2] \in Maybe(Blocks)
    /\ \A b \in Path[heads[2]] \ {Genesis} : undo[b] = UndoOf(b)
    /\ Near(db, UtxoAt[heads[2]], UtxoAt[heads[1]], OutPoints)

\* The fork is an ancestor of both heads.
LEMMA ForkFacts ==
  ASSUME Replaying
  PROVE  /\ Fork \in Blocks /\ Fork \in Path[heads[1]]
         /\ heads[2] # None => Fork \in Path[heads[2]]
         /\ OldDepth \in Nat
<1>0. heads[1] \in Blocks /\ heads[2] \in Blocks \cup {None}
  BY ZenonT(30) DEF Replaying, Maybe
<1>1. CASE heads[2] = None
  BY <1>0, <1>1, PathHasSelf, TreeAssumption, ZenonT(30) DEF Fork, OldDepth
<1>2. CASE heads[2] # None
  <2> DEFINE S == Path[heads[2]] \cap Path[heads[1]]
  <2>1. Genesis \in S /\ S \subseteq Path[heads[1]]
    BY <1>0, <1>2, PathHasSelf, ZenonT(30)
  <2>2. \E t \in S : S \subseteq Path[t]
    <3> HIDE DEF S
    <3> QED BY <1>0, <2>1, PathLast
  <2>3. Fork = CHOOSE t \in S : S \subseteq Path[t]
    BY <1>2, ZenonT(30) DEF Fork, LastCommonAncestor
  <2>4. Fork \in S
    <3> HIDE DEF S
    <3> QED BY <2>2, <2>3
  <2>5. Fork \in Blocks
    BY <1>0, <2>4, PathInBlocks, ZenonT(30)
  <2>6. OldDepth = Height[heads[2]] - Height[Fork]
    BY <1>2 DEF OldDepth
  <2>7. Height[Fork] <= Height[heads[2]] /\ Height[Fork] \in Nat /\ Height[heads[2]] \in Nat
    BY <1>0, <1>2, <2>4, <2>5, HeightFacts, HeightOrder, ZenonT(30)
  <2> QED BY <2>4, <2>5, <2>6, <2>7
<1> QED BY <1>1, <1>2, ZenonT(30)

\* The old branch is walked down to the fork; none of the blocks that are rolled
\* back is Genesis.
LEMMA OldBranchFacts ==
  ASSUME Replaying, heads[2] # None
  PROVE  /\ OldBranch[0] = heads[2] /\ OldBranch[OldDepth] = Fork
         /\ \A k \in 1..OldDepth : /\ OldBranch[k - 1] \in Path[heads[2]] /\ OldBranch[k - 1] \in Blocks \ {Genesis}
                                   /\ OldBranch[k] = Parent[OldBranch[k - 1]]
<1> DEFINE n == OldDepth
           V == Blocks \cup {None}
           down(v) == IF v \in Blocks THEN Parent[v] ELSE None
           step == [i \in 1..n |-> [v \in V |-> down(v)]]
           b == heads[2]
<1>0. b \in Blocks /\ Fork \in Path[b] /\ n \in Nat /\ n = Height[b] - Height[Fork]
  BY ForkFacts DEF Replaying, Maybe, OldDepth
<1> HIDE DEF n, b
<1>1. step \in [1..n -> [V -> V]]
  <2>1. \A v \in V : down(v) \in V
    BY TreeAssumption
  <2> HIDE DEF V, down
  <2> QED BY <2>1, ZenonT(30)
<1>2. PICK g : Iterates(g, V, n, b, step)
  <2>1. b \in V
    BY <1>0
  <2> HIDE DEF step, V
  <2> QED BY <1>0, <1>1, <2>1, Iteration, ZenonT(30)
<1>3. g[0] = b /\ \A i \in 1..n : g[i - 1] \in Blocks => g[i] = Parent[g[i - 1]]
  <2>1. ASSUME NEW i \in 1..n, g[i - 1] \in Blocks PROVE g[i] = Parent[g[i - 1]]
    <3>1. g[i] = step[i][g[i - 1]]
      BY <1>2, ZenonT(30) DEF Iterates
    <3> QED BY <2>1, <3>1
  <2>2. g[0] = b
    BY <1>2, ZenonT(30) DEF Iterates
  <2> QED BY <2>1, <2>2, ZenonT(30)
<1>4. \A i \in 1..n : g[i] = Parent[g[i - 1]]
  <2> HIDE DEF step
  <2> QED BY <1>0, <1>3, WalkDown
<1>5. g = [i \in 0..n |-> IF i = 0 THEN b ELSE Parent[g[i - 1]]]
  <2>1. g = [i \in 0..n |-> g[i]]
    BY <1>2, ZenonT(30) DEF Iterates
  <2>2. \A i \in 0..n : i = 0 \/ i \in 1..n
    BY <1>0
  <2> HIDE DEF step
  <2> QED BY <1>3, <1>4, <2>1, <2>2, ZenonT(30)
<1>6. PICK k : k = OldBranch /\ k = [i \in 0..n |-> IF i = 0 THEN b ELSE Parent[k[i - 1]]]
  <2>1. OldBranch = CHOOSE k : k = [i \in 0..n |-> IF i = 0 THEN b ELSE Parent[k[i - 1]]]
    BY ZenonT(30) DEF OldBranch, n, b
  <2> QED BY <1>5, <2>1, ZenonT(30)
<1>7. k[0] = b /\ \A i \in 1..n : k[i] = Parent[k[i - 1]]
  <2>1. 0 \in 0..n /\ \A i \in 1..n : i \in 0..n /\ i # 0
    BY <1>0
  <2> QED BY <1>6, <2>1, ZenonT(30)
<1>8. /\ \A i \in 0..n : k[i] \in Path[b] /\ k[i] \in Blocks
      /\ \A i \in 1..n : k[i - 1] # Genesis
      /\ k[n] = Fork
  <2> HIDE DEF step
  <2> QED BY <1>0, <1>7, WalkDown
<1>9. \A i \in 1..n : k[i - 1] \in Path[b] /\ k[i - 1] \in Blocks \ {Genesis}
  <2>1. \A i \in 1..n : i - 1 \in 0..n
    BY <1>0
  <2> QED BY <1>8, <2>1, ZenonT(30)
<1> QED BY <1>6, <1>7, <1>8, <1>9, ZenonT(30) DEF n, b

\* The type of DisconnectBlock and of RollforwardBlock.
LEMMA BlockTypes ==
  ASSUME NEW c \in Caches, NEW base \in UtxoMaps, NEW b \in Blocks
  PROVE  /\ b # Genesis /\ undo[b] = UndoOf(b) => DisconnectBlock(c, base, b) \in Caches
         /\ RollforwardBlock(c, base, b) \in Caches
<1>1. Len(Txs[b]) \in 0..Len(Txs[b])
  BY TxFacts
<1>2. b # Genesis /\ undo[b] = UndoOf(b) => DisconnectBlock(c, base, b) \in Caches
  BY <1>1, DisconnectingViews DEF DisconnectBlock
<1>3. RollforwardBlock(c, base, b) \in Caches
  BY <1>1, RollforwardViews, ZenonT(30) DEF RollforwardBlock
<1> QED BY <1>2, <1>3, ZenonT(30)

\* The rollback ends with every coin as it is at the fork or at the new tip.
LEMMA RolledBackFacts ==
  ASSUME Replaying
  PROVE  /\ RolledBack \in Caches /\ Sound(RolledBack, db)
         /\ Near(Look(RolledBack, db), UtxoAt[Fork], UtxoAt[heads[1]], OutPoints)
<1> DEFINE n == OldDepth
           w == UtxoAt[heads[1]]
           D == OutPoints
           undone(i, v) == DisconnectBlock(v, db, OldBranch[i - 1])
           step == [i \in 1..n |-> [v \in Caches |-> undone(i, v)]]
<1>0. /\ db \in UtxoMaps /\ heads[2] \in Blocks \cup {None} /\ n \in Nat
      /\ \A b \in Path[heads[2]] \ {Genesis} : undo[b] = UndoOf(b)
  BY ForkFacts, ZenonT(30) DEF Replaying, Maybe
<1>1. /\ EmptyCache \in Caches /\ Sound(EmptyCache, db)
      /\ Near(Look(EmptyCache, db), UtxoAt[heads[2]], w, D)
  BY <1>0, EmptyFacts, ZenonT(30) DEF Replaying
<1> HIDE DEF w, D
<1>2. ASSUME NEW i \in 1..n
      PROVE  /\ OldBranch[i - 1] \in Blocks \ {Genesis} /\ undo[OldBranch[i - 1]] = UndoOf(OldBranch[i - 1])
             /\ OldBranch[i] = Parent[OldBranch[i - 1]]
  <2>1. heads[2] # None
    BY <1>0 DEF OldDepth
  <2> QED BY <1>0, <2>1, OldBranchFacts, ZenonT(30)
<1>3. ASSUME NEW i \in 1..n, NEW v \in Caches PROVE undone(i, v) \in Caches
  BY <1>0, <1>2, BlockTypes, ZenonT(30)
<1> HIDE DEF undone, n
<1>4. step \in [1..n -> [Caches -> Caches]]
  BY <1>3, ZenonT(30)
<1>5. PICK g : Iterates(g, Caches, n, EmptyCache, step)
  <2> HIDE DEF step
  <2> QED BY <1>0, <1>1, <1>4, Iteration, ZenonT(30)
<1>6. ASSUME NEW i \in 0..n, i # 0 PROVE g[i] = undone(i, g[i - 1])
  <2>1. i \in 1..n /\ i - 1 \in 0..n
    BY <1>0, <1>6
  <2>2. g[i] = step[i][g[i - 1]] /\ g[i - 1] \in Caches
    BY <1>5, <2>1 DEF Iterates
  <2> QED BY <2>1, <2>2, ZenonT(30)
<1> HIDE DEF step
<1>7. g = [i \in 0..n |-> IF i = 0 THEN EmptyCache ELSE undone(i, g[i - 1])]
  <2>1. g[0] = EmptyCache /\ g = [i \in 0..n |-> g[i]]
    BY <1>5, ZenonT(30) DEF Iterates
  <2> QED BY <1>6, <2>1, ZenonT(30)
<1>8. PICK k : RolledBack = k[n] /\ k = [i \in 0..n |-> IF i = 0 THEN EmptyCache ELSE undone(i, k[i - 1])]
  <2>1. RolledBack = (CHOOSE k : k = [i \in 0..n |-> IF i = 0 THEN EmptyCache ELSE undone(i, k[i - 1])])[n]
    BY ZenonT(30) DEF RolledBack, n, undone
  <2> QED BY <1>7, <2>1, ZenonT(30)
<1>9. k[0] = EmptyCache /\ \A i \in 1..n : k[i] = undone(i, k[i - 1])
  <2>1. 0 \in 0..n /\ \A i \in 1..n : i \in 0..n /\ i # 0
    BY <1>0
  <2> QED BY <1>8, <2>1, ZenonT(30)
<1> DEFINE at(i) == IF heads[2] = None THEN None ELSE OldBranch[i]
           T == {i \in Nat : i \in 0..n =>
                   k[i] \in Caches /\ Sound(k[i], db) /\ Near(Look(k[i], db), UtxoAt[at(i)], w, D)}
<1>10. 0 \in T
  <2>1. at(0) = heads[2]
    BY OldBranchFacts, ZenonT(30)
  <2> HIDE DEF at
  <2> QED BY <1>1, <1>9, <2>1, ZenonT(30)
<1>11. ASSUME NEW i \in Nat, i \in T PROVE i + 1 \in T
  <2> SUFFICES ASSUME i + 1 \in 0..n
               PROVE  /\ k[i + 1] \in Caches /\ Sound(k[i + 1], db)
                      /\ Near(Look(k[i + 1], db), UtxoAt[at(i + 1)], w, D)
    BY NatSucc, ZenonT(30)
  <2>1. i + 1 \in 1..n /\ (i + 1) - 1 = i /\ i \in 0..n
    BY <1>0
  <2>2. heads[2] # None
    BY <1>0, <2>1 DEF OldDepth, n
  <2>3. at(i) = OldBranch[i] /\ at(i + 1) = Parent[OldBranch[i]] /\ OldBranch[i] \in Blocks \ {Genesis}
        /\ undo[OldBranch[i]] = UndoOf(OldBranch[i])
    BY <1>2, <2>1, <2>2, ZenonT(30)
  <2>4. k[i] \in Caches /\ Sound(k[i], db) /\ Near(Look(k[i], db), UtxoAt[at(i)], w, D)
    BY <1>11, <2>1
  <2>5. k[i + 1] = DisconnectBlock(k[i], db, OldBranch[i])
    BY <1>9, <2>1, ZenonT(30) DEF undone
  <2> HIDE DEF at
  <2> QED BY <1>0, <2>3, <2>4, <2>5, DisconnectBlockFacts, ZenonT(30)
<1>12. k[n] \in Caches /\ Sound(k[n], db) /\ Near(Look(k[n], db), UtxoAt[at(n)], w, D)
  <2>1. n \in T
    <3> HIDE DEF T
    <3> QED BY <1>0, <1>10, <1>11, NatSetInduction, ZenonT(30)
  <2> HIDE DEF at
  <2> QED BY <1>0, <2>1
<1>13. UtxoAt[at(n)] = UtxoAt[Fork]
  <2>1. CASE heads[2] = None
    BY <2>1, UtxoFacts, ZenonT(30) DEF Fork
  <2>2. CASE heads[2] # None
    BY <2>2, OldBranchFacts, ZenonT(30) DEF n
  <2> QED BY <2>1, <2>2, ZenonT(30)
<1> HIDE DEF at
<1> QED BY <1>8, <1>12, <1>13, ZenonT(30) DEF w, D

\* ReplayBlocks ends with the coins of the new tip, in a cache that can be flushed.
LEMMA ReplayFacts ==
  ASSUME Replaying
  PROVE  /\ ReplayedCache \in Caches /\ Sound(ReplayedCache, db)
         /\ Look(ReplayedCache, db) = UtxoAt[heads[1]]
<1> DEFINE w == UtxoAt[heads[1]]
           D == OutPoints
           c == RolledBack
           S == Path[Fork]
           redone(b, v) == IF b \in S THEN c ELSE RollforwardBlock(v, db, b)
           step == [b \in Blocks |-> [v \in Caches |-> redone(b, v)]]
<1>0. /\ db \in UtxoMaps /\ heads[1] \in Blocks /\ w \in UtxoMaps
      /\ Fork \in Blocks /\ Fork \in Path[heads[1]] /\ Genesis \in S
  BY ForkFacts, UtxoFacts, PathHasSelf, ZenonT(30) DEF Replaying
<1>1. c \in Caches /\ Sound(c, db) /\ Near(Look(c, db), UtxoAt[Fork], w, D)
  BY RolledBackFacts, ZenonT(30)
<1> HIDE DEF w, D, c, S
<1>2. ASSUME NEW b \in Blocks, NEW v \in Caches PROVE redone(b, v) \in Caches
  BY <1>0, <1>1, BlockTypes, ZenonT(30)
<1> HIDE DEF redone
<1>3. step \in TreeSteps(Caches)
  BY <1>2 DEF TreeSteps
<1>4. PICK f : TreeSolution(f, Caches, c, step)
  <2> HIDE DEF step
  <2> QED BY <1>1, <1>3, TreeRecursion, ZenonT(30)
<1> DEFINE g == [b \in Blocks |-> f[b]]
<1>5. ASSUME NEW b \in Blocks PROVE g[b] = redone(b, g[Parent[b]])
  <2>1. f[Parent[b]] \in Caches /\ f[b] = step[b][f[Parent[b]]]
    BY <1>4, TreeAssumption, ZenonT(30) DEF TreeSolution
  <2>2. f[b] = redone(b, f[Parent[b]])
    BY <2>1
  <2>3. CASE b \in S
    BY <2>2, <2>3, ZenonT(30) DEF redone
  <2>4. CASE b \notin S
    BY <1>0, <2>2, <2>4, TreeAssumption, ZenonT(30)
  <2> QED BY <2>3, <2>4, ZenonT(30)
<1>6. g = [b \in Blocks |-> redone(b, g[Parent[b]])]
  <2>1. g = [b \in Blocks |-> g[b]]
    OBVIOUS
  <2> HIDE DEF g
  <2> QED BY <1>5, <2>1
<1>7. PICK k : RolledForward = k /\ k = [b \in Blocks |-> redone(b, k[Parent[b]])]
  <2>1. RolledForward = CHOOSE k : k = [b \in Blocks |-> redone(b, k[Parent[b]])]
    BY ZenonT(30) DEF RolledForward, redone, S, c
  <2> HIDE DEF g
  <2> QED BY <1>6, <2>1, ZenonT(30)
<1>8. \A b \in Blocks : k[b] = redone(b, k[Parent[b]])
  BY <1>7, ZenonT(30)
<1> HIDE DEF g, step
<1> DEFINE T == {b \in Blocks : Fork \in Path[b] =>
                   k[b] \in Caches /\ Sound(k[b], db) /\ Near(Look(k[b], db), UtxoAt[b], w, D)}
<1>9. ASSUME NEW b \in Blocks, b = Genesis \/ Parent[b] \in T PROVE b \in T
  <2> SUFFICES ASSUME Fork \in Path[b]
               PROVE  k[b] \in Caches /\ Sound(k[b], db) /\ Near(Look(k[b], db), UtxoAt[b], w, D)
    OBVIOUS
  <2>1. CASE b \in S
    <3>1. b = Fork
      BY <1>0, <2>1, PathAntisymmetric, ZenonT(30) DEF S
    <3>2. k[b] = c
      BY <1>8, <2>1 DEF redone
    <3> QED BY <1>1, <3>1, <3>2, ZenonT(30)
  <2>2. CASE b \notin S
    <3>1. b # Genesis /\ b # Fork
      BY <1>0, <2>2, PathHasSelf, ZenonT(30) DEF S
    <3>2. Parent[b] \in Blocks /\ Fork \in Path[Parent[b]]
      BY <3>1, PathStep, TreeAssumption
    <3>3. k[Parent[b]] \in Caches /\ Sound(k[Parent[b]], db) /\ Near(Look(k[Parent[b]], db), UtxoAt[Parent[b]], w, D)
      BY <1>9, <3>1, <3>2, ZenonT(30)
    <3>4. k[b] = RollforwardBlock(k[Parent[b]], db, b)
      BY <1>8, <2>2, ZenonT(30) DEF redone
    <3> HIDE DEF T
    <3> QED BY <1>0, <3>1, <3>3, <3>4, RollforwardBlockFacts, ZenonT(30)
  <2> QED BY <2>1, <2>2, ZenonT(30)
<1>10. Blocks \subseteq T
  <2> HIDE DEF T
  <2> QED BY <1>9, TreeInduction
<1>11. ReplayedCache \in Caches /\ Sound(ReplayedCache, db) /\ Near(Look(ReplayedCache, db), w, w, D)
  BY <1>0, <1>7, <1>10, ZenonT(30) DEF ReplayedCache, w
<1>12. Look(ReplayedCache, db) \in UtxoMaps
  BY <1>0, <1>11, LookFacts, ZenonT(30)
<1>13. Look(ReplayedCache, db) = w
  BY <1>0, <1>11, <1>12 DEF Near, UtxoMaps
<1> QED BY <1>11, <1>13, ZenonT(30) DEF w

-----------------------------------------------------------------------------
(***************************************************************************)
(* Every step keeps the invariant.                                         *)
(***************************************************************************)

\* The batches of a flush: what the cache and the database show together does
\* not change, and the last batch moves all of it to the database.
LEMMA BatchFacts ==
  ASSUME NEW c \in Caches, NEW base \in UtxoMaps, Sound(c, base), NEW S \in SUBSET Dirty(c)
  PROVE  /\ DBWrite(base, c) = Look(c, base)
         /\ DBWrite(base, Only(c, S)) \in UtxoMaps
         /\ Only(c, OutPoints \ S) \in Caches
         /\ Sound(Only(c, OutPoints \ S), DBWrite(base, Only(c, S)))
         /\ Look(Only(c, OutPoints \ S), DBWrite(base, Only(c, S))) = Look(c, base)
         /\ \A o \in OutPoints : DBWrite(base, Only(c, S))[o] \in {base[o], Look(c, base)[o]}
<1> DEFINE p == Only(c, S)
           d == DBWrite(base, p)
           e == Only(c, OutPoints \ S)
<1>0. \A o \in OutPoints : c[o] \in Entry /\ base[o] \in MaybeCoin
  BY DEF Caches, UtxoMaps
<1>1. \A o \in OutPoints : /\ c[o].in /\ ~c[o].dirty => c[o].coin = base[o]
                           /\ c[o].fresh => base[o] = Spent
                           /\ ~c[o].in => ~c[o].dirty /\ ~c[o].fresh
  BY ZenonT(30) DEF Sound
<1>2. \A o \in S : o \in OutPoints /\ c[o].in /\ c[o].dirty
  BY ZenonT(30) DEF Dirty
<1>3. \A o \in OutPoints : /\ p[o] = IF o \in S THEN c[o] ELSE NoEntry
                           /\ e[o] = IF o \in S THEN NoEntry ELSE c[o]
  BY DEF Only
<1>4. ~NoEntry.in /\ ~NoEntry.dirty /\ ~NoEntry.fresh /\ NoEntry \in Entry
  BY ZenonT(30) DEF NoEntry, Entry, MaybeCoin
<1>5. \A o \in OutPoints : Look(c, base)[o] = IF c[o].in THEN c[o].coin ELSE base[o]
  BY LookFacts, ZenonT(30)
<1>6. DBWrite(base, c) = Look(c, base)
  BY <1>1, ZenonT(30) DEF DBWrite, Look
<1>7. \A o \in OutPoints : d[o] = IF o \in S THEN c[o].coin ELSE base[o]
  <2>1. d = [o \in OutPoints |-> IF p[o].in /\ p[o].dirty THEN p[o].coin ELSE base[o]]
    BY ZenonT(30) DEF DBWrite
  <2> HIDE DEF d, p
  <2> QED BY <1>2, <1>3, <1>4, <2>1, ZenonT(30)
<1>8. d \in UtxoMaps
  <2>1. d = [o \in OutPoints |-> IF p[o].in /\ p[o].dirty THEN p[o].coin ELSE base[o]]
    BY ZenonT(30) DEF DBWrite
  <2>2. d = [o \in OutPoints |-> d[o]]
    <3> HIDE DEF d, p
    <3> QED BY <2>1
  <2>3. \A o \in OutPoints : c[o].coin \in MaybeCoin
    BY <1>0, ZenonT(30) DEF Entry
  <2> HIDE DEF d, p
  <2> QED BY <1>0, <1>7, <2>2, <2>3, ZenonT(30) DEF UtxoMaps
<1>9. e \in Caches
  <2>1. e = [o \in OutPoints |-> e[o]]
    BY DEF Only
  <2> HIDE DEF e
  <2> QED BY <1>0, <1>3, <1>4, <2>1, ZenonT(30) DEF Caches
<1> HIDE DEF d, p, e
<1>10. Sound(e, d)
  BY <1>1, <1>3, <1>4, <1>7, ZenonT(30) DEF Sound
<1>11. \A o \in OutPoints : Look(e, d)[o] = IF e[o].in THEN e[o].coin ELSE d[o]
  BY <1>8, <1>9, LookFacts, ZenonT(30)
<1>12. Look(e, d) \in UtxoMaps /\ Look(c, base) \in UtxoMaps
  BY <1>8, <1>9, LookFacts, ZenonT(30)
<1>13. \A o \in OutPoints : Look(e, d)[o] = Look(c, base)[o]
  BY <1>2, <1>3, <1>4, <1>5, <1>7, <1>11, ZenonT(30)
<1>14. Look(e, d) = Look(c, base)
  BY <1>12, <1>13 DEF UtxoMaps
<1>15. \A o \in OutPoints : d[o] \in {base[o], Look(c, base)[o]}
  BY <1>2, <1>5, <1>7, ZenonT(30)
<1> QED BY <1>6, <1>8, <1>9, <1>10, <1>14, <1>15, ZenonT(30) DEF d, e, p

\* Startup on a consistent database.
LEMMA StartConsistentKeeps == ASSUME IInv, StartConsistent PROVE CoinsInv'
<1> USE DEF IInv, CoinsInv
<1>1. /\ phase = "off" /\ heads = <<>> /\ phase' = "run" /\ tip' = IF best = None THEN Genesis ELSE best
      /\ mem' = index \cup {Genesis}
      /\ UNCHANGED <<db, best, heads, mwebDb, index, undo, cache>>
  BY ZenonT(30) DEF StartConsistent, disk
<1>2. tip' \in Blocks /\ Path[tip'] \subseteq mem' /\ UtxoAt[tip'] = UtxoAt[best]
  <2>1. Path[Genesis] = {Genesis} /\ UtxoAt[Genesis] = UtxoAt[None]
    BY PathStep, UtxoFacts, TreeAssumption, ZenonT(30)
  <2> QED BY <1>1, <2>1, TreeAssumption, ZenonT(30) DEF IndexInv, CoinsType, Maybe
<1>3. CoinsType'
  BY <1>1, <1>2, TreeAssumption, ZenonT(30) DEF CoinsType, Maybe
<1>4. IndexInv'
  BY <1>1, <1>2, ZenonT(30) DEF IndexInv
<1>5. DiskInv'
  BY <1>1, ZenonT(30) DEF DiskInv
<1>6. CacheInv'
  <2>1. Sound(EmptyCache, db) /\ Look(EmptyCache, db) = db
    BY EmptyFacts, ZenonT(30) DEF CoinsType
  <2> QED BY <1>1, <1>2, <2>1, ZenonT(30) DEF CacheInv, DiskInv
<1> QED BY <1>3, <1>4, <1>5, <1>6 DEF CoinsInv

\* What an interrupted flush leaves can be replayed.
LEMMA ReplayPossible == ASSUME IInv, heads # <<>> PROVE Replaying
<1>1. db \in UtxoMaps /\ heads[1] \in Blocks /\ heads[2] \in Maybe(Blocks)
  BY ZenonT(30) DEF IInv, CoinsInv, CoinsType
<1>2. \A b \in Path[heads[2]] \ {Genesis} : undo[b] = UndoOf(b)
  BY DEF IInv, CoinsInv, IndexInv
<1>3. Near(db, UtxoAt[heads[2]], UtxoAt[heads[1]], OutPoints)
  BY ZenonT(30) DEF IInv, CoinsInv, DiskInv, Near
<1> QED BY <1>1, <1>2, <1>3, ZenonT(30) DEF Replaying

\* Startup after an interrupted flush, up to the flush of the replayed coins.
LEMMA StartReplayKeeps == ASSUME IInv, StartReplay PROVE CoinsInv'
<1> USE DEF IInv, CoinsInv
<1>1. /\ phase = "off" /\ heads # <<>> /\ phase' = "flush" /\ tip' = heads[1]
      /\ cache' = ReplayedCache /\ mem' = index
      /\ UNCHANGED <<db, best, heads, mwebDb, index, undo>>
  BY DEF StartReplay, disk
<1>2. /\ ReplayedCache \in Caches /\ Sound(ReplayedCache, db)
      /\ Look(ReplayedCache, db) = UtxoAt[heads[1]]
  BY <1>1, ReplayPossible, ReplayFacts, ZenonT(30)
<1>3. CoinsType'
  BY <1>1, <1>2, ZenonT(30) DEF CoinsType, Maybe
<1>4. IndexInv'
  BY <1>1, ZenonT(30) DEF IndexInv, CoinsType
<1>5. DiskInv'
  BY <1>1, ZenonT(30) DEF DiskInv
<1>6. CacheInv'
  BY <1>1, <1>2, ZenonT(30) DEF CacheInv
<1> QED BY <1>3, <1>4, <1>5, <1>6 DEF CoinsInv

\* ConnectTip on a block whose parent is the tip.
LEMMA ConnectTipKeeps == ASSUME IInv, NEW b \in Blocks, ConnectTip(b) PROVE CoinsInv'
<1> USE DEF IInv, CoinsInv
<1> DEFINE coins == Look(cache, db)
           fetched == Fetched(cache, db, AllIns(b) \cup AllOuts(b))
           view == ConnectBlock(EmptyCache, coins, b)
<1>1. /\ phase = "run" /\ b # Genesis /\ Parent[b] = tip /\ cache' = BatchWrite(fetched, view)
      /\ undo' = IF b \in mem THEN undo ELSE [undo EXCEPT ![b] = BlockUndo(EmptyCache, coins, b)]
      /\ mem' = mem \cup {b} /\ tip' = b
      /\ UNCHANGED <<db, best, heads, mwebDb, index, phase>>
  BY ZenonT(30) DEF ConnectTip
<1>2. /\ cache \in Caches /\ db \in UtxoMaps /\ Sound(cache, db) /\ coins = UtxoAt[Parent[b]]
  BY <1>1, ZenonT(30) DEF CoinsType, CacheInv
<1>3. view \in Caches /\ Sound(view, coins) /\ Look(view, coins) = UtxoAt[b] /\ BlockUndo(EmptyCache, coins, b) = UndoOf(b)
  <2> HIDE DEF coins
  <2> QED BY <1>1, <1>2, ConnectBlockFacts, ZenonT(30)
<1>4. AllIns(b) \cup AllOuts(b) \in SUBSET OutPoints
  BY TxFacts, ZenonT(30) DEF AllIns, AllOuts
<1>5. fetched \in Caches /\ Sound(fetched, db) /\ Look(fetched, db) = coins
  BY <1>2, <1>4, FetchedFacts, ZenonT(30)
<1> HIDE DEF coins, fetched, view
<1>6. cache' \in Caches /\ Sound(cache', db) /\ Look(cache', db) = UtxoAt[b]
  <2>1. Sound(view, Look(fetched, db))
    BY <1>3, <1>5, ZenonT(30)
  <2>2. /\ BatchWrite(fetched, view) \in Caches /\ Sound(BatchWrite(fetched, view), db)
        /\ Look(BatchWrite(fetched, view), db) = Look(view, Look(fetched, db))
    BY <1>2, <1>3, <1>5, <2>1, BatchWriteFacts, ZenonT(30)
  <2> QED BY <1>1, <1>3, <1>5, <2>2, ZenonT(30)
<1>7. DOMAIN undo' = Blocks /\ \A x \in Blocks : undo'[x] = IF x = b /\ b \notin mem THEN UndoOf(b) ELSE undo[x]
  BY <1>1, <1>3, ZenonT(30) DEF CoinsType
<1>8. CoinsType'
  BY <1>1, <1>6, <1>7, ZenonT(30) DEF CoinsType, Maybe
<1>9. IndexInv'
  <2>1. Path[b] = {b} \cup Path[tip] /\ Path[tip] \subseteq mem /\ index \subseteq mem /\ mem \subseteq Blocks
    BY <1>1, PathStep, ZenonT(30) DEF IndexInv, CoinsType
  <2>2. \A x \in (mem' \cup index) \ {Genesis} : undo'[x] = UndoOf(x)
    BY <1>1, <1>7, <2>1, ZenonT(30) DEF IndexInv
  <2> QED BY <1>1, <2>1, <2>2, ZenonT(30) DEF IndexInv
<1>10. DiskInv'
  BY <1>1 DEF DiskInv
<1>11. CacheInv'
  BY <1>1, <1>6, ZenonT(30) DEF CacheInv
<1> QED BY <1>8, <1>9, <1>10, <1>11, ZenonT(30)

\* DisconnectTip.
LEMMA DisconnectTipKeeps == ASSUME IInv, DisconnectTip PROVE CoinsInv'
<1> USE DEF IInv, CoinsInv
<1> DEFINE coins == Look(cache, db)
           fetched == Fetched(cache, db, AllIns(tip) \cup AllOuts(tip))
           view == DisconnectBlock(EmptyCache, coins, tip)
<1>1. /\ phase = "run" /\ tip # Genesis /\ cache' = BatchWrite(fetched, view) /\ tip' = Parent[tip]
      /\ UNCHANGED <<db, best, heads, mwebDb, index, undo, phase, mem>>
  BY ZenonT(30) DEF DisconnectTip, disk
<1>2. /\ cache \in Caches /\ db \in UtxoMaps /\ Sound(cache, db) /\ coins = UtxoAt[tip]
      /\ tip \in Blocks /\ Path[tip] \subseteq mem
  BY <1>1, ZenonT(30) DEF CoinsType, CacheInv, IndexInv
<1>3. undo[tip] = UndoOf(tip) /\ Parent[tip] \in Blocks /\ Path[Parent[tip]] \subseteq Path[tip]
  <2>1. tip \in mem
    BY <1>2, PathHasSelf, ZenonT(30)
  <2>2. undo[tip] = UndoOf(tip)
    BY <1>1, <2>1, ZenonT(30) DEF IndexInv
  <2>3. Parent[tip] \in Blocks
    BY <1>1, <1>2, TreeAssumption, ZenonT(30)
  <2>4. Path[Parent[tip]] \subseteq Path[tip]
    BY <1>2, PathStep, ZenonT(30)
  <2> QED BY <2>2, <2>3, <2>4, ZenonT(30)
<1>4. view \in Caches /\ Sound(view, coins) /\ Look(view, coins) = UtxoAt[Parent[tip]]
  <2> HIDE DEF coins
  <2> QED BY <1>1, <1>2, <1>3, DisconnectsCleanFacts, ZenonT(30)
<1>5. AllIns(tip) \cup AllOuts(tip) \in SUBSET OutPoints
  BY <1>2, TxFacts, ZenonT(30) DEF AllIns, AllOuts
<1>6. fetched \in Caches /\ Sound(fetched, db) /\ Look(fetched, db) = coins
  BY <1>2, <1>5, FetchedFacts, ZenonT(30)
<1> HIDE DEF coins, fetched, view
<1>7. cache' \in Caches /\ Sound(cache', db) /\ Look(cache', db) = UtxoAt[Parent[tip]]
  <2>1. Sound(view, Look(fetched, db)) /\ Look(view, Look(fetched, db)) = UtxoAt[Parent[tip]]
    BY <1>4, <1>6, ZenonT(30)
  <2>2. /\ BatchWrite(fetched, view) \in Caches /\ Sound(BatchWrite(fetched, view), db)
        /\ Look(BatchWrite(fetched, view), db) = UtxoAt[Parent[tip]]
    <3>1. fetched \in Caches /\ view \in Caches /\ db \in UtxoMaps /\ Sound(fetched, db)
      BY <1>2, <1>4, <1>6, ZenonT(30)
    <3> QED BY <2>1, <3>1, BatchWriteFacts, ZenonT(30)
  <2> QED BY <1>1, <2>2, ZenonT(30)
<1>8. CoinsType'
  BY <1>1, <1>3, <1>7, ZenonT(30) DEF CoinsType, Maybe
<1>9. IndexInv'
  BY <1>1, <1>2, <1>3, ZenonT(30) DEF IndexInv
<1>10. DiskInv'
  BY <1>1, ZenonT(30) DEF DiskInv
<1>11. CacheInv'
  BY <1>1, <1>7, ZenonT(30) DEF CacheInv
<1> QED BY <1>8, <1>9, <1>10, <1>11

\* The block index is written, before a flush of the coins or by itself.
LEMMA WriteIndexKeeps == ASSUME IInv, WriteIndex \/ BeginFlush PROVE CoinsInv'
<1> USE DEF IInv, CoinsInv
<1>1. /\ phase = "run" /\ phase' \in {"run", "flush"} /\ index' = mem
      /\ UNCHANGED <<db, best, heads, undo, tip, cache, mem>>
  BY ZenonT(30) DEF WriteIndex, BeginFlush, memory
<1>2. CoinsType'
  BY <1>1 DEF CoinsType
<1>3. IndexInv'
  <2>1. tip \in Blocks /\ Path[tip] \subseteq mem /\ index \subseteq mem
    BY <1>1, ZenonT(30) DEF IndexInv
  <2> QED BY <1>1, <2>1, ZenonT(30) DEF IndexInv
<1>4. DiskInv'
  BY <1>1, ZenonT(30) DEF DiskInv
<1>5. CacheInv'
  BY <1>1 DEF CacheInv
<1> QED BY <1>2, <1>3, <1>4, <1>5, ZenonT(30)

\* The process stops.
LEMMA CrashKeeps == ASSUME IInv, Crash PROVE CoinsInv'
<1> USE DEF IInv, CoinsInv
<1>1. /\ phase' = "off" /\ tip' = None /\ cache' = EmptyCache /\ mem' = {}
      /\ UNCHANGED <<db, best, heads, index, undo>>
  BY DEF Crash, NotRunning, disk
<1>2. EmptyCache \in Caches
  BY EmptyFacts DEF CoinsType
<1>3. CoinsType'
  BY <1>1, <1>2, ZenonT(30) DEF CoinsType, Maybe
<1>4. IndexInv' /\ DiskInv' /\ CacheInv'
  BY <1>1, ZenonT(30) DEF IndexInv, DiskInv, CacheInv
<1> QED BY <1>3, <1>4, ZenonT(30)

\* A partial batch: a coin that is written is the new tip's, a coin that is not
\* is what it was.
LEMMA PartialBatchCoins == ASSUME IInv, NEW S \in SUBSET OutPoints, PartialBatch(S) PROVE CoinsInv'
<1> USE DEF IInv, CoinsInv
<1>1. /\ phase = "flush" /\ S \subseteq Dirty(cache)
      /\ db' = DBWrite(db, Only(cache, S)) /\ cache' = Only(cache, OutPoints \ S)
      /\ best' = None /\ heads' = <<tip, OldTip>>
      /\ UNCHANGED <<index, undo, phase, tip, mem>>
  BY ZenonT(30) DEF PartialBatch, HeadBlocks
<1>2. /\ cache \in Caches /\ db \in UtxoMaps /\ Sound(cache, db) /\ Look(cache, db) = UtxoAt[tip]
      /\ tip \in Blocks /\ Path[tip] \subseteq index
  BY <1>1, ZenonT(30) DEF CoinsType, CacheInv, IndexInv
<1>3. /\ db' \in UtxoMaps /\ cache' \in Caches /\ Sound(cache', db')
      /\ Look(cache', db') = UtxoAt[tip]
      /\ \A o \in OutPoints : db'[o] \in {db[o], UtxoAt[tip][o]}
  BY <1>1, <1>2, BatchFacts, ZenonT(30)
<1>4. heads'[1] = tip /\ heads'[2] = OldTip /\ heads' # <<>>
  BY <1>1
<1>5. /\ OldTip \in Maybe(Blocks) /\ Path[OldTip] \subseteq index
      /\ \A o \in OutPoints : db[o] = UtxoAt[OldTip][o] \/ db[o] = UtxoAt[tip][o]
  <2>1. CASE heads = <<>>
    <3>1. OldTip = best
      BY <2>1, ZenonT(30) DEF OldTip
    <3> QED BY <2>1, <3>1, PathStep, ZenonT(30) DEF CoinsType, IndexInv, DiskInv
  <2>2. CASE heads # <<>>
    <3>1. best = None /\ tip = heads[1] /\ OldTip = heads[2]
      BY <1>1, <2>2, ZenonT(30) DEF OldTip, Transition
    <3> QED BY <2>2, <3>1, ZenonT(30) DEF CoinsType, IndexInv, DiskInv
  <2> QED BY <2>1, <2>2, ZenonT(30)
<1>6. CoinsType'
  BY <1>1, <1>2, <1>3, <1>4, <1>5, ZenonT(30) DEF CoinsType, Maybe
<1>7. IndexInv'
  BY <1>1, <1>2, <1>4, <1>5, ZenonT(30) DEF IndexInv
<1>8. DiskInv'
  <2>1. \A o \in OutPoints : db'[o] = UtxoAt[OldTip][o] \/ db'[o] = UtxoAt[tip][o]
    BY <1>3, <1>5, ZenonT(30)
  <2> QED BY <1>4, <2>1, ZenonT(30) DEF DiskInv
<1>9. CacheInv'
  BY <1>1, <1>3, ZenonT(30) DEF CacheInv
<1> QED BY <1>6, <1>7, <1>8, <1>9, ZenonT(30)

\* The last batch.
LEMMA FinalBatchKeeps == ASSUME IInv, FinalBatch PROVE CoinsInv'
<1> USE DEF IInv, CoinsInv
<1>1. /\ phase = "flush" /\ phase' = "run" /\ db' = DBWrite(db, cache) /\ cache' = EmptyCache
      /\ best' = tip /\ heads' = <<>> /\ UNCHANGED <<index, undo, tip, mem>>
  BY DEF FinalBatch
<1>2. /\ cache \in Caches /\ db \in UtxoMaps /\ Sound(cache, db) /\ Look(cache, db) = UtxoAt[tip]
      /\ tip \in Blocks /\ Path[tip] \subseteq index /\ UtxoAt[tip] \in UtxoMaps
  BY <1>1, UtxoFacts, ZenonT(30) DEF CoinsType, CacheInv, IndexInv
<1>3. db' = UtxoAt[tip]
  <2>1. {} \in SUBSET Dirty(cache)
    OBVIOUS
  <2> QED BY <1>1, <1>2, <2>1, BatchFacts, ZenonT(30)
<1>4. EmptyCache \in Caches /\ Sound(EmptyCache, db') /\ Look(EmptyCache, db') = db'
  BY <1>2, <1>3, EmptyFacts, ZenonT(30)
<1>5. CoinsType'
  BY <1>1, <1>2, <1>3, <1>4, ZenonT(30) DEF CoinsType, Maybe
<1>6. IndexInv'
  BY <1>1, <1>2, ZenonT(30) DEF IndexInv
<1>7. DiskInv' /\ CacheInv'
  BY <1>1, <1>3, <1>4, ZenonT(30) DEF DiskInv, CacheInv
<1> QED BY <1>5, <1>6, <1>7, ZenonT(30)

\* A batch of a flush that continues a transition keeps both its ends.
LEMMA PartialBatchKeeps ==
  ASSUME Transition, NEW S \in SUBSET OutPoints, PartialBatch(S)
  PROVE  Transition' /\ (heads # <<>> => heads' = heads)
<1>1. /\ phase = "flush" /\ phase' = phase /\ tip' = tip
      /\ best' = None /\ heads' = <<tip, OldTip>>
  BY DEF PartialBatch, HeadBlocks
<1>2. heads # <<>> => heads' = heads
  <2> SUFFICES ASSUME heads # <<>> PROVE heads' = heads
    OBVIOUS
  <2>1. best = None /\ tip = heads[1] /\ heads = <<heads[1], heads[2]>>
    BY <1>1 DEF Transition
  <2>2. OldTip = heads[2]
    BY <2>1 DEF OldTip
  <2> QED BY <1>1, <2>1, <2>2, ZenonT(30)
<1>3. Transition'
  <2>1. heads'[1] = tip /\ heads'[2] = OldTip
    BY <1>1
  <2> QED BY <1>1, <2>1, ZenonT(30) DEF Transition
<1> QED BY <1>2, <1>3, ZenonT(30)

\* Every step keeps the shape of a transition, and one that lasts keeps its ends.
LEMMA StepKeeps ==
  ASSUME Transition, [Next]_vars
  PROVE  Transition' /\ (heads # <<>> /\ heads' # <<>> => heads' = heads)
<1>1. CASE StartConsistent
  BY <1>1, ZenonT(30) DEF StartConsistent, Transition, disk
<1>2. CASE StartReplay
  BY <1>2 DEF StartReplay, Transition, disk
<1>3. CASE Crash
  BY <1>3, ZenonT(30) DEF Crash, NotRunning, Transition, disk
<1>4. ASSUME NEW b \in Blocks, ConnectTip(b)
      PROVE  Transition' /\ heads' = heads
  BY <1>4, ZenonT(30) DEF ConnectTip, Transition
<1>5. CASE DisconnectTip
  BY <1>5, ZenonT(30) DEF DisconnectTip, Transition, disk
<1>6. CASE WriteIndex
  BY <1>6, ZenonT(30) DEF WriteIndex, Transition, memory
<1>7. CASE BeginFlush
  BY <1>7, ZenonT(30) DEF BeginFlush, Transition
<1>8. CASE FinalBatch
  BY <1>8, ZenonT(30) DEF FinalBatch, Transition
<1>9. CASE UNCHANGED vars
  BY <1>9, ZenonT(30) DEF vars, disk, memory, Transition
<1> QED BY <1>1, <1>2, <1>3, <1>4, <1>5, <1>6, <1>7, <1>8, <1>9, PartialBatchKeeps, ZenonT(30) DEF Next

\* The inductive invariant: a step of the node keeps IInv.
LEMMA IInvStep == ASSUME IInv, [Next]_vars PROVE IInv'
<1>1. Transition'
  BY StepKeeps DEF IInv
<1>2. CASE UNCHANGED vars
  BY <1>2, ZenonT(30) DEF IInv, Transition, CoinsInv, CoinsType, IndexInv, DiskInv, CacheInv, vars, disk, memory
<1>3. CASE Next
  <2>1. CoinsInv'
    BY <1>3, StartConsistentKeeps, StartReplayKeeps, CrashKeeps, ConnectTipKeeps, DisconnectTipKeeps,
       WriteIndexKeeps, FinalBatchKeeps, PartialBatchCoins, ZenonT(30) DEF Next
  <2> QED BY <1>1, <2>1, ZenonT(30) DEF IInv
<1> QED BY <1>2, <1>3, ZenonT(30)

\* A new data directory.
LEMMA IInvInit == ASSUME Init PROVE IInv
<1>1. UtxoAt[None] = [o \in OutPoints |-> Spent] /\ [o \in OutPoints |-> Spent] \in UtxoMaps
  BY UtxoFacts, TreeAssumption, ZenonT(30)
<1>2. EmptyCache \in Caches
  BY <1>1, EmptyFacts, ZenonT(30)
<1> QED BY <1>1, <1>2, ZenonT(30) DEF Init, IInv, CoinsInv, Transition, CoinsType, IndexInv, DiskInv, CacheInv, Maybe

\* What the invariant says of the four properties.
LEMMA IInvMeans == ASSUME IInv PROVE CoinsAtTip /\ DiskIsRecoverable /\ StartNeverFails /\ TipDisconnects
<1> USE DEF IInv, CoinsInv
<1>1. CoinsAtTip
  BY DEF CacheInv, CoinsAtTip
<1>2. DiskIsRecoverable
  <2>1. heads # <<>> => Look(ReplayedCache, db) = UtxoAt[heads[1]]
    BY ReplayPossible, ReplayFacts, ZenonT(30)
  <2> QED BY <2>1 DEF DiskInv, DiskIsRecoverable
<1>3. StartNeverFails
  <2>1. ASSUME heads # <<>>, heads[2] # None, NEW b \in Path[heads[2]] \ Path[Fork]
        PROVE  DOMAIN undo[b] = DOMAIN Txs[b]
    <3>1. Genesis \in Path[Fork]
      BY <2>1, ReplayPossible, ForkFacts, PathHasSelf, ZenonT(30)
    <3>2. undo[b] = UndoOf(b)
      BY <2>1, <3>1 DEF IndexInv
    <3> QED BY <3>2, ZenonT(30) DEF UndoOf
  <2> QED BY <2>1 DEF StartNeverFails, CanStart, IndexInv
<1>4. TipDisconnects
  <2> SUFFICES ASSUME phase = "run", tip # Genesis PROVE DisconnectsClean(EmptyCache, Look(cache, db), tip)
    BY ZenonT(30) DEF TipDisconnects
  <2>1. tip \in Blocks /\ Look(cache, db) = UtxoAt[tip]
    BY ZenonT(30) DEF IndexInv, CacheInv
  <2>2. undo[tip] = UndoOf(tip)
    BY <2>1, PathHasSelf, ZenonT(30) DEF IndexInv
  <2> QED BY <2>1, <2>2, DisconnectsCleanFacts, ZenonT(30)
<1> QED BY <1>1, <1>2, <1>3, <1>4, ZenonT(30)

-----------------------------------------------------------------------------
\* The invariant that the four results below rest on: every coin on disk is the
\* one of the best block or of one of the two heads of an unfinished flush, the
\* block index on disk knows those blocks with their ancestors and undo data, and
\* a process sees the coins of its tip through a cache whose flags are true of
\* the database, also in the middle of its flush.
THEOREM InvariantHolds == Spec => []IInv
<1>1. Init => IInv
  BY IInvInit, ZenonT(30)
<1>2. IInv /\ [Next]_vars => IInv'
  BY IInvStep
<1> QED BY <1>1, <1>2, PTL DEF Spec

\* A running node's coins are the UTXO set of its tip, whatever blocks were
\* connected and disconnected and wherever it was stopped (CoinsTip() after
\* ActivateBestChain, FlushStateToDisk and ReplayBlocks).
THEOREM CoinsAreAtTip == Spec => []CoinsAtTip
<1>1. IInv => CoinsAtTip
  BY IInvMeans, ZenonT(30)
<1> QED BY <1>1, InvariantHolds, PTL

\* At every moment, what ReplayBlocks would make of the database is the UTXO set
\* of the block the database was being moved to.
THEOREM DiskRecovers == Spec => []DiskIsRecoverable
<1>1. IInv => DiskIsRecoverable
  BY IInvMeans, ZenonT(30)
<1> QED BY <1>1, InvariantHolds, PTL

\* ReplayBlocks and LoadChainTip find every block and the undo data they ask for,
\* because FlushStateToDisk writes the block index before the coins.
THEOREM StartSucceeds == Spec => []StartNeverFails
<1>1. IInv => StartNeverFails
  BY IInvMeans, ZenonT(30)
<1> QED BY <1>1, InvariantHolds, PTL

\* DisconnectBlock on the tip of a running node returns DISCONNECT_OK.
THEOREM TipAlwaysDisconnects == Spec => []TipDisconnects
<1>1. IInv => TipDisconnects
  BY IInvMeans
<1> QED BY <1>1, InvariantHolds, PTL

\* Once the first batch of a flush has recorded where it comes from and where it
\* goes (CCoinsViewDB::BatchWrite), every later batch, replay and interrupted
\* replay keeps both ends until the last batch erases them.
THEOREM TransitionKept == Spec => TransitionIsKept
<1>1. Init => Transition
  BY ZenonT(30) DEF Init, Transition
<1>2. Transition /\ [Next]_vars => Transition' /\ [heads # <<>> /\ heads' # <<>> => heads' = heads]_vars
  BY StepKeeps, ZenonT(30)
<1> QED BY <1>1, <1>2, PTL DEF Spec, TransitionIsKept

\* BatchWrite's assertion and ReplayBlocks rely on it: a database in transition
\* has no best block, so a node never runs on it without a replay.
THEOREM NeverRunsInTransition == Spec => [](heads # <<>> => best = None /\ phase # "run")
<1>1. Init => Transition
  BY DEF Init, Transition
<1>2. Transition /\ [Next]_vars => Transition'
  BY StepKeeps, ZenonT(30)
<1>3. Transition => (heads # <<>> => best = None /\ phase # "run")
  BY DEF Transition
<1> QED BY <1>1, <1>2, <1>3, PTL DEF Spec
=====
