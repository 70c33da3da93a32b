------------------------------ MODULE MwebView ------------------------------
(***************************************************************************)
(* The views of the extension block's outputs (libmw/src/node): the        *)
(* database view CoinsViewDB, the CoinsViewCache of the tip over it, and   *)
(* the temporary CoinsViewCache that a block is applied to or undone in.   *)
(* Each view has a best header, the coins (a cache keeps the list of       *)
(* actions on each output), the leaf set and the output PMMR.              *)
(*                                                                         *)
(* A cache is the record [hdr, upd, ls, mmr].  What a view answers is the  *)
(* record [coins, bytes, nodes]: the leaf of each unspent output, the      *)
(* bytes of the leaf set and the node hashes of the PMMR.                  *)
(***************************************************************************)
EXTENDS MMR

CONSTANTS Outputs,    \* output IDs
          None,       \* no UTXO, no header, no file
          ByteBits,   \* leaves per byte of the leaf set: 8 in the code
          MaxLeaves   \* bound on the leaves of the output PMMR

\* A CoinAction: the leaf of the UTXO that is added, or a spend.
Spend == [spend |-> TRUE, leaf |-> 0]
AddAt(leaf) == [spend |-> FALSE, leaf |-> leaf]

Bytes == 0..MaxLeaves \div ByteBits

NoBytes == [b \in Bytes |-> {}]

-----------------------------------------------------------------------------
\* CoinsViewCache::GetUTXO over the actions on one output: an add or a spend
\* replaces what the base answers.  The function asserts that they alternate.
GetUTXO(base, actions) ==
    IF actions = <<>> THEN base
    ELSE IF Last(actions).spend THEN None ELSE Last(actions).leaf

Alternate(base, actions) ==
    \A i \in DOMAIN actions :
       actions[i].spend <=> GetUTXO(base, SubSeq(actions, 1, i - 1)) # None

\* ILeafSet, through LeafSetCache::GetByte: ls.mod holds the modified bytes,
\* each the set of its bits that are 1.
LeafBytes(ls, base) == [b \in Bytes |-> IF b \in DOMAIN ls.mod THEN ls.mod[b] ELSE base[b]]

HasLeaf(bytes, leaf) == (leaf % ByteBits) \in bytes[leaf \div ByteBits]

SetByte(ls, b, value) ==
    [ls EXCEPT !.mod = [i \in DOMAIN ls.mod \cup {b} |-> IF i = b THEN value ELSE ls.mod[i]]]

LeafSetAdd(ls, base, leaf) ==
    LET b == leaf \div ByteBits IN
    [SetByte(ls, b, LeafBytes(ls, base)[b] \cup {leaf % ByteBits})
        EXCEPT !.next = IF leaf >= ls.next THEN leaf + 1 ELSE ls.next]

LeafSetRemove(ls, base, leaf) ==
    LET b == leaf \div ByteBits IN
    SetByte(ls, b, LeafBytes(ls, base)[b] \ {leaf % ByteBits})

\* The numbers from..to - 1, in order.
Upto(from, to) == [i \in 1..(IF to > from THEN to - from ELSE 0) |-> from + i - 1]

LeafSetRewind(ls, base, numLeaves, leavesToAdd) ==
    LET added == FoldLeft(LAMBDA s, leaf : LeafSetAdd(s, base, leaf), ls, leavesToAdd) IN
    [FoldLeft(LAMBDA s, leaf : LeafSetRemove(s, base, leaf), added, Upto(numLeaves, added.next))
        EXCEPT !.next = numLeaves]

\* ILeafSet::Root hashes the bytes up to the next leaf.
LeafSetRoot(bytes, next) == [i \in 1..(next + ByteBits - 1) \div ByteBits |-> bytes[i - 1]]

\* PMMRCache: leaves and nodes from leaf mmr.first on; the rest is the base's.
NumLeaves(mmr) == mmr.first + Len(mmr.leaves)

Nodes(mmr, base) == SubSeq(base, 1, LeafPosition(mmr.first)) \o mmr.nodes

MmrAdd(mmr, base, id) ==
    LET all == AddLeaf(Nodes(mmr, base), NumLeaves(mmr), id) IN
    [mmr EXCEPT !.leaves = Append(@, id),
                !.nodes = SubSeq(all, LeafPosition(mmr.first) + 1, Len(all))]

MmrRewind(mmr, numLeaves) ==
    IF numLeaves <= mmr.first
    THEN [first |-> numLeaves, leaves |-> <<>>, nodes |-> <<>>]
    ELSE [mmr EXCEPT !.leaves = SubSeq(@, 1, numLeaves - mmr.first),
                     !.nodes = SubSeq(@, 1, LeafPosition(numLeaves) - LeafPosition(mmr.first))]

\* The three answers of a cache over what its base answers.
Resolve(v, base) ==
    [coins |-> [o \in Outputs |-> GetUTXO(base.coins[o], v.upd[o])],
     bytes |-> LeafBytes(v.ls, base.bytes),
     nodes |-> Nodes(v.mmr, base.nodes)]

\* CoinsViewCache(pBase), for a base with the given header and next leaves.
NewCache(hdr, next, numLeaves) ==
    [hdr |-> hdr, upd |-> [o \in Outputs |-> <<>>],
     ls |-> [next |-> next, mod |-> <<>>],
     mmr |-> [first |-> numLeaves, leaves |-> <<>>, nodes |-> <<>>]]

-----------------------------------------------------------------------------
\* AddUTXO and SpendUTXO on acc = [ok, v, spent]; a throw leaves ok FALSE and
\* the caller drops the view.
AddUTXO(acc, base, id) ==
    LET v == acc.v IN
    IF ~acc.ok \/ GetUTXO(base.coins[id], v.upd[id]) # None
    THEN [acc EXCEPT !.ok = FALSE]
    ELSE LET leaf == NumLeaves(v.mmr) IN
         [acc EXCEPT !.v = [v EXCEPT !.mmr = MmrAdd(v.mmr, base.nodes, id),
                                     !.ls = LeafSetAdd(v.ls, base.bytes, leaf),
                                     !.upd[id] = Append(@, AddAt(leaf))]]

SpendUTXO(acc, base, id) ==
    LET v == acc.v
        leaf == GetUTXO(base.coins[id], v.upd[id]) IN
    IF ~acc.ok \/ leaf = None \/ ~HasLeaf(LeafBytes(v.ls, base.bytes), leaf)
    THEN [acc EXCEPT !.ok = FALSE]
    ELSE [ok |-> TRUE,
          v |-> [v EXCEPT !.ls = LeafSetRemove(v.ls, base.bytes, leaf),
                          !.upd[id] = Append(@, Spend)],
          spent |-> Append(acc.spent, [id |-> id, leaf |-> leaf])]

\* Mutant: inputs first.
ApplyBodyInputsFirst(v, base, ins, outs) ==
    FoldLeft(LAMBDA acc, id : AddUTXO(acc, base, id),
             FoldLeft(LAMBDA acc, id : SpendUTXO(acc, base, id), [ok |-> TRUE, v |-> v, spent |-> <<>>], ins),
             outs)

\* Outputs first, then inputs, as ApplyBlock and BuildNextBlock both do.
ApplyBody(v, base, ins, outs) ==
    FoldLeft(LAMBDA acc, id : SpendUTXO(acc, base, id),
             FoldLeft(LAMBDA acc, id : AddUTXO(acc, base, id), [ok |-> TRUE, v |-> v, spent |-> <<>>], outs),
             ins)

\* The three fields of a header that a view is compared with.
RootsOf(v, base) ==
    [num |-> NumLeaves(v.mmr),
     outputs |-> Root(Nodes(v.mmr, base.nodes), NumLeaves(v.mmr)),
     leafset |-> LeafSetRoot(LeafBytes(v.ls, base.bytes), v.ls.next)]

\* A block names the header it was built on: its kernel offset is the previous
\* one plus its own, so the kernel sums of ValidateForBlock balance only there.
ApplyBlock(v, base, blk) ==
    LET body == ApplyBody([v EXCEPT !.hdr = blk.hdr], base, blk.ins, blk.outs) IN
    [ok |-> v.hdr = blk.prev /\ body.ok /\ RootsOf(body.v, base) = blk.hdr.roots,
     v |-> body.v,
     undo |-> [prev |-> v.hdr, spent |-> body.spent, added |-> blk.outs]]

\* The roots BuildNextBlock puts in the header of a block with this body.
BuildNextBlock(v, base, ins, outs) == RootsOf(ApplyBody(v, base, ins, outs).v, base)

\* Mutant: the spent coins do not come back.
UndoUpdatesNoReadd(upd, undo) ==
    FoldLeft(LAMBDA u, id : [u EXCEPT ![id] = Append(@, Spend)], upd, undo.added)

\* Mutant: added coins go before the spent ones come back.
UndoUpdatesAddedFirst(upd, undo) ==
    LET remove == FoldLeft(LAMBDA u, id : [u EXCEPT ![id] = Append(@, Spend)], upd, undo.added) IN
    FoldLeft(LAMBDA u, c : [u EXCEPT ![c.id] = Append(@, AddAt(c.leaf))], remove, undo.spent)

\* The actions UndoBlock appends: spent coins come back, added ones go.
UndoUpdates(upd, undo) ==
    LET readd == FoldLeft(LAMBDA u, c : [u EXCEPT ![c.id] = Append(@, AddAt(c.leaf))], upd, undo.spent) IN
    FoldLeft(LAMBDA u, id : [u EXCEPT ![id] = Append(@, Spend)], readd, undo.added)

UndoBlock(v, base, undo) ==
    LET num == IF undo.prev = None THEN 0 ELSE undo.prev.roots.num
        leavesToAdd == IF undo.prev = None THEN <<>>
                       ELSE [i \in DOMAIN undo.spent |-> undo.spent[i].leaf]
        w == [hdr |-> undo.prev, upd |-> UndoUpdates(v.upd, undo),
              ls |-> LeafSetRewind(v.ls, base.bytes, num, leavesToAdd),
              mmr |-> MmrRewind(v.mmr, num)]
    IN  [ok |-> undo.prev # None => RootsOf(w, base) = undo.prev.roots, v |-> w]

-----------------------------------------------------------------------------
\* CoinsViewCache::Flush into a parent that is a cache itself: WriteBatch,
\* LeafSetCache::ApplyUpdates and PMMRCache::BatchWrite.  Without a header it
\* returns before any of them.
FlushToCache(parent, base, child) ==
    IF child.hdr = None THEN parent
    ELSE [hdr |-> child.hdr,
          upd |-> [o \in Outputs |-> parent.upd[o] \o child.upd[o]],
          ls |-> [next |-> child.ls.next,
                  mod |-> [b \in DOMAIN parent.ls.mod \cup DOMAIN child.ls.mod |->
                              IF b \in DOMAIN child.ls.mod THEN child.ls.mod[b] ELSE parent.ls.mod[b]]],
          mmr |-> FoldLeft(LAMBDA m, id : MmrAdd(m, base.nodes, id),
                           MmrRewind(parent.mmr, child.mmr.first), child.mmr.leaves)]

\* LeafSet::ApplyUpdates and LeafSet::Flush: the new file is the old one with
\* the modified bytes written over it and the bits above the new end cleared.
LeafSetFile(old, ls) ==
    LET bytes == LeafBytes(ls, old.bytes) IN
    [next |-> ls.next,
     bytes |-> [b \in Bytes |-> {i \in bytes[b] : b * ByteBits + i \notin ls.next..old.next - 1}]]

\* PMMR::BatchWrite and AppendOnlyFile::Commit.  File::Write opens the copy of
\* the old file with ios::app, so the bytes land behind its end whatever the
\* seek before asked for, and the file is then cut to the intended size.
MmrFile(old, mmr) ==
    SubSeq(old \o mmr.nodes, 1, LeafPosition(mmr.first) + Len(mmr.nodes))

\* CoinsViewDB::WriteBatch.
WriteCoins(coins, upd) == [o \in Outputs |-> GetUTXO(coins[o], upd[o])]
=============================================================================
