----------------------------- MODULE TxRequest -----------------------------
(***************************************************************************)
(* Which transaction is asked from which peer: the TxRequestTracker of     *)
(* txrequest.cpp, driven by the handlers of PeerManager (net_processing).  *)
(*                                                                         *)
(* The tracker is kept as one row of announcements per txhash.  What the   *)
(* code reads off the order of its ByTxHash index (delayed, ready by       *)
(* priority, best, requested, completed) is a question about the row here. *)
(* m_peerinfo and m_sequence are not state: the first is a count over the  *)
(* rows, the second only orders the entries of one getdata message.        *)
(* What AlreadyHaveTx answers changes at any time (blocks, transactions of *)
(* the wallet, evictions, resets of its filters): either answer is taken.  *)
(*                                                                         *)
(* The handlers run under cs_main.  GetRequestable's loop over the expired *)
(* and due announcements is one action per iteration; no other handler     *)
(* runs before it ends.  Times are relative to the latest clock reading;   *)
(* the clock may be set back by at most MaxLag below that.                 *)
(***************************************************************************)
EXTENDS Integers, FiniteSets

CONSTANTS
  Peer,                \* NodeIds; never reused after a disconnection
  TxHash,              \* txids and wtxids
  Txs,                 \* transactions, as pairs <<txid, wtxid>>
  Missing,             \* Missing[tx]: the txids of parents the node may lack
  Announcers,          \* Announcers[h]: the peers that may announce h
  Senders,             \* the peers that may send transactions
  Preferred,           \* peers with fPreferredDownload
  WtxidRelay,          \* peers with m_wtxid_relay
  Relay,               \* peers with permission PF_RELAY
  LowBits, TopBit,     \* see Priority
  MaxLag,
  NONPREF_PEER_TX_DELAY, TXID_RELAY_DELAY, OVERLOADED_PEER_TX_DELAY,
  GETDATA_TX_INTERVAL,
  MAX_PEER_TX_ANNOUNCEMENTS, MAX_PEER_TX_REQUEST_IN_FLIGHT

VARIABLES
  ann,         \* ann[h][p]: state of the announcement of h by p
  time,        \* time[h][p]: reqtime of a candidate, expiry of a request
  lag,         \* how far the clock is behind its latest reading
  connected,   \* peers with a CNodeState
  sending      \* the peer whose SendMessages is in GetRequestable, or nobody

vars == <<ann, time, lag, connected, sending>>

States == {"NONE", "DELAYED", "READY", "BEST", "REQUESTED", "COMPLETED"}

MaxDelay == NONPREF_PEER_TX_DELAY + TXID_RELAY_DELAY + OVERLOADED_PEER_TX_DELAY

nobody == "nobody"

ASSUME TxRequestAssumptions ==
  /\ nobody \notin Peer
  /\ IsFiniteSet(Peer)
  /\ Preferred \subseteq Peer
  /\ {TopBit, MaxLag, GETDATA_TX_INTERVAL, NONPREF_PEER_TX_DELAY,
      TXID_RELAY_DELAY, OVERLOADED_PEER_TX_DELAY} \subseteq Nat
  /\ LowBits \in [TxHash -> [Peer -> 0 .. TopBit - 1]]
  /\ Announcers \in [TxHash -> SUBSET Peer]
  /\ Txs \subseteq TxHash \X TxHash
  /\ Missing \in [Txs -> SUBSET TxHash]

Now == -lag

\* The preferred bit is the highest one, the salted hash fills the others.
Priority(h, p) == LowBits[h][p] + (IF p \in Preferred THEN TopBit ELSE 0)

Selected(row) == {p \in Peer : row[p] \in {"BEST", "REQUESTED"}}

Ready(row) == {p \in Peer : row[p] = "READY"}

Waiting == {"DELAYED", "REQUESTED"}

Selectable == {"READY", "BEST"}

\* The states whose time is looked at.
Timed == Waiting \cup Selectable

Nobody == [p \in Peer |-> "NONE"]

----------------------------------------------------------------------------
(* The operations of TxRequestTracker::Impl on the row of one txhash.      *)

\* The new READY one looks at its successor in the ByTxHash index: a READY one
\* of higher priority, the selected one, or neither.
PromoteCandidateReady(h, row, p) ==
  LET ready == [row EXCEPT ![p] = "READY"]
      beats(q) == Priority(h, p) > Priority(h, q)
  IN  IF \E q \in Ready(row) : ~beats(q) THEN ready
      ELSE IF Selected(row) = {} THEN [row EXCEPT ![p] = "BEST"]
      ELSE IF \E q \in Peer : row[q] = "BEST" /\ beats(q)
      THEN [q \in Peer |-> IF q = p THEN "BEST"
                           ELSE IF row[q] = "BEST" THEN "READY" ELSE row[q]]
      ELSE ready

\* The READY announcement next to the selected one in the ByTxHash index.
BestReady(h, row) ==
  CHOOSE p \in Ready(row) : \A q \in Ready(row) : Priority(h, q) <= Priority(h, p)

\* MUTANT: nobody takes over the choice.
ChangeWithoutReselect(h, row, p, new) == [row EXCEPT ![p] = new]

ChangeAndReselect(h, row, p, new) ==
  IF p \in Selected(row) /\ Ready(row) # {}
  THEN [row EXCEPT ![BestReady(h, row)] = "BEST", ![p] = new]
  ELSE [row EXCEPT ![p] = new]

IsOnlyNonCompleted(row, p) ==
  \A q \in Peer \ {p} : row[q] \in {"NONE", "COMPLETED"}

\* MUTANT: a failed announcement is erased at once, so it can be repeated.
MakeErased(h, row, p) ==
  IF row[p] = "COMPLETED" THEN row
  ELSE IF IsOnlyNonCompleted(row, p) THEN Nobody
  ELSE ChangeAndReselect(h, row, p, "NONE")

MakeCompleted(h, row, p) ==
  IF row[p] = "COMPLETED" THEN row
  ELSE IF IsOnlyNonCompleted(row, p) THEN Nobody
  ELSE ChangeAndReselect(h, row, p, "COMPLETED")

DisconnectedPeer(h, row, p) ==
  IF row[p] = "NONE" THEN row
  ELSE [MakeCompleted(h, row, p) EXCEPT ![p] = "NONE"]

ReceivedInv(row, p) ==
  IF row[p] = "NONE" THEN [row EXCEPT ![p] = "DELAYED"] ELSE row

\* Called with a BEST announcement, or else with another candidate, which then
\* replaces the selected one.
RequestedTx(row, p) ==
  IF row[p] = "BEST" THEN [row EXCEPT ![p] = "REQUESTED"]
  ELSE IF row[p] \notin {"DELAYED", "READY"} THEN row
  ELSE [q \in Peer |-> IF q = p THEN "REQUESTED"
                       ELSE IF row[q] = "BEST" THEN "READY"
                       ELSE IF row[q] = "REQUESTED" THEN "COMPLETED" ELSE row[q]]

ReceivedResponse(h, row, p) ==
  IF row[p] = "NONE" THEN row ELSE MakeCompleted(h, row, p)

CountInFlight(a, p) == Cardinality({h \in TxHash : a[h][p] = "REQUESTED"})

Count(a, p) == Cardinality({h \in TxHash : a[h][p] # "NONE"})

----------------------------------------------------------------------------
(* The handlers of PeerManager.                                            *)

\* Announcements that have no time lose it.
SetTimes(t) ==
  time' = [h \in TxHash |-> [p \in Peer |->
             IF ann'[h][p] \in Timed THEN t[h][p] ELSE 0]]

\* AddTxAnnouncement on the rows a: whether p may announce more, and after
\* which delay p may be asked.
MayAnnounce(a, p) == p \in Relay \/ Count(a, p) < MAX_PEER_TX_ANNOUNCEMENTS

Delay(a, p, wtxid) ==
    (IF p \in Preferred THEN 0 ELSE NONPREF_PEER_TX_DELAY)
  + (IF ~wtxid /\ connected \cap WtxidRelay # {} THEN TXID_RELAY_DELAY ELSE 0)
  + (IF p \notin Relay /\ CountInFlight(a, p) >= MAX_PEER_TX_REQUEST_IN_FLIGHT
     THEN OVERLOADED_PEER_TX_DELAY ELSE 0)

Init ==
  /\ ann = [h \in TxHash |-> Nobody]
  /\ time = [h \in TxHash |-> [p \in Peer |-> 0]]
  /\ lag = 0
  /\ connected = Peer
  /\ sending = nobody

\* INV of a transaction the node does not have; the announcement is of the
\* kind the peer negotiated.
Inv(p, h) ==
  /\ sending = nobody /\ p \in connected /\ p \in Announcers[h]
  /\ MayAnnounce(ann, p) /\ ann[h][p] = "NONE"
  /\ ann' = [ann EXCEPT ![h] = ReceivedInv(@, p)]
  /\ SetTimes([time EXCEPT ![h][p] = Now + Delay(ann, p, p \in WtxidRelay)])
  /\ UNCHANGED <<lag, connected, sending>>

\* NOTFOUND.
NotFound(p, h) ==
  /\ sending = nobody /\ p \in connected /\ ann[h][p] # "NONE"
  /\ ann' = [ann EXCEPT ![h] = ReceivedResponse(h, @, p)]
  /\ SetTimes(time)
  /\ UNCHANGED <<lag, connected, sending>>

\* TX, asked for or not.  forgotten are the hashes not to be asked for again:
\* none when the node already had it or its witness was stripped, the wtxid
\* when it is invalid, both when it is accepted, an orphan, or never
\* acceptable.  A parent that an orphan lacks is announced by its txid in the
\* name of the peer.
Tx(p, tx, forgotten, parents) ==
  LET hashes == {tx[1], tx[2]}
      answered == [h \in TxHash |-> IF h \in hashes THEN ReceivedResponse(h, ann[h], p)
                                    ELSE ann[h]]
      added == {h \in parents : MayAnnounce(answered, p) /\ ann[h][p] = "NONE"}
  IN  /\ sending = nobody /\ p \in connected \cap Senders
      /\ parents # {} => forgotten = hashes
      /\ ann' = [h \in TxHash |-> IF h \in forgotten THEN Nobody
                                  ELSE IF h \in added THEN ReceivedInv(answered[h], p)
                                  ELSE answered[h]]
      /\ SetTimes([h \in TxHash |->
                     IF h \in added
                     THEN [time[h] EXCEPT ![p] = Now + Delay(answered, p, FALSE)]
                     ELSE time[h]])
      /\ UNCHANGED <<lag, connected, sending>>

\* BlockConnected, for one transaction of the block.
BlockConnected(tx) ==
  /\ sending = nobody
  /\ ann' = [h \in TxHash |-> IF h \in {tx[1], tx[2]} THEN Nobody ELSE ann[h]]
  /\ SetTimes(time)
  /\ UNCHANGED <<lag, connected, sending>>

FinalizeNode(p) ==
  /\ sending = nobody /\ p \in connected
  /\ connected' = connected \ {p}
  /\ ann' = [h \in TxHash |-> DisconnectedPeer(h, ann[h], p)]
  /\ SetTimes(time)
  /\ UNCHANGED <<lag, sending>>

\* SendMessages enters GetRequestable.
SendMessages(p) ==
  /\ sending = nobody /\ p \in connected
  /\ sending' = p
  /\ UNCHANGED <<ann, time, lag, connected>>

Expired(h, p) == ann[h][p] \in Waiting /\ time[h][p] <= Now

Early(h, p) == ann[h][p] \in Selectable /\ time[h][p] > Now

NoneExpired == \A h \in TxHash, p \in Peer : ~Expired(h, p)

NoneEarly == \A h \in TxHash, p \in Peer : ~Early(h, p)

\* SetTimePoint, an iteration of its first loop: the oldest waiting one.
SetTimePointForward(h, p) ==
  /\ sending # nobody /\ Expired(h, p)
  /\ \A i \in TxHash, q \in Peer : Expired(i, q) => time[h][p] <= time[i][q]
  /\ ann' = [ann EXCEPT ![h] = IF @[p] = "DELAYED" THEN PromoteCandidateReady(h, @, p)
                               ELSE MakeCompleted(h, @, p)]
  /\ SetTimes(time)
  /\ UNCHANGED <<lag, connected, sending>>

\* SetTimePoint, an iteration of its second loop: the latest selectable one.
SetTimePointBackward(h, p) ==
  /\ sending # nobody /\ NoneExpired /\ Early(h, p)
  /\ \A i \in TxHash, q \in Peer : Early(i, q) => time[h][p] >= time[i][q]
  /\ ann' = [ann EXCEPT ![h] = ChangeAndReselect(h, @, p, "DELAYED")]
  /\ SetTimes(time)
  /\ UNCHANGED <<lag, connected, sending>>

\* GetRequestable returns the BEST announcements of the peer.
GetRequestable(p) == {h \in TxHash : ann[h][p] = "BEST"}

\* MUTANT: GetRequestable does not call SetTimePoint first.
SendGetDataStale(had) ==
  /\ sending # nobody
  /\ LET asked == GetRequestable(sending)
     IN  /\ had \subseteq asked
         /\ ann' = [h \in TxHash |-> IF h \in had THEN Nobody
                                     ELSE IF h \in asked THEN RequestedTx(ann[h], sending)
                                     ELSE ann[h]]
         /\ SetTimes([h \in TxHash |->
                        IF h \in asked
                        THEN [time[h] EXCEPT ![sending] = Now + GETDATA_TX_INTERVAL]
                        ELSE time[h]])
  /\ sending' = nobody
  /\ UNCHANGED <<lag, connected>>

\* SendMessages asks for them, and forgets those it has by now.
SendGetData(had) ==
  /\ sending # nobody /\ NoneExpired /\ NoneEarly
  /\ LET asked == GetRequestable(sending)
     IN  /\ had \subseteq asked
         /\ ann' = [h \in TxHash |-> IF h \in had THEN Nobody
                                     ELSE IF h \in asked THEN RequestedTx(ann[h], sending)
                                     ELSE ann[h]]
         /\ SetTimes([h \in TxHash |->
                        IF h \in asked
                        THEN [time[h] EXCEPT ![sending] = Now + GETDATA_TX_INTERVAL]
                        ELSE time[h]])
  /\ sending' = nobody
  /\ UNCHANGED <<lag, connected>>

\* The clock advances.  A time MaxLag below the latest reading stays there: it
\* is in the past for good.
Tick ==
  /\ sending = nobody
  /\ IF lag > 0 THEN lag' = lag - 1 /\ UNCHANGED time
     ELSE /\ time' = [h \in TxHash |-> [p \in Peer |->
                        IF ann[h][p] \in Timed /\ time[h][p] > -MaxLag
                        THEN time[h][p] - 1 ELSE time[h][p]]]
          /\ UNCHANGED lag
  /\ UNCHANGED <<ann, connected, sending>>

\* The clock is set back.
SetBack ==
  /\ sending = nobody /\ lag < MaxLag
  /\ lag' \in lag + 1 .. MaxLag
  /\ UNCHANGED <<ann, time, connected, sending>>

Next ==
  \/ \E p \in Peer, h \in TxHash :
        \/ Inv(p, h) \/ NotFound(p, h)
        \/ SetTimePointForward(h, p) \/ SetTimePointBackward(h, p)
  \/ \E p \in Peer, tx \in Txs :
        \E forgotten \in {{}, {tx[2]}, {tx[1], tx[2]}},
           parents \in {{}} \cup {{h} : h \in Missing[tx]} : Tx(p, tx, forgotten, parents)
  \/ \E tx \in Txs : BlockConnected(tx)
  \/ \E p \in Peer : FinalizeNode(p) \/ SendMessages(p)
  \/ \E had \in SUBSET TxHash : SendGetData(had)
  \/ Tick \/ SetBack

\* Every connected peer gets its turn of the message handler, which finishes
\* its turns; the clock goes on.
Fairness ==
  /\ \A p \in Peer : SF_vars(SendMessages(p))
  /\ WF_vars(\/ \E had \in SUBSET TxHash : SendGetData(had)
             \/ \E h \in TxHash, p \in Peer :
                   SetTimePointForward(h, p) \/ SetTimePointBackward(h, p))
  /\ SF_vars(Tick)

Spec == Init /\ [][Next]_vars

FairSpec == Spec /\ Fairness

----------------------------------------------------------------------------

\* Type correctness.  Announcements belong to connected peers: FinalizeNode
\* asserts m_txrequest.Size() == 0 when the last peer is gone.
TypeOK ==
  /\ ann \in [TxHash -> [Peer -> States]]
  /\ time \in [TxHash -> [Peer -> Int]]
  /\ lag \in 0 .. MaxLag
  /\ connected \subseteq Peer
  /\ sending \in connected \cup {nobody}
  /\ \A h \in TxHash, p \in Peer : ann[h][p] # "NONE" => p \in connected

\* What SanityCheck asserts of the announcements of one txhash: they have not
\* all failed; at most one is selected; one is when another is ready, and it is
\* the best of them.
RowIsSane(h, row) ==
  /\ (\E p \in Peer : row[p] = "COMPLETED") =>
       \E p \in Peer : row[p] \notin {"NONE", "COMPLETED"}
  /\ \A p, q \in Selected(row) : p = q
  /\ Ready(row) # {} => Selected(row) # {}
  /\ \A p \in Peer, q \in Ready(row) :
       row[p] = "BEST" => Priority(h, q) <= Priority(h, p)

\* TxRequestTracker::Impl::SanityCheck, which only the tests call, holds after
\* every operation and every iteration of SetTimePoint.
SanityCheck == \A h \in TxHash : RowIsSane(h, ann[h])

\* The states the header of the tracker knows.
Status(row) ==
  [p \in Peer |-> IF row[p] \in {"DELAYED", "READY", "BEST"} THEN "CANDIDATE" ELSE row[p]]

Rules == INSTANCE TxRequestRules WITH
  status <- [h \in TxHash |-> Status(ann[h])], when <- time

\* The tracker keeps the rules of txrequest.h: a peer is asked for exactly the
\* transactions it is the best due candidate of, never while another request
\* for them is outstanding and never twice for one announcement, and failed
\* announcements are kept as long as they must be.
KeepsTheRules == Rules!Spec

\* Nobody is forgotten: a candidate announcement is asked for, answered or
\* dropped in the end, once the clock is no longer set back.  (SetTimePoint
\* moves the choice on when a request expires, MakeCompleted and
\* DisconnectedPeer when one ends otherwise.)
CandidatesSettle ==
  <>[](lag = 0) =>
    \A h \in TxHash, p \in Peer :
      (ann[h][p] \in {"DELAYED", "READY", "BEST"}) ~>
        (ann[h][p] \notin {"DELAYED", "READY", "BEST"})
=============================================================================
