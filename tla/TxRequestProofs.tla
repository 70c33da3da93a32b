-------------------------- MODULE TxRequestProofs ---------------------------
(***************************************************************************)
(* SanityCheck and the rules of txrequest.h, for every finite set of peers *)
(* and every set of transactions.  The lemmas are about the operations on  *)
(* the row of one txhash; the theorems apply them to the handlers.         *)
(***************************************************************************)
EXTENDS TxRequest, FiniteSetTheorems, TLAPS

\* Leaves that name no prover: SMT, then Zenon, with time to spare.
USE SMTT(20), ZenonT(30)

Rows == [Peer -> States]

\* Priorities are integers.
LEMMA PriorityType ==
  ASSUME NEW h \in TxHash, NEW p \in Peer
  PROVE  Priority(h, p) \in Int
BY TxRequestAssumptions DEF Priority

\* A non-empty set of peers has one of highest priority: one above which there
\* are the fewest.
LEMMA BestExists ==
  ASSUME NEW h \in TxHash, NEW S \in SUBSET Peer, S # {}
  PROVE  \E p \in S : \A q \in S : Priority(h, q) <= Priority(h, p)
<1> DEFINE Above(p) == {q \in S : Priority(h, q) > Priority(h, p)}
           T == {Above(p) : p \in S}
<1>1. IsFiniteSet(S)
  BY FS_Subset, TxRequestAssumptions
<1>2. T \subseteq FiniteSubsetsOf(S) /\ T # {}
  <2>1. \A p \in S : Above(p) \in SUBSET S
    OBVIOUS
  <2>2. \A p \in S : IsFiniteSet(Above(p))
    BY <1>1, <2>1, FS_Subset
  <2> QED BY <2>1, <2>2, Zenon DEF FiniteSubsetsOf
<1>3. PICK m \in T : \A t \in T : ~(<<t, m>> \in StrictSubsetOrdering(S))
  BY <1>2, FS_StrictSubsetOrderingWellFounded, WFMin, Zenon
<1>4. PICK p \in S : m = Above(p)
  OBVIOUS
<1>5. ASSUME NEW q \in S, Priority(h, q) > Priority(h, p) PROVE FALSE
  <2>1. Above(q) \in T /\ Above(q) \subseteq Above(p)
    BY <1>5, PriorityType
  <2>2. q \in Above(p) /\ q \notin Above(q)
    BY <1>5, PriorityType
  <2> QED BY <1>3, <1>4, <2>1, <2>2, Zenon DEF StrictSubsetOrdering
<1> QED BY <1>5, PriorityType

\* The CHOOSE of BestReady.
LEMMA BestReadyFacts ==
  ASSUME NEW h \in TxHash, NEW row \in Rows, Ready(row) # {}
  PROVE  /\ BestReady(h, row) \in Ready(row)
         /\ \A q \in Ready(row) : Priority(h, q) <= Priority(h, BestReady(h, row))
<1>1. Ready(row) \in SUBSET Peer
  BY DEF Ready
<1>2. \E p \in Ready(row) : \A q \in Ready(row) : Priority(h, q) <= Priority(h, p)
  BY <1>1, BestExists
<1> QED BY <1>2 DEF BestReady

\* Nobody announces.
LEMMA NobodyIsSane ==
  ASSUME NEW h \in TxHash
  PROVE  Nobody \in Rows /\ RowIsSane(h, Nobody)
BY DEF Nobody, Rows, States, RowIsSane, Selected, Ready

\* PromoteCandidateReady leaves the best of the ready ones selected, unless a
\* request is outstanding.
LEMMA PromoteIsSane ==
  ASSUME NEW h \in TxHash, NEW row \in Rows, NEW p \in Peer,
         RowIsSane(h, row), row[p] = "DELAYED"
  PROVE  /\ PromoteCandidateReady(h, row, p) \in Rows
         /\ RowIsSane(h, PromoteCandidateReady(h, row, p))
<1>0. \A q \in Peer : Priority(h, q) \in Int
  BY PriorityType
<1>1. CASE \E q \in Ready(row) : ~(Priority(h, p) > Priority(h, q))
  <2>1. PromoteCandidateReady(h, row, p) = [row EXCEPT ![p] = "READY"]
    BY <1>1 DEF PromoteCandidateReady
  <2> QED BY <1>0, <1>1, <2>1 DEF RowIsSane, Selected, Ready, Rows, States
<1>2. CASE /\ \A q \in Ready(row) : Priority(h, p) > Priority(h, q)
           /\ Selected(row) = {}
  <2>1. PromoteCandidateReady(h, row, p) = [row EXCEPT ![p] = "BEST"]
    BY <1>2 DEF PromoteCandidateReady
  <2> QED BY <1>0, <1>2, <2>1 DEF RowIsSane, Selected, Ready, Rows, States
<1>3. CASE /\ \A q \in Ready(row) : Priority(h, p) > Priority(h, q)
           /\ Selected(row) # {}
           /\ \E q \in Peer : row[q] = "BEST" /\ Priority(h, p) > Priority(h, q)
  <2>1. PromoteCandidateReady(h, row, p) =
          [q \in Peer |-> IF q = p THEN "BEST"
                          ELSE IF row[q] = "BEST" THEN "READY" ELSE row[q]]
    BY <1>3 DEF PromoteCandidateReady
  <2> QED BY <1>0, <1>3, <2>1 DEF RowIsSane, Selected, Ready, Rows, States
<1>4. CASE /\ \A q \in Ready(row) : Priority(h, p) > Priority(h, q)
           /\ Selected(row) # {}
           /\ \A q \in Peer : row[q] = "BEST" => ~(Priority(h, p) > Priority(h, q))
  <2>1. PromoteCandidateReady(h, row, p) = [row EXCEPT ![p] = "READY"]
    BY <1>4 DEF PromoteCandidateReady
  <2> QED BY <1>0, <1>4, <2>1 DEF RowIsSane, Selected, Ready, Rows, States
<1> QED BY <1>1, <1>2, <1>3, <1>4

\* ChangeAndReselect hands the selection on to the best of the ready ones.
LEMMA ReselectIsSane ==
  ASSUME NEW h \in TxHash, NEW row \in Rows, NEW p \in Peer,
         NEW new \in {"DELAYED", "COMPLETED"},
         RowIsSane(h, row), row[p] \notin {"NONE", "COMPLETED"},
         new = "COMPLETED" => ~IsOnlyNonCompleted(row, p)
  PROVE  /\ ChangeAndReselect(h, row, p, new) \in Rows
         /\ RowIsSane(h, ChangeAndReselect(h, row, p, new))
<1>0. \A q \in Peer : Priority(h, q) \in Int
  BY PriorityType
<1>1. CASE p \in Selected(row) /\ Ready(row) # {}
  <2> DEFINE b == BestReady(h, row)
  <2>1. b \in Ready(row) /\ \A q \in Ready(row) : Priority(h, q) <= Priority(h, b)
    BY <1>1, BestReadyFacts
  <2>2. ChangeAndReselect(h, row, p, new) = [row EXCEPT ![b] = "BEST", ![p] = new]
    BY <1>1 DEF ChangeAndReselect
  <2> HIDE DEF b
  <2>3. ChangeAndReselect(h, row, p, new) =
          [q \in Peer |-> IF q = p THEN new ELSE IF q = b THEN "BEST" ELSE row[q]]
    BY <2>1, <2>2, Zenon DEF Ready, Rows
  <2> QED BY <1>0, <1>1, <2>1, <2>3 DEF RowIsSane, Selected, Ready, Rows, States
<1>2. CASE p \notin Selected(row) \/ Ready(row) = {}
  <2>1. ChangeAndReselect(h, row, p, new) = [row EXCEPT ![p] = new]
    BY <1>2 DEF ChangeAndReselect
  <2> QED BY <1>0, <1>2, <2>1
      DEF RowIsSane, Selected, Ready, Rows, States, IsOnlyNonCompleted
<1> QED BY <1>1, <1>2

\* MakeCompleted keeps the row sane; so do an answer and a disconnection.
LEMMA CompletedIsSane ==
  ASSUME NEW h \in TxHash, NEW row \in Rows, NEW p \in Peer,
         RowIsSane(h, row), row[p] # "NONE"
  PROVE  /\ MakeCompleted(h, row, p) \in Rows
         /\ RowIsSane(h, MakeCompleted(h, row, p))
BY NobodyIsSane, ReselectIsSane DEF MakeCompleted

LEMMA ResponseIsSane ==
  ASSUME NEW h \in TxHash, NEW row \in Rows, NEW p \in Peer, RowIsSane(h, row)
  PROVE  /\ ReceivedResponse(h, row, p) \in Rows
         /\ RowIsSane(h, ReceivedResponse(h, row, p))
BY CompletedIsSane DEF ReceivedResponse

\* A new announcement waits.
LEMMA InvIsSane ==
  ASSUME NEW h \in TxHash, NEW row \in Rows, NEW p \in Peer, RowIsSane(h, row)
  PROVE  ReceivedInv(row, p) \in Rows /\ RowIsSane(h, ReceivedInv(row, p))
BY DEF ReceivedInv, RowIsSane, Selected, Ready, Rows, States

\* RequestedTx keeps the row sane, called with the BEST announcement or not.
LEMMA RequestedIsSane ==
  ASSUME NEW h \in TxHash, NEW row \in Rows, NEW p \in Peer, RowIsSane(h, row)
  PROVE  RequestedTx(row, p) \in Rows /\ RowIsSane(h, RequestedTx(row, p))
BY DEF RequestedTx, RowIsSane, Selected, Ready, Rows, States

\* Neither of the two ways to move the choice on shows in the header's states.
LEMMA PromoteStatus ==
  ASSUME NEW h \in TxHash, NEW row \in Rows, NEW p \in Peer, row[p] = "DELAYED"
  PROVE  Status(PromoteCandidateReady(h, row, p)) = Status(row)
BY DEF PromoteCandidateReady, Status, Rows, States

LEMMA ReselectStatus ==
  ASSUME NEW h \in TxHash, NEW row \in Rows, NEW p \in Peer, NEW new \in States
  PROVE  Status(ChangeAndReselect(h, row, p, new)) = Status([row EXCEPT ![p] = new])
<1>1. CASE p \in Selected(row) /\ Ready(row) # {}
  <2> DEFINE b == BestReady(h, row)
  <2>1. b \in Ready(row)
    BY <1>1, BestReadyFacts
  <2>2. ChangeAndReselect(h, row, p, new) = [row EXCEPT ![b] = "BEST", ![p] = new]
    BY <1>1 DEF ChangeAndReselect
  <2> HIDE DEF b
  <2> QED BY <2>1, <2>2 DEF Status, Ready, Rows
<1>2. CASE p \notin Selected(row) \/ Ready(row) = {}
  BY <1>2 DEF ChangeAndReselect
<1> QED BY <1>1, <1>2

\* An announcement that fails is kept while another one is open.
FailedRow(srow, p) ==
  IF \E q \in Peer \ {p} : srow[q] \in {"CANDIDATE", "REQUESTED"}
  THEN [srow EXCEPT ![p] = "COMPLETED"]
  ELSE Nobody

LEMMA CompletedStatus ==
  ASSUME NEW h \in TxHash, NEW row \in Rows, NEW p \in Peer,
         row[p] \notin {"NONE", "COMPLETED"}
  PROVE  Status(MakeCompleted(h, row, p)) = FailedRow(Status(row), p)
<1>1. CASE IsOnlyNonCompleted(row, p)
  <2>1. MakeCompleted(h, row, p) = Nobody
    BY <1>1 DEF MakeCompleted
  <2>2. ~ \E q \in Peer \ {p} : Status(row)[q] \in {"CANDIDATE", "REQUESTED"}
    BY <1>1 DEF IsOnlyNonCompleted, Status
  <2> QED BY <2>1, <2>2 DEF FailedRow, Status, Nobody
<1>2. CASE ~IsOnlyNonCompleted(row, p)
  <2>1. MakeCompleted(h, row, p) = ChangeAndReselect(h, row, p, "COMPLETED")
    BY <1>2 DEF MakeCompleted
  <2> "COMPLETED" \in States
    BY DEF States
  <2>2. Status(MakeCompleted(h, row, p)) = Status([row EXCEPT ![p] = "COMPLETED"])
    BY <2>1, ReselectStatus
  <2>3. \E q \in Peer \ {p} : Status(row)[q] \in {"CANDIDATE", "REQUESTED"}
    BY <1>2 DEF IsOnlyNonCompleted, Status, Rows, States
  <2>4. Status([row EXCEPT ![p] = "COMPLETED"]) = [Status(row) EXCEPT ![p] = "COMPLETED"]
    BY Zenon DEF Status, Rows
  <2> QED BY <2>2, <2>3, <2>4 DEF FailedRow
<1> QED BY <1>1, <1>2

\* A peer that leaves: its announcement is completed, then erased.
LEMMA DisconnectedIsSane ==
  ASSUME NEW h \in TxHash, NEW row \in Rows, NEW p \in Peer, RowIsSane(h, row)
  PROVE  /\ DisconnectedPeer(h, row, p) \in Rows
         /\ RowIsSane(h, DisconnectedPeer(h, row, p))
<1>1. CASE row[p] = "NONE"
  BY <1>1 DEF DisconnectedPeer
<1>2. CASE row[p] # "NONE"
  <2> DEFINE done == MakeCompleted(h, row, p)
  <2>1. done \in Rows /\ RowIsSane(h, done)
    BY <1>2, CompletedIsSane
  <2>2. done[p] \in {"NONE", "COMPLETED"}
    <3>1. CASE row[p] = "COMPLETED"
      BY <3>1 DEF MakeCompleted
    <3>2. CASE row[p] # "COMPLETED"
      <4>1. Status(done)[p] = FailedRow(Status(row), p)[p]
        BY <1>2, <3>2, CompletedStatus
      <4>2. FailedRow(Status(row), p)[p] \in {"NONE", "COMPLETED"}
        BY DEF FailedRow, Status, Nobody
      <4> HIDE DEF done
      <4> QED BY <4>1, <4>2 DEF Status
    <3> QED BY <3>1, <3>2
  <2>3. DisconnectedPeer(h, row, p) = [done EXCEPT ![p] = "NONE"]
    BY <1>2 DEF DisconnectedPeer
  <2> HIDE DEF done
  <2> QED BY <2>1, <2>2, <2>3 DEF RowIsSane, Selected, Ready, Rows, States
<1> QED BY <1>1, <1>2

\* Status tells apart what Timed and "NONE" tell apart.
LEMMA StatusFacts ==
  ASSUME NEW row \in Rows
  PROVE  /\ Status(row) \in [Peer -> {"NONE", "CANDIDATE", "REQUESTED", "COMPLETED"}]
         /\ \A p \in Peer : /\ Status(row)[p] = "NONE" <=> row[p] = "NONE"
                            /\ Status(row)[p] \in {"CANDIDATE", "REQUESTED"}
                                 <=> row[p] \in Timed
BY DEF Status, Rows, States, Timed, Waiting, Selectable

\* What an answer does to the header's states, and an announcement.
LEMMA ResponseStatus ==
  ASSUME NEW h \in TxHash, NEW row \in Rows, NEW p \in Peer
  PROVE  \/ Status(ReceivedResponse(h, row, p)) = Status(row)
         \/ /\ Status(row)[p] \in {"CANDIDATE", "REQUESTED"}
            /\ Status(ReceivedResponse(h, row, p)) = FailedRow(Status(row), p)
<1>1. CASE row[p] \in {"NONE", "COMPLETED"}
  BY <1>1 DEF ReceivedResponse, MakeCompleted
<1>2. CASE row[p] \notin {"NONE", "COMPLETED"}
  <2>1. ReceivedResponse(h, row, p) = MakeCompleted(h, row, p)
    BY <1>2 DEF ReceivedResponse
  <2>2. Status(row)[p] \in {"CANDIDATE", "REQUESTED"}
    BY <1>2 DEF Status, Rows, States
  <2> QED BY <1>2, <2>1, <2>2, CompletedStatus
<1> QED BY <1>1, <1>2

\* An answer announces nothing.
LEMMA ResponseNone ==
  ASSUME NEW h \in TxHash, NEW row \in Rows, NEW p \in Peer, NEW q \in Peer,
         RowIsSane(h, row), row[q] = "NONE"
  PROVE  ReceivedResponse(h, row, p)[q] = "NONE"
<1>1. /\ Status(row)[q] = "NONE"
      /\ Status(row) \in [Peer -> {"NONE", "CANDIDATE", "REQUESTED", "COMPLETED"}]
      /\ ReceivedResponse(h, row, p) \in Rows
  BY StatusFacts, ResponseIsSane
<1>2. Status(ReceivedResponse(h, row, p))[q] = "NONE"
  BY <1>1, ResponseStatus DEF FailedRow, Nobody
<1> QED BY <1>1, <1>2, StatusFacts

LEMMA InvStatus ==
  ASSUME NEW row \in Rows, NEW p \in Peer, row[p] = "NONE"
  PROVE  /\ Status(row)[p] = "NONE"
         /\ Status(ReceivedInv(row, p)) = [Status(row) EXCEPT ![p] = "CANDIDATE"]
BY Zenon DEF ReceivedInv, Status, Rows

----------------------------------------------------------------------------
(* The inductive invariant is SanityCheck with the types.                  *)

IInv == TypeOK /\ SanityCheck

status == [h \in TxHash |-> Status(ann[h])]

\* The times after a handler: typed, and as the rules have them.
LEMMA TimesFollow ==
  ASSUME TypeOK, ann' \in [TxHash -> Rows], NEW t \in [TxHash -> [Peer -> Int]],
         SetTimes(t), NEW new,
         \A h \in TxHash, p \in Peer :
           Status(ann'[h])[p] \in {"CANDIDATE", "REQUESTED"} =>
             IF Status(ann'[h])[p] = Status(ann[h])[p] THEN t[h][p] = time[h][p]
             ELSE t[h][p] \in new
  PROVE  time' \in [TxHash -> [Peer -> Int]] /\ Rules!Times(new)
<1>1. time' = [h \in TxHash |-> [p \in Peer |-> IF ann'[h][p] \in Timed THEN t[h][p] ELSE 0]]
  BY DEF SetTimes
<1>2. time' \in [TxHash -> [Peer -> Int]]
  BY <1>1
<1>3. ASSUME NEW h \in TxHash, NEW p \in Peer
      PROVE  IF Status(ann'[h])[p] \notin {"CANDIDATE", "REQUESTED"} THEN time'[h][p] = 0
             ELSE IF Status(ann'[h])[p] = Status(ann[h])[p] THEN time'[h][p] = time[h][p]
             ELSE time'[h][p] \in new
  <2>1. ann'[h] \in Rows
    OBVIOUS
  <2>2. Status(ann'[h])[p] \in {"CANDIDATE", "REQUESTED"} <=> ann'[h][p] \in Timed
    BY <2>1, StatusFacts
  <2>3. time'[h][p] = IF ann'[h][p] \in Timed THEN t[h][p] ELSE 0
    BY <1>1
  <2> QED BY <2>2, <2>3
<1> QED BY <1>2, <1>3 DEF Rules!Times

\* The new rows of a handler that leaves the peers as they are.
LEMMA RowsFollow ==
  ASSUME IInv, NEW S \in SUBSET connected,
         ann' = [h \in TxHash |-> ann'[h]],
         \A h \in TxHash : ann'[h] \in Rows /\ RowIsSane(h, ann'[h]),
         \A h \in TxHash, q \in Peer \ S :
           Status(ann[h])[q] = "NONE" => Status(ann'[h])[q] = "NONE",
         time' \in [TxHash -> [Peer -> Int]],
         lag' \in 0 .. MaxLag, connected' = connected,
         sending' \in connected \cup {nobody}
  PROVE  IInv' /\ status' \in Rules!Statuses
<1>1. ann' \in [TxHash -> Rows] /\ SanityCheck'
  BY DEF SanityCheck, RowIsSane, Selected, Ready, Priority
<1>2. ann \in [TxHash -> Rows]
  BY DEF IInv, TypeOK, Rows
<1>3. ASSUME NEW h \in TxHash, NEW q \in Peer, ann'[h][q] # "NONE"
      PROVE  q \in connected
  <2>1. ann[h] \in Rows /\ ann'[h] \in Rows
    BY <1>1, <1>2
  <2>2. q \in S \/ ann[h][q] # "NONE"
    BY <1>3, <2>1, StatusFacts
  <2> QED BY <2>2 DEF IInv, TypeOK
<1>4. TypeOK'
  BY <1>1, <1>3 DEF IInv, TypeOK, Rows
<1>5. \A h \in TxHash : Status(ann'[h]) \in [Peer -> {"NONE", "CANDIDATE", "REQUESTED", "COMPLETED"}]
  BY <1>1, StatusFacts
<1>6. status' = [h \in TxHash |-> Status(ann'[h])]
  BY DEF status, Status
<1> QED BY <1>1, <1>4, <1>5, <1>6 DEF IInv, Rules!Statuses

\* The four things a message of p may do to a row.
Handled(new, p, row) ==
  \/ new \in {Status(row), Nobody}
  \/ Status(row)[p] \in {"CANDIDATE", "REQUESTED"} /\ new = FailedRow(Status(row), p)
  \/ Status(row)[p] = "NONE" /\ new = [Status(row) EXCEPT ![p] = "CANDIDATE"]

LEMMA MessageStep ==
  ASSUME IInv, NEW p \in connected, NEW t \in [TxHash -> [Peer -> Int]],
         ann' = [h \in TxHash |-> ann'[h]],
         \A h \in TxHash : /\ ann'[h] \in Rows /\ RowIsSane(h, ann'[h])
                           /\ Handled(Status(ann'[h]), p, ann[h]),
         \A h \in TxHash, q \in Peer :
           /\ ann[h][q] # "NONE" => t[h][q] = time[h][q]
           /\ ann[h][q] = "NONE" /\ ann'[h][q] # "NONE" => t[h][q] \in Now .. Now + MaxDelay,
         SetTimes(t), UNCHANGED <<lag, connected, sending>>
  PROVE  IInv' /\ Rules!Message(p)
<1> USE DEF IInv
<1>0. p \in Peer /\ ann \in [TxHash -> Rows] /\ ann' \in [TxHash -> Rows]
  BY DEF TypeOK, Rows
<1>1. \A h \in TxHash : /\ ann[h] \in Rows
                        /\ Status(ann[h]) \in [Peer -> {"NONE", "CANDIDATE", "REQUESTED", "COMPLETED"}]
  BY <1>0, StatusFacts
<1>2. ASSUME NEW h \in TxHash, NEW q \in Peer,
             Status(ann'[h])[q] \in {"CANDIDATE", "REQUESTED"},
             Status(ann'[h])[q] = Status(ann[h])[q]
      PROVE  t[h][q] = time[h][q]
  <2>1. ann[h][q] # "NONE"
    BY <1>1, <1>2, StatusFacts
  <2> QED BY <2>1
<1>3. ASSUME NEW h \in TxHash, NEW q \in Peer,
             Status(ann'[h])[q] \in {"CANDIDATE", "REQUESTED"},
             Status(ann'[h])[q] # Status(ann[h])[q]
      PROVE  q = p /\ Status(ann[h])[q] = "NONE" /\ Status(ann'[h])[q] = "CANDIDATE"
  BY <1>0, <1>1, <1>3 DEF Handled, FailedRow, Nobody
<1>4. ASSUME NEW h \in TxHash, NEW q \in Peer,
             Status(ann'[h])[q] \in {"CANDIDATE", "REQUESTED"},
             Status(ann'[h])[q] # Status(ann[h])[q]
      PROVE  t[h][q] \in Now .. Now + MaxDelay
  <2>1. ann[h][q] = "NONE" /\ ann'[h][q] # "NONE"
    BY <1>0, <1>1, <1>3, <1>4, StatusFacts
  <2> QED BY <2>1
<1>5. time' \in [TxHash -> [Peer -> Int]] /\ Rules!Times(Now .. Now + MaxDelay)
  <2> DEFINE new == Now .. Now + MaxDelay
  <2>1. \A h \in TxHash, q \in Peer :
          Status(ann'[h])[q] \in {"CANDIDATE", "REQUESTED"} =>
            IF Status(ann'[h])[q] = Status(ann[h])[q] THEN t[h][q] = time[h][q]
            ELSE t[h][q] \in new
    BY <1>2, <1>4
  <2> HIDE DEF new
  <2>2. time' \in [TxHash -> [Peer -> Int]] /\ Rules!Times(new)
    BY <1>0, <2>1, TimesFollow, Zenon
  <2> QED BY <2>2 DEF new
<1>6. \A h \in TxHash, q \in Peer \ {p} :
        Status(ann[h])[q] = "NONE" => Status(ann'[h])[q] = "NONE"
  BY <1>0, <1>1 DEF Handled, FailedRow, Nobody
<1>7. IInv' /\ status' \in Rules!Statuses
  <2>1. {p} \in SUBSET connected /\ lag' \in 0 .. MaxLag
        /\ sending' \in connected \cup {nobody} /\ connected' = connected
    BY DEF TypeOK
  <2> HIDE DEF IInv
  <2> QED BY <1>5, <1>6, <2>1, RowsFollow, Zenon
<1>8. status' = [h \in TxHash |-> Status(ann'[h])] /\ Rules!Now = Now
  BY DEF status, Status, Now, Rules!Now
<1>9. \A h \in TxHash :
        \/ status'[h] \in {status[h], Rules!Nobody}
        \/ Rules!Open(h, p) /\ status'[h] = Rules!Failed(h, p)
        \/ status[h][p] = "NONE" /\ status'[h] = [status[h] EXCEPT ![p] = "CANDIDATE"]
  BY <1>8 DEF Handled, status, FailedRow, Nobody, Rules!Nobody, Rules!Open, Rules!Failed
<1> QED BY <1>5, <1>7, <1>8, <1>9 DEF Rules!Message, status

\* The delays are within MaxDelay.
LEMMA DelayBound ==
  ASSUME NEW a, NEW p, NEW wtxid
  PROVE  Delay(a, p, wtxid) \in 0 .. MaxDelay
BY TxRequestAssumptions DEF Delay, MaxDelay

----------------------------------------------------------------------------
(* One lemma per handler: it keeps the invariant and is a step of the rules. *)

LEMMA InvStep ==
  ASSUME IInv, NEW p \in Peer, NEW i \in TxHash, Inv(p, i)
  PROVE  IInv' /\ Rules!Message(p)
<1> DEFINE t == [time EXCEPT ![i][p] = Now + Delay(ann, p, p \in WtxidRelay)]
<1>1. /\ p \in connected /\ ann[i][p] = "NONE" /\ SetTimes(t)
      /\ ann' = [ann EXCEPT ![i] = ReceivedInv(@, p)]
      /\ UNCHANGED <<lag, connected, sending>>
  BY DEF Inv
<1>2. /\ ann \in [TxHash -> Rows] /\ time \in [TxHash -> [Peer -> Int]]
      /\ Now \in Int /\ \A h \in TxHash : RowIsSane(h, ann[h])
  BY TxRequestAssumptions DEF IInv, TypeOK, SanityCheck, Rows, Now
<1>3. Now + Delay(ann, p, p \in WtxidRelay) \in Now .. Now + MaxDelay
  BY <1>2, DelayBound, TxRequestAssumptions DEF MaxDelay
<1>4. ReceivedInv(ann[i], p) \in Rows /\ RowIsSane(i, ReceivedInv(ann[i], p))
  BY <1>2, InvIsSane
<1>5. /\ Status(ann[i])[p] = "NONE"
      /\ Status(ReceivedInv(ann[i], p)) = [Status(ann[i]) EXCEPT ![p] = "CANDIDATE"]
  BY <1>1, <1>2, InvStatus
<1>6. \A h \in TxHash : /\ ann'[h] \in Rows /\ RowIsSane(h, ann'[h])
                        /\ Handled(Status(ann'[h]), p, ann[h])
  BY <1>1, <1>2, <1>4, <1>5, Zenon DEF Handled
<1>7. ann' = [h \in TxHash |-> ann'[h]]
  BY <1>1, <1>2, Zenon
<1>8. t \in [TxHash -> [Peer -> Int]]
  BY <1>2, <1>3
<1>9. \A h \in TxHash, q \in Peer :
        /\ ann[h][q] # "NONE" => t[h][q] = time[h][q]
        /\ ann[h][q] = "NONE" /\ ann'[h][q] # "NONE" => t[h][q] \in Now .. Now + MaxDelay
  BY <1>1, <1>2, <1>3 DEF ReceivedInv, Rows
<1> HIDE DEF t
<1> QED BY <1>1, <1>6, <1>7, <1>8, <1>9, MessageStep, Zenon

LEMMA NotFoundStep ==
  ASSUME IInv, NEW p \in Peer, NEW i \in TxHash, NotFound(p, i)
  PROVE  IInv' /\ Rules!Message(p)
<1>1. /\ p \in connected /\ SetTimes(time)
      /\ ann' = [ann EXCEPT ![i] = ReceivedResponse(i, @, p)]
      /\ UNCHANGED <<lag, connected, sending>>
  BY DEF NotFound
<1>2. /\ ann \in [TxHash -> Rows] /\ time \in [TxHash -> [Peer -> Int]]
      /\ \A h \in TxHash : RowIsSane(h, ann[h])
  BY DEF IInv, TypeOK, SanityCheck, Rows
<1>3. /\ ReceivedResponse(i, ann[i], p) \in Rows
      /\ RowIsSane(i, ReceivedResponse(i, ann[i], p))
  BY <1>2, ResponseIsSane
<1>4. Handled(Status(ReceivedResponse(i, ann[i], p)), p, ann[i])
  BY <1>2, ResponseStatus DEF Handled
<1>5. \A h \in TxHash : /\ ann'[h] \in Rows /\ RowIsSane(h, ann'[h])
                        /\ Handled(Status(ann'[h]), p, ann[h])
  BY <1>1, <1>2, <1>3, <1>4 DEF Handled
<1>6. ann' = [h \in TxHash |-> ann'[h]]
  BY <1>1, <1>2, Zenon
<1>7. \A h \in TxHash, q \in Peer : ann[h][q] = "NONE" => ann'[h][q] = "NONE"
  BY <1>1, <1>2, ResponseNone
<1> QED BY <1>1, <1>2, <1>5, <1>6, <1>7, MessageStep, Zenon

LEMMA TxStep ==
  ASSUME IInv, NEW p \in Peer, NEW tx \in Txs, NEW forgotten, NEW parents,
         Tx(p, tx, forgotten, parents)
  PROVE  IInv' /\ Rules!Message(p)
<1> DEFINE hashes == {tx[1], tx[2]}
           answered == [h \in TxHash |-> IF h \in hashes THEN ReceivedResponse(h, ann[h], p)
                                         ELSE ann[h]]
           added == {h \in parents : MayAnnounce(answered, p) /\ ann[h][p] = "NONE"}
           delay == Delay(answered, p, FALSE)
           t == [h \in TxHash |-> IF h \in added THEN [time[h] EXCEPT ![p] = Now + delay]
                                  ELSE time[h]]
<1>1. /\ p \in connected /\ SetTimes(t)
      /\ ann' = [h \in TxHash |-> IF h \in forgotten THEN Nobody
                                  ELSE IF h \in added THEN ReceivedInv(answered[h], p)
                                  ELSE answered[h]]
      /\ UNCHANGED <<lag, connected, sending>>
  BY DEF Tx
<1>2. /\ ann \in [TxHash -> Rows] /\ time \in [TxHash -> [Peer -> Int]]
      /\ Now \in Int /\ \A h \in TxHash : RowIsSane(h, ann[h])
  BY TxRequestAssumptions DEF IInv, TypeOK, SanityCheck, Rows, Now
<1>3. delay \in 0 .. MaxDelay /\ MaxDelay \in Nat
  <2>1. MaxDelay \in Nat
    BY TxRequestAssumptions DEF MaxDelay
  <2>2. delay \in 0 .. MaxDelay
    <3> HIDE DEF answered
    <3> QED BY DelayBound, Zenon
  <2> QED BY <2>1, <2>2, Zenon
<1>4. \A h \in added : ann[h][p] = "NONE"
  BY ZenonT(30)
<1>5. ASSUME NEW h \in TxHash
      PROVE  /\ answered[h] \in Rows /\ RowIsSane(h, answered[h])
             /\ Handled(Status(answered[h]), p, ann[h])
             /\ \A q \in Peer : ann[h][q] = "NONE" => answered[h][q] = "NONE"
             /\ ann[h][p] = "NONE" => answered[h] = ann[h]
  <2>1. CASE h \in hashes
    <3>1. answered[h] = ReceivedResponse(h, ann[h], p)
      BY <2>1
    <3>2. ann[h] \in Rows /\ RowIsSane(h, ann[h])
      BY <1>2
    <3> HIDE DEF answered
    <3>3. answered[h] \in Rows /\ RowIsSane(h, answered[h])
      BY <3>1, <3>2, ResponseIsSane
    <3>4. \A q \in Peer : ann[h][q] = "NONE" => answered[h][q] = "NONE"
      BY <3>1, <3>2, ResponseNone
    <3>5. Handled(Status(answered[h]), p, ann[h])
      BY <3>1, <3>2, ResponseStatus DEF Handled
    <3>6. ann[h][p] = "NONE" => answered[h] = ann[h]
      BY <3>1 DEF ReceivedResponse
    <3> QED BY <3>3, <3>4, <3>5, <3>6
  <2>2. CASE h \notin hashes
    BY <1>2, <2>2, ZenonT(30) DEF Handled
  <2> QED BY <2>1, <2>2, ZenonT(30)
<1> HIDE DEF added, answered, delay
<1>6. ASSUME NEW h \in TxHash
      PROVE  /\ ann'[h] \in Rows /\ RowIsSane(h, ann'[h])
             /\ Handled(Status(ann'[h]), p, ann[h])
             /\ \A q \in Peer : ann[h][q] = "NONE" /\ ann'[h][q] # "NONE" => h \in added /\ q = p
  <2>1. CASE h \in forgotten
    <3>1. ann'[h] = Nobody
      BY <1>1, <2>1
    <3>2. Status(Nobody) = Nobody
      BY DEF Status, Nobody
    <3> QED BY <3>1, <3>2, NobodyIsSane DEF Handled, Nobody
  <2>2. CASE h \notin forgotten /\ h \in added
    <3>1. ann'[h] = ReceivedInv(ann[h], p) /\ ann[h][p] = "NONE"
      BY <1>1, <1>4, <1>5, <2>2
    <3>2. ann'[h] \in Rows /\ RowIsSane(h, ann'[h])
      BY <1>2, <3>1, InvIsSane
    <3>3. Handled(Status(ann'[h]), p, ann[h])
      BY <1>2, <3>1, InvStatus DEF Handled
    <3> QED BY <1>2, <2>2, <3>1, <3>2, <3>3, ZenonT(30) DEF ReceivedInv, Rows
  <2>3. CASE h \notin forgotten /\ h \notin added
    <3>1. ann'[h] = answered[h]
      BY <1>1, <2>3
    <3> QED BY <1>5, <3>1
  <2> QED BY <2>1, <2>2, <2>3
<1>7. ann' = [h \in TxHash |-> ann'[h]]
  BY <1>1
<1>8. t \in [TxHash -> [Peer -> Int]]
  BY <1>2, <1>3
<1>9. \A h \in TxHash, q \in Peer :
        /\ ann[h][q] # "NONE" => t[h][q] = time[h][q]
        /\ ann[h][q] = "NONE" /\ ann'[h][q] # "NONE" => t[h][q] \in Now .. Now + MaxDelay
  BY <1>2, <1>3, <1>4, <1>6
<1> HIDE DEF t
<1> QED BY <1>1, <1>6, <1>7, <1>8, <1>9, MessageStep, ZenonT(30)

\* A handler that announces nothing: no time changes.
LEMMA QuietStep ==
  ASSUME IInv, ann' = [h \in TxHash |-> ann'[h]],
         \A h \in TxHash : /\ ann'[h] \in Rows /\ RowIsSane(h, ann'[h])
                           /\ \A q \in Peer : Status(ann'[h])[q] \in
                                {Status(ann[h])[q], "NONE", "COMPLETED"},
         \A h \in TxHash, q \in Peer : Status(ann[h])[q] = "NONE" => Status(ann'[h])[q] = "NONE",
         SetTimes(time), UNCHANGED <<lag, connected>>,
         sending' \in connected \cup {nobody}
  PROVE  IInv' /\ status' \in Rules!Statuses /\ Rules!Times({})
<1>1. /\ TypeOK /\ ann' \in [TxHash -> Rows] /\ time \in [TxHash -> [Peer -> Int]]
      /\ lag' \in 0 .. MaxLag /\ connected' = connected
  BY DEF IInv, TypeOK
<1>2. \A h \in TxHash, q \in Peer :
        Status(ann'[h])[q] \in {"CANDIDATE", "REQUESTED"} =>
          IF Status(ann'[h])[q] = Status(ann[h])[q] THEN time[h][q] = time[h][q]
          ELSE time[h][q] \in {}
  OBVIOUS
<1>3. time' \in [TxHash -> [Peer -> Int]] /\ Rules!Times({})
  BY <1>1, <1>2, TimesFollow, Zenon
<1>4. IInv' /\ status' \in Rules!Statuses
  BY <1>1, <1>3, RowsFollow, Zenon
<1> QED BY <1>3, <1>4

LEMMA BlockStep ==
  ASSUME IInv, NEW tx \in Txs, BlockConnected(tx)
  PROVE  IInv' /\ Rules!Forget
<1>1. /\ ann' = [h \in TxHash |-> IF h \in {tx[1], tx[2]} THEN Nobody ELSE ann[h]]
      /\ SetTimes(time) /\ UNCHANGED <<lag, connected>>
      /\ sending' \in connected \cup {nobody}
  BY DEF BlockConnected
<1>2. ann \in [TxHash -> Rows] /\ \A h \in TxHash : RowIsSane(h, ann[h])
  BY DEF IInv, TypeOK, SanityCheck, Rows
<1>3. Status(Nobody) = Nobody
  BY DEF Status, Nobody
<1>4. \A h \in TxHash : /\ ann'[h] \in {ann[h], Nobody}
                        /\ Status(ann'[h]) \in {Status(ann[h]), Nobody}
  BY <1>1, <1>3
<1>5. \A h \in TxHash : ann'[h] \in Rows /\ RowIsSane(h, ann'[h])
  BY <1>2, <1>4, NobodyIsSane
<1>6. \A h \in TxHash, q \in Peer : Status(ann'[h])[q] \in {Status(ann[h])[q], "NONE"}
  BY <1>4 DEF Nobody
<1>7. ann' = [h \in TxHash |-> ann'[h]]
  BY <1>1
<1>8. IInv' /\ status' \in Rules!Statuses /\ Rules!Times({})
  BY <1>1, <1>5, <1>6, <1>7, QuietStep
<1>9. \A h \in TxHash : status'[h] \in {status[h], Rules!Nobody}
  BY <1>4 DEF status, Status, Nobody, Rules!Nobody
<1> QED BY <1>1, <1>8, <1>9 DEF Rules!Forget, status

LEMMA DisconnectedStatus ==
  ASSUME NEW h \in TxHash, NEW row \in Rows, NEW p \in Peer, RowIsSane(h, row)
  PROVE  Status(DisconnectedPeer(h, row, p)) =
           [(IF Status(row)[p] \in {"CANDIDATE", "REQUESTED"} THEN FailedRow(Status(row), p)
             ELSE Status(row)) EXCEPT ![p] = "NONE"]
<1>1. CASE row[p] = "NONE"
  BY <1>1 DEF DisconnectedPeer, Status, Rows
<1>2. CASE row[p] = "COMPLETED"
  BY <1>2, Zenon DEF DisconnectedPeer, MakeCompleted, Status, Rows
<1>3. CASE row[p] \notin {"NONE", "COMPLETED"}
  <2> DEFINE done == MakeCompleted(h, row, p)
  <2>1. Status(done) = FailedRow(Status(row), p) /\ done \in Rows
    BY <1>3, CompletedStatus, CompletedIsSane
  <2>2. Status(row)[p] \in {"CANDIDATE", "REQUESTED"}
    BY <1>3 DEF Status, Rows, States
  <2>3. DisconnectedPeer(h, row, p) = [done EXCEPT ![p] = "NONE"]
    BY <1>3 DEF DisconnectedPeer
  <2> HIDE DEF done
  <2>4. Status([done EXCEPT ![p] = "NONE"]) = [Status(done) EXCEPT ![p] = "NONE"]
    BY <2>1, ZenonT(30) DEF Status, Rows
  <2> QED BY <2>1, <2>2, <2>3, <2>4
<1> QED BY <1>1, <1>2, <1>3

LEMMA FinalizeStep ==
  ASSUME IInv, NEW p \in Peer, FinalizeNode(p)
  PROVE  IInv' /\ Rules!Leave(p)
<1>1. /\ ann' = [h \in TxHash |-> DisconnectedPeer(h, ann[h], p)]
      /\ SetTimes(time) /\ UNCHANGED <<lag, sending>> /\ sending = nobody
      /\ connected' = connected \ {p}
  BY DEF FinalizeNode
<1>2. /\ ann \in [TxHash -> Rows] /\ time \in [TxHash -> [Peer -> Int]]
      /\ \A h \in TxHash : RowIsSane(h, ann[h])
  BY DEF IInv, TypeOK, SanityCheck, Rows
<1>3. \A h \in TxHash : ann'[h] \in Rows /\ RowIsSane(h, ann'[h])
  BY <1>1, <1>2, DisconnectedIsSane
<1>4. ASSUME NEW h \in TxHash
      PROVE  Status(ann'[h]) =
               [(IF Status(ann[h])[p] \in {"CANDIDATE", "REQUESTED"}
                 THEN FailedRow(Status(ann[h]), p) ELSE Status(ann[h])) EXCEPT ![p] = "NONE"]
  BY <1>1, <1>2, DisconnectedStatus
<1>5. ann' \in [TxHash -> Rows]
  BY <1>1, <1>3
<1>6. \A h \in TxHash :
        Status(ann[h]) \in [Peer -> {"NONE", "CANDIDATE", "REQUESTED", "COMPLETED"}]
  BY <1>2, StatusFacts
<1>7. ASSUME NEW h \in TxHash, NEW q \in Peer
      PROVE  /\ Status(ann'[h])[q] \in {Status(ann[h])[q], "NONE", "COMPLETED"}
             /\ Status(ann'[h])[p] = "NONE"
             /\ Status(ann[h])[q] = "NONE" => Status(ann'[h])[q] = "NONE"
  BY <1>4, <1>6, Zenon DEF FailedRow, Nobody
<1>8. \A h \in TxHash, q \in Peer :
        Status(ann'[h])[q] \in {"CANDIDATE", "REQUESTED"} =>
          IF Status(ann'[h])[q] = Status(ann[h])[q] THEN time[h][q] = time[h][q]
          ELSE time[h][q] \in {}
  BY <1>7
<1>9. time' \in [TxHash -> [Peer -> Int]] /\ Rules!Times({})
  BY <1>1, <1>2, <1>5, <1>8, TimesFollow, Zenon DEF IInv
<1>10. ASSUME NEW h \in TxHash, NEW q \in Peer, ann'[h][q] # "NONE"
       PROVE  q \in connected'
  <2>1. ann[h][q] # "NONE" /\ q # p
    BY <1>2, <1>5, <1>7, <1>10, StatusFacts
  <2> QED BY <1>1, <2>1 DEF IInv, TypeOK
<1>11. IInv'
  <2>1. TypeOK'
    BY <1>1, <1>5, <1>9, <1>10 DEF IInv, TypeOK, Rows
  <2>2. SanityCheck'
    BY <1>3 DEF SanityCheck, RowIsSane, Selected, Ready, Priority
  <2> QED BY <2>1, <2>2 DEF IInv
<1>12. status' = [h \in TxHash |->
          [(IF Rules!Open(h, p) THEN Rules!Failed(h, p) ELSE status[h]) EXCEPT ![p] = "NONE"]]
  <2>1. status' = [h \in TxHash |-> Status(ann'[h])]
    BY DEF status, Status
  <2> QED BY <1>4, <2>1 DEF status, FailedRow, Nobody, Rules!Nobody, Rules!Open, Rules!Failed
<1> QED BY <1>1, <1>9, <1>11, <1>12 DEF Rules!Leave, status

\* An announcement that is not waiting for anything has no time.
NoStaleTime == \A h \in TxHash, p \in Peer : ann[h][p] \notin Timed => time[h][p] = 0

\* Handlers that change nothing the header's states show.
LEMMA HiddenStep ==
  ASSUME IInv, NoStaleTime, ann' = [h \in TxHash |-> ann'[h]],
         \A h \in TxHash : /\ ann'[h] \in Rows /\ RowIsSane(h, ann'[h])
                           /\ Status(ann'[h]) = Status(ann[h]),
         SetTimes(time), UNCHANGED <<lag, connected, sending>>
  PROVE  IInv' /\ UNCHANGED Rules!vars
<1>1. ann \in [TxHash -> Rows] /\ time \in [TxHash -> [Peer -> Int]] /\ ann' \in [TxHash -> Rows]
  BY DEF IInv, TypeOK, Rows
<1>2. IInv'
  <2>1. sending' \in connected \cup {nobody}
    BY DEF IInv, TypeOK
  <2> QED BY <2>1, QuietStep
<1>3. status' = status
  <2>1. status' = [h \in TxHash |-> Status(ann'[h])]
    BY DEF status, Status
  <2> QED BY <2>1 DEF status
<1>4. ASSUME NEW h \in TxHash, NEW p \in Peer
      PROVE  (ann'[h][p] \in Timed) = (ann[h][p] \in Timed)
  <2>1. ann[h] \in Rows /\ ann'[h] \in Rows
    BY <1>1
  <2> QED BY <2>1, StatusFacts
<1>5. time' = time
  BY <1>1, <1>4 DEF SetTimes, NoStaleTime
<1> QED BY <1>2, <1>3, <1>5 DEF Rules!vars, status

LEMMA ForwardStep ==
  ASSUME IInv, NoStaleTime, NEW i \in TxHash, NEW p \in Peer, SetTimePointForward(i, p)
  PROVE  IInv' /\ (Rules!Expire(i, p) \/ UNCHANGED Rules!vars)
<1>1. /\ ann[i][p] \in {"DELAYED", "REQUESTED"} /\ time[i][p] <= Now
      /\ ann' = [ann EXCEPT ![i] = IF @[p] = "DELAYED" THEN PromoteCandidateReady(i, @, p)
                                   ELSE MakeCompleted(i, @, p)]
      /\ SetTimes(time) /\ UNCHANGED <<lag, connected, sending>>
  BY DEF SetTimePointForward, Expired, Waiting
<1>2. /\ ann \in [TxHash -> Rows] /\ time \in [TxHash -> [Peer -> Int]]
      /\ sending \in connected \cup {nobody}
      /\ \A h \in TxHash : RowIsSane(h, ann[h])
  BY DEF IInv, TypeOK, SanityCheck, Rows
<1>3. ann' = [h \in TxHash |-> ann'[h]]
  BY <1>1, <1>2, Zenon
<1>4. CASE ann[i][p] = "DELAYED"
  <2>1. ann' = [ann EXCEPT ![i] = PromoteCandidateReady(i, ann[i], p)]
    BY <1>1, <1>4
  <2>2. \A h \in TxHash : /\ ann'[h] \in Rows /\ RowIsSane(h, ann'[h])
                          /\ Status(ann'[h]) = Status(ann[h])
    BY <1>2, <1>4, <2>1, PromoteIsSane, PromoteStatus
  <2> QED BY <1>1, <1>3, <2>2, HiddenStep, ZenonT(30)
<1>5. CASE ann[i][p] = "REQUESTED"
  <2>1. ann' = [ann EXCEPT ![i] = MakeCompleted(i, ann[i], p)]
    BY <1>1, <1>5
  <2>2. MakeCompleted(i, ann[i], p) \in Rows /\ RowIsSane(i, MakeCompleted(i, ann[i], p))
    BY <1>2, <1>5, CompletedIsSane
  <2>3. Status(ann'[i]) = FailedRow(Status(ann[i]), p)
    BY <1>2, <1>5, <2>1, CompletedStatus
  <2>4. \A h \in TxHash : ann'[h] \in Rows /\ RowIsSane(h, ann'[h])
    BY <1>2, <2>1, <2>2
  <2>5. Status(ann[i])[p] = "REQUESTED" /\ \A h \in TxHash :
          Status(ann[h]) \in [Peer -> {"NONE", "CANDIDATE", "REQUESTED", "COMPLETED"}]
    BY <1>2, <1>5, StatusFacts DEF Status
  <2>6. \A h \in TxHash, q \in Peer :
          /\ Status(ann'[h])[q] \in {Status(ann[h])[q], "NONE", "COMPLETED"}
          /\ Status(ann[h])[q] = "NONE" => Status(ann'[h])[q] = "NONE"
    BY <1>2, <2>1, <2>3, <2>5 DEF FailedRow, Nobody
  <2>7. IInv' /\ Rules!Times({})
    BY <1>1, <1>2, <1>3, <2>4, <2>6, QuietStep
  <2>8. status' = [status EXCEPT ![i] = Rules!Failed(i, p)]
    <3>1. status' = [h \in TxHash |-> Status(ann'[h])]
      BY DEF status, Status
    <3>2. Rules!Failed(i, p) = FailedRow(Status(ann[i]), p)
      BY DEF FailedRow, Rules!Failed, Rules!Open, Rules!Nobody, Nobody
    <3> QED BY <1>2, <2>1, <2>3, <3>1, <3>2, Zenon DEF status
  <2>9. Rules!Expire(i, p)
    BY <1>1, <2>5, <2>7, <2>8 DEF Rules!Expire, Rules!Now, Now, status
  <2> QED BY <2>7, <2>9
<1> QED BY <1>1, <1>4, <1>5

LEMMA BackwardStep ==
  ASSUME IInv, NoStaleTime, NEW i \in TxHash, NEW p \in Peer, SetTimePointBackward(i, p)
  PROVE  IInv' /\ UNCHANGED Rules!vars
<1>1. /\ ann[i][p] \in {"READY", "BEST"}
      /\ ann' = [ann EXCEPT ![i] = ChangeAndReselect(i, @, p, "DELAYED")]
      /\ SetTimes(time) /\ UNCHANGED <<lag, connected, sending>>
  BY DEF SetTimePointBackward, Early, Selectable
<1>2. ann \in [TxHash -> Rows] /\ \A h \in TxHash : RowIsSane(h, ann[h])
  BY DEF IInv, TypeOK, SanityCheck, Rows
<1>3. /\ ChangeAndReselect(i, ann[i], p, "DELAYED") \in Rows
      /\ RowIsSane(i, ChangeAndReselect(i, ann[i], p, "DELAYED"))
  BY <1>1, <1>2, ReselectIsSane
<1>4. Status(ChangeAndReselect(i, ann[i], p, "DELAYED")) = Status(ann[i])
  <2>1. "DELAYED" \in States
    BY DEF States
  <2>2. Status(ChangeAndReselect(i, ann[i], p, "DELAYED")) = Status([ann[i] EXCEPT ![p] = "DELAYED"])
    BY <1>2, <2>1, ReselectStatus
  <2> QED BY <1>1, <1>2, <2>2 DEF Status, Rows
<1>5. \A h \in TxHash : /\ ann'[h] \in Rows /\ RowIsSane(h, ann'[h])
                        /\ Status(ann'[h]) = Status(ann[h])
  BY <1>1, <1>2, <1>3, <1>4
<1>6. ann' = [h \in TxHash |-> ann'[h]]
  BY <1>1, <1>2, Zenon
<1> QED BY <1>1, <1>5, <1>6, HiddenStep

\* The cached choice is the choice the rules make: after SetTimePoint, a BEST
\* announcement is requestable, and one that is requestable and not BEST has a
\* rival of the same priority.
LEMMA BestIsRequestable ==
  ASSUME IInv, NoneExpired, NoneEarly, NEW h \in TxHash, NEW p \in Peer
  PROVE  /\ ann[h][p] = "BEST" => Rules!Requestable(h, p)
         /\ Rules!Requestable(h, p) /\ ann[h][p] # "BEST" =>
              \E q \in Peer \ {p} : Rules!Requestable(h, q)
<1> DEFINE row == ann[h]
<1>1. row \in Rows /\ RowIsSane(h, row)
  BY DEF IInv, TypeOK, SanityCheck, Rows
<1>2. \A q \in Peer : Rules!Due(h, q) <=> row[q] \in {"READY", "BEST"}
  <2>1. \A q \in Peer : /\ time[h][q] \in Int /\ Now \in Int
                        /\ row[q] = "DELAYED" => ~(time[h][q] <= Now)
                        /\ row[q] \in {"READY", "BEST"} => time[h][q] <= Now
    BY TxRequestAssumptions
    DEF NoneExpired, NoneEarly, Expired, Early, Waiting, Selectable, IInv, TypeOK, Now
  <2> QED BY <1>1, <2>1 DEF Rules!Due, Rules!Now, Now, Status, Rows, States
<1>3. \A q \in Peer : Status(row)[q] = "REQUESTED" <=> row[q] = "REQUESTED"
  BY <1>1 DEF Status, Rows
<1>4. \A q \in Peer : Rules!Priority(h, q) = Priority(h, q) /\ Priority(h, q) \in Int
  BY PriorityType, ZenonT(30) DEF Rules!Priority, Priority
<1>5. \A q \in Peer : Rules!Requestable(h, q) <=>
        /\ row[q] \in {"READY", "BEST"}
        /\ \A r \in Peer : row[r] # "REQUESTED"
        /\ \A r \in Peer : row[r] \in {"READY", "BEST"} => Priority(h, r) <= Priority(h, q)
  BY <1>2, <1>3, <1>4, ZenonT(30) DEF Rules!Requestable
<1>6. ASSUME NEW q \in Peer, row[q] = "BEST" PROVE Rules!Requestable(h, q)
  BY <1>1, <1>4, <1>5, <1>6 DEF RowIsSane, Selected, Ready
<1>7. ASSUME Rules!Requestable(h, p), row[p] # "BEST"
      PROVE  \E q \in Peer \ {p} : row[q] = "BEST"
  BY <1>1, <1>5, <1>7 DEF RowIsSane, Selected, Ready
<1> QED BY <1>6, <1>7

LEMMA GetDataStep ==
  ASSUME IInv, NEW had, SendGetData(had)
  PROVE  IInv' /\ \E p \in Peer : Rules!Request(p)
<1> DEFINE p == sending
           asked == {h \in TxHash : ann[h][p] = "BEST"}
           expiry == Now + GETDATA_TX_INTERVAL
           t == [h \in TxHash |-> IF h \in asked THEN [time[h] EXCEPT ![p] = expiry] ELSE time[h]]
<1>1. /\ sending # nobody /\ NoneExpired /\ NoneEarly /\ had \subseteq asked
      /\ ann' = [h \in TxHash |-> IF h \in had THEN Nobody
                                  ELSE IF h \in asked THEN RequestedTx(ann[h], p) ELSE ann[h]]
      /\ SetTimes(t) /\ sending' = nobody /\ UNCHANGED <<lag, connected>>
  BY DEF SendGetData, GetRequestable
<1>2. /\ ann \in [TxHash -> Rows] /\ time \in [TxHash -> [Peer -> Int]]
      /\ \A h \in TxHash : RowIsSane(h, ann[h])
      /\ expiry \in Int /\ p \in connected /\ p \in Peer /\ TypeOK
  BY <1>1, TxRequestAssumptions DEF IInv, TypeOK, SanityCheck, Rows, Now
<1> HIDE DEF p, expiry
<1>3. Status(Nobody) = Nobody
  BY ZenonT(30) DEF Status, Nobody
<1>4. ASSUME NEW h \in TxHash
      PROVE  /\ ann'[h] \in Rows /\ RowIsSane(h, ann'[h])
             /\ \/ ann[h][p] = "BEST" /\ Status(ann'[h]) \in {Nobody, [Status(ann[h]) EXCEPT ![p] = "REQUESTED"]}
                \/ ann[h][p] # "BEST" /\ Status(ann'[h]) = Status(ann[h])
  <2>0. ann[h] \in Rows /\ RowIsSane(h, ann[h])
    BY <1>2, ZenonT(30)
  <2>1. CASE h \in had
    <3>1. ann'[h] = Nobody /\ ann[h][p] = "BEST"
      BY <1>1, <2>1, ZenonT(30)
    <3> QED BY <1>3, <3>1, NobodyIsSane, ZenonT(30)
  <2>2. CASE h \notin had /\ ann[h][p] = "BEST"
    <3>1. ann'[h] = RequestedTx(ann[h], p)
      BY <1>1, <2>2
    <3>2. Status(RequestedTx(ann[h], p)) = [Status(ann[h]) EXCEPT ![p] = "REQUESTED"]
      BY <1>2, <2>0, <2>2, Zenon DEF RequestedTx, Status, Rows
    <3> QED BY <1>2, <2>0, <2>2, <3>1, <3>2, RequestedIsSane
  <2>3. CASE ann[h][p] # "BEST"
    <3>1. ann'[h] = ann[h]
      BY <1>1, <2>3
    <3> QED BY <2>0, <2>3, <3>1, ZenonT(30)
  <2> QED BY <2>1, <2>2, <2>3
<1>5. \A h \in TxHash :
        Status(ann[h]) \in [Peer -> {"NONE", "CANDIDATE", "REQUESTED", "COMPLETED"}]
  BY <1>2, StatusFacts
<1>6. ann' = [h \in TxHash |-> ann'[h]] /\ ann' \in [TxHash -> Rows]
  BY <1>1, <1>4, Zenon
<1>7. t \in [TxHash -> [Peer -> Int]]
  BY <1>2, ZenonT(30)
<1>8. \A h \in TxHash, q \in Peer :
        Status(ann'[h])[q] \in {"CANDIDATE", "REQUESTED"} =>
          IF Status(ann'[h])[q] = Status(ann[h])[q] THEN t[h][q] = time[h][q]
          ELSE t[h][q] \in {expiry}
  <2> SUFFICES ASSUME NEW h \in TxHash, NEW q \in Peer,
                      Status(ann'[h])[q] \in {"CANDIDATE", "REQUESTED"}
               PROVE  IF Status(ann'[h])[q] = Status(ann[h])[q] THEN t[h][q] = time[h][q]
                      ELSE t[h][q] \in {expiry}
    OBVIOUS
  <2>1. CASE ann[h][p] = "BEST"
    <3>1. Status(ann[h])[p] = "CANDIDATE"
      BY <1>2, <2>1 DEF Status
    <3>2. Status(ann'[h]) = [Status(ann[h]) EXCEPT ![p] = "REQUESTED"]
      BY <1>4, <2>1 DEF Nobody
    <3>3. t[h] = [time[h] EXCEPT ![p] = expiry]
      BY <2>1
    <3> QED BY <1>2, <1>5, <3>1, <3>2, <3>3, ZenonT(30)
  <2>2. CASE ann[h][p] # "BEST"
    BY <1>4, <2>2, Zenon
  <2> QED BY <2>1, <2>2, ZenonT(30)
<1> HIDE DEF t
<1>9. time' \in [TxHash -> [Peer -> Int]] /\ Rules!Times({expiry})
  BY <1>1, <1>2, <1>6, <1>7, <1>8, TimesFollow, Zenon
<1>10. IInv' /\ status' \in Rules!Statuses
  <2>1. \A h \in TxHash, q \in Peer \ {p} :
          Status(ann[h])[q] = "NONE" => Status(ann'[h])[q] = "NONE"
    BY <1>4, <1>5, Zenon DEF Nobody
  <2>2. {p} \in SUBSET connected /\ lag' \in 0 .. MaxLag /\ connected' = connected
        /\ sending' \in connected \cup {nobody}
    BY <1>1, <1>2, ZenonT(30) DEF TypeOK
  <2> QED BY <1>4, <1>6, <1>9, <2>1, <2>2, RowsFollow, Zenon
<1>11. \A h \in TxHash, q \in Peer : status[h][q] = "REQUESTED" => time[h][q] > Now
  <2> SUFFICES ASSUME NEW h \in TxHash, NEW q \in Peer, status[h][q] = "REQUESTED"
               PROVE  time[h][q] > Now
    BY ZenonT(30)
  <2>1. ann[h][q] = "REQUESTED"
    BY <1>2, ZenonT(30) DEF status, Status, Waiting, Rows
  <2>2. ~(time[h][q] <= Now)
    BY <1>1, <2>1, ZenonT(30) DEF NoneExpired, Expired, Waiting
  <2>3. time[h][q] \in Int /\ Now \in Int
    BY <1>2, TxRequestAssumptions DEF TypeOK, Now
  <2> QED BY <2>2, <2>3
<1>12. \A h \in TxHash :
         \/ /\ Rules!Requestable(h, p)
            /\ status'[h] \in {Rules!Nobody, [status[h] EXCEPT ![p] = "REQUESTED"]}
         \/ /\ Rules!Requestable(h, p) => \E q \in Peer \ {p} : Rules!Requestable(h, q)
            /\ status'[h] = status[h]
  <2> SUFFICES ASSUME NEW h \in TxHash
               PROVE  \/ /\ Rules!Requestable(h, p)
                         /\ status'[h] \in {Rules!Nobody, [status[h] EXCEPT ![p] = "REQUESTED"]}
                      \/ /\ Rules!Requestable(h, p) => \E q \in Peer \ {p} : Rules!Requestable(h, q)
                         /\ status'[h] = status[h]
    OBVIOUS
  <2>1. /\ ann[h][p] = "BEST" => Rules!Requestable(h, p)
        /\ Rules!Requestable(h, p) /\ ann[h][p] # "BEST" =>
             \E q \in Peer \ {p} : Rules!Requestable(h, q)
    BY <1>1, <1>2, BestIsRequestable, ZenonT(30)
  <2>2. status'[h] = Status(ann'[h]) /\ status[h] = Status(ann[h]) /\ Rules!Nobody = Nobody
    BY ZenonT(30) DEF status, Status, Nobody, Rules!Nobody
  <2> QED BY <1>4, <2>1, <2>2
<1>13. Rules!Request(p)
  BY <1>1, <1>9, <1>10, <1>11, <1>12, ZenonT(30) DEF Rules!Request, Rules!Now, Now, expiry, status
<1> QED BY <1>2, <1>10, <1>13, ZenonT(30)

LEMMA ClockStep ==
  ASSUME IInv, Tick \/ SetBack
  PROVE  IInv' /\ Rules!Clock
<1>1. /\ ann \in [TxHash -> Rows] /\ time \in [TxHash -> [Peer -> Int]]
      /\ lag \in 0 .. MaxLag /\ MaxLag \in Nat
  BY TxRequestAssumptions DEF IInv, TypeOK, Rows
<1>2. UNCHANGED <<ann, connected, sending>>
  BY DEF Tick, SetBack
<1>3. status' = status
  BY <1>2 DEF status, Status
<1>4. \A h \in TxHash, p \in Peer : Rules!Open(h, p) <=> ann[h][p] \in Timed
  BY <1>1, StatusFacts DEF Rules!Open
<1>5. CASE Tick /\ lag > 0
  <2>1. lag' = lag - 1 /\ time' = time
    BY <1>5 DEF Tick
  <2>2. lag' \in 0 .. MaxLag
    BY <1>1, <1>5, <2>1
  <2>3. IInv'
    BY <1>2, <2>1, <2>2, ZenonT(30)
    DEF IInv, TypeOK, SanityCheck, RowIsSane, Selected, Ready, Priority
  <2>4. Rules!Clock
    BY <1>3, <1>5, <2>1 DEF Rules!Clock, status
  <2> QED BY <2>3, <2>4
<1>6. CASE Tick /\ ~(lag > 0)
  <2>1. /\ time' = [h \in TxHash |-> [p \in Peer |->
                      IF ann[h][p] \in Timed /\ time[h][p] > -MaxLag
                      THEN time[h][p] - 1 ELSE time[h][p]]]
        /\ lag' = lag
    BY <1>6 DEF Tick
  <2>2. time' \in [TxHash -> [Peer -> Int]] /\ lag = 0
    BY <1>1, <1>6, <2>1
  <2>3. IInv'
    BY <1>2, <2>1, <2>2 DEF IInv, TypeOK, SanityCheck, RowIsSane, Selected, Ready, Priority
  <2>4. time' = [h \in TxHash |-> [p \in Peer |->
                   IF Rules!Open(h, p) /\ time[h][p] > -MaxLag THEN time[h][p] - 1
                   ELSE time[h][p]]]
    BY <1>4, <2>1
  <2> QED BY <1>3, <2>1, <2>2, <2>3, <2>4 DEF Rules!Clock, status
<1>7. CASE SetBack
  <2>1. lag' \in lag + 1 .. MaxLag /\ time' = time
    BY <1>7 DEF SetBack
  <2>2. lag' \in 0 .. MaxLag
    BY <1>1, <2>1
  <2>3. IInv'
    BY <1>2, <2>1, <2>2, ZenonT(30)
    DEF IInv, TypeOK, SanityCheck, RowIsSane, Selected, Ready, Priority
  <2>4. Rules!Clock
    BY <1>3, <2>1 DEF Rules!Clock, status
  <2> QED BY <2>3, <2>4
<1> QED BY <1>5, <1>6, <1>7

LEMMA SendStep ==
  ASSUME IInv, NEW p \in Peer, SendMessages(p)
  PROVE  IInv' /\ UNCHANGED Rules!vars
BY DEF SendMessages, IInv, TypeOK, SanityCheck, RowIsSane, Selected, Ready, Priority,
       Rules!vars, Status

LEMMA InitOK == Init => IInv /\ NoStaleTime /\ Rules!Init
<1> SUFFICES ASSUME Init PROVE IInv /\ NoStaleTime /\ Rules!Init
  OBVIOUS
<1>1. TypeOK
  BY TxRequestAssumptions DEF Init, TypeOK, Nobody, States
<1>2. SanityCheck
  BY NobodyIsSane DEF Init, SanityCheck
<1>3. Status(Nobody) = Nobody
  BY DEF Status, Nobody
<1>4. Rules!Init
  BY <1>3 DEF Init, Nobody, Rules!Init, Rules!Nobody
<1> QED BY <1>1, <1>2, <1>4 DEF IInv, NoStaleTime, Init

\* Every step keeps the invariant, and is one the rules allow.
LEMMA NextStep ==
  ASSUME IInv, NoStaleTime, [Next]_vars
  PROVE  IInv' /\ [Rules!Next]_(Rules!vars)
<1>1. ASSUME NEW p \in Peer, NEW h \in TxHash, Inv(p, h) \/ NotFound(p, h)
      PROVE  IInv' /\ Rules!Next
  BY <1>1, InvStep, NotFoundStep DEF Rules!Next
<1>2. ASSUME NEW p \in Peer, NEW h \in TxHash,
             SetTimePointForward(h, p) \/ SetTimePointBackward(h, p)
      PROVE  IInv' /\ [Rules!Next]_(Rules!vars)
  BY <1>2, ForwardStep, BackwardStep DEF Rules!Next
<1>3. ASSUME NEW p \in Peer, NEW tx \in Txs, NEW forgotten, NEW parents,
             Tx(p, tx, forgotten, parents)
      PROVE  IInv' /\ Rules!Next
  BY <1>3, TxStep DEF Rules!Next
<1>4. ASSUME NEW tx \in Txs, BlockConnected(tx) PROVE IInv' /\ Rules!Next
  BY <1>4, BlockStep DEF Rules!Next
<1>5. ASSUME NEW p \in Peer, FinalizeNode(p) PROVE IInv' /\ Rules!Next
  BY <1>5, FinalizeStep DEF Rules!Next
<1>6. ASSUME NEW p \in Peer, SendMessages(p) PROVE IInv' /\ UNCHANGED Rules!vars
  BY <1>6, SendStep
<1>7. ASSUME NEW had, SendGetData(had) PROVE IInv' /\ Rules!Next
  BY <1>7, GetDataStep DEF Rules!Next
<1>8. CASE Tick \/ SetBack
  BY <1>8, ClockStep, ZenonT(30) DEF Rules!Next
<1>9. CASE UNCHANGED vars
  BY <1>9 DEF vars, IInv, TypeOK, SanityCheck, RowIsSane, Selected, Ready, Priority,
             Rules!vars, Status
<1> QED BY <1>1, <1>2, <1>3, <1>4, <1>5, <1>6, <1>7, <1>8, <1>9, Zenon DEF Next

LEMMA TimesStay ==
  ASSUME NoStaleTime, [Next]_vars
  PROVE  NoStaleTime'
<1>1. ASSUME NEW t, SetTimes(t) PROVE NoStaleTime'
  BY <1>1, ZenonT(30) DEF SetTimes, NoStaleTime, Timed, Waiting, Selectable
<1>2. CASE UNCHANGED <<ann, time>>
  BY <1>2, ZenonT(30) DEF NoStaleTime, Timed, Waiting, Selectable
<1>3. CASE Tick
  BY <1>2, <1>3 DEF Tick, NoStaleTime, Timed, Waiting, Selectable
<1>4. ASSUME NEW p \in Peer, NEW h \in TxHash, Inv(p, h) PROVE NoStaleTime'
  BY <1>1, <1>4 DEF Inv
<1>5. ASSUME NEW p \in Peer, NEW h \in TxHash, NotFound(p, h) PROVE NoStaleTime'
  BY <1>1, <1>5, ZenonT(30) DEF NotFound
<1>6. ASSUME NEW p \in Peer, NEW h \in TxHash,
             SetTimePointForward(h, p) \/ SetTimePointBackward(h, p)
      PROVE  NoStaleTime'
  BY <1>1, <1>6, ZenonT(30) DEF SetTimePointForward, SetTimePointBackward
<1>7. ASSUME NEW p \in Peer, NEW tx \in Txs, NEW forgotten, NEW parents,
             Tx(p, tx, forgotten, parents)
      PROVE  NoStaleTime'
  BY <1>1, <1>7, ZenonT(30) DEF Tx
<1>8. ASSUME NEW tx \in Txs, BlockConnected(tx) PROVE NoStaleTime'
  BY <1>1, <1>8 DEF BlockConnected
<1>9. ASSUME NEW p \in Peer, FinalizeNode(p) \/ SendMessages(p) PROVE NoStaleTime'
  BY <1>1, <1>2, <1>9, ZenonT(30) DEF FinalizeNode, SendMessages
<1>10. ASSUME NEW had, SendGetData(had) PROVE NoStaleTime'
  BY <1>1, <1>10 DEF SendGetData
<1>11. CASE SetBack \/ UNCHANGED vars
  BY <1>2, <1>11 DEF SetBack, vars
<1> QED BY <1>3, <1>4, <1>5, <1>6, <1>7, <1>8, <1>9, <1>10, <1>11, Zenon DEF Next

\* Announcements are typed and belong to connected peers.
THEOREM TypeCorrect == Spec => []TypeOK
BY InitOK, NextStep, TimesStay, PTL DEF Spec, IInv

\* The index of the tracker stays sane through every handler and every
\* iteration of SetTimePoint.
THEOREM TrackerIsSane == Spec => []SanityCheck
BY InitOK, NextStep, TimesStay, PTL DEF Spec, IInv

\* The tracker with its cached choice keeps the rules of txrequest.h.
THEOREM RulesAreKept == Spec => KeepsTheRules
BY InitOK, NextStep, TimesStay, PTL DEF Spec, KeepsTheRules, Rules!Spec
=============================================================================
