--------------------------- MODULE TxRequestRules ---------------------------
(***************************************************************************)
(* What TxRequestTracker promises, as the specification comment of         *)
(* txrequest.h states it: which announcements are candidates, which one is *)
(* asked for, and when one is forgotten.  There is no READY, no BEST and   *)
(* no cached choice here: the choice is made when a peer is asked.         *)
(*                                                                         *)
(* Times are relative to the latest clock reading: a time that lies in the *)
(* past whatever the clock does is -MaxLag.                                *)
(***************************************************************************)
EXTENDS Integers

CONSTANTS
  Peer,          \* NodeId of the connections
  TxHash,        \* txids and wtxids
  Preferred,     \* the peers with fPreferredDownload
  LowBits,       \* LowBits[h][p]: the salted hash of txhash and peer
  TopBit,        \* 2^63: larger than every value of LowBits
  MaxLag,        \* how far the clock may fall behind its latest reading
  MaxDelay,      \* bound on reqtime - now for a new announcement
  GETDATA_TX_INTERVAL

VARIABLES
  status,        \* status[h][p]: "NONE", "CANDIDATE", "REQUESTED" or "COMPLETED"
  when,          \* when[h][p]: reqtime of a candidate, expiry of a request
  lag            \* how far the clock is behind its latest reading

vars == <<status, when, lag>>

Now == -lag

\* PriorityComputer: the preferred peers come before all others.
Priority(h, p) == LowBits[h][p] + (IF p \in Preferred THEN TopBit ELSE 0)

Nobody == [p \in Peer |-> "NONE"]

Open(h, p) == status[h][p] \in {"CANDIDATE", "REQUESTED"}

Due(h, p) == status[h][p] = "CANDIDATE" /\ when[h][p] <= Now

\* The peer is the one to ask for the transaction: nobody is being asked for
\* it, and no due candidate has a higher priority.
Requestable(h, p) ==
  /\ Due(h, p)
  /\ \A q \in Peer : status[h][q] # "REQUESTED"
  /\ \A q \in Peer : Due(h, q) => Priority(h, q) <= Priority(h, p)

\* An announcement that failed is kept, so that it is not repeated, as long as
\* another one for the transaction is open.
Failed(h, p) ==
  IF \E q \in Peer \ {p} : Open(h, q)
  THEN [status[h] EXCEPT ![p] = "COMPLETED"]
  ELSE Nobody

\* A new candidate or request gets one of the given times, an old one keeps
\* its own, and an announcement that is neither has none.
Times(new) ==
  /\ when' \in [TxHash -> [Peer -> Int]]
  /\ \A h \in TxHash, p \in Peer :
       IF status'[h][p] \notin {"CANDIDATE", "REQUESTED"} THEN when'[h][p] = 0
       ELSE IF status'[h][p] = status[h][p] THEN when'[h][p] = when[h][p]
       ELSE when'[h][p] \in new

Statuses == [TxHash -> [Peer -> {"NONE", "CANDIDATE", "REQUESTED", "COMPLETED"}]]

Init ==
  /\ status = [h \in TxHash |-> Nobody]
  /\ when = [h \in TxHash |-> [p \in Peer |-> 0]]
  /\ lag = 0

Expire(h, p) ==
  /\ status[h][p] = "REQUESTED" /\ when[h][p] <= Now
  /\ status' = [status EXCEPT ![h] = Failed(h, p)]
  /\ Times({})
  /\ UNCHANGED lag

\* One peer is asked for everything it is the one to ask for; what the node
\* turns out to have is forgotten instead.  When hashes collide, another peer
\* of the same priority may be the one to ask.
Request(p) ==
  /\ \A h \in TxHash, q \in Peer : status[h][q] = "REQUESTED" => when[h][q] > Now
  /\ status' \in Statuses
  /\ \A h \in TxHash :
       \/ /\ Requestable(h, p)
          /\ status'[h] \in {Nobody, [status[h] EXCEPT ![p] = "REQUESTED"]}
       \/ /\ Requestable(h, p) => \E q \in Peer \ {p} : Requestable(h, q)
          /\ status'[h] = status[h]
  /\ Times({Now + GETDATA_TX_INTERVAL})
  /\ UNCHANGED lag

\* A message of a peer announces transactions the peer has no announcement
\* for, answers announcements of the peer, and makes the node forget others.
Message(p) ==
  /\ status' \in Statuses
  /\ \A h \in TxHash :
       \/ status'[h] \in {status[h], Nobody}
       \/ Open(h, p) /\ status'[h] = Failed(h, p)
       \/ status[h][p] = "NONE" /\ status'[h] = [status[h] EXCEPT ![p] = "CANDIDATE"]
  /\ Times(Now .. Now + MaxDelay)
  /\ UNCHANGED lag

\* A block confirms transactions: they are forgotten.
Forget ==
  /\ status' \in Statuses
  /\ \A h \in TxHash : status'[h] \in {status[h], Nobody}
  /\ Times({})
  /\ UNCHANGED lag

Leave(p) ==
  /\ status' = [h \in TxHash |->
                  [(IF Open(h, p) THEN Failed(h, p) ELSE status[h]) EXCEPT ![p] = "NONE"]]
  /\ Times({})
  /\ UNCHANGED lag

\* The clock advances, or is set back.
Clock ==
  \/ lag > 0 /\ lag' = lag - 1 /\ UNCHANGED <<status, when>>
  \/ /\ lag = 0
     /\ when' = [h \in TxHash |-> [p \in Peer |->
                   IF Open(h, p) /\ when[h][p] > -MaxLag THEN when[h][p] - 1
                   ELSE when[h][p]]]
     /\ UNCHANGED <<status, lag>>
  \/ lag' \in lag + 1 .. MaxLag /\ UNCHANGED <<status, when>>

Next ==
  \/ \E h \in TxHash, p \in Peer : Expire(h, p)
  \/ \E p \in Peer : Request(p) \/ Message(p) \/ Leave(p)
  \/ Forget \/ Clock

Spec == Init /\ [][Next]_vars
=============================================================================
