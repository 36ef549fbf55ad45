---------------------------- MODULE CommitOrder -----------------------------
(***************************************************************************)
(* Requests reach the binlog in the order in which they were queued: the   *)
(* places two requests hold in the line never change sides, and a record   *)
(* is only ever appended for a request of the group in hand.               *)
(***************************************************************************)
EXTENDS CommitAnswers

-----------------------------------------------------------------------------
(* Order *)

\* Who stands behind whom, by their places in the line.
LEMMA BehindPlaces ==
  ASSUME Inv, NEW r, NEW s
  PROVE  Behind(s, r) <=> \E i, j \in 1..Len(Waiting) : i < j /\ Waiting[i] = r /\ Waiting[j] = s
<1>3. DOMAIN (group \o Coming) = 1..Len(Waiting)
  BY JoinedLine, ComingType DEF Waiting, Inv, TypeOK
<1> QED
  BY <1>3 DEF Behind, Waiting

\* Two requests in a line without repetitions have one order.
LEMMA OneOrder ==
  ASSUME NEW w, Len(w) \in Nat, Injective(w),
         NEW i \in 1..Len(w), NEW j \in 1..Len(w), i < j,
         NEW k \in 1..Len(w), NEW l \in 1..Len(w), k < l,
         w[k] = w[j], w[l] = w[i]
  PROVE  FALSE
<1> QED
  BY DEF Injective

\* Two requests that wait never change places: what a step leaves of the line
\* keeps its order (the FIFO channel of the coordinator and its drain loop).
LEMMA PlacesKept ==
  ASSUME Inv, InLine, [Next]_vars, NEW r \in Requests, NEW s \in Requests, Behind(s, r)
  PROVE  ~Behind(r, s)'
<1>0. Inv'
  BY TypeStep, GatesStep, ChainStep, FileStep DEF Inv
<1>1. PICK i \in 1..Len(Waiting), j \in 1..Len(Waiting) :
        i < j /\ Waiting[i] = r /\ Waiting[j] = s
  BY BehindPlaces
<1>2. Len(Waiting) \in Nat /\ Waiting \in Seq(Requests) /\ Injective(Waiting)
  BY JoinedLine, ComingType DEF Inv, TypeOK, Waiting, InLine
<1> SUFFICES ASSUME Behind(r, s)' PROVE FALSE
  OBVIOUS
<1>3. PICK k \in 1..Len(Waiting'), l \in 1..Len(Waiting') :
        k < l /\ Waiting'[k] = s /\ Waiting'[l] = r
  <2>1. group' \in Seq(Requests) /\ Coming' \in Seq(Requests)
    BY <1>0, ConcatProperties DEF Inv, TypeOK, Coming
  <2>3. DOMAIN (group' \o Coming') = 1..Len(Waiting')
    BY <2>1, JoinedLine DEF Waiting
  <2> QED
    BY <2>3, Zenon DEF Behind, Waiting
<1>4. CASE Stays
  <2>1. Waiting' = Waiting
    BY <1>4 DEF Stays
  <2> QED
    BY <1>1, <1>2, <1>3, <2>1, OneOrder
<1>5. ASSUME NEW t \in Requests, Joins(t) PROVE FALSE
  <2>2. /\ Len(Waiting') = Len(Waiting) + 1 /\ Waiting'[Len(Waiting) + 1] = t
        /\ \A m \in 1..Len(Waiting) : Waiting'[m] = Waiting[m]
    BY <1>2, <1>5, AppendExtends DEF Extends, Joins
  <2>4. k \in 1..Len(Waiting) /\ l \in 1..Len(Waiting)
    BY <1>2, <1>3, <2>2, <1>1, <1>5 DEF Joins
  <2>5. Waiting[k] = s /\ Waiting[l] = r
    BY <1>3, <2>2, <2>4
  <2> QED
    BY <1>1, <1>2, <1>3, <2>4, <2>5, OneOrder
<1>6. CASE Leaves
  <2>1. /\ Len(group) \in Nat /\ Len(Waiting') \in Nat
        /\ Len(Waiting) = Len(group) + Len(Waiting')
        /\ \A m \in 1..Len(Waiting') : Waiting'[m] = Waiting[Len(group) + m]
    BY <1>6, LeavesLine
  <2>2. /\ Len(group) + k \in 1..Len(Waiting) /\ Len(group) + l \in 1..Len(Waiting)
        /\ Len(group) + k < Len(group) + l
    BY <1>3, <2>1
  <2>3. Waiting[Len(group) + k] = s /\ Waiting[Len(group) + l] = r
    BY <1>3, <2>1
  <2> QED
    BY <1>1, <1>2, <2>2, <2>3, OneOrder
<1>7. CASE Ends
  BY <1>3, <1>7, EmptySeq, ConcatEmptySeq DEF Ends, Waiting
<1> QED
  BY <1>4, <1>5, <1>6, <1>7, LineStep

\* Only an append puts the record of a request into the file.
LEMMA OnlyAppendLogs ==
  ASSUME Inv, [Next]_vars, NEW r, ~InLog(r), InLog(r)'
  PROVE  AppendRecord
<1>k. log' # log
  BY DEF InLog
<1>1. ASSUME NEW q \in Requests, Submit(q) PROVE FALSE
  BY <1>1, <1>k DEF Submit, files
<1>3. ~Execute /\ ~NextRequest /\ ~ExecuteFails /\ ~AppendAccepted /\ ~AppendIndeterminate
  BY <1>k, Zenon DEF Execute, NextRequest, ExecuteFails, AppendAccepted, AppendIndeterminate,
     files
<1>4. ~UndoLast /\ ~UndoDone /\ ~WorkerPanics
  BY <1>k DEF UndoLast, UndoDone, WorkerPanics, files
<1>5. ASSUME NEW kind \in {"snapshot", "sync"}, CaptureBegins(kind) PROVE FALSE
  BY <1>5, <1>k DEF CaptureBegins, files
<1>8. ~Capture /\ ~AdmissionChanges
  BY <1>k DEF Capture, AdmissionChanges, files
<1>6. ~SyncFails /\ ~FailStop /\ ~Restart /\ ~UNCHANGED vars
  BY <1>k DEF SyncFails, FailStop, Restart, vars, files
<1>7. ASSUME AppendRejected PROVE FALSE
  BY <1>7, PrefixProperties DEF AppendRejected, InLog, Inv, TypeOK, FileOnChain
<1> QED
  BY <1>1, <1>k, <1>3, <1>4, <1>5, <1>6, <1>7, <1>8 DEF Next, Worker, TakeFirst, TakeMore, Start,
     AwaitAdmission, TakeWriteGate, TakeFence, files

\* A request whose successor in the line is already logged is never logged after
\* it: the records follow the mutations, and those the group.
LEMMA NeverLoggedAfter ==
  ASSUME AInv, [Next]_vars, NEW r \in Requests, NEW s \in Requests,
         Behind(s, r), InLog(s), ~InLog(r)
  PROVE  ~InLog(r)'
<1> SUFFICES ASSUME InLog(r)' PROVE FALSE
  OBVIOUS
<1>0. /\ Inv /\ InLine /\ log \in Seq(LogRecords) /\ Len(log) \in Nat /\ DOMAIN log = 1..Len(log)
      /\ offset \in Nat /\ written \in Nat /\ Len(entries) \in Nat
      /\ group \in Seq(Requests) /\ Coming \in Seq(Requests)
  BY ComingType DEF AInv, Inv, TypeOK
<1>1. AppendRecord
  BY <1>0, OnlyAppendLogs
<1>2. /\ phase = "execute" /\ written < Len(entries) /\ Len(log) = offset + written
      /\ log' = Append(log, Record(entries[written + 1]))
  BY <1>1 DEF AppendRecord, Executed, AInv, Inv, FileOnChain
<1> DEFINE e == Record(entries[written + 1])
<1>3. e.request = r
  <2>1. Extends(log', log, e)
    BY <1>0, <1>2, AppendExtends
  <2>2. log' \in Seq(LogRecords)
    BY <1>0, TypeStep DEF TypeOK
  <2>3. PICK i \in DOMAIN log' : log'[i].request = r
    BY DEF InLog
  <2>4. i \in 1..Len(log) \/ i = Len(log) + 1
    BY <1>0, <2>1, <2>2 DEF Extends
  <2> QED
    BY <2>1, <2>3, <2>4, <1>0 DEF Extends, InLog
<1>4. entries[written + 1].request = r
  BY <1>3 DEF Record
<1>5. PICK i \in 1..Len(Waiting), j \in 1..Len(Waiting) :
        i < j /\ Waiting[i] = r /\ Waiting[j] = s
  BY <1>0, BehindPlaces
<1>6. PICK m \in 1..Len(log) : log[m].request = s
  BY <1>0 DEF InLog
<1>7. answer[s] = "none"
  BY <1>0, <1>5 DEF InLine
<1>8. m > offset
  BY <1>6, <1>7 DEF AInv, LogSettled, Settled
<1> DEFINE k == m - offset
<1>9. k \in 1..written /\ offset + k = m /\ k \in 1..Len(entries) /\ k < written + 1
      /\ written + 1 \in 1..Len(entries)
  BY <1>0, <1>2, <1>8
<1> HIDE DEF k
<1>10. log[offset + k] = Record(entries[k])
  BY <1>2, <1>9 DEF AInv, TailInHand
<1>11. entries[k].request = s
  BY <1>6, <1>9, <1>10 DEF Record
<1>12. PICK a \in 1..Len(group) : entries[k].request = group[a]
  BY <1>9, Zenon DEF AInv, InOrder
<1>13. PICK b \in 1..Len(group) : entries[written + 1].request = group[b]
  BY <1>9, Zenon DEF AInv, InOrder
<1>14. a <= b
  BY <1>9, <1>12, <1>13 DEF AInv, InOrder
<1>15. Joined(Waiting, group, Coming)
  BY <1>0, JoinedLine DEF Waiting
<1>16. /\ a \in 1..Len(Waiting) /\ b \in 1..Len(Waiting)
       /\ Waiting[a] = group[a] /\ Waiting[b] = group[b]
  BY <1>0, <1>15 DEF Joined
<1>17. i = b /\ j = a
  BY <1>0, <1>4, <1>5, <1>11, <1>12, <1>13, <1>16 DEF InLine, Injective
<1> QED
  BY <1>5, <1>14, <1>17

\* No request overtakes another on its way to the binlog, in any behaviour
\* (run_master_commit_coordinator, process_commit_group).
THEOREM LogOrder == Spec => NoOvertaking
<1> DEFINE Orderly ==
      \A r, s \in Requests :
        Behind(s, r) => ~Behind(r, s)' /\ (InLog(s) /\ ~InLog(r) => ~InLog(r)')
<1>1. AInv /\ [Next]_vars => [Orderly]_vars
  BY PlacesKept, NeverLoggedAfter DEF AInv
<1> QED
  BY AnswerInvariance, <1>1, PTL DEF Spec, NoOvertaking
=============================================================================
