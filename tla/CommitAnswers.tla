--------------------------- MODULE CommitAnswers ----------------------------
(***************************************************************************)
(* What the coordinator tells its clients and its replicas is what is in   *)
(* the binlog: every step keeps the parts of AInv about answers and about  *)
(* the published records, and the theorems that follow from it.            *)
(***************************************************************************)
EXTENDS CommitLine

-----------------------------------------------------------------------------
(* Answers *)

\* A step gives answers only where there was none, and none says committed.
Rests ==
  \A r \in Requests :
    /\ answer[r] # "none" => answer'[r] = answer[r]
    /\ answer'[r] = "committed" => answer[r] = "committed"

\* Answering a set of requests with anything but committed is such a step.
LEMMA AnsweredRests ==
  ASSUME NEW rs, NEW a, a # "committed", answer' = Answered(rs, a)
  PROVE  Rests
  BY DEF Answered, Rests

\* Who is in the set and had no answer has it then.
LEMMA AnsweredAll ==
  ASSUME NEW rs, NEW a, answer' = Answered(rs, a)
  PROVE  \A r \in Requests : r \in rs /\ answer[r] = "none" => answer'[r] = a
  BY DEF Answered

\* Every step but an accepted append only gives answers other than committed,
\* and to no one twice (fail_prepared, the completion channels).
LEMMA AnswerStep == Inv /\ [Next]_vars => Rests \/ AppendAccepted
<1> SUFFICES ASSUME Inv, [Next]_vars PROVE Rests \/ AppendAccepted
  OBVIOUS
<1>k. UNCHANGED answer => Rests
  BY DEF Rests
<1>1. ASSUME NEW r \in Requests, Submit(r) PROVE Rests
  BY <1>1 DEF Inv, TypeOK, Rests, Submit
<1>2. CASE TakeFirst
  BY <1>2, <1>k DEF TakeFirst
<1>3. CASE Start
  <2> QED
    BY <1>3, <1>k, AnsweredRests DEF Start
<1>4. CASE TakeWriteGate
  BY <1>4, <1>k DEF TakeWriteGate
<1>5. CASE TakeFence
  BY <1>5, <1>k, AnsweredRests DEF TakeFence, Finish
<1>6. CASE Execute
  BY <1>6, <1>k DEF Execute
<1>7. CASE NextRequest
  BY <1>7, <1>k DEF NextRequest
<1>8. CASE ExecuteFails
  BY <1>8, <1>k DEF ExecuteFails
<1>9. CASE AppendRecord
  BY <1>9, <1>k DEF AppendRecord
<1>11. CASE AppendRejected
  BY <1>11, <1>k DEF AppendRejected
<1>12. CASE UndoLast
  BY <1>12, <1>k DEF UndoLast
<1>13. CASE UndoDone
  BY <1>13, AnsweredRests DEF UndoDone, Finish
<1>14. CASE AppendIndeterminate
  BY <1>14, AnsweredRests DEF AppendIndeterminate, Finish
<1>15. CASE WorkerPanics
  BY <1>15, AnsweredRests DEF WorkerPanics, Abandoned
<1>16. ASSUME NEW kind \in {"snapshot", "sync"}, CaptureBegins(kind) PROVE Rests
  BY <1>16, <1>k DEF CaptureBegins
<1>21. CASE TakeMore
  BY <1>21, <1>k DEF TakeMore
<1>22. CASE AwaitAdmission
  BY <1>22, <1>k DEF AwaitAdmission
<1>23. CASE AdmissionChanges
  BY <1>23, <1>k DEF AdmissionChanges
<1>24. CASE Capture
  BY <1>24, <1>k DEF Capture
<1>17. CASE SyncFails
  BY <1>17, <1>k DEF SyncFails
<1>18. CASE FailStop
  BY <1>18, <1>k DEF FailStop
<1>19. CASE Restart
  BY <1>19, AnsweredRests DEF Restart, Finish
<1>20. CASE UNCHANGED vars
  BY <1>20, <1>k DEF vars
<1> QED
  BY <1>1, <1>2, <1>3, <1>4, <1>5, <1>6, <1>7, <1>8, <1>9, <1>11, <1>12, <1>13, <1>14, <1>15,
     <1>16, <1>17, <1>18, <1>19, <1>20, <1>21, <1>22, <1>23, <1>24 DEF Next, Worker

\* The record at position i is that of a mutation of a request of the group,
\* which has no answer yet.
Pending(i) ==
  /\ \E k \in 1..Len(entries) : log[i].request = entries[k].request
  /\ log[i].request \in Grouped /\ answer[log[i].request] = "none"

\* The records after the accepted ones are pending.
LEMMA TailPending ==
  ASSUME AInv, phase = "execute", NEW i \in 1..Len(log), i > offset
  PROVE  Pending(i)
<1>1. /\ offset \in Nat /\ written \in Nat /\ Len(log) \in Nat /\ Len(entries) \in Nat
      /\ Len(log) = offset + written /\ written <= Len(entries)
      /\ DOMAIN group = 1..Len(group) /\ Len(group) \in Nat
  BY DEF AInv, Inv, TypeOK, FileOnChain
<1> DEFINE k == i - offset
<1>2. k \in 1..written /\ k \in 1..Len(entries) /\ offset + k = i
  BY <1>1
<1>3. log[i] = Record(entries[k])
  BY <1>2 DEF AInv, TailInHand
<1> HIDE DEF k
<1>5. PICK a \in 1..Len(group) : entries[k].request = group[a]
  BY <1>2, Zenon DEF AInv, InOrder
<1>6. answer[group[a]] = "none"
  BY GroupInLine DEF AInv
<1> QED
  BY <1>1, <1>2, <1>3, <1>5, <1>6 DEF Pending, Grouped, Elements, Record

\* Every step keeps the records settled: each belongs to a request answered
\* committed, lost or indeterminate, or still in hand.
LEMMA SettledStep == AInv /\ [Next]_vars => LogSettled'
<1> SUFFICES ASSUME AInv, [Next]_vars PROVE LogSettled'
  OBVIOUS
<1>0. /\ log \in Seq(LogRecords) /\ Len(log) \in Nat /\ offset \in Nat /\ written \in Nat
      /\ offset <= Len(log) /\ Inv
  BY DEF AInv, Inv, TypeOK, FileOnChain
<1>r. \A i \in 1..Len(log) : log[i].request \in Requests
  <2>1. \A i \in 1..Len(log) : log[i] \in LogRecords
    BY <1>0, ElementOfSeq
  <2> QED
    BY <2>1 DEF LogRecords
<1>s. \A i \in 1..Len(log) :
        answer[log[i].request] \in Settled \/ (phase = "execute" /\ i > offset)
  BY DEF AInv, LogSettled
<1>n. "none" \notin Settled
  BY DEF Settled
<1> DEFINE Calm == UNCHANGED <<log, offset>> /\ Rests /\ (phase' = phase \/ phase # "execute")
\* Where all records are accepted or settled now, they are settled afterwards.
<1>k. Calm => LogSettled'
  BY <1>r, <1>s, <1>n DEF LogSettled, Rests
\* Where the group in hand is answered as a whole, its records are settled by that.
<1>f. ASSUME NEW rs, NEW a \in Settled, Grouped \subseteq rs, answer' = Answered(rs, a), log' = log
      PROVE  LogSettled'
  <2> SUFFICES ASSUME NEW i \in 1..Len(log) PROVE answer'[log[i].request] \in Settled
    BY <1>f DEF LogSettled
  <2>1. log[i].request \in Requests
    BY <1>r
  <2>2. CASE answer[log[i].request] \in Settled
    BY <1>f, <1>n, <2>1, <2>2 DEF Answered
  <2>3. CASE phase = "execute" /\ i > offset
    BY <2>3, TailPending, <1>f, <2>1 DEF Pending, Answered
  <2> QED
    BY <1>s, <2>2, <2>3
<1>c. Rests \/ AppendAccepted
  BY <1>0, AnswerStep
<1>1. ASSUME NEW r \in Requests, Submit(r) PROVE LogSettled'
  BY <1>1, <1>k, <1>c DEF Submit, worker, files, AppendAccepted, Appended, Executed, Finish
<1>2. CASE TakeFirst
  BY <1>2, <1>k, <1>c DEF TakeFirst, files, AppendAccepted, Appended, Executed
<1>3. CASE Start
  BY <1>3, <1>k, <1>c DEF Start, files, AppendAccepted, Appended, Executed
<1>4. CASE TakeWriteGate
  BY <1>4, <1>k, <1>c DEF TakeWriteGate, files, AppendAccepted, Appended, Executed
<1>5. CASE TakeFence
  BY <1>5, <1>k, <1>c DEF TakeFence, files, AppendAccepted, Appended, Executed
<1>6. CASE Execute
  BY <1>6, <1>k DEF Execute, files, Rests
<1>7. CASE NextRequest
  BY <1>7, <1>k DEF NextRequest, files, Rests
<1>8. CASE ExecuteFails
  BY <1>0, <1>8, <1>s DEF ExecuteFails, files, Inv, FileOnChain, LogSettled
<1>9. CASE AppendRecord
  BY <1>9, <1>0, AppendExtends, <1>s DEF AppendRecord, Executed, Extends, LogSettled
<1>10. CASE AppendAccepted
  <2>1. answer' = Completed /\ log' = log
    BY <1>10 DEF AppendAccepted, Finish
  <2> SUFFICES ASSUME NEW i \in 1..Len(log) PROVE answer'[log[i].request] \in Settled
    BY <2>1 DEF LogSettled
  <2>2. log[i].request \in Requests
    BY <1>r
  <2>3. CASE answer[log[i].request] \in Settled
    BY <1>n, <2>1, <2>2, <2>3 DEF Completed
  <2>4. CASE phase = "execute" /\ i > offset
    <3>1. Pending(i)
      BY <2>4, TailPending
    <3>2. PICK k \in 1..Len(entries) : log[i].request = entries[k].request
      BY <3>1 DEF Pending
    <3>4. log[i].request \in {entries[j].request : j \in DOMAIN entries}
      BY <3>2, <1>0 DEF Inv, TypeOK
    <3> QED
      BY <2>1, <2>2, <3>1, <3>4 DEF Settled, Completed, Pending
  <2> QED
    BY <1>s, <2>3, <2>4
<1>11. CASE AppendRejected
  BY <1>11, <1>0, PrefixProperties, <1>s DEF AppendRejected, LogSettled
<1>12. CASE UndoLast
  BY <1>12, <1>k DEF UndoLast, files, Rests
<1>13. CASE UndoDone
  BY <1>13, <1>k, <1>c DEF UndoDone, files, AppendAccepted, Appended, Executed
<1>14. CASE AppendIndeterminate
  BY <1>14, <1>f DEF AppendIndeterminate, Finish, files, Settled
<1>15. CASE WorkerPanics
  BY <1>15, <1>f DEF WorkerPanics, files, Settled, Abandoned
<1>16. ASSUME NEW kind \in {"snapshot", "sync"}, CaptureBegins(kind) PROVE LogSettled'
  BY <1>16, <1>k DEF CaptureBegins, worker, files, Rests
<1>21. CASE TakeMore
  BY <1>21, <1>k DEF TakeMore, files, Rests
<1>22. CASE AwaitAdmission
  BY <1>22, <1>k DEF AwaitAdmission, files, Rests
<1>23. CASE AdmissionChanges
  BY <1>23, <1>k DEF AdmissionChanges, worker, files, Rests
<1>24. CASE Capture
  BY <1>24, <1>k DEF Capture, worker, files, Rests
<1>17. CASE SyncFails
  BY <1>17, <1>k DEF SyncFails, worker, files, Rests
<1>18. CASE FailStop
  BY <1>18, <1>k DEF FailStop, worker, files, Rests
<1>19. CASE Restart
  BY <1>19, <1>f DEF Restart, Finish, Settled
<1>20. CASE UNCHANGED vars
  BY <1>20, <1>k DEF vars, Rests
<1> QED
  BY <1>1, <1>2, <1>3, <1>4, <1>5, <1>6, <1>7, <1>8, <1>9, <1>10, <1>11, <1>12, <1>13, <1>14,
     <1>15, <1>16, <1>17, <1>18, <1>19, <1>20, <1>21, <1>22, <1>23, <1>24 DEF Next, Worker

-----------------------------------------------------------------------------
(* The accepted records *)

\* The accepted records only grow: a step keeps the old ones where they are.
AcceptedKept == offset <= offset' /\ \A i \in 1..offset : log'[i] = log[i]

\* What a step does to the accepted records and to what is published: nothing, ...
Keeps == AcceptedKept /\ offset' = offset /\ published' = published
\* ... or it accepts the whole file.
Accepts == AcceptedKept /\ offset' = Len(log) /\ log' = log

\* No step takes an accepted record away or publishes anything but the
\* accepted records (rollback_binlog_tail, persist_and_publish_master_batches).
LEMMA AcceptedStep ==
  ASSUME Inv, [Next]_vars
  PROVE  (Keeps /\ offset <= Len(log')) \/ (Accepts /\ (AppendAccepted \/ published' = log))
<1>0. /\ log \in Seq(LogRecords) /\ Len(log) \in Nat /\ offset \in Nat /\ written \in Nat
      /\ Len(entries) \in Nat /\ offset <= Len(log)
  BY DEF Inv, TypeOK, FileOnChain
<1> DEFINE Goal == Keeps /\ offset <= Len(log')
<1>k. UNCHANGED <<log, offset, published>> => Goal
  BY <1>0 DEF Keeps, AcceptedKept
<1>1. ASSUME NEW r \in Requests, Submit(r) PROVE Goal
  BY <1>1, <1>k DEF Submit, files
<1>2. CASE TakeFirst
  BY <1>2, <1>k DEF TakeFirst, files
<1>3. CASE Start
  BY <1>3, <1>k DEF Start, files
<1>4. CASE TakeWriteGate
  BY <1>4, <1>k DEF TakeWriteGate, files
<1>5. CASE TakeFence
  BY <1>5, <1>k DEF TakeFence, files
<1>6. CASE Execute
  BY <1>6, <1>k DEF Execute, files
<1>7. CASE NextRequest
  BY <1>7, <1>k DEF NextRequest, files
<1>8. CASE ExecuteFails
  BY <1>8, <1>k DEF ExecuteFails, files
<1>9. CASE AppendRecord
  BY <1>9, <1>0, AppendExtends DEF AppendRecord, Extends, Keeps, AcceptedKept
<1>10. CASE AppendAccepted
  BY <1>10, <1>0 DEF AppendAccepted, Accepted, Appended, Executed, Inv, FileOnChain, Accepts,
     AcceptedKept
<1>11. CASE AppendRejected
  BY <1>11, <1>0, PrefixProperties DEF AppendRejected, Keeps, AcceptedKept
<1>12. CASE UndoLast
  BY <1>12, <1>k DEF UndoLast, files
<1>13. CASE UndoDone
  BY <1>13, <1>k DEF UndoDone, files
<1>14. CASE AppendIndeterminate
  BY <1>14, <1>k DEF AppendIndeterminate, files
<1>15. CASE WorkerPanics
  BY <1>15, <1>k DEF WorkerPanics, files
<1>16. ASSUME NEW kind \in {"snapshot", "sync"}, CaptureBegins(kind) PROVE Goal
  BY <1>16, <1>k DEF CaptureBegins, files
<1>21. CASE TakeMore
  BY <1>21, <1>k DEF TakeMore, files
<1>22. CASE AwaitAdmission
  BY <1>22, <1>k DEF AwaitAdmission, files
<1>23. CASE AdmissionChanges
  BY <1>23, <1>k DEF AdmissionChanges, files
<1>24. CASE Capture
  BY <1>24, <1>k DEF Capture, files
<1>17. CASE SyncFails
  BY <1>17, <1>k DEF SyncFails, files
<1>18. CASE FailStop
  BY <1>18, <1>k DEF FailStop, files
<1>19. CASE Restart
  BY <1>19, <1>0 DEF Restart, Accepts, AcceptedKept
<1>20. CASE UNCHANGED vars
  BY <1>20, <1>k DEF vars
<1> QED
  BY <1>1, <1>2, <1>3, <1>4, <1>5, <1>6, <1>7, <1>8, <1>9, <1>10, <1>11, <1>12, <1>13, <1>14,
     <1>15, <1>16, <1>17, <1>18, <1>19, <1>20, <1>21, <1>22, <1>23, <1>24 DEF Next, Worker

\* Every step keeps what was answered committed among the accepted records.
LEMMA CommittedStep == AInv /\ [Next]_vars => CommittedKept'
<1> SUFFICES ASSUME AInv, [Next]_vars, NEW r \in Requests, answer'[r] = "committed"
             PROVE  \E i \in 1..offset' : log'[i].request = r
  BY DEF CommittedKept
<1>0. /\ offset \in Nat /\ Inv /\ written \in Nat /\ Len(entries) \in Nat
      /\ DOMAIN entries = 1..Len(entries)
  BY DEF AInv, Inv, TypeOK
<1>1. AcceptedKept /\ offset' \in Nat
  BY <1>0, TypeStep, AcceptedStep DEF TypeOK, Keeps, Accepts
<1>2. CASE answer[r] = "committed"
  <2>1. PICK i \in 1..offset : log[i].request = r
    BY <1>2 DEF AInv, CommittedKept
  <2>2. i \in 1..offset' /\ log'[i] = log[i]
    BY <1>0, <1>1 DEF AcceptedKept
  <2> QED
    BY <2>1, <2>2
<1>3. CASE answer[r] # "committed"
  <2>2. /\ answer' = Completed /\ log' = log /\ offset' = offset + Len(entries)
        /\ written = Len(entries) /\ phase = "execute"
    BY <1>0, <1>3, AnswerStep, Zenon DEF AppendAccepted, Appended, Executed, Accepted, Finish, Rests
  <2>4. PICK k \in 1..Len(entries) : entries[k].request = r
    BY <1>0, <1>3, <2>2 DEF Completed
  <2>5. log[offset + k] = Record(entries[k])
    BY <2>2 DEF AInv, TailInHand
  <2> QED
    BY <2>2, <2>4, <2>5, <1>0 DEF Record
<1> QED
  BY <1>2, <1>3

\* Two prefixes of the same length with the same records are equal.
LEMMA PrefixEqual ==
  ASSUME NEW S, NEW s \in Seq(S), NEW t \in Seq(S), NEW n \in Nat, n <= Len(s), n <= Len(t),
         \A i \in 1..n : s[i] = t[i]
  PROVE  SubSeq(s, 1, n) = SubSeq(t, 1, n)
<1> QED
  BY PrefixProperties, SeqEqual

\* Accepting a group publishes exactly its records: what was published and the
\* mutations in hand make up the file.
LEMMA PublishGroup ==
  ASSUME AInv, AppendAccepted
  PROVE  published' = log
<1>1. /\ log \in Seq(LogRecords) /\ Len(log) \in Nat /\ offset \in Nat /\ written \in Nat
      /\ entries \in Seq(Entries) /\ Len(entries) \in Nat /\ Inv
      /\ DOMAIN entries = 1..Len(entries)
  BY DEF AInv, Inv, TypeOK
<1>2. /\ phase = "execute" /\ written = Len(entries) /\ Len(log) = offset + written
      /\ published' = published \o Records(entries)
  BY <1>1 DEF AppendAccepted, Appended, Executed, Inv, FileOnChain
<1>3. Records(entries) \in Seq(LogRecords) /\ Len(Records(entries)) = Len(entries)
  BY <1>1, RecordsType
<1>5. offset \in 0..Len(log) /\ published = SubSeq(log, 1, offset)
  BY <1>1, <1>2 DEF AInv, PublishedIsPrefix
<1>6. /\ published \in Seq(LogRecords) /\ Len(published) = offset
      /\ \A i \in 1..offset : published[i] = log[i]
  BY <1>1, <1>5, PrefixProperties
<1>7. /\ published' \in Seq(LogRecords)
      /\ Joined(published', published, Records(entries))
  BY <1>2, <1>3, <1>6, JoinedLine
<1>8. Len(published') = Len(log)
  BY <1>2, <1>3, <1>6, <1>7 DEF Joined
<1>9. ASSUME NEW i \in 1..Len(log) PROVE published'[i] = log[i]
  <2>1. CASE i <= offset
    BY <1>1, <1>6, <1>7, <2>1 DEF Joined
  <2>2. CASE i > offset
    <3> DEFINE k == i - offset
    <3>1. k \in 1..Len(entries) /\ k \in 1..written /\ offset + k = i
      BY <1>1, <1>2, <2>2
    <3> HIDE DEF k
    <3>3. log[offset + k] = Record(entries[k])
      BY <1>2, <3>1 DEF AInv, TailInHand
    <3> QED
      BY <1>1, <3>1, <1>3, <1>6, <1>7, <3>3 DEF Records, Joined
  <2> QED
    BY <1>1, <2>1, <2>2
<1> QED
  BY <1>1, <1>7, <1>8, <1>9, SeqEqual

\* Every step keeps what is published equal to the accepted records.
LEMMA PublishedStep == AInv /\ [Next]_vars => PublishedIsPrefix'
<1> SUFFICES ASSUME AInv, [Next]_vars PROVE published' = SubSeq(log', 1, offset')
  BY DEF PublishedIsPrefix
<1>0. /\ Inv /\ log \in Seq(LogRecords) /\ Len(log) \in Nat /\ offset \in Nat /\ offset <= Len(log)
      /\ published = SubSeq(log, 1, offset)
  BY DEF AInv, Inv, TypeOK, FileOnChain, PublishedIsPrefix
<1>1. CASE Keeps /\ offset <= Len(log')
  BY <1>1, <1>0, TypeStep, PrefixEqual DEF Keeps, AcceptedKept, TypeOK
<1>2. CASE Accepts /\ (AppendAccepted \/ published' = log)
  BY <1>2, PublishGroup, <1>0, SubSeqFull DEF Accepts
<1> QED
  BY <1>0, <1>1, <1>2, AcceptedStep

-----------------------------------------------------------------------------
(* The theorems *)

\* The strengthened invariant holds in every behaviour of the coordinator.
LEMMA AnswerInvariance == Spec => []AInv
<1>1. Init => AInv
  <2> SUFFICES ASSUME Init PROVE AInv
    OBVIOUS
  <2>1. Inv
    BY InitInv
  <2>2. /\ Len(group) = 0 /\ Len(entries) = 0 /\ Len(log) = 0
        /\ group = <<>> /\ deferred = <<>> /\ queue = <<>> /\ log = <<>>
        /\ published = <<>> /\ offset = 0 /\ written = 0
    BY EmptySeq DEF Init
  <2>3. Len(Waiting) = 0
    BY <2>2, EmptySeq, ConcatEmptySeq DEF Waiting, Coming
  <2>4. InLine /\ TailInHand /\ LogSettled
    BY <2>2, <2>3 DEF InLine, Injective, TailInHand, LogSettled
  <2>6. InOrder
    BY <2>2 DEF InOrder
  <2>5. CommittedKept
    BY DEF Init, CommittedKept
  <2>7. SubSeq(<<>>, 1, 0) = <<>>
    BY SubSeqEmpty
  <2> QED
    BY <2>1, <2>2, <2>4, <2>5, <2>6, <2>7 DEF AInv, PublishedIsPrefix
<1>2. AInv /\ [Next]_vars => AInv'
  <2> SUFFICES ASSUME AInv, [Next]_vars PROVE AInv'
    OBVIOUS
  <2>1. Inv'
    BY TypeStep, GatesStep, ChainStep, FileStep DEF Inv, AInv
  <2>2. InLine' /\ InOrder' /\ TailInHand'
    BY InLineStep, InOrderStep, TailStep DEF AInv
  <2>3. LogSettled' /\ CommittedKept' /\ PublishedIsPrefix'
    BY SettledStep, CommittedStep, PublishedStep
  <2> QED
    BY <2>1, <2>2, <2>3 DEF AInv
<1> QED
  BY <1>1, <1>2, PTL DEF Spec

\* What a client is told is true in every behaviour: committed is in the binlog
\* for good, rejected and unchanged are never in it (complete_prepared,
\* fail_prepared, rollback_binlog_tail, recovery).
THEOREM AnswersTrue == Spec => []AnswersAreTrue
<1>1. AInv => AnswersAreTrue
  <2> SUFFICES ASSUME AInv, NEW r \in Requests
               PROVE  /\ answer[r] = "committed" => InLog(r)
                      /\ answer[r] \in {"unchanged", "rejected"} => ~InLog(r)
    BY DEF AnswersAreTrue
  <2>0. /\ Len(log) \in Nat /\ offset \in Nat /\ offset <= Len(log) /\ DOMAIN log = 1..Len(log)
    BY DEF AInv, Inv, TypeOK, FileOnChain
  <2>1. ASSUME answer[r] = "committed" PROVE InLog(r)
    <3>1. PICK i \in 1..offset : log[i].request = r
      BY <2>1 DEF AInv, CommittedKept
    <3>2. i \in DOMAIN log
      BY <2>0
    <3> QED
      BY <3>1, <3>2 DEF InLog
  <2>2. ASSUME answer[r] \in {"unchanged", "rejected"}, NEW i \in DOMAIN log, log[i].request = r
        PROVE  FALSE
    <3>1. i \in 1..Len(log) /\ answer[log[i].request] \notin Settled
      BY <2>0, <2>2 DEF Settled
    <3>2. phase = "execute" /\ i > offset
      BY <3>1 DEF AInv, LogSettled
    <3>3. Pending(i)
      BY <3>1, <3>2, TailPending
    <3> QED
      BY <2>2, <3>3 DEF Pending
  <2> QED
    BY <2>1, <2>2 DEF InLog
<1> QED
  BY AnswerInvariance, <1>1, PTL

\* The backlog and the live stream hold the accepted records and nothing else,
\* in the order of the file (persist_and_publish_master_batches).
THEOREM PublishedExact == Spec => []PublishedIsPrefix
<1>1. AInv => PublishedIsPrefix
  BY DEF AInv
<1> QED
  BY AnswerInvariance, <1>1, PTL

\* A store captured for a snapshot, or for a replica while readers may see it, is
\* what the file replays to, and is labelled with the number of its records
\* (compact_owned, the SYNC3 handler).
CaptureAgrees ==
  [][captured' # captured =>
       \A c \in captured' :
         (c.kind = "snapshot" \/ ~fence) => c.store = disk' /\ c.offset = Len(log')]_vars

\* Every capture under the boundary agrees with the file.
THEOREM CaptureExact == Spec => CaptureAgrees
<1> DEFINE Agrees ==
      captured' # captured =>
        \A c \in captured' :
          (c.kind = "snapshot" \/ ~fence) => c.store = disk' /\ c.offset = Len(log')
<1>1. Inv /\ [Next]_vars => [Agrees]_vars
  <2> SUFFICES ASSUME Inv, [Next]_vars, captured' # captured,
                      NEW c \in captured', c.kind = "snapshot" \/ ~fence
               PROVE  c.store = disk' /\ c.offset = Len(log')
    OBVIOUS
  <2>1. Capture
    <3> USE DEF others
    <3>1. ASSUME NEW r \in Requests, Submit(r) PROVE captured' = captured
      BY <3>1 DEF Submit
    <3>2. TakeFirst \/ TakeMore \/ Start \/ AwaitAdmission \/ TakeWriteGate \/ TakeFence
            => captured' = captured
      BY DEF TakeFirst, TakeMore, Start, AwaitAdmission, TakeWriteGate, TakeFence
    <3>3. Execute \/ NextRequest \/ ExecuteFails \/ AppendRecord => captured' = captured
      BY Zenon DEF Execute, NextRequest, ExecuteFails, AppendRecord
    <3>4. AppendAccepted \/ AppendRejected \/ AppendIndeterminate => captured' = captured
      BY DEF AppendAccepted, AppendRejected, AppendIndeterminate
    <3>5. UndoLast \/ UndoDone \/ WorkerPanics => captured' = captured
      BY DEF UndoLast, UndoDone, WorkerPanics
    <3>6. SyncFails \/ FailStop \/ Restart \/ UNCHANGED vars => captured' = captured
      BY DEF SyncFails, FailStop, Restart, vars
    <3>7. ASSUME NEW kind \in {"snapshot", "sync"}, CaptureBegins(kind) PROVE captured' = captured
      BY <3>7 DEF CaptureBegins
    <3>8. AdmissionChanges => captured' = captured
      BY DEF AdmissionChanges
    <3> QED
      BY <3>1, <3>2, <3>3, <3>4, <3>5, <3>6, <3>7, <3>8, Zenon DEF Next, Worker
  <2>2. c = [kind |-> captor, offset |-> offset, store |-> store] /\ ~fence
    BY <2>1 DEF Capture, MayCapture
  <2>3. store = disk /\ offset = Len(log) /\ disk' = disk /\ log' = log
    BY <2>1, <2>2 DEF Inv, FileOnChain, Capture, files
  <2> QED
    BY <2>2, <2>3
<1> QED
  BY Invariance, <1>1, PTL DEF Spec, CaptureAgrees

=============================================================================
