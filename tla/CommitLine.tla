----------------------------- MODULE CommitLine -----------------------------
(***************************************************************************)
(* Who is still waiting, and what the group in hand has put into the file. *)
(*                                                                         *)
(* What the coordinator tells its clients and its replicas, and in which   *)
(* order it logs requests, needs a second strengthening (AInv): the        *)
(* requests in hand, kept back and queued form one line without            *)
(* repetition, nobody in it has an answer, and every record of the binlog  *)
(* belongs to a request that was answered accordingly, except the records  *)
(* of the group in hand, which are its mutations one by one. Here is the   *)
(* invariant, and that every step keeps its parts about the line, the      *)
(* group and the tail of the file; CommitAnswers does the rest.            *)
(***************************************************************************)
EXTENDS CommitProofs

-----------------------------------------------------------------------------
(* Who is waiting, and what was answered *)

\* The line of requests, the group in hand first, then the request kept back
\* and the channel.
Waiting == group \o Coming

Injective(w) == \A i, j \in 1..Len(w) : w[i] = w[j] => i = j

\* Nobody stands in the line twice and nobody in it has been answered.
InLine ==
  /\ Injective(Waiting)
  /\ \A i \in 1..Len(Waiting) : answer[Waiting[i]] = "none"

\* The mutations in hand belong to requests of the group that are executed or
\* being executed, in the order of the group.
InOrder ==
  /\ \A i \in 1..Len(entries) :
       \E a \in 1..Len(group) : a <= at + 1 /\ entries[i].request = group[a]
  /\ \A i, j \in 1..Len(entries), a, b \in 1..Len(group) :
       i < j /\ entries[i].request = group[a] /\ entries[j].request = group[b] => a <= b

\* The records after the accepted ones are those of the mutations in hand.
TailInHand ==
  phase = "execute" => \A i \in 1..written : log[offset + i] = Record(entries[i])

Settled == {"committed", "lost", "indeterminate"}

\* Every record belongs to a request that was told so, or to the group in hand.
LogSettled ==
  \A i \in 1..Len(log) : answer[log[i].request] \in Settled \/ (phase = "execute" /\ i > offset)

\* What was answered committed is among the accepted records, which no rollback
\* of the tail removes.
CommittedKept ==
  \A r \in Requests : answer[r] = "committed" => \E i \in 1..offset : log[i].request = r

\* The inductive invariant.
AInv ==
  Inv /\ InLine /\ InOrder /\ TailInHand /\ LogSettled /\ CommittedKept /\ PublishedIsPrefix

-----------------------------------------------------------------------------
(* Sequences *)

\* What the concatenation of two sequences holds.
Joined(w, g, q) ==
  /\ Len(w) = Len(g) + Len(q)
  /\ \A i \in 1..Len(g) : w[i] = g[i]
  /\ \A i \in 1..Len(q) : w[Len(g) + i] = q[i]

\* The line is the group followed by the queue.
LEMMA JoinedLine ==
  ASSUME NEW S, NEW g \in Seq(S), NEW q \in Seq(S)
  PROVE  g \o q \in Seq(S) /\ Joined(g \o q, g, q)
<1>1. /\ g \o q \in Seq(S)
      /\ Len(g \o q) = Len(g) + Len(q)
      /\ \A i \in 1..Len(g) + Len(q) :
           (g \o q)[i] = IF i <= Len(g) THEN g[i] ELSE q[i - Len(g)]
  BY ConcatProperties
<1>2. Len(g) \in Nat /\ Len(q) \in Nat
  BY LenProperties
<1>3. \A i \in 1..Len(g) : (g \o q)[i] = g[i]
  BY <1>1, <1>2
<1>4. ASSUME NEW i \in 1..Len(q) PROVE (g \o q)[Len(g) + i] = q[i]
  BY <1>1, <1>2
<1> QED
  BY <1>1, <1>3, <1>4 DEF Joined

\* Moving the head of the queue to the end of the group leaves the line as it
\* is (the drain loop of run_master_commit_coordinator).
LEMMA TakeKeepsLine ==
  ASSUME NEW S, NEW g \in Seq(S), NEW q \in Seq(S), q # <<>>
  PROVE  Append(g, Head(q)) \o Tail(q) = g \o q
<1>1. Head(q) \in S /\ Tail(q) \in Seq(S) /\ q = <<Head(q)>> \o Tail(q)
  BY HeadTailProperties, SMT
<1>2. Append(g, Head(q)) = g \o <<Head(q)>>
  BY <1>1, AppendIsConcat
<1>3. <<Head(q)>> \in Seq(S)
  BY <1>1
<1>4. (g \o <<Head(q)>>) \o Tail(q) = g \o (<<Head(q)>> \o Tail(q))
  BY <1>1, <1>3, ConcatAssociative
<1> QED
  BY <1>1, <1>2, <1>4

\* Joining the queue is joining the end of the line (submit).
LEMMA SubmitExtendsLine ==
  ASSUME NEW S, NEW g \in Seq(S), NEW q \in Seq(S), NEW r \in S
  PROVE  g \o Append(q, r) = Append(g \o q, r)
<1>1. <<r>> \in Seq(S) /\ g \o q \in Seq(S)
  BY ConcatProperties
<1>2. Append(q, r) = q \o <<r>> /\ Append(g \o q, r) = (g \o q) \o <<r>>
  BY <1>1, AppendIsConcat
<1> QED
  BY <1>1, <1>2, ConcatAssociative

-----------------------------------------------------------------------------
(* The line of requests *)

\* What a step may do to the line: nothing, ...
Stays == Waiting' = Waiting /\ \A i \in 1..Len(Waiting) : answer'[Waiting[i]] = answer[Waiting[i]]
\* ... let a request join it, ...
Joins(r) ==
  /\ Waiting' = Append(Waiting, r) /\ \A i \in 1..Len(Waiting) : Waiting[i] # r
  /\ answer' = answer /\ answer[r] = "none"
\* ... answer the group, ...
Leaves ==
  /\ group' = <<>> /\ Coming' = Coming
  /\ \A r \in Requests : r \notin Grouped => answer'[r] = answer[r]
\* ... or answer everyone.
Ends == group' = <<>> /\ Coming' = <<>>

\* Those who wait for their group are a sequence of requests.
LEMMA ComingType == TypeOK => Coming \in Seq(Requests)
  BY ConcatProperties DEF TypeOK, Coming

\* A request that is neither queued nor in the group is not in the line.
LEMMA NotInLine ==
  ASSUME TypeOK, NEW r, r \notin Queued, r \notin Grouped
  PROVE  \A i \in 1..Len(Waiting) : Waiting[i] # r
<1>1. group \in Seq(Requests) /\ Coming \in Seq(Requests)
  BY ComingType DEF TypeOK
<1>2. Joined(Waiting, group, Coming)
  BY <1>1, JoinedLine DEF Waiting
<1>3. /\ Len(group) \in Nat /\ Len(Coming) \in Nat
      /\ DOMAIN group = 1..Len(group) /\ DOMAIN Coming = 1..Len(Coming)
  BY <1>1
<1> SUFFICES ASSUME NEW i \in 1..Len(Waiting) PROVE Waiting[i] # r
  OBVIOUS
<1>4. CASE i <= Len(group)
  BY <1>2, <1>3, <1>4 DEF Grouped, Elements, Joined
<1>5. CASE i > Len(group)
  <2>1. /\ i - Len(group) \in DOMAIN Coming
        /\ Waiting[Len(group) + (i - Len(group))] = Coming[i - Len(group)]
    BY <1>2, <1>3, <1>5 DEF Joined
  <2>2. Len(group) + (i - Len(group)) = i
    BY <1>3
  <2> QED
    BY <2>1, <2>2 DEF Queued, Elements
<1> QED
  BY <1>3, <1>4, <1>5

\* A step that leaves the group, the queue and the answers alone leaves the line.
LEMMA LineUnchanged == UNCHANGED <<group, deferred, queue, answer>> => Stays
  BY DEF Stays, Waiting, Coming

\* A client joins at the end, or finds the worker gone (submit).
LEMMA SubmitLine ==
  ASSUME Inv, NEW r \in Requests, Submit(r)
  PROVE  Stays \/ Joins(r)
<1>1. /\ TypeOK /\ group \in Seq(Requests) /\ Coming \in Seq(Requests)
      /\ deferred \in Seq(Requests) /\ queue \in Seq(Requests)
  BY ComingType DEF Inv, TypeOK
<1>2. /\ answer[r] = "none" /\ r \notin Queued /\ r \notin Grouped
      /\ group' = group /\ deferred' = deferred
  BY DEF Submit, worker
<1>3. \A i \in 1..Len(Waiting) : Waiting[i] # r
  BY <1>1, <1>2, NotInLine
<1>4. CASE phase = "dead"
  <2>1. queue' = queue /\ answer' = [answer EXCEPT ![r] = "rejected"]
    BY <1>4, Zenon DEF Submit
  <2>2. Waiting' = Waiting
    BY <1>2, <2>1, Zenon DEF Waiting, Coming
  <2>3. \A i \in 1..Len(Waiting) : answer'[Waiting[i]] = answer[Waiting[i]]
    <3>1. Waiting \in Seq(Requests) /\ answer \in [Requests -> Answers]
      BY <1>1, ConcatProperties DEF Waiting, TypeOK
    <3> HIDE DEF Waiting
    <3> QED
      BY <1>3, <2>1, <3>1, ElementOfSeq
  <2> QED
    BY <2>2, <2>3 DEF Stays
<1>5. CASE phase # "dead"
  <2>1. queue' = Append(queue, r) /\ answer' = answer
    BY <1>5 DEF Submit
  <2>2. Coming' = Append(Coming, r)
    BY <1>1, <1>2, <2>1, SubmitExtendsLine DEF Coming
  <2>3. Waiting' = Append(Waiting, r)
    BY <1>1, <1>2, <2>2, SubmitExtendsLine DEF Waiting
  <2> QED
    BY <1>2, <1>3, <2>1, <2>3 DEF Joins
<1> QED
  BY <1>4, <1>5

\* Answering the group answers nobody else.
LEMMA FinishLine ==
  ASSUME NEW a \in Answers, group' = <<>>, UNCHANGED <<deferred, queue>>,
         answer' = Answered(Grouped, a) \/ answer' = Completed
  PROVE  Leaves
<1>1. Coming' = Coming
  BY DEF Coming
<1>2. CASE answer' = Answered(Grouped, a)
  BY <1>1, <1>2 DEF Answered, Leaves
<1>3. CASE answer' = Completed
  BY <1>1, <1>3 DEF Completed, Leaves
<1> QED
  BY <1>2, <1>3

\* What every step does to the line.
LEMMA LineStep ==
  ASSUME Inv, [Next]_vars
  PROVE  Stays \/ (\E r \in Requests : Joins(r)) \/ Leaves \/ Ends
<1>a. "rejected" \in Answers /\ "indeterminate" \in Answers
  BY DEF Answers
<1>o. <<>> \o <<>> = <<>>
  BY EmptySeq, ConcatEmptySeq
<1>1. ASSUME NEW r \in Requests, Submit(r) PROVE Stays \/ Joins(r)
  BY <1>1, SubmitLine
<1>2. CASE TakeFirst
  <2>1. /\ deferred \in Seq(Requests) /\ queue \in Seq(Requests) /\ group = <<>>
        /\ Coming \in Seq(Requests) /\ answer' = answer
    BY <1>2, ComingType DEF TakeFirst, Inv, TypeOK, GatesHeld
  <2>2. Waiting = Coming
    BY <2>1, ConcatEmptySeq DEF Waiting
  <2>3. CASE deferred # <<>>
    <3>1. group' = deferred /\ deferred' = <<>> /\ queue' = queue
      BY <1>2, <2>3, Zenon DEF TakeFirst, First
    <3>2. Waiting' = Coming
      BY <2>1, <3>1, ConcatEmptySeq DEF Waiting, Coming
    <3> QED
      BY <2>1, <2>2, <3>2 DEF Stays
  <2>4. CASE deferred = <<>>
    <3>1. queue # <<>> /\ group' = <<Head(queue)>> /\ deferred' = <<>> /\ queue' = Tail(queue)
      BY <1>2, <2>4, Zenon DEF TakeFirst, First
    <3>2. Tail(queue) \in Seq(Requests) /\ queue = <<Head(queue)>> \o Tail(queue)
      BY <2>1, <3>1, HeadTailProperties, SMT
    <3>3. Coming = queue /\ Coming' = Tail(queue)
      BY <2>1, <2>4, <3>1, <3>2, ConcatEmptySeq DEF Coming
    <3>4. Waiting' = Coming
      BY <3>1, <3>2, <3>3 DEF Waiting
    <3> QED
      BY <2>1, <2>2, <3>4 DEF Stays
  <2> QED
    BY <2>3, <2>4
<1>3. CASE Start
  BY <1>a, <1>3, FinishLine, LineUnchanged DEF Start
<1>4. CASE TakeWriteGate
  BY <1>4, LineUnchanged DEF TakeWriteGate
<1>5. CASE TakeFence
  BY <1>a, <1>5, FinishLine, LineUnchanged DEF TakeFence, Finish
<1>6. CASE Execute
  BY <1>6, LineUnchanged DEF Execute
<1>7. CASE NextRequest
  BY <1>7, LineUnchanged DEF NextRequest
<1>8. CASE ExecuteFails
  BY <1>8, LineUnchanged DEF ExecuteFails
<1>9. CASE AppendRecord
  BY <1>9, LineUnchanged DEF AppendRecord
<1>10. CASE AppendAccepted
  BY <1>a, <1>10, FinishLine DEF AppendAccepted, Finish
<1>11. CASE AppendRejected
  BY <1>11, LineUnchanged DEF AppendRejected
<1>12. CASE UndoLast
  BY <1>12, LineUnchanged DEF UndoLast
<1>13. CASE UndoDone
  BY <1>a, <1>13, FinishLine DEF UndoDone, Finish
<1>14. CASE AppendIndeterminate
  BY <1>a, <1>14, FinishLine DEF AppendIndeterminate, Finish
<1>15. CASE WorkerPanics
  BY <1>15, <1>o DEF WorkerPanics, Ends, Coming
<1>16. ASSUME NEW kind \in {"snapshot", "sync"}, CaptureBegins(kind) PROVE Stays
  BY <1>16, LineUnchanged DEF CaptureBegins, worker
<1>21. CASE TakeMore
  <2>1. /\ group \in Seq(Requests) /\ queue \in Seq(Requests) /\ queue # <<>>
        /\ deferred = <<>> /\ queue' = Tail(queue) /\ answer' = answer
    BY <1>21 DEF TakeMore, Inv, TypeOK
  <2>2. /\ Head(queue) \in Requests /\ Tail(queue) \in Seq(Requests)
        /\ queue = <<Head(queue)>> \o Tail(queue)
    BY <2>1, HeadTailProperties, SMT
  <2>3. Coming = queue
    BY <2>1, ConcatEmptySeq DEF Coming
  <2>4. CASE group' = Append(group, Head(queue)) /\ deferred' = deferred
    <3>1. Coming' = Tail(queue)
      BY <2>1, <2>2, <2>4, ConcatEmptySeq DEF Coming
    <3>2. Waiting' = Waiting
      BY <2>1, <2>3, <2>4, <3>1, TakeKeepsLine DEF Waiting
    <3> QED
      BY <2>1, <3>2 DEF Stays
  <2>5. CASE deferred' = <<Head(queue)>> /\ group' = group
    <3>1. Coming' = Coming
      BY <2>1, <2>2, <2>3, <2>5 DEF Coming
    <3>2. Waiting' = Waiting
      BY <2>5, <3>1 DEF Waiting
    <3> QED
      BY <2>1, <3>2 DEF Stays
  <2> QED
    BY <1>21, <2>4, <2>5 DEF TakeMore
<1>22. CASE AwaitAdmission
  BY <1>22, LineUnchanged DEF AwaitAdmission
<1>23. CASE AdmissionChanges
  BY <1>23, LineUnchanged DEF AdmissionChanges, worker
<1>24. CASE Capture
  BY <1>24, LineUnchanged DEF Capture, worker
<1>17. CASE SyncFails
  BY <1>17, LineUnchanged DEF SyncFails, worker
<1>18. CASE FailStop
  BY <1>18, LineUnchanged DEF FailStop, worker
<1>19. CASE Restart
  BY <1>19, <1>o DEF Restart, Finish, Ends, Coming
<1>20. CASE UNCHANGED vars
  BY <1>20, LineUnchanged DEF vars
<1> QED
  BY <1>1, <1>2, <1>3, <1>4, <1>5, <1>6, <1>7, <1>8, <1>9, <1>10, <1>11, <1>12, <1>13, <1>14,
     <1>15, <1>16, <1>17, <1>18, <1>19, <1>20, <1>21, <1>22, <1>23, <1>24 DEF Next, Worker

\* After the group is answered the line is the queue, which moves up.
LEMMA LeavesLine ==
  ASSUME Inv, Leaves
  PROVE  /\ Len(group) \in Nat /\ Len(Waiting') \in Nat
         /\ Len(Waiting) = Len(group) + Len(Waiting')
         /\ \A i \in 1..Len(Waiting') : Waiting'[i] = Waiting[Len(group) + i]
<1> QED
  BY JoinedLine, ConcatEmptySeq, ComingType DEF Joined, Waiting, Inv, TypeOK, Leaves

\* Nobody is in the line twice or answered while in it, after any step.
LEMMA InLineStep == Inv /\ InLine /\ [Next]_vars => InLine'
<1> SUFFICES ASSUME Inv, InLine, [Next]_vars PROVE InLine'
  OBVIOUS
<1>1. Waiting \in Seq(Requests) /\ Len(Waiting) \in Nat
  BY JoinedLine, ComingType DEF Waiting, Inv, TypeOK
<1>2. CASE Stays
  BY <1>2 DEF Stays, InLine, Injective
<1>3. ASSUME NEW r \in Requests, Joins(r) PROVE InLine'
  BY <1>1, <1>3, AppendExtends DEF Joins, Extends, Injective, InLine
<1>4. CASE Leaves
  <2>1. /\ Len(group) \in Nat /\ Len(Waiting') \in Nat
        /\ Len(Waiting) = Len(group) + Len(Waiting')
        /\ \A i \in 1..Len(Waiting') : Waiting'[i] = Waiting[Len(group) + i]
    BY <1>4, LeavesLine
  <2>2. Injective(Waiting) /\ \A i \in 1..Len(Waiting) : answer[Waiting[i]] = "none"
    BY DEF InLine
  <2>3. \A i \in 1..Len(Waiting') : Len(group) + i \in 1..Len(Waiting)
    BY <2>1
  <2>4. Injective(Waiting')
    <3> SUFFICES ASSUME NEW i \in 1..Len(Waiting'), NEW j \in 1..Len(Waiting'),
                        Waiting'[i] = Waiting'[j]
                 PROVE  i = j
      BY DEF Injective
    <3>1. Waiting[Len(group) + i] = Waiting[Len(group) + j]
      BY <2>1
    <3> QED
      BY <2>1, <2>2, <3>1, <2>3 DEF Injective
  <2>5. ASSUME NEW i \in 1..Len(Waiting') PROVE answer'[Waiting'[i]] = "none"
    <3>1. Waiting'[i] = Waiting[Len(group) + i] /\ Len(group) + i \in 1..Len(Waiting)
      BY <2>1, <2>3
    <3>2. group \in Seq(Requests) /\ Coming \in Seq(Requests)
      BY ComingType DEF Inv, TypeOK
    <3>3. Joined(Waiting, group, Coming) /\ DOMAIN group = 1..Len(group)
      BY <3>2, JoinedLine DEF Waiting
    <3>4. ASSUME Waiting'[i] \in Grouped PROVE FALSE
      BY <3>4, <3>3, <2>2, <3>1, <2>1 DEF Grouped, Elements, Joined, Injective
    <3>5. Waiting'[i] \in Requests
      BY <1>1, <3>1, ElementOfSeq
    <3> QED
      BY <1>4, <2>2, <3>1, <3>4, <3>5 DEF Leaves
  <2> QED
    BY <2>4, <2>5 DEF InLine, Injective
<1>5. CASE Ends
  BY <1>5, EmptySeq, ConcatEmptySeq DEF InLine, Injective, Ends, Waiting
<1> QED
  BY <1>2, <1>3, <1>4, <1>5, LineStep

\* The group is the front of the line, so it has no request twice and no answer.
LEMMA GroupInLine ==
  ASSUME Inv, InLine
  PROVE  /\ Injective(group)
         /\ \A i \in 1..Len(group) : answer[group[i]] = "none" /\ group[i] \in Requests
<1>1. group \in Seq(Requests) /\ Coming \in Seq(Requests)
  BY ComingType DEF Inv, TypeOK
<1>2. Joined(Waiting, group, Coming)
  BY <1>1, JoinedLine DEF Waiting
<1>3. \A i \in 1..Len(group) : i \in 1..Len(Waiting) /\ Waiting[i] = group[i]
  BY <1>1, <1>2 DEF Joined
<1>4. Injective(group)
  BY <1>3 DEF InLine, Injective
<1>5. \A i \in 1..Len(group) : answer[group[i]] = "none"
  BY <1>3 DEF InLine
<1> QED
  BY <1>1, <1>4, <1>5, ElementOfSeq

-----------------------------------------------------------------------------
(* The order of the mutations *)

\* Executing a command of the next request keeps the order of the group.
LEMMA ExecuteInOrder ==
  ASSUME Inv, InLine, InOrder, Execute
  PROVE  InOrder'
<1>1. PICK change \in Derivable(store) :
        entries' = Append(entries,
                          [request |-> group[at + 1], change |-> change, before |-> store])
  BY DEF Execute
<1> DEFINE e == [request |-> group[at + 1], change |-> change, before |-> store]
           n == Len(entries)
<1>2. entries \in Seq(Entries) /\ n \in Nat /\ at \in Nat /\ Len(group) \in Nat
  BY DEF Inv, TypeOK
<1>3. at < Len(group) /\ group' = group /\ at' = at
  BY DEF Execute
<1>4. Extends(entries', entries, e)
  BY <1>1, <1>2, AppendExtends
<1>5. Len(entries') = n + 1 /\ entries'[n + 1] = e /\ \A i \in 1..n : entries'[i] = entries[i]
  BY <1>4, Zenon DEF Extends
<1>6. entries'[n + 1].request = group[at + 1]
  BY <1>5
<1> HIDE DEF e, n
<1>7. Injective(group)
  BY GroupInLine
<1>8. \A i \in 1..n : \E a \in 1..Len(group) : a <= at + 1 /\ entries'[i].request = group[a]
  BY <1>5, Zenon DEF InOrder, n
<1>9. at + 1 \in 1..Len(group) /\ at + 1 <= at + 1
  BY <1>2, <1>3
<1>10. \A i \in 1..Len(entries') :
         \E a \in 1..Len(group) : a <= at + 1 /\ entries'[i].request = group[a]
  <2> SUFFICES ASSUME NEW i \in 1..Len(entries')
               PROVE  \E a \in 1..Len(group) : a <= at + 1 /\ entries'[i].request = group[a]
    OBVIOUS
  <2> QED
    BY <1>2, <1>5, <1>6, <1>8, <1>9
<1>11. ASSUME NEW i \in 1..Len(entries'), NEW j \in 1..Len(entries'),
              NEW a \in 1..Len(group), NEW b \in 1..Len(group),
              i < j, entries'[i].request = group[a], entries'[j].request = group[b]
       PROVE  a <= b
  <2>1. i \in 1..n /\ (j \in 1..n \/ j = n + 1)
    BY <1>2, <1>5, <1>11
  <2>2. CASE j \in 1..n
    <3>1. entries[i].request = group[a] /\ entries[j].request = group[b]
      BY <1>5, <1>11, <2>1, <2>2
    <3> QED
      BY <1>11, <2>1, <2>2, <3>1 DEF InOrder, n
  <2>3. CASE j = n + 1
    <3>1. b = at + 1
      BY <1>6, <1>7, <1>9, <1>11, <2>3 DEF Injective
    <3>2. PICK c \in 1..Len(group) : c <= at + 1 /\ entries'[i].request = group[c]
      BY <1>8, <2>1
    <3>3. a = c
      BY <1>7, <1>11, <3>2, Zenon DEF Injective
    <3> QED
      BY <3>1, <3>2, <3>3
  <2> QED
    BY <2>1, <2>2, <2>3
<1> QED
  BY <1>3, <1>10, <1>11, Zenon DEF InOrder

\* Every step keeps the mutations in the order of the group.
LEMMA InOrderStep == Inv /\ InLine /\ InOrder /\ [Next]_vars => InOrder'
<1> SUFFICES ASSUME Inv, InLine, InOrder, [Next]_vars PROVE InOrder'
  OBVIOUS
<1>e. entries' = <<>> => InOrder'
  <2> SUFFICES ASSUME entries' = <<>> PROVE InOrder'
    OBVIOUS
  <2> QED
    BY EmptySeq DEF InOrder
<1>k. UNCHANGED <<group, entries>> /\ (at' = at \/ at' = at + 1) => InOrder'
  BY DEF Inv, TypeOK, InOrder
<1>h. ~Held => entries = <<>>
  BY DEF Inv, GatesHeld
<1>1. ASSUME NEW r \in Requests, Submit(r) PROVE InOrder'
  BY <1>1, <1>k DEF Submit, worker
<1>2. CASE TakeFirst
  BY <1>2, <1>e, <1>h DEF TakeFirst, Held
<1>3. CASE Start
  BY <1>3, <1>e, <1>h DEF Start, Held
<1>4. CASE TakeWriteGate
  BY <1>4, <1>k DEF TakeWriteGate
<1>5. CASE TakeFence
  BY <1>5, <1>e, <1>k DEF TakeFence, Finish
<1>6. CASE Execute
  BY <1>6, ExecuteInOrder
<1>7. CASE NextRequest
  BY <1>7, <1>k DEF NextRequest
<1>8. CASE ExecuteFails
  BY <1>8, <1>k DEF ExecuteFails
<1>9. CASE AppendRecord
  BY <1>9, <1>k DEF AppendRecord
<1>10. CASE AppendAccepted
  BY <1>10, <1>e DEF AppendAccepted, Finish
<1>11. CASE AppendRejected
  BY <1>11, <1>k DEF AppendRejected
<1>12. CASE UndoLast
  <2>1. /\ entries \in Seq(Entries) /\ entries # <<>> /\ entries' = Front(entries)
        /\ group' = group /\ at' = at
    BY <1>12 DEF Inv, TypeOK, UndoLast
  <2>3. \A i \in 1..Len(entries') : i \in 1..Len(entries) /\ entries'[i] = entries[i]
    BY <2>1, FrontProperties
  <2>5. \A i, j \in 1..Len(entries'), a, b \in 1..Len(group) :
          i < j /\ entries'[i].request = group[a] /\ entries'[j].request = group[b] => a <= b
    BY <2>3, Zenon DEF InOrder
  <2> QED
    BY <2>1, <2>3, <2>5 DEF InOrder
<1>13. CASE UndoDone
  BY <1>13, <1>e DEF UndoDone, Finish
<1>14. CASE AppendIndeterminate
  BY <1>14, <1>e DEF AppendIndeterminate, Finish
<1>15. CASE WorkerPanics
  BY <1>15, <1>e DEF WorkerPanics
<1>16. ASSUME NEW kind \in {"snapshot", "sync"}, CaptureBegins(kind) PROVE InOrder'
  BY <1>16, <1>k DEF CaptureBegins, worker
<1>21. CASE TakeMore
  BY <1>21, <1>e, <1>h DEF TakeMore, Held
<1>22. CASE AwaitAdmission
  BY <1>22, <1>k DEF AwaitAdmission
<1>23. CASE AdmissionChanges
  BY <1>23, <1>k DEF AdmissionChanges, worker
<1>24. CASE Capture
  BY <1>24, <1>k DEF Capture, worker
<1>17. CASE SyncFails
  BY <1>17, <1>k DEF SyncFails, worker
<1>18. CASE FailStop
  BY <1>18, <1>k DEF FailStop, worker
<1>19. CASE Restart
  BY <1>19, <1>e DEF Restart, Finish
<1>20. CASE UNCHANGED vars
  BY <1>20, <1>k, Zenon DEF vars
<1> QED
  BY <1>1, <1>2, <1>3, <1>4, <1>5, <1>6, <1>7, <1>8, <1>9, <1>10, <1>11, <1>12, <1>13, <1>14,
     <1>15, <1>16, <1>17, <1>18, <1>19, <1>20, <1>21, <1>22, <1>23, <1>24, Zenon DEF Next, Worker

-----------------------------------------------------------------------------
(* The records of the group in hand *)

\* Every step keeps the tail of the file equal to the mutations in hand.
LEMMA TailStep == Inv /\ TailInHand /\ [Next]_vars => TailInHand'
<1> SUFFICES ASSUME Inv, TailInHand, [Next]_vars, phase' = "execute"
             PROVE  \A i \in 1..written' : log'[offset' + i] = Record(entries'[i])
  BY Zenon DEF TailInHand, Record
<1> DEFINE Goal == \A i \in 1..written' : log'[offset' + i] = Record(entries'[i])
           Keeps == UNCHANGED <<phase, written, log, offset, entries>>
<1>0. /\ entries \in Seq(Entries) /\ log \in Seq(LogRecords)
      /\ written \in Nat /\ offset \in Nat /\ Len(entries) \in Nat /\ Len(log) \in Nat
  BY DEF Inv, TypeOK
<1>k. Keeps => Goal
  BY DEF TailInHand
<1>1. ASSUME NEW r \in Requests, Submit(r) PROVE Goal
  BY <1>1, <1>k DEF Submit, worker, files
<1>5. CASE TakeFence
  <2>1. written' = 0
    BY <1>5, Zenon DEF TakeFence, Finish, Inv, GatesHeld, Held
  <2> QED
    BY <2>1
<1>6. CASE Execute
  <2>1. /\ phase = "execute" /\ written <= Len(entries)
        /\ written' = written /\ log' = log /\ offset' = offset
    BY <1>6, Zenon DEF Execute, files, Inv, FileOnChain
  <2>2. PICK e : entries' = Append(entries, e)
    BY <1>6, Zenon DEF Execute
  <2>4. \A i \in 1..written : i \in 1..Len(entries) /\ entries'[i] = entries[i]
    BY <1>0, <2>1, <2>2, AppendExtends DEF Extends
  <2> QED
    BY <2>1, <2>4 DEF TailInHand
<1>7. CASE NextRequest
  BY <1>7, <1>k DEF NextRequest, files
<1>9. CASE AppendRecord
  <2>1. /\ phase = "execute" /\ Len(log) = offset + written
        /\ log' = Append(log, Record(entries[written + 1]))
        /\ written' = written + 1 /\ offset' = offset /\ entries' = entries
    BY <1>9 DEF AppendRecord, Executed, Inv, FileOnChain
  <2>2. Extends(log', log, Record(entries[written + 1]))
    BY <1>0, <2>1, AppendExtends
  <2>3. /\ log'[offset + (written + 1)] = Record(entries[written + 1])
        /\ \A i \in 1..written : log'[offset + i] = log[offset + i]
    BY <1>0, <2>1, <2>2 DEF Extends
  <2>4. \A i \in 1..written : log[offset + i] = Record(entries[i])
    BY <2>1 DEF TailInHand
  <2>5. \A i \in 1..written' : i \in 1..written \/ i = written + 1
    BY <1>0, <2>1
  <2> QED
    BY <2>1, <2>3, <2>4, <2>5, Zenon
<1>11. ~AppendRejected
  BY DEF AppendRejected
<1>12. ~UndoLast
  BY DEF UndoLast
<1>13. ~UndoDone
  BY DEF UndoDone, Finish
<1>14. ~AppendIndeterminate
  BY DEF AppendIndeterminate, Finish
<1>15. ~WorkerPanics
  BY DEF WorkerPanics
<1>16. ASSUME NEW kind \in {"snapshot", "sync"}, CaptureBegins(kind) PROVE Goal
  BY <1>16, <1>k DEF CaptureBegins, worker, files
<1>23. CASE AdmissionChanges
  BY <1>23, <1>k DEF AdmissionChanges, worker, files
<1>24. CASE Capture
  BY <1>24, <1>k DEF Capture, worker, files
<1>17. CASE SyncFails
  BY <1>17, <1>k DEF SyncFails, worker, files
<1>18. CASE FailStop
  BY <1>18, <1>k DEF FailStop, worker, files
<1>19. ~Restart
  BY DEF Restart, Finish
<1>20. CASE UNCHANGED vars
  BY <1>20, <1>k DEF vars
<1> QED
  BY <1>1, <1>5, <1>6, <1>7, <1>9, <1>11, <1>12, <1>13, <1>14, <1>15, <1>16, <1>17, <1>18, <1>19,
     <1>20, <1>23, <1>24, Zenon DEF Next, Worker, Start, Finish, ExecuteFails, TakeFirst, TakeMore,
     AwaitAdmission, TakeWriteGate, AppendAccepted

=============================================================================
