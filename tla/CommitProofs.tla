----------------------------- MODULE CommitProofs -----------------------------
(***************************************************************************)
(* Proofs about module CommitCoordinator, for every set of requests, keys  *)
(* and values, every group limit and every combination of failures.        *)
(*                                                                         *)
(* The invariant behind them is about the time the worker holds both       *)
(* gates. Each executed mutation remembers the store it started from;      *)
(* those stores form a chain from the accepted state (kept) to the live    *)
(* one, each link being one mutation's change. The file is somewhere along *)
(* that chain, and undoing a mutation walks it back one link, because the  *)
(* before images cover exactly the keys the change touched.                *)
(***************************************************************************)
EXTENDS CommitCoordinator, TLAPS

-----------------------------------------------------------------------------
(* Sequences *)

\* Sequences are the functions on the first n numbers.
LEMMA SeqDef == \A S : Seq(S) = UNION {[1..n -> S] : n \in Nat}
  OBVIOUS

\* The elements of a sequence.
LEMMA ElementOfSeq == ASSUME NEW S, NEW s \in Seq(S), NEW i \in 1..Len(s) PROVE s[i] \in S
  OBVIOUS

\* The empty sequence, and a sequence that is not empty.
LEMMA EmptySeq ==
  ASSUME NEW S
  PROVE  <<>> \in Seq(S) /\ Len(<<>>) = 0 /\ \A s \in Seq(S) : s # <<>> => Len(s) \in Nat \ {0}
  OBVIOUS

\* A sequence as a function.
LEMMA LenProperties ==
  ASSUME NEW S, NEW s \in Seq(S)
  PROVE  Len(s) \in Nat /\ s \in [1..Len(s) -> S] /\ DOMAIN s = 1..Len(s)
  OBVIOUS

\* Sequences with the same elements are equal.
LEMMA SeqEqual ==
  ASSUME NEW S, NEW s \in Seq(S), NEW t \in Seq(S), Len(s) = Len(t),
         \A i \in 1..Len(s) : s[i] = t[i]
  PROVE  s = t
  BY LenProperties

\* One sequence after another.
LEMMA ConcatProperties ==
  ASSUME NEW S, NEW s \in Seq(S), NEW t \in Seq(S)
  PROVE  /\ s \o t \in Seq(S) /\ Len(s \o t) = Len(s) + Len(t)
         /\ \A i \in 1..Len(s) + Len(t) :
              (s \o t)[i] = IF i <= Len(s) THEN s[i] ELSE t[i - Len(s)]
  OBVIOUS

\* Nothing before or after a sequence.
LEMMA ConcatEmptySeq == ASSUME NEW S, NEW s \in Seq(S) PROVE s \o <<>> = s /\ <<>> \o s = s
  OBVIOUS

\* Sequences are joined in any grouping.
LEMMA ConcatAssociative ==
  ASSUME NEW S, NEW s \in Seq(S), NEW t \in Seq(S), NEW u \in Seq(S)
  PROVE  (s \o t) \o u = s \o (t \o u)
  OBVIOUS

\* No part of a sequence.
LEMMA SubSeqEmpty == ASSUME NEW s, NEW m \in Int, NEW n \in Int, n < m PROVE SubSeq(s, m, n) = <<>>
  OBVIOUS

\* All of a sequence.
LEMMA SubSeqFull == ASSUME NEW S, NEW s \in Seq(S) PROVE SubSeq(s, 1, Len(s)) = s
  OBVIOUS

\* The first element of a sequence, and the others.
LEMMA HeadTailProperties ==
  ASSUME NEW S, NEW s \in Seq(S), s # <<>>
  PROVE  /\ Head(s) \in S /\ Tail(s) \in Seq(S) /\ Len(Tail(s)) = Len(s) - 1
         /\ \A i \in 1..Len(Tail(s)) : Tail(s)[i] = s[i + 1]
  OBVIOUS

\* An element at the end as a sequence of its own.
LEMMA AppendIsConcat ==
  ASSUME NEW S, NEW s \in Seq(S), NEW e \in S
  PROVE  Append(s, e) = s \o <<e>>
  OBVIOUS

-----------------------------------------------------------------------------

\* The worker holds mutations that are not yet accepted or undone.
Held == phase \in {"execute", "undo"}

\* The store before the i-th executed mutation; after the last one, the store.
Before(i) == IF i = Len(entries) + 1 THEN store ELSE entries[i].before

\* The before images lead from the accepted store to the tentative one.
Chain ==
  /\ Before(1) = kept
  /\ \A i \in 1..Len(entries) : Before(i + 1) = Apply(entries[i].change, Before(i))

\* Which gates the worker holds in each phase, that it holds mutations only
\* behind both, and that it shares the write gate with no capture.
GatesHeld ==
  /\ Held => fence /\ writer
  /\ phase = "fence" => writer
  /\ Held \/ phase = "fence" => captor = "none"
  /\ captor # "none" => writer
  /\ ~Held => entries = <<>> /\ written = 0 /\ at = 0
  /\ phase = "idle" => group = <<>>

\* The file replays to a store on the chain: the accepted one, plus what the
\* worker has appended of the group in hand.
FileOnChain ==
  /\ offset <= Len(log)
  /\ phase = "execute" =>
       /\ written <= Len(entries)
       /\ at < Len(group) => written = 0
       /\ Len(log) = offset + written
       /\ disk = Before(written + 1)
  /\ phase = "undo" => disk = kept /\ Len(log) = offset
  /\ ~fence => store = disk /\ kept = disk /\ Len(log) = offset

\* The inductive invariant.
Inv == TypeOK /\ GatesHeld /\ (Held => Chain) /\ FileOnChain

-----------------------------------------------------------------------------
(* Changes and before images *)

\* Applying a change to a store gives a store (apply_committed_batch).
LEMMA ApplyType ==
  ASSUME NEW change \in Changes, NEW s \in Stores
  PROVE  Apply(change, s) \in Stores
  BY DEF Apply, Changes, Stores

\* Restoring the before images of a change undoes it: restore_entries after a
\* tentative mutation gives back the store exactly.
LEMMA UndoRestores ==
  ASSUME NEW e \in Entries, NEW s, s = Apply(e.change, e.before)
  PROVE  Apply(Undo(e), s) = e.before
<1>1. e.before \in [Keys -> Values] /\ DOMAIN e.change \subseteq Keys
  BY DEF Entries, Changes, Stores
<1>2. \A k \in Keys : Apply(Undo(e), s)[k] = e.before[k]
  BY <1>1 DEF Apply, Undo
<1> QED
  BY <1>1, <1>2, Zenon DEF Apply, Undo

\* The records of a group, as append_batches encodes them, are one per mutation
\* and carry its change.
LEMMA RecordsType ==
  ASSUME NEW es \in Seq(Entries)
  PROVE  /\ Records(es) \in Seq(LogRecords)
         /\ Len(Records(es)) = Len(es)
<1>1. \A i \in 1..Len(es) : es[i] \in Entries
  BY ElementOfSeq
<1>3. Len(es) \in Nat /\ DOMAIN es = 1..Len(es)
  BY LenProperties
<1> QED
  BY <1>3, <1>1, SeqDef, LenProperties DEF Records, Record, Entries, LogRecords

\* A prefix of a sequence, as a partial append leaves it, is a sequence of the
\* given length with the same elements.
LEMMA PrefixProperties ==
  ASSUME NEW S, NEW s \in Seq(S), NEW n \in 0..Len(s)
  PROVE  /\ SubSeq(s, 1, n) \in Seq(S) /\ Len(SubSeq(s, 1, n)) = n
         /\ \A i \in 1..n : SubSeq(s, 1, n)[i] = s[i]
<1> QED
  OBVIOUS

\* Appending one record lengthens the log by one.
LEMMA LenAppended ==
  ASSUME NEW S, NEW s \in Seq(S), NEW e
  PROVE  Len(Append(s, e)) = Len(s) + 1
  BY SMT

\* What a sequence holds once an element is appended to it.
Extends(t, s, e) ==
  Len(t) = Len(s) + 1 /\ t[Len(s) + 1] = e /\ \A i \in 1..Len(s) : t[i] = s[i]

\* Appending an element extends a sequence by it (the mutations of a group).
LEMMA AppendExtends ==
  ASSUME NEW S, NEW s \in Seq(S), NEW e
  PROVE  Extends(Append(s, e), s, e)
<1> QED
  BY DEF Extends

\* Popping the last mutation, as rollback_prepared does, keeps the others.
LEMMA FrontProperties ==
  ASSUME NEW S, NEW s \in Seq(S), s # <<>>
  PROVE  /\ Front(s) \in Seq(S) /\ Len(Front(s)) = Len(s) - 1
         /\ \A i \in 1..(Len(s) - 1) : Front(s)[i] = s[i]
         /\ Last(s) \in S /\ Len(s) \in Nat \ {0} /\ Last(s) = s[Len(s)]
<1>1. Len(s) \in Nat \ {0}
  BY EmptySeq
<1>2. Len(s) - 1 \in 0..Len(s)
  BY <1>1
<1>3. /\ SubSeq(s, 1, Len(s) - 1) \in Seq(S)
      /\ Len(SubSeq(s, 1, Len(s) - 1)) = Len(s) - 1
      /\ \A i \in 1..(Len(s) - 1) : SubSeq(s, 1, Len(s) - 1)[i] = s[i]
  BY <1>2, PrefixProperties, Zenon
<1> QED
  BY <1>1, <1>3, ElementOfSeq DEF Front, Last

-----------------------------------------------------------------------------
(* Types *)

\* Finish and the answers it is given keep their types.
LEMMA AnsweredType ==
  ASSUME TypeOK, NEW rs, NEW a \in Answers
  PROVE  Answered(rs, a) \in [Requests -> Answers]
  BY DEF TypeOK, Answered

\* complete_prepared gives answers and nothing else.
LEMMA CompletedType ==
  ASSUME TypeOK
  PROVE  Completed \in [Requests -> Answers]
  BY DEF TypeOK, Completed, Answers

\* A worker that finishes a group is idle, with nothing in hand.
LEMMA FinishType ==
  ASSUME NEW a \in [Requests -> Answers], Finish(a)
  PROVE  /\ phase' \in Phases /\ group' \in Seq(Requests) /\ at' \in 0..Len(group')
         /\ entries' \in Seq(Entries) /\ written' \in Nat
         /\ answer' \in [Requests -> Answers] /\ writer' \in BOOLEAN
<1>4. answer' \in [Requests -> Answers] /\ writer' \in BOOLEAN
  BY Zenon DEF Finish
<1> QED
  BY EmptySeq, <1>4 DEF Finish, Phases

\* The initial states satisfy the invariant.
LEMMA InitInv == Init => Inv
<1> SUFFICES ASSUME Init PROVE Inv
  OBVIOUS
<1>5. /\ writer \in BOOLEAN /\ fence \in BOOLEAN /\ accepting \in BOOLEAN /\ stopping \in BOOLEAN
      /\ captured \subseteq [kind : {"snapshot", "sync"}, offset : Nat, store : Stores]
      /\ open \in BOOLEAN
  BY Zenon DEF Init
<1> QED
  BY CoordinatorAssumption, EmptySeq, <1>5 DEF Inv, Init, GatesHeld, Held, FileOnChain, TypeOK,
     Answers, Phases, EmptyStore, Stores

\* Every step keeps the types.
LEMMA TypeStep == Inv /\ [Next]_vars => TypeOK'
<1> SUFFICES ASSUME Inv, [Next]_vars PROVE TypeOK'
  OBVIOUS
<1> USE DEF Inv, others
<1>1. ASSUME NEW r \in Requests, Submit(r) PROVE TypeOK'
  <2>3. queue' \in Seq(Requests)
    <3>1. queue \in Seq(Requests)
      BY DEF TypeOK
    <3> QED
      BY <1>1, <3>1 DEF Submit
  <2>4. answer' \in [Requests -> Answers]
    BY <1>1, Zenon DEF TypeOK, Answers, Submit
  <2> QED
    BY <1>1, <2>3, <2>4 DEF Submit, TypeOK, worker, files
<1>2. CASE TakeFirst
  <2>1. /\ queue \in Seq(Requests) /\ deferred \in Seq(Requests)
        /\ group = <<>> /\ at = 0 /\ at' = at
    BY <1>2 DEF TypeOK, GatesHeld, Held, TakeFirst
  <2>2. group' \in Seq(Requests) /\ queue' \in Seq(Requests) /\ deferred' \in Seq(Requests)
    <3>1. ASSUME queue # <<>> PROVE <<Head(queue)>> \in Seq(Requests) /\ Tail(queue) \in Seq(Requests)
      BY <2>1, <3>1, HeadTailProperties
    <3> QED
      BY <1>2, <2>1, <3>1, EmptySeq, Zenon DEF TakeFirst, First
  <2>3. at' \in 0..Len(group')
    BY <2>1, <2>2, LenProperties
  <2> QED
    BY <1>2, <2>2, <2>3 DEF TakeFirst, TypeOK, files, Phases
<1>3. CASE Start
  <2>1. Answered(Grouped, "rejected") \in [Requests -> Answers]
    BY AnsweredType DEF Answers
  <2>2. CASE stopping \/ ~accepting
    <3>1. at = 0
      BY <1>3 DEF GatesHeld, Held, Start
    <3>2. group' \in Seq(Requests) /\ Len(group') = 0
      BY <1>3, <2>2, EmptySeq, Zenon DEF Start
    <3> QED
      BY <1>3, <2>1, <2>2, <3>1, <3>2 DEF Start, TypeOK, files, Phases
  <2>3. CASE ~(stopping \/ ~accepting)
    BY <1>3, <2>3 DEF Start, TypeOK, files, Phases
  <2> QED
    BY <2>2, <2>3
<1>4. CASE TakeWriteGate
  BY <1>4 DEF TakeWriteGate, TypeOK, files, Phases
<1>5. CASE TakeFence
  <2>1. CASE ~open
    BY <1>5, <2>1, Zenon DEF TakeFence, TypeOK, files, Phases
  <2>2. CASE open /\ ~accepting
    BY <1>5, AnsweredType, <2>2, FinishType DEF TakeFence, TypeOK, files, Answers
  <2>3. CASE open /\ accepting
    BY <1>5, <2>3 DEF TakeFence, TypeOK, files, Phases
  <2> QED
    BY <2>1, <2>2, <2>3
<1>6. CASE Execute
  <2>1. PICK change \in Derivable(store) :
          /\ entries' = Append(entries,
                               [request |-> group[at + 1], change |-> change, before |-> store])
          /\ store' = Apply(change, store)
    BY <1>6 DEF Execute
  <2>2. change \in Changes
    BY DEF Derivable, Changes
  <2>4. store \in Stores
    BY DEF TypeOK
  <2>6. store' \in Stores
    BY <2>1, <2>2, <2>4, ApplyType
  <2>7. entries' \in Seq(Entries)
    BY <2>1, <2>2, <1>6, <2>4 DEF TypeOK, Entries, Execute
  <2> QED
    BY <1>6, <2>6, <2>7 DEF Execute, TypeOK, files
<1>7. CASE NextRequest
  BY <1>7 DEF NextRequest, TypeOK, files
<1>8. CASE ExecuteFails
  BY <1>8 DEF ExecuteFails, TypeOK, files, Phases
<1>9. CASE AppendRecord
  <2>1. entries[written + 1] \in Entries
    BY <1>9 DEF AppendRecord, TypeOK
  <2>2. Record(entries[written + 1]) \in LogRecords /\ entries[written + 1].change \in Changes
    BY <2>1 DEF Record, Entries, LogRecords
  <2>3. disk' \in Stores
    BY <1>9, <2>2, ApplyType DEF AppendRecord, TypeOK
  <2>4. log' \in Seq(LogRecords)
    BY <1>9, <2>2 DEF AppendRecord, TypeOK
  <2> QED
    BY <1>9, <2>3, <2>4 DEF AppendRecord, TypeOK
<1>10. CASE AppendAccepted
  <2>1. Records(entries) \in Seq(LogRecords)
    BY RecordsType DEF TypeOK
  <2>3. offset' \in Nat
    BY <1>10 DEF AppendAccepted, Accepted, TypeOK
  <2>4. Finish(Completed) /\ fence' \in BOOLEAN
    BY <1>10, Zenon DEF AppendAccepted
  <2> QED
    BY <1>10, <2>1, <2>3, <2>4, CompletedType, FinishType DEF AppendAccepted, TypeOK
<1>11. CASE AppendRejected
  BY PrefixProperties, <1>11 DEF FileOnChain, TypeOK, AppendRejected, Phases
<1>12. CASE UndoLast
  <2>1. Chain /\ entries # <<>>
    BY <1>12 DEF UndoLast, Held
  <2>2. Front(entries) \in Seq(Entries) /\ Last(entries) \in Entries
    BY <2>1, FrontProperties DEF TypeOK
  <2>3. Undo(Last(entries)) \in Changes
    BY <2>2 DEF Undo, Entries, Changes, Stores
  <2> QED
    BY <1>12, <2>2, <2>3, ApplyType DEF UndoLast, TypeOK, files
<1>13. CASE UndoDone
  <2>1. Answered(Grouped, "rejected") \in [Requests -> Answers]
    BY AnsweredType DEF Answers
  <2> QED
    BY <1>13, <2>1, FinishType, Zenon DEF UndoDone, TypeOK, files
<1>14. CASE AppendIndeterminate
  <2>1. Answered(Grouped, "indeterminate") \in [Requests -> Answers]
    BY AnsweredType DEF Answers
  <2> QED
    BY <1>14, <2>1, FinishType, Zenon DEF AppendIndeterminate, TypeOK, files
<1>15. CASE WorkerPanics
  <2>2. Len(group') = 0 /\ group' \in Seq(Requests) /\ entries' \in Seq(Entries)
        /\ queue' \in Seq(Requests) /\ deferred' \in Seq(Requests)
    BY <1>15, EmptySeq DEF WorkerPanics
  <2>3. writer' \in BOOLEAN /\ stopping' \in BOOLEAN /\ accepting' \in BOOLEAN
    BY <1>15, Zenon DEF WorkerPanics
  <2>4. phase' \in Phases /\ at' \in 0..Len(group') /\ written' \in Nat
    BY <1>15, <2>2 DEF WorkerPanics, Phases
  <2> QED
    BY <1>15, AnsweredType, <2>2, <2>3, <2>4 DEF WorkerPanics, TypeOK, files, Abandoned, Answers
<1>16. ASSUME NEW kind \in {"snapshot", "sync"}, CaptureBegins(kind) PROVE TypeOK'
  BY <1>16 DEF CaptureBegins, TypeOK, worker, files
<1>21. CASE TakeMore
  <2>1. /\ queue \in Seq(Requests) /\ queue # <<>> /\ group \in Seq(Requests)
        /\ deferred \in Seq(Requests) /\ at \in 0..Len(group)
        /\ at' = at /\ queue' = Tail(queue)
    BY <1>21 DEF TypeOK, TakeMore
  <2>2. Head(queue) \in Requests /\ Tail(queue) \in Seq(Requests)
    BY <2>1, HeadTailProperties
  <2>3. /\ Append(group, Head(queue)) \in Seq(Requests) /\ <<Head(queue)>> \in Seq(Requests)
        /\ Len(Append(group, Head(queue))) = Len(group) + 1
    BY <2>1, <2>2
  <2>6. \/ group' = Append(group, Head(queue)) /\ deferred' = deferred
        \/ deferred' = <<Head(queue)>> /\ group' = group
    BY <1>21, Zenon DEF TakeMore
  <2>4. /\ group' \in Seq(Requests) /\ deferred' \in Seq(Requests)
        /\ Len(group') = Len(group) \/ Len(group') = Len(group) + 1
    BY <2>1, <2>3, <2>6, Zenon
  <2>5. at' \in 0..Len(group')
    BY <2>1, <2>4, LenProperties
  <2> QED
    BY <1>21, <2>1, <2>2, <2>4, <2>5 DEF TakeMore, TypeOK, files
<1>22. CASE AwaitAdmission
  BY <1>22 DEF AwaitAdmission, TypeOK, files, Phases
<1>23. CASE AdmissionChanges
  <2>1. open' \in BOOLEAN
    BY <1>23, Zenon DEF AdmissionChanges
  <2> QED
    BY <1>23, <2>1 DEF AdmissionChanges, TypeOK, worker, files
<1>24. CASE Capture
  <2>1. captor \in {"snapshot", "sync"} /\ offset \in Nat /\ store \in Stores
    BY <1>24 DEF Capture, TypeOK
  <2>2. captured' \subseteq [kind : {"snapshot", "sync"}, offset : Nat, store : Stores]
    BY <1>24, <2>1 DEF Capture
  <2> QED
    BY <1>24, <2>2, Zenon DEF Capture, TypeOK, worker, files
<1>17. CASE SyncFails
  BY <1>17, Zenon DEF SyncFails, TypeOK, worker, files
<1>18. CASE FailStop
  BY <1>18, Zenon DEF FailStop, TypeOK, worker, files
<1>19. CASE Restart
  <2>1. Answered(Grouped \cup Queued, "lost") \in [Requests -> Answers]
    BY AnsweredType DEF Answers
  <2>2. queue' \in Seq(Requests) /\ deferred' \in Seq(Requests)
    BY <1>19, EmptySeq DEF Restart
  <2>4. offset' \in Nat /\ crashes' \in Nat
    BY <1>19 DEF Restart, TypeOK
  <2> QED
    BY <1>19, <2>1, <2>2, <2>4, FinishType, Zenon DEF Restart, TypeOK
<1>20. CASE UNCHANGED vars
  BY <1>20 DEF vars, TypeOK
<1> QED
  BY <1>1, <1>2, <1>3, <1>4, <1>5, <1>6, <1>7, <1>8, <1>9, <1>10, <1>11, <1>12, <1>13, <1>14,
     <1>15, <1>16, <1>17, <1>18, <1>19, <1>20, <1>21, <1>22, <1>23, <1>24 DEF Next, Worker

-----------------------------------------------------------------------------
(* Gates *)

\* Every step keeps GatesHeld: the worker executes and undoes only behind both
\* gates, and holds mutations at no other time.
LEMMA GatesStep == Inv /\ [Next]_vars => GatesHeld'
<1> SUFFICES ASSUME Inv, [Next]_vars PROVE GatesHeld'
  OBVIOUS
<1> USE DEF Inv, GatesHeld, Held, others
<1>1. ASSUME NEW r \in Requests, Submit(r) PROVE GatesHeld'
  BY <1>1 DEF Submit, worker
<1>2. CASE TakeFirst
  BY <1>2 DEF TakeFirst, First
<1>3. CASE Start
  BY <1>3 DEF Start
<1>4. CASE TakeWriteGate
  BY <1>4 DEF TakeWriteGate
<1>5. CASE TakeFence
  <2>1. phase = "fence" /\ writer /\ captor = "none" /\ captor' = captor
        /\ entries = <<>> /\ written = 0 /\ at = 0
    BY <1>5 DEF TakeFence
  <2>2. CASE ~open
    BY <1>5, <2>1, <2>2, Zenon DEF TakeFence
  <2>3. CASE open /\ accepting
    BY <1>5, <2>1, <2>3 DEF TakeFence
  <2>4. CASE open /\ ~accepting
    BY <1>5, <2>1, <2>4, Zenon DEF TakeFence, Finish
  <2> QED
    BY <2>2, <2>3, <2>4
<1>6. CASE Execute
  BY <1>6 DEF Execute
<1>7. CASE NextRequest
  BY <1>7 DEF NextRequest
<1>8. CASE ExecuteFails
  BY <1>8 DEF ExecuteFails
<1>9. CASE AppendRecord
  BY <1>9 DEF AppendRecord, Executed
<1>10. CASE AppendAccepted
  BY <1>10 DEF AppendAccepted, Appended, Executed, Finish
<1>11. CASE AppendRejected
  BY <1>11 DEF AppendRejected, Executed
<1>12. CASE UndoLast
  BY <1>12 DEF UndoLast
<1>13. CASE UndoDone
  BY <1>13 DEF UndoDone, Finish
<1>14. CASE AppendIndeterminate
  BY <1>14 DEF AppendIndeterminate, Finish
<1>15. CASE WorkerPanics
  BY <1>15 DEF WorkerPanics
<1>16. ASSUME NEW kind \in {"snapshot", "sync"}, CaptureBegins(kind) PROVE GatesHeld'
  BY <1>16 DEF CaptureBegins, GateFree, worker
<1>21. CASE TakeMore
  BY <1>21 DEF TakeMore
<1>22. CASE AwaitAdmission
  BY <1>22 DEF AwaitAdmission
<1>23. CASE AdmissionChanges
  BY <1>23 DEF AdmissionChanges, worker
<1>24. CASE Capture
  BY <1>24 DEF Capture, worker
<1>17. CASE SyncFails
  BY <1>17 DEF SyncFails, worker
<1>18. CASE FailStop
  BY <1>18 DEF FailStop, worker
<1>19. CASE Restart
  BY <1>19 DEF Restart, Finish
<1>20. CASE UNCHANGED vars
  BY <1>20 DEF vars
<1> QED
  BY <1>1, <1>2, <1>3, <1>4, <1>5, <1>6, <1>7, <1>8, <1>9, <1>10, <1>11, <1>12, <1>13, <1>14,
     <1>15, <1>16, <1>17, <1>18, <1>19, <1>20, <1>21, <1>22, <1>23, <1>24, Zenon DEF Next, Worker

-----------------------------------------------------------------------------
(* The chain of stores *)

\* Where a step leaves the mutations, the store and the accepted state alone,
\* the chain stays.
LEMMA ChainUnchanged ==
  Chain /\ UNCHANGED <<entries, store, kept>> => Chain'
  BY DEF Chain, Before

\* Taking the visibility gate starts an empty chain.
LEMMA ChainStarts ==
  ASSUME Inv, TakeFence, phase' = "execute"
  PROVE  Chain'
<1>1. entries' = <<>> /\ store' = kept'
  BY Zenon DEF Inv, GatesHeld, Held, FileOnChain, TakeFence, files, TypeOK, Phases, Finish
<1> QED
  BY <1>1, EmptySeq DEF Chain, Before

\* Executing a mutation adds one link.
LEMMA ChainGrows ==
  ASSUME Inv, Execute
  PROVE  Chain'
<1>1. PICK change \in Derivable(store) :
        /\ entries' = Append(entries,
                             [request |-> group[at + 1], change |-> change, before |-> store])
        /\ store' = Apply(change, store)
  BY DEF Execute
<1> DEFINE e == [request |-> group[at + 1], change |-> change, before |-> store]
           n == Len(entries)
<1>2. n \in Nat /\ entries \in Seq(Entries) /\ Chain /\ kept' = kept
  BY DEF Inv, Execute, Held, files, TypeOK
<1>3. /\ Len(entries') = n + 1 /\ entries'[n + 1] = e
      /\ \A i \in 1..n : entries'[i] = entries[i]
  BY <1>1, <1>2, AppendExtends DEF Extends
<1> HIDE DEF n
<1>4. \A i \in 1..(n + 1) : Before(i)' = Before(i)
  <2> SUFFICES ASSUME NEW i \in 1..(n + 1) PROVE Before(i)' = Before(i)
    OBVIOUS
  <2>1. CASE i = n + 1
    BY <2>1, <1>2, <1>3 DEF Before, n
  <2>2. CASE i \in 1..n
    BY <2>2, <1>2, <1>3 DEF Before, n
  <2> QED
    BY <2>1, <2>2, <1>2
<1>6. Before(1)' = kept'
  BY <1>2, <1>4 DEF Chain
<1>7. ASSUME NEW i \in 1..(n + 1)
      PROVE  Before(i + 1)' = Apply(entries'[i].change, Before(i)')
  BY <1>3, <1>2, <1>4, <1>1 DEF Before, n, Chain
<1> QED
  BY <1>3, <1>6, <1>7 DEF Chain, n

\* Undoing the last mutation takes away one link, and the store is what it was
\* before that mutation.
LEMMA ChainShrinks ==
  ASSUME Inv, UndoLast
  PROVE  Chain'
<1> DEFINE n == Len(entries)
<1>1. /\ entries \in Seq(Entries) /\ entries # <<>> /\ Chain
      /\ kept' = kept /\ entries' = Front(entries)
      /\ store' = Apply(Undo(Last(entries)), store)
  BY DEF Inv, TypeOK, UndoLast, Held, files
<1>2. /\ n \in Nat \ {0} /\ Len(entries') = n - 1
      /\ Last(entries) = entries[n] /\ entries[n] \in Entries
      /\ \A i \in 1..(n - 1) : entries'[i] = entries[i]
  BY <1>1, FrontProperties
<1> HIDE DEF n
<1>3. store = Apply(entries[n].change, entries[n].before)
  BY <1>1, <1>2 DEF Chain, n, Before
<1>4. store' = entries[n].before
  BY <1>1, <1>2, <1>3, UndoRestores
<1>5. \A i \in 1..n : Before(i)' = Before(i)
  BY <1>2, <1>4 DEF Before, n
<1>6. Before(1)' = kept'
  BY <1>1, <1>2, <1>5 DEF Chain
<1> QED
  BY <1>2, <1>6, <1>1, <1>5 DEF Chain, n

\* Every step of the worker behind the gates keeps the chain.
LEMMA ChainStep == Inv /\ [Next]_vars => (Held => Chain)'
<1> SUFFICES ASSUME Inv, [Next]_vars, Held' PROVE Chain'
  OBVIOUS
<1> DEFINE Keeps == Held /\ UNCHANGED <<entries, store, kept>>
<1>0. Keeps => Chain'
  BY ChainUnchanged DEF Inv
<1> USE DEF Held
<1>1. ASSUME NEW r \in Requests, Submit(r) PROVE Keeps
  BY <1>1 DEF Submit, worker, files
<1>5. CASE TakeFence
  BY <1>5, ChainStarts, Zenon DEF TakeFence, Finish
<1>6. CASE Execute
  BY <1>6, ChainGrows
<1>7. CASE NextRequest
  BY <1>0, <1>7 DEF NextRequest, files
<1>8. CASE ExecuteFails
  BY <1>0, <1>8 DEF ExecuteFails, files
<1>9. CASE AppendRecord
  BY <1>0, <1>9 DEF AppendRecord, Executed
<1>11. CASE AppendRejected
  BY <1>0, <1>11 DEF AppendRejected, Executed
<1>12. CASE UndoLast
  BY <1>12, ChainShrinks
<1>16. ASSUME NEW kind \in {"snapshot", "sync"}, CaptureBegins(kind) PROVE Keeps
  BY <1>16 DEF CaptureBegins, worker, files
<1>23. CASE AdmissionChanges
  BY <1>0, <1>23 DEF AdmissionChanges, worker, files
<1>24. CASE Capture
  BY <1>0, <1>24 DEF Capture, worker, files
<1>17. CASE SyncFails
  BY <1>0, <1>17 DEF SyncFails, worker, files
<1>18. CASE FailStop
  BY <1>0, <1>18 DEF FailStop, worker, files
<1>19. ~Restart
  BY DEF Restart, Finish
<1>20. CASE UNCHANGED vars
  BY <1>0, <1>20 DEF vars
<1> QED
  BY <1>0, <1>1, <1>5, <1>6, <1>7, <1>8, <1>9, <1>11, <1>12, <1>16, <1>17, <1>18, <1>19, <1>20,
     <1>23, <1>24, Zenon DEF Next, Worker, TakeFirst, TakeMore, AwaitAdmission, TakeWriteGate, Start,
     Finish, AppendAccepted, UndoDone, AppendIndeterminate, WorkerPanics

-----------------------------------------------------------------------------
(* The file *)

\* Every step keeps the file on the chain, and at its accepted end whenever
\* readers may enter.
LEMMA FileStep == Inv /\ [Next]_vars => FileOnChain'
<1> SUFFICES ASSUME Inv, [Next]_vars PROVE FileOnChain'
  OBVIOUS
<1> DEFINE Keeps == UNCHANGED <<phase, group, at, entries, written, store, log, disk, kept, offset>>
<1>0. /\ written \in Nat /\ Len(entries) \in Nat /\ Len(log) \in Nat /\ offset \in Nat
      /\ at \in 0..Len(group) /\ log \in Seq(LogRecords) /\ fence \in BOOLEAN /\ phase \in Phases
  BY DEF Inv, TypeOK
<1>k. Keeps /\ (fence' = fence \/ fence') => FileOnChain'
  BY DEF Inv, FileOnChain, Before
<1>1. ASSUME NEW r \in Requests, Submit(r) PROVE FileOnChain'
  BY <1>k, <1>1 DEF Submit, worker, files
<1>2. CASE TakeFirst
  BY <1>0, <1>2 DEF TakeFirst, First, files, Inv, FileOnChain, Phases
<1>3. CASE Start
  BY <1>0, <1>3 DEF Start, files, Inv, FileOnChain
<1>4. CASE TakeWriteGate
  BY <1>0, <1>4 DEF TakeWriteGate, files, Inv, FileOnChain
<1>5. CASE TakeFence
  <2>1. entries = <<>> /\ written = 0 /\ Len(entries) = 0
    BY <1>5, EmptySeq DEF TakeFence, Inv, GatesHeld, Held
  <2> QED
    BY <1>0, <1>5, <2>1 DEF TakeFence, Finish, files, FileOnChain, Before, Inv
<1>6. CASE Execute
  <2>1. /\ phase = "execute" /\ at < Len(group)
        /\ UNCHANGED <<phase, group, at, written, log, disk, kept, offset, fence>>
    BY <1>6, Zenon DEF Execute, files
  <2>2. fence /\ Before(1) = kept
    BY <2>1, Zenon DEF Inv, GatesHeld, Held, Chain
  <2>3. written = 0 /\ disk = Before(1) /\ Len(log) = offset
    <3>1. written = 0 /\ disk = Before(written + 1) /\ Len(log) = offset + written
      BY <2>1, Zenon DEF Inv, FileOnChain
    <3> QED
      BY <3>1, <1>0
  <2>4. Before(1)' = kept'
    BY <1>6, ChainGrows DEF Chain
  <2>5. Len(entries') \in Nat
    BY TypeStep, LenProperties DEF TypeOK
  <2> QED
    BY <2>1, <2>2, <2>3, <2>4, <2>5, <1>0 DEF FileOnChain
<1>7. CASE NextRequest
  BY <1>0, <1>7 DEF NextRequest, files, Inv, FileOnChain, Before
<1>8. CASE ExecuteFails
  <2>1. written = 0 /\ Len(log) = offset /\ disk = kept /\ fence
    BY <1>0, <1>8 DEF ExecuteFails, Inv, GatesHeld, FileOnChain, Chain, Held
  <2> QED
    BY <1>8, <2>1, <1>0 DEF ExecuteFails, files, FileOnChain
<1>9. CASE AppendRecord
  <2>1. /\ phase = "execute" /\ at = Len(group) /\ written < Len(entries) /\ fence
        /\ Len(log) = offset + written /\ disk = Before(written + 1) /\ Chain
    BY <1>9 DEF AppendRecord, Executed, Inv, FileOnChain, GatesHeld, Held
  <2>3. disk' = Before(written + 1 + 1)
    BY <1>9, <2>1, <1>0 DEF AppendRecord, Chain
  <2>4. disk' = Before(written + 1)'
    BY <1>9, <2>3 DEF AppendRecord, Before
  <2>5. Len(log') = Len(log) + 1
    BY <1>9, <1>0, LenAppended DEF AppendRecord
  <2> QED
    BY <1>9, <1>0, <2>1, <2>4, <2>5 DEF AppendRecord, FileOnChain
<1>10. CASE AppendAccepted
  BY <1>10, <1>0 DEF AppendAccepted, Appended, Executed, Inv, FileOnChain, Before, Accepted,
     Finish
<1>11. CASE AppendRejected
  BY <1>11, <1>0, PrefixProperties DEF AppendRejected, Inv, FileOnChain, Executed, GatesHeld, Held
<1>12. CASE UndoLast
  BY <1>12, <1>0 DEF UndoLast, files, FileOnChain, Inv, GatesHeld, Held
<1>13. CASE UndoDone
  BY <1>13, EmptySeq, <1>0 DEF UndoDone, Before, Finish, files, FileOnChain, Inv, Chain, Held
<1>14. CASE AppendIndeterminate
  BY <1>14, <1>0 DEF AppendIndeterminate, Finish, files, Inv, FileOnChain, Executed, GatesHeld,
     Held
<1>15. CASE WorkerPanics
  BY <1>15, <1>0 DEF WorkerPanics, files, Inv, FileOnChain, GatesHeld, Held
<1>16. ASSUME NEW kind \in {"snapshot", "sync"}, CaptureBegins(kind) PROVE FileOnChain'
  BY <1>k, <1>16 DEF CaptureBegins, worker, files
<1>21. CASE TakeMore
  BY <1>0, <1>21 DEF TakeMore, files, Inv, FileOnChain, Phases
<1>22. CASE AwaitAdmission
  BY <1>0, <1>22 DEF AwaitAdmission, files, Inv, FileOnChain
<1>23. CASE AdmissionChanges
  BY <1>k, <1>23 DEF AdmissionChanges, worker, files
<1>24. CASE Capture
  BY <1>k, <1>24 DEF Capture, worker, files
<1>17. CASE SyncFails
  BY <1>k, <1>17 DEF SyncFails, worker, files
<1>18. CASE FailStop
  BY <1>k, <1>18 DEF FailStop, worker, files
<1>19. CASE Restart
  BY <1>0, <1>19 DEF Restart, Finish, FileOnChain
<1>20. CASE UNCHANGED vars
  BY <1>k, <1>20 DEF vars
<1> QED
  BY <1>1, <1>2, <1>3, <1>4, <1>5, <1>6, <1>7, <1>8, <1>9, <1>10, <1>11, <1>12, <1>13, <1>14,
     <1>15, <1>16, <1>17, <1>18, <1>19, <1>20, <1>21, <1>22, <1>23, <1>24 DEF Next, Worker

-----------------------------------------------------------------------------
(* The theorems *)

\* The invariant holds in every behaviour of the coordinator.
LEMMA Invariance == Spec => []Inv
<1>1. Inv /\ [Next]_vars => Inv'
  BY TypeStep, GatesStep, ChainStep, FileStep DEF Inv
<1> QED
  BY InitInv, <1>1, PTL DEF Spec

\* The state keeps its types in every behaviour of the coordinator.
THEOREM TypeCorrect == Spec => []TypeOK
<1>1. Inv => TypeOK
  BY DEF Inv
<1> QED
  BY Invariance, <1>1, PTL

\* Readers never see a store that a restart would not recover: whatever fails,
\* and whenever the process dies, the visibility gate is open only over a
\* store equal to what the binlog replays to.
THEOREM VisibleDurable == Spec => []VisibleIsDurable
<1>1. Inv => VisibleIsDurable
  BY DEF Inv, FileOnChain, VisibleIsDurable
<1> QED
  BY Invariance, <1>1, PTL

=============================================================================
