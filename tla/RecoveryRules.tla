---------------------------- MODULE RecoveryRules ----------------------------
(***************************************************************************)
(* The startup rules of persistence/recovery.rs as pure operators: what a  *)
(* directory of snapshot files, sealed segments and one active binlog      *)
(* recovers to, and when startup refuses it.                               *)
(*                                                                         *)
(* A record is [seq, id]: its sequence number and the identity of the      *)
(* committed batch it carries.  A file is a sequence of records; an        *)
(* incomplete record (a prefix of one reached the file) is Torn and can    *)
(* only be last.  A directory d is                                         *)
(*   d.primary, d.backup   onyx.snapshot and its backup, or Missing        *)
(*   d.segs                final sequence -> file of a sealed segment      *)
(*   d.active              the file named onyx.binlog, 0 if there is none  *)
(* and data maps files to contents.                                        *)
(***************************************************************************)
EXTENDS Integers, Sequences, FiniteSets, SequencesExt

Torn == [seq |-> 0, id |-> 0]

\* A snapshot holds the dataset at its watermark; the dataset is abstracted to
\* the sequence of batch identities applied to it.  No snapshot file and a
\* snapshot of the empty database recover alike.
Missing == [watermark |-> 0, image |-> <<>>]

\* for_each_binlog_record stops in front of an incomplete last record.
ValidRecords(recs) == SelectSeq(recs, LAMBDA r : r # Torn)
TruncatedTail(recs) == recs # <<>> /\ Last(recs) = Torn

\* inspect_binlog: consecutive sequences inside a file; applied to the
\* concatenation of the files it is also inspect_binlog_history's check that
\* each non-empty file continues where the previous one ended.
Contiguous(recs) == \A i \in 1..Len(recs) - 1 : recs[i + 1].seq = recs[i].seq + 1

SegmentEnds(d) == SetToSortSeq(DOMAIN d.segs, <)

ActiveRecords(d, data) == IF d.active = 0 THEN <<>> ELSE data[d.active]

\* Segments in declared order, then the active file.
HistoryRecords(d, data) ==
  FlattenSeq([i \in 1..Len(SegmentEnds(d)) |-> data[d.segs[SegmentEnds(d)[i]]]])
    \o ValidRecords(ActiveRecords(d, data))

\* Each sealed segment is complete, non-empty, and ends where its name says.
\* (A torn last segment, which the code can repair, is never produced here:
\* sealing synchronizes the file before it renames it.)
SegmentsMatchNames(d, data) ==
  \A e \in DOMAIN d.segs :
    LET recs == data[d.segs[e]]
    IN  recs # <<>> /\ ~TruncatedTail(recs) /\ Last(recs).seq = e

ChosenSnapshot(d) == IF d.primary # Missing THEN d.primary ELSE d.backup

\* The result of load_data_from_paths: whether startup accepts the directory
\* and, if it does, the dataset and the last sequence it resumes from.
Recovered(d, data, maxSegments) ==
  LET snap == ChosenSnapshot(d)
      recs == HistoryRecords(d, data)
      replayed == SelectSeq(recs, LAMBDA r : r.seq > snap.watermark)
  IN  [ok |-> /\ Cardinality(DOMAIN d.segs) <= maxSegments
              /\ SegmentsMatchNames(d, data)
              /\ Contiguous(recs)
              /\ recs # <<>> => Head(recs).seq <= snap.watermark + 1,
       watermark |-> snap.watermark,
       history |-> snap.image \o [i \in 1..Len(replayed) |-> replayed[i].id],
       sequence |-> IF recs # <<>> /\ Last(recs).seq > snap.watermark
                    THEN Last(recs).seq ELSE snap.watermark]
==============================================================================
