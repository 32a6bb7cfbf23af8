------------------------------- MODULE Segment -------------------------------
(***************************************************************************)
(* The contents of a table version (h5i-db-core, segment.rs, manifest.rs   *)
(* and the write paths of database.rs): how record batches become sorted   *)
(* Parquet segments with statistics, and how each write operation makes    *)
(* the segment list of the next version from its parent's.                 *)
(*                                                                         *)
(* A row has a time, a string column that may be null, and a price.        *)
(* Strings are numbers in their order; those above ShortMax are longer     *)
(* than MAX_STRING_STAT_LEN.  The size of a segment is its number of rows, *)
(* and its checksum its rows.  An absent time bound is one that excludes   *)
(* nothing.                                                                *)
(***************************************************************************)
EXTENDS Naturals, Sequences, FiniteSets, TLC, SequencesExt, FiniteSetsExt, Functions

CONSTANTS TargetRows,   \* target_segment_bytes: a buffer this large is flushed
          MergeChunk,   \* MERGE_CHUNK_ROWS
          RowGroup,     \* rows of a Parquet row group
          ShortMax,     \* the last string that fits MAX_STRING_STAT_LEN
          MaxDistinct,  \* MAX_DISTINCT_VALUES
          SmallBelow,   \* compact: a segment is small below this size,
          GroupAt,      \*   and a run of them is cut when it reaches this one
          MaxSegments   \* max_segments_per_manifest

ASSUME SegmentAssumption ==
  /\ {TargetRows, MergeChunk, RowGroup, GroupAt, MaxSegments} \subseteq Nat \ {0}
  /\ {ShortMax, MaxDistinct, SmallBelow} \subseteq Nat

NoString == 0   \* null, and the absence of a bound

------------------------------------------------------------------------------
(* Statistics.                                                              *)

Strings(rows) == {r.s : r \in {x \in Range(rows) : x.s # NoString}}

Nulls(rows) == Len(SelectSeq(rows, LAMBDA r : r.s = NoString))

Guard(s) == IF s > ShortMax THEN NoString ELSE s

ArrayMinMax(rows) ==
  IF Strings(rows) = {} THEN <<NoString, NoString>>
  ELSE <<Guard(Min(Strings(rows))), Guard(Max(Strings(rows)))>>

ColumnAcc == [min |-> NoString, max |-> NoString, nulls |-> 0, distinct |-> {}, dropped |-> FALSE]

\* ColumnAcc::observe: the bounds of a batch that has them tighten the
\* accumulator; a batch whose bound the guard withheld leaves it alone.
Observe(acc, mm, rows) ==
  [acc EXCEPT !.nulls = @ + Nulls(rows),
              !.min = IF mm[1] # NoString /\ (@ = NoString \/ mm[1] < @) THEN mm[1] ELSE @,
              !.max = IF mm[2] # NoString /\ (@ = NoString \/ @ < mm[2]) THEN mm[2] ELSE @]

\* Once the set overflows it stays empty: a cleared set that filled again
\* would claim to be exact.
ObserveDistinct(acc, rows) ==
  IF acc.dropped THEN acc
  ELSE LET all == acc.distinct \cup Strings(rows) IN
       IF Cardinality(all) > MaxDistinct THEN [acc EXCEPT !.distinct = {}, !.dropped = TRUE]
       ELSE [acc EXCEPT !.distinct = all]

ColumnStats(batches) ==
  FoldLeft(LAMBDA acc, b : ObserveDistinct(Observe(acc, ArrayMinMax(b), b), b), ColumnAcc, batches)

\* A batch without its bound next to one with it: the segment's bound is then
\* that of part of its rows.
MixedBounds(batches) ==
  \E b \in Range(batches), c \in Range(batches), k \in {1, 2} :
     /\ Strings(b) # {} /\ ArrayMinMax(b)[k] = NoString
     /\ ArrayMinMax(c)[k] # NoString

Times(rows) == {r.t : r \in Range(rows)}

------------------------------------------------------------------------------
(* Sorting.                                                                 *)

InOrder(rows) == \A i \in 1 .. Len(rows) - 1 : rows[i].t <= rows[i + 1].t

\* lexsort_to_indices is not stable: rows of equal time come in any order.
Sorts(rows) ==
  LET n == Len(rows) IN
  {s \in {[i \in 1 .. n |-> rows[p[i]]] : p \in Permutations(1 .. n)} : InOrder(s)}

\* sort_batches: one sorted batch.
SortBatches(batches) ==
  LET all == FlattenSeq(batches) IN IF Len(all) < 2 THEN {all} ELSE Sorts(all)

SortBatch(b) == IF InOrder(b) THEN {b} ELSE Sorts(b)

\* sort_each_batch: the ways its result may come out.
SortEachBatch(batches) ==
  LET full == SelectSeq(batches, LAMBDA b : b # <<>>)
  IN  {f \in [1 .. Len(full) -> UNION {SortBatch(b) : b \in Range(full)}] :
         \A i \in DOMAIN f : f[i] \in SortBatch(full[i])}

StableBy(seq, Key(_)) ==
  LET order == SortSeq([i \in DOMAIN seq |-> i],
                       LAMBDA i, j : \/ Key(seq[i]) < Key(seq[j])
                                     \/ Key(seq[i]) = Key(seq[j]) /\ i < j)
  IN  [i \in DOMAIN seq |-> seq[order[i]]]

Chunks(rows, n) ==
  [i \in 1 .. ((Len(rows) + n - 1) \div n) |->
     SubSeq(rows, (i - 1) * n + 1, Min({i * n, Len(rows)}))]

\* SortedBatchMerger: of equal heads the earlier batch's goes first.
MergeSorted(batches) == Chunks(StableBy(FlattenSeq(batches), LAMBDA r : r.t), MergeChunk)

------------------------------------------------------------------------------
(* SegmentWriter.                                                           *)

NewWriter(seq) == [by |-> seq, out |-> <<>>, buffered |-> <<>>, sorted |-> TRUE, last |-> 0]

Flush(w) ==
  IF w.buffered = <<>> THEN w
  ELSE LET rows == FlattenSeq(w.buffered) IN
       [w EXCEPT !.buffered = <<>>,
                 !.out = Append(@, [id |-> <<w.by, Len(w.out) + 1>>, rows |-> rows,
                                    min |-> Min(Times(rows)), max |-> Max(Times(rows)),
                                    sorted |-> w.sorted, by |-> w.by,
                                    stats |-> ColumnStats(w.buffered),
                                    mixed |-> MixedBounds(w.buffered)])]

\* Once out of order, always out of order: the flag is that of the whole input
\* so far, the order across batches included.
Push(w, b) ==
  IF b = <<>> THEN w
  ELSE LET still == w.sorted /\ InOrder(b) /\ ~(w.last # 0 /\ b[1].t < w.last)
           next == [w EXCEPT !.sorted = still,
                             !.last = IF still THEN b[Len(b)].t ELSE @,
                             !.buffered = Append(@, b)]
       IN  IF Len(FlattenSeq(next.buffered)) >= TargetRows THEN Flush(next) ELSE next

PushAll(w, batches) == FoldLeft(Push, w, batches)

Finish(w) == Flush(w).out

\* A new segment whose content is already there is replaced by the parent's,
\* statistics, creator and all.
DedupSegments(new, parent) ==
  [i \in DOMAIN new |->
     LET same == {j \in DOMAIN parent : parent[j].rows = new[i].rows}
     IN  IF same = {} THEN new[i] ELSE parent[Max(same)]]

------------------------------------------------------------------------------
(* The segment list each operation gives its version.  seq is the sequence  *)
(* of that version, the result a set: the lists it may be.                  *)

OverlapsTime(seg, start, end) == seg.min < end /\ seg.max >= start

CoveredByTime(seg, start, end) == seg.min >= start /\ seg.max < end

Within(rows, start, end) == SelectSeq(rows, LAMBDA r : r.t >= start /\ r.t < end)

RowCount(segs) == FoldLeft(LAMBDA n, g : n + Len(g.rows), 0, segs)

StageWrite(parent, batches, seq) ==
  {DedupSegments(Finish(PushAll(NewWriter(seq), MergeSorted(sorted))), parent) :
     sorted \in SortEachBatch(batches)}

MaxTime(segs) == Max({0} \cup {g.max : g \in Range(segs)})

\* SortOrderViolation otherwise.
AppendOrdered(parent, batches) ==
  LET full == SelectSeq(batches, LAMBDA b : b # <<>>)
  IN  /\ \A b \in Range(full) : InOrder(b)
      /\ \A i \in 1 .. Len(full) - 1 : Max(Times(full[i])) <= Min(Times(full[i + 1]))
      /\ full # <<>> => Min(Times(full[1])) >= MaxTime(parent)

StageAppend(parent, batches, seq) ==
  {parent \o DedupSegments(Finish(PushAll(NewWriter(seq), batches)), parent)}

ByStart(segs) == StableBy(segs, LAMBDA g : g.min)

\* replace_range_impl: segments outside the range are kept, those inside are
\* dropped unread, the others are rewritten without it.
ReplaceRange(parent, start, end, batches, seq) ==
  LET outside(g) == ~OverlapsTime(g, start, end)
      kept == SelectSeq(parent, outside)
      boundary == SelectSeq(parent, LAMBDA g : ~outside(g) /\ ~CoveredByTime(g, start, end))
      trimmed == PushAll(NewWriter(seq),
                         FlattenSeq([i \in DOMAIN boundary |->
                           <<SelectSeq(boundary[i].rows, LAMBDA r : r.t < start),
                             SelectSeq(boundary[i].rows, LAMBDA r : r.t >= end)>>]))
  IN  {ByStart(kept \o DedupSegments(Finish(Push(trimmed, new)), parent)) :
         new \in SortBatches(batches)}

\* compact_with: the runs of small segments, in time order.
Small(g) == Len(g.rows) < SmallBelow

CloseCurrent(acc) ==
  IF Len(acc.current) > 1
  THEN [acc EXCEPT !.groups = Append(@, acc.current), !.current = <<>>]
  ELSE [acc EXCEPT !.untouched = @ \o acc.current, !.current = <<>>]

Grouped(acc, g) ==
  IF Small(g)
  THEN LET next == [acc EXCEPT !.current = Append(@, g)]
       IN  IF RowCount(next.current) >= GroupAt THEN CloseCurrent(next) ELSE next
  ELSE LET closed == CloseCurrent(acc) IN [closed EXCEPT !.untouched = Append(@, g)]

CompactPlan(parent) ==
  CloseCurrent(FoldLeft(Grouped, [groups |-> <<>>, current |-> <<>>, untouched |-> <<>>],
                        ByStart(parent)))

\* A segment is read back as one batch.  One writer serves all groups, flushed
\* between them.
Compact(parent, seq) ==
  LET plan == CompactPlan(parent)
      Batches(group) == [i \in DOMAIN group |-> group[i].rows]
      sorts == {f \in [DOMAIN plan.groups -> UNION {SortEachBatch(Batches(g)) : g \in Range(plan.groups)}] :
                  \A i \in DOMAIN f : f[i] \in SortEachBatch(Batches(plan.groups[i]))}
      Written(f) == Finish(FoldLeft(LAMBDA w, bs : Flush(PushAll(w, MergeSorted(bs))),
                                    NewWriter(seq), f))
  IN  {ByStart(plan.untouched \o Written(f)) : f \in sorts}

\* Compaction that could not find two segments to join commits nothing.
Compactable(parent) == CompactPlan(parent).groups # <<>>

------------------------------------------------------------------------------
(* Reading a segment back.                                                  *)

RowGroups(seg) == Chunks(seg.rows, RowGroup)

RowGroupOverlaps(rows, start, end) == Min(Times(rows)) < end /\ Max(Times(rows)) >= start

ReadSegment(seg, start, end) ==
  Within(FlattenSeq(SelectSeq(RowGroups(seg), LAMBDA g : RowGroupOverlaps(g, start, end))),
         start, end)

\* Database::scan: prune segments by time, read the rest in manifest order,
\* stop after `limit` rows.
ScanStream(segs, start, end, limit) ==
  LET survivors == SelectSeq(segs, LAMBDA g : OverlapsTime(g, start, end))
      rows == FlattenSeq([i \in DOMAIN survivors |-> ReadSegment(survivors[i], start, end)])
  IN  SubSeq(rows, 1, Min({limit, Len(rows)}))

Rows(segs) == FlattenSeq([i \in DOMAIN segs |-> segs[i].rows])
==============================================================================
