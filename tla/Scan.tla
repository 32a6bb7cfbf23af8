-------------------------------- MODULE Scan --------------------------------
(***************************************************************************)
(* Reading one resolved table version (h5i-db-query: provider.rs,          *)
(* pruning.rs, predicate_cache.rs, latest.rs, aggregate_state.rs,          *)
(* sidecar.rs; h5i-db-core incremental.rs): what a scan skips and what it  *)
(* returns, and the disposable sidecars that let it skip more.             *)
(*                                                                         *)
(* A filter is a record: syms, the strings an equality or an IN list asks  *)
(* for (none: no condition); null, an IS NULL test; lo .. hi, the times.   *)
(* A set of sidecars is a sequence of entries, oldest first; an entry that *)
(* does not verify is one whose intact is FALSE.                           *)
(***************************************************************************)
EXTENDS Segment, Bags, Integers

CONSTANT Budget   \* MAX_CACHE_BYTES: the entries of one kind that fit

ASSUME BudgetAssumption == Budget \in Nat \ {0}

BagOf(rows) == [r \in Range(rows) |-> Cardinality({i \in DOMAIN rows : rows[i] = r})]

Matches(f, r) ==
  /\ f.syms # {} => r.s \in f.syms
  /\ f.null => r.s = NoString
  /\ f.lo <= r.t /\ r.t <= f.hi

------------------------------------------------------------------------------
(* Pruning.                                                                 *)

\* A segment with one of the strings has it.
ContainedAll(g, syms) ==
  IF g.stats.distinct = {} THEN {TRUE, FALSE} ELSE {syms \subseteq g.stats.distinct}

\* ManifestPruningStats::contained: TRUE, FALSE or unknown, as sets of outcomes.
Contained(g, syms) ==
  IF g.stats.distinct = {} THEN {TRUE, FALSE}
  ELSE IF g.stats.distinct \subseteq syms THEN {TRUE}
  ELSE IF g.stats.distinct \cap syms = {} THEN {FALSE}
  ELSE {TRUE, FALSE}

\* PruningPredicate (DataFusion): may the segment hold a matching row?  An
\* absent bound excludes nothing.
MayMatch(g, f) ==
  /\ f.syms # {} => /\ g.stats.nulls < Len(g.rows)
                    /\ \E l \in f.syms : /\ g.stats.min = NoString \/ g.stats.min <= l
                                         /\ g.stats.max = NoString \/ l <= g.stats.max
                    /\ TRUE \in Contained(g, f.syms)
  /\ f.null => g.stats.nulls > 0
  /\ g.min <= f.hi /\ f.lo <= g.max

PruneSegments(segs, f) == SelectSeq(segs, LAMBDA g : MayMatch(g, f))

Unknown == -1

Bounded(bounds) == bounds # {} /\ NoString \notin bounds

\* manifest_statistics: what the planner may answer an aggregate from.
ManifestStatistics(segs) ==
  LET mins == {g.stats.min : g \in Range(segs)}
      maxs == {g.stats.max : g \in Range(segs)}
  IN  [rows  |-> RowCount(segs),
       nulls |-> IF segs = <<>> THEN Unknown
                 ELSE FoldLeft(LAMBDA n, g : n + g.stats.nulls, 0, segs),
       min   |-> IF Bounded(mins) THEN Min(mins \ {NoString}) ELSE Unknown,
       max   |-> IF Bounded(maxs) THEN Max(maxs \ {NoString}) ELSE Unknown]

\* A metadata-only aggregate: the statistic when it is exact, the scan's answer
\* otherwise.
Aggregates(segs) ==
  LET st == ManifestStatistics(segs)
      all == Rows(segs)
      strings == Strings(all)
  IN  [rows  |-> st.rows,
       nulls |-> IF st.nulls = Unknown THEN Nulls(all) ELSE st.nulls,
       min   |-> IF st.min # Unknown THEN st.min
                 ELSE IF strings = {} THEN NoString ELSE Min(strings),
       max   |-> IF st.max # Unknown THEN st.max
                 ELSE IF strings = {} THEN NoString ELSE Max(strings)]

OutputOrdering(segs) ==
  /\ segs # <<>>
  /\ \A g \in Range(segs) : g.sorted
  /\ \A i \in 1 .. Len(segs) - 1 : segs[i].max <= segs[i + 1].min

------------------------------------------------------------------------------
(* Sidecars.                                                                *)

Disabled == "disabled"
ReadOnly == "read only"
ReadWrite == "read write"

Entries(side, key) == SelectSeq(side, LAMBDA e : e.key = key)

Holds(side, key) == Entries(side, key) # <<>>

\* load: an entry that verifies.
Loads(side, key) == \E i \in DOMAIN side : side[i].key = key /\ side[i].intact

Loaded(side, key) == Entries(side, key)[1].value

Delete(side, key) == SelectSeq(side, LAMBDA e : e.key # key)

\* enforce_budget: the oldest go first.
EnforceBudget(side) ==
  IF Len(side) > Budget THEN SubSeq(side, Len(side) - Budget + 1, Len(side)) ELSE side

PutIfAbsent(side, key, value) ==
  IF Holds(side, key) THEN side
  ELSE EnforceBudget(Append(side, [key |-> key, value |-> value, intact |-> TRUE]))

\* eligible_predicate: plain comparisons with at least one equality.
EligiblePredicate(f) == Cardinality(f.syms) = 1 /\ ~f.null

\* The predicate is left out of the key.
CachePathOfContent(g, f) == <<g.rows>>

\* cache_path: the segment's content and the predicate.
CachePath(g, f) == <<g.rows, f>>

SelectedRowGroups(g, f) ==
  {i \in DOMAIN RowGroups(g) : \E r \in Range(RowGroups(g)[i]) : Matches(f, r)}

\* PredicateCache::apply: a hit narrows the scan, a miss is an ordinary scan
\* that leaves an entry for the next one.
ApplyPredicate(side, mode, g, f) ==
  LET key == CachePath(g, f)
      dropped == IF mode = ReadWrite /\ Holds(side, key) THEN Delete(side, key) ELSE side
  IN  IF Loads(side, key) THEN [plan |-> Loaded(side, key), side |-> side]
      ELSE [plan |-> DOMAIN RowGroups(g),
            side |-> IF mode = ReadWrite
                     THEN PutIfAbsent(dropped, key, SelectedRowGroups(g, f)) ELSE dropped]

UsesPredicateCache(mode, f) == mode # Disabled /\ EligiblePredicate(f)

\* The rows of the row groups a plan selects, filtered again by the engine.
ReadPlanned(g, plan, f) ==
  SelectSeq(FlattenSeq([i \in DOMAIN RowGroups(g) |-> IF i \in plan THEN RowGroups(g)[i] ELSE <<>>]),
            LAMBDA r : Matches(f, r))

\* H5iTableProvider::scan, segment by segment.
ScanSegment(acc, g, mode, f) ==
  IF UsesPredicateCache(mode, f)
  THEN LET applied == ApplyPredicate(acc.side, mode, g, f)
       IN  [rows |-> acc.rows \o ReadPlanned(g, applied.plan, f), side |-> applied.side]
  ELSE [acc EXCEPT !.rows = @ \o ReadPlanned(g, DOMAIN RowGroups(g), f)]

ScanWith(segs, side, mode, f) ==
  FoldLeft(LAMBDA acc, g : ScanSegment(acc, g, mode, f), [rows |-> <<>>, side |-> side],
           PruneSegments(segs, f))

------------------------------------------------------------------------------
(* latest_on.                                                               *)

\* last_row_per_group: the greatest time, the later row on a tie; rows of no
\* group are left out, and the groups come in order.
LastRowPerGroup(rows) ==
  LET best(s) == LET own == {i \in DOMAIN rows : rows[i].s = s}
                 IN  Max({i \in own : \A j \in own : rows[j].t <= rows[i].t})
      groups == SetToSortSeq(Strings(rows), <)
  IN  [i \in DOMAIN groups |-> rows[best(groups[i])]]

\* latest_by_mode: a session without sidecars still reads the ones there are.
LatestByMode(mode) == IF mode = Disabled THEN ReadOnly ELSE mode

LatestSegment(acc, g, mode) ==
  LET built == LastRowPerGroup(g.rows)
  IN  IF Loads(acc.side, g.rows)
      THEN [acc EXCEPT !.minis = @ \o Loaded(acc.side, g.rows)]
      ELSE [minis |-> acc.minis \o built,
            side |-> IF LatestByMode(mode) = ReadWrite THEN PutIfAbsent(acc.side, g.rows, built)
                     ELSE acc.side]

LatestBy(segs, side, mode) ==
  LET done == FoldLeft(LAMBDA acc, g : LatestSegment(acc, g, mode), [minis |-> <<>>, side |-> side], segs)
  IN  [rows |-> LastRowPerGroup(done.minis), side |-> done.side]

------------------------------------------------------------------------------
(* finance_rollup: the open, high, low and close of the whole table.        *)

\* PointKey, compared field by field.  Identifiers of one commit's segments
\* are taken in the order they were cut: any order does.
KeyBefore(a, b) ==
  \E i \in 1 .. 5 : a[i] < b[i] /\ \A j \in 1 .. i - 1 : a[j] = b[j]

PointKey(g, i) == <<g.rows[i].t, g.by, g.id[1], g.id[2], i>>

NoBar == [rows |-> 0]

GroupStateNew(key, p) ==
  [rows |-> 1, openKey |-> key, closeKey |-> key, open |-> p, high |-> p, low |-> p, close |-> p]

\* add and merge: strictly earlier opens, strictly later closes.
MergeState(a, b) ==
  IF a = NoBar THEN b ELSE IF b = NoBar THEN a
  ELSE LET opens == KeyBefore(b.openKey, a.openKey)
           closes == KeyBefore(a.closeKey, b.closeKey)
       IN  [rows |-> a.rows + b.rows,
            openKey |-> IF opens THEN b.openKey ELSE a.openKey,
            open |-> IF opens THEN b.open ELSE a.open,
            closeKey |-> IF closes THEN b.closeKey ELSE a.closeKey,
            close |-> IF closes THEN b.close ELSE a.close,
            high |-> Max({a.high, b.high}), low |-> Min({a.low, b.low})]

SegmentState(g) ==
  FoldLeft(LAMBDA acc, i : MergeState(acc, GroupStateNew(PointKey(g, i), g.rows[i].p)),
           NoBar, [i \in DOMAIN g.rows |-> i])

\* state_path: the identity of the segment as well as its content, since the
\* keys inside carry it.
StatePath(g) == <<g.id, g.by, g.rows>>

RollupSegment(acc, g, mode) ==
  LET key == StatePath(g)
      built == SegmentState(g)
      dropped == IF mode = ReadWrite /\ Holds(acc.side, key) THEN Delete(acc.side, key) ELSE acc.side
  IN  IF mode # Disabled /\ Loads(acc.side, key)
      THEN [acc EXCEPT !.bar = MergeState(@, Loaded(acc.side, key))]
      ELSE [bar |-> MergeState(acc.bar, built),
            side |-> IF mode = ReadWrite THEN PutIfAbsent(dropped, key, built)
                     ELSE acc.side]

FinanceRollup(segs, side, mode) ==
  FoldLeft(LAMBDA acc, g : RollupSegment(acc, g, mode), [bar |-> NoBar, side |-> side], segs)

------------------------------------------------------------------------------
(* Incremental reads.                                                       *)

AddedSegments(segs, from, to) == SelectSeq(segs, LAMBDA g : g.by > from /\ g.by <= to)

AppendOps == {"append", "evolve"}
==============================================================================
