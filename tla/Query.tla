-------------------------------- MODULE Query --------------------------------
(***************************************************************************)
(* Reading a table that is being written (h5i-db-query session.rs, pin.rs, *)
(* udtf.rs, tail.rs; h5i-db-core database.rs, incremental.rs, tail.rs).    *)
(*                                                                         *)
(* One table gains versions through every write operation; a second one    *)
(* appears later.  A session may be opened at a read point, on the arrival *)
(* axis and with a cutoff on the event-time axis; it reads through three   *)
(* doors: the names of its catalog, read_table and the h5i function.  Its  *)
(* queries read and write disposable sidecars.  A tail stream follows the  *)
(* appends.  Sequences start at 0, the table's creation; want is what each *)
(* version is meant to contain, by the meaning of the operation that made  *)
(* it and not by the way it was made.                                      *)
(***************************************************************************)
EXTENDS Series

CONSTANTS Inputs,      \* what a write is given: sequences of batches
          Ranges,      \* the [start, end) a range mutation is given
          Filters,     \* what a query may ask
          Pins,        \* the read points a session may be opened at
          Cutoffs,     \* the event-time cutoffs, Never for none
          MaxSeq,      \* bound: the last sequence
          MaxWork      \* bound: versions and what goes on beside them

VARIABLES versions,   \* the versions, [segs, op, want, repeats]
          floor,      \* the retention floor
          snap,       \* the snapshot, [seq, late], or NoSnap
          late,       \* the second table, [born, timed], or NoTable
          session,    \* [at, cutoff, mode, view, late], or NoSession
          side,       \* the sidecars of each kind
          tail        \* the stream, [pin, start, after, next, out, failed], or NoTail

vars == <<versions, floor, snap, late, session, side, tail>>

None == -1
NoSnap == [seq |-> None]
NoTable == [born |-> None]
NoSession == [view |-> None]
NoTail == [after |-> None]
Latest == [kind |-> "latest"]

V(n) == versions[n + 1]
Newest == Len(versions) - 1

\* Commit times: a version at an even one, the second table between two.
CommittedAt(n) == 2 * n + 2
LateAt == 2 * late.born + 3

------------------------------------------------------------------------------
(* Writes.                                                                  *)

InputBag(batches) == BagOf(FlattenSeq(batches))

BagOutside(B, start, end) == [r \in {x \in DOMAIN B : x.t < start \/ end <= x.t} |-> B[r]]

\* An append that stored content its parent already had.
Repeats(parent, segs) ==
  \E i \in Len(parent) + 1 .. Len(segs) : \E j \in DOMAIN parent : segs[i] = parent[j]

Version(op, segs, want, repeats) ==
  [op |-> op, segs |-> segs, want |-> want, repeats |-> repeats]

Others == <<floor, snap, late, session, side, tail>>

\* commit_manifest refuses more segments than the table allows.
Publish(version) ==
  /\ Len(version.segs) <= MaxSegments
  /\ Newest < MaxSeq
  /\ versions' = Append(versions, version)
  /\ UNCHANGED Others

Write ==
  \E batches \in Inputs : \E segs \in StageWrite(V(Newest).segs, batches, Newest + 1) :
     Publish(Version("write", segs, InputBag(batches), FALSE))

Appends(parent, batches, seq, want) ==
  {Version("append", segs, want (+) InputBag(batches), Repeats(parent, segs)) :
     segs \in {s \in StageAppend(parent, batches, seq) : Len(s) <= MaxSegments}}

AppendRows ==
  \E batches \in Inputs :
     /\ Len(V(Newest).segs) < MaxSegments
     /\ AppendOrdered(V(Newest).segs, batches)
     /\ \E v \in Appends(V(Newest).segs, batches, Newest + 1, V(Newest).want) : Publish(v)

\* A table at its limit is compacted once and the append tried again on the
\* result: what that try refuses leaves the compacted version behind.
AppendAtLimit ==
  \E batches \in Inputs : \E compacted \in Compact(V(Newest).segs, Newest + 1) :
     LET c == Version("compact", compacted, V(Newest).want, FALSE)
         accepted == IF AppendOrdered(compacted, batches) /\ Len(compacted) < MaxSegments
                     THEN Appends(compacted, batches, Newest + 2, V(Newest).want) ELSE {}
     IN  /\ Len(V(Newest).segs) >= MaxSegments /\ Compactable(V(Newest).segs)
         /\ Newest + 1 < MaxSeq
         /\ IF accepted = {} THEN versions' = Append(versions, c)
            ELSE \E v \in accepted : versions' = versions \o <<c, v>>
         /\ UNCHANGED Others

Replace(op, range, batches) ==
  /\ \A r \in Range(FlattenSeq(batches)) : range[1] <= r.t /\ r.t < range[2]
  /\ \E segs \in ReplaceRange(V(Newest).segs, range[1], range[2], batches, Newest + 1) :
       Publish(Version(op, segs,
                       BagOutside(V(Newest).want, range[1], range[2]) (+) InputBag(batches), FALSE))

ReplaceRows == \E range \in Ranges, batches \in Inputs : Replace("replace", range, batches)

DeleteRows == \E range \in Ranges : Replace("delete", range, <<>>)

CompactTable ==
  /\ Compactable(V(Newest).segs)
  /\ \E segs \in Compact(V(Newest).segs, Newest + 1) :
       Publish(Version("compact", segs, V(Newest).want, FALSE))

Restore ==
  \E n \in 0 .. Newest - 1 : Publish(Version("restore", V(n).segs, V(n).want, FALSE))

------------------------------------------------------------------------------
(* The read point.                                                          *)

\* CommittedAt(lo) <= ts < CommittedAt(hi).
Bisect[lo \in 0 .. MaxSeq, hi \in 0 .. MaxSeq, ts \in 0 .. CommittedAt(MaxSeq)] ==
  IF hi - lo <= 1 THEN lo
  ELSE LET mid == lo + (hi - lo) \div 2
       IN  IF CommittedAt(mid) <= ts THEN Bisect[mid, hi, ts] ELSE Bisect[lo, mid, ts]

AsOfSequence(ts) ==
  IF ts < CommittedAt(floor) THEN None
  ELSE IF ts >= CommittedAt(Newest) THEN Newest
  ELSE Bisect[floor, Newest, ts]

\* resolve: the sequence, or None where the table has no version there.
Resolve(at) ==
  CASE at.kind = "latest"   -> Newest
    [] at.kind = "version"  -> IF floor <= at.n /\ at.n <= Newest THEN at.n ELSE None
    [] at.kind = "as of"    -> AsOfSequence(at.n)
    [] at.kind = "snapshot" -> snap.seq

ResolvesLate(at) ==
  /\ late # NoTable
  /\ CASE at.kind = "latest"   -> TRUE
       [] at.kind = "version"  -> at.n = 0
       [] at.kind = "as of"    -> LateAt <= at.n
       [] at.kind = "snapshot" -> snap.late

\* A snapshot that is not there fails the call outright.
Known(at) == at.kind = "snapshot" => snap # NoSnap

SetRetention ==
  \E target \in floor + 1 .. Newest :
     /\ snap # NoSnap => snap.seq >= target
     /\ floor' = target
     /\ UNCHANGED <<versions, snap, late, session, side, tail>>

CreateSnapshot ==
  /\ snap = NoSnap
  /\ snap' = [seq |-> Newest, late |-> late # NoTable]
  /\ UNCHANGED <<versions, floor, late, session, side, tail>>

CreateLate ==
  /\ late = NoTable
  /\ \E timed \in BOOLEAN : late' = [born |-> Newest, timed |-> timed]
  /\ UNCHANGED <<versions, floor, snap, session, side, tail>>

------------------------------------------------------------------------------
(* Sessions.                                                                *)

\* resolve_all_at and prepare_resolved_table: tables with no version at the
\* read point are left out, unless that leaves none; a table without a time
\* column cannot be put behind a cutoff and fails the whole call.
CatalogAt(at, cutoff) ==
  [ok   |-> /\ Known(at)
            /\ Resolve(at) # None \/ ResolvesLate(at)
            /\ cutoff # Never /\ ResolvesLate(at) => late.timed,
   view |-> Resolve(at), late |-> ResolvesLate(at)]

OpenSession ==
  /\ session = NoSession
  /\ \E at \in Pins, cutoff \in Cutoffs, mode \in {Disabled, ReadOnly, ReadWrite} :
       /\ Known(at)
       /\ LET cat == CatalogAt(at, cutoff) IN
          /\ cat.ok
          /\ session' = [at |-> at, cutoff |-> cutoff, mode |-> mode,
                         view |-> cat.view, late |-> cat.late]
  /\ UNCHANGED <<versions, floor, snap, late, side, tail>>

\* refresh to the head: the pin released.
RefreshAtHead ==
  /\ session # NoSession
  /\ session' = [session EXCEPT !.view = Newest, !.late = late # NoTable]
  /\ UNCHANGED <<versions, floor, snap, late, side, tail>>

\* All or nothing, on both axes of the pin.
Refresh ==
  /\ session # NoSession
  /\ LET cat == CatalogAt(session.at, session.cutoff) IN
     /\ cat.ok
     /\ session' = [session EXCEPT !.view = cat.view, !.late = cat.late]
  /\ UNCHANGED <<versions, floor, snap, late, side, tail>>

CloseSession ==
  /\ session # NoSession
  /\ session' = NoSession
  /\ UNCHANGED <<versions, floor, snap, late, side, tail>>

Unpinned == session.at = Latest /\ session.cutoff = Never

\* embargoed_view: the cutoff is part of every filter that reaches the scan.
Embargoed(f) == [f EXCEPT !.hi = Min({@, session.cutoff})]

\* FROM t.
ByName(f) == ScanWith(V(session.view).segs, side.predicate, session.mode, Embargoed(f))

\* read_table: Latest means the session's own read point, and another one is
\* refused when the session is pinned.
ReadTableAt(at) ==
  IF at = Latest THEN Resolve(session.at)
  ELSE IF Unpinned /\ Known(at) THEN Resolve(at) ELSE None

ReadTable(n, f) == ScanWith(V(n).segs, side.predicate, session.mode, Embargoed(f))

\* h5i and the other table functions refuse a session with a cutoff.
FunctionAt(at) == IF session.cutoff = Never THEN ReadTableAt(at) ELSE None

H5i(n, f) == ScanWith(V(n).segs, <<>>, Disabled, f)

\* A query by name leaves the predicate cache's entries behind.
AskScan ==
  /\ session # NoSession /\ session.view # None
  /\ \E f \in Filters : side' = [side EXCEPT !.predicate = ByName(f).side]
  /\ UNCHANGED <<versions, floor, snap, late, session, tail>>

AskLatest ==
  /\ session # NoSession /\ FunctionAt(Latest) # None
  /\ side' = [side EXCEPT !.latest = LatestBy(V(FunctionAt(Latest)).segs, @, session.mode).side]
  /\ UNCHANGED <<versions, floor, snap, late, session, tail>>

\* finance_rollup is called on the database with a read point of its own; without
\* ReadWrite it leaves nothing behind.
AskRollup ==
  /\ \E n \in floor .. Newest :
       side' = [side EXCEPT !.state = FinanceRollup(V(n).segs, @, ReadWrite).side]
  /\ UNCHANGED <<versions, floor, snap, late, session, tail>>

\* A sidecar may be damaged at any time.
CorruptEntry ==
  /\ \E k \in DOMAIN side : \E i \in DOMAIN side[k] :
       /\ side[k][i].intact
       /\ side' = [side EXCEPT ![k][i].intact = FALSE]
  /\ UNCHANGED <<versions, floor, snap, late, session, tail>>

------------------------------------------------------------------------------
(* diff and tail.                                                           *)

\* The chain is not looked at.
DiffableAnyChain(from, to) == from <= to

\* Appends alone between the two versions.
Diffable(from, to) == \A n \in from + 1 .. to : V(n).op \in AppendOps

DiffScan(from, to) == Rows(AddedSegments(V(to).segs, from, to))

\* tail: from a version of the caller's choice, in a pinned session from its
\* own alone, and not behind a cutoff.
TailStart ==
  /\ tail = NoTail /\ session # NoSession /\ session.cutoff = Never
  /\ \E after \in (IF Unpinned THEN 0 .. Newest ELSE {Resolve(session.at)} \ {None}) :
       tail' = [pin |-> session.at, start |-> after, after |-> after, next |-> None, out |-> <<>>, failed |-> FALSE]
  /\ UNCHANGED <<versions, floor, snap, late, session, side>>

\* wait_for_version follows the head, pinned session or not.
TailWait ==
  /\ tail # NoTail /\ ~tail.failed /\ tail.next = None
  /\ Newest > tail.after
  /\ tail' = [tail EXCEPT !.next = Newest]
  /\ UNCHANGED <<versions, floor, snap, late, session, side>>

TailFetch ==
  /\ tail # NoTail /\ tail.next # None
  /\ tail' = IF tail.next >= floor /\ Diffable(tail.after, tail.next)
             THEN [tail EXCEPT !.out = @ \o DiffScan(tail.after, tail.next),
                               !.after = tail.next, !.next = None]
             ELSE [tail EXCEPT !.failed = TRUE, !.next = None]
  /\ UNCHANGED <<versions, floor, snap, late, session, side>>

------------------------------------------------------------------------------
Init ==
  /\ versions = <<Version("create", <<>>, EmptyBag, FALSE)>>
  /\ floor = 0 /\ snap = NoSnap /\ late = NoTable
  /\ session = NoSession
  /\ side = [predicate |-> <<>>, latest |-> <<>>, state |-> <<>>]
  /\ tail = NoTail

\* Bound: the versions, and the stories told beside them.
Work ==
  Newest + Len(SelectSeq(<<floor # 0, snap # NoSnap, late # NoTable, session # NoSession,
                           session # NoSession /\ ~Unpinned, tail # NoTail,
                           side.predicate # <<>>, side.latest # <<>>, side.state # <<>>,
                           \E k \in DOMAIN side : \E i \in DOMAIN side[k] : ~side[k][i].intact>>,
                         LAMBDA told : told))

InBounds == Work' <= MaxWork

Next ==
  \/ (Write /\ InBounds) \/ (AppendRows /\ InBounds) \/ (AppendAtLimit /\ InBounds) \/ (ReplaceRows /\ InBounds)
  \/ (DeleteRows /\ InBounds) \/ (CompactTable /\ InBounds) \/ (Restore /\ InBounds) \/ (SetRetention /\ InBounds)
  \/ (CreateSnapshot /\ InBounds) \/ (CreateLate /\ InBounds) \/ (OpenSession /\ InBounds) \/ (Refresh /\ InBounds)
  \/ (CloseSession /\ InBounds) \/ (AskScan /\ InBounds) \/ (AskLatest /\ InBounds) \/ (AskRollup /\ InBounds)
  \/ (CorruptEntry /\ InBounds) \/ (TailStart /\ InBounds) \/ (TailWait /\ InBounds) \/ (TailFetch /\ InBounds)

Spec == Init /\ [][Next]_vars
------------------------------------------------------------------------------
(* Properties.  What depends on a version alone is asked of the newest one  *)
(* while nothing else is going on: every version is the newest once.        *)

Quiet ==
  /\ session = NoSession /\ tail = NoTail /\ snap = NoSnap /\ late = NoTable /\ floor = 0
  /\ \A k \in DOMAIN side : side[k] = <<>>

NewestSegs == V(Newest).segs

Mixed(segs) == \E g \in Range(segs) : g.mixed

BagMatching(B, f) == [r \in {x \in DOMAIN B : Matches(f, x)} |-> B[r]]

CountWhere(B, Test(_)) == FoldSet(LAMBDA r, n : n + B[r], 0, {r \in DOMAIN B : Test(r)})

StringsOf(B) == {r.s : r \in DOMAIN B} \ {NoString}

\* A version's pruned scan is its contents.
FilteredExact(segs, want) ==
  \A f \in Filters : BagOf(ScanWith(segs, <<>>, Disabled, f).rows) = BagMatching(want, f)

\* The aggregates answered from the manifest are those of the contents.
AggregatesExact(segs, want) ==
  LET a == Aggregates(segs)
      strings == StringsOf(want)
  IN  /\ a.rows = BagCardinality(want)
      /\ a.nulls = CountWhere(want, LAMBDA r : r.s = NoString)
      /\ a.min = IF strings = {} THEN NoString ELSE Min(strings)
      /\ a.max = IF strings = {} THEN NoString ELSE Max(strings)

\* latest_on and finance_rollup against the contents.
LatestExact(segs, want) ==
  LET out == LatestBy(segs, <<>>, Disabled).rows
  IN  /\ {r.s : r \in Range(out)} = StringsOf(want)
      /\ Len(out) = Cardinality(StringsOf(want))
      /\ \A r \in Range(out) : r \in DOMAIN want /\ \A q \in DOMAIN want : q.s = r.s => q.t <= r.t

RollupExact(segs, want) ==
  LET bar == FinanceRollup(segs, <<>>, Disabled).bar
      prices == {r.p : r \in DOMAIN want}
  IN  IF DOMAIN want = {} THEN bar = NoBar
      ELSE /\ bar.rows = BagCardinality(want)
           /\ bar.high = Max(prices) /\ bar.low = Min(prices)
           /\ \E r \in DOMAIN want : r.p = bar.open /\ \A q \in DOMAIN want : r.t <= q.t
           /\ \E r \in DOMAIN want : r.p = bar.close /\ \A q \in DOMAIN want : q.t <= r.t

(* A query returns the rows its version is meant to hold, whatever mix of   *)
(* writes, appends, range mutations, compactions and restores laid the      *)
(* segments out: pruning by time, null count, string bounds and distinct    *)
(* sets, metadata-only aggregates, latest_on and finance_rollup never lose, *)
(* duplicate or invent a row, and a scan that promises its rows in time     *)
(* order delivers them in it.  Segments whose string bound covers part of   *)
(* their rows are the exception that StringBoundsSafe is about.             *)
ScanExact ==
  Quiet => LET want == V(Newest).want IN
           /\ BagOf(Rows(NewestSegs)) = want
           /\ BagOf(ScanStream(NewestSegs, 0, Never, Never)) = want
           /\ OutputOrdering(NewestSegs) => InOrder(Rows(NewestSegs))
           /\ LatestExact(NewestSegs, want)
           /\ RollupExact(NewestSegs, want)
           /\ ~Mixed(NewestSegs) => /\ FilteredExact(NewestSegs, want)
                                   /\ AggregatesExact(NewestSegs, want)

(* A string bound the manifest keeps covers every row of its segment:       *)
(* "drop the stat rather than store a wrong bound" (segment.rs).  A pruned  *)
(* scan then never loses a matching row.                                    *)
StringBoundsSafe == Quiet => FilteredExact(NewestSegs, V(Newest).want)

(* Sidecars are disposable: whatever they hold after any queries, of any    *)
(* version, with entries evicted or damaged, a scan, latest_on and          *)
(* finance_rollup answer as without them.                                   *)
SidecarsTransparent ==
  \A n \in floor .. Newest : \A mode \in {ReadOnly, ReadWrite} :
     /\ side.predicate # <<>> =>
          \A f \in Filters : BagOf(ScanWith(V(n).segs, side.predicate, mode, f).rows)
                             = BagOf(ScanWith(V(n).segs, <<>>, Disabled, f).rows)
     /\ side.latest # <<>> => LatestBy(V(n).segs, side.latest, mode).rows
                                = LatestBy(V(n).segs, <<>>, Disabled).rows
     /\ side.state # <<>> => FinanceRollup(V(n).segs, side.state, mode).bar
                               = FinanceRollup(V(n).segs, <<>>, Disabled).bar

\* The version a read point names, by the commit times alone.
Named(at) ==
  CASE at.kind = "version"  -> {at.n}
    [] at.kind = "as of"    -> {n \in 0 .. Newest : /\ CommittedAt(n) <= at.n
                                                  /\ n < Newest => at.n < CommittedAt(n + 1)}
    [] at.kind = "snapshot" -> {snap.seq}
    [] OTHER                -> 0 .. Newest

\* The versions a read point has named so far: one that lies ahead names the
\* newest until the commits reach it.
NamedSoFar(at) ==
  Named(at) \cup {n \in 0 .. Newest : at.kind = "as of" /\ CommittedAt(n) <= at.n}

AllRows == TimeFilter(0, Never)

(* A session pinned to the past reads by name, by read_table and by the     *)
(* table functions that scan (h5i and its kin, session.rs, pin.rs), however *)
(* often it is refreshed while writes, retention and new tables go on, only *)
(* the version that was current at its read point, and no row after its     *)
(* cutoff; a table born after the read point is not in its catalog.  (A     *)
(* catalog opened before its read point keeps the version it found until    *)
(* refresh.)  tail is the one door that leads past the pin: it starts at    *)
(* the pinned version, and then hands out what is committed after it        *)
(* (tail.rs:79-82).                                                         *)
NoLookAhead ==
  /\ session # NoSession /\ ~Unpinned =>
       LET within(B) == BagMatching(B, TimeFilter(0, session.cutoff))
           reads(rows, of) == \E n \in of : BagOf(rows) = within(V(n).want)
           byTable == ReadTableAt(Latest)
           byFunction == FunctionAt(Latest)
       IN  /\ session.view # None => reads(ByName(AllRows).rows, NamedSoFar(session.at))
           /\ byTable # None => reads(ReadTable(byTable, AllRows).rows, Named(session.at))
           /\ byFunction # None => reads(H5i(byFunction, AllRows).rows, Named(session.at))
           /\ session.late /\ session.at.kind = "as of" => LateAt <= session.at.n
           /\ session.late /\ session.cutoff # Never => late.timed
  /\ tail # NoTail => tail.start \in NamedSoFar(tail.pin)

(* diff and tail hand out each appended row once and nothing else, however  *)
(* the polls fall between the commits, and stop at a version that is not an *)
(* append.  An append that stored content its parent had is the exception:  *)
(* such a segment keeps its first creator and the diff passes over it.      *)
TailExact ==
  /\ Quiet => \A from \in 0 .. Newest :
       Diffable(from, Newest) /\ (\A n \in from + 1 .. Newest : ~V(n).repeats) =>
         BagOf(DiffScan(from, Newest)) (+) V(from).want = V(Newest).want
  /\ tail # NoTail /\ (\A n \in tail.start + 1 .. tail.after : ~V(n).repeats) =>
       BagOf(tail.out) (+) V(tail.start).want = V(tail.after).want

=============================================================================
