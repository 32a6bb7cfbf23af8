------------------------------- MODULE Series -------------------------------
(***************************************************************************)
(* The time-series operators of the query engine (h5i-db-query: asof.rs,   *)
(* gapfill.rs, rolling.rs, cross_section.rs, finance.rs, functions.rs):    *)
(* as-of joins with what they push below themselves, gap filling, rolling  *)
(* and cross-sectional windows, time buckets.                              *)
(*                                                                         *)
(* Numbers are integers and a quotient is a pair <<numerator,              *)
(* denominator>>; the windows run over the s column, whose null is         *)
(* NoString.                                                               *)
(***************************************************************************)
EXTENDS Scan

Never == 99          \* a time after all of them: no upper bound
NoTolerance == 99
NoRow == [t |-> 0, s |-> NoString, p |-> 0]   \* nulls for an unmatched row

TimeFilter(lo, hi) == [syms |-> {}, null |-> FALSE, lo |-> lo, hi |-> hi]

Quotient(a, b) == <<a, b>>
NoValue == <<>>      \* a null quotient

------------------------------------------------------------------------------
(* As-of join.  o is [backward, inner, by, tol].                            *)

\* The direction of `left.time <op> right.time`: a strict comparison is taken
\* for an inclusive one.
Backward(op) == op \in {">=", ">"}

SortByTime(rows) == StableBy(rows, LAMBDA r : r.t)

\* RightRuns: the rows of a key in time order; null keys are equal.
RunOf(right, o, key) == SortByTime(SelectSeq(right, LAMBDA r : o.by => r.s = key))

Exceeds(distance, o) == o.tol # NoTolerance /\ distance > o.tol

\* partition_point: the number of rows before t, those at t too if inclusive.
PartitionPoint(run, t, inclusive) ==
  Cardinality({i \in DOMAIN run : run[i].t < t \/ (inclusive /\ run[i].t = t)})

Probe(run, t, o) ==
  IF o.backward
  THEN LET pos == PartitionPoint(run, t, TRUE)
       IN  IF pos = 0 \/ Exceeds(t - run[pos].t, o) THEN NoRow ELSE run[pos]
  ELSE LET pos == PartitionPoint(run, t, FALSE) + 1
       IN  IF pos > Len(run) \/ Exceeds(run[pos].t - t, o) THEN NoRow ELSE run[pos]

JoinRows(left, right, o) ==
  LET all == [i \in DOMAIN left |->
                [left |-> left[i], right |-> Probe(RunOf(right, o, left[i].s), left[i].t, o)]]
  IN  IF o.inner THEN SelectSeq(all, LAMBDA j : j.right # NoRow) ELSE all


\* right_time_bounds: the left side's time bounds, widened so that no row the
\* join could match is dropped.  A negative tolerance is not used.
RightTimeBounds(o, f) ==
  LET widens == o.tol # NoTolerance /\ o.tol >= 0
  IN  IF o.backward
      THEN TimeFilter(IF f.lo > 0 /\ widens THEN Max({0, f.lo - o.tol}) ELSE 0, f.hi)
      ELSE TimeFilter(f.lo, IF f.hi < Never /\ widens THEN f.hi + o.tol ELSE Never)

\* AsOfTableProvider::scan: a filter on left columns runs below the join.
AsOfScan(leftSegs, rightSegs, o, f) ==
  JoinRows(SortByTime(ScanWith(leftSegs, <<>>, Disabled, f).rows),
           SortByTime(ScanWith(rightSegs, <<>>, Disabled, RightTimeBounds(o, f)).rows), o)

\* What the join means: the nearest rows of the key on the right side of t.
AsOfMatches(l, right, o) ==
  LET dist(r) == IF o.backward THEN l.t - r.t ELSE r.t - l.t
      near == {r \in right : /\ o.by => r.s = l.s
                             /\ dist(r) >= 0
                             /\ o.tol # NoTolerance => dist(r) <= o.tol}
  IN  {r \in near : \A q \in near : dist(r) <= dist(q)}

AsOfExact(leftSegs, rightSegs, o, f) ==
  LET out == AsOfScan(leftSegs, rightSegs, o, f)
      right == Range(Rows(rightSegs))
      wanted == SelectSeq(Rows(leftSegs), LAMBDA r :
                   Matches(f, r) /\ (o.inner => AsOfMatches(r, right, o) # {}))
  IN  /\ BagOf([i \in DOMAIN out |-> out[i].left]) = BagOf(wanted)
      /\ \A i \in DOMAIN out :
           LET m == AsOfMatches(out[i].left, right, o)
           IN  IF m = {} THEN out[i].right = NoRow ELSE out[i].right \in m

------------------------------------------------------------------------------
(* Gap filling.                                                             *)

\* rows_by_time: of the rows of one time the last in scan order.
RowAt(rows, t) == rows[Max({i \in DOMAIN rows : rows[i].t = t})]

Grid(rows, step) ==
  LET start == Min(Times(rows))
      count == (Max(Times(rows)) - start) \div step + 1
  IN  [n \in 1 .. count |-> start + (n - 1) * step]

\* A mean of two integers is rounded, halves up.
Interpolated(a, b, t) ==
  LET d == b.t - a.t
      num == a.p * d + (b.p - a.p) * (t - a.t)
  IN  (2 * num + d) \div (2 * d)

\* A grid point nobody observed.  Strings cannot be interpolated: the earlier
\* one is carried on.
Fill(rows, t, mode, value) ==
  LET prev == RowAt(rows, Max({x \in Times(rows) : x < t}))
      next == RowAt(rows, Min({x \in Times(rows) : x >= t}))
  IN  CASE mode = "null"        -> [t |-> t, s |-> NoString, p |-> 0]
        [] mode = "value"       -> [t |-> t, s |-> NoString, p |-> value]
        [] mode = "locf"        -> [prev EXCEPT !.t = t]
        [] mode = "interpolate" -> [prev EXCEPT !.t = t, !.p = Interpolated(prev, next, t)]

GapFill(rows, step, mode, value) ==
  IF rows = <<>> THEN [rows |-> <<>>, collapsed |-> 0, offGrid |-> 0]
  ELSE LET grid == Grid(rows, step) IN
       [rows |-> [n \in DOMAIN grid |->
                    IF grid[n] \in Times(rows) THEN RowAt(rows, grid[n])
                    ELSE Fill(rows, grid[n], mode, value)],
        collapsed |-> Len(rows) - Cardinality(Times(rows)),
        offGrid |-> Cardinality({t \in Times(rows) : (t - Min(Times(rows))) % step # 0})]

\* Every input row is on the grid, or counted as lost; locf carries what an
\* as-of join of the grid with the rows would find; an interpolated value lies
\* between its neighbours.
GapFillExact(rows, step) ==
  LET locf == GapFill(rows, step, "locf", 0)
      inter == GapFill(rows, step, "interpolate", 0)
      backward == [backward |-> TRUE, inner |-> FALSE, by |-> FALSE, tol |-> NoTolerance]
      observed == {n \in DOMAIN locf.rows : locf.rows[n].t \in Times(rows)}
  IN  /\ Len(rows) = Cardinality(observed) + locf.collapsed + locf.offGrid
      /\ \A n \in DOMAIN locf.rows :
           [Probe(SortByTime(rows), locf.rows[n].t, backward) EXCEPT !.t = locf.rows[n].t]
             = locf.rows[n]
      /\ \A n \in DOMAIN inter.rows : \E a, b \in Range(rows) :
           a.p <= inter.rows[n].p /\ inter.rows[n].p <= b.p

------------------------------------------------------------------------------
(* Windows.                                                                 *)

\* rewrite_rolling_sugar: n rows ending at the current one.
Frame(i, n) == Max({1, i - n + 1}) .. i

Valid(rows, frame) == {i \in frame : rows[i].s # NoString}

\* The first extremum of the frame, a null row counting as a position.
IdxMax(rows, frame) ==
  LET better(best, i) == best = 0 \/ rows[i].s > rows[best].s
      best == FoldLeft(LAMBDA b, i : IF better(b, i) THEN i ELSE b, 0,
                       SetToSortSeq(Valid(rows, frame), <))
  IN  IF best = 0 THEN 0 ELSE best - Min(frame) + 1

\* The percentile of the last row's value, ties sharing the mean of their ranks.
TsRank(rows, frame) ==
  LET cur == rows[Max(frame)].s
      valid == Valid(rows, frame)
      less == Cardinality({i \in valid : rows[i].s < cur})
      equal == Cardinality({i \in valid : rows[i].s = cur})
  IN  IF cur = NoString THEN NoValue
      ELSE Quotient(2 * less + equal + 1, 2 * Cardinality(valid))

\* ts_cov, times n(n - 1): the pairs with both sides valid, at least two.
PairCov(rows, frame) ==
  LET valid == Valid(rows, frame)
      n == Cardinality(valid)
      sx == FoldSet(LAMBDA i, a : a + rows[i].s, 0, valid)
      sy == FoldSet(LAMBDA i, a : a + rows[i].p, 0, valid)
      dev(i) == (n * rows[i].s - sx) * (n * rows[i].p - sy)
  IN  IF n < 2 THEN NoValue
      ELSE Quotient(FoldSet(LAMBDA i, a : a + dev(i), 0, valid), n * n * (n - 1))

\* WeightedAvgAccumulator: sums kept up to date as the frame slides.
NewAvg == [vw |-> 0, w |-> 0, count |-> 0]

UpdateBatch(acc, r) ==
  IF r.s = NoString THEN acc
  ELSE [vw |-> acc.vw + r.p * r.s, w |-> acc.w + r.s, count |-> acc.count + 1]

RetractBatch(acc, r) ==
  IF r.s = NoString THEN acc
  ELSE LET left == [vw |-> acc.vw - r.p * r.s, w |-> acc.w - r.s, count |-> acc.count - 1]
       IN  IF left.count = 0 THEN NewAvg ELSE left

EvaluateAvg(acc) == IF acc.count = 0 \/ acc.w = 0 THEN NoValue ELSE Quotient(acc.vw, acc.w)

\* The rolling average of every row, frames of n.
RollingAvg(rows, n) ==
  LET step(done, i) ==
        LET entered == UpdateBatch(done.acc, rows[i])
            acc == IF i > n THEN RetractBatch(entered, rows[i - n]) ELSE entered
        IN  [acc |-> acc, out |-> Append(done.out, EvaluateAvg(acc))]
  IN  FoldLeft(step, [acc |-> NewAvg, out |-> <<>>], [i \in DOMAIN rows |-> i]).out

\* ewma with alpha = a / d: a null carries the last value on.
Ewma(rows, a, d) ==
  LET next(out, r) ==
        LET prev == IF out = <<>> THEN NoValue ELSE Last(out)
        IN  Append(out, IF r.s = NoString THEN prev
                        ELSE IF prev = NoValue THEN Quotient(r.s, 1)
                        ELSE Quotient(a * r.s * prev[2] + (d - a) * prev[1], d * prev[2]))
  IN  FoldLeft(next, <<>>, rows)

\* sorted_valid: indices by value.
SortedValid(rows) ==
  StableBy(SetToSortSeq(Valid(rows, DOMAIN rows), <), LAMBDA i : rows[i].s)

\* cs_rank: the rows of a run of equal values share the mean of its ranks.
CsRank(rows) ==
  LET order == SortedValid(rows)
      run(k) == {j \in DOMAIN order : rows[order[j]].s = rows[order[k]].s}
  IN  [i \in DOMAIN rows |->
         IF rows[i].s = NoString THEN NoValue
         ELSE LET k == CHOOSE k \in DOMAIN order : order[k] = i
              IN  Quotient(Min(run(k)) + Max(run(k)), 2 * Len(order))]

\* cs_winsorize: the cutoffs are counts, lo / d and hi / d of the valid rows.
CsWinsorize(rows, lo, hi, d) ==
  LET order == SortedValid(rows)
      n == Len(order)
      lower == (lo * n) \div d
      upper == (hi * n + d - 1) \div d
      clamped(k) == IF hi < d /\ upper < n /\ upper >= 1 /\ k > upper THEN rows[order[upper]].s
                    ELSE IF lo > 0 /\ lower < n /\ k <= lower THEN rows[order[lower + 1]].s
                    ELSE rows[order[k]].s
  IN  [i \in DOMAIN rows |->
         IF rows[i].s = NoString THEN NoString
         ELSE clamped(CHOOSE k \in DOMAIN order : order[k] = i)]

\* time_bucket.
FloorDiv(a, b) == a \div b

BucketFixed(t, width, origin) == origin + FloorDiv(t - origin, width) * width

------------------------------------------------------------------------------
\* Halving weights from the newest value back; the first keeps what is left.
SmoothExact(rows, i, out) ==
  LET known == SetToSortSeq(Valid(rows, 1 .. i), <)
      k == Len(known)
      weight(j) == IF j = 1 THEN 1 ELSE 2 ^ (j - 2)
      sum == FoldSet(LAMBDA j, a : a + weight(j) * rows[known[j]].s, 0, 1 .. k)
  IN  IF k = 0 THEN out = NoValue ELSE out[1] * 2 ^ (k - 1) = sum * out[2]

\* The windows against their definitions.
WindowsExact(rows, n) ==
  LET avg == RollingAvg(rows, n)
      rank == CsRank(rows)
      ewma == Ewma(rows, 1, 2)
  IN  /\ \A i \in DOMAIN rows :
           LET frame == Frame(i, n)
               valid == Valid(rows, frame)
               vw == FoldSet(LAMBDA j, a : a + rows[j].p * rows[j].s, 0, valid)
               w == FoldSet(LAMBDA j, a : a + rows[j].s, 0, valid)
               y == FoldSet(LAMBDA j, a : a + rows[j].p, 0, valid)
               size == Cardinality(valid)
               cov == PairCov(rows, frame)
           IN  /\ IF size < 2 THEN cov = NoValue
                  ELSE cov[1] * (size * (size - 1)) = (size * vw - w * y) * cov[2]
               /\ SmoothExact(rows, i, ewma[i])
               /\ avg[i] = IF valid = {} THEN NoValue ELSE Quotient(vw, w)
               /\ IF valid = {} THEN IdxMax(rows, frame) = 0
                  ELSE Min(frame) + IdxMax(rows, frame) - 1
                         = Min({j \in valid : \A k \in valid : rows[k].s <= rows[j].s})
               /\ TsRank(rows, frame) = CsRank(SubSeq(rows, Min(frame), i))[i - Min(frame) + 1]
      /\ \A i, j \in Valid(rows, DOMAIN rows) :
           (rows[i].s < rows[j].s) <=> (rank[i][1] < rank[j][1])

\* A winsorized section keeps its order and takes its values from itself.
WinsorizeExact(rows) ==
  LET out == CsWinsorize(rows, 1, 2, 3)
      valid == Valid(rows, DOMAIN rows)
  IN  /\ \A i \in valid : \E j \in valid : out[i] = rows[j].s
      /\ \A i, j \in valid : rows[i].s <= rows[j].s => out[i] <= out[j]

\* A bucket holds the times from its start to its end.
BucketExact(t, width, origin) ==
  LET b == BucketFixed(t, width, origin)
  IN  b <= t /\ t < b + width /\ (b - origin) % width = 0
=============================================================================
