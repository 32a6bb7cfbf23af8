----------------------------- MODULE MarketStore -----------------------------
(***************************************************************************)
(* From a venue's messages to the canonical tables and back: a feed is     *)
(* captured through an adapter (Venues), the capture becomes an IngestPlan,*)
(* loaders commit plans with h5i_db_venues::write_plan, and runs read the  *)
(* tables, replay them, settle what they hold and write the outcome        *)
(* (h5i_db_backtest::run::run_in_place, store.rs, replay.rs).  The engine  *)
(* between replay and settlement is Backtest; here a run's trades are      *)
(* given, and happen as far as the replayed data goes.                     *)
(*                                                                         *)
(* A table is the sequence of rows its latest version scans to, in time    *)
(* order; a commit of the database below is one step.  The fields by and   *)
(* index of a row are history: the plan or run that wrote it and which of  *)
(* its records it comes from (index is a stored column of book_deltas).    *)
(*                                                                         *)
(* Allowed names the disturbances the code does not withstand and a        *)
(* configuration admits: "renumbered", a restarted feed whose first        *)
(* delivered change carries the number the decoder expects (one read as a  *)
(* resend is admitted: KalshiExact says what becomes of it); "stepped      *)
(* over", a caller that goes on after an unreadable change; "lost update", *)
(* a write into a window another loader is merging; "same plan twice", two *)
(* loaders of one plan at once; "interrupted fallback", a run writer that  *)
(* dies between two of its per-table appends.                              *)
(***************************************************************************)
EXTENDS Settlement, L3Book

CONSTANTS
  Loaders,        \* processes that load plans or write runs
  Archived,       \* the plan of an archive loaded beside the capture
  Runs,           \* run id -> its window, the coverage it asks for, its trades, marks
  Traded, Late,   \* the plan in the tables when runs begin, and one still to be loaded
  Actions,        \* what the corporate actions table may hold
  Known,          \* plan id -> the time its loader says it was known
  ArchiveLines,   \* lines an archive file may hold
  Universe,       \* the coins the venue describes
  PolyMessages,   \* messages a Polymarket socket may deliver
  OrderMessages,  \* messages of an order-by-order feed
  Assignments,    \* what a listing file may say of its tickers
  PolyMarkets,    \* what the market payload may say
  KalshiMarkets,
  Mantissa,       \* the largest raw value an f64 column holds exactly
  Allowed,
  MaxSent, MaxArrivals, MaxRecords, MaxOrders, MaxAttempts, MaxFailures

VARIABLES
  phase,      \* "capture", then "load"; or "run"
  source,     \* the adapter in use
  feed,       \* the venue, the transport and the adapter's state
  plans,      \* plan id -> IngestPlan
  existing,   \* the tables that exist
  encoding,   \* how fixed-point columns are stored
  tables,     \* table -> rows
  jobs,       \* loader -> what it is doing
  failed,     \* plan -> loads of it that died after they began to write
  written,    \* run -> table -> rows of it written to the end
  attempts

vars == <<phase, source, feed, plans, existing, encoding, tables, jobs, failed, written, attempts>>

PlanStreams == <<"instruments", "book", "trades", "funding", "references", "resolutions">>

MarketTables == Range(PlanStreams) \cup {"corporate", "log"}

RunStreams == <<"run", "orders", "fills", "positions", "equity">>

RunTables == Range(RunStreams)

Tables == MarketTables \cup RunTables

PlanIds == {"captured", "archived"}

------------------------------------------------------------------------------
(* Rows.  A fixed-point value is rounded to what the column can hold.       *)

\* FixedBuilder::append then read_fixed: f64 is exact up to the mantissa and
\* holds every second value above it, ties to the even one.
Fixed(value) ==
  LET half == value \div 2
  IN  IF encoding = "decimal" \/ value <= Mantissa \/ value % 2 = 0 THEN value
      ELSE 2 * (half + (half % 2))

InstrumentRows(by, instruments) ==
  LET row(i, outcome) ==
        [ts |-> Known[by], by |-> by, index |-> i, id |-> instruments[i].id, outcome |-> outcome,
         tick |-> Fixed(instruments[i].tick), lot |-> Fixed(instruments[i].lot),
         negRisk |-> instruments[i].negRisk]
  IN  FlattenSeq([i \in DOMAIN instruments |->
                    [o \in 1 .. instruments[i].outcomes |-> row(i, o - 1)]])

\* write_book_events: a snapshot is one row per level, or a row of its own
\* when it is empty; the last row of an event says so.  A cleared side has no
\* price, a deleted level no size.
BookRows(by, records) ==
  LET optional(value) == IF value = None THEN None ELSE Fixed(value)
      row(i, action, side, price, size, last) ==
        [ts |-> records[i].ts, te |-> records[i].te, instrument |-> records[i].instrument,
         outcome |-> records[i].outcome, action |-> action, side |-> side,
         price |-> optional(price), size |-> optional(size),
         index |-> i, last |-> last, by |-> by]
      levels(i) ==
        LET e     == records[i].event
            sorted(side) == SetToSortSeq(DOMAIN side, LAMBDA p, q : p < q)
            bids  == sorted(e.bids)
            asks  == sorted(e.asks)
            total == Len(bids) + Len(asks)
        IN  IF total = 0 THEN <<row(i, "snapshot", "none", None, None, TRUE)>>
            ELSE [k \in 1 .. Len(bids) |->
                    row(i, "snapshot", "buy", bids[k], e.bids[bids[k]], k = total)]
                 \o [k \in 1 .. Len(asks) |->
                       row(i, "snapshot", "sell", asks[k], e.asks[asks[k]], Len(bids) + k = total)]
      rows(i) ==
        LET e == records[i].event
        IN  CASE e.kind = "snapshot" -> levels(i)
              [] e.kind = "set" -> <<row(i, "set", e.side, e.price, e.size, TRUE)>>
              [] e.kind = "delete" -> <<row(i, "delete", e.side, e.price, None, TRUE)>>
              [] e.kind = "clear" -> <<row(i, "clear", e.side, None, None, TRUE)>>
              [] OTHER -> <<row(i, "gap", "none", None, None, TRUE)>>
  IN  FlattenSeq([i \in DOMAIN records |-> rows(i)])

TradeRows(by, records) ==
  [i \in DOMAIN records |->
     [ts |-> records[i].ts, te |-> records[i].te, instrument |-> records[i].instrument,
      outcome |-> records[i].outcome, price |-> Fixed(records[i].event.price),
      size |-> Fixed(records[i].event.size), by |-> by, index |-> i]]

ReferenceRows(by, records) ==
  LET optional(price) == IF price = None THEN None ELSE Fixed(price)
  IN  [i \in DOMAIN records |->
         [ts |-> records[i].ts, te |-> records[i].te, instrument |-> records[i].instrument,
          outcome |-> records[i].outcome, mark |-> optional(records[i].event.mark),
          oracle |-> optional(records[i].event.oracle), by |-> by, index |-> i]]

FundingRows(by, records) ==
  [i \in DOMAIN records |->
     [ts |-> records[i].ts, te |-> records[i].te, instrument |-> records[i].instrument,
      rate |-> Fixed(records[i].event.rate), by |-> by, index |-> i]]

\* write_corporate_actions: the value goes to the one column of its kind.
CorporateRows(by, records) ==
  LET column(action, kind) ==
        IF action.kind # kind \/ action.value = <<>> THEN <<>> ELSE <<Fixed(action.value[1])>>
      row(i) == LET action == records[i].event
                IN  [ts |-> records[i].ts, te |-> records[i].te,
                     instrument |-> records[i].instrument, kind |-> action.kind,
                     ratio |-> column(action, "split"), perShare |-> column(action, "dividend"),
                     finalPrice |-> column(action, "delist"), by |-> by, index |-> i]
  IN  [i \in DOMAIN records |-> row(i)]

\* write_resolutions: a split is one row per outcome.
ResolutionRows(by, resolutions) ==
  LET row(i, outcome, payout, count) ==
        [ts |-> resolutions[i].ts, by |-> by, index |-> i, id |-> resolutions[i].instrument,
         kind |-> resolutions[i].kind, outcome |-> outcome, payout |-> payout, count |-> count]
      rows(i) ==
        LET r == resolutions[i]
        IN  CASE r.kind = "winner" -> <<row(i, r.payouts[1], None, None)>>
              [] r.kind = "void" -> <<row(i, None, None, r.payouts[1])>>
              [] OTHER -> [o \in DOMAIN r.payouts |-> row(i, o - 1, Fixed(r.payouts[o]), None)]
  IN  FlattenSeq([i \in DOMAIN resolutions |-> rows(i)])

\* record_ingest: one row per completed load.
LogRows(by, plan) == << [ts |-> Known[by], by |-> by, index |-> 1, digest |-> Digest(plan)] >>

\* What every row of a run says of it; nth tells the runs of one id apart.
Stamp(job, ts, i) == [ts |-> ts, by |-> job.by, nth |-> job.nth, index |-> i]

ManifestRows(job) ==
  << Stamp(job, Runs[job.by].window.from, 1) @@
     [simulated |-> job.result.through, settled |-> DOMAIN job.result.settled # {},
      warnings |-> job.result.unsettled] >>

OrderRows(job) == [i \in DOMAIN job.result.fills |-> Stamp(job, job.result.fills[i].ts, i)]

FillRows(job) ==
  LET fills == job.result.fills
  IN  [i \in DOMAIN fills |->
         Stamp(job, fills[i].ts, i) @@
         [market |-> fills[i].market, side |-> fills[i].side,
          price |-> Fixed(fills[i].price), quantity |-> Fixed(fills[i].quantity)]]

\* positions_batch: folded from the fills again, with what settled them.
PositionRows(job) ==
  LET run     == job.result
      book    == Portfolio(run.fills)
      markets == SetToSeq(DOMAIN book)
      settled(m) == IF m \in DOMAIN run.settled THEN <<run.settled[m].pnl>> ELSE <<>>
      exit(m) == IF m \in DOMAIN run.settled THEN run.settled[m].exit ELSE <<>>
      through == IF run.through = None THEN 0 ELSE run.through
  IN  [i \in DOMAIN markets |->
         Stamp(job, through, i) @@
         [market |-> markets[i], quantity |-> Fixed(book[markets[i]].quantity),
          average |-> Fixed(book[markets[i]].average), settlement |-> settled(markets[i]),
          exit |-> exit(markets[i])]]

\* The engine's samples, here the last one.
EquityRows(job) ==
  IF job.result.through = None THEN <<>> ELSE << Stamp(job, job.result.through, 1) >>

RunRows(job, table) ==
  CASE table = "run" -> ManifestRows(job)
    [] table = "orders" -> OrderRows(job)
    [] table = "fills" -> FillRows(job)
    [] table = "positions" -> PositionRows(job)
    [] OTHER -> EquityRows(job)

PlanRows(by, table) ==
  CASE table = "instruments" -> InstrumentRows(by, plans[by].instruments)
    [] table = "book" -> BookRows(by, plans[by].book)
    [] table = "trades" -> TradeRows(by, plans[by].trades)
    [] table = "funding" -> FundingRows(by, plans[by].funding)
    [] table = "references" -> ReferenceRows(by, plans[by].references)
    [] table = "resolutions" -> ResolutionRows(by, plans[by].resolutions)
    [] OTHER -> LogRows(by, plans[by])

RowsOf(job, table) == IF job.by \in PlanIds THEN PlanRows(job.by, table) ELSE RunRows(job, table)

------------------------------------------------------------------------------
(* Reading back.                                                            *)

\* scan_options: the half-open window [from, to).
Window(rows, from, to) == SelectSeq(rows, LAMBDA r : from <= r.ts /\ r.ts < to)

NoPending == [index |-> 0]

\* One row of read_book_events: levels gather until the row that ends the
\* event; an event begun before the last one ended, or one whose rows name
\* two books, is refused.
ReadBookRow(read, row) ==
  LET fresh   == [index |-> row.index, ts |-> row.ts, te |-> row.te,
                  instrument |-> row.instrument, outcome |-> row.outcome,
                  bids |-> <<>>, asks |-> <<>>]
      entry   == IF read.pending = NoPending THEN fresh ELSE read.pending
      broken  == \/ entry.index # row.index
                 \/ entry.instrument # row.instrument
                 \/ entry.outcome # row.outcome
      gathered == CASE row.side = "buy" -> [entry EXCEPT !.bids = WithLevel(@, row.price, row.size)]
                    [] row.side = "sell" -> [entry EXCEPT !.asks = WithLevel(@, row.price, row.size)]
                    [] OTHER -> entry
      pushed(event) == [read EXCEPT !.records =
                          Append(@, Stamped(row.te, row.ts, row.instrument, row.outcome, event))]
  IN  CASE read.err -> read
        [] ~read.err /\ row.action = "gap" -> pushed(GapEvent)
        [] ~read.err /\ row.action = "set" -> pushed(Delta(row.side, row.price, row.size))
        [] ~read.err /\ row.action = "delete" -> pushed(Delta(row.side, row.price, 0))
        [] ~read.err /\ row.action = "clear" -> pushed(Clear(row.side))
        [] ~read.err /\ row.action = "snapshot" /\ broken -> [read EXCEPT !.err = TRUE]
        [] OTHER ->
             IF row.last
             THEN [read EXCEPT !.pending = NoPending,
                               !.records = Append(@, Stamped(entry.te, entry.ts, entry.instrument,
                                                             entry.outcome,
                                                             Snapshot(gathered.bids, gathered.asks)))]
             ELSE [read EXCEPT !.pending = gathered]

\* read_book_events: a truncated snapshot is refused, the rest is sorted.
ReadBook(rows) ==
  LET read == FoldLeft(ReadBookRow, [pending |-> NoPending, records |-> <<>>, err |-> FALSE], rows)
  IN  [err |-> read.err \/ read.pending # NoPending, records |-> StableByTime(read.records)]

ReadTrades(rows) ==
  [i \in DOMAIN rows |-> Stamped(rows[i].te, rows[i].ts, rows[i].instrument, rows[i].outcome,
                                 Trade(rows[i].price, rows[i].size))]

ReadReferences(rows) ==
  [i \in DOMAIN rows |-> Stamped(rows[i].te, rows[i].ts, rows[i].instrument, rows[i].outcome,
                                 Reference(rows[i].mark, rows[i].oracle))]

ReadFunding(rows) ==
  [i \in DOMAIN rows |-> Stamped(rows[i].te, rows[i].ts, rows[i].instrument, 0,
                                 Funding(rows[i].rate))]

\* CorporateAction::validate.
ValidAction(action) == action.value # <<>> /\ action.value[1] >= IF action.kind = "split" THEN 1 ELSE 0

\* decode_corporate: a row without the value of its kind is refused.
ReadCorporate(rows) ==
  LET action(row) == [kind |-> row.kind,
                      value |-> CASE row.kind = "split" -> row.ratio
                                  [] row.kind = "dividend" -> row.perShare
                                  [] OTHER -> row.finalPrice]
  IN  [err |-> \E i \in DOMAIN rows : ~ValidAction(action(rows[i])),
       records |-> [i \in DOMAIN rows |-> Stamped(rows[i].te, rows[i].ts, rows[i].instrument, 0,
                                                  action(rows[i]))]]

\* read_instruments: the first row of an instrument gives its metadata, all of
\* its rows its outcomes; a hole in the outcomes is refused.
ReadInstruments(rows) ==
  LET ids   == {rows[i].id : i \in DOMAIN rows}
      first(id) == rows[Min({i \in DOMAIN rows : rows[i].id = id})]
      outs(id)  == {rows[i].outcome : i \in {j \in DOMAIN rows : rows[j].id = id}}
  IN  [err |-> \E id \in ids : outs(id) # 0 .. Cardinality(outs(id)) - 1,
       found |-> {[id |-> id, outcomes |-> Cardinality(outs(id)), tick |-> first(id).tick,
                   lot |-> first(id).lot, negRisk |-> first(id).negRisk] : id \in ids}]

\* read_resolutions: a split is gathered by instrument and outcome index.
ReadResolutions(rows) ==
  LET whole  == SelectSeq(rows, LAMBDA r : r.kind # "split")
      splits == {rows[i].id : i \in {j \in DOMAIN rows : rows[j].kind = "split"}}
      ofSplit(id) == {i \in DOMAIN rows : rows[i].kind = "split" /\ rows[i].id = id}
      payout(id, o) == rows[Max({i \in ofSplit(id) : rows[i].outcome = o})].payout
      outs(id) == {rows[i].outcome : i \in ofSplit(id)}
      found ==
         {[instrument |-> whole[i].id, kind |-> whole[i].kind, ts |-> whole[i].ts,
           payouts |-> <<IF whole[i].kind = "void" THEN whole[i].count ELSE whole[i].outcome>>]
            : i \in DOMAIN whole}
         \cup {[instrument |-> id, kind |-> "split", ts |-> rows[Min(ofSplit(id))].ts,
                payouts |-> [k \in 1 .. Cardinality(outs(id)) |-> payout(id, k - 1)]]
                 : id \in splits}
      wholes(id) == {i \in DOMAIN whole : whole[i].id = id}
  IN  [err   |-> \/ \E id \in splits : outs(id) # 0 .. Cardinality(outs(id)) - 1
                 \/ \E r \in found : ~Conserving(r),
       twice |-> \E i \in DOMAIN whole : \/ Cardinality(wholes(whole[i].id)) > 1
                                         \/ whole[i].id \in splits,
       found |-> found]

AlreadyIngested(plan) == \E i \in DOMAIN tables["log"] : tables["log"][i].digest = Digest(plan)

\* Replay: one head per stream, the least (time, priority, stream) first; a
\* stream that steps back is refused.
Priority == <<10, 30, 5, 7, 35>>

ReplayOf(streams) ==
  LET total   == FoldLeft(LAMBDA n, s : n + Len(s), 0, streams)
      before(at, s, t) ==
        LET a == streams[s][at[s]].ts
            b == streams[t][at[t]].ts
        IN  a < b \/ (a = b /\ (Priority[s] < Priority[t] \/ (Priority[s] = Priority[t] /\ s <= t)))
      pop(state, n) ==
        LET live == {s \in DOMAIN streams : state.at[s] <= Len(streams[s])}
            next == CHOOSE s \in live : \A t \in live : before(state.at, s, t)
        IN  [at  |-> [state.at EXCEPT ![next] = @ + 1],
             out |-> Append(state.out, streams[next][state.at[next]])]
  IN  FoldLeft(pop, [at |-> [s \in DOMAIN streams |-> 1], out |-> <<>>],
               [n \in 1 .. total |-> n]).out

------------------------------------------------------------------------------
(* Capture.                                                                 *)

NoFeed == [seq |-> 0, epoch |-> 0, yes |-> <<>>, no |-> <<>>, sent |-> <<>>,
           decoder |-> NewDecoder, out |-> <<>>, at |-> 0, arrivals |-> 0, stopped |-> FALSE,
           dropped |-> {}, lines |-> <<>>]

UnchangedStore == UNCHANGED <<plans, existing, encoding, tables, jobs, failed, written, attempts>>

Send(message, yes, no) ==
  feed' = [feed EXCEPT !.seq = message.seq, !.epoch = message.epoch, !.yes = yes, !.no = no,
                       !.sent = Append(@, message)]

Message(kind, epoch, seq, side, price, change, yes, no) ==
  [kind |-> kind, epoch |-> epoch, seq |-> seq, side |-> side, price |-> price, change |-> change,
   yes |-> yes, no |-> no, time |-> 2 * Len(feed.sent), readable |-> TRUE]

\* The venue answers a (re)subscription with a snapshot under a new numbering.
Subscribe ==
  /\ phase = "capture" /\ source = "kalshi" /\ Len(feed.sent) < MaxSent
  /\ feed.epoch < 2
  /\ Send(Message("snapshot", feed.epoch + 1, 1, "none", 0, 0, feed.yes, feed.no),
          feed.yes, feed.no)
  /\ UNCHANGED <<phase, source>> /\ UnchangedStore

\* The venue's book changes at one level and the change is sent.
Change(side, price, change) ==
  LET levels == IF side = "yes" THEN feed.yes ELSE feed.no
      held   == IF price \in DOMAIN levels THEN levels[price] ELSE 0
      after  == WithLevel(levels, price, held + change)
      yes    == IF side = "yes" THEN after ELSE feed.yes
      no     == IF side = "no" THEN after ELSE feed.no
  IN  /\ phase = "capture" /\ source = "kalshi" /\ Len(feed.sent) \in 1 .. MaxSent - 1
      /\ held + change \in 0 .. 2
      /\ Send(Message("delta", feed.epoch, feed.seq + 1, side, price, change, yes, no), yes, no)
      /\ UNCHANGED <<phase, source>> /\ UnchangedStore

\* One arrival: any message sent so far, in any order, any number of times or
\* never, and possibly unreadable.
Deliver(i, readable) ==
  LET msg     == [feed.sent[i] EXCEPT !.readable = readable]
      at      == feed.arrivals + 1
      decoded == Decode(feed.decoder, msg, at)
      step    == StepOf(feed.decoder.last, msg.seq, feed.decoder.stale)
      applies == msg.kind = "delta" /\ step = "in order" /\ ~feed.decoder.desynced
      moved   == ~decoded.err /\ ~decoded.decoder.desynced
                 /\ (msg.kind = "snapshot" \/ applies)
      taken   == msg.kind = "snapshot" /\ ~decoded.err
      resend  == msg.kind = "delta" /\ step = "stale"
  IN  /\ phase = "capture" /\ source = "kalshi"
      /\ ~feed.stopped /\ feed.arrivals < MaxArrivals
      /\ \/ "renumbered" \in Allowed
         \/ applies => msg.epoch = feed.sent[feed.at].epoch
      /\ feed' = [feed EXCEPT !.arrivals = at,
                              !.decoder = decoded.decoder,
                              !.out = @ \o decoded.records,
                              !.at = IF moved THEN i ELSE @,
                              !.dropped = IF taken THEN {}
                                          ELSE IF resend /\ i > feed.at THEN @ \cup {i} ELSE @,
                              !.stopped = /\ decoded.err /\ msg.kind = "delta"
                                          /\ "stepped over" \notin Allowed]
      /\ UNCHANGED <<phase, source>> /\ UnchangedStore

\* A line of an archive file.
TakeLine(line) ==
  /\ phase = "capture" /\ source = "hyperliquid" /\ Len(feed.lines) < 2
  /\ feed' = [feed EXCEPT !.lines = Append(@, line)]
  /\ UNCHANGED <<phase, source>> /\ UnchangedStore

\* A message of a Polymarket socket, in the order it arrived.
TakeMessage(msg) ==
  /\ phase = "capture" /\ source = "polymarket" /\ feed.arrivals < 2
  /\ feed.out # <<>> => msg.time >= feed.out[Len(feed.out)].ts
  /\ feed' = [feed EXCEPT !.arrivals = @ + 1,
                          !.out = @ \o PolymarketRecords(msg, <<"t0", "t1">>)]
  /\ UNCHANGED <<phase, source>> /\ UnchangedStore

\* A message of an order-by-order feed, one the venue's own book takes.
TakeOrder(msg) ==
  /\ phase = "capture" /\ source = "mbo" /\ Len(feed.lines) < MaxOrders
  /\ ~RefusedByL3(ReplayL3(feed.lines), msg)
  /\ feed' = [feed EXCEPT !.lines = Append(@, msg)]
  /\ UNCHANGED <<phase, source>> /\ UnchangedStore

\* A line of a listing file.
TakeAssignment(a) ==
  /\ phase = "capture" /\ source = "listing" /\ Len(feed.lines) < MaxOrders
  /\ feed' = [feed EXCEPT !.lines = Append(@, a)]
  /\ UNCHANGED <<phase, source>> /\ UnchangedStore

\* The capture becomes a plan and the adapter's state is dropped.
CloseCapture(plan) ==
  /\ phase = "capture" /\ ~IsEmpty(plan) /\ Len(plan.book) <= MaxRecords
  /\ phase' = "load"
  /\ plans' = [plans EXCEPT !["captured"] = plan]
  /\ feed' = NoFeed
  /\ UNCHANGED <<source, existing, encoding, tables, jobs, failed, written, attempts>>

CloseKalshi ==
  \E market \in KalshiMarkets :
    /\ source = "kalshi" /\ feed.out # <<>>
    /\ CloseCapture([EmptyPlan("kalshi") EXCEPT !.instruments = <<KalshiInstrument(market)>>,
                                                !.book = feed.out,
                                                !.resolutions = KalshiResolution(market)])

ClosePolymarket ==
  \E market \in PolyMarkets :
    /\ source = "polymarket" /\ feed.out # <<>>
    /\ ~PolymarketResolution(market, 4).err
    /\ CloseCapture([EmptyPlan("polymarket") EXCEPT
                       !.instruments = <<PolymarketInstrument(market)>>,
                       !.book = SelectSeq(feed.out, LAMBDA r : ~IsTrade(r)),
                       !.trades = SelectSeq(feed.out, IsTrade),
                       !.resolutions = PolymarketResolution(market, 4).found])

CloseArchive ==
  LET spec == [coins |-> {"BTC"}, hours |-> {0}, contexts |-> FALSE]
      load == PlanFromArchive(spec, <<[coin |-> "BTC", hour |-> 0, lines |-> feed.lines]>>, <<>>,
                              Universe)
  IN  /\ source = "hyperliquid" /\ feed.lines # <<>> /\ load.ok
      /\ CloseCapture(load.plan)

------------------------------------------------------------------------------
(* Loading and writing runs.                                                *)

NoResult == [through |-> None, fills |-> <<>>, settled |-> <<>>, unsettled |-> {}]

Idle == [pc |-> "idle", by |-> "none", nth |-> 0, todo |-> <<>>, missing |-> {}, seen |-> <<>>,
         known |-> {}, read |-> <<>>, result |-> NoResult]

UnchangedFeed == UNCHANGED <<phase, source, feed, plans, encoding>>

Set(l, job) == jobs' = [jobs EXCEPT ![l] = job]

\* validate comes before anything is written.
Begin(l, by) ==
  /\ jobs[l].pc = "idle" /\ attempts < MaxAttempts
  /\ IF by \in PlanIds THEN phase \in {"load", "run"} /\ Validate(plans[by]) ELSE phase = "run"
  /\ \/ "same plan twice" \in Allowed
     \/ \A m \in Loaders : jobs[m].by # by
  /\ attempts' = attempts + 1
  /\ Set(l, [Idle EXCEPT !.pc = IF by \in PlanIds THEN "list" ELSE "instruments", !.by = by, !.nth = attempts'])
  /\ UNCHANGED <<existing, tables, failed, written>> /\ UnchangedFeed

TablesFor(by) == IF by \in PlanIds THEN MarketTables ELSE RunTables

AfterTables(by) == IF by \in PlanIds THEN "check" ELSE "trades"

\* create_tables reads the catalog, then creates what it found missing in one
\* batch, which fails when one of them has appeared in between.
ListTables(l) ==
  LET missing == TablesFor(jobs[l].by) \ existing
  IN  /\ jobs[l].pc = "list"
      /\ Set(l, [jobs[l] EXCEPT !.missing = missing,
                                !.pc = IF missing = {} THEN AfterTables(jobs[l].by) ELSE "create"])
      /\ UNCHANGED <<existing, tables, failed, written, attempts>> /\ UnchangedFeed

CreateMissing(l) ==
  LET clash == jobs[l].missing \cap existing # {}
  IN  /\ jobs[l].pc = "create"
      /\ existing' = IF clash THEN existing ELSE existing \cup jobs[l].missing
      /\ Set(l, IF clash THEN Idle
                ELSE [jobs[l] EXCEPT !.pc = AfterTables(jobs[l].by), !.missing = {}])
      /\ UNCHANGED <<tables, failed, written, attempts>> /\ UnchangedFeed

TodoLogFirst(job) ==
  IF job.by \in PlanIds THEN <<"log">> \o SelectSeq(PlanStreams, LAMBDA s : plans[job.by][s] # <<>>)
  ELSE SelectSeq(RunStreams, LAMBDA s : RunRows(job, s) # <<>>)

\* The tables with rows to write, in the order they are written; the ingest
\* log comes last.
Todo(job) ==
  IF job.by \in PlanIds THEN SelectSeq(PlanStreams, LAMBDA s : plans[job.by][s] # <<>>) \o <<"log">>
  ELSE SelectSeq(RunStreams, LAMBDA s : RunRows(job, s) # <<>>)

CheckLog(l) ==
  /\ jobs[l].pc = "check"
  /\ Set(l, IF AlreadyIngested(plans[jobs[l].by]) THEN Idle
            ELSE [jobs[l] EXCEPT !.pc = "write", !.todo = Todo(jobs[l])])
  /\ UNCHANGED <<existing, tables, failed, written, attempts>> /\ UnchangedFeed

\* run_in_place: the instruments first, kept until the run is settled.
ReadKnown(l) ==
  LET known == ReadInstruments(tables["instruments"])
  IN  /\ jobs[l].pc = "instruments"
      /\ Set(l, IF known.err \/ known.found = {} THEN Idle
                ELSE [jobs[l] EXCEPT !.pc = "list", !.known = known.found])
      /\ UNCHANGED <<existing, tables, failed, written, attempts>> /\ UnchangedFeed

\* The rows of a stream in the run's window, at its table's latest version.
ReadRows(l, stream) ==
  LET window == Runs[jobs[l].by].window
  IN  (stream :> Window(tables[stream], window.from, window.to)) @@ jobs[l].read

\* The book is read while the run's tables are created, whichever ends first.
ReadBookEvents(l) ==
  LET read == ReadRows(l, "book")
  IN  /\ jobs[l].by \in DOMAIN Runs /\ jobs[l].pc \in {"list", "create", "trades"}
      /\ "book" \notin DOMAIN jobs[l].read
      /\ Set(l, IF ReadBook(read["book"]).err THEN Idle ELSE [jobs[l] EXCEPT !.read = read])
      /\ UNCHANGED <<existing, tables, failed, written, attempts>> /\ UnchangedFeed

\* trade_source, funding_source and reference_source, one after the other.
NextStream == [trades |-> "funding", funding |-> "references", references |-> "corporate"]

OpenSource(l) ==
  /\ jobs[l].pc \in DOMAIN NextStream /\ "book" \in DOMAIN jobs[l].read
  /\ Set(l, [jobs[l] EXCEPT !.pc = NextStream[@], !.read = ReadRows(l, jobs[l].pc)])
  /\ UNCHANGED <<existing, tables, failed, written, attempts>> /\ UnchangedFeed

\* corporate_source, the last one; then the streams are merged and played.
Replay(l) ==
  LET run     == Runs[jobs[l].by]
      read    == ReadRows(l, "corporate")
      book    == ReadBook(read["book"]).records
      actions == ReadCorporate(read["corporate"])
      merged  == ReplayOf(<<book, ReadTrades(read["trades"]), actions.records,
                            ReadReferences(read["references"]), ReadFunding(read["funding"])>>)
      through == IF merged = <<>> THEN None ELSE merged[Len(merged)].ts
  IN  /\ jobs[l].pc = "corporate"
      /\ Set(l, IF actions.err \/ ~Sufficient(run.window, run.minimum, book) THEN Idle
                ELSE [jobs[l] EXCEPT !.pc = "settle", !.read = <<>>, !.result.through = through,
                        !.result.fills = SelectSeq(run.fills, LAMBDA f : f.ts <= through)])
      /\ UNCHANGED <<existing, tables, failed, written, attempts>> /\ UnchangedFeed

\* Only now are the resolutions read, and held against the instruments the
\* run began with.
SettleRun(l) ==
  LET read   == ReadResolutions(tables["resolutions"])
      result == jobs[l].result
      report == Settle(Portfolio(result.fills), read.found, result.through, Runs[jobs[l].by].marks)
  IN  /\ jobs[l].pc = "settle"
      /\ Set(l, IF read.err \/ read.twice \/ ~ValidateResolutions(read.found, jobs[l].known)
                THEN Idle
                ELSE [jobs[l] EXCEPT !.pc = "commit", !.known = {}, !.result.settled = report.settled,
                                     !.result.unsettled = report.unsettled])
      /\ UNCHANGED <<existing, tables, failed, written, attempts>> /\ UnchangedFeed

\* No other loader has read the window of the table that it is about to replace.
Undisturbed(l, table) ==
  \/ "lost update" \in Allowed
  \/ \A m \in Loaders \ {l} : jobs[m].pc = "replace" => Head(jobs[m].todo) # table

\* The append the core accepts: sorted, and nowhere before what is stored.
Fits(table, rows) ==
  /\ InTimeOrder(rows)
  /\ tables[table] # <<>> => rows[1].ts >= tables[table][Len(tables[table])].ts

Whole(job) == [written EXCEPT ![job.by] = [t \in RunTables |-> @[t] + Len(RunRows(job, t))]]

\* commit_run_batches: one transaction of every table with rows, refused as a
\* whole when one of them lands in the past; then table by table.
CommitRun(l) ==
  LET rows(t) == RunRows(jobs[l], t)
      todo == Todo(jobs[l])
      all  == \A i \in DOMAIN todo : Fits(todo[i], rows(todo[i]))
  IN  /\ jobs[l].pc = "commit"
      /\ all => \A t \in Range(todo) : Undisturbed(l, t)
      /\ tables' = IF all THEN [t \in Tables |-> IF t \in Range(todo)
                                                 THEN tables[t] \o rows(t) ELSE tables[t]]
                   ELSE tables
      /\ Set(l, IF all THEN Idle ELSE [jobs[l] EXCEPT !.pc = "write", !.todo = todo])
      /\ written' = IF all THEN Whole(jobs[l]) ELSE written
      /\ UNCHANGED <<existing, failed, attempts>> /\ UnchangedFeed

\* time_bounds.
FirstTime(rows) == Min({rows[i].ts : i \in DOMAIN rows})

EndTime(rows) == Max({rows[i].ts : i \in DOMAIN rows}) + 1

SortByTimeUnstable(rows) == Reverse(StableByTime(Reverse(rows)))

SortByTime(rows) == StableByTime(rows)

\* The end of one table's write.
Advance(l) ==
  LET job  == jobs[l]
      last == Len(job.todo) = 1
  IN  /\ Set(l, IF last THEN Idle
                ELSE [job EXCEPT !.pc = "write", !.todo = Tail(@), !.seen = <<>>])
      /\ written' = IF last /\ job.by \notin PlanIds THEN Whole(job) ELSE written
      /\ UNCHANGED <<existing, failed, attempts>> /\ UnchangedFeed

\* append_with: append, or read the window the rows span for a backfill.
AppendWith(l) ==
  LET table == Head(jobs[l].todo)
      rows  == RowsOf(jobs[l], table)
  IN  /\ jobs[l].pc = "write" /\ Undisturbed(l, table)
      /\ \/ /\ Fits(table, rows)
            /\ tables' = [tables EXCEPT ![table] = @ \o rows]
            /\ Advance(l)
         \/ /\ ~Fits(table, rows)
            /\ Set(l, [jobs[l] EXCEPT !.pc = "replace",
                         !.seen = Window(tables[table], FirstTime(rows), EndTime(rows))])
            /\ UNCHANGED <<existing, tables, failed, written, attempts>> /\ UnchangedFeed

\* backfill: the merged window atomically replaces the rows of its range.
Backfill(l) ==
  LET table == Head(jobs[l].todo)
      rows  == RowsOf(jobs[l], table)
      old   == tables[table]
  IN  /\ jobs[l].pc = "replace"
      /\ tables' = [tables EXCEPT ![table] =
                      SelectSeq(old, LAMBDA r : r.ts < FirstTime(rows))
                        \o SortByTime(jobs[l].seen \o rows)
                        \o SelectSeq(old, LAMBDA r : r.ts >= EndTime(rows))]
      /\ Advance(l)

\* A load that has committed one of its tables and not all.
Underway(job) ==
  job.by \in PlanIds /\ job.pc \in {"write", "replace"} /\ job.todo # Todo(job)

\* The process dies, or the database refuses a step.
Fail(l) ==
  /\ jobs[l].pc # "idle"
  /\ Underway(jobs[l]) => FoldFunction(+, 0, failed) < MaxFailures
  /\ \/ jobs[l].by \in PlanIds
     \/ jobs[l].pc \notin {"write", "replace"}
     \/ "interrupted fallback" \in Allowed
  /\ failed' = IF Underway(jobs[l]) THEN [failed EXCEPT ![jobs[l].by] = @ + 1] ELSE failed
  /\ Set(l, Idle)
  /\ UNCHANGED <<existing, tables, written, attempts>> /\ UnchangedFeed

Init ==
  /\ phase \in {"capture", "run"}
  /\ source \in IF phase = "run" THEN {"none"}
                ELSE {"kalshi", "hyperliquid", "polymarket", "mbo", "listing"}
  /\ feed = NoFeed
  /\ plans = IF phase = "run" THEN [captured |-> Traded, archived |-> Late]
             ELSE [captured |-> EmptyPlan("none"), archived |-> Archived]
  /\ encoding \in IF source \in {"mbo", "listing"} THEN {"float"} ELSE {"float", "decimal"}
  /\ existing = IF phase = "run" \/ encoding = "decimal" THEN MarketTables ELSE {}
  /\ \E actions \in IF phase = "run" THEN Actions ELSE {<<>>} :
       tables = [t \in Tables |->
                   IF phase = "run" /\ t \in Range(PlanStreams) /\ Traded[t] # <<>>
                   THEN PlanRows("captured", t)
                   ELSE IF t = "corporate" THEN CorporateRows("actions", actions) ELSE <<>>]
  /\ jobs = [l \in Loaders |-> Idle]
  /\ failed = [p \in PlanIds |-> 0]
  /\ written = [r \in DOMAIN Runs |-> [t \in RunTables |-> 0]]
  /\ attempts = 0

Next ==
  \/ Subscribe
  \/ \E side \in {"yes", "no"}, price \in 1 .. Par - 1, change \in {-1, 1} :
       Change(side, price, change)
  \/ \E i \in DOMAIN feed.sent, readable \in BOOLEAN : Deliver(i, readable)
  \/ \E line \in ArchiveLines : TakeLine(line)
  \/ \E msg \in PolyMessages : TakeMessage(msg)
  \/ \E msg \in OrderMessages : TakeOrder(msg)
  \/ \E a \in Assignments : TakeAssignment(a)
  \/ CloseKalshi \/ ClosePolymarket \/ CloseArchive
  \/ \E l \in Loaders :
       \/ \E by \in PlanIds \cup DOMAIN Runs : Begin(l, by)
       \/ ListTables(l) \/ CreateMissing(l) \/ CheckLog(l)
       \/ ReadKnown(l) \/ ReadBookEvents(l) \/ OpenSource(l) \/ Replay(l) \/ SettleRun(l) \/ CommitRun(l)
       \/ AppendWith(l) \/ Backfill(l) \/ Fail(l)

Spec == Init /\ [][Next]_vars

------------------------------------------------------------------------------
(* Properties.                                                              *)

\* The book the decoder's records rebuild, while nothing in them says it is
\* unusable, is the venue's book as of the last message taken, whatever was
\* lost, repeated, reordered or renumbered on the way; and a change dropped
\* as a resend (kalshi.rs:343-346) is one that book already has, unless the
\* feed restarted and the change is numbered anew within the resend window.
KalshiExact ==
  LET book == ReplayBook(feed.out)
      said == feed.sent[feed.at]
      true == NormalizedBook(said.yes, said.no)
  IN  /\ InTimeOrder(feed.out)
      /\ feed.decoder.desynced => book.status # "fresh"
      /\ book.status = "fresh" =>
           /\ book.bids = true.bids /\ book.asks = true.asks
           /\ \A i \in feed.dropped : feed.sent[i].epoch > said.epoch

\* The fast path reads what the tolerant one reads, record for record, except
\* that in a line of several coins it names each trade by its own and the
\* tolerant one by the first (hyperliquid.rs:934-955, 991-998); every line is
\* accounted for, and nothing is known before it happened or was received.
ArchiveExact ==
  LET read == ReadArchive(feed.lines)
      slow == StableByTime(FlattenSeq([i \in DOMAIN feed.lines |-> RecordsSlow(feed.lines[i]).records]))
      ownCoin(record) == \E i \in DOMAIN feed.lines :
                           /\ ~OneCoin(feed.lines[i])
                           /\ \E item \in Range(feed.lines[i].items) :
                                /\ record.instrument = InstrumentIdFor(item.coin)
                                /\ record.te = item.time /\ record.event.size = item.size
      productive == {i \in DOMAIN feed.lines : RecordsSlow(feed.lines[i]).records # <<>>}
  IN  /\ DOMAIN read.records = DOMAIN slow
      /\ \A i \in DOMAIN slow :
           \/ read.records[i] = slow[i]
           \/ /\ [read.records[i] EXCEPT !.instrument = slow[i].instrument] = slow[i]
              /\ ownCoin(read.records[i])
      /\ read.lines = Cardinality(productive) + read.skipped + read.malformed
      /\ \A i \in productive : \A record \in Range(RecordsSlow(feed.lines[i]).records) :
           record.ts >= record.te /\ record.ts >= feed.lines[i].known

\* Captured exactly (kalshi.rs OrderbookDecoder::decode, hyperliquid.rs
\* read_archive, l3.rs L3Book, corporate.rs SymbolRegistry): the records
\* handed on say what the venue said, or say that they do not; a book replayed
\* from the middle of the day has the queues of the whole one, and a ticker
\* means what it was last assigned to.
CaptureExact ==
  phase = "capture" =>
    /\ source = "kalshi" => KalshiExact
    /\ source = "hyperliquid" => ArchiveExact
    /\ source = "mbo" => L3Exact(feed.lines)
    /\ source = "listing" => TickersExact(feed.lines)

CountBy(table, by) == Len(SelectSeq(tables[table], LAMBDA r : r.by = by))

\* Loaded once (lib.rs write_plan, store.rs append_with): a plan in the ingest
\* log is in every table in full, and a plan no load of which died part way is
\* nowhere more than once, however loads of different plans interleave and
\* merge into each other's past.
LoadedOnce ==
  \A p \in PlanIds : phase = "load" =>
    LET streams == {s \in Range(PlanStreams) : plans[p][s] # <<>>}
    IN  /\ CountBy("log", p) > 0 => \A s \in streams : CountBy(s, p) >= Len(PlanRows(p, s))
        /\ failed[p] = 0 =>
             /\ \A s \in streams : CountBy(s, p) \in {0, Len(PlanRows(p, s))}
             /\ CountBy("log", p) <= 1

Exact(value) == encoding = "decimal" \/ value <= Mantissa \/ value % 2 = 0

\* The records behind the rows of a window, in stored order.
Behind(rows, stream) == [i \in DOMAIN rows |-> plans[rows[i].by][stream][rows[i].index]]

SmallTrade(record) == Exact(record.event.size) /\ Exact(record.event.price)

\* Read back (store.rs write_* and read_*, replay.rs): in every window, at any
\* moment of any loads, every table decodes and gives the very records its
\* rows were written from, snapshots whole, outcomes and payouts complete, in
\* one replay order.
ReadBack ==
  phase # "capture" =>
    /\ \A from, to \in 0 .. 5 : from < to =>
         LET book   == ReadBook(Window(tables["book"], from, to))
             lasts  == SelectSeq(Window(tables["book"], from, to), LAMBDA r : r.last)
             trades == Window(tables["trades"], from, to)
             marks  == ReadReferences(Window(tables["references"], from, to))
             funding == ReadFunding(Window(tables["funding"], from, to))
             merged == ReplayOf(<<book.records, ReadTrades(trades), <<>>, marks, funding>>)
         IN  /\ ~book.err
             /\ book.records = Behind(lasts, "book")
             /\ \A i \in DOMAIN trades :
                  LET said == Behind(trades, "trades")[i]
                  IN  SmallTrade(said) => ReadTrades(trades)[i] = said
             /\ marks = Behind(Window(tables["references"], from, to), "references")
             /\ funding = Behind(Window(tables["funding"], from, to), "funding")
             /\ InTimeOrder(merged)
    /\ LET instruments == ReadInstruments(tables["instruments"])
           resolutions == ReadResolutions(tables["resolutions"])
       IN  /\ ~instruments.err /\ ~resolutions.err
           /\ \A i \in DOMAIN tables["instruments"] :
                Behind(tables["instruments"], "instruments")[i] \in instruments.found
           /\ resolutions.found = Range(Behind(tables["resolutions"], "resolutions"))

Writing(r) == \E l \in Loaders : jobs[l].by = r /\ jobs[l].pc \in {"write", "replace"}

RowsOfRun(table, row) ==
  SelectSeq(tables[table], LAMBDA x : x.by = row.by /\ x.nth = row.nth)

RunWhole ==
  \A r \in DOMAIN Runs : ~Writing(r) => \A t \in RunTables : CountBy(t, r) = written[r][t]

\* Settled exactly (run.rs run_in_place, settlement.rs settle, store.rs
\* write_run, commit_run_batches, positions_batch): outside a fallback under
\* way, the five tables hold every row of every finished run and no row of an
\* unfinished one; the stored positions of a run are what its stored fills
\* fold to; a position is settled only at what its market resolved to, by a
\* result known within the simulated time; and a complete set, held in equal
\* parts, settles at exactly its one dollar.
SettledExact ==
  /\ RunWhole
  /\ \A n \in DOMAIN tables["run"] : ~Writing(tables["run"][n].by) =>
       LET run   == tables["run"][n]
           rows  == RowsOfRun("positions", run)
           book  == Portfolio(RowsOfRun("fills", run))
           all   == ReadResolutions(tables["resolutions"]).found
           known == ReadInstruments(tables["instruments"]).found
           at(m) == rows[CHOOSE i \in DOMAIN rows : rows[i].market = m]
           paid(m) == at(m).settlement[1] + at(m).average * at(m).quantity
       IN  /\ {rows[i].market : i \in DOMAIN rows} = DOMAIN book
           /\ \A i \in DOMAIN rows : rows[i].quantity = book[rows[i].market].quantity
           /\ \A i \in DOMAIN rows : rows[i].settlement # <<>> =>
                \E r \in all : /\ r.instrument = rows[i].market[1] /\ r.ts <= rows[i].ts
                               /\ paid(rows[i].market) =
                                    SettlementPrice(r, rows[i].market[2]) * rows[i].quantity
           /\ \A instrument \in known :
                LET set == [o \in 1 .. instrument.outcomes |-> <<instrument.id, o - 1>>]
                IN  (/\ Range(set) \subseteq DOMAIN book
                     /\ \A m \in Range(set) : at(m).settlement # <<>>
                                              /\ at(m).quantity = at(set[1]).quantity) =>
                      Total([o \in DOMAIN set |-> paid(set[o])]) = at(set[1]).quantity * Scale

==============================================================================
