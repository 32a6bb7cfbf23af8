------------------------------- MODULE Venues -------------------------------
(***************************************************************************)
(* The venue adapters of h5i-db-venues as pure operators: what a vendor's  *)
(* message becomes (kalshi.rs, polymarket.rs, hyperliquid.rs), what a      *)
(* synced archive becomes (hyperliquid_archive.rs), and the IngestPlan all *)
(* of them hand on (lib.rs).                                               *)
(*                                                                         *)
(* Prices are whole ticks, Par of them to one dollar; times are whole and  *)
(* on one scale; a payload is a record of the fields the adapter reads, a  *)
(* field that cannot be parsed being an explicit flag.  None stands for an *)
(* absent optional field.                                                  *)
(***************************************************************************)
EXTENDS OrderBook, FiniteSets

CONSTANTS
  Par,            \* ticks in one dollar: a NO bid at p is a YES ask at Par - p
  ResendWindow,   \* how far below the last sequence a resend can reach
  ResendRun       \* how many resends in a row are believed

ASSUME VenuesAssumption ==
  /\ Par \in Nat \ {0}
  /\ ResendWindow \in Nat
  /\ ResendRun \in Nat

None == -1

\* An instrument's id: the venue's symbol and its kind.
KalshiId == <<"KX", "MARKET">>

PolymarketId == <<"PM", "MARKET">>

StableByTime(records) ==
  LET order == SortSeq([i \in DOMAIN records |-> i],
                       LAMBDA i, j : \/ records[i].ts < records[j].ts
                                     \/ records[i].ts = records[j].ts /\ i < j)
  IN  [i \in DOMAIN records |-> records[order[i]]]

InTimeOrder(records) == \A i \in 2 .. Len(records) : records[i - 1].ts <= records[i].ts

------------------------------------------------------------------------------
(* Records: te is when it happened, ts when this system could first know.   *)

Stamped(te, ts, instrument, outcome, event) ==
  [te |-> te, ts |-> ts, instrument |-> instrument, outcome |-> outcome, event |-> event]

Immediate(at, instrument, outcome, event) == Stamped(at, at, instrument, outcome, event)

Snapshot(bids, asks) == [kind |-> "snapshot", bids |-> bids, asks |-> asks]

\* BookDelta::set and BookDelta::delete.
Delta(side, price, size) ==
  [kind |-> IF size = 0 THEN "delete" ELSE "set", side |-> side, price |-> price, size |-> size]

\* BookDelta::clear.
Clear(side) == [kind |-> "clear", side |-> side]

GapEvent == [kind |-> "gap"]

Trade(price, size) == [kind |-> "trade", price |-> price, size |-> size]

Reference(mark, oracle) == [kind |-> "reference", mark |-> mark, oracle |-> oracle]

Funding(rate) == [kind |-> "funding", rate |-> rate]

\* replay_book: the book a stream of records leaves behind.
ReplayBook(records) ==
  LET apply(book, record) ==
        CASE record.event.kind = "snapshot" -> ApplySnapshot(record.event.bids, record.event.asks)
          [] record.event.kind \in {"set", "delete"} ->
               ApplyDelta(book, record.event.side, record.event.price, record.event.size)
          [] record.event.kind = "clear" -> ApplyClear(book, record.event.side)
          [] record.event.kind = "gap" -> MarkGap
          [] OTHER -> book
  IN  FoldLeft(apply, NoBook, records)

------------------------------------------------------------------------------
(* Kalshi: a stateful decoder of relative changes numbered by sequence.     *)

NewDecoder ==
  [last |-> None, desynced |-> TRUE, stale |-> 0, reported |-> FALSE, yes |-> <<>>, no |-> <<>>]

NormalizedBook(yes, no) ==
  Snapshot(yes, [p \in {Par - q : q \in DOMAIN no} |-> no[Par - p]])

\* Step::of: how a message's sequence relates to the last one accepted.
StepOf(last, seq, stale) ==
  CASE last = None \/ seq = last + 1 -> "in order"
    [] last # None /\ seq <= last ->
         IF last - seq > ResendWindow \/ stale >= ResendRun THEN "restarted" ELSE "stale"
    [] OTHER -> "skipped"

Decoded(decoder, records, err) == [decoder |-> decoder, records |-> records, err |-> err]

KalshiGap(at) == Immediate(at, KalshiId, 0, GapEvent)

Desync(decoder, at) ==
  Decoded([decoder EXCEPT !.desynced = TRUE, !.reported = TRUE],
          IF decoder.reported THEN <<>> ELSE <<KalshiGap(at)>>, FALSE)

\* A snapshot is taken whatever its sequence says; one that cannot be read
\* changes nothing.
DecodeSnapshot(decoder, msg, at) ==
  LET step     == StepOf(decoder.last, msg.seq, decoder.stale)
      snapshot == Immediate(at, KalshiId, 0, NormalizedBook(msg.yes, msg.no))
  IN  IF ~msg.readable THEN Decoded(decoder, <<>>, TRUE)
      ELSE Decoded([NewDecoder EXCEPT !.last = msg.seq, !.desynced = FALSE,
                                      !.yes = msg.yes, !.no = msg.no],
                   IF step = "in order" THEN <<snapshot>> ELSE <<KalshiGap(at), snapshot>>,
                   FALSE)

\* The level a relative change lands on, and the absolute record it becomes.
\* The sequence has been accepted before the fields are read.
ApplyChange(decoder, msg, at) ==
  LET levels  == IF msg.side = "yes" THEN decoder.yes ELSE decoder.no
      held    == IF msg.price \in DOMAIN levels THEN levels[msg.price] ELSE 0
      updated == held + msg.change
      after   == WithLevel(levels, msg.price, updated)
      delta   == IF msg.side = "yes" THEN Delta("buy", msg.price, updated)
                 ELSE Delta("sell", Par - msg.price, updated)
      te      == IF msg.time < at THEN msg.time ELSE at
  IN  CASE ~msg.readable -> Decoded(decoder, <<>>, TRUE)
        [] msg.readable /\ updated < 0 -> Desync(decoder, at)
        [] OTHER ->
             Decoded(IF msg.side = "yes" THEN [decoder EXCEPT !.yes = after]
                     ELSE [decoder EXCEPT !.no = after],
                     <<Stamped(te, at, KalshiId, 0, delta)>>, FALSE)

DecodeDeltaKeepingBook(decoder, msg, at) ==
  LET step    == StepOf(decoder.last, msg.seq, decoder.stale)
      adopted == [decoder EXCEPT !.last = msg.seq, !.stale = 0]
  IN  CASE step = "stale" -> Decoded([decoder EXCEPT !.stale = @ + 1], <<>>, FALSE)
        [] step \in {"skipped", "restarted"} /\ ~decoder.desynced ->
             ApplyChange(adopted, msg, at)
        [] decoder.desynced -> Desync(adopted, at)
        [] OTHER -> ApplyChange(adopted, msg, at)

\* A resend is dropped; a hole or a restart adopts the new numbering and marks
\* the book unusable until a snapshot.
DecodeDelta(decoder, msg, at) ==
  LET step    == StepOf(decoder.last, msg.seq, decoder.stale)
      adopted == [decoder EXCEPT !.last = msg.seq, !.stale = 0]
  IN  CASE step = "stale" -> Decoded([decoder EXCEPT !.stale = @ + 1], <<>>, FALSE)
        [] step \in {"skipped", "restarted"} -> Desync(adopted, at)
        [] step = "in order" /\ decoder.desynced -> Desync(adopted, at)
        [] OTHER -> ApplyChange(adopted, msg, at)

Decode(decoder, msg, at) ==
  IF msg.kind = "snapshot" THEN DecodeSnapshot(decoder, msg, at) ELSE DecodeDelta(decoder, msg, at)

\* parse_market: the instrument, and the resolution once both the result and
\* the time it became observable are known.
KalshiInstrument(market) ==
  [id |-> KalshiId, outcomes |-> 2, tick |-> market.tick, lot |-> IF market.fractional THEN 1 ELSE Par,
   negRisk |-> FALSE]

KalshiResolution(market) ==
  IF market.result = None \/ market.settled = None THEN <<>>
  ELSE << [instrument |-> KalshiId, kind |-> "winner", payouts |-> <<market.result>>,
           ts |-> market.settled] >>

------------------------------------------------------------------------------
(* Polymarket: absolute levels, one outcome per token, no sequence.         *)

\* TokenMap::outcome, None for a token the market does not list.
OutcomeOf(tokens, asset) ==
  LET at == {i \in DOMAIN tokens : tokens[i] = asset} IN IF at = {} THEN None ELSE Min(at) - 1

PolymarketRecords(msg, tokens) ==
  LET outcome == OutcomeOf(tokens, msg.asset)
      record(event) == Immediate(msg.time, PolymarketId, outcome, event)
  IN  CASE outcome = None -> <<>>
        [] outcome # None /\ msg.kind = "book" -> <<record(Snapshot(msg.bids, msg.asks))>>
        [] outcome # None /\ msg.kind = "price_change" ->
             [i \in DOMAIN msg.changes |->
                record(Delta(msg.changes[i].side, msg.changes[i].price, msg.changes[i].size))]
        [] OTHER -> <<record(Trade(msg.price, msg.size))>>

\* instrument_from_market: either spelling of the flag saying yes is yes.
PolymarketInstrument(market) ==
  [id |-> PolymarketId, outcomes |-> Len(market.tokens), tick |-> market.tick, lot |-> Par,
   negRisk |-> market.negRisk \/ market.neg_risk]

\* resolution_from_market: a payout vector first (empty: the field is absent),
\* then a void, then a winner.  Payouts that are not one per token, and some
\* but not all tokens winning, are errors.
PolymarketResolution(market, at) ==
  LET payouts == market.payouts
      winners == market.winners
      count   == Len(market.tokens)
      answer(found) == [err |-> FALSE, found |-> found]
      result(kind, values) ==
        answer(<< [instrument |-> PolymarketId, kind |-> kind, payouts |-> values, ts |-> at] >>)
      refused == [err |-> TRUE, found |-> <<>>]
      ofPayouts == IF Len(payouts) # count THEN refused
                   ELSE IF \A i \in DOMAIN payouts : payouts[i] <= 0 THEN answer(<<>>)
                   ELSE result("split", NormaliseToOne(payouts))
      void      == market.even \/ Cardinality(winners) = count
      ofWinners == CASE void -> result("void", <<count>>)
                     [] ~void /\ winners = {} -> answer(<<>>)
                     [] ~void /\ Cardinality(winners) = 1 ->
                          result("winner", <<CHOOSE w \in winners : TRUE>>)
                     [] OTHER -> refused
  IN  CASE ~market.closed -> answer(<<>>)
        [] market.closed /\ payouts # <<>> -> ofPayouts
        [] OTHER -> ofWinners

------------------------------------------------------------------------------
(* Hyperliquid: archive lines, read by a fast path that gives up on any     *)
(* shape it does not know and a tolerant one behind it.                     *)

\* instrument_id_for: the venue's naming tells spot from perpetual.
InstrumentIdFor(coin) ==
  IF coin \in {"@1", "PURR/USDC"} THEN <<coin, "SPOT">> ELSE <<coin, "PERP">>

\* Known no earlier than it happened, whatever the archiver's clock says.
KnownAt(line, record) ==
  IF line.known # None /\ line.known > record.te THEN [record EXCEPT !.ts = line.known] ELSE record

LineRecords(line, coins) ==
  LET event(item) == IF line.channel = "l2Book" THEN Snapshot(item.bids, item.asks)
                     ELSE Trade(item.price, item.size)
      record(i) == Immediate(line.items[i].time, InstrumentIdFor(coins[i]), 0,
                             event(line.items[i]))
      records == StableByTime([i \in DOMAIN line.items |-> record(i)])
  IN  [i \in DOMAIN records |-> KnownAt(line, records[i])]

\* records_fast: Some(records), or give is TRUE and the line falls through.
RecordsFast(line) ==
  LET fits == /\ line.quoted /\ line.numeric
              /\ \A i \in DOMAIN line.items : line.items[i].coin # "none"
              /\ line.channel = "l2Book" => line.sides = 2
  IN  IF line.channel \notin {"l2Book", "trades"}
      THEN [give |-> FALSE, records |-> <<>>]
      ELSE [give |-> ~fits,
            records |-> IF fits THEN LineRecords(line, [i \in DOMAIN line.items |-> line.items[i].coin]) ELSE <<>>]

\* records_from_envelope_cached: one instrument for the whole line, its first.
RecordsSlow(line) ==
  LET coin   == IF line.items = <<>> THEN "none" ELSE line.items[1].coin
      broken == ~line.numeric \/ (line.channel = "l2Book" /\ line.sides # 2)
  IN  IF line.channel \notin {"l2Book", "trades"} \/ coin = "none"
      THEN [err |-> FALSE, records |-> <<>>]
      ELSE [err |-> broken,
            records |-> IF broken THEN <<>> ELSE LineRecords(line, [i \in DOMAIN line.items |-> coin])]

\* Whether a line's items are all of its first one's coin.
OneCoin(line) == \A i \in DOMAIN line.items : line.items[i].coin \in {line.items[1].coin, "none"}

\* read_archive: every line is records, skipped or malformed.
ReadLine(read, line) ==
  LET fast    == RecordsFast(line)
      slow    == RecordsSlow(line)
      err     == fast.give /\ slow.err
      records == IF fast.give THEN slow.records ELSE fast.records
  IN  [records   |-> read.records \o records,
       lines     |-> read.lines + 1,
       skipped   |-> read.skipped + IF ~err /\ records = <<>> THEN 1 ELSE 0,
       malformed |-> read.malformed + IF err THEN 1 ELSE 0]

NothingRead == [records |-> <<>>, lines |-> 0, skipped |-> 0, malformed |-> 0]

ReadArchive(lines) ==
  LET read == FoldLeft(ReadLine, NothingRead, lines)
  IN  [read EXCEPT !.records = StableByTime(@)]

\* No coins named means every coin.
AssetContextRecords(contexts, coins) ==
  LET kept == SelectSeq(contexts, LAMBDA c : coins = {} \/ c.coin \in coins)
  IN  StableByTime([i \in DOMAIN kept |->
        Immediate(kept[i].time, <<kept[i].coin, "PERP">>, 0, Reference(kept[i].mark, kept[i].oracle))])

\* parse_funding: a fundingHistory response, rates unscaled.
FundingRecords(rows, instrument) ==
  StableByTime([i \in DOMAIN rows |-> Immediate(rows[i].time, instrument, 0, Funding(rows[i].rate))])

\* AssetMeta::instrument.
AssetInstrument(asset) ==
  [id |-> <<asset.name, "PERP">>, outcomes |-> 1, tick |-> asset.tick, lot |-> asset.lot,
   negRisk |-> FALSE]

------------------------------------------------------------------------------
(* IngestPlan.                                                              *)

EmptyPlan(vendor) ==
  [vendor |-> vendor, instruments |-> <<>>, book |-> <<>>, trades |-> <<>>,
   funding |-> <<>>, references |-> <<>>, resolutions |-> <<>>]

RecordStreams == {"book", "trades", "funding", "references"}

IsTrade(record) == record.event.kind = "trade"

\* plan_from_archive: the files of the wanted hours and coins, in name order.
\* A coin that was seen but not described is an error.
PlanFromArchive(spec, files, contexts, universe) ==
  LET wanted(coin) == spec.coins = {} \/ coin \in spec.coins
      picked  == SelectSeq(files, LAMBDA f : wanted(f.coin) /\ f.hour \in spec.hours)
      read    == [i \in DOMAIN picked |-> ReadArchive(picked[i].lines)]
      records == FlattenSeq([i \in DOMAIN read |-> read[i].records])
      marks   == IF spec.contexts THEN AssetContextRecords(contexts, spec.coins) ELSE <<>>
      seen    == {picked[i].coin : i \in {j \in DOMAIN read : read[j].records # <<>>}}
                 \cup {marks[i].instrument[1] : i \in DOMAIN marks}
      known   == SelectSeq(universe, LAMBDA a : a.name \in seen)
  IN  [ok      |-> seen \subseteq {universe[i].name : i \in DOMAIN universe},
       missing |-> spec.coins \ seen,
       plan    |-> [EmptyPlan("hyperliquid") EXCEPT
                      !.instruments = [i \in DOMAIN known |-> AssetInstrument(known[i])],
                      !.book   = StableByTime(SelectSeq(records, LAMBDA r : ~IsTrade(r))),
                      !.trades = StableByTime(SelectSeq(records, IsTrade)),
                      !.references = marks]]

\* IngestPlan::validate: each stream in time order, every record's instrument
\* known unless the plan carries no instruments at all.
Validate(plan) ==
  LET known == {plan.instruments[i].id : i \in DOMAIN plan.instruments}
  IN  \A s \in RecordStreams :
        /\ InTimeOrder(plan[s])
        /\ known # {} => \A i \in DOMAIN plan[s] : plan[s][i].instrument \in known

\* IngestPlan::digest: what is hashed, taken as injective.  Of an instrument
\* only its name, outcome count, tick and flag.
Digest(plan) ==
  << plan.vendor,
     [i \in DOMAIN plan.instruments |->
        LET k == plan.instruments[i] IN <<k.id, k.outcomes, k.tick, k.negRisk>>],
     plan.book, plan.trades, plan.funding, plan.references, plan.resolutions >>

IsEmpty(plan) == plan.instruments = <<>> /\ \A s \in RecordStreams : plan[s] = <<>>

==============================================================================
