------------------------------- MODULE Backtest -------------------------------
(***************************************************************************)
(* The backtest engine of h5i-db-backtest (engine.rs): one replayed record *)
(* at a time, in the fixed order of Engine::step, with the strategy called *)
(* back in the middle of it.                                               *)
(*                                                                         *)
(* A callback only queues commands and the engine drains the queue when it *)
(* returns; draining runs no strategy code and matches nothing, so a       *)
(* callback is a "turn" in which any commands of the setup are applied one *)
(* after the other.  The turn that matters is on_fill: it is taken between *)
(* two fills of one walk, or between two orders one print reaches, so      *)
(* whatever the matcher collected before it may be stale after it.         *)
(*                                                                         *)
(* A run of the engine is fixed by its setup: the instruments, the margin  *)
(* and fill models, the latency, and the finite menus of records the feed  *)
(* may hold and of commands the strategy may issue.  The setups are a      *)
(* constant, and a behaviour chooses one.                                  *)
(***************************************************************************)
EXTENDS OrderBook, FiniteSets

CONSTANTS Setups,   \* the engines to run, each with the bounds of its run:
                    \* length, of the replay, and commands, of the strategy
          Allowed   \* of Hazardous, what the strategy may also do

(***************************************************************************)
(* What a strategy may do that breaks the properties below, as the README  *)
(* tells: cancel, from on_fill, an order the matcher has collected; raise  *)
(* the size of a live sell; redeem under pending sells, or sell by TWAP;   *)
(* sell reduce-only what another order also sells; send a market order     *)
(* good til cancelled.                                                     *)
(***************************************************************************)
Hazardous == {"cancel held", "grow", "unbacked", "reduce only", "market gtc"}

ASSUME AllowedAssumption == Allowed \subseteq Hazardous

VARIABLES setup,    \* the chosen setup
          now,      \* clock.now()
          e,        \* the engine's trading state, see Init
          pc,       \* the phase of Engine::step
          record,   \* the record being replayed
          todo,     \* what the phase has still to do, decided when it began
          sides,    \* passive sides the print has still to work through
          print,    \* size left of the print
          held,     \* the order the matcher holds, and its fills to come
          turn,     \* the strategy callback in progress
          seen,     \* records replayed
          spent     \* commands issued

vars == <<setup, now, e, pc, record, todo, sides, print, held, turn, seen, spent>>

------------------------------------------------------------------------------
(* Names of the setup.                                                      *)

Markets == Range(setup.markets)

Instruments == {setup.instrument[m] : m \in Markets}

MarketsOf(i) == SelectSeq(setup.markets, LAMBDA m : setup.instrument[m] = i)

SumOver(Value(_), ms) == FoldLeft(LAMBDA sum, m : sum + Value(m), 0, ms)

Funded == setup.kind \in {"prediction", "spot"}

------------------------------------------------------------------------------
(* Orders.                                                                  *)

Terminal == {"filled", "cancelled", "rejected"}

IsOpen(o) == o.status \notin Terminal

Remaining(o) == o.quantity - o.filled

NoTrigger == [direction |-> "none", price |-> 0]

\* Trigger::fires_at; an absent mark fires nothing.
FiresAt(trigger, price) ==
  /\ price # 0
  /\ \/ trigger.direction = "above" /\ price >= trigger.price
     \/ trigger.direction = "below" /\ price <= trigger.price

\* Order::new, for the market orders the engine itself creates.
EngineOrder(m, side, quantity, reduce) ==
  [market |-> m, side |-> side, limit |-> 0, quantity |-> quantity, filled |-> 0,
   tif |-> "ioc", reduce |-> reduce, post |-> FALSE, trigger |-> NoTrigger,
   status |-> "accepted"]

SetStatus(en, id, status) == [en EXCEPT !.orders[id].status = status]

SplitOrder(ratio, o) ==
  [o EXCEPT !.quantity = SplitQuantity(ratio, @),
            !.limit = SplitPrice(ratio, @),
            !.trigger.price = SplitPrice(ratio, @)]

------------------------------------------------------------------------------
(* The resting orders: a list, and an index of it by market, side and price *)
(* through which matching finds them.                                       *)

IndexEntry(o, id) == [market |-> o.market, side |-> o.side, limit |-> o.limit, id |-> id]

RemoveResting(en, id) ==
  [en EXCEPT !.index = @ \ {IndexEntry(en.orders[id], id)},
             !.resting = SelectSeq(@, LAMBDA r : r # id),
             !.ahead = [r \in DOMAIN @ \ {id} |-> @[r]]]

PruneResting(en) ==
  LET closed == SelectSeq(en.resting, LAMBDA id : ~IsOpen(en.orders[id]))
  IN  FoldLeft(RemoveResting, en, closed)

\* The back of the queue displayed at the order's price, once.
JoinQueue(en, id) ==
  LET o == en.orders[id]
  IN  IF ~setup.queue \/ id \in DOMAIN en.ahead \/ o.limit = 0 THEN en
      ELSE [en EXCEPT !.ahead =
              (id :> QuantityAt(en.book[o.market], o.side, o.limit)) @@ @]

AddResting(en, id) ==
  IF id \in Range(en.resting) THEN en
  ELSE LET joined == JoinQueue(en, id)
       IN  [joined EXCEPT !.index = @ \cup {IndexEntry(en.orders[id], id)},
                          !.resting = Append(@, id)]

Close(en, id, status) ==
  RemoveResting(IF IsOpen(en.orders[id]) THEN SetStatus(en, id, status) ELSE en, id)

\* What becomes of an order the book could not finish: the end of try_fill,
\* and no_liquidity.
Settle(en, id) ==
  LET o == en.orders[id]
  IN  IF ~IsOpen(o) THEN en
      ELSE IF o.tif \in {"ioc", "fok"} THEN Close(en, id, "cancelled")
      ELSE IF o.limit # 0 THEN AddResting(en, id)
      ELSE en

------------------------------------------------------------------------------
(* Whether a market still trades.                                           *)

HasExpired(i) == now >= setup.expiry[i]

StoppedTrading(en, i) == HasExpired(i) \/ i \in en.delisted

Stopped(en, id) == StoppedTrading(en, setup.instrument[en.orders[id].market])

------------------------------------------------------------------------------
(* Margin.                                                                  *)

OpenMarkets(en, ms) == SelectSeq(ms, LAMBDA m : en.position[m].quantity # 0)

CrossMarkets(en) ==
  OpenMarkets(en, SelectSeq(setup.markets,
                            LAMBDA m : setup.instrument[m] \notin setup.isolated))

InitialMargin(quantity, price) == Requirement(setup.initialRate, quantity, price)

MaintenanceMargin(en, m) ==
  Requirement(setup.maintenanceRate, en.position[m].quantity, en.mark[m])

\* What an open position adds to the account: a funded one was paid for out
\* of cash and is worth its exposure, an unfunded one only its profit.
ValueOf(en, m) ==
  IF Funded THEN Exposure(en.position[m], en.mark[m])
  ELSE UnrealizedPnl(en.position[m], en.mark[m])

MarginState(en) ==
  LET cross    == CrossMarkets(en)
      marked   == SelectSeq(cross, LAMBDA m : en.mark[m] # 0)
      equity   == en.cash + SumOver(LAMBDA m : ValueOf(en, m), marked)
      initial  == SumOver(LAMBDA m : InitialMargin(en.position[m].quantity, en.mark[m]), marked)
      required == SumOver(LAMBDA m : MaintenanceMargin(en, m), marked)
      partial  == marked # cross
  IN  [equity |-> equity, initial |-> initial, maintenance |-> required,
       incomplete |-> partial,
       liquidatable |-> ~partial /\ required # 0 /\ equity < required]

\* What push_equity reports: collateral parked in a bucket is still the
\* account's; a position without a mark is left out.
Equity(en) ==
  LET marked == SelectSeq(OpenMarkets(en, setup.markets), LAMBDA m : en.mark[m] # 0)
  IN  en.cash + FoldSet(LAMBDA i, sum : sum + en.bucket[i], 0, Instruments)
        + SumOver(LAMBDA m : ValueOf(en, m), marked)

CanFund(en, id) ==
  LET o     == en.orders[id]
      state == MarginState(en)
  IN  \/ ~setup.margin \/ state.incomplete \/ en.mark[o.market] = 0
      \/ state.equity - state.initial >= InitialMargin(Remaining(o), en.mark[o.market])

\* Mutant: the whole requirement is posted again instead of the difference.
RebalanceIsolatedAgain(en, i) ==
  IF i \notin setup.isolated \/ ~setup.margin THEN en
  ELSE LET required == SumOver(LAMBDA m : InitialMargin(en.position[m].quantity,
                                                        en.position[m].average),
                               OpenMarkets(en, MarketsOf(i)))
       IN  [en EXCEPT !.cash = @ - required, !.bucket[i] = required]

\* An isolated instrument's bucket holds the initial margin of its positions
\* at their entry prices, moved out of and back into cash.
RebalanceIsolated(en, i) ==
  IF i \notin setup.isolated \/ ~setup.margin THEN en
  ELSE LET required == SumOver(LAMBDA m : InitialMargin(en.position[m].quantity,
                                                        en.position[m].average),
                               OpenMarkets(en, MarketsOf(i)))
       IN  [en EXCEPT !.cash = @ - (required - en.bucket[i]), !.bucket[i] = required]

------------------------------------------------------------------------------
(* Fills.                                                                   *)

\* A fill the order has no room for is an error that ends the run.
Overfills(en, id, quantity) == en.orders[id].filled + quantity > en.orders[id].quantity

\* book_fill, up to on_fill: position, cash, bucket, order, resting list.
\* flow and rounding are not in the code: the cash the fills moved, and a
\* bound on what rounding average prices down has cost.
BookFill(en, id, price, quantity, commission) ==
  LET o       == en.orders[id]
      before  == en.position[o.market]
      after   == ApplyFill(before, o.side, price, quantity, commission)
      paid    == -(Sign(o.side) * price * quantity) - commission
      moved   == IF Funded THEN paid ELSE after.realized - before.realized
      booked  == RebalanceIsolated(
                   [en EXCEPT !.position[o.market] = after, !.cash = @ + moved,
                              !.flow = @ + paid, !.rounding = @ + Abs(after.quantity),
                              !.traded[o.market] = @ + quantity],
                   setup.instrument[o.market])
      filled  == o.filled + quantity
      stamped == [booked EXCEPT
                    !.orders[id].filled = filled,
                    !.orders[id].status = IF filled = o.quantity THEN "filled"
                                          ELSE "partial"]
  IN  IF filled = o.quantity THEN RemoveResting(stamped, id) ELSE stamped

\* FillModel::book_for_fill: TickSlippage moves the book away from the taker.
BookForFill(en, o) ==
  LET book      == en.book[o.market]
      Shift(levels, by) == [p \in {q + by : q \in DOMAIN levels} |-> levels[p - by]]
  IN  IF setup.slippage = 0 THEN book
      ELSE IF o.side = "buy" THEN [book EXCEPT !.asks = Shift(@, setup.slippage)]
      ELSE [book EXCEPT !.bids = Shift(@, -setup.slippage)]

\* try_fill, up to the first fill: the state after the early returns, and
\* the fills of the walk.  Without any, the order is settled at once.
StartFill(en, id) ==
  LET o        == en.orders[id]
      quantity == en.position[o.market].quantity
      closable == Max({0, IF o.side = "buy" THEN -quantity ELSE quantity})
      wanted   == IF o.reduce THEN Min({Remaining(o), closable}) ELSE Remaining(o)
      walk     == Walk(BookForFill(en, o), o.side, wanted, o.limit)
      Done(state) == [e |-> state, fills |-> <<>>]
  IN  CASE ~IsOpen(o) \/ o.status = "inflight"  -> Done(en)
        [] Stopped(en, id)                      -> Done(Close(en, id, "rejected"))
        [] en.book[o.market].status = "none"    -> Done(Settle(en, id))
        [] o.reduce /\ wanted = 0               -> Done(Close(en, id, "cancelled"))
        [] o.tif = "fok" /\ walk.left > 0       -> Done(Close(en, id, "cancelled"))
        [] walk.fills = <<>>                    -> Done(Settle(en, id))
        [] OTHER                                -> [e |-> en, fills |-> walk.fills]

NoOrder == [kind |-> "none", id |-> 0, fills |-> <<>>]

\* Hand the order to the matcher: it holds it until the walk is over.
TryFill(en, id) ==
  LET start == StartFill(en, id)
  IN  /\ e' = start.e
      /\ held' = [kind |-> "walk", id |-> id, fills |-> start.fills]

\* The engine's own market order, created accepted and matched at once.
SendMarket(en, m, side, quantity, reduce) ==
  TryFill([en EXCEPT !.orders = Append(@, EngineOrder(m, side, quantity, reduce))],
          Len(en.orders) + 1)

------------------------------------------------------------------------------
(* What a record does to the venue.                                         *)

\* The effective mark: the venue's own where the setup reads it and it is
\* published, what the book says otherwise.
EffectiveMark(en, m) ==
  IF setup.venueMarks /\ en.venueMark[m] # 0 THEN en.venueMark[m] ELSE en.bookMark[m]

RefreshMark(en, m) ==
  IF EffectiveMark(en, m) = 0 THEN en ELSE [en EXCEPT !.mark[m] = EffectiveMark(en, m)]

SetBookMark(en, m, price) == RefreshMark([en EXCEPT !.bookMark[m] = price], m)

\* Stop trading what the clock has passed: its resting orders are cancelled.
\* Orders parked on a trigger or in flight are not looked at.
ExpireDue(en) ==
  LET due    == {i \in Instruments : HasExpired(i)} \ en.expired
      doomed == SelectSeq(en.resting,
                          LAMBDA id : setup.instrument[en.orders[id].market] \in due)
      Cancel(state, id) == Close(state, id, "cancelled")
  IN  [FoldLeft(Cancel, en, doomed) EXCEPT !.expired = @ \cup due]

\* Each position pays rate * exposure, valued at the oracle if there is one.
ApplyFunding(en, i, rate) ==
  LET price(m) == IF en.oracle[m] # 0 THEN en.oracle[m] ELSE en.mark[m]
      payment == SumOver(LAMBDA m : Fraction(rate, Exposure(en.position[m], price(m))),
                         MarketsOf(i))
  IN  [en EXCEPT !.cash = @ - payment, !.income = @ - payment]

ApplyDividend(en, i, perShare) ==
  LET due == SumOver(LAMBDA m : perShare * en.position[m].quantity, MarketsOf(i))
  IN  [en EXCEPT !.cash = @ + due, !.income = @ + due]

\* A split moves positions, orders wherever they wait, books and every price
\* series; not what was filled, the queue ahead, or a TWAP's size.
ApplyCorporateSplit(en, i, ratio) ==
  LET ms      == Range(MarketsOf(i))
      waiting == {id \in DOMAIN en.orders :
                    /\ en.orders[id].market \in ms
                    /\ \/ id \in Range(en.resting) \cup Range(en.parked)
                       \/ id \in en.live /\ en.orders[id].status = "inflight"}
      orders  == [id \in DOMAIN en.orders |->
                    IF id \in waiting THEN SplitOrder(ratio, en.orders[id])
                    ELSE en.orders[id]]
      Quoted(series) == [m \in Markets |->
                           IF m \in ms THEN SplitPrice(ratio, series[m]) ELSE series[m]]
  IN  [en EXCEPT
         !.orders = orders,
         !.index = {IndexEntry(orders[x.id], x.id) : x \in @},
         !.position = [m \in Markets |->
                         IF m \in ms THEN SplitPosition(ratio, @[m]) ELSE @[m]],
         !.book = [m \in Markets |-> IF m \in ms THEN ApplySplit(ratio, @[m]) ELSE @[m]],
         !.mark = Quoted(@), !.bookMark = Quoted(@),
         !.venueMark = Quoted(@), !.oracle = Quoted(@)]

\* Every open position is cashed out at the stated price; no callback.
ApplyDelist(en, i, price) ==
  LET CashOut(state, m) ==
        LET quantity == state.position[m].quantity
            side     == IF quantity > 0 THEN "sell" ELSE "buy"
            ordered  == [state EXCEPT !.orders =
                           Append(@, EngineOrder(m, side, Abs(quantity), FALSE))]
        IN  BookFill(ordered, Len(ordered.orders), price, Abs(quantity), 0)
  IN  [FoldLeft(CashOut, en, OpenMarkets(en, MarketsOf(i))) EXCEPT !.delisted = @ \cup {i}]

Corporate == {"split", "dividend", "delist"}

\* An incremental update needs a fresh book; without one the run ends.
BookGap(en, r) == r.event = "delta" /\ en.book[r.market].status # "fresh"

ApplyToBooks(en, r) ==
  LET m == r.market
      i == setup.instrument[m]
      touched == r.event \in Corporate \cup {"snapshot", "delta", "gap"}
      applied ==
        CASE r.event = "snapshot" -> [en EXCEPT !.book[m] = ApplySnapshot(r.bids, r.asks)]
          [] r.event = "delta"    -> [en EXCEPT !.book[m] = ApplyDelta(@, r.side, r.price, r.size)]
          [] r.event = "gap"      -> [en EXCEPT !.book[m] = MarkGap]
          [] r.event \in {"trade", "bar"} -> SetBookMark(en, m, r.price)
          [] r.event = "reference" ->
               [en EXCEPT !.venueMark[m] = IF r.mark # 0 THEN r.mark ELSE @,
                          !.oracle[m] = IF r.oracle # 0 THEN r.oracle ELSE @]
          [] r.event = "funding"  -> ApplyFunding(en, i, r.rate)
          [] r.event = "split"    -> ApplyCorporateSplit(en, i, r.ratio)
          [] r.event = "dividend" -> ApplyDividend(en, i, r.perShare)
          [] r.event = "delist"   -> ApplyDelist(en, i, r.price)
      \* any record for a market makes it a book, if only an empty one
      opened == IF applied.book[m].status = "none"
                THEN [applied EXCEPT !.book[m].status = "empty"] ELSE applied
  IN  IF touched /\ Mid(opened.book[m]) # 0 THEN SetBookMark(opened, m, Mid(opened.book[m]))
      ELSE RefreshMark(opened, m)

------------------------------------------------------------------------------
(* What the strategy commands, applied in the order it was issued.          *)

\* The shape of the request alone.
OrderRefusal(r) ==
  \/ r.limit % setup.tick # 0
  \/ setup.kind = "prediction" /\ r.limit > Scale
  \/ r.post /\ r.limit = 0

\* What the market's open orders of a side, from the given ids, may still fill.
PendingOf(en, r, side, ids) ==
  FoldSet(LAMBDA id, sum : sum + Remaining(en.orders[id]), 0,
          {id \in ids : /\ IsOpen(en.orders[id])
                        /\ en.orders[id].side = side
                        /\ en.orders[id].market = r.market})

\* Mutant: the sell is measured against the inventory alone.
NakedShortRejectionAlone(en, r) ==
  /\ setup.kind = "prediction" /\ r.side = "sell" /\ ~r.reduce
  /\ en.position[r.market].quantity - r.quantity < 0

\* A prediction-market contract cannot be borrowed: a sell has to be covered
\* even if every other live sell fills first.
NakedShortRejection(en, r) ==
  /\ setup.kind = "prediction" /\ r.side = "sell" /\ ~r.reduce
  /\ en.position[r.market].quantity
       - PendingOf(en, r, "sell", {id \in en.live : ~en.orders[id].reduce}) - r.quantity < 0

\* Either side may fill without the other: both extremes are checked.
RiskRejection(en, r) ==
  LET quantity == en.position[r.market].quantity
      pending(side) == PendingOf(en, r, side, en.live)
                         + (IF r.side = side THEN r.quantity ELSE 0)
      open == {id \in en.live : IsOpen(en.orders[id])}
  IN  \/ r.quantity > setup.maxOrder
      \/ Cardinality(open) >= setup.maxOpen
      \/ Max({Abs(quantity + pending("buy")), Abs(quantity - pending("sell"))})
           > setup.maxPosition

NewOrder(r) ==
  [market |-> r.market, side |-> r.side, limit |-> r.limit, quantity |-> r.quantity,
   filled |-> 0, tif |-> r.tif, reduce |-> r.reduce, post |-> r.post,
   trigger |-> r.trigger, status |-> "inflight"]

Accept(en, r) ==
  LET id      == Len(en.orders) + 1
      pruned  == [en EXCEPT !.live = {o \in @ : IsOpen(en.orders[o])}]
      refused == \/ OrderRefusal(r)
                 \/ StoppedTrading(en, setup.instrument[r.market])
                 \/ NakedShortRejection(pruned, r) \/ RiskRejection(pruned, r)
  IN  IF refused
      THEN [pruned EXCEPT !.orders = Append(@, [NewOrder(r) EXCEPT !.status = "rejected"])]
      ELSE [pruned EXCEPT !.orders = Append(@, NewOrder(r)),
                          !.inflight = Append(@, [at |-> now + setup.latency,
                                                  id |-> id, set |-> <<>>]),
                          !.live = @ \cup {id}]

CancelOrder(en, id) == IF IsOpen(en.orders[id]) THEN Close(en, id, "cancelled") ELSE en

\* An amendment the venue would not parse ends the run.
AmendInvalid(en, id, quantity, limit) ==
  LET o == en.orders[id]
  IN  IsOpen(o) /\ (limit % setup.tick # 0 \/ (quantity # 0 /\ quantity < o.filled))

\* Mutant: a repriced order stays filed under its old price.
AmendOrderNotRefiled(en, id, quantity, limit) ==
  LET o == en.orders[id]
  IN  IF ~IsOpen(o) THEN en
      ELSE [en EXCEPT !.orders[id].limit = IF limit # 0 THEN limit ELSE @,
                      !.orders[id].quantity = IF quantity # 0 THEN quantity ELSE @]

\* A new price or a larger size goes to the back of the queue, measured on
\* the book as it stands now; a smaller size keeps its place.
AmendOrder(en, id, quantity, limit) ==
  LET o       == en.orders[id]
      updated == [o EXCEPT !.limit = IF limit # 0 THEN limit ELSE @,
                           !.quantity = IF quantity # 0 THEN quantity ELSE @]
      loses   == updated.limit # o.limit \/ updated.quantity > o.quantity
      resting == id \in Range(en.resting)
      stored  == [en EXCEPT !.orders[id] = updated]
      requeued == JoinQueue([stored EXCEPT !.ahead = [x \in DOMAIN @ \ {id} |-> @[x]]], id)
  IN  IF ~IsOpen(o) THEN en
      ELSE IF ~loses THEN stored
      ELSE IF ~resting THEN requeued
      ELSE [requeued EXCEPT !.index = (@ \ {IndexEntry(o, id)})
                                        \cup {IndexEntry(updated, id)}]

QueueSetOperation(en, request) ==
  [en EXCEPT !.inflight = Append(@, [at |-> now + setup.latency, id |-> 0,
                                     set |-> request])]

StartTwap(en, r) ==
  [en EXCEPT !.twaps = Append(@, [market |-> r.market, side |-> r.side,
                                  quantity |-> r.quantity, reduce |-> r.reduce,
                                  slices |-> r.slices, interval |-> r.interval,
                                  sent |-> 0, worked |-> 0, next |-> now])]

------------------------------------------------------------------------------
(* The phases of Engine::step.  A phase decides what it will do when it     *)
(* begins, and does it one order at a time.                                 *)

Ready == turn = "none" /\ held.fills = <<>>

Working(phase) == pc = phase /\ Ready /\ todo # <<>>

Over(phase) == pc = phase /\ Ready /\ todo = <<>>

\* The next record: the clock moves, and the timers due fire before it.
Record(r, ts) ==
  /\ pc = "idle" /\ turn = "none" /\ seen < setup.length
  /\ now' = ts /\ record' = r /\ pc' = "timers" /\ seen' = seen + 1
  /\ todo' = SelectSeq(e.timers, LAMBDA at : at <= ts)
  /\ e' = [e EXCEPT !.timers = SelectSeq(@, LAMBDA at : at > ts)]
  /\ UNCHANGED <<setup, sides, print, held, turn, spent>>

FireTimer ==
  /\ Working("timers")
  /\ todo' = Tail(todo) /\ turn' = "on_timer"
  /\ UNCHANGED <<setup, now, e, pc, record, sides, print, held, seen, spent>>

\* The passive sides a print works through: one without a stated aggressor
\* works neither, or both under the optimistic model.
PassiveSides ==
  IF ~setup.queue \/ record.event # "trade" THEN <<>>
  ELSE IF record.aggressor # "none" THEN <<Opposite(record.aggressor)>>
  ELSE IF setup.optimistic THEN <<"buy", "sell">> ELSE <<>>

Arrive ==
  /\ Over("timers")
  /\ LET expired == ExpireDue(e)
     IN  IF BookGap(expired, record)
         THEN pc' = "failed" /\ e' = expired /\ sides' = <<>>
         ELSE pc' = "print" /\ e' = ApplyToBooks(expired, record) /\ sides' = PassiveSides
  /\ UNCHANGED <<setup, now, record, todo, print, held, turn, seen, spent>>

\* The resting orders a print reaches, best price first, then by age.
ReachedByTrade(en, side) ==
  LET reached == {x \in en.index :
                    /\ x.market = record.market /\ x.side = side
                    /\ IF side = "buy" THEN x.limit >= record.price
                       ELSE x.limit <= record.price}
      Before(x, y) == \/ IF side = "buy" THEN x.limit > y.limit ELSE x.limit < y.limit
                      \/ x.limit = y.limit /\ x.id < y.id
  IN  SetToSortSeq(reached, Before)

BeginPrint ==
  /\ Over("print") /\ sides # <<>>
  /\ LET pruned == PruneResting(e)
     IN  e' = pruned /\ todo' = ReachedByTrade(pruned, Head(sides))
  /\ print' = record.size /\ sides' = Tail(sides)
  /\ UNCHANGED <<setup, now, pc, record, held, turn, seen, spent>>

DropAhead(en, id) ==
  IF IsOpen(en.orders[id]) THEN en
  ELSE [en EXCEPT !.ahead = [x \in DOMAIN @ \ {id} |-> @[x]]]

\* consume_queue_side, one order: the print first eats the queue ahead of
\* it, then fills it at its own limit, then goes on with what is left.
ConsumeQueue ==
  /\ Working("print")
  /\ LET id    == Head(todo).id
         ahead == IF id \in DOMAIN e.ahead THEN e.ahead[id] ELSE 0
         eaten == Min({print, ahead})
         size  == Min({print - eaten, Remaining(e.orders[id])})
         moved == [e EXCEPT !.ahead = (id :> ahead - eaten) @@ @]
     IN  /\ print' = print - eaten - size
         /\ todo' = IF print' = 0 THEN <<>> ELSE Tail(todo)
         /\ IF size > 0
            THEN /\ e' = BookFill(moved, id, Head(todo).limit, size, 0)
                 /\ held' = [kind |-> "print", id |-> id, fills |-> <<>>]
                 /\ turn' = "on_fill"
            ELSE /\ e' = IF print = eaten THEN moved ELSE DropAhead(moved, id)
                 /\ UNCHANGED <<held, turn>>
  /\ UNCHANGED <<setup, now, pc, record, sides, seen, spent>>

\* The resting orders the new book may fill: those the index says it
\* crosses, all of the market under a model that synthesises prices, all of
\* the instrument on a corporate action.
MatchCandidates(en) ==
  LET book    == en.book[record.market]
      here    == {x \in en.index : x.market = record.market}
      crossed == {x \in here :
                    \/ x.side = "buy" /\ BestAsk(book) # 0 /\ x.limit >= BestAsk(book)
                    \/ x.side = "sell" /\ BestBid(book) # 0 /\ x.limit <= BestBid(book)}
      ids     == {x.id : x \in IF setup.slippage = 0 THEN crossed ELSE here}
  IN  IF record.event \in Corporate
      THEN SelectSeq(en.resting, LAMBDA id :
             setup.instrument[en.orders[id].market] = setup.instrument[record.market])
      ELSE SetToSortSeq(ids, <)

BeginMatch ==
  /\ Over("print") /\ sides = <<>>
  /\ LET pruned == PruneResting(e)
     IN  e' = pruned /\ todo' = MatchCandidates(pruned)
  /\ pc' = "match"
  /\ UNCHANGED <<setup, now, record, sides, print, held, turn, seen, spent>>

MatchResting ==
  /\ Working("match")
  /\ TryFill(e, Head(todo)) /\ todo' = Tail(todo)
  /\ UNCHANGED <<setup, now, pc, record, sides, print, turn, seen, spent>>

\* The cross margin call: marked positions of markets that still trade, the
\* largest requirement first.
Doomed(en) ==
  LET callable == {m \in Range(CrossMarkets(en)) :
                     en.mark[m] # 0 /\ ~StoppedTrading(en, setup.instrument[m])}
      Place(m) == CHOOSE k \in DOMAIN setup.markets : setup.markets[k] = m
      Before(m, n) == \/ MaintenanceMargin(en, m) > MaintenanceMargin(en, n)
                      \/ /\ MaintenanceMargin(en, m) = MaintenanceMargin(en, n)
                         /\ Place(m) < Place(n)
      inOrder == SetToSortSeq(callable, Before)
  IN  IF ~setup.margin \/ ~MarginState(en).liquidatable THEN <<>>
      ELSE [k \in DOMAIN inOrder |->
              [market |-> inOrder[k], quantity |-> en.position[inOrder[k]].quantity]]

BeginLiquidation ==
  /\ Over("match")
  /\ LET pruned == PruneResting(e) IN e' = pruned /\ todo' = Doomed(pruned)
  /\ pc' = "cross"
  /\ UNCHANGED <<setup, now, record, sides, print, held, turn, seen, spent>>

\* Under the partial policy, the lots whose requirement covers the shortfall.
ClosingSize(en, x) ==
  LET state == MarginState(en)
      need  == state.maintenance - state.equity
      size  == Abs(x.quantity)
      full  == Requirement(setup.maintenanceRate, x.quantity, en.mark[x.market])
      exact == Min({size, (need * size) \div full})
      lots  == ((exact + setup.lot - 1) \div setup.lot) * setup.lot
  IN  IF setup.policy = "all" THEN size
      ELSE IF need <= 0 \/ full <= 0 THEN 0 ELSE Min({size, lots})

CheckLiquidation ==
  /\ Working("cross")
  /\ LET x    == Head(todo)
         side == IF x.quantity > 0 THEN "sell" ELSE "buy"
         size == ClosingSize(e, x)
         healthy == setup.policy = "partial" /\ ~MarginState(e).liquidatable
     IN  /\ todo' = IF healthy THEN <<>> ELSE Tail(todo)
         /\ IF healthy \/ size = 0 THEN UNCHANGED <<e, held>>
            ELSE SendMarket(e, x.market, side, size, FALSE)
  /\ UNCHANGED <<setup, now, pc, record, sides, print, turn, seen, spent>>

\* An isolated instrument is called against its own bucket alone.
IsolatedCalls(en) ==
  LET marked(i) == SelectSeq(OpenMarkets(en, MarketsOf(i)), LAMBDA m : en.mark[m] # 0)
      equity(i) == en.bucket[i]
                     + SumOver(LAMBDA m : UnrealizedPnl(en.position[m], en.mark[m]), marked(i))
      called == {i \in setup.isolated :
                   /\ ~StoppedTrading(en, i)
                   /\ equity(i) < SumOver(LAMBDA m : MaintenanceMargin(en, m), marked(i))}
      closing == SelectSeq(setup.markets, LAMBDA m :
                   setup.instrument[m] \in called /\ m \in Range(marked(setup.instrument[m])))
  IN  IF ~setup.margin THEN <<>>
      ELSE [k \in DOMAIN closing |->
              [market |-> closing[k], quantity |-> en.position[closing[k]].quantity]]

BeginIsolated ==
  /\ Over("cross")
  /\ todo' = IsolatedCalls(e) /\ pc' = "isolated"
  /\ UNCHANGED <<setup, now, e, record, sides, print, held, turn, seen, spent>>

CheckIsolatedLiquidation ==
  /\ Working("isolated")
  /\ LET x == Head(todo)
     IN  SendMarket(e, x.market, IF x.quantity > 0 THEN "sell" ELSE "buy",
                    Abs(x.quantity), FALSE)
  /\ todo' = Tail(todo)
  /\ UNCHANGED <<setup, now, pc, record, sides, print, turn, seen, spent>>

\* Parked orders the mark has reached; those no longer parked are dropped.
Fires(en, id) == FiresAt(en.orders[id].trigger, en.mark[en.orders[id].market])

BeginTriggers ==
  /\ Over("isolated")
  /\ LET parked == SelectSeq(e.parked, LAMBDA id : e.orders[id].status = "untriggered")
     IN  /\ todo' = SelectSeq(parked, LAMBDA id : Fires(e, id))
         /\ e' = [e EXCEPT !.parked = SelectSeq(parked, LAMBDA id : ~Fires(e, id))]
  /\ pc' = "triggers"
  /\ UNCHANGED <<setup, now, record, sides, print, held, turn, seen, spent>>

ArmTriggers ==
  /\ Working("triggers")
  /\ LET id == Head(todo)
     IN  TryFill([e EXCEPT !.orders[id].trigger = NoTrigger,
                           !.orders[id].status = "accepted"], id)
  /\ todo' = Tail(todo)
  /\ UNCHANGED <<setup, now, pc, record, sides, print, turn, seen, spent>>

\* The slice a TWAP is due: an equal share, and all that is left at the end.
Slice(t) ==
  IF t.sent >= t.slices \/ now < t.next THEN 0
  ELSE IF t.slices - t.sent <= 1 THEN t.quantity - t.worked
  ELSE t.quantity \div t.slices

WorkTwap(t) ==
  IF t.sent >= t.slices \/ now < t.next THEN t
  ELSE IF Slice(t) <= 0 THEN [t EXCEPT !.sent = t.slices]
  ELSE [t EXCEPT !.sent = @ + 1, !.worked = @ + Slice(t), !.next = @ + t.interval]

BeginTwaps ==
  /\ Over("triggers")
  /\ LET due == SelectSeq(e.twaps, LAMBDA t : Slice(t) > 0)
     IN  todo' = [k \in DOMAIN due |-> [twap |-> due[k], size |-> Slice(due[k])]]
  /\ e' = [e EXCEPT !.twaps = [k \in DOMAIN @ |-> WorkTwap(@[k])]]
  /\ pc' = "twaps"
  /\ UNCHANGED <<setup, now, record, sides, print, held, turn, seen, spent>>

WorkTwaps ==
  /\ Working("twaps")
  /\ LET x == Head(todo)
     IN  SendMarket(e, x.twap.market, x.twap.side, x.size, x.twap.reduce)
  /\ todo' = Tail(todo)
  /\ UNCHANGED <<setup, now, pc, record, sides, print, turn, seen, spent>>

OnEvent ==
  /\ Over("twaps")
  /\ pc' = "event" /\ turn' = "on_event"
  /\ UNCHANGED <<setup, now, e, record, todo, sides, print, held, seen, spent>>

\* The latency queue is first in, first out: the delay is constant.
BeginRelease ==
  /\ Over("event")
  /\ todo' = SelectSeq(e.inflight, LAMBDA x : x.at <= now)
  /\ e' = [e EXCEPT !.inflight = SelectSeq(@, LAMBDA x : x.at > now)]
  /\ pc' = "release"
  /\ UNCHANGED <<setup, now, record, sides, print, held, turn, seen, spent>>

EndRecord ==
  /\ Over("release")
  /\ pc' = "idle" /\ held' = NoOrder
  /\ UNCHANGED <<setup, now, e, record, todo, sides, print, turn, seen, spent>>

------------------------------------------------------------------------------
(* What reaches the venue once its latency has elapsed.                     *)

\* A post-only order is refused if it would take what the book shows now.
Crosses(en, o) ==
  LET book == en.book[o.market]
  IN  IF o.side = "buy" THEN BestAsk(book) # 0 /\ BestAsk(book) <= o.limit
      ELSE BestBid(book) # 0 /\ BestBid(book) >= o.limit

\* The first thing an order on the other side would reach.
RestsAtFront(en, o) ==
  LET book == en.book[o.market]
  IN  IF o.side = "buy" THEN BestBid(book) = 0 \/ o.limit >= BestBid(book)
      ELSE BestAsk(book) = 0 \/ o.limit <= BestAsk(book)

WouldSelfTrade(en, o) ==
  \E id \in Range(en.resting) :
    LET own == en.orders[id]
    IN  /\ own.market = o.market /\ own.side # o.side /\ IsOpen(own)
        /\ IF o.limit = 0 THEN RestsAtFront(en, own)
           ELSE IF o.side = "buy" THEN own.limit <= o.limit
           ELSE own.limit >= o.limit

\* Mutant: the latency queue's own copy of the order decides.
StillInFlightAsSent(en, id) == TRUE

StillInFlight(en, id) == en.orders[id].status = "inflight"

\* The order as the strategy has left it decides, not the one it sent: one
\* cancelled on the way never arrives.
ReleaseOrder ==
  /\ Working("release") /\ Head(todo).id # 0
  /\ LET id == Head(todo).id
         o  == e.orders[id]
         Refuse == e' = SetStatus(e, id, "rejected") /\ UNCHANGED held
         parks  == o.trigger # NoTrigger /\ ~Fires(e, id)
     IN  CASE ~StillInFlight(e, id)     -> UNCHANGED <<e, held>>
           [] Stopped(e, id)            -> Refuse
           [] o.post /\ Crosses(e, o)   -> Refuse
           [] parks                     ->
                /\ e' = [SetStatus(e, id, "untriggered") EXCEPT !.parked = Append(@, id)]
                /\ UNCHANGED held
           [] WouldSelfTrade(e, o)      -> Refuse
           [] ~CanFund(e, id)           -> Refuse
           [] OTHER -> TryFill([SetStatus(e, id, "accepted") EXCEPT
                                  !.orders[id].trigger = NoTrigger], id)
  /\ todo' = Tail(todo)
  /\ UNCHANGED <<setup, now, pc, record, sides, print, turn, seen, spent>>

\* Holding the NO side of k outcomes is k - 1 complete sets and a residual:
\* a conversion redeems those sets.
SetsOf(request) ==
  IF request.kind = "convert" THEN request.quantity * (request.named - 1)
  ELSE request.quantity

SetOperationRefused(en, request) ==
  LET sets == SetsOf(request)
      i == setup.instrument[setup.markets[1]]
  IN  \/ StoppedTrading(en, i)
      \/ request.kind = "mint" /\ en.cash < Scale * sets + setup.setCost
      \/ request.kind # "mint" /\ \E m \in Markets : en.position[m].quantity < sets

SetBasis(en) ==
  IF \A m \in Markets : en.mark[m] > 0
  THEN NormaliseToOne([k \in DOMAIN setup.markets |-> en.mark[setup.markets[k]]])
  ELSE UniformPrices(Len(setup.markets))

\* One fill per outcome, priced so that a set costs exactly one unit of cash;
\* the flat cost rides on the first leg.
SetLegs(en, request) ==
  LET basis == SetBasis(en)
  IN  [k \in DOMAIN setup.markets |->
         [market |-> setup.markets[k], price |-> basis[k],
          side |-> IF request.kind = "mint" THEN "buy" ELSE "sell",
          quantity |-> SetsOf(request),
          commission |-> IF k = 1 THEN setup.setCost ELSE 0]]

RunSetOperation ==
  /\ Working("release") /\ Head(todo).id = 0
  /\ held' = IF SetOperationRefused(e, Head(todo).set) THEN NoOrder
             ELSE [kind |-> "set", id |-> 0, fills |-> SetLegs(e, Head(todo).set)]
  /\ todo' = Tail(todo)
  /\ UNCHANGED <<setup, now, e, pc, record, sides, print, turn, seen, spent>>

------------------------------------------------------------------------------
(* The fills of the order the matcher holds, each followed by on_fill.      *)

ExecuteFill ==
  /\ turn = "none" /\ held.kind = "walk" /\ held.fills # <<>>
  /\ LET price == Head(held.fills)[1]
         size  == Head(held.fills)[2]
         fee   == IF e.orders[held.id].post THEN 0 ELSE setup.fee
     IN  IF Overfills(e, held.id, size)
         THEN /\ pc' = "failed" /\ held' = NoOrder
              /\ UNCHANGED <<e, turn>>
         ELSE /\ e' = BookFill(e, held.id, price, size, fee)
              /\ held' = [held EXCEPT !.fills = Tail(@)]
              /\ turn' = "on_fill"
              /\ UNCHANGED pc
  /\ UNCHANGED <<setup, now, record, todo, sides, print, seen, spent>>

BookSetLeg ==
  /\ turn = "none" /\ held.kind = "set" /\ held.fills # <<>>
  /\ LET leg     == Head(held.fills)
         ordered == [e EXCEPT !.orders =
                       Append(@, EngineOrder(leg.market, leg.side, leg.quantity, FALSE))]
     IN  e' = BookFill(ordered, Len(ordered.orders), leg.price, leg.quantity, leg.commission)
  /\ held' = [held EXCEPT !.fills = Tail(@)]
  /\ turn' = "on_fill"
  /\ UNCHANGED <<setup, now, pc, record, todo, sides, print, seen, spent>>

\* The callback returns; the matcher finishes the order it was filling.
Return ==
  /\ turn # "none"
  /\ turn' = "none"
  /\ e' = IF turn # "on_fill" THEN e
          ELSE IF held.kind = "print" THEN DropAhead(e, held.id)
          ELSE IF held.kind = "walk" /\ held.fills = <<>> THEN Settle(e, held.id)
          ELSE e
  /\ UNCHANGED <<setup, now, pc, record, todo, sides, print, held, seen, spent>>

------------------------------------------------------------------------------
(* The strategy's turn.                                                     *)

Turn ==
  /\ turn # "none" /\ spent < setup.commands
  /\ spent' = spent + 1
  /\ UNCHANGED <<setup, now, record, todo, sides, print, held, turn, seen>>

OpenSells == {id \in DOMAIN e.orders : e.orders[id].side = "sell" /\ IsOpen(e.orders[id])}

\* A redemption or conversion on its way, or with legs still to book.
RedeemPending ==
  LET arriving == e.inflight \o (IF pc = "release" THEN todo ELSE <<>>)
  IN  \/ \E k \in DOMAIN arriving : arriving[k].id = 0 /\ arriving[k].set.kind # "mint"
      \/ held.kind = "set" /\ \E k \in DOMAIN held.fills : held.fills[k].side = "sell"

Submit(r) ==
  /\ Turn
  /\ r.limit # 0 \/ r.tif # "gtc" \/ "market gtc" \in Allowed
  /\ (setup.kind = "prediction" /\ r.side = "sell") =>
       /\ ~r.reduce \/ "reduce only" \in Allowed
       /\ ~RedeemPending \/ "unbacked" \in Allowed
  /\ e' = Accept(e, r)
  /\ UNCHANGED pc

\* Whether the matcher has collected the order and will not look again; of a
\* stop that has fired and not been armed see OverIsOver.
Collected(id) ==
  turn = "on_fill" /\ \/ held.id = id
                      \/ pc = "print" /\ \E k \in DOMAIN todo : todo[k].id = id

Cancel(id) ==
  /\ Turn
  /\ IsOpen(e.orders[id])
  /\ ~Collected(id) \/ "cancel held" \in Allowed
  /\ e' = CancelOrder(e, id)
  /\ UNCHANGED pc

Amend(id, quantity, limit) ==
  /\ Turn
  /\ IsOpen(e.orders[id])
  /\ \/ quantity <= e.orders[id].quantity \/ "grow" \in Allowed
     \/ setup.kind # "prediction" \/ e.orders[id].side = "buy"
  /\ IF AmendInvalid(e, id, quantity, limit)
     THEN pc' = "failed" /\ UNCHANGED e
     ELSE e' = AmendOrder(e, id, quantity, limit) /\ UNCHANGED pc

SetOperation(request) ==
  /\ Turn
  /\ request.kind = "mint" \/ OpenSells = {} \/ "unbacked" \in Allowed
  /\ e' = QueueSetOperation(e, request)
  /\ UNCHANGED pc

Twap(r) ==
  /\ Turn
  /\ setup.kind # "prediction" \/ r.side = "buy" \/ "unbacked" \in Allowed
  /\ e' = StartTwap(e, r)
  /\ UNCHANGED pc

SetTimer(at) ==
  /\ Turn
  /\ e' = [e EXCEPT !.timers = SortSeq(Append(@, at), <)]
  /\ UNCHANGED pc

\* The replay is exhausted.
Stop ==
  /\ pc = "idle" /\ turn = "none" /\ seen = setup.length
  /\ pc' = "stopped" /\ turn' = "on_stop"
  /\ UNCHANGED <<setup, now, e, record, todo, sides, print, held, seen, spent>>

------------------------------------------------------------------------------

Init ==
  /\ setup \in Setups
  /\ now = 0
  /\ LET none == [m \in Markets |-> 0]
     IN  e = [book |-> [m \in Markets |-> NoBook], mark |-> none, bookMark |-> none,
              venueMark |-> none, oracle |-> none,
              position |-> [m \in Markets |-> Flat], cash |-> setup.cash,
              bucket |-> [i \in Instruments |-> 0], income |-> 0,
              orders |-> <<>>, resting |-> <<>>, index |-> {}, ahead |-> <<>>,
              inflight |-> <<>>, live |-> {}, parked |-> <<>>, twaps |-> <<>>,
              timers |-> <<>>, expired |-> {}, delisted |-> {},
              flow |-> 0, rounding |-> 0, traded |-> none]
  /\ pc = "idle" /\ record = [event |-> "none"] /\ todo = <<>> /\ sides = <<>>
  /\ print = 0 /\ held = NoOrder /\ turn = "on_start" /\ seen = 0 /\ spent = 0

Command ==
  \/ \E r \in setup.requests : Submit(r)
  \/ \E id \in DOMAIN e.orders : Cancel(id)
  \/ \E id \in DOMAIN e.orders, a \in setup.amends : Amend(id, a.quantity, a.limit)
  \/ \E request \in setup.sets : SetOperation(request)
  \/ \E r \in setup.twaps : Twap(r)
  \/ \E wait \in setup.timers : SetTimer(now + wait)

Next ==
  \/ \E r \in setup.records, wait \in {0, 1} : Record(r, now + wait)
  \/ FireTimer \/ Arrive
  \/ BeginPrint \/ ConsumeQueue
  \/ BeginMatch \/ MatchResting
  \/ BeginLiquidation \/ CheckLiquidation
  \/ BeginIsolated \/ CheckIsolatedLiquidation
  \/ BeginTriggers \/ ArmTriggers
  \/ BeginTwaps \/ WorkTwaps
  \/ OnEvent
  \/ BeginRelease \/ ReleaseOrder \/ RunSetOperation \/ EndRecord
  \/ ExecuteFill \/ BookSetLeg \/ Return
  \/ Command
  \/ Stop

Spec == Init /\ [][Next]_vars

------------------------------------------------------------------------------
(* Properties.                                                              *)

Status == {"inflight", "untriggered", "accepted", "partial"} \cup Terminal

\* The types of the engine's state: what waits names an order, sizes and
\* queue positions are not negative, and no order is filled past its size.
TypeOK ==
  /\ pc \in {"idle", "timers", "print", "match", "cross", "isolated", "triggers",
             "twaps", "event", "release", "stopped", "failed"}
  /\ turn \in {"none", "on_start", "on_timer", "on_fill", "on_event", "on_stop"}
  /\ print \in Nat
  /\ \A id \in DOMAIN e.orders :
       /\ e.orders[id].status \in Status
       /\ e.orders[id].filled \in 0..e.orders[id].quantity
  /\ Range(e.resting) \cup Range(e.parked) \cup e.live \subseteq DOMAIN e.orders
  /\ DOMAIN e.ahead \subseteq DOMAIN e.orders
  /\ \A id \in DOMAIN e.ahead : e.ahead[id] \in Nat

\* Every open order waits in exactly one place, between records: in the
\* latency queue, parked on its trigger, or resting, and then the price index
\* files it under its market, side and current limit, once; whatever rests is
\* open and, under a queue model, has a place in the queue; and a TWAP that is
\* over has worked its whole size.  An order in none of them would be matched
\* by nothing, one filed under an old price would be met at that price, one
\* without a place would be filled as if it were first.
Accounted ==
  pc = "idle" =>
    /\ \A id \in DOMAIN e.orders :
         LET o == e.orders[id]
         IN  IsOpen(o) =>
               \/ /\ o.status = "inflight"
                  /\ \E k \in DOMAIN e.inflight : e.inflight[k].id = id
               \/ o.status = "untriggered" /\ id \in Range(e.parked)
               \/ o.status \in {"accepted", "partial"} /\ id \in Range(e.resting)
    /\ e.index = {IndexEntry(e.orders[id], id) : id \in Range(e.resting)}
    /\ \A id \in Range(e.resting) :
         IsOpen(e.orders[id]) /\ e.orders[id].status \in {"accepted", "partial"}
    /\ IsInjective(e.resting)
    /\ setup.queue => Range(e.resting) \subseteq DOMAIN e.ahead
    /\ \A k \in DOMAIN e.twaps :
         LET t == e.twaps[k]
         IN  (t.sent = t.slices /\ t.quantity >= t.slices) => t.worked = t.quantity

\* A stop that fired together with one filled before it and was cancelled in
\* that fill: arm_triggers has its id in `ready` and accepts it all the same.
Revived(id) ==
  pc = "triggers" /\ todo # <<>> /\ id = Head(todo) /\ e.orders[id].status = "cancelled"

TerminalFinal ==
  \A id \in DOMAIN e.orders :
     ~IsOpen(e.orders[id]) /\ ~Revived(id) =>
       /\ e'.orders[id].status = e.orders[id].status
       /\ e'.orders[id].filled = e.orders[id].filled

NoTradeAfterClose ==
  \A m \in Markets :
     e'.traded[m] # e.traded[m] =>
       \/ ~StoppedTrading(e, setup.instrument[m])
       \/ record.event = "delist" /\ e'.position[m].quantity = 0

\* What is over stays over: an order that was filled, cancelled or rejected
\* keeps its status and is filled no further, wherever a copy of it still
\* waits, save that a stop cancelled from on_fill after it has fired is armed
\* nevertheless (engine.rs:1633-1641, README section 5); and no contract changes hands in a market that has stopped trading,
\* whichever of the five ways to a fill is taken, except the cash-out of a
\* delisting.
OverIsOver == [][TerminalFinal /\ NoTradeAfterClose]_vars

\* The equity the run reports is the cash it started with, what the fills
\* paid and received, funding and dividends, and the open positions at their
\* marks, but for what rounding average prices down has cost: funded and
\* collateralised positions, reversals, isolated buckets and set legs neither
\* create money nor lose it.
EquityExact ==
  LET open   == OpenMarkets(e, setup.markets)
      earned == setup.cash + e.flow + e.income
                  + SumOver(LAMBDA m : Exposure(e.position[m], e.mark[m]), open)
  IN  (\A m \in Range(open) : e.mark[m] # 0) => Abs(Equity(e) - earned) <= e.rounding

\* A prediction-market position is never short: a sell is only let through
\* when it is covered even if every other live sell fills first.
NeverShort ==
  setup.kind = "prediction" => \A m \in Markets : e.position[m].quantity >= 0

==============================================================================
