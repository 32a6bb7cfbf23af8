---------------------------- MODULE MCMarketStore ----------------------------
(* Instance of MarketStore: one Kalshi market of two price levels a side,   *)
(* one Hyperliquid coin beside a spot pair, one Polymarket question.        *)
EXTENDS MarketStore

Item(coin, time) == [coin |-> coin, time |-> time, price |-> 1, size |-> time,
                     bids |-> 1 :> time, asks |-> 2 :> 1]

Line(channel, known, quoted, numeric, sides, items) ==
  [channel |-> channel, known |-> known, quoted |-> quoted, numeric |-> numeric, sides |-> sides,
   items |-> items]

MCArchiveLines ==
  {Line("l2Book", None, TRUE, TRUE, 2, <<Item("BTC", 2)>>),
   Line("l2Book", 3, FALSE, TRUE, 2, <<Item("BTC", 1)>>),
   Line("l2Book", 3, TRUE, TRUE, 3, <<Item("BTC", 1)>>),
   Line("trades", 2, TRUE, TRUE, 0, <<Item("BTC", 3), Item("BTC", 1)>>),
   Line("trades", 1, FALSE, TRUE, 0, <<Item("BTC", 2), Item("none", 1)>>),
   Line("trades", 1, TRUE, FALSE, 0, <<Item("BTC", 2)>>),
   Line("trades", 1, TRUE, TRUE, 0, <<Item("none", 2), Item("BTC", 1)>>),
   Line("trades", 2, TRUE, TRUE, 0, <<Item("BTC", 3), Item("PURR/USDC", 1)>>),
   Line("trades", None, FALSE, TRUE, 0, <<Item("PURR/USDC", 1), Item("BTC", 2)>>),
   Line("subscriptionResponse", None, TRUE, TRUE, 0, <<>>)}

MCUniverse == << [name |-> "BTC", tick |-> 1, lot |-> 1], [name |-> "ETH", tick |-> 1, lot |-> 2] >>

MCArchived ==
  [PlanFromArchive([coins |-> {}, hours |-> {0}, contexts |-> TRUE],
                  << [coin |-> "BTC", hour |-> 0,
                      lines |-> <<Line("l2Book", None, TRUE, TRUE, 2, <<Item("BTC", 3)>>),
                                  Line("l2Book", None, TRUE, TRUE, 2, <<Item("BTC", 1)>>)>>] >>,
                  << [time |-> 2, coin |-> "BTC", mark |-> 3, oracle |-> None] >>,
                  MCUniverse).plan
   EXCEPT !.funding = FundingRecords(<<[time |-> 2, rate |-> 1]>>, <<"BTC", "PERP">>)]

Fill(ts, outcome, quantity, price) ==
  [ts |-> ts, market |-> <<PolymarketId, outcome>>, side |-> "buy", quantity |-> quantity,
   price |-> price]

\* r1 buys a complete set of three outcomes, r2 stops early.
MCRuns == [r1 |-> [window |-> TimeWindow(1, 6), minimum |-> 50, marks |-> <<PolymarketId, 0>> :> 2,
                   fills |-> <<Fill(2, 0, 1, 1), Fill(2, 1, 1, 1), Fill(3, 2, 1, 1)>>],
           r2 |-> [window |-> TimeWindow(0, 3), minimum |-> 0, marks |-> <<>>,
                   fills |-> <<Fill(2, 0, 2, 3)>>]]

Question == [id |-> PolymarketId, outcomes |-> 3, tick |-> 1, lot |-> 1, negRisk |-> FALSE]

MCTraded ==
  [EmptyPlan("polymarket") EXCEPT
     !.instruments = <<Question>>,
     !.book = <<Immediate(1, PolymarketId, 0, Snapshot(1 :> 1, 2 :> 1)),
                Immediate(3, PolymarketId, 0, Snapshot(1 :> 1, 2 :> 3)),
                Immediate(3, PolymarketId, 0, Clear("sell"))>>]

MCLate ==
  [EmptyPlan("polymarket") EXCEPT
     !.instruments = <<Question>>,
     !.trades = <<Immediate(4, PolymarketId, 0, Trade(1, 1))>>,
     !.resolutions = << [instrument |-> PolymarketId, kind |-> "void", payouts |-> <<3>>, ts |-> 4] >>]

Action(kind, value) == Immediate(2, <<"ACME", "SPOT">>, 0, [kind |-> kind, value |-> value])

MCActions == {<<Action("dividend", <<1>>)>>, <<Action("split", <<2>>), Action("delist", <<>>)>>}

MCKnown == [captured |-> 2, archived |-> 1]

MCPolyMessages ==
  {[kind |-> "book", time |-> 2, asset |-> "t1", bids |-> 1 :> 2, asks |-> <<>>],
   [kind |-> "book", time |-> 1, asset |-> "t0", bids |-> <<>>, asks |-> <<>>],
   [kind |-> "price_change", time |-> 2, asset |-> "t1",
    changes |-> <<[side |-> "buy", price |-> 1, size |-> 0],
                  [side |-> "sell", price |-> 2, size |-> 1]>>],
   [kind |-> "trade", time |-> 3, asset |-> "t0", price |-> 1, size |-> 5],
   [kind |-> "trade", time |-> 3, asset |-> "t9", price |-> 1, size |-> 1]}

MCOrderMessages ==
  [kind : {"add"}, id : {1, 2, 3}, side : {"buy"}, price : {1}, size : {2}]
  \cup [kind : {"add"}, id : {1}, side : {"buy", "sell"}, price : {2}, size : {1}]
  \cup [kind : {"cancel"}, id : {1, 2}] \cup [kind : {"execute"}, id : {1, 2}, size : {1, 2}]
  \cup [kind : {"reduce"}, id : {1, 2}, size : {0, 1}]

MCAssignments == [ticker : {"META"}, instrument : {"etf", "company"}, from : 1 .. 4]
                 \cup [ticker : {"FB"}, instrument : {"company"}, from : {1, 3}]

PolyMarket(tokens, closed, payouts, winners, even) ==
  [tokens |-> tokens, tick |-> 1, closed |-> closed, payouts |-> payouts,
   winners |-> winners, even |-> even, negRisk |-> FALSE, neg_risk |-> TRUE]

MCPolyMarkets ==
  LET two == <<"t0", "t1">>
  IN  {PolyMarket(two, FALSE, <<>>, {}, FALSE), PolyMarket(two, TRUE, <<1, 1>>, {}, FALSE),
       PolyMarket(two, TRUE, <<>>, {0, 1}, FALSE), PolyMarket(two, TRUE, <<>>, {1}, FALSE),
       PolyMarket(two, TRUE, <<1>>, {1}, FALSE),
       PolyMarket(Append(two, "t2"), TRUE, <<>>, {0, 2}, FALSE)}

MCKalshiMarkets == {[tick |-> 1, fractional |-> FALSE, result |-> 1, settled |-> 3]}

Symmetry == Permutations(Loaders)
==============================================================================
