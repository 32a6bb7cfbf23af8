------------------------------ MODULE MCBacktest ------------------------------
(***************************************************************************)
(* Small engines for TLC.  Prices are tenths of a unit of cash.            *)
(***************************************************************************)
EXTENDS Backtest

Never == 99

Book(m, bids, asks) == [event |-> "snapshot", market |-> m, bids |-> bids, asks |-> asks]

Trade(m, price, size, aggressor) ==
  [event |-> "trade", market |-> m, price |-> price, size |-> size, aggressor |-> aggressor]

Order(m, side, limit, quantity) ==
  [market |-> m, side |-> side, limit |-> limit, quantity |-> quantity,
   tif |-> IF limit = 0 THEN "ioc" ELSE "gtc", reduce |-> FALSE, post |-> FALSE,
   trigger |-> NoTrigger]

Stop10(o, direction, price) ==
  [o EXCEPT !.trigger = [direction |-> direction, price |-> price]]

Plain ==
  [name |-> "plain", length |-> 3, commands |-> 2, markets |-> <<>>, instrument |-> <<>>, kind |-> "spot",
   queue |-> FALSE, optimistic |-> FALSE, slippage |-> 0, latency |-> 0,
   margin |-> FALSE, initialRate |-> 0, maintenanceRate |-> 0, isolated |-> {},
   policy |-> "all", lot |-> 1, venueMarks |-> TRUE, expiry |-> <<>>,
   tick |-> 1, maxOrder |-> Never, maxOpen |-> Never, maxPosition |-> Never,
   fee |-> 1, setCost |-> 1, cash |-> 100,
   records |-> {}, requests |-> {}, amends |-> {}, sets |-> {}, twaps |-> {}, timers |-> {}]

\* A binary prediction market that closes, worked passively in its queue.
Queue ==
  [Plain EXCEPT
     !.name = "queue", !.commands = 3, !.markets = <<"yes">>, !.instrument = ("yes" :> "event"),
     !.kind = "prediction", !.queue = TRUE, !.optimistic = TRUE,
     !.expiry = ("event" :> 2),
     !.records = {Book("yes", (4 :> 1), (6 :> 1) @@ (7 :> 1)),
                  Trade("yes", 4, 3, "sell"), Trade("yes", 5, 3, "none")},
     !.requests = {Order("yes", "buy", 4, 2), Order("yes", "buy", 0, 2),
                   Order("yes", "sell", 5, 1), Order("yes", "sell", 5, 2),
                   [Order("yes", "sell", 5, 1) EXCEPT !.reduce = TRUE]},
     !.amends = {[quantity |-> 1, limit |-> 0], [quantity |-> 0, limit |-> 5],
                 [quantity |-> 3, limit |-> 0]},
     !.timers = {1}]

\* A negative-risk market with three outcomes: minting and converting.
Sets ==
  [Plain EXCEPT
     !.name = "sets", !.commands = 3, !.markets = <<"a", "b", "c">>,
     !.instrument = [m \in {"a", "b", "c"} |-> "event"],
     !.kind = "prediction", !.expiry = ("event" :> 2), !.latency = 1, !.cash = 25,
     !.records = {Book("a", (3 :> 2), (4 :> 2)), Book("b", (5 :> 1), (6 :> 1)),
                  Book("c", (2 :> 1), (2 :> 1))},
     !.requests = {Order("a", "sell", 0, 2), Order("b", "sell", 5, 1)},
     !.sets = {[kind |-> "mint", quantity |-> 2, named |-> 0],
               [kind |-> "redeem", quantity |-> 1, named |-> 0],
               [kind |-> "convert", quantity |-> 1, named |-> 2]}]

\* Two perpetuals under linear margin, one of them isolated.
Perps ==
  [Plain EXCEPT
     !.name = "perps", !.markets = <<"p", "q">>, !.instrument = [m \in {"p", "q"} |-> m],
     !.kind = "perpetual", !.margin = TRUE, !.initialRate = 5, !.maintenanceRate = 3,
     !.isolated = {"q"}, !.expiry = [i \in {"p", "q"} |-> Never], !.cash = 40,
     !.records = {Book("p", (18 :> 3), (20 :> 1) @@ (22 :> 2)), Book("p", (6 :> 2), (8 :> 3)),
                  Book("q", (18 :> 2), (20 :> 2)), Book("q", (5 :> 1), (6 :> 1)),
                  [event |-> "funding", market |-> "p", rate |-> 2],
                  [event |-> "reference", market |-> "p", mark |-> 10, oracle |-> 30]},
     !.requests = {Order("p", "buy", 0, 3), Order("q", "buy", 20, 2), Order("p", "sell", 0, 2)}]

PartialPerps == [Perps EXCEPT !.name = "partial", !.policy = "partial", !.lot = 2,
                              !.isolated = {"p"}]

\* A share with corporate actions: orders in flight, parked and resting.
Shares ==
  [Plain EXCEPT
     !.name = "shares", !.markets = <<"s">>, !.instrument = ("s" :> "s"),
     !.latency = 1, !.slippage = 2, !.tick = 2, !.expiry = ("s" :> Never),
     !.records = {Book("s", (16 :> 2), (20 :> 2)),
                  [event |-> "delta", market |-> "s", side |-> "sell", price |-> 14, size |-> 1],
                  [event |-> "gap", market |-> "s"],
                  [event |-> "bar", market |-> "s", price |-> 12],
                  [event |-> "split", market |-> "s", ratio |-> 2],
                  [event |-> "dividend", market |-> "s", perShare |-> 3],
                  [event |-> "delist", market |-> "s", price |-> 10]},
     !.requests = {Order("s", "buy", 24, 2), Order("s", "sell", 22, 1),
                   [Order("s", "buy", 16, 1) EXCEPT !.post = TRUE],
                   [Order("s", "buy", 0, 3) EXCEPT !.tif = "fok"],
                   Stop10(Order("s", "sell", 0, 1), "below", 14),
                   Order("s", "buy", 15, 1)},
     !.amends = {[quantity |-> 3, limit |-> 0]},
     !.twaps = {[market |-> "s", side |-> "buy", quantity |-> 3, reduce |-> FALSE,
                 slices |-> 2, interval |-> 1]},
     !.timers = {1}]

\* Stops that one mark fires together, and a cancel between their fills.
Stops ==
  [Shares EXCEPT
     !.name = "stops", !.commands = 3,
     !.records = {Book("s", (16 :> 2), (20 :> 2)), [event |-> "bar", market |-> "s", price |-> 12],
                  [event |-> "split", market |-> "s", ratio |-> 2]},
     !.requests = {Stop10(Order("s", "sell", 0, 1), "below", 14), Order("s", "buy", 24, 2)},
     !.twaps = {}, !.timers = {}]

AllSetups == {Queue, Sets, Perps, PartialPerps, Shares, Stops}

==============================================================================
