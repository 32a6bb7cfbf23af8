----------------------------- MODULE Settlement -----------------------------
(***************************************************************************)
(* What h5i-db-backtest's run_in_place does around the engine: how much of *)
(* the requested window the book covers (window.rs), the positions a fill  *)
(* history folds to (position.rs Portfolio::replay) and what a resolution  *)
(* pays them once the run is over (settlement.rs); and which instrument a  *)
(* reused ticker meant at an instant (corporate.rs).                       *)
(*                                                                         *)
(* A market is <<instrument, outcome>>; prices are on the scale where an   *)
(* outcome that wins pays Scale.  An optional value is a sequence of at    *)
(* most one.                                                               *)
(***************************************************************************)
EXTENDS Venues

------------------------------------------------------------------------------
(* TimeWindow and Coverage.                                                 *)

TimeWindow(from, to) == [from |-> from, to |-> to]

Duration(window) == window.to - window.from

\* intersect, empty when it does not reach past its own start.
Intersect(a, b) == TimeWindow(Max({a.from, b.from}), Min({a.to, b.to}))

\* Coverage of the window by the span of the book's records, in time units.
Covered(window, records) ==
  LET times == {records[i].ts : i \in DOMAIN records}
      both  == Intersect(TimeWindow(Min(times), Max(times) + 1), window)
  IN  IF times = {} THEN 0 ELSE Max({0, Duration(both)})

\* Coverage::require, minimum being a percentage.
Sufficient(window, minimum, records) ==
  100 * Covered(window, records) >= minimum * Duration(window)

------------------------------------------------------------------------------
(* SymbolRegistry (corporate.rs): ticker -> the spans in which it was held. *)

Forever == 9

Spans(registry, ticker) == IF ticker \in DOMAIN registry THEN registry[ticker] ELSE <<>>

\* assign: the holder before is closed at this instant; a step back is refused.
Assign(registry, a) ==
  LET spans  == Spans(registry, a.ticker)
      n      == Len(spans)
      open   == [instrument |-> a.instrument, span |-> TimeWindow(a.from, Forever)]
      closed == IF n = 0 THEN <<>> ELSE [spans EXCEPT ![n].span.to = a.from]
  IN  IF n > 0 /\ a.from <= spans[n].span.from THEN registry
      ELSE (a.ticker :> Append(closed, open)) @@ registry

Registry(assignments) == FoldLeft(Assign, <<>>, assignments)

\* resolve: the first span that contains the instant.
ResolveTicker(registry, ticker, at) ==
  LET spans == Spans(registry, ticker)
      hits  == {i \in DOMAIN spans : spans[i].span.from <= at /\ at < spans[i].span.to}
  IN  IF hits = {} THEN <<>> ELSE <<spans[Min(hits)].instrument>>

\* resolve_unique: refused once a ticker has been held twice.
ResolveUnique(registry, ticker) ==
  LET spans == Spans(registry, ticker)
  IN  IF Len(spans) = 1 THEN <<spans[1].instrument>> ELSE <<>>

\* The registry's answers (corporate.rs resolve): at every instant a ticker
\* means what it was last assigned to by then, nothing before its first
\* assignment and never nothing after; an answer without a date is the only
\* one any date gives.
TickersExact(assignments) ==
  LET registry == Registry(assignments)
      steps(i) == Registry(SubSeq(assignments, 1, i)) # Registry(SubSeq(assignments, 1, i - 1))
      held(ticker, at) == {i \in DOMAIN assignments :
                             /\ steps(i) /\ assignments[i].ticker = ticker
                             /\ assignments[i].from <= at}
      tickers == {assignments[i].ticker : i \in DOMAIN assignments}
  IN  \A ticker \in tickers : \A at \in 0 .. Forever - 1 :
        LET said  == ResolveTicker(registry, ticker, at)
            found == held(ticker, at)
            alone == ResolveUnique(registry, ticker)
        IN  /\ said = IF found = {} THEN <<>> ELSE <<assignments[Max(found)].instrument>>
            /\ alone # <<>> /\ said # <<>> => said = alone

------------------------------------------------------------------------------
(* Resolution.                                                              *)

Total(prices) == FoldLeft(LAMBDA sum, p : sum + p, 0, prices)

\* Resolution::split and Resolution::void refuse what does not conserve a set.
Conserving(r) ==
  CASE r.kind = "split" -> /\ Len(r.payouts) >= 2 /\ Total(r.payouts) = Scale
                           /\ \A i \in DOMAIN r.payouts : r.payouts[i] \in 0 .. Scale
    [] r.kind = "void" -> r.payouts[1] >= 2
    [] OTHER -> TRUE

\* settlement_price: an outcome the resolution does not know pays nothing.
SettlementPrice(r, outcome) ==
  LET of(prices) == IF outcome + 1 \in DOMAIN prices THEN prices[outcome + 1] ELSE 0
  IN  CASE r.kind = "winner" -> IF outcome = r.payouts[1] THEN Scale ELSE 0
        [] r.kind = "split" -> of(r.payouts)
        [] OTHER -> of(UniformPrices(r.payouts[1]))

\* Resolution::validate against the instrument it names.
Resolves(r, instrument) ==
  /\ instrument.id[2] = "MARKET"
  /\ CASE r.kind = "winner" -> r.payouts[1] \in 0 .. instrument.outcomes - 1
       [] r.kind = "split" -> Len(r.payouts) = instrument.outcomes
       [] OTHER -> r.payouts[1] = instrument.outcomes

\* validate_resolutions: one for a market never loaded is let through.
ValidateResolutions(resolutions, instruments) ==
  \A r \in resolutions, i \in instruments : i.id = r.instrument => Resolves(r, i)

------------------------------------------------------------------------------
(* Portfolio and settle.                                                    *)

\* Portfolio::replay.
Portfolio(fills) ==
  [m \in {fills[i].market : i \in DOMAIN fills} |->
     FoldLeft(LAMBDA p, x : IF x.market # m THEN p
                            ELSE ApplyFill(p, x.side, x.price, x.quantity, 0), Flat, fills)]

ObservableAnyTime(r, through) == through # None

\* The gate: the run got as far as the instant the result became known.
Observable(r, through) == through # None /\ through >= r.ts

\* settle: every open position either pays what its market resolved to or is
\* reported with a reason; two resolutions of one market are refused before.
Settle(portfolio, resolutions, through, marks) ==
  LET open  == {m \in DOMAIN portfolio : portfolio[m].quantity # 0}
      of(m) == CHOOSE r \in resolutions : r.instrument = m[1]
      due   == {m \in open : /\ \E r \in resolutions : r.instrument = m[1]
                             /\ Observable(of(m), through)}
      pays(m) == UnrealizedPnl(portfolio[m], SettlementPrice(of(m), m[2]))
  IN  [settled   |-> [m \in due |->
                        [pnl  |-> pays(m),
                         exit |-> IF m \in DOMAIN marks
                                  THEN <<UnrealizedPnl(portfolio[m], marks[m])>> ELSE <<>>]],
       unsettled |-> open \ due]

==============================================================================
