------------------------------ MODULE OrderBook ------------------------------
(***************************************************************************)
(* The replayed price-level book of h5i-db-backtest (book.rs) and the      *)
(* netted positions it fills (position.rs, corporate.rs, account.rs), as   *)
(* pure operators.                                                         *)
(*                                                                         *)
(* Prices and money are whole raw units, Scale of them to one unit of cash;*)
(* quantities are whole contracts, so notional(price, quantity) is their   *)
(* product.  A price of 0 stands for "none".                               *)
(***************************************************************************)
EXTENDS Integers, Sequences, SequencesExt

CONSTANT Scale

ASSUME ScaleAssumption == Scale \in Nat \ {0}

Abs(n) == IF n < 0 THEN -n ELSE n

Sign(side) == IF side = "buy" THEN 1 ELSE -1

Opposite(side) == IF side = "buy" THEN "sell" ELSE "buy"

\* notional(rate, amount): a fraction of an amount, half away from zero.
Fraction(rate, amount) ==
  LET product == Abs(rate * amount)
      rounded == (product + Scale \div 2) \div Scale
  IN  IF rate * amount >= 0 THEN rounded ELSE -rounded

------------------------------------------------------------------------------
(* The book: size by price on each side, and whether it can be trusted.     *)

NoBook == [status |-> "none", bids |-> <<>>, asks |-> <<>>]

ApplySnapshot(bids, asks) == [status |-> "fresh", bids |-> bids, asks |-> asks]

MarkGap == [status |-> "stale", bids |-> <<>>, asks |-> <<>>]

WithLevel(levels, price, size) ==
  LET kept == [p \in DOMAIN levels \ {price} |-> levels[p]]
  IN  IF size > 0 THEN (price :> size) @@ kept ELSE kept

\* An incremental update; the caller has checked that the book is fresh.
ApplyDelta(book, side, price, size) ==
  IF side = "buy"
  THEN [book EXCEPT !.bids = WithLevel(@, price, size)]
  ELSE [book EXCEPT !.asks = WithLevel(@, price, size)]

\* BookAction::Clear: one side goes, under the same check.
ApplyClear(book, side) ==
  IF side = "buy" THEN [book EXCEPT !.bids = <<>>] ELSE [book EXCEPT !.asks = <<>>]

BestBid(book) == IF DOMAIN book.bids = {} THEN 0 ELSE Max(DOMAIN book.bids)

BestAsk(book) == IF DOMAIN book.asks = {} THEN 0 ELSE Min(DOMAIN book.asks)

Mid(book) ==
  IF BestBid(book) = 0 \/ BestAsk(book) = 0 THEN 0
  ELSE (BestBid(book) + BestAsk(book) + 1) \div 2

QuantityAt(book, side, price) ==
  LET levels == IF side = "buy" THEN book.bids ELSE book.asks
  IN  IF price \in DOMAIN levels THEN levels[price] ELSE 0

\* A buyer lifts asks from the lowest, a seller hits bids from the highest,
\* as far as the limit (0: none) allows: the fills <<price, size>> in order.
Walk(book, side, wanted, limit) ==
  LET levels == IF side = "buy" THEN book.asks ELSE book.bids
      reach  == {p \in DOMAIN levels :
                   limit = 0 \/ (IF side = "buy" THEN p <= limit ELSE p >= limit)}
      inOrder == SetToSortSeq(reach, LAMBDA p, q :
                                IF side = "buy" THEN p < q ELSE p > q)
      take(done, p) ==
        LET size == Min({done.left, levels[p]})
        IN  IF size = 0 THEN done
            ELSE [left |-> done.left - size, fills |-> Append(done.fills, <<p, size>>)]
  IN  FoldLeft(take, [left |-> wanted, fills |-> <<>>], inOrder)

------------------------------------------------------------------------------
(* A split of ratio new shares for one old share.                           *)

SplitQuantity(ratio, quantity) == ratio * quantity

SplitPrice(ratio, price) == price \div ratio

\* Levels that land on the same price after rounding are merged.
SplitSide(ratio, levels) ==
  LET prices == {SplitPrice(ratio, p) : p \in DOMAIN levels}
      size(new) == FoldSet(LAMBDA p, sum : sum + SplitQuantity(ratio, levels[p]), 0,
                           {p \in DOMAIN levels : SplitPrice(ratio, p) = new})
  IN  [new \in prices |-> size(new)]

ApplySplit(ratio, book) ==
  [book EXCEPT !.bids = SplitSide(ratio, @), !.asks = SplitSide(ratio, @)]

------------------------------------------------------------------------------
(* A netted position: signed quantity, average entry price, realised profit *)
(* net of commissions.                                                      *)

Flat == [quantity |-> 0, average |-> 0, realized |-> 0]

\* Position::apply.  Adding averages the price, rounding down; reducing
\* realises the difference; reversing opens the remainder at the fill's price.
ApplyFill(position, side, price, quantity, commission) ==
  LET signed  == Sign(side) * quantity
      before  == position.quantity
      after   == before + signed
      adding  == before = 0 \/ (before > 0) = (signed > 0)
      closing == Min({Abs(signed), Abs(before)})
      gain    == (price - position.average) * (IF before > 0 THEN 1 ELSE -1) * closing
      average == IF adding
                 THEN (position.average * Abs(before) + price * Abs(signed))
                        \div (Abs(before) + Abs(signed))
                 ELSE IF after = 0 THEN 0
                 ELSE IF (after > 0) # (before > 0) THEN price
                 ELSE position.average
  IN  [quantity |-> after, average |-> average,
       realized |-> position.realized - commission + (IF adding THEN 0 ELSE gain)]

SplitPosition(ratio, position) ==
  [position EXCEPT !.quantity = SplitQuantity(ratio, @), !.average = SplitPrice(ratio, @)]

UnrealizedPnl(position, mark) == (mark - position.average) * position.quantity

Exposure(position, mark) == mark * position.quantity

\* LinearMargin: a fraction of the gross notional.
Requirement(rate, quantity, mark) == Fraction(rate, Abs(mark * quantity))

\* The set's one unit of cash divided in proportion to the outcomes' prices,
\* the rounding residual on the largest (the first of them on a tie).
NormaliseToOne(prices) ==
  LET total   == FoldLeft(LAMBDA sum, p : sum + p, 0, prices)
      scaled  == [i \in DOMAIN prices |-> (prices[i] * Scale) \div total]
      short   == Scale - FoldLeft(LAMBDA sum, p : sum + p, 0, scaled)
      largest == CHOOSE i \in DOMAIN scaled :
                   \A j \in DOMAIN scaled :
                     scaled[j] < scaled[i] \/ (scaled[j] = scaled[i] /\ i <= j)
  IN  [scaled EXCEPT ![largest] = @ + short]

UniformPrices(count) ==
  [i \in 1..count |-> Scale \div count + (IF i <= Scale % count THEN 1 ELSE 0)]

==============================================================================
