------------------------------- MODULE L3Book -------------------------------
(***************************************************************************)
(* An order-by-order book (h5i-db-backtest l3.rs): the resting orders by   *)
(* their venue id, and per side and price the queue of their ids, front    *)
(* first.  A level exists while its queue holds an order.                  *)
(***************************************************************************)
EXTENDS Integers, Sequences, SequencesExt, Functions

EmptyL3 == [orders |-> <<>>, levels |-> <<>>]

LevelKey(order) == <<order.side, order.price>>

QueueAt(book, key) == IF key \in DOMAIN book.levels THEN book.levels[key] ELSE <<>>

\* What a message asks that the book refuses: an id twice, a size of nothing,
\* an order that grows in place.  An unknown order is not refused.
RefusedByL3(book, msg) ==
  \/ msg.kind = "add" /\ (msg.size <= 0 \/ msg.id \in DOMAIN book.orders)
  \/ msg.kind = "reduce" /\ msg.id \in DOMAIN book.orders /\ msg.size > book.orders[msg.id].size

AddL3(book, msg) ==
  LET order == [side |-> msg.side, price |-> msg.price, size |-> msg.size]
      key   == LevelKey(order)
      queue == Append(QueueAt(book, key), msg.id)
  IN  [orders |-> [id \in DOMAIN book.orders \cup {msg.id} |->
                     IF id = msg.id THEN order ELSE book.orders[id]],
       levels |-> [k \in DOMAIN book.levels \cup {key} |->
                     IF k = key THEN queue ELSE book.levels[k]]]

CancelL3(book, id) ==
  LET key   == LevelKey(book.orders[id])
      queue == SelectSeq(QueueAt(book, key), LAMBDA other : other # id)
      kept  == IF queue = <<>> THEN DOMAIN book.levels \ {key} ELSE DOMAIN book.levels
  IN  IF id \notin DOMAIN book.orders THEN book
      ELSE [orders |-> Restrict(book.orders, DOMAIN book.orders \ {id}),
            levels |-> [k \in kept |-> IF k = key THEN queue ELSE book.levels[k]]]

\* execute and reduce leave this much of an order; nothing of it removes it.
Resized(book, id, size) ==
  IF size <= 0 THEN CancelL3(book, id) ELSE [book EXCEPT !.orders[id].size = size]

ApplyL3(book, msg) ==
  CASE RefusedByL3(book, msg) -> book
    [] msg.kind = "add" /\ ~RefusedByL3(book, msg) -> AddL3(book, msg)
    [] msg.kind # "add" /\ msg.id \notin DOMAIN book.orders -> book
    [] OTHER -> CASE msg.kind = "cancel" -> CancelL3(book, msg.id)
                  [] msg.kind = "execute" -> Resized(book, msg.id, book.orders[msg.id].size - msg.size)
                  [] OTHER -> Resized(book, msg.id, msg.size)

ReplayL3(messages) == FoldLeft(ApplyL3, EmptyL3, messages)

SizeOf(book, queue) == FoldLeft(LAMBDA sum, id : sum + book.orders[id].size, 0, queue)

SizeAheadOf(book, id) ==
  LET queue == QueueAt(book, LevelKey(book.orders[id]))
  IN  SizeOf(book, SubSeq(queue, 1, (CHOOSE i \in DOMAIN queue : queue[i] = id) - 1))

\* levels: the prices of a side with what rests there.
LevelsL3(book, side) ==
  LET prices == {k[2] : k \in {key \in DOMAIN book.levels : key[1] = side}}
  IN  [p \in prices |-> SizeOf(book, book.levels[<<side, p>>])]

------------------------------------------------------------------------------

Recorded(messages) == {messages[i].id : i \in {j \in DOMAIN messages : messages[j].kind = "add"}}

\* The queue mechanics (l3.rs apply): a replay begun anywhere in the day holds
\* exactly the orders added since, in the queue order of the whole day; an
\* order on the book never falls back in its queue; and the levels are the
\* orders, none counted twice or left behind.
L3Exact(messages) ==
  LET whole  == ReplayL3(messages)
      n      == Len(messages)
      before == ReplayL3(SubSeq(messages, 1, n - 1))
      late(k) == ReplayL3(SubSeq(messages, k, n))
      fresh(k) == DOMAIN late(k).orders
  IN  /\ \A k \in 1 .. n :
           /\ fresh(k) = DOMAIN whole.orders \cap Recorded(SubSeq(messages, k, n))
           /\ \A id \in fresh(k) : late(k).orders[id] = whole.orders[id]
           /\ \A key \in DOMAIN whole.levels :
                QueueAt(late(k), key) =
                  SelectSeq(whole.levels[key], LAMBDA id : id \in fresh(k))
      /\ \A id \in DOMAIN before.orders \cap DOMAIN whole.orders :
           SizeAheadOf(whole, id) <= SizeAheadOf(before, id)
      /\ \A side \in {"buy", "sell"} : \A p \in DOMAIN LevelsL3(whole, side) :
           LevelsL3(whole, side)[p] =
             SizeOf(whole, SetToSeq({id \in DOMAIN whole.orders :
                                       LevelKey(whole.orders[id]) = <<side, p>>}))
==============================================================================
