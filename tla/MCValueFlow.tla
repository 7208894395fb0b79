---------------------------- MODULE MCValueFlow ----------------------------
(* A small economy: dust of three, a minimum of one, a moved asset A and a *)
(* token B that fares may be charged in.                                    *)
EXTENDS ValueFlow

Holds(a, b) == [x \in Assets |-> IF x = "A" THEN a ELSE b]

MCFares == [currency : {Sats, "A", "B"}, units : {0, 1, 3}]

Ask(kind, asset, payment, units, sats, held, mode, fare) ==
    [kind |-> kind, receiver |-> "receiver", asset |-> asset, payment |-> payment, units |-> units,
     coin |-> Coin("sender", sats, held), mode |-> mode, recovery |-> "any", minLocktime |-> 2,
     minExitDelay |-> 2, maxFare |-> fare]

\* The wallet names the sats of a bitcoin transfer.
MCAsks ==
    {Ask(kind, Sats, pay, 0, sats, held, mode, fare) :
        kind \in {"lockup", "payment"}, pay \in {1, 2}, sats \in {2, 5}, held \in {Nothing, Holds(0, 1)},
        mode \in {"either", "purchase"}, fare \in MCFares}
    \cup
    {Ask(kind, "A", 0, units, sats, held, mode, fare) :
        kind \in {"lockup", "payment"}, units \in {0, 1}, sats \in {3, 4, 6}, held \in {Holds(1, 0), Holds(2, 1)},
        mode \in {"recycle"}, fare \in MCFares}

\* Wallets with plain coins and coins that hold units, in dust, below it and above.
MCWallets ==
    LET plain(n) == Coin("sender", n, Nothing)
        laden(n, a, b) == Coin("sender", n, Holds(a, b))
    IN  {{plain(2)}, {plain(1), plain(4)}, {plain(2), plain(3)}, {plain(1), laden(3, 1, 0)},
         {laden(2, 1, 0), laden(3, 0, 1)}, {laden(1, 2, 0), plain(1), plain(3)}, {laden(4, 2, 1), plain(2)},
         {laden(1, 1, 0), laden(2, 1, 0), plain(3)}}

MCPlannedPayments ==
    {[kind |-> "plan", coins |-> w, asset |-> Sats, amount |-> n, delivery |-> d] :
        w \in MCWallets, n \in 1 .. 3, d \in {"recycle", "sponsored"}}
    \cup {[kind |-> "plan", coins |-> w, asset |-> "A", amount |-> n, delivery |-> d] :
        w \in MCWallets, n \in 1 .. 2, d \in {"recycle", "purchase", "sponsored"}}

Flat(currency, n) == [currency |-> currency, bps |-> -1, least |-> n, most |-> -1]
MCRules ==
    {[paused |-> FALSE, claim |-> "either", fare |-> o] :
        o \in {Flat(Sats, 0), Flat(Sats, 1), Flat(Sats, 3), Flat("same", 1), Flat("B", 1),
               [currency |-> "same", bps |-> 5000, least |-> 1, most |-> 1],
               [currency |-> Sats, bps |-> 10000, least |-> 0, most |-> -1]}}
    \cup {[paused |-> TRUE, claim |-> "either", fare |-> Flat(Sats, 0)],
          [paused |-> FALSE, claim |-> "purchase", fare |-> Flat(Sats, 0)]}

MCOperatorCoins == {Coin("operator", n, Nothing) : n \in {3, 6, 9}}

MCReceiveAsks ==
    {[kind |-> "fill", receiver |-> "receiver", asset |-> "A", payer |-> payer, maxFare |-> fare,
      minLocktime |-> 2, minExitDelay |-> 2] : payer \in {"sender", "receiver"}, fare \in {0, 1}}

\* Graphs of a solver's coin and the reserved one: the payback and the change split as
\* they should be or not, the units delivered, mislaid or kept.
MCFillGraphs(rq) ==
    LET payback == rq.operator.sats - Dust + rq.fareUnits IN
    {[taxi |-> 1, index |-> 1, units |-> units, outlives |-> outlives,
      tx |-> [ins |-> <<rq.operator, Coin("solver", 4, Holds(2, 0))>>, terms |-> rq.p,
              outs |-> <<Coin("covenant", Dust, Holds(a, 0)), Coin("operator", payback + n, Holds(b, 0)),
                         Coin(key, 4 - rq.fareUnits - n - m, Holds(2 - a - b, 0))>>]] :
        units \in 0 .. 2, outlives \in BOOLEAN, a \in 0 .. 2, b \in {0, 1}, n \in {-1, 0, 1}, m \in {0, 1},
        key \in {"solver", "operator"}}

MCFunds ==
    {Coin("receiver", n, held) : n \in {2, 3, 4}, held \in {Nothing, Holds(1, 1)}}
    \cup {Coin("sender", n, Nothing) : n \in {2, 3}}
=============================================================================
