--------------------------- MODULE CovenantTerms ---------------------------
(***************************************************************************)
(* What one covenant promises, as the covenant package compiles it, as the *)
(* client and the recovery runner spend it, and as the spend watcher reads *)
(* a spend back.                                                           *)
(*                                                                         *)
(* A transaction is the sequence of coins it spends and the sequence of    *)
(* its value outputs; the extension is the units the outputs hold and the  *)
(* anchor is left out.  A coin has the key it is locked to, its sats and   *)
(* its units of every asset.  A script is a key and whether the amount is  *)
(* at least dust: below dust the output is an OP_RETURN and no witness     *)
(* program.  Signatures and trees are those of the named key.              *)
(***************************************************************************)
EXTENDS Integers, Sequences, SequencesExt

CONSTANTS
    Dust,     \* the provider's dust amount
    VtxoMin,  \* vtxoMinAmount
    Assets    \* asset ids

ASSUME DustAssumption == Dust \in Nat \ {0} /\ VtxoMin \in 1 .. Dust

Sats == "sats"    \* the currency that is no asset

Nothing == [a \in Assets |-> 0]
Only(a, n) == [Nothing EXCEPT ![a] = n]
Both(h, g) == [a \in Assets |-> h[a] + g[a]]
Without(h, g) == [a \in Assets |-> h[a] - g[a]]

Coin(key, sats, held) == [key |-> key, sats |-> sats, held |-> held]

\* A sum over the positions of a sequence; in all of the coins, in those of one key.
Total(s) ==
    LET upto[n \in 0 .. Len(s)] == IF n = 0 THEN 0 ELSE upto[n - 1] + s[n]
    IN  upto[Len(s)]

TotalSats(coins) == Total([i \in DOMAIN coins |-> coins[i].sats])
TotalHeld(coins) == [a \in Assets |-> Total([i \in DOMAIN coins |-> coins[i].held[a]])]
SatsOf(key, coins) ==
    Total([i \in DOMAIN coins |-> IF coins[i].key = key THEN coins[i].sats ELSE 0])
HeldOf(key, coins) ==
    [a \in Assets |-> Total([i \in DOMAIN coins |-> IF coins[i].key = key THEN coins[i].held[a] ELSE 0])]

\* payoutPkScript, ownerOutputScript and ownerScript: the script of an output.
Script(key, sats) == <<key, sats >= Dust>>

\* An output or input of witness version 1 to the key.
Pays(coin, key) == Script(coin.key, coin.sats) = <<key, TRUE>>

-----------------------------------------------------------------------------
(* The parameters.  payment is 0 and asset is Sats where they are absent;    *)
(* mode is "either" without a claimMode; locktime 0 lies below the time      *)
(* domain and exitDelay 0 cannot be encoded.                                 *)

\* validateParams
ValidParams(p) ==
    /\ p.topup >= VtxoMin /\ p.topup <= Dust /\ p.topup = Dust
    /\ p.payment > 0 => p.asset = Sats
    /\ \A k, l \in {"receiver", "sender", "operator"} : k # l => p[k] # p[l]
    /\ p.sender # p.signer /\ p.receiver # p.signer
    /\ p.locktime > 0 /\ p.exitDelay > 0
    /\ p.fareIn # "none" =>
          p.asset # Sats /\ p.mode = "recycle" /\ p.recovery = "receiver" /\ p.fareUnits >= 0
    /\ p.recovery = "receiver" => p.asset # Sats

LockupSats(p) == Dust + p.payment
LoanSats(p) == p.topup

\* recycleFare: a sats fare is folded into the repayment.
OperatorSats(p) == p.topup + (IF p.fareIn = "sats" THEN p.fareUnits ELSE 0)
AssetFare(p) == IF p.fareIn = "asset" THEN p.fareUnits ELSE 0

\* claimLeafDisabled
Disabled(p, leaf) == p.mode # "either" /\ leaf \in {"recycle", "purchase"} \ {p.mode}

-----------------------------------------------------------------------------
(* The leaves of the compiled contract. *)

\* The units of the covenant's asset, where it has one.
Carries(p, coin, units) == p.asset # Sats => coin.held[p.asset] = units
Units(p, coin) == IF p.asset = Sats THEN 0 ELSE coin.held[p.asset]

\* recycle
RecycleLeaf(p, tx) ==
    /\ Len(tx.ins) = 2 /\ Len(tx.outs) >= 2
    /\ Pays(tx.ins[2], p.receiver)
    /\ Pays(tx.outs[1], p.operator) /\ tx.outs[1].sats = OperatorSats(p)
    /\ Pays(tx.outs[2], p.receiver)
    /\ tx.outs[2].sats = tx.ins[1].sats + tx.ins[2].sats - OperatorSats(p)
    /\ AssetFare(p) > 0 => Carries(p, tx.outs[1], AssetFare(p))
    /\ Carries(p, tx.outs[2], Units(p, tx.ins[1]) + Units(p, tx.ins[2]) - AssetFare(p))

\* purchase
PurchaseLeaf(p, tx) ==
    /\ Len(tx.outs) >= 1
    /\ Pays(tx.outs[1], p.receiver) /\ tx.outs[1].sats = tx.ins[1].sats
    /\ Carries(p, tx.outs[1], Units(p, tx.ins[1]))

\* repayRefund
RefundLeaf(p, tx) ==
    /\ Len(tx.ins) = 2 /\ Len(tx.outs) >= 2
    /\ Pays(tx.ins[2], tx.ins[2].key) /\ Pays(tx.outs[2], tx.ins[2].key)
    /\ Pays(tx.outs[1], p.operator) /\ tx.outs[1].sats = LoanSats(p)
    /\ tx.outs[2].sats = tx.ins[1].sats + tx.ins[2].sats - LoanSats(p)
    /\ Carries(p, tx.outs[2], Units(p, tx.ins[1]) + Units(p, tx.ins[2]))

\* reclaimWhole
ReclaimLeaf(p, tx) ==
    /\ Len(tx.outs) >= 1
    /\ Pays(tx.outs[1], p.operator) /\ tx.outs[1].sats = tx.ins[1].sats
    /\ Carries(p, tx.outs[1], Units(p, tx.ins[1]))

\* What the emulator signs: a leaf the mode leaves open, on its conditions.
Admits(p, leaf, tx) ==
    /\ ~Disabled(p, leaf)
    /\ CASE leaf = "recycle" -> RecycleLeaf(p, tx)
         [] leaf = "purchase" -> PurchaseLeaf(p, tx)
         [] leaf = "refund" -> RefundLeaf(p, tx)
         [] leaf = "reclaim" -> ReclaimLeaf(p, tx)

-----------------------------------------------------------------------------
(* The spends the client and the recovery runner build.  Each has a guard   *)
(* and a transaction; fund is the spender's own coin.                        *)

\* packetForSpend: everything goes to one output, less an asset fare to the first.
Packet(p, sources, fare) == Without(TotalHeld(sources), IF fare > 0 THEN Only(p.asset, fare)
                                                          ELSE Nothing)

\* A positive amount for every output of every asset group.
Encodable(p, sources, fare) == fare > 0 => fare < TotalHeld(sources)[p.asset]

\* exactFundingInput for a coin pinned to a key, with a witness program.
Fundable(fund, key) == Pays(fund, key)

CanPurchase(p) == ~Disabled(p, "purchase") /\ LockupSats(p) >= VtxoMin

\* purchase()
PurchaseTx(p, coin) ==
    [ins |-> <<coin>>, outs |-> <<Coin(p.receiver, LockupSats(p), Packet(p, <<coin>>, 0))>>]

Merged(p, fund) == LockupSats(p) + fund.sats - OperatorSats(p)

CanRecycle(p, coin, fund) ==
    /\ ~Disabled(p, "recycle") /\ Fundable(fund, p.receiver)
    /\ Merged(p, fund) >= Dust /\ Merged(p, fund) >= VtxoMin
    /\ Encodable(p, <<coin, fund>>, AssetFare(p))

\* Mutant: the fare stays with the receiver.
MutRecycleTx(p, coin, fund) ==
    [ins |-> <<coin, fund>>,
     outs |-> <<Coin(p.operator, p.topup, Nothing),
                Coin(p.receiver, LockupSats(p) + fund.sats - p.topup,
                     Packet(p, <<coin, fund>>, 0))>>]

\* recycle()
RecycleTx(p, coin, fund) ==
    [ins |-> <<coin, fund>>,
     outs |-> <<Coin(p.operator, OperatorSats(p),
                     IF AssetFare(p) > 0 THEN Only(p.asset, AssetFare(p)) ELSE Nothing),
                Coin(p.receiver, Merged(p, fund), Packet(p, <<coin, fund>>, AssetFare(p)))>>]

Returned(p, fund) == LockupSats(p) + fund.sats - LoanSats(p)

CanRefund(p, fund) ==
    /\ Fundable(fund, fund.key)
    /\ Returned(p, fund) >= Dust /\ Returned(p, fund) >= VtxoMin

\* refund(): the sender signs both inputs and the rest returns to the coin's key.
RefundTx(p, coin, fund) ==
    [ins |-> <<coin, fund>>,
     outs |-> <<Coin(p.operator, LoanSats(p), Nothing),
                Coin(fund.key, Returned(p, fund), Packet(p, <<coin, fund>>, 0))>>]

\* buildRecoveryIntent: the whole covenant to the operator.
ReclaimTx(p, coin) ==
    [ins |-> <<coin>>, outs |-> <<Coin(p.operator, LockupSats(p), coin.held)>>]

-----------------------------------------------------------------------------
(* classifySpend, for a row whose persisted holdings are held. *)

\* exactOutput
ExactOutput(tx, i, sats, script) ==
    i <= Len(tx.outs) /\ tx.outs[i].sats = sats
    /\ Script(tx.outs[i].key, tx.outs[i].sats) = script

\* exactExtension: all of the sources at one output, less an asset fare at the
\* first, and nothing anywhere else.
ExactExtension(p, tx, sources, dest, fare) ==
    /\ Encodable(p, sources, fare)
    /\ \A i \in DOMAIN tx.outs :
          tx.outs[i].held = CASE i = dest -> Packet(p, sources, fare)
                              [] i = 1 /\ fare > 0 /\ i # dest -> Only(p.asset, fare)
                              [] OTHER -> Nothing

ClassifyPurchase(p, tx) ==
    /\ Len(tx.ins) = 1 /\ Len(tx.outs) = 1
    /\ ExactOutput(tx, 1, LockupSats(p), <<p.receiver, TRUE>>) /\ LockupSats(p) >= VtxoMin
    /\ ExactExtension(p, tx, <<tx.ins[1]>>, 1, 0)

ClassifyRecycle(p, tx) ==
    /\ Len(tx.ins) = 2 /\ Len(tx.outs) = 2
    /\ Fundable(tx.ins[2], p.receiver)
    /\ Merged(p, tx.ins[2]) >= Dust /\ Merged(p, tx.ins[2]) >= VtxoMin
    /\ ExactOutput(tx, 1, OperatorSats(p), Script(p.operator, OperatorSats(p)))
    /\ ExactOutput(tx, 2, Merged(p, tx.ins[2]), <<p.receiver, TRUE>>)
    /\ ExactExtension(p, tx, tx.ins, 2, AssetFare(p))

ClassifyRefund(p, tx) ==
    /\ Len(tx.ins) = 2
    /\ ExactOutput(tx, 1, LoanSats(p), Script(p.operator, LoanSats(p)))
    /\ ExactOutput(tx, 2, Returned(p, tx.ins[2]), Script(tx.ins[2].key, tx.ins[2].sats))
    /\ ExactExtension(p, tx, tx.ins, 2, 0)

ClassifyReclaim(p, tx, matured) ==
    /\ ExactOutput(tx, 1, LockupSats(p), Script(p.operator, LockupSats(p)))
    /\ ExactExtension(p, tx, <<tx.ins[1]>>, 1, 0)
    /\ matured

Classify(p, leaf, tx, held, matured) ==
    IF tx.ins[1].sats # LockupSats(p) \/ tx.ins[1].held # held THEN "unknown"
    ELSE CASE leaf = "purchase" /\ ClassifyPurchase(p, tx) -> "purchased"
           [] leaf = "recycle" /\ ClassifyRecycle(p, tx) -> "recycled"
           [] leaf = "refund" /\ ClassifyRefund(p, tx) -> "refunded"
           [] leaf = "reclaim" /\ ClassifyReclaim(p, tx, matured) -> "recovered"
           [] OTHER -> "unknown"
=============================================================================
