------------------------------ MODULE Custody ------------------------------
(***************************************************************************)
(* What the Taxi owes after a reclaim.  Recording a `recovered` verdict    *)
(* opens a custody row in the same transaction; the owner is later paid    *)
(* from whatever coins are spendable.  A payout takes two requests:        *)
(* `prepare` claims the row, selects coins and, after the graph is built,  *)
(* binds the coins to the row; `complete` submits the graph the owner      *)
(* signed and records the payout.  Requests of several processes           *)
(* interleave at every await, any process may stop between two of its      *)
(* steps, and an answer to a submission may be lost.                       *)
(***************************************************************************)
EXTENDS Naturals, FiniteSets

CONSTANTS
    Rows,        \* reclaimed advances
    Floats,       \* the operator's spendable coins
    Payouts,       \* the coin sets the funding selector may return for a payout
    Calls,       \* concurrent `prepare` and `complete` requests
    Window,      \* the advertised custody window, in ticks
    LeaseTicks,  \* how long a release lease lasts
    MaxTime,     \* bound on the clock
    MaxTokens    \* bound on the claims made

ASSUME CustodyAssumption ==
    /\ Payouts \subseteq SUBSET Floats
    /\ {} \notin Payouts
    /\ {Window, LeaseTicks, MaxTime, MaxTokens} \subseteq Nat
    /\ Window > 0
    /\ "none" \notin Rows

VARIABLES
    row,       \* the custody table
    inputs,    \* custody_release_inputs: coin -> the row it is bound to, or None
    call,      \* what each request holds in its closure
    spent,     \* coins spent on the network, by a payout or by anything else
    landed,    \* payout graphs the network accepted
    now,
    tokens     \* claims made so far; the last one's token

custodyVars == <<row, inputs, call, spent, landed, now, tokens>>

None == "none"
NoRow == [state |-> None, expiresAt |-> 0, token |-> 0, leaseUntil |-> 0, expected |-> None]
NoCall == [step |-> "idle"]

(* A graph's txid commits to the owner it pays and the coins it spends. *)
Graphs == [row: Rows, coins: Payouts]

RowStates == {"held", "releasing", "released", "forfeit"}

Row ==
    [state: RowStates \cup {None}, expiresAt: 0 .. MaxTime + Window,
     token: 0 .. MaxTokens, leaseUntil: 0 .. MaxTime + LeaseTicks,
     expected: {None, "pending", "graph"}]

CustodyInit ==
    /\ row = [r \in Rows |-> NoRow]
    /\ inputs = [c \in Floats |-> None]
    /\ call = [p \in Calls |-> NoCall]
    /\ spent = {}
    /\ landed = {}
    /\ now = 0
    /\ tokens = 0

-----------------------------------------------------------------------------
(* The repository's transactions. *)

Bound(r) == {c \in Floats : inputs[c] = r}
Freed(r) == [c \in Floats |-> IF inputs[c] = r THEN None ELSE inputs[c]]
HeldOutpoints == {c \in Floats : inputs[c] # None}

OpenCustodyRow(r) ==
    /\ row[r].state = None
    /\ row' = [row EXCEPT ![r] = [NoRow EXCEPT !.state = "held", !.expiresAt = now + Window]]
    /\ UNCHANGED <<inputs, call, spent, landed, now, tokens>>

MutReleasable(w) ==
    \/ w.state = "held"
    \/ w.state = "releasing" /\ w.leaseUntil < now

(* A held row carries no lease, so the lease test of the update never decides. *)
Releasable(w) ==
    /\ w.state = "held"
    /\ w.leaseUntil = 0 \/ w.leaseUntil < now

Claimed(w, token) ==
    [w EXCEPT !.state = "releasing", !.token = token,
              !.leaseUntil = now + LeaseTicks, !.expected = "pending"]

HoldsRelease(w, token) == w.state = "releasing" /\ w.token = token

Abandoned(w) ==
    [w EXCEPT !.state = "held", !.token = 0, !.leaseUntil = 0, !.expected = None]

Released(w) == [w EXCEPT !.state = "released", !.token = 0, !.leaseUntil = 0]

(* abandonRelease: only the claim that failed gives the row back. *)
AbandonRelease(r, token) ==
    IF HoldsRelease(row[r], token)
    THEN row' = [row EXCEPT ![r] = Abandoned(@)] /\ inputs' = Freed(r)
    ELSE UNCHANGED <<row, inputs>>

-----------------------------------------------------------------------------
(* prepare: the checks, the probe, the claim and the selection run without an
   await; the row moves and the coins are chosen in one step. *)

PrepareStart(p, r, plan) ==
    /\ call[p] = NoCall
    /\ tokens < MaxTokens
    /\ plan \in Payouts
    /\ plan \cap spent = {}
    /\ Releasable(row[r])
    /\ tokens' = tokens + 1
    /\ row' = [row EXCEPT ![r] = Claimed(@, tokens + 1)]
    /\ call' = [call EXCEPT ![p] = [step |-> "building", graph |-> [row |-> r, coins |-> plan],
                                    token |-> tokens + 1]]
    /\ UNCHANGED <<inputs, spent, landed, now>>

(* The primary key on the outpoint: another release holds one of the coins. *)
Conflicts(r, coins) == \E c \in coins : inputs[c] \notin {None, r}

(* bindReleaseInputs after the build: a lost claim changes nothing, a coin that
   another release bound rolls the transaction back and the claim is given up. *)
PrepareBind(p) ==
    /\ call[p].step = "building"
    /\ LET g == call[p].graph
           token == call[p].token
       IN  \/ /\ HoldsRelease(row[g.row], token)
              /\ ~Conflicts(g.row, g.coins)
              /\ row' = [row EXCEPT ![g.row].expected = "graph"]
              /\ inputs' = [c \in Floats |-> IF c \in g.coins THEN g.row ELSE Freed(g.row)[c]]
           \/ /\ HoldsRelease(row[g.row], token)
              /\ Conflicts(g.row, g.coins)
              /\ AbandonRelease(g.row, token)
           \/ /\ ~HoldsRelease(row[g.row], token)
              /\ UNCHANGED <<row, inputs>>
    /\ call' = [call EXCEPT ![p] = NoCall]
    /\ UNCHANGED <<spent, landed, now, tokens>>

(* The build threw. *)
PrepareFail(p) ==
    /\ call[p].step = "building"
    /\ AbandonRelease(call[p].graph.row, call[p].token)
    /\ call' = [call EXCEPT ![p] = NoCall]
    /\ UNCHANGED <<spent, landed, now, tokens>>

-----------------------------------------------------------------------------
(* complete: any process may finish a bound release; the lease it records
   under is the one it reads from the row. *)

CommittedTo(r, g) ==
    /\ row[r].expected = "graph"
    /\ g.row = r
    /\ Bound(r) = g.coins

CompleteStart(p, g) ==
    LET w == row[g.row] IN
    /\ call[p] = NoCall
    /\ w.state = "releasing"
    /\ CommittedTo(g.row, g)
    /\ call' = [call EXCEPT ![p] = [step |-> "submitting", graph |-> g, token |-> w.token]]
    /\ UNCHANGED <<row, inputs, spent, landed, now, tokens>>

(* The network accepts a graph whose coins are unspent, or one it already has. *)
Accepts(g) == g \in landed \/ g.coins \cap spent = {}

SubmitAnswered(p) ==
    /\ call[p].step = "submitting"
    /\ Accepts(call[p].graph)
    /\ landed' = landed \cup {call[p].graph}
    /\ spent' = spent \cup call[p].graph.coins
    /\ call' = [call EXCEPT ![p].step = "answered"]
    /\ UNCHANGED <<row, inputs, now, tokens>>

(* The submission throws: refused, or accepted and the answer lost.  The row
   stays `releasing`. *)
SubmitFailed(p) ==
    /\ call[p].step = "submitting"
    /\ \/ UNCHANGED <<landed, spent>>
       \/ /\ Accepts(call[p].graph)
          /\ landed' = landed \cup {call[p].graph}
          /\ spent' = spent \cup call[p].graph.coins
    /\ call' = [call EXCEPT ![p] = NoCall]
    /\ UNCHANGED <<row, inputs, now, tokens>>

RecordReleased(p) ==
    /\ call[p].step = "answered"
    /\ LET g == call[p].graph IN
       IF HoldsRelease(row[g.row], call[p].token) /\ CommittedTo(g.row, g)
       THEN row' = [row EXCEPT ![g.row] = Released(@)] /\ inputs' = Freed(g.row)
       ELSE UNCHANGED <<row, inputs>>
    /\ call' = [call EXCEPT ![p] = NoCall]
    /\ UNCHANGED <<spent, landed, now, tokens>>

-----------------------------------------------------------------------------
(* The operator's write-off, once the window has elapsed. *)
WriteOff(r) ==
    /\ row[r].state = "held"
    /\ now >= row[r].expiresAt
    /\ row' = [row EXCEPT ![r].state = "forfeit"]
    /\ UNCHANGED <<inputs, call, spent, landed, now, tokens>>

(* Lending or background settlement spends a coin; the coins an in-flight
   release binds are withheld from it. *)
SpendElsewhere(c) ==
    /\ c \notin spent \cup HeldOutpoints
    /\ spent' = spent \cup {c}
    /\ UNCHANGED <<row, inputs, call, landed, now, tokens>>

CrashRequest(p) ==
    /\ call[p] # NoCall
    /\ call' = [call EXCEPT ![p] = NoCall]
    /\ UNCHANGED <<row, inputs, spent, landed, now, tokens>>

Tick ==
    /\ now < MaxTime
    /\ now' = now + 1
    /\ UNCHANGED <<row, inputs, call, spent, landed, tokens>>

CustodyNext ==
    \/ \E r \in Rows : OpenCustodyRow(r) \/ WriteOff(r)
    \/ \E p \in Calls, r \in Rows, plan \in Payouts : PrepareStart(p, r, plan)
    \/ \E p \in Calls : PrepareBind(p) \/ PrepareFail(p)
    \/ \E p \in Calls, g \in Graphs : CompleteStart(p, g)
    \/ \E p \in Calls : SubmitAnswered(p) \/ SubmitFailed(p) \/ RecordReleased(p) \/ CrashRequest(p)
    \/ \E c \in Floats : SpendElsewhere(c)
    \/ Tick

CustodySpec == CustodyInit /\ [][CustodyNext]_custodyVars

-----------------------------------------------------------------------------
TypeOK ==
    /\ row \in [Rows -> Row]
    /\ inputs \in [Floats -> Rows \cup {None}]
    /\ spent \subseteq Floats
    /\ landed \subseteq Graphs
    /\ now \in 0 .. MaxTime
    /\ tokens \in 0 .. MaxTokens

(* However the requests of several processes interleave, fail or stop, an
   owner is paid at most once, a liability written off is never paid as well,
   and a row is closed as released only by a payout that landed. *)
PaidOnce ==
    \A r \in Rows :
        LET paid == {g \in landed : g.row = r} IN
        /\ Cardinality(paid) <= 1
        /\ row[r].state \in {"held", "forfeit"} => paid = {}
        /\ row[r].state = "released" => paid # {}

(* A payout that may still land has its coins to itself: the row is
   `releasing`, every coin of the graph is bound to it, and nothing but this
   payout can have spent them once it was submitted. *)
LivePayoutHoldsItsCoins ==
    \A p \in Calls :
        call[p].step \in {"submitting", "answered"} =>
            LET g == call[p].graph IN
            row[g.row].state = "releasing" => Bound(g.row) = g.coins

(* One liability is paid once, out of coins no other payout has. *)
PayoutIsExclusive == PaidOnce /\ LivePayoutHoldsItsCoins
=============================================================================
