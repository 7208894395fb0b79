----------------------------- MODULE ClaimQueue -----------------------------
(***************************************************************************)
(* The wallet's queue of verified claims.  One run at a time goes through  *)
(* the standing offers: it takes the wallet's transaction lock, reads the  *)
(* spendable coins, plans a recycle with a coin or a purchase without one, *)
(* consumes the transfer's one-shot capability, checks the facts, signs    *)
(* through an identity guarded by the run's authorization and submits to   *)
(* the emulator.  Offers come and go, the wallet is switched off and on,   *)
(* and the user asks for a paid claim, at any await.  A claim that must be *)
(* recycled waits when no coin covers it; options.allowed() is an outer    *)
(* condition that stays true here.                                         *)
(***************************************************************************)
EXTENDS Naturals, FiniteSets

CONSTANTS
    Claims, Coins,
    Paid,         \* claims with a receiver fare: never taken automatically
    Recycled,     \* claims that take a coin: the paid, and the free in recycle mode
    MaxOffers,    \* bound: verifications of one claim
    MaxToggles,   \* bound: times the wallet or its automation is switched
    MaxFaults     \* bound: failed reads and calls

ASSUME QueueAssumption ==
    /\ Paid \subseteq Recycled /\ Recycled \subseteq Claims
    /\ MaxOffers \in Nat /\ MaxToggles \in Nat /\ MaxFaults \in Nat

VARIABLES
    offers,      \* the standing offer of each claim: which verification, or 0
    given,       \* verifications so far
    capability,  \* claims whose one-shot capability is consumed
    alive, active, automatic, epoch,
    scheduled,   \* the microtask of wake is queued
    running,     \* the run in progress
    woken,       \* wake was called while it ran
    overtaken,   \* a user's claim began before the microtask of a wake, which
                 \* then did nothing, and no run has gone through the offers since
    asked,       \* claims the user asked for, with the epoch they asked in
    claimed, spent, consumed,
    graphs,      \* spends signed by the owner or handed to the emulator
    landed,      \* spends the network took
    toggles, faults

switchVars == <<alive, active, automatic, epoch, toggles>>
outcomeVars == <<claimed, spent>>
userVars == <<asked, overtaken>>
queueVars == <<offers, given, capability, switchVars, scheduled, running, woken, userVars,
          outcomeVars, consumed, graphs, landed, faults>>

Absent == "none"
Spend(c, k) == [claim |-> c, coin |-> k]

Rest == [automatic |-> FALSE, epoch |-> 0, tried |-> {}, step |-> Absent, claim |-> Absent,
         offer |-> 0, coin |-> Absent]
Runs == [automatic : BOOLEAN, epoch : 0 .. MaxToggles, tried : SUBSET Claims,
         step : {Absent, "next", "lock", "facts", "signed", "submitted"},
         claim : Claims \cup {Absent}, offer : 0 .. MaxOffers, coin : Coins \cup {Absent}]

Running == running # Rest

QueueInit ==
    /\ offers = [c \in Claims |-> 0]
    /\ given = [c \in Claims |-> 0]
    /\ capability = {}
    /\ alive = TRUE /\ active = TRUE /\ automatic = TRUE /\ epoch = 0
    /\ scheduled = FALSE
    /\ running = Rest
    /\ woken = FALSE /\ overtaken = FALSE
    /\ asked = {}
    /\ claimed = {} /\ spent = {} /\ consumed = {}
    /\ graphs = {} /\ landed = {}
    /\ toggles = 0 /\ faults = 0

-----------------------------------------------------------------------------
(* Waking: a microtask starts a run unless one is running, which then       *)
(* wakes the queue again at its end.                                        *)

Wake(on) ==
    /\ woken' = (woken \/ Running)
    /\ scheduled' = (scheduled \/ (on /\ ~Running))

Authorized(e) == alive /\ active /\ epoch = e

Start ==
    /\ scheduled
    /\ scheduled' = FALSE
    /\ IF alive /\ active /\ ~Running
       THEN /\ running' = [Rest EXCEPT !.automatic = TRUE, !.epoch = epoch, !.step = "next"]
            /\ woken' = FALSE /\ overtaken' = FALSE
       ELSE UNCHANGED <<running, woken, overtaken>>
    /\ UNCHANGED <<offers, given, capability, switchVars, asked, outcomeVars, consumed, graphs,
                   landed, faults>>

-----------------------------------------------------------------------------
(* What the rest of the wallet calls.                                       *)

\* The registry of capabilities: a verification finds the one an earlier transfer
\* of the same outpoint left, unless nothing refers to it any more.
Capabilities(c) == IF running.claim = c THEN {capability} ELSE {capability, capability \ {c}}

\* A claim the watch has verified.
Offer(c) ==
    /\ alive /\ c \notin claimed
    /\ \/ offers[c] # 0 /\ UNCHANGED <<offers, given, capability>>
       \/ /\ offers[c] = 0 /\ given[c] < MaxOffers
          /\ given' = [given EXCEPT ![c] = @ + 1]
          /\ offers' = [offers EXCEPT ![c] = given[c] + 1]
          /\ capability' \in Capabilities(c)
    /\ Wake(active)
    /\ UNCHANGED <<switchVars, running, userVars, outcomeVars, consumed, graphs, landed, faults>>

Withdraw(c) ==
    /\ offers[c] # 0
    /\ offers' = [offers EXCEPT ![c] = 0]
    /\ UNCHANGED <<given, capability, switchVars, scheduled, running, woken, userVars, outcomeVars,
                   consumed, graphs, landed, faults>>

SetAutomatic ==
    /\ alive /\ toggles < MaxToggles
    /\ toggles' = toggles + 1
    /\ automatic' = ~automatic
    /\ Wake(active)
    /\ UNCHANGED <<offers, given, capability, alive, active, epoch, running, userVars, outcomeVars,
                   consumed, graphs, landed, faults>>

SetActive ==
    /\ alive /\ toggles < MaxToggles
    /\ toggles' = toggles + 1
    /\ active' = ~active
    /\ epoch' = epoch + 1
    /\ Wake(~active)
    /\ UNCHANGED <<offers, given, capability, alive, automatic, running, userVars, outcomeVars,
                   consumed, graphs, landed, faults>>

Dispose ==
    /\ alive /\ toggles < MaxToggles
    /\ toggles' = toggles + 1
    /\ alive' = FALSE
    /\ epoch' = epoch + 1
    /\ UNCHANGED <<offers, given, capability, active, automatic, scheduled, running, woken, userVars,
                   outcomeVars, consumed, graphs, landed, faults>>

\* claim: waits for the run in progress, and for whatever starts before it.
Ask(c) ==
    /\ \A a \in asked : a.claim # c
    /\ offers[c] # 0 /\ alive /\ active
    /\ asked' = asked \cup {[claim |-> c, epoch |-> epoch]}
    /\ UNCHANGED <<offers, given, capability, switchVars, scheduled, running, woken, overtaken,
                   outcomeVars, consumed, graphs, landed, faults>>

Enter(c, r) == [r EXCEPT !.claim = c, !.offer = offers[c], !.step = "lock"]

AskedTurn(a) == a \in asked /\ ~Running

StartAsked(a) ==
    /\ AskedTurn(a)
    /\ asked' = asked \ {a}
    /\ IF Authorized(a.epoch) /\ offers[a.claim] # 0 /\ a.claim \notin spent
       THEN /\ running' = Enter(a.claim, [Rest EXCEPT !.epoch = a.epoch])
            /\ woken' = FALSE
            /\ overtaken' = (overtaken \/ scheduled)
       ELSE UNCHANGED <<running, woken, overtaken>>
    /\ UNCHANGED <<offers, given, capability, switchVars, scheduled, outcomeVars, consumed, graphs,
                   landed, faults>>

-----------------------------------------------------------------------------
(* The run.                                                                 *)

Valid == Authorized(running.epoch) /\ offers[running.claim] = running.offer

MutRests == /\ running' = Rest
            /\ woken' = FALSE
            /\ UNCHANGED scheduled

\* start's finally
Rests ==
    /\ running' = Rest
    /\ woken' = FALSE
    /\ scheduled' = (scheduled \/ (woken /\ alive /\ active))

\* One offer is done with, whatever came of it.
Over ==
    IF running.automatic
    THEN /\ running' = [running EXCEPT !.step = "next", !.claim = Absent, !.offer = 0, !.coin = Absent]
         /\ UNCHANGED <<woken, scheduled>>
    ELSE Rests

NextOffer ==
    LET untried == {c \in Claims \ running.tried : offers[c] # 0} IN
    /\ running.step = "next"
    /\ IF ~Authorized(running.epoch) \/ untried = {}
       THEN Rests
       ELSE /\ \E c \in untried :
                 LET r == [running EXCEPT !.tried = @ \cup {c}] IN
                 running' = IF c \in spent THEN r ELSE Enter(c, r)
            /\ UNCHANGED <<woken, scheduled>>
    /\ UNCHANGED <<offers, given, capability, switchVars, userVars, outcomeVars, consumed, graphs,
                   landed, faults>>

Fault == faults < MaxFaults /\ faults' = faults + 1

Spendable == {k \in Coins : \A g \in landed : g.coin # k}
Unspent(c) == \A g \in landed : g.claim # c

MutAvailable == Spendable

\* A coin of an earlier claim may look spendable until its spend lands.
Available == Spendable \ consumed

\* planReceiverClaim: a recycle with a coin that covers it, or a purchase, where the terms
\* allow one.
Plans(c) == {Spend(c, k) : k \in Available} \cup (IF c \in Recycled THEN {} ELSE {Spend(c, Absent)})

Takes(c) == running.automatic => automatic /\ c \notin Paid

\* activeState: the one-shot capability is consumed, or was before.
Activate(g) ==
    /\ capability' = capability \cup {g.claim}
    /\ IF g.claim \in capability
       THEN Over /\ spent' = spent \cup {g.claim}
       ELSE /\ running' = [running EXCEPT !.step = "facts", !.coin = g.coin]
            /\ UNCHANGED <<woken, scheduled, spent>>

\* coordinate(execute): the lock is granted, the coins are read and the chosen
\* one is set aside before claimVerified runs; a claim no coin covers waits.
Plan ==
    LET c == running.claim IN
    /\ running.step = "lock"
    /\ \/ /\ Valid /\ Takes(c) /\ Plans(c) # {}
          /\ \E g \in Plans(c) :
                /\ consumed' = IF g.coin = Absent THEN consumed ELSE consumed \cup {g.coin}
                /\ Activate(g)
          /\ UNCHANGED faults
       \/ /\ ~(Valid /\ Takes(c)) \/ c \in Recycled
          /\ Over
          /\ UNCHANGED <<consumed, capability, spent, faults>>
       \/ /\ Fault
          /\ Over
          /\ UNCHANGED <<consumed, capability, spent>>
    /\ UNCHANGED <<offers, given, switchVars, userVars, claimed, graphs, landed>>

Fails ==
    /\ Over
    /\ spent' = spent \cup {running.claim}
    /\ UNCHANGED graphs

\* guardedClaimIdentity: the run still stands, and an automatic one still may.
Allowed == Valid /\ Takes(running.claim)

\* refresh: the covenant and the receiver's coin are unspent, as verified.
InputsStand(c, k) == Unspent(c) /\ k \in Spendable \cup {Absent}

\* The owner signs a recycle.  A purchase has no input of the owner's: nothing
\* asks it.
Sign ==
    LET c == running.claim IN
    /\ running.step = "facts"
    /\ \/ /\ InputsStand(c, running.coin) /\ (running.coin = Absent \/ Allowed)
          /\ graphs' = graphs \cup {Spend(c, running.coin)}
          /\ running' = [running EXCEPT !.step = "signed"]
          /\ UNCHANGED <<woken, scheduled, spent, faults>>
       \/ /\ ~(InputsStand(c, running.coin) /\ (running.coin = Absent \/ Allowed))
          /\ Fails
          /\ UNCHANGED faults
       \/ Fault /\ Fails
    /\ UNCHANGED <<offers, given, capability, switchVars, userVars, claimed, consumed, landed>>

\* The provider is asked once more, and the graph goes to the emulator, which
\* completes and submits it, or may have when the answer is lost.
Submit ==
    LET c == running.claim IN
    /\ running.step = "signed"
    /\ \/ /\ InputsStand(c, running.coin)
          /\ landed' = landed \cup {Spend(c, running.coin)}
          /\ \/ /\ running' = [running EXCEPT !.step = "submitted"]
                /\ UNCHANGED <<woken, scheduled, spent, faults>>
             \/ Fault /\ Over /\ spent' = spent \cup {c}
       \/ /\ Fault
          /\ Over
          /\ spent' = spent \cup {c}
          /\ UNCHANGED landed
       \/ /\ ~InputsStand(c, running.coin)
          /\ Over
          /\ spent' = spent \cup {c}
          /\ UNCHANGED <<landed, faults>>
    /\ UNCHANGED <<offers, given, capability, switchVars, userVars, claimed, consumed, graphs>>

\* recordClaim (a failure is reported only), the offer is dropped and, if the
\* run still stands, the wallet reloads.
Claimed ==
    LET c == running.claim IN
    /\ running.step = "submitted"
    /\ claimed' = claimed \cup {c}
    /\ offers' = IF offers[c] = running.offer THEN [offers EXCEPT ![c] = 0] ELSE offers
    /\ Over
    /\ UNCHANGED <<given, capability, switchVars, userVars, spent, consumed, graphs, landed, faults>>

-----------------------------------------------------------------------------
(* A graph the emulator was given lands after all, or the Taxi or the       *)
(* sender's recovery takes the covenant first.                              *)
LandsLate ==
    /\ \E g \in graphs \ landed :
          /\ g.claim \in spent
          /\ Unspent(g.claim)
          /\ g.coin \in Spendable \cup {Absent}
          /\ landed' = landed \cup {g}
    /\ UNCHANGED <<offers, given, capability, switchVars, scheduled, running, woken, userVars,
                   outcomeVars, consumed, graphs, faults>>

QueueNext ==
    \/ \E c \in Claims : Offer(c) \/ Withdraw(c) \/ Ask(c)
    \/ SetAutomatic \/ SetActive \/ Dispose
    \/ Start \/ \E a \in asked : StartAsked(a)
    \/ NextOffer \/ Plan \/ Sign \/ Submit \/ Claimed
    \/ LandsLate

(* Microtasks and awaited calls run; every call of the wallet's is bounded. *)
QueueFairness ==
    /\ WF_queueVars(Start) /\ WF_queueVars(\E a \in asked : StartAsked(a))
    /\ WF_queueVars(NextOffer) /\ WF_queueVars(Plan) /\ WF_queueVars(Sign)
    /\ WF_queueVars(Submit) /\ WF_queueVars(Claimed)

QueueSpec == QueueInit /\ [][QueueNext]_queueVars /\ QueueFairness

-----------------------------------------------------------------------------
(* No coin is signed into two claims and no claim is signed twice, though   *)
(* an attempt whose answer was lost may still land, a withdrawn claim is    *)
(* verified and offered again with a fresh capability, and the user's       *)
(* claims race the automatic run.  (TaxiClaimQueue.consumed, spent and      *)
(* claimed, the single run, and the capability's lifecycle.)                *)
OneSpendEach ==
    \A g, h \in graphs :
        g # h => g.claim # h.claim /\ (g.coin = Absent \/ g.coin # h.coin)

(* A free offer that may be bought does not stand for ever in front of an   *)
(* automatic queue that is on: it is claimed, its attempt failed, or it was *)
(* withdrawn.  Excepted is an offer whose wake a user's claim overtook,     *)
(* which stands until the next event.  (wake, the microtask, and the wake a *)
(* finished run owes.)                                                      *)
FreeOffersAreTaken ==
    \A c \in Claims \ Recycled :
        ~<>[](offers[c] # 0 /\ alive /\ active /\ automatic /\ faults = 0 /\ c \notin spent
              /\ ~overtaken)
=============================================================================
