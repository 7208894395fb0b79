----------------------------- MODULE ClaimFeed -----------------------------
(***************************************************************************)
(* Delivery of a receiver's claim from the Taxi's rows to the wallet.  A   *)
(* subscription starts from a baseline of the rows, samples them every     *)
(* quarter of a second, keeps the change that waits for the stream and     *)
(* writes it in a batch.  The wallet's watch considers each claim it is    *)
(* told of: a claimable one is verified against its own trust, the         *)
(* provider's coin and a fresh status, then offered; one that ended is     *)
(* withdrawn.  The stream breaks, and a new one starts from a snapshot of  *)
(* the active claims.  Claims do not influence one another: this is one.   *)
(***************************************************************************)
EXTENDS Naturals, Sequences

CONSTANTS
    MaxDrops,      \* bound: streams that break
    MaxRenewals,   \* bound: renewals of the covenant into a new outpoint
    MaxFailures    \* bound: verifications the provider fails

ASSUME FeedAssumption == MaxDrops \in Nat /\ MaxRenewals \in Nat /\ MaxFailures \in Nat

VARIABLES
    terms,      \* what its descriptor is to this wallet: its own, another's, or at
                \* odds with what the wallet trusts
    row,        \* the transfer at the Taxi: state and covenant outpoint
    previous,   \* the subscription's fingerprint of the claim
    pending,    \* its change that waits for the stream, or Nothing
    writing,    \* the feed awaits the stream
    stream,     \* frames on their way to the wallet
    link,       \* the wallet's event source
    verifying,  \* the claim under verification: as heard, and how far its facts are read
    withdrawn,  \* withdrawnDuringVerification
    verified,   \* the outpoint offered, or Nothing
    stopped,    \* the watch is stopped
    drops, failures

watchVars == <<verifying, withdrawn, verified>>
feedVars == <<terms, row, previous, pending, writing, stream, link, verifying, withdrawn, verified,
          stopped, drops, failures>>

Nothing == "none"
Active == {"locking", "locked", "recovering"}
States == {"quoted", "ended"} \cup Active
Outpoints == 0 .. MaxRenewals

Claim(state, outpoint) == [state |-> state, outpoint |-> outpoint]
NoClaim == Claim(Nothing, 0)
NotVerifying == [claim |-> NoClaim, facts |-> Nothing]
NoOffer == MaxRenewals + 1

Frame(event, claim) == [event |-> event, claim |-> claim]

FeedInit ==
    /\ terms \in {"own", "foreign", "wrong"}
    /\ row = Claim("quoted", 0)
    /\ previous = NoClaim
    /\ pending = NoClaim
    /\ writing = FALSE
    /\ stream = <<>>
    /\ link = "closed"
    /\ verifying = NotVerifying
    /\ withdrawn = FALSE
    /\ verified = NoOffer
    /\ stopped = FALSE
    /\ drops = 0
    /\ failures = 0

-----------------------------------------------------------------------------
(* The Taxi.                                                                *)

Moves ==
    {<<"quoted", "locking">>, <<"locking", "locked">>, <<"locking", "ended">>,
     <<"locked", "recovering">>, <<"locked", "ended">>, <<"recovering", "ended">>}

Transfer ==
    /\ \/ \E s \in States : <<row.state, s>> \in Moves /\ row' = [row EXCEPT !.state = s]
       \/ /\ row.state = "locked" /\ row.outpoint < MaxRenewals
          /\ row' = [row EXCEPT !.outpoint = @ + 1]
    /\ UNCHANGED <<terms, previous, pending, writing, stream, link, verifying, withdrawn, verified,
                   stopped, drops, failures>>

(* listReceiverClaims over active and terminal states: quotes are hidden.   *)
Listed == IF row.state = "quoted" THEN NoClaim ELSE row

Subscribed == link = "open"

(* GET /v1/claims/events: one read is both the snapshot and the baseline,   *)
(* and the subscription starts before the snapshot frame is through.        *)
Subscribe ==
    /\ link = "connecting"
    /\ link' = "open"
    /\ previous' = Listed
    /\ pending' = NoClaim
    /\ writing' = FALSE
    /\ stream' = <<Frame("snapshot", IF Listed.state \in Active THEN Listed ELSE NoClaim)>>
    /\ UNCHANGED <<terms, row, verifying, withdrawn, verified, stopped, drops, failures>>

MutSampled == row.state \in Active /\ Listed # previous

Sampled == Listed # previous

(* sample: a changed claim waits, in the place of an older change.          *)
Sample ==
    /\ Subscribed /\ Listed # previous
    /\ previous' = Listed
    /\ pending' = IF Sampled THEN Listed ELSE pending
    /\ UNCHANGED <<terms, row, writing, stream, link, verifying, withdrawn, verified, stopped,
                   drops, failures>>

(* flush: one batch at a time; what changes meanwhile waits for the next.   *)
Flush ==
    /\ Subscribed /\ ~writing /\ pending # NoClaim
    /\ writing' = TRUE
    /\ stream' = Append(stream, Frame("changed", pending))
    /\ pending' = NoClaim
    /\ UNCHANGED <<terms, row, previous, link, verifying, withdrawn, verified, stopped, drops, failures>>

(* The write is through once the frame has left.                            *)
Flushed ==
    /\ Subscribed /\ writing
    /\ writing' = FALSE
    /\ UNCHANGED <<terms, row, previous, pending, stream, link, verifying, withdrawn, verified,
                   stopped, drops, failures>>

(* The connection breaks, the projection fails or the process restarts; the *)
(* frames under way are lost.                                               *)
Drop ==
    /\ Subscribed /\ drops < MaxDrops
    /\ drops' = drops + 1
    /\ link' = "closed"
    /\ stream' = <<>>
    /\ UNCHANGED <<terms, row, previous, pending, writing, verifying, withdrawn, verified, stopped, failures>>

(* The event source reconnects by itself, or a closed one is subscribed     *)
(* anew after the back-off.                                                 *)
Connect ==
    /\ link = "closed" /\ ~stopped
    /\ link' = "connecting"
    /\ UNCHANGED <<terms, row, previous, pending, writing, stream, verifying, withdrawn, verified,
                   stopped, drops, failures>>

-----------------------------------------------------------------------------
(* The watch.                                                               *)

Claimable(claim) == claim.state = "locked"
Offered == verified # NoOffer

(* triage: a claim for another address, of an unknown operator or in a form *)
(* the wallet does not take is left alone.                                  *)
Recognised == terms # "foreign"

(* incomingClaimFacts: the descriptor against what the wallet expects and   *)
(* the covenant address its terms derive.                                   *)
FactsHold == terms # "wrong"

(* consider: what is no longer claimable is withdrawn; a known offer is     *)
(* offered again as it is; a claim under verification is left to it.        *)
DropOffer ==
    /\ withdrawn' = (withdrawn \/ verifying # NotVerifying)
    /\ verified' = NoOffer
    /\ UNCHANGED verifying

Consider(claim) ==
    IF claim = NoClaim THEN UNCHANGED watchVars
    ELSE IF ~Claimable(claim) THEN DropOffer
    ELSE IF ~Recognised \/ Offered \/ verifying # NotVerifying THEN UNCHANGED watchVars
    ELSE /\ withdrawn' = FALSE
         /\ verifying' = [claim |-> claim, facts |-> IF FactsHold THEN "sound" ELSE "bad"]
         /\ UNCHANGED verified

(* What a snapshot leaves out ended while the feed was down.                *)
Unlisted(claim) == DropOffer

Receive ==
    /\ stream # <<>> /\ ~stopped
    /\ stream' = Tail(stream)
    /\ LET frame == Head(stream) IN
       IF frame.event = "snapshot" /\ frame.claim = NoClaim
       THEN Unlisted(frame.claim)
       ELSE Consider(frame.claim)
    /\ UNCHANGED <<terms, row, previous, pending, writing, link, stopped, drops, failures>>

(* observe: the provider is the trusted one and has the coin, unspent, at   *)
(* the claim's outpoint.                                                    *)
CoinStands(claim) == claim.outpoint = row.outpoint /\ row.state \in {"locked", "recovering"}

(* assertIncomingStatus                                                     *)
StatusNames(claim) == row = claim

Reads(step, next, holds) ==
    /\ verifying.facts = step
    /\ \/ /\ verifying' = [verifying EXCEPT !.facts = IF holds THEN next ELSE "bad"]
          /\ UNCHANGED failures
       \/ /\ failures < MaxFailures
          /\ failures' = failures + 1
          /\ verifying' = [verifying EXCEPT !.facts = "bad"]
    /\ UNCHANGED <<terms, row, previous, pending, writing, stream, link, withdrawn, verified, stopped,
                   drops>>

(* verifyObservedClaim: the outpoint goes only to a provider that proved to *)
(* be the trusted one, and the status is read after the coin.               *)
ReadCoin == Reads("sound", "coin", CoinStands(verifying.claim))
ReadStatusOfClaim == Reads("coin", "verified", StatusNames(verifying.claim))

(* The verification's continuation: offered unless it failed, the watch     *)
(* stopped or the claim was withdrawn meanwhile.                            *)
Verified ==
    /\ verifying.facts \in {"verified", "bad"}
    /\ verifying' = NotVerifying
    /\ IF verifying.facts = "bad" \/ stopped
       THEN UNCHANGED <<withdrawn, verified>>
       ELSE /\ withdrawn' = FALSE
            /\ verified' = IF withdrawn THEN verified ELSE verifying.claim.outpoint
    /\ UNCHANGED <<terms, row, previous, pending, writing, stream, link, stopped, drops, failures>>

Stop ==
    /\ ~stopped
    /\ stopped' = TRUE
    /\ link' = "closed"
    /\ stream' = <<>>
    /\ UNCHANGED <<terms, row, previous, pending, writing, verifying, withdrawn, verified, drops, failures>>

FeedNext ==
    \/ Transfer \/ Subscribe \/ Sample \/ Flush \/ Flushed \/ Drop \/ Connect
    \/ Receive \/ ReadCoin \/ ReadStatusOfClaim \/ Verified \/ Stop

(* The feed's timer, the stream and the wallet keep running; nothing makes  *)
(* a transfer move, a stream break or a watch stop.                         *)
FeedFairness ==
    /\ WF_feedVars(Subscribe) /\ WF_feedVars(Sample) /\ WF_feedVars(Flush) /\ WF_feedVars(Flushed)
    /\ WF_feedVars(Connect) /\ WF_feedVars(Receive) /\ WF_feedVars(ReadCoin)
    /\ WF_feedVars(ReadStatusOfClaim) /\ WF_feedVars(Verified)

FeedSpec == FeedInit /\ [][FeedNext]_feedVars /\ FeedFairness

-----------------------------------------------------------------------------
(* A watch that runs ends up offering its own claim that stays locked, and  *)
(* for good without one that is settled or recovering, whatever broke,      *)
(* lagged or overtook a verification on the way; it offers no other claim.  *)
(* A verification that failed, or that a renewal overtook, is repeated only *)
(* when the Taxi names the claim again: such a claim may stay unoffered.    *)
(* (claimFeed.ts, the events route and watchReceiverClaims.)                *)
OffersFollowTheTaxi ==
    /\ <>[](row = Claim("locked", 0) /\ terms = "own" /\ ~stopped /\ failures = 0) => <>[]Offered
    /\ [](row.state \in {"recovering", "ended"} => <>(stopped \/ [](~Offered)))
    /\ [](terms # "own" => ~Offered)
=============================================================================
