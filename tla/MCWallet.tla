------------------------------ MODULE MCWallet ------------------------------
(* A wallet in the background: its history of a payment, the feed of its
   incoming claims and the queue that takes them.  They meet only in the claim
   one offers and the other takes, which both sides let come and go at any
   time; so a behaviour is one part's, with the others at rest. *)
EXTENDS Activity, ClaimFeed, ClaimQueue

VARIABLE part

walletVars == <<part, historyVars, feedVars, queueVars>>

WalletInit ==
    /\ part \in {"history", "feed", "queue"}
    /\ HistoryInit /\ FeedInit /\ QueueInit
    /\ part # "feed" => terms = "own"
    /\ part # "history" => mode = "covenant" /\ role = "sender"

WalletNext ==
    /\ part' = part
    /\ \/ part = "history" /\ HistoryNext /\ UNCHANGED <<feedVars, queueVars>>
       \/ part = "feed" /\ FeedNext /\ UNCHANGED <<historyVars, queueVars>>
       \/ part = "queue" /\ QueueNext /\ UNCHANGED <<historyVars, feedVars>>

(* HistoryFairness, FeedFairness and QueueFairness, of the part that moves. *)
WalletFairness ==
    /\ WF_historyVars(part = "history" /\ \E r \in Readers : Poll(r))
    /\ \A r \in Readers : WF_historyVars(part = "history" /\ Answer(r))
    /\ WF_feedVars(part = "feed" /\ Subscribe) /\ WF_feedVars(part = "feed" /\ Sample)
    /\ WF_feedVars(part = "feed" /\ Flush) /\ WF_feedVars(part = "feed" /\ Flushed)
    /\ WF_feedVars(part = "feed" /\ Connect) /\ WF_feedVars(part = "feed" /\ Receive)
    /\ WF_feedVars(part = "feed" /\ ReadCoin)
    /\ WF_feedVars(part = "feed" /\ ReadStatusOfClaim) /\ WF_feedVars(part = "feed" /\ Verified)
    /\ QueueFairness

WalletSpec == WalletInit /\ [][WalletNext]_walletVars /\ WalletFairness
=============================================================================
