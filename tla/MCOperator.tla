----------------------------- MODULE MCOperator -----------------------------
(* The operator's own money: its settlements, the payouts of reclaimed
   advances, the review of settled verdicts, which may pause both, and the
   registration of live covenants with the wallet.  They share coins only
   through what each reads as spent from outside, so a behaviour is one
   part's, with the others at rest. *)
EXTENDS Treasury, Custody, TerminalReview, Subscription

VARIABLE part

operatorVars == <<part, vars, custodyVars, reviewVars, subscriptionVars>>

(* Other code registered one of the scripts with one of the managers. *)
MCForeign == {<<CHOOSE m \in Managers : TRUE, CHOOSE s \in Scripts : TRUE>>}

OperatorInit ==
    /\ part \in {"treasury", "custody", "review", "watch"}
    /\ Init /\ CustodyInit /\ ReviewInit /\ SubscriptionInit
    /\ part # "review" => tip.hash = CHOOSE h \in Hashes : TRUE
    /\ part # "watch" => attached = CHOOSE m \in Managers : TRUE

OperatorNext ==
    /\ part' = part
    /\ \/ part = "treasury" /\ Next /\ UNCHANGED <<custodyVars, reviewVars, subscriptionVars>>
       \/ part = "custody" /\ CustodyNext /\ UNCHANGED <<vars, reviewVars, subscriptionVars>>
       \/ part = "review" /\ ReviewNext /\ UNCHANGED <<vars, custodyVars, subscriptionVars>>
       \/ part = "watch" /\ SubscriptionNext /\ UNCHANGED <<vars, custodyVars, reviewVars>>

OperatorSpec == OperatorInit /\ [][OperatorNext]_operatorVars

(* No step reads the state of an active job's row: rows that differ in
   nothing else are one. *)
Distinguished ==
    <<part, coin, reserved, draft, [job EXCEPT !.state = ""], jobs, intents, worker,
      renewal, turn, wallet, since, up, lapses, custodyVars, reviewVars,
      subscriptionVars>>
=============================================================================
