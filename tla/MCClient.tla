------------------------------ MODULE MCClient ------------------------------
(* The client's side of a payment: what it checks before it signs, what its
   signatures are worth, and how it stands by a payment it has signed.  The
   three abstract different data of one payment and share no state: a behaviour
   is one part's, with the others at rest. *)
EXTENDS MCValueFlow, MCJointSigning, Sender, TLC

VARIABLE part

ValueRests == Init /\ ask = CHOOSE a \in Asks : TRUE
SigningRests == SigningInit /\ graph = CHOOSE g \in Graphs : TRUE

ClientInit ==
    /\ part \in {"value", "signing", "sender"}
    /\ SenderInit
    /\ \/ part = "value" /\ Init /\ SigningRests
       \/ part = "signing" /\ SigningInit /\ ValueRests
       \/ part = "sender" /\ SigningRests /\ ValueRests

ClientNext ==
    /\ part' = part
    /\ \/ part = "value" /\ Next /\ UNCHANGED <<signingVars, senderVars>>
       \/ part = "signing" /\ SigningNext /\ UNCHANGED <<vars, senderVars>>
       \/ part = "sender" /\ SenderNext /\ UNCHANGED <<vars, signingVars>>

(* The wallet's contexts are alike. *)
AnyContext == Permutations(Contexts)

ClientSpec == ClientInit /\ [][ClientNext]_<<part, vars, signingVars, senderVars>>
=============================================================================
