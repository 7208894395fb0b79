---------------------------- MODULE JointSigning ----------------------------
(***************************************************************************)
(* Who signs what before a transaction counts.  Four routes share the      *)
(* shape: the other party signs and posts (a transfer, a fill), the local  *)
(* party checks it, signs its own inputs through an identity it does not   *)
(* trust, sends the graph to a provider and judges the answer.             *)
(*                                                                         *)
(*   lockup    the service and arkd: submitTx, then finalizeTx             *)
(*   fill      the service and arkd or, with a gated input, the emulator   *)
(*   spend     the client's covenant spend through the emulator            *)
(*   recovery  the service's reclaim through the emulator                  *)
(*                                                                         *)
(* An input has an Ark place and a checkpoint place with one leaf.  A      *)
(* place has at most one signature of a key, which verifies or does not;   *)
(* body says that the unsigned fields are those of the agreed graph.       *)
(***************************************************************************)
EXTENDS Integers, FiniteSets

CONSTANT Graphs    \* route, leaf of each input, gated inputs, own inputs, own key

VARIABLES
    graph,   \* the agreed graph
    signing,   \* open, posted, accepted, signed, sent, answered, recorded, or an end
    sheet,   \* body and signatures as the local party holds them
    arkd,    \* what arkd has of the transaction: none, accepted, final
    answer,  \* the provider's answer
    honest   \* the provider answered, and nothing in its answer was altered

signingVars == <<graph, signing, sheet, arkd, answer, honest>>

Keys == {"sender", "solver", "receiver", "taxi", "server", "cosigner", "stranger"}
Marks == {"none", "good", "bad"}

Inputs == DOMAIN graph.leaf
Places == {"ark", "cp"} \X Inputs
At(s, pl, key) == s.sig[pl][key]
Signers(s, pl) == {k \in Keys : At(s, pl, k) # "none"}
Leaf(pl) == graph.leaf[pl[2]]
Mine(pl) == pl[2] \in graph.mine
Gated(pl) == pl[2] \in graph.gated
ProviderOnly(pl) == Gated(pl) /\ Leaf(pl) = {"cosigner", "server"}

Unsigned == [body |-> TRUE, sig |-> [pl \in Places |-> [k \in Keys |-> "none"]]]
Empty(s, pl) == Signers(s, pl) = {}
AllValid(s, pl) == \A k \in Signers(s, pl) : At(s, pl, k) = "good"

\* verifyOnlyOwner, verifyExactParties, exactSigners: these keys and no others.
Exactly(s, pl, keys) == Signers(s, pl) = keys /\ AllValid(s, pl)

\* The signatures of keys(pl) added to a sheet.
Signed(s, where, keys(_)) ==
    [s EXCEPT !.sig = [pl \in Places |-> [k \in Keys |->
        IF pl \in where /\ k \in keys(pl) THEN "good" ELSE At(s, pl, k)]]]

\* What an untrusted party may make of a sheet: the body and up to two marks differ.
Changed(s) == {[s EXCEPT !.sig[pl][k] = m] : pl \in Places, k \in Keys, m \in Marks}
Altered(s) == {[s EXCEPT !.body = ~@]} \cup UNION {Changed(t) : t \in Changed(s)}

\* The graphs the routes agree on.  A lockup's inputs are the sender's and the Taxi's; a
\* fill's own inputs are the Taxi's leases, which no gate covers; a spend and a recovery
\* go through the emulator, and all but the provider's keys of a leaf are the own one.
LockupGraph(g) ==
    /\ g.gated = {}
    /\ \A i \in DOMAIN g.leaf : g.leaf[i] = {IF i \in g.mine THEN "taxi" ELSE "sender", "server"}
FillGraph(g) == \A i \in g.mine : g.leaf[i] = {"taxi", "server"} /\ i \notin g.gated
SpendGraph(g) ==
    /\ g.gated # {}
    /\ \A i \in DOMAIN g.leaf :
          g.leaf[i] \ ({"server"} \cup IF i \in g.gated THEN {"cosigner"} ELSE {})
             = IF i \in g.mine THEN {g.me} ELSE {}

ASSUME GraphsAssumption ==
    \A g \in Graphs :
       /\ g.mine \subseteq DOMAIN g.leaf /\ g.gated \subseteq DOMAIN g.leaf
       /\ \A i \in DOMAIN g.leaf : "server" \in g.leaf[i]
       /\ \/ g.route = "lockup" /\ LockupGraph(g)
          \/ g.route = "fill" /\ FillGraph(g)
          \/ g.route \in {"spend", "recovery"} /\ SpendGraph(g)

NoAnswer == [none |-> TRUE]

SigningInit ==
    /\ graph \in Graphs
    /\ signing = IF graph.route \in {"lockup", "fill"} THEN "open" ELSE "accepted"
    /\ sheet = [body |-> TRUE, sig |-> [pl \in {"ark", "cp"} \X DOMAIN graph.leaf
                                          |-> [k \in Keys |-> "none"]]]
    /\ arkd = "none" /\ answer = NoAnswer /\ honest = TRUE

-----------------------------------------------------------------------------
(* The other party. *)

Theirs == {pl \in Places : ~Mine(pl) /\ ~ProviderOnly(pl)}
Humans(pl) == Leaf(pl) \ {"server", "cosigner"}

\* validateSignedTransaction and validateSignedCheckpoints, on what the sender's
\* identity returned: only the sender's inputs, only by the sender.
SenderSound(s) ==
    s.body /\ \A pl \in Places : IF Mine(pl) THEN Empty(s, pl) ELSE Exactly(s, pl, {"sender"})

\* signLockup and signSponsoredPayment
SenderSigns(s) ==
    /\ signing = "open" /\ graph.route = "lockup"
    /\ signing' = IF SenderSound(s) THEN "posted" ELSE "refused"
    /\ sheet' = s
    /\ UNCHANGED <<graph, arkd, answer, honest>>

\* Other software posts what it likes.
Posts(s) ==
    /\ signing = "open"
    /\ signing' = "posted" /\ sheet' = s
    /\ UNCHANGED <<graph, arkd, answer, honest>>

-----------------------------------------------------------------------------
(* The service accepts. *)

\* validateLockupSubmission: the persisted graph, signed by its sender alone.
LockupAccepts(s) ==
    s.body /\ \A pl \in Places : IF Mine(pl) THEN Empty(s, pl) ELSE Exactly(s, pl, {"sender"})

\* Mutant: a caller need not have signed.
MutForeignInput(s, pl) ==
    IF ProviderOnly(pl) THEN Empty(s, pl) ELSE AllValid(s, pl) /\ Signers(s, pl) \subseteq Leaf(pl)

\* assertForeignInput
ForeignInput(s, pl) ==
    IF ProviderOnly(pl) THEN Empty(s, pl)
    ELSE /\ Leaf(pl) # {"server"}
         /\ AllValid(s, pl) /\ Signers(s, pl) \subseteq Leaf(pl)
         /\ Leaf(pl) \ {"server"} \subseteq Signers(s, pl)

\* The end of assertFillGraph; the posted bytes are the graph of the row.
FillAccepts(s) ==
    \A pl \in Places : IF Mine(pl) THEN Empty(s, pl) ELSE ForeignInput(s, pl)

AcceptPosted ==
    /\ signing = "posted"
    /\ LET ok == IF graph.route = "lockup" THEN LockupAccepts(sheet) ELSE FillAccepts(sheet)
       IN  signing' = IF ok THEN "accepted" ELSE "refused"
    /\ sheet' = IF graph.route = "fill" THEN [sheet EXCEPT !.body = TRUE] ELSE sheet
    /\ UNCHANGED <<graph, arkd, answer, honest>>

-----------------------------------------------------------------------------
(* The local party signs: t is what its identity returned for the sheet. *)

\* prepare, then readPrepared in submitPrepared: nothing but one owner anywhere.
LockupSigned(t) ==
    /\ t.body
    /\ \A pl \in Places : Exactly(t, pl, IF Mine(pl) THEN {"taxi"} ELSE {"sender"})

\* loadTrustedForSigning: what is ours or the emulator's to sign arrives unsigned.
TrustedUnsigned(s) == \A pl \in Places : Mine(pl) \/ Gated(pl) => Empty(s, pl)

\* signJointGraphForOwner: nothing dropped or changed, and what was added is the
\* bound key's, on its own inputs; a checkpoint that is not ours is not read back.
OwnerAdded(t, pl) ==
    IF Mine(pl) THEN Signers(t, pl) \subseteq {"taxi"}
    ELSE pl[1] = "ark" => t.sig[pl] = sheet.sig[pl]
SignedForOwner(t) ==
    /\ TrustedUnsigned(sheet) /\ t.body
    /\ \A pl \in Places : OwnerAdded(t, pl)
    /\ \E pl \in Places : Mine(pl) /\ ~Empty(t, pl)
    /\ \A pl \in Places : Mine(pl) => AllValid(t, pl)

\* The signed graph keeps the posted signatures of the other checkpoints.
Kept(t) == [t EXCEPT !.sig = [pl \in Places |-> IF Mine(pl) THEN t.sig[pl] ELSE sheet.sig[pl]]]

\* prepareJointSubmission: a pinned signature on every own place and no other.
PreparedComplete(t) == \A pl \in Places : Mine(pl) => Exactly(t, pl, {"taxi"})

\* validateOwnerSigned, and nothing to sign without own inputs.
OwnerSigned(t) ==
    t.body /\ \A pl \in Places : Exactly(t, pl, IF Mine(pl) THEN {graph.me} ELSE {})

SignsSoundly(t) ==
    CASE graph.route = "lockup" -> LockupSigned(t)
      [] graph.route = "fill" -> SignedForOwner(t) /\ PreparedComplete(t)
      [] OTHER -> OwnerSigned(t)

SignGraph(t) ==
    /\ signing = "accepted"
    /\ signing' = IF SignsSoundly(t) THEN "signed" ELSE "failed"
    /\ sheet' = IF SignsSoundly(t) /\ graph.route = "fill" THEN Kept(t) ELSE t
    /\ UNCHANGED <<graph, arkd, answer, honest>>

-----------------------------------------------------------------------------
(* The provider. *)

Emulated == graph.gated # {}

\* What the provider completes: the emulator signs the gated places, arkd the rest.
ByProvider(pl) == {"server"} \cup IF Gated(pl) THEN {"cosigner"} ELSE {}
CompleteBut(s, pl, keys) ==
    AllValid(s, pl) /\ Signers(s, pl) \subseteq Leaf(pl) /\ Leaf(pl) \ keys \subseteq Signers(s, pl)

\* External: arkd and the emulator as the code relies on them.  The emulator signs, has
\* arkd accept and finalize, and returns everything; arkd returns the Ark transaction
\* completed and checkpoints with its signature alone.
ProviderAccepts ==
    \A pl \in Places : pl[1] = "ark" \/ Emulated => CompleteBut(sheet, pl, ByProvider(pl))
HonestAnswer ==
    LET all == Signed(sheet, Places, LAMBDA pl : ByProvider(pl) \cap Leaf(pl))
        own == Signed(Unsigned, Places, LAMBDA pl : {"server"})
    IN  IF Emulated THEN all
        ELSE [all EXCEPT !.sig = [pl \in Places |-> IF pl[1] = "ark" THEN all.sig[pl]
                                                   ELSE own.sig[pl]]]

\* submitTx; the answer may be lost or altered on its way.
SubmitGraph(a) ==
    /\ signing = "signed"
    /\ arkd' = IF ProviderAccepts THEN (IF Emulated THEN "final" ELSE "accepted") ELSE arkd
    /\ answer' = a
    /\ honest' = (a = IF ProviderAccepts THEN HonestAnswer ELSE NoAnswer)
    /\ signing' = "sent"
    /\ UNCHANGED <<graph, sheet>>

\* The answers there are: the true one, none, or an altered one.
PossibleAnswers == {NoAnswer} \cup IF ProviderAccepts THEN Altered(HonestAnswer) ELSE {}

-----------------------------------------------------------------------------
(* The local party judges the answer. *)

Preserved(a, pl) == \A k \in Signers(sheet, pl) : At(a, pl, k) = At(sheet, pl, k)

\* validateResponse: Ark inputs by owner and server; checkpoints by the server, to be
\* combined with the owner's.
LockupAnswer(a) ==
    /\ a.body
    /\ \A pl \in Places :
          LET owner == IF Mine(pl) THEN "taxi" ELSE "sender"
          IN  IF pl[1] = "ark" THEN Exactly(a, pl, {owner, "server"}) ELSE Exactly(a, pl, {"server"})

\* mergeSignatures: the request's signatures and the answer's, which may not conflict.
Merges(a) ==
    \A pl \in Places :
       /\ \A k \in Keys : At(sheet, pl, k) = "none" \/ At(a, pl, k) \in {"none", At(sheet, pl, k)}
       /\ AllValid(a, pl) /\ Signers(a, pl) \cup Signers(sheet, pl) \subseteq Leaf(pl)
MergedSheet(a) ==
    [body |-> TRUE,
     sig |-> [pl \in Places |-> [k \in Keys |->
                 IF At(sheet, pl, k) # "none" THEN At(sheet, pl, k) ELSE At(a, pl, k)]]]

\* Mutant: an owned input may carry no signature but its owner's.
MutResponseSigs(a, pl) ==
    IF Mine(pl) THEN Exactly(a, pl, {"taxi"})
    ELSE AllValid(a, pl) /\ Signers(a, pl) \subseteq Leaf(pl)

\* assertResponseSigs
ResponseSigs(a, pl) ==
    /\ AllValid(a, pl) /\ Signers(a, pl) \subseteq Leaf(pl)
    /\ Mine(pl) => Signers(a, pl) \subseteq {"taxi", "server"}
    /\ Gated(pl) => ~Empty(a, pl) /\ Signers(a, pl) \subseteq {"cosigner", "server"}

\* submitJointFill
FillAnswer(a) == a.body /\ \A pl \in Places : Preserved(a, pl) /\ ResponseSigs(a, pl)

\* execute and validateRecoveryResponse: every key of the leaf, and the own signature kept.
SpendAnswer(a) ==
    a.body /\ \A pl \in Places : Exactly(a, pl, Leaf(pl)) /\ (Mine(pl) => Preserved(a, pl))

\* The checkpoints handed to finalizeTx.
Combined(a) == MergedSheet(a)

\* Without an answer, or with one that fails, the outcome stays open.
Judge ==
    /\ signing = "sent"
    /\ LET ok == /\ answer # NoAnswer
                 /\ CASE graph.route = "lockup" -> LockupAnswer(answer)
                      [] graph.route = "fill" /\ ~Emulated -> answer.body /\ Merges(answer)
                      [] graph.route = "fill" /\ Emulated -> FillAnswer(answer)
                      [] OTHER -> SpendAnswer(answer)
       IN  signing' = IF ~ok THEN "ambiguous" ELSE IF Emulated THEN "recorded" ELSE "answered"
    /\ UNCHANGED <<graph, sheet, arkd, answer, honest>>

\* finalizeTx with the combined checkpoints; a fill is judged once more before it is
\* recorded.
Finalize ==
    /\ signing = "answered"
    /\ LET complete == \A i \in Inputs : Exactly(Combined(answer), <<"cp", i>>, graph.leaf[i])
       IN  /\ arkd' = IF complete THEN "final" ELSE arkd
           /\ signing' = IF complete /\ (graph.route = "fill" => FillAnswer(Combined(answer)))
                       THEN "recorded" ELSE "ambiguous"
    /\ UNCHANGED <<graph, sheet, answer, honest>>

\* The process ends.  A lockup and a recovery have persisted what they sent and heard
\* and go on from there; a fill or a spend is left open for its reconciler.
Crash ==
    /\ signing \in {"sent", "answered"}
    /\ honest' = FALSE
    /\ IF graph.route \in {"lockup", "recovery"}
       THEN signing' = (IF signing = "sent" THEN "signed" ELSE signing) /\ answer' = IF signing = "sent" THEN NoAnswer ELSE answer
       ELSE signing' = "ambiguous" /\ UNCHANGED answer
    /\ UNCHANGED <<graph, sheet, arkd>>

SigningNext ==
    \/ signing = "open" /\ \E s \in Altered(Signed(Unsigned, Theirs, Humans)) : SenderSigns(s) \/ Posts(s)
    \/ signing = "open" /\ \E s \in Altered(Signed(Unsigned, Theirs, LAMBDA pl : Leaf(pl) \ {"server"})) : Posts(s)
    \/ AcceptPosted
    \/ signing = "accepted" /\ \E t \in Altered(Signed(sheet, Places, LAMBDA pl : IF Mine(pl) THEN {graph.me} ELSE {})) : SignGraph(t)
    \/ signing = "signed" /\ \E a \in PossibleAnswers : SubmitGraph(a)
    \/ Judge \/ Finalize \/ Crash

SigningSpec == SigningInit /\ [][SigningNext]_signingVars

-----------------------------------------------------------------------------
(* Properties. *)

\* Whatever a caller posts and whatever the identity returns, a graph leaves the process
\* only if the provider can complete it: the agreed body, nothing but verifying
\* signatures of the keys of each leaf, and everyone else's already there.
SentIsCompletable ==
    signing \in {"sent", "answered", "recorded"} =>
       sheet.body /\ \A pl \in Places : CompleteBut(sheet, pl, ByProvider(pl))

\* A provider that answers as it does is understood: without a crash, and without a
\* loss or change of its answer, no submission ends ambiguous.
HonestAnswerIsAccepted == signing = "ambiguous" => ~honest

\* A submission is recorded as done only when arkd has it final: never between submitTx
\* and finalizeTx, whatever the answer said and wherever the process died.
RecordedIsFinal == signing = "recorded" => arkd = "final"

\* A graph leaves complete but for the provider and is done when arkd is done with it.
SentIsSound == SentIsCompletable /\ RecordedIsFinal
=============================================================================
