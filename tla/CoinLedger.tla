----------------------------- MODULE CoinLedger -----------------------------
(***************************************************************************)
(* What the reservation tables promise together: every operator coin has   *)
(* at most one owner, an owner takes all its coins in one step and while   *)
(* it holds none, takes only coins nobody holds, and gives them back all   *)
(* at once.  A coin never passes from one live owner to another.           *)
(***************************************************************************)
CONSTANTS Coins, Ids, NoOwner

VARIABLE owner

Init == owner = [c \in Coins |-> NoOwner]

Holding(i) == {c \in Coins : owner[c] = i}

\* Some owners let go, then at most one newcomer takes free coins.
Move(dead, i, coins) ==
    /\ Holding(i) = {} \/ coins = {}
    /\ \A c \in coins : owner[c] \in dead \cup {NoOwner}
    /\ owner' = [c \in Coins |-> IF c \in coins THEN i
                                 ELSE IF owner[c] \in dead THEN NoOwner ELSE owner[c]]

Next == \E dead \in SUBSET Ids, i \in Ids, coins \in SUBSET Coins : Move(dead, i, coins)

Spec == Init /\ [][Next]_owner
=============================================================================
