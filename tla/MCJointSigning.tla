--------------------------- MODULE MCJointSigning ---------------------------
(* One graph of every shape the code signs. *)
EXTENDS JointSigning

G(route, leaf, gated, mine, me) ==
    [route |-> route, leaf |-> leaf, gated |-> gated, mine |-> mine, me |-> me]

MCGraphs ==
    {G("lockup", <<{"sender", "server"}, {"taxi", "server"}>>, {}, {2}, "taxi"),
     G("fill", <<{"taxi", "server"}, {"solver", "server"}>>, {}, {1}, "taxi"),
     G("fill", <<{"solver", "server"}, {"cosigner", "server"}, {"taxi", "server"}>>, {2}, {3}, "taxi"),
     G("fill", <<{"taxi", "server"}, {"solver", "cosigner", "server"}>>, {2}, {1}, "taxi"),
     G("spend", <<{"cosigner", "server"}>>, {1}, {}, "receiver"),
     G("spend", <<{"cosigner", "server"}, {"receiver", "server"}>>, {1}, {2}, "receiver"),
     G("spend", <<{"sender", "cosigner", "server"}, {"sender", "server"}>>, {1}, {1, 2}, "sender"),
     G("recovery", <<{"cosigner", "server"}>>, {1}, {}, "taxi")}
=============================================================================
