------------------------------ MODULE MCService ------------------------------
(* The operator's process: the submission of one lockup by its workers, and the
   admissions, passes and shutdown around them.  They meet in the prompt an
   admitted request leaves behind and in the drain, which each side lets come at
   any time; so a behaviour is one part's, with the other at rest. *)
EXTENDS Submission, Runtime

VARIABLE part

serviceVars == <<part, vars, runtimeVars>>

ServiceInit == part \in {"submission", "runtime"} /\ Init /\ RuntimeInit

ServiceNext ==
    /\ part' = part
    /\ \/ part = "submission" /\ Next /\ UNCHANGED runtimeVars
       \/ part = "runtime" /\ RuntimeNext /\ UNCHANGED vars

(* The fairness of LiveSpec and of RuntimeSpec, of the part that moves. *)
ServiceFairness ==
    /\ \A p \in Processes :
        /\ WF_vars(part = "submission" /\ TickStart(p))
        /\ WF_vars(part = "submission" /\ TickObserve(p))
        /\ WF_vars(part = "submission" /\ TickEnd(p))
        /\ WF_vars(part = "submission" /\ Answered(p))
        /\ WF_vars(part = "submission" /\ Restart(p))
    /\ WF_vars(part = "submission" /\ BecomeDue) /\ WF_vars(part = "submission" /\ Lapse)
    /\ WF_vars(part = "submission" /\ \E q \in sent : Accept(q))
    /\ WF_vars(part = "submission" /\ \E q \in sent : Land(q))
    /\ RuntimeFairness

ServiceSpec == ServiceInit /\ [][ServiceNext]_serviceVars /\ ServiceFairness
=============================================================================
