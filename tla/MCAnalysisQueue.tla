--------------------------- MODULE MCAnalysisQueue ---------------------------
(***************************************************************************)
(* Instances of AnalysisQueue for TLC.  Workers and clients are            *)
(* interchangeable, so safety runs use them as symmetry sets; the runs     *)
(* with liveness do not.                                                   *)
(***************************************************************************)
EXTENDS AnalysisQueue, Functions, TLC

CONSTANT Interval       \* the one interval of the model, in ticks

MCIntervalOf == [v \in Variants |-> Interval]

WorkerSymmetry == Permutations(Workers)
Symmetry == Permutations(Workers) \cup Permutations(Clients)

(***************************************************************************)
(* A quiet evening: the schedules of one stock exist and are due, and the  *)
(* workers are alone with them, so that two due schedules, the active task *)
(* of their stock, crashes and the clock fit into a liveness run.          *)
(***************************************************************************)
DueRows ==
    LET variantOf == CHOOSE f \in [Schedules -> Variants] : IsInjective(f) IN
    [s \in Schedules |->
        [NoSched EXCEPT !.state = "live", !.key = CHOOSE k \in Keys : TRUE,
                        !.variant = variantOf[s], !.enabled = TRUE]]

QuietNext ==
    \/ \E w \in Workers : WorkerStep(w) \/ FaultStep(w) \/ Restart(w)
    \/ Tick

QuietSpec == InitWith(DueRows) /\ [][QuietNext]_vars /\ Fairness

=============================================================================
