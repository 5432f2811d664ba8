------------------------------ MODULE MCCluster ------------------------------
(***************************************************************************)
(* Cluster for TLC: up to three control planes and two workers in two      *)
(* sizes.                                                                  *)
(***************************************************************************)
EXTENDS Cluster

CONSTANTS cp0, cp1, cp2, w0, w1, small, large

ThreeCPs == <<cp0, cp1, cp2>>
TwoWorkers == <<w0, w1>>

M(cps, workers, cpSize, workerSize, force) ==
  [cps |-> cps, workers |-> workers, cpSize |-> cpSize, workerSize |-> workerSize,
   allow |-> TRUE, force |-> force]
Careful(m) == [m EXCEPT !.allow = FALSE]

\* Creation, repeated after failures with other manifests, and deletion.
Creation == [manifests |-> {Careful(M(1, 1, small, small, FALSE)), Careful(M(2, 0, small, small, FALSE)),
                            Careful(M(2, 0, large, small, FALSE))},
             ops |-> 3, faults |-> 0, lost |-> 0, upgrades |-> 0, overlap |-> FALSE]
\* Growing, shrinking and resizing three control planes.
Convergence == [manifests |-> {M(3, 1, small, small, FALSE), M(2, 2, small, small, FALSE),
                               M(3, 1, large, small, FALSE), M(1, 1, small, small, FALSE),
                               M(1, 0, large, large, TRUE)},
                ops |-> 3, faults |-> 0, lost |-> 0, upgrades |-> 0, overlap |-> FALSE]
Faults == [manifests |-> {M(2, 0, small, small, FALSE), M(3, 0, large, small, FALSE)},
           ops |-> 3, faults |-> 1, lost |-> 1, upgrades |-> 0, overlap |-> FALSE]
Upgrades == [manifests |-> {M(3, 1, small, small, FALSE), M(2, 1, large, small, FALSE)},
             ops |-> 2, faults |-> 0, lost |-> 0, upgrades |-> 2, overlap |-> TRUE]
AllScenarios == {Creation, Convergence, Faults, Upgrades}

TwoUpgrades == {[manifests |-> {M(3, 0, small, small, FALSE)},
                 ops |-> 1, faults |-> 0, lost |-> 0, upgrades |-> 2, overlap |-> FALSE]}
===============================================================================
