-------------------------------- MODULE MCBoot --------------------------------
(***************************************************************************)
(* Small instances of Boot with the whole demo content and two tables: two *)
(* processes that may die, while an admin deletes a server; or, the scene  *)
(* that the first state chooses instead, one that lives, while an admin    *)
(* changes two relationships.                                              *)
(***************************************************************************)
EXTENDS Boot

CONSTANTS p1, p2

VARIABLE scene

ASSUME MCBootAssumption == p1 \in Processes

MCInit == scene \in {"two", "one"} /\ Init

OneProcess ==
  (Boots(p1) \/ Serves(p1) \/ EnsureWrite(p1) \/ Answer(p1)) /\ UNCHANGED <<crashes, deletes>>

MCNext ==
  /\ UNCHANGED scene
  /\ \/ scene = "two" /\ Next /\ UNCHANGED edits
     \/ scene = "one" /\ OneProcess

(* Boot's FairSpec.                                                        *)
MCFairness ==
  \A p \in Processes :
    /\ WF_vars(scene = "two" /\ Boots(p))
    /\ WF_vars(scene = "two" /\ (EnsureWrite(p) \/ Answer(p)))

MCSpec == MCInit /\ [][MCNext]_<<scene, vars>> /\ MCFairness

-------------------------------------------------------------------------------

(* A process that is up serves a database that is whole: every table, an   *)
(* admin whose password somebody was told, recipes whose tools exist.  One *)
(* that was alone and did not die serves all of the demo content, whose    *)
(* rows fit together (Boot).                                               *)
ServesAWholeDatabase ==
  /\ TypeOK /\ UpMeansMigrated /\ AdminKnown /\ LinksResolve
  /\ scene = "one" => SeededWhole /\ DemoRowsSound

(* Every process comes up in the end, and when ensure_demo_relationships   *)
(* succeeds, the demo servers have their relationships once each (Boot).   *)
ComesUpAndRepairs == (scene = "two" => ComesUp) /\ EnsureRepairs

===============================================================================
