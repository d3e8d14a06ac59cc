------------------------------- MODULE MCCopies -------------------------------
(***************************************************************************)
(* Small instances of what copies many rows at a time.                     *)
(*                                                                         *)
(* Portability: an export and import while an editor changes the server;   *)
(* two clones of it, to one slug or two, while it changes; and a user who  *)
(* is alone, with rows "s" that are rows "o" with a sensitive field.       *)
(* Cohort: a bulk reset of two servers while an editor works on them, and  *)
(* one while nobody does.                                                  *)
(*                                                                         *)
(* The first state chooses which of them runs, the scene.                  *)
(***************************************************************************)
EXTENDS Scenes, Naturals, FiniteSets

CONSTANTS
  Exporters, Cloners, Editors, DatasetIds, DatasetKeys, ToolNames, Rels,
  RowsOf, Clean(_), CopySlugs, Targets,        (* Portability              *)
  PairKeys, PairRows, SoloKeys, FewSlugs,      (* what they choose from    *)
  Resetters, Owners, Team, TeamIds, TeamRows, Matching, Nobody,  (* Cohort *)
  PairRowsets,                                 (* what owners choose from  *)
  Spare                                        (* bound: an id not given   *)

VARIABLES
  datasets, tools, rels, copies, step, keyOf, queue, bundle, slugs, source,
  team, home, live, seed, owner, done, reset_step, asked, todo, reset_queue, listed

server == <<datasets, tools, rels, copies, step, keyOf, queue, bundle, slugs, source>>

cohort == <<team, home, live, seed, owner, done, reset_step, asked, todo, reset_queue, listed>>

MCClean(r) == IF r = "s" THEN "o" ELSE r

MCTargets == {{"g"}, {"g", "h"}}

MCMatching == {{1, 2}, {1}}

MCRowsets == {{}, {"x"}}

Copy == INSTANCE Portability WITH
  Ids <- DatasetIds, Keys <- DatasetKeys, Tools <- ToolNames, Rows <- RowsOf, Slugs <- CopySlugs

Cohorts == INSTANCE Cohort WITH
  servers <- team, step <- reset_step, queue <- reset_queue,
  Editors <- Owners, Servers <- Team, Ids <- TeamIds, Rows <- TeamRows

CopiesAssumption ==
  /\ Copy!PortabilityAssumption /\ Cohorts!CohortAssumption
  /\ Solo \in Exporters \cap Editors /\ Solo \in Resetters \cap Owners
  /\ PairKeys \subseteq DatasetKeys /\ SoloKeys \subseteq DatasetKeys
  /\ PairRows \subseteq RowsOf /\ FewSlugs \subseteq CopySlugs
  /\ \A rows \in PairRowsets : rows \subseteq TeamRows

ASSUME CopiesAssumed == CopiesAssumption

-------------------------------------------------------------------------------

NoServer ==
  /\ datasets = Nothing /\ tools = Nothing /\ rels = Nothing /\ copies = Nothing
  /\ step = Nothing /\ keyOf = Nothing /\ queue = Nothing /\ bundle = Nothing
  /\ slugs = Nothing /\ source = Nothing

NoCohort ==
  /\ team = Nothing /\ home = Nothing /\ live = Nothing /\ seed = Nothing
  /\ owner = Nothing /\ done = Nothing /\ reset_step = Nothing /\ asked = Nothing
  /\ todo = Nothing /\ reset_queue = Nothing /\ listed = Nothing

Begins(keys, rows) ==
  \A d \in Copy!Stored :
    datasets[d].key \in keys /\ datasets[d].live \in rows /\ datasets[d].seed \in rows

CopiesInit ==
  \/ scene \in {"exports", "clones"} /\ Copy!Init /\ Begins(PairKeys, PairRows) /\ NoCohort
  \/ scene = "one user" /\ Copy!Init /\ Begins(SoloKeys, RowsOf) /\ NoCohort
  \/ scene = "resets" /\ Cohorts!Init /\ NoServer
  \/ scene = "one reset" /\ Cohorts!Init /\ home[Spare] = Unused /\ NoServer

Edited == \E c \in Editors : Copy!Edits(c, PairKeys, PairRows)

CopiesNext ==
  /\ UNCHANGED scene
  /\ \/ /\ \/ scene = "exports" /\ (Edited \/ \E c \in Exporters : Copy!Exports(c, FewSlugs))
           \/ scene = "clones" /\ (Edited \/ \E c \in Cloners : Copy!Clones(c, Targets))
           \/ scene = "one user" /\ (Copy!Edits(Solo, SoloKeys, RowsOf) \/ Copy!Exports(Solo, FewSlugs))
        /\ UNCHANGED cohort
     \/ /\ \/ /\ scene = "resets"
              /\ (\E c \in Owners : Cohorts!Edits(c, PairRowsets)) \/ (\E c \in Resetters : Cohorts!Resets(c))
           \/ /\ scene = "one reset"
              /\ Cohorts!Edits(Solo, SUBSET TeamRows) \/ Cohorts!Resets(Solo)
              /\ home'[Spare] = Unused
        /\ UNCHANGED server

CopiesSpec == CopiesInit /\ [][CopiesNext]_<<scene, server, cohort>>

-------------------------------------------------------------------------------

(* A bundle, and a copy made from it, names only what it contains, however *)
(* the server changes while it is read; and a server that is restored is   *)
(* never shown as drifted (Portability, Cohort).                           *)
CopiesAreWhole ==
  /\ scene \in {"exports", "clones", "one user"} => Copy!TypeOK /\ Copy!SelfContained /\ Copy!CopiesWhole
  /\ scene \in {"resets", "one reset"} => Cohorts!TypeOK /\ Cohorts!DriftIsReal

(* All clones of a request are made, of one moment of the server, or none; *)
(* and an export of a server that is left alone is imported as it was,     *)
(* less the sensitive fields (Portability).                                *)
CopiesAreFaithful ==
  [][/\ scene = "clones" => Copy!AllClones
     /\ scene = "one user" => Copy!RoundTrip]_server

(* A bulk reset restores all that it listed or nothing, shows no one a     *)
(* part of it, and, while nobody interferes, restores the servers with the *)
(* prefix and touches no other (Cohort).                                   *)
ResetsAreWhole ==
  [][/\ scene \in {"resets", "one reset"} => Cohorts!ResetWhole
     /\ scene = "one reset" => Cohorts!ResetComplete]_cohort

===============================================================================
