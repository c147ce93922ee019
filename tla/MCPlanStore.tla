---------------------------- MODULE MCPlanStore ----------------------------
(***************************************************************************)
(* The tables of the plans, for TLC.  A behaviour is one of these:         *)
(*   review   one plan, decided on and exported by a designer, a reviewer  *)
(*            and a user who is both;                                      *)
(*   lineage  versions derived from each other, each with a review;        *)
(*   import   the tables are imported from a legacy database.              *)
(***************************************************************************)
EXTENDS PlanReview, TLC

CONSTANTS
  designer, reviewer, both, Unused,
  Legacy,                  \* plans of the legacy database
  MaxLegacy, MaxSequence   \* bounds of its rows of a kind, and of the new chain

VARIABLES
  part,         \* which instance
  parents, srcPlans, srcReviews, srcAudit,      \* the variables of PlanMigration
  step, readPlans, readReviews, readAudit, order, pending,
  tPlans, tReviews, tAudit, tOutbox, serial, imported

tables == <<parents, srcPlans, srcReviews, srcAudit, step, readPlans, readReviews,
            readAudit, order, pending, tPlans, tReviews, tAudit, tOutbox, serial,
            imported>>

MCUser == {designer, reviewer, both}

MCRoles == [u \in MCUser |->
             IF u = both THEN {"designer", "reviewer"}
             ELSE {IF u = designer THEN "designer" ELSE "reviewer"}]

OneClock == [u \in MCUser |-> 0]

Pair == {designer, both}

Lineage == INSTANCE PlanReview
  WITH User <- Pair, Roles <- [u \in Pair |-> MCRoles[u]], Skew <- [u \in Pair |-> 0],
       MaxPlans <- 2, MaxReviews <- 1, MaxEvents <- 4

Import == INSTANCE PlanMigration
  WITH Plan <- Legacy, NoParent <- Nobody, Unknown <- Unused,
       MaxRows <- MaxLegacy, MaxNumber <- MaxSequence,
       parent <- parents, pc <- step, plans <- readPlans, reviews <- readReviews, audit <- readAudit

ASSUME ImportAssumption == Import!SettingsAreSound

NoTables ==
  /\ parents = Unused /\ srcPlans = Unused /\ srcReviews = Unused /\ srcAudit = Unused
  /\ step = Unused /\ readPlans = Unused /\ readReviews = Unused /\ readAudit = Unused
  /\ order = Unused /\ pending = Unused
  /\ tPlans = Unused /\ tReviews = Unused /\ tAudit = Unused /\ tOutbox = Unused
  /\ serial = Unused /\ imported = Unused

MCInit ==
  \/ part = "review" /\ Init /\ NoTables
  \/ part = "lineage" /\ Lineage!Init /\ NoTables
  \/ part = "import" /\ Init /\ Import!Init

MCNext ==
  /\ \/ part = "review" /\ Next /\ UNCHANGED tables
     \/ part = "lineage" /\ Lineage!Next /\ UNCHANGED tables
     \/ part = "import" /\ Import!Next /\ UNCHANGED vars
  /\ UNCHANGED part

MCSpec == MCInit /\ [][MCNext]_<<vars, tables, part>>

\* What the importer read while the old API kept writing is imported as a
\* whole or not at all, whatever the graph of the plans and whenever it dies.
ImportsAreWhole ==
  part = "import" => Import!TypeOK /\ Import!ParentsFirst /\ Import!ImportIsWhole

\* The events the new API appends continue the chain that was imported.
ImportedChainGoesOn == part = "import" => Import!ChainGoesOn

Symmetry == Permutations(Legacy)
=============================================================================
