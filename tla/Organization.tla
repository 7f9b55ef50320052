----------------------------- MODULE Organization -----------------------------
(***************************************************************************)
(* Regions, their areas, and the branches of these, with the rent limits   *)
(* set on each.  A call looks for the parent, for a row of the same key or *)
(* for children, and commits later; what changed in between is left to the *)
(* unique constraints and foreign keys of the tables.                      *)
(*                                                                         *)
(* Translated from app/services/organization.py,                           *)
(* app/repositories/organization.py, app/models/organization.py and        *)
(* PropertyService.rent_limit_check.                                       *)
(***************************************************************************)
EXTENDS Naturals, FiniteSets

CONSTANTS
  Region, Area, Branch,  \* ids of the rows that may be created
  UnitName,              \* names of regions and areas, codes of branches
  RentLimit,             \* bound: limits set
  Planner,               \* worker threads that handle units
  NoLimit                \* rent_limit is NULL

ASSUME OrganizationConstants ==
  /\ Region \cap Area = {} /\ (Region \cup Area) \cap Branch = {}
  /\ RentLimit \subseteq Nat /\ NoLimit \notin Nat

Unit == Region \cup Area \cup Branch

VARIABLES
  units,      \* the rows: parent (a region has none but itself), key, limit
  planning    \* what each worker has checked and is about to commit

organizationVars == <<units, planning>>

Absent == [parent |-> "none"]

Present == {x \in Unit : units[x] # Absent}

ParentsOf(x) ==
  CASE x \in Region -> {x} [] x \in Area -> Region [] x \in Branch -> Area

UnitChildren(x) == {y \in Present \ {x} : units[y].parent = x}

\* The rows the unique constraints compare: names of regions, names of areas
\* within a region, codes of branches.
Clashes(x, parent, name) ==
  {y \in Present \ {x} :
     /\ \E table \in {Region, Area, Branch} : {x, y} \subseteq table
     /\ units[y].name = name
     /\ x \in Area => units[y].parent = parent}

Out == [pc |-> "out"]

Planning(w, pc) == planning[w].pc = pc

GoOut(w) == planning' = [planning EXCEPT ![w] = Out]

-----------------------------------------------------------------------------
InitOrganization ==
  /\ units = [x \in Unit |-> Absent]
  /\ planning = [w \in Planner |-> Out]

\* create finds the parent and no row of the same key ...
begin_create_unit(w, x, parent, name) ==
  /\ Planning(w, "out")
  /\ x \notin Present
  /\ parent \in ParentsOf(x)
  /\ x \notin Region => parent \in Present
  /\ Clashes(x, parent, name) = {}
  /\ planning' = [planning EXCEPT ![w] =
       [pc |-> "create", id |-> x, parent |-> parent, name |-> name]]
  /\ UNCHANGED units

\* Faulty variant: the repository trusts what the service has found.
commit_create_unit_trusting(w, limit) ==
  LET p == planning[w] IN
  /\ Planning(w, "create")
  /\ p.id \notin Present
  /\ units' = [units EXCEPT ![p.id] = [parent |-> p.parent, name |-> p.name,
                                       rent_limit |-> limit]]
  /\ GoOut(w)

\* ... and the row is inserted, with a limit or none, unless the constraints
\* refuse it.
commit_create_unit(w, limit) ==
  LET p == planning[w] IN
  /\ Planning(w, "create")
  /\ units' =
       IF /\ p.id \notin Present
          /\ p.id \notin Region => p.parent \in Present
          /\ Clashes(p.id, p.parent, p.name) = {}
         THEN [units EXCEPT ![p.id] =
                 [parent |-> p.parent, name |-> p.name, rent_limit |-> limit]]
         ELSE units
  /\ GoOut(w)

\* update, of the name or code ...
begin_rename_unit(w, x, name) ==
  /\ Planning(w, "out")
  /\ x \in Present
  /\ name # units[x].name
  /\ Clashes(x, units[x].parent, name) = {}
  /\ planning' = [planning EXCEPT ![w] =
                    [pc |-> "rename", id |-> x, name |-> name]]
  /\ UNCHANGED units

commit_rename_unit(w) ==
  LET p == planning[w] IN
  /\ Planning(w, "rename")
  /\ units' = IF /\ p.id \in Present
                 /\ Clashes(p.id, units[p.id].parent, p.name) = {}
                THEN [units EXCEPT ![p.id].name = p.name] ELSE units
  /\ GoOut(w)

\* ... or of the limit, which can be changed but not be taken away.
set_rent_limit(x, limit) ==
  /\ x \in Present
  /\ units' = [units EXCEPT ![x].rent_limit = limit]
  /\ UNCHANGED planning

\* delete finds no children (or, of a branch, no openings, which are no part of
\* this module: a refusal for their sake would change nothing here) ...
begin_delete_unit(w, x) ==
  /\ Planning(w, "out")
  /\ x \in Present
  /\ UnitChildren(x) = {}
  /\ planning' = [planning EXCEPT ![w] = [pc |-> "delete", id |-> x]]
  /\ UNCHANGED units

\* ... and the foreign keys refuse to delete a row that has got some.
commit_delete_unit(w) ==
  /\ Planning(w, "delete")
  /\ units' = IF UnitChildren(planning[w].id) = {}
                THEN [units EXCEPT ![planning[w].id] = Absent] ELSE units
  /\ GoOut(w)

crash_planner(w) ==
  /\ planning[w] # Out
  /\ GoOut(w)
  /\ UNCHANGED units

NextOrganization ==
  \/ \E w \in Planner :
       \/ \E x \in Unit, name \in UnitName :
            \/ \E parent \in Unit : begin_create_unit(w, x, parent, name)
            \/ begin_rename_unit(w, x, name)
       \/ \E x \in Unit : begin_delete_unit(w, x)
       \/ \E limit \in RentLimit \cup {NoLimit} : commit_create_unit(w, limit)
       \/ commit_rename_unit(w)
       \/ commit_delete_unit(w)
       \/ crash_planner(w)
  \/ \E x \in Unit, limit \in RentLimit : set_rent_limit(x, limit)

SpecOrganization == InitOrganization /\ [][NextOrganization]_organizationVars

-----------------------------------------------------------------------------
(* PropertyService.rent_limit_check: the limit for an option of a branch.  *)

\* `or` takes the next operand for NULL and for zero.
Or(limit, next) == IF limit \in {NoLimit, 0} THEN next ELSE limit

\* Faulty variant: the wider unit comes first.
rent_limit_check_widest(branch) ==
  LET area == units[branch].parent  region == units[area].parent
  IN  Or(units[region].rent_limit,
         Or(units[area].rent_limit, units[branch].rent_limit))

rent_limit_check(branch) ==
  LET area == units[branch].parent  region == units[area].parent
  IN  Or(units[branch].rent_limit,
         Or(units[area].rent_limit, units[region].rent_limit))

-----------------------------------------------------------------------------
(* Properties.                                                             *)

TypeOKOrganization ==
  units \in [Unit -> {Absent} \cup
    [parent : Unit, name : UnitName, rent_limit : RentLimit \cup {NoLimit}]]

\* However checks and commits of several calls interleave: every row has its
\* parent, and no two rows of a table share a key.
UnitsConsistent ==
  \A x \in Present :
    /\ units[x].parent \in Present \cap ParentsOf(x)
    /\ Clashes(x, units[x].parent, units[x].name) = {}

\* Whether some unit from x up to the region has a limit other than zero.
LimitedBelow(branch, x) ==
  LET area == units[branch].parent
      below == CASE x = branch -> {} [] x = area -> {branch}
                 [] OTHER -> {branch, area}
  IN  \E y \in below : units[y].rent_limit \notin {NoLimit, 0}

\* docs/status-matrix.md: branch, then area, then region.  A positive limit
\* applies to a branch exactly if no unit below the one that sets it has one,
\* and a branch without a limit is one no unit of which has a positive one.
MostSpecificLimitApplies ==
  \A b \in Branch \cap Present :
    LET area == units[b].parent
        line == {b, area, units[area].parent}
        limit == rent_limit_check(b)
    IN  /\ \A x \in line :
             /\ units[x].rent_limit \notin {NoLimit, 0}
             /\ ~LimitedBelow(b, x)
             => limit = units[x].rent_limit
        /\ limit \in {NoLimit, 0}
             => \A x \in line : units[x].rent_limit \in {NoLimit, 0}
=============================================================================
