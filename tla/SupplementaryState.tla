------------------------- MODULE SupplementaryState -------------------------
(***************************************************************************)
(* A supplementary snapshot (include/cspromator/supplementary_state.hpp)   *)
(* and the reading of its counts (src/src/supplementary_state.cpp).        *)
(***************************************************************************)
EXTENDS GameState

CONSTANTS
  Supplements   \* [teams, revision]: what a provider may publish

TeamCounts(counts) ==
  [ct_alive |-> counts[1], t_alive |-> counts[2], ct_total |-> counts[3], t_total |-> counts[4]]

ValidNonnegative(value) == value = None \/ value >= 0

AliveFitsTotal(alive, total) == alive = None \/ total = None \/ alive <= total

ValidTeamCounts(teams) ==
  /\ \A count \in {"ct_alive", "t_alive", "ct_total", "t_total"} : ValidNonnegative(teams[count])
  /\ AliveFitsTotal(teams.ct_alive, teams.ct_total)
  /\ AliveFitsTotal(teams.t_alive, teams.t_total)

\* The counts as a player of the team sees them; None for no team or bad counts.
PerspectiveForTeam(teams, team) ==
  CASE ~ValidTeamCounts(teams) -> None
    [] ValidTeamCounts(teams) /\ team = "CT" ->
         [local_alive |-> teams.ct_alive, enemy_alive |-> teams.t_alive,
          local_total |-> teams.ct_total, enemy_total |-> teams.t_total]
    [] ValidTeamCounts(teams) /\ team = "T" ->
         [local_alive |-> teams.t_alive, enemy_alive |-> teams.ct_alive,
          local_total |-> teams.t_total, enemy_total |-> teams.ct_total]
    [] OTHER -> None

\* What is absent is neither a snapshot nor the counts in one.
ASSUME AbsentAssumption ==
  /\ None \notin [us : Nat, revision : {item.revision : item \in Supplements},
                  teams : {item.teams : item \in Supplements}]
  /\ \A item \in Supplements, team \in {"CT", "T"} :
       ValidTeamCounts(item.teams) => PerspectiveForTeam(item.teams, team) # None

=============================================================================
