----------------------------- MODULE MCSemantic -----------------------------
(* Payloads and supplements for the runs of SemanticPipeline. *)
EXTENDS SemanticPipeline

NoStats == [s \in Stats |-> None]

Menu ==
  [provider |-> "me", observed |-> "me", team |-> None, map_name |-> None,
   map_mode |-> None, map_phase |-> None, map_round |-> None,
   round_phase |-> None, winner |-> None, bomb |-> None, stats |-> NoStats]

InMatch ==
  [Menu EXCEPT !.team = "CT", !.map_name = "dust2", !.map_mode = "casual",
               !.map_phase = "live", !.map_round = 0, !.round_phase = "live"]

Phases == {"freezetime", "live", "over"}

\* The local player lives or is dead and has some kills, or another is observed.
Local(health, kills, phases) ==
  {[InMatch EXCEPT !.round_phase = phase,
                   !.stats = [@ EXCEPT !.health = health, !.round_kills = kills]] :
     phase \in phases}

Other ==
  {[InMatch EXCEPT !.round_phase = phase, !.observed = "other"] :
     phase \in {"live", "over"}}

NextMap ==
  {[InMatch EXCEPT !.map_name = "vertigo", !.round_phase = phase,
                   !.stats = [@ EXCEPT !.health = 1, !.round_kills = 0]] :
     phase \in {"freezetime", "live"}}

MCPayloads ==
  {Menu} \cup Local(1, 0, Phases) \cup Local(1, 2, {"live", "over"})
         \cup Local(0, 0, {"live", "over"}) \cup Other \cup NextMap

Counts(ct, t) == [ct_alive |-> ct, t_alive |-> t, ct_total |-> 2, t_total |-> 2]

MCSupplements ==
       {[teams |-> Counts(1, t), revision |-> 1] : t \in 0 .. 2}
  \cup {[teams |-> Counts(1, 2), revision |-> 2],
        [teams |-> [Counts(1, 2) EXCEPT !.ct_alive = None], revision |-> None]}

=============================================================================
