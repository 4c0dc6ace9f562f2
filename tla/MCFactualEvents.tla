------------------------- MODULE MCFactualEvents -------------------------
(* Payloads for the runs of FactualEvents. *)
EXTENDS FactualEvents

NoStats == [s \in Stats |-> None]

Menu ==
  [provider |-> "me", observed |-> "me", team |-> None, map_name |-> None,
   map_mode |-> None, map_phase |-> None, map_round |-> None,
   round_phase |-> None, winner |-> None, bomb |-> None, stats |-> NoStats]

InMatch ==
  [Menu EXCEPT !.team = "CT", !.map_name = "dust2", !.map_mode = "competitive",
               !.map_phase = "live", !.map_round = 0, !.round_phase = "live",
               !.stats = [NoStats EXCEPT !.health = 1, !.assists = 0, !.mvps = 0]]

\* The local player, another one or nobody is observed.
PlayerPayloads ==
       {[InMatch EXCEPT !.stats = [@ EXCEPT !.health = health, !.assists = assists]] :
          health \in 0 .. 1, assists \in 0 .. 1}
  \cup {[InMatch EXCEPT !.stats = [@ EXCEPT !.assists = 1, !.mvps = 1]]}
  \cup {[InMatch EXCEPT !.team = "T", !.observed = observed] : observed \in {"me", "other", None}}

\* A round and the match go by, seen with the local player or with another one.
Moment(phase, winner, map) == [phase |-> phase, winner |-> winner, map |-> map]

OthersMoments ==
  {Moment("live", None, "live"), Moment("over", None, "live"), Moment("over", "CT", "live"),
   Moment("over", "T", "live"), Moment("over", "CT", "gameover")}

LocalMoments ==
       {Moment("freezetime", None, "live")}
  \cup [phase : {"live", "over"}, winner : {None, "CT", "T"}, map : {"live", "gameover"}]

RoundPayloads ==
  {[InMatch EXCEPT !.observed = sight[1], !.map_round = round, !.round_phase = sight[2].phase,
                   !.winner = sight[2].winner, !.map_phase = sight[2].map] :
     sight \in ({"me"} \X LocalMoments) \cup ({"other"} \X OthersMoments), round \in 0 .. 1}

MCPayloads == {Menu} \cup PlayerPayloads \cup RoundPayloads

=============================================================================
