----------------------------- MODULE GameState -----------------------------
(***************************************************************************)
(* A GSI payload and its normalized form (src/src/game_state.cpp,          *)
(* normalize_gsi).  A payload is what the JSON object holds at the paths   *)
(* the normalizer reads; a path that is missing, or whose value has        *)
(* another type, reads as None.                                            *)
(***************************************************************************)
EXTENDS Integers

CONSTANTS
  None,      \* an empty std::optional
  IntBits,   \* the width of int, 32 in the builds
  Payloads   \* the payloads that may arrive

\* The conjuncts on powers are arithmetic, and unknown to the provers.
ASSUME GameStateAssumption ==
  /\ IntBits \in Nat \ {0}
  /\ 2 ^ IntBits \in Nat \ {0}
  /\ 2 ^ (IntBits - 1) \in Nat \ {0}
  /\ 2 ^ IntBits = 2 * 2 ^ (IntBits - 1)

\* The integers below player.state and player.match_stats that are used later.
Stats == {"health", "round_kills", "round_headshot_kills", "assists", "mvps",
          "flashed", "smoked", "burning"}

\* read_int() yields integers only, from JSON numbers.
ASSUME PayloadAssumption ==
  \A payload \in Payloads :
    /\ payload.map_round \in Int \cup {None}
    /\ \A s \in Stats : payload.stats[s] \in Int \cup {None}

\* read_int: static_cast<int> of a 64-bit value.
ReadInt(value) ==
  IF value = None THEN None
  ELSE ((value + 2 ^ (IntBits - 1)) % 2 ^ IntBits) - 2 ^ (IntBits - 1)

\* Only a payload about the provider's own player says anything of its stats.
IsLocal(payload) ==
  /\ payload.provider # None
  /\ payload.observed # None
  /\ payload.provider = payload.observed

NormalizeGsi(payload) ==
  [provider    |-> payload.provider,
   observed    |-> payload.observed,
   local       |-> IsLocal(payload),
   team        |-> payload.team,
   map_name    |-> payload.map_name,
   map_mode    |-> payload.map_mode,
   map_phase   |-> payload.map_phase,
   map_round   |-> ReadInt(payload.map_round),
   round_phase |-> payload.round_phase,
   winner      |-> payload.winner,
   bomb        |-> payload.bomb,
   stats       |-> [s \in Stats |->
                      IF IsLocal(payload) THEN ReadInt(payload.stats[s]) ELSE None]]

Snapshots == {NormalizeGsi(payload) : payload \in Payloads}

\* What is absent is no integer and no snapshot.
ASSUME NoneAssumption == None \notin Int /\ None \notin Snapshots

=============================================================================
