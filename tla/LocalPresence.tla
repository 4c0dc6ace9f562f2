--------------------------- MODULE LocalPresence ---------------------------
(***************************************************************************)
(* What the LOCAL_PLAYER_* reports promise to their reader, whatever the   *)
(* payloads are: within one attachment to a match the local player is      *)
(* acquired once, and lost and restored by turns after that; leaving the   *)
(* match ends the attachment without a word about the player.              *)
(***************************************************************************)
VARIABLES
  presence,   \* what the reports say of the local player
  report      \* the reports of the last batch that concern it

presenceVars == <<presence, report>>

PresenceTypes == {"MatchEntered", "MatchLeft", "LocalPlayerAcquired",
                  "LocalPlayerLost", "LocalPlayerRestored"}

Init == presence = "detached" /\ report = {}

Attach ==
  /\ presence = "detached"
  /\ \/ presence' = "unseen" /\ report' = {"MatchEntered"}
     \/ presence' = "present" /\ report' = {"MatchEntered", "LocalPlayerAcquired"}

Detach ==
  /\ presence # "detached"
  /\ presence' = "detached"
  /\ report' = {"MatchLeft"}

Acquire == presence = "unseen" /\ presence' = "present" /\ report' = {"LocalPlayerAcquired"}

Lose == presence = "present" /\ presence' = "lost" /\ report' = {"LocalPlayerLost"}

Restore == presence = "lost" /\ presence' = "present" /\ report' = {"LocalPlayerRestored"}

Silence == report' = {} /\ UNCHANGED presence

Next == Attach \/ Detach \/ Acquire \/ Lose \/ Restore \/ Silence

Spec == Init /\ [][Next]_presenceVars

=============================================================================
