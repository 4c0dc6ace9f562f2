--------------------------- MODULE FactualEvents ---------------------------
(***************************************************************************)
(* The detector under a stream of payloads: what its reports promise, with *)
(* a history of those it made about the match it is attached to.           *)
(*                                                                         *)
(* Any payload may follow any other: snapshots are dropped or repeated,    *)
(* the observed player changes, a snapshot shows nobody, phases are        *)
(* skipped or go back.  When the scored game begins after the warmup, or   *)
(* is restarted, its counters go back (SESSION_005_FINDINGS.md); that the  *)
(* history does so a bounded number of times is the only restriction.      *)
(***************************************************************************)
EXTENDS EventDetector, SequencesExt

CONSTANTS
  MaxRestarts   \* bound on the times the counters of a match go back

\* A payload in a match shows its round, and one in the menu no round and no
\* statistics of a match.
ASSUME StreamAssumption ==
  \A payload \in Payloads :
    /\ payload.map_name # None <=> payload.map_round # None
    /\ payload.map_name = None => payload.stats["assists"] = None

VARIABLES
  ended,      \* the rounds reported ended since the round number last went back
  last,       \* the last round reported ended since MATCH_ENTERED
  carried,    \* what it was when the round number last went back
  decided,    \* those of them that were reported won or lost
  repeated,   \* whether the end or the outcome of a round was reported twice
  credited,   \* the sum of the assists reported since MATCH_ENTERED
  gained,     \* the sum of the growth the snapshots showed since then
  gap,        \* whether a snapshot since then hid the assists in silence
  restarts    \* how often the counters went back

roundVars == <<ended, last, carried, decided, repeated>>
assistVars == <<credited, gained, gap>>
historyVars == <<roundVars, assistVars, restarts>>
vars == <<previous, memory, events, ended, last, carried, decided, repeated,
          credited, gained, gap, restarts>>

-----------------------------------------------------------------------------
(* The stream.                                                             *)

InOneMatch(c) == previous # None /\ previous.map_name # None /\ c.map_name # None

RoundGoesBack(c) == InOneMatch(c) /\ Fell(previous.map_round, c.map_round)
AssistsGoBack(c) == InOneMatch(c) /\ Fell(memory.assists, c.stats.assists)

Restart(c) == RoundGoesBack(c) \/ AssistsGoBack(c)

-----------------------------------------------------------------------------
(* The history.                                                            *)

Attaches == EventTypes(events') \cap {"MatchEntered", "MatchLeft"} # {}
Since(value, fresh) == IF Attaches THEN fresh ELSE value

Told(batch, types) == {e.value : e \in {e \in Range(batch) : e.type \in types}}

RecordRounds(c) ==
  LET nowEnded == Told(events', {"RoundEnded"})
      nowDecided == Told(events', {"RoundWon", "RoundLost"})
      before == Since(ended, {})
      settled == Since(decided, {}) \ nowEnded
  IN  /\ repeated' = (repeated \/ nowEnded \cap before # {} \/ nowDecided \cap settled # {})
      /\ last' = IF nowEnded = {} THEN Since(last, None) ELSE CHOOSE round \in nowEnded : TRUE
      /\ IF RoundGoesBack(c)
         THEN /\ ended' = {}
              /\ carried' = last'
              /\ decided' = (settled \cup nowDecided) \cap {last'}
         ELSE /\ ended' = before \cup nowEnded
              /\ carried' = Since(carried, None)
              /\ decided' = settled \cup nowDecided

Assists(batch) ==
  MapThenSumSet(LAMBDA i : batch[i].amount,
                {i \in DOMAIN batch : batch[i].type = "PlayerAssist"})

\* Neither the snapshot shows the assists nor is the local player known to be lost.
Hides(c) == c.stats.assists = None /\ ~memory'.lost

RecordAssists(c) ==
  /\ credited' = Since(credited, 0) + Assists(events')
  /\ gained' = Since(gained + (IF Rose(memory.assists, c.stats.assists)
                               THEN c.stats.assists - memory.assists ELSE 0), 0)
  /\ gap' = Since(gap \/ (memory.assists # None /\ Hides(c)), FALSE)

Record(c) ==
  /\ RecordRounds(c)
  /\ RecordAssists(c)
  /\ restarts' = restarts + (IF Restart(c) THEN 1 ELSE 0)

-----------------------------------------------------------------------------

Init ==
  /\ DetectorInit
  /\ ended = {} /\ last = None /\ carried = None /\ decided = {} /\ repeated = FALSE
  /\ credited = 0 /\ gained = 0 /\ gap = FALSE
  /\ restarts = 0

Receive(c) == (Restart(c) => restarts < MaxRestarts) /\ Process(c) /\ Record(c)

ReceiveInvalid == ProcessInvalid /\ UNCHANGED historyVars

Next == (\E c \in Snapshots : Receive(c)) \/ ReceiveInvalid

Spec == Init /\ [][Next]_vars

-----------------------------------------------------------------------------
(* What the reports promise.                                               *)

TypeOK ==
  /\ previous \in Snapshots \cup {None}
  /\ memory.acquired \in BOOLEAN /\ memory.lost \in BOOLEAN
  /\ memory.lost => memory.acquired
  /\ EventTypes(events) \subseteq EventType

\* One snapshot never reports the same thing twice: a gain that the comparison
\* with the memory reports on restoration (lines 187-207) is not reported again
\* by the comparison with the previous snapshot (lines 209-286).
NoDoubleReport ==
  \A i, j \in DOMAIN events : events[i].type = events[j].type => i = j

\* The local player is acquired once per attachment and then lost and restored
\* by turns, across other players, snapshots of nobody, and menus in between
\* (lines 142-207): the reports implement LocalPresence.
Presence == INSTANCE LocalPresence WITH
  presence <- IF previous = None \/ previous.map_name = None THEN "detached"
              ELSE IF memory.lost THEN "lost"
              ELSE IF memory.acquired THEN "present" ELSE "unseen",
  report <- EventTypes(events) \cap {"MatchEntered", "MatchLeft", "LocalPlayerAcquired",
                                     "LocalPlayerLost", "LocalPlayerRestored"}

PresenceReports == Presence!Spec

\* Until the round number goes back, a round is reported ended at most once and
\* decided at most once, and only a round that was reported ended is decided,
\* however its end is evidenced: by the phase, the round number, the winner or
\* the end of the match, together or one after the other (lines 301-344).  When
\* the number has gone back, the round that ended last before it may still be
\* decided, if it was not, and no other one of them.
RoundsAreReportedOnce ==
  /\ ~repeated
  /\ decided \subseteq ended \cup ({carried} \ {None})

\* The assists reported in a match add up to what its counter was seen to grow
\* by, also over the time another player is observed, and a counter that goes
\* back makes no assist (lines 200-205 and 252-257; SESSION_005_FINDINGS.md:
\* "counter resets from warmup to scored play must not manufacture positive
\* events").  While a snapshot hid the counter of a player who was not lost,
\* growth goes unreported, but nothing is ever reported that did not happen.
AssistsAddUp ==
  /\ credited <= gained
  /\ ~gap => credited = gained

\* CS2 repeats a payload as a heartbeat, and when an answer is lost: a snapshot
\* that says what the one before it said reports nothing, whatever the memory
\* holds of the rounds and players before.
RepeatIsSilent == previous # None => Batch(previous) = <<>>

=============================================================================
