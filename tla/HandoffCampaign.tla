-------------------------- MODULE HandoffCampaign --------------------------
(***************************************************************************)
(* The handoff phase machine (src/src/handoff.cpp), the rules that decide   *)
(* what an operator may do to a campaign (src/src/campaign.cpp) and the     *)
(* budget of the mixed-version window.                                      *)
(*                                                                          *)
(* A phase is its enumerator's value: the code compares phases with < and   *)
(* >= on the raw enum, where Failed and Aborted come after every forward    *)
(* phase.                                                                   *)
(***************************************************************************)
EXTENDS Integers

CONSTANTS
    WindowOps,   \* the manifest's max_operations of the mixed-version window
    WindowTime   \* its max_duration_ms

ASSUME WindowAssumption == {WindowOps, WindowTime} \subseteq Nat

NotStarted           == 0
Prepared             == 1
SnapshotSynchronized == 2
CaughtUp             == 3
ReadinessVerified    == 4
PredecessorFenced    == 5
AuthorityTransferred == 6
SuccessorVerified    == 7
PredecessorRetired   == 8
Failed               == 9
Aborted              == 10

HandoffPhase == NotStarted..Aborted

IsForwardPhase(phase) == phase \notin {Failed, Aborted}

IsTerminalPhase(phase) == phase \in {PredecessorRetired, Failed, Aborted}

\* HandoffRecord::reached: a terminated handoff has reached nothing.
Reached(phase, other) == IsForwardPhase(phase) /\ phase >= other

IsAuthorityTransitionWindow(phase) == phase \in {PredecessorFenced, AuthorityTransferred}

\* validate_handoff_transition: one step forward, a replay, or an end.
ValidTransition(from, to) ==
    \/ from = to
    \/ IsForwardPhase(from) /\ to \in {from + 1, Failed, Aborted}

----------------------------------------------------------------------------
(* Campaign *)

CampaignState == {"Planned", "Preflighting", "Running", "Paused", "Aborting",
                  "Aborted", "ForwardRecovery", "Completed", "Failed"}

IsTerminalState(state) == state \in {"Aborted", "Completed", "Failed"}

\* Pausing is deferred while authority is between the two components.
PauseDecision(state, phase) ==
    IF state # "Running" THEN "refused"
    ELSE IF IsAuthorityTransitionWindow(phase) THEN "deferred" ELSE "Paused"

\* Mutant: an abort rolls back even after authority has moved.
AbortDecision_AlwaysRollsBack(state, phase, crossed) == "Aborting"

\* An abort rolls back only while nothing irreversible has happened.
AbortDecision(state, phase, crossed) ==
    IF state # "Aborting" /\ (crossed \/ Reached(phase, AuthorityTransferred))
    THEN "ForwardRecovery" ELSE "Aborting"

\* evaluate_campaign_action: the state an action leads to, "refused" or "deferred".  Fail and
\* EnterForwardRecovery, which nothing in the controller asks for, are left out.
Decision(state, action, phase, crossed) ==
    IF IsTerminalState(state) THEN "refused"
    ELSE CASE action = "Preflight"    -> IF state = "Planned" THEN "Preflighting" ELSE "refused"
           [] action = "Start"        -> IF state \in {"Preflighting", "Paused"} THEN "Running" ELSE "refused"
           [] action = "Pause"        -> PauseDecision(state, phase)
           [] action = "Resume"       -> IF state = "Paused" THEN "Running" ELSE "refused"
           [] action = "Abort"        -> AbortDecision(state, phase, crossed)
           [] action = "ConfirmAbort" -> IF state = "Aborting" THEN "Aborted" ELSE "refused"
           [] action = "Complete"     -> IF /\ state \in {"Running", "ForwardRecovery"}
                                            /\ Reached(phase, SuccessorVerified)
                                         THEN "Completed" ELSE "refused"

\* Mutant: a limit of 0 is a limit.
WindowExhausted_ZeroIsALimit(operations, elapsed) ==
    operations > WindowOps \/ elapsed > WindowTime

\* evaluate_window: a limit of 0 is no limit.
WindowExhausted(operations, elapsed) ==
    \/ WindowOps # 0 /\ operations > WindowOps
    \/ WindowTime # 0 /\ elapsed > WindowTime
=============================================================================
