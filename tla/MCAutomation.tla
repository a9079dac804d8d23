---------------------------- MODULE MCAutomation ----------------------------
(* Instances of Automation for TLC. *)
EXTENDS Automation

CONSTANTS i1, i2

GridOn == [on |-> TRUE, op |-> "<=", value |-> 0]
GridOff == [on |-> FALSE, op |-> ">=", value |-> CLEAR_SOC_PCT]
MCDefs == {GridOn, GridOff}
MCLevels2 == 0 .. 1
\* The incident's setup: grid on when the battery is at its end, and off again
\* once it has recovered.
MCFiles == {<<[id |-> i1, def |-> GridOn, enabled |-> TRUE, last |-> Unset],
              [id |-> i2, def |-> GridOff, enabled |-> TRUE, last |-> Unset]>>}
\* The form sends no edge state; the on/off switch sends the one its page has
\* loaded, which may be stale.
MCPosts == {[id |-> i1, def |-> GridOn, enabled |-> e, last |-> l] :
              <<e, l>> \in {<<TRUE, Unset>>, <<TRUE, TRUE>>, <<FALSE, TRUE>>}}
           \cup {[id |-> i2, def |-> GridOff, enabled |-> TRUE, last |-> Unset]}
=============================================================================
