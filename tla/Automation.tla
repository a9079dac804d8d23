----------------------------- MODULE Automation -----------------------------
(***************************************************************************)
(* The battery rules of automation.py and the dead-man rescue of rescue.py *)
(* as the server's poll loop runs them: one pass per poll walks the rules, *)
(* switching the grid plug on false -> true edges, then asks the rescue.   *)
(* The CRUD routes run beside it in worker threads and hold no lock, so    *)
(* they change the list under the pass, whose every plug command is an     *)
(* await.                                                                  *)
(*                                                                         *)
(* Rule dicts have an identity (Objects): an edit puts a new dict into the *)
(* list, the pass keeps the one it holds, and delete() rebinds the list so *)
(* that the pass walks on over the old one.                                *)
(*                                                                         *)
(* One Jackery unit and one plug; every rule watches and drives these.     *)
(* A route and a pass step are atomic; a save is one replacement of the    *)
(* file.  Display fields (name, alias, last_fired, last_error) and the     *)
(* audit table are left out.                                               *)
(***************************************************************************)
EXTENDS Rescue, Sequences, FiniteSets, SequencesExt

CONSTANTS
    Objects,     \* identities of rule dicts (bound: dicts alive at a time)
    Files,       \* contents the rules file may have at the first start
    Ids,         \* rule ids
    Defs,        \* what a rule says: [on : BOOLEAN, op : Operators, value : Levels]
    Posts,       \* the rules that browsers send
    Unset,       \* None, as a last_state
    NoRule,      \* an identity that is free
    MaxEvents    \* bound: requests, manual toggles and restarts

Operators == {"<", "<=", "=", ">=", ">"}

Records == [id : Ids, def : Defs, enabled : BOOLEAN, last : BOOLEAN \cup {Unset}]

ASSUME AutomationAssumption ==
    /\ Defs \subseteq [on : BOOLEAN, op : Operators, value : Levels]
    /\ \A f \in Files : f \in Seq(Records)
    \* the engine itself saved them: one rule per id
    /\ \A f \in Files : \A i, j \in DOMAIN f : f[i].id = f[j].id => i = j
    /\ Posts \subseteq Records
    /\ NoRule \notin Records /\ Unset \notin BOOLEAN /\ MaxEvents \in Nat

VARIABLES
    rules,    \* AutomationEngine.rules: a sequence of identities
    rule,     \* the dict behind each identity
    file,     \* /data/automation.json: a sequence of rule records
    walk,     \* the poll loop's pass
    entry,    \* the bridge's cached telemetry of the unit
    st,       \* state.rescue_by_sn[sn]
    served,   \* history: rules whose current edge has been acted on
    rescued,  \* history: the rescue has fired in this incident
    events    \* bounded events used up

vars == <<rules, rule, file, walk, entry, st, served, rescued, events>>

NoEntry == [known |-> FALSE, new |-> FALSE, main |-> CHOOSE l \in Levels : TRUE,
            system |-> CHOOSE l \in Levels : TRUE, age |-> STALE_FIRE_S]

\* pc: idle, walk (between two rules), toggle (awaiting the plug for rule on),
\* rescue (rules done), plug (awaiting the plug for the rescue).
\* The list being walked is rules itself (shared) or an old one (list); at is
\* the position in it, snap the telemetry of this poll, dirty whether the pass
\* has something to save.
Idle == [pc |-> "idle", list |-> <<>>, shared |-> FALSE, at |-> 1, on |-> {},
         dirty |-> FALSE, snap |-> NoEntry]

Contents(list, r) == [i \in 1 .. Len(list) |-> r[list[i]]]

\* Dicts nobody refers to are garbage: their identities are free again.
Collect(r, list, w) ==
    [o \in Objects |-> IF o \in ToSet(list) \cup ToSet(w.list) \cup w.on
                       THEN r[o] ELSE NoRule]

\* Which free identity a new dict gets does not matter.
New == CHOOSE o \in Objects : rule[o] = NoRule

\* The dicts made from the file's records, and the list of them.
Fits(n) == \E list \in [1 .. n -> Objects] : IsInjective(list)
Loaded(n) == CHOOSE list \in [1 .. n -> Objects] : IsInjective(list)
Dicts(list, records) ==
    [o \in Objects |-> IF o \in ToSet(list)
                       THEN records[CHOOSE i \in DOMAIN list : list[i] = o]
                       ELSE NoRule]

Event == events < MaxEvents /\ events' = events + 1

Init ==
    /\ file \in Files /\ Fits(Len(file))
    /\ rules = Loaded(Len(file)) /\ rule = Dicts(rules, file)
    /\ walk = Idle
    /\ entry \in {e \in Entries : ~e.known /\ ~e.new /\ e.main = e.system
                                    /\ e.age = STALE_FIRE_S}
    /\ st = NewRescueState
    /\ served = {o \in ToSet(rules) : rule[o].last = TRUE}
    /\ rescued = FALSE /\ events = 0

-----------------------------------------------------------------------------
(* The unit, the bridge's cache, the plug                                  *)

Near(a, b) == a - b \in -1 .. 1

\* A push or a cloud poll brings a reading (the same one when the cloud repeats
\* what it last heard).  A unit that has gone dark takes no such step.
Sense(main, system) ==
    /\ Near(main, entry.main) /\ Near(system, entry.system) /\ Near(main, system)
    /\ entry' = [known |-> TRUE, new |-> TRUE, main |-> main, system |-> system,
                 age |-> 0]
    /\ UNCHANGED <<rules, rule, file, walk, st, served, rescued, events>>

\* The bridge restarts and has heard nothing yet.
BridgeRestart ==
    /\ Event /\ entry.known
    /\ entry' = [entry EXCEPT !.known = FALSE, !.new = FALSE, !.age = STALE_FIRE_S]
    /\ UNCHANGED <<rules, rule, file, walk, st, served, rescued>>

Older(age) == IF age < STALE_FIRE_S THEN age + 1 ELSE age

\* Time passes: every reading gets older.
Tick ==
    /\ entry' = [entry EXCEPT !.age = Older(@)]
    /\ st' = [st EXCEPT !.age = Older(@)]
    /\ walk' = IF walk.pc = "idle" THEN walk
               ELSE [walk EXCEPT !.snap.age = Older(@)]
    /\ UNCHANGED <<rules, rule, file, served, rescued, events>>

-----------------------------------------------------------------------------
(* The poll loop's pass: AutomationEngine.evaluate, then the rescue        *)

\* The bridge has answered the poll with the unit's telemetry.
PollReply ==
    /\ walk.pc = "idle" /\ entry.known
    /\ walk' = [Idle EXCEPT !.pc = "walk", !.shared = TRUE, !.snap = entry]
    /\ entry' = [entry EXCEPT !.new = FALSE]
    /\ rescued' = (rescued /\ ~(entry.new /\ entry.main >= CLEAR_SOC_PCT))
    /\ UNCHANGED <<rules, rule, file, st, served, events>>

Matches(d, soc) ==
    \/ d.op = "<"  /\ soc <  d.value
    \/ d.op = "<=" /\ soc <= d.value
    \/ d.op = "="  /\ soc =  d.value
    \/ d.op = ">=" /\ soc >= d.value
    \/ d.op = ">"  /\ soc >  d.value

WalkList == IF walk.shared THEN rules ELSE walk.list

\* The rule the pass looks at next is o, and no plug command is awaited.
At(o) == walk.pc = "walk" /\ walk.at <= Len(WalkList) /\ o = WalkList[walk.at]

InRange(o) == Matches(rule[o].def, walk.snap.system)

SkipDisabled(o) ==
    /\ At(o) /\ ~rule[o].enabled
    /\ rule' = [rule EXCEPT ![o].last = Unset]
    /\ walk' = [walk EXCEPT !.at = @ + 1]
    /\ served' = served \ {o}
    /\ UNCHANGED <<rules, file, entry, st, rescued, events>>

\* No edge: note on which side of the threshold the battery is.
NoEdge(o) ==
    /\ At(o) /\ rule[o].enabled /\ (InRange(o) => rule[o].last = TRUE)
    /\ rule' = [rule EXCEPT ![o].last = InRange(o)]
    /\ walk' = [walk EXCEPT !.at = @ + 1,
                            !.dirty = @ \/ rule[o].last # InRange(o)]
    /\ served' = IF InRange(o) THEN served ELSE served \ {o}
    /\ UNCHANGED <<rules, file, entry, st, rescued, events>>

\* Mutant of Edge: every matching pass is an edge.
EveryMatch(o) ==
    /\ At(o) /\ rule[o].enabled /\ InRange(o)
    /\ walk' = [walk EXCEPT !.pc = "toggle", !.on = {o}]
    /\ UNCHANGED <<rules, rule, file, entry, st, served, rescued, events>>

\* An edge: command the plug and wait for it.
Edge(o) ==
    /\ At(o) /\ rule[o].enabled /\ InRange(o) /\ rule[o].last # TRUE
    /\ walk' = [walk EXCEPT !.pc = "toggle", !.on = {o}]
    /\ UNCHANGED <<rules, rule, file, entry, st, served, rescued, events>>

\* A failed command may have switched the plug, which nobody reads back.
\* Mutant of Consumed: a failed command consumes the edge too.
ConsumedAnyway(r, ok) == [r EXCEPT !.last = TRUE]

\* The state of the rule after the command: only a success consumes the edge.
Consumed(r, ok) == IF ok THEN [r EXCEPT !.last = TRUE] ELSE r

ToggleReply(o, ok) ==
    /\ walk.pc = "toggle" /\ walk.on = {o}
    /\ walk' = [walk EXCEPT !.pc = "walk", !.at = @ + 1, !.on = {}, !.dirty = TRUE]
    /\ rule' = Collect([rule EXCEPT ![o] = Consumed(@, ok)], rules, walk')
    /\ served' = {r \in Objects : rule'[r] # NoRule
                                    /\ r \in served \cup (IF ok THEN {o} ELSE {})}
    /\ UNCHANGED <<rules, file, entry, st, rescued, events>>

\* The rules are done: save what changed, go on to the rescue.
EndWalk ==
    /\ walk.pc = "walk" /\ walk.at > Len(WalkList)
    /\ file' = IF walk.dirty THEN Contents(rules, rule) ELSE file
    /\ walk' = [Idle EXCEPT !.pc = "rescue", !.snap = walk.snap]
    /\ rule' = Collect(rule, rules, walk')
    /\ served' = {r \in served : rule'[r] # NoRule}
    /\ UNCHANGED <<rules, entry, st, rescued, events>>

\* _rescue_host_for: the plug of an enabled rule that switches on.
RescueHost == \E o \in ToSet(rules) : rule[o].enabled /\ rule[o].def.on

RescueDecide ==
    /\ walk.pc = "rescue"
    /\ st' = Decided(st, walk.snap)
    /\ walk' = IF Due(st, walk.snap) /\ RescueHost
               THEN [walk EXCEPT !.pc = "plug"] ELSE Idle
    /\ UNCHANGED <<rules, rule, file, entry, served, rescued, events>>

\* Only a success latches.
RescueReply(ok) ==
    /\ walk.pc = "plug"
    /\ st' = IF ok THEN MarkFired(st) ELSE st
    /\ rescued' = (rescued \/ ok)
    /\ walk' = Idle
    /\ UNCHANGED <<rules, rule, file, entry, served, events>>

-----------------------------------------------------------------------------
(* The routes                                                              *)

\* The list with the new dict in the place of the one with its id.
Placed(rec) ==
    LET old == {i \in DOMAIN rules : rule[rules[i]].id = rec.id}
    IN  IF old = {} THEN Append(rules, New)
        ELSE [i \in DOMAIN rules |-> IF i \in old THEN New ELSE rules[i]]

\* upsert(): a new dict takes the place of the one with its id, or is appended,
\* and the list is saved.  The edge state is the caller's: the editor's form
\* sends none, the on/off switch sends the one its page has loaded.
Upsert(rec) ==
    /\ Event /\ \E o \in Objects : rule[o] = NoRule
    /\ rules' = Placed(rec)
    /\ rule' = Collect([rule EXCEPT ![New] = rec], rules', walk)
    /\ file' = Contents(rules', rule')
    /\ served' = {o \in Objects : rule'[o] # NoRule
                                    /\ o \in served \cup (IF rec.last = TRUE
                                                          THEN {New} ELSE {})}
    /\ UNCHANGED <<walk, entry, st, rescued>>

\* delete() binds self.rules to a new list; a pass goes on over the old one.
Delete(i) ==
    /\ Event
    /\ rules' = RemoveAt(rules, i)
    /\ walk' = IF walk.shared THEN [walk EXCEPT !.shared = FALSE, !.list = rules]
               ELSE walk
    /\ rule' = Collect(rule, rules', walk')
    /\ file' = Contents(rules', rule')
    /\ served' = {r \in served : rule'[r] # NoRule}
    /\ UNCHANGED <<entry, st, rescued>>

Disabled(r) == [r EXCEPT !.enabled = FALSE, !.last = Unset]

\* disable_many() runs on the event loop: never within the pass's own steps.
DisableMany(some) ==
    /\ Event /\ walk.pc \in {"idle", "toggle", "plug"}
    /\ some # {} /\ some \subseteq {o \in ToSet(rules) : rule[o].enabled}
    /\ rule' = [o \in Objects |-> IF o \in some THEN Disabled(rule[o]) ELSE rule[o]]
    /\ file' = Contents(rules, rule')
    /\ served' = served \ some
    /\ UNCHANGED <<rules, walk, entry, st, rescued>>

\* The server restarts: the rules come from the file, the rescue forgets.
ServerRestart ==
    /\ Event /\ Fits(Len(file))
    /\ rules' = Loaded(Len(file)) /\ rule' = Dicts(rules', file)
    /\ walk' = Idle /\ st' = NewRescueState
    /\ entry' = [entry EXCEPT !.new = entry.known]
    /\ served' = {o \in ToSet(rules') : rule'[o].last = TRUE}
    /\ rescued' = FALSE
    /\ UNCHANGED file

-----------------------------------------------------------------------------
PassStep ==
    \/ \E o \in Objects : SkipDisabled(o) \/ NoEdge(o) \/ Edge(o)
    \/ \E o \in Objects, ok \in BOOLEAN : ToggleReply(o, ok)
    \/ EndWalk \/ RescueDecide
    \/ \E ok \in BOOLEAN : RescueReply(ok)

Route ==
    \/ \E rec \in Posts : Upsert(rec)
    \/ \E i \in DOMAIN rules : Delete(i)
    \/ \E some \in SUBSET Objects : DisableMany(some)

Next ==
    \/ \E main, system \in Levels : Sense(main, system)
    \/ BridgeRestart \/ Tick
    \/ PollReply \/ PassStep \/ Route \/ ServerRestart

Spec == Init /\ [][Next]_vars

\* The poll loop never stops, and the plug library answers or gives up.
LiveSpec == Spec /\ WF_vars(PollReply) /\ WF_vars(PassStep)

-----------------------------------------------------------------------------
(* Properties                                                              *)

\* Every dict that the list or the pass refers to exists.
Alive == \A o \in ToSet(rules) \cup ToSet(walk.list) \cup walk.on : rule[o] \in Records

AutomationTypeOK ==
    /\ rules \in Seq(Objects) /\ rule \in [Objects -> Records \cup {NoRule}]
    /\ Alive
    /\ \A i, j \in DOMAIN rules : rule[rules[i]].id = rule[rules[j]].id => i = j
    /\ file \in Seq(Records) /\ entry \in Entries /\ st \in RescueState
    /\ walk \in [pc : {"idle", "walk", "toggle", "rescue", "plug"},
                 list : Seq(Objects), shared : BOOLEAN, at : Nat \ {0},
                 on : SUBSET Objects, dirty : BOOLEAN, snap : Entries]
    /\ served \subseteq Objects /\ rescued \in BOOLEAN /\ events \in 0 .. MaxEvents

\* "fires the moment SOC drops below 20%, and won't fire again until SOC has
\* gone back above" (automation.py): no command is sent for a rule whose edge
\* has been acted on already.
OneFirePerEdge == walk.on \cap served = {}

\* The battery calls for rule i and nothing has been done about it yet.
Pending(i) ==
    /\ entry.known
    /\ \E o \in ToSet(rules) : /\ rule[o].id = i /\ rule[o].enabled /\ o \notin served
                              /\ Matches(rule[o].def, entry.system)

\* "Leave last_state unchanged so we retry on the next poll" (automation.py): a
\* rule whose edge has not been acted on is commanded again and again, through
\* failures and requests, until it works or the reason has gone.
EdgeServed ==
    \A i \in Ids : Pending(i) ~> ~Pending(i) \/ \E o \in walk.on : rule[o].id = i

\* "A successful fire latches; a fresh reading >= CLEAR_SOC_PCT re-arms"
\* (rescue.py): one rescue per incident, whatever happens in between.
OneRescuePerIncident == walk.pc = "plug" => ~rescued

\* The list keeps one rule per id through every route, and a rescue is not
\* repeated.
AutomationInv == AutomationTypeOK /\ OneRescuePerIncident

\* "Fresh reading <= ARM_MAIN_SOC_PCT -> fire the rescue plug NOW", and blind
\* when the unit has gone silent (rescue.py): a unit last heard at its end is
\* rescued, as long as a rule lends the plug and the rescue has not fired yet.
LowUnitRescued ==
    (entry.known /\ entry.main <= ARM_MAIN_SOC_PCT /\ RescueHost /\ ~st.fired)
      ~> (walk.pc = "plug" \/ st.fired \/ ~entry.known \/ ~RescueHost
            \/ entry.main > ARM_MAIN_SOC_PCT)

\* Neither a rule nor the rescue is forgotten.
DutiesServed == EdgeServed /\ LowUnitRescued
=============================================================================
