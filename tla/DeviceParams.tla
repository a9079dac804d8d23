---------------------------- MODULE DeviceParams ----------------------------
(***************************************************************************)
(* One learned parameter of a device (server.py 2709-2922, 4799-4983,      *)
(* energy_db.py 641-670 and 1349-1417): every read walks a ladder - the    *)
(* user's value in the table, a second place where the user may set it     *)
(* (smart_charge.max_charge_w, or the capacity override), a live fit, a    *)
(* default - and writes what it finds back into the table.                 *)
(***************************************************************************)
EXTENDS FiniteSets

CONSTANTS
  Values,    \* that the user chooses or a fit finds
  Default,   \* of the second place
  Clearable  \* can the second place be emptied: only the capacity override

ASSUME ParamsAssumption == Default \notin Values /\ Clearable \in BOOLEAN

VARIABLES
  row,     \* of device_params
  second,  \* value of the second place, or Nothing
  fitting, \* a fit or a refit of the API waits for the weather
  chosen   \* history: the user's last choice for the table, or Nothing

paramsVars == <<row, second, fitting, chosen>>

Nothing == "nothing"
NoRow == [source |-> "none", value |-> Nothing]
Row(value, source) == [source |-> source, value |-> value]

ParamsInit ==
  /\ row = NoRow /\ second = Nothing
  /\ fitting = "none"
  /\ chosen = Nothing

\* Mutant: what the user has stored is only a step of the ladder.
LadderLive(stored, other) ==
  IF other # Nothing THEN {Row(other, "user")}
  ELSE {Row(v, "fit") : v \in Values} \cup {Row(Default, "default"), stored}

\* resolve_device_param: the rows that a read may leave and give.  A fit that
\* raises leaves what was stored.
Ladder(stored, other) ==
  IF stored.source = "user" THEN {stored}
  ELSE IF other # Nothing THEN {Row(other, "user")}
  ELSE {Row(v, "fit") : v \in Values} \cup {Row(Default, "default"), stored}

Reads(stored) == row' \in Ladder(stored, second)

\* The panel, the assistant or an explanation reads the parameter.
Resolve ==
  /\ Reads(row)
  /\ UNCHANGED <<second, fitting, chosen>>

\* The user sets it, or resets it to what the ladder gives.
SetParam(v) ==
  /\ row' = Row(v, "user")
  /\ chosen' = v
  /\ UNCHANGED <<second, fitting>>

ClearParam ==
  /\ Reads(NoRow)
  /\ chosen' = Nothing
  /\ UNCHANGED <<second, fitting>>

\* A refit drops the row at once and reads when the weather has come.
RefitStarts ==
  /\ fitting = "none"
  /\ fitting' = "refit"
  /\ row' = NoRow
  /\ chosen' = Nothing
  /\ UNCHANGED second

RefitEnds ==
  /\ fitting = "refit"
  /\ fitting' = "none"
  /\ Reads(row)
  /\ UNCHANGED <<second, chosen>>

\* A fit over another window, to be applied as the user's value or only shown.
FitStarts ==
  /\ fitting = "none"
  /\ \E apply \in BOOLEAN : fitting' = IF apply THEN "apply" ELSE "preview"
  /\ UNCHANGED <<row, second, chosen>>

FitEnds ==
  /\ fitting \in {"apply", "preview"}
  /\ fitting' = "none"
  /\ \/ UNCHANGED <<row, chosen>>
     \/ /\ fitting = "apply"
        /\ \E v \in Values \cup {Default} : row' = Row(v, "user") /\ chosen' = v
  /\ UNCHANGED second

\* A save of the smart-charge form, by the user, the assistant or an applied
\* suggestion, always stores the field, and the default where it was left out.
SaveSecond(v) ==
  /\ second' = v
  /\ UNCHANGED <<row, fitting, chosen>>

SecondChoices ==
  Values \cup (IF Clearable THEN {Nothing} ELSE {Default})

ParamsNext ==
  \/ Resolve \/ ClearParam \/ RefitStarts \/ RefitEnds \/ FitStarts \/ FitEnds
  \/ \E v \in Values : SetParam(v)
  \/ \E v \in SecondChoices : SaveSecond(v)

ParamsSpec == ParamsInit /\ [][ParamsNext]_paramsVars

-----------------------------------------------------------------------------
\* A value that the user has chosen for the table stays until the user resets
\* it: reads, a refit that was already waiting, a preview and saves of the
\* second place do not displace it (server.py 2736-2750).
ChoiceStays ==
  chosen # Nothing => row = Row(chosen, "user")
=============================================================================
