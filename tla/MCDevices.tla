------------------------------ MODULE MCDevices ------------------------------
(***************************************************************************)
(* The components that read and switch devices, in one instance for TLC.   *)
(* They share no state: "part" chooses the one that runs, the others rest  *)
(* in one of their initial states.                                         *)
(***************************************************************************)
EXTENDS BalanceWindow, F7Pulse, DeviceMirror, KasaPlugs, DeviceParams,
        SmartCharge, SocForecast, HistoryFits, PackCache,
        EnergyLedger, PlannedLoad, ViewFanout

VARIABLE part

vars == <<part, balanceVars, f7Vars, mirrorVars, kasaVars, paramsVars, smartVars,
          forecastVars, fitsVars, packVars, ledgerVars, calendarVars,
          fanoutVars>>

Parts == {"balance", "f7", "mirror", "kasa", "params", "smart", "forecast",
          "fits", "packs", "ledger", "calendar", "fanout"}

MCSpans == {<<1, 3>>, <<3, 2>>}
MCSleeps == {<<0, 0>>, <<3, 1>>}

Init ==
  /\ part \in Parts
  /\ FitsInit
  /\ part = "fits" \/ unit = CHOOSE u \in Units : TRUE
  /\ BalanceInit
  /\ part = "balance" \/ (triggers = {} /\ fullAge = 0)
  /\ PackInit
  /\ part = "packs" \/ attached = {}
  /\ CalendarInit
  /\ part = "calendar" \/ (calendar.windows = {} /\ offZone = 0)
  /\ FanoutInit
  /\ part = "fanout" \/ ~secured
  /\ KasaInit
  /\ part = "kasa" \/ plug = "off"
  /\ F7Init /\ MirrorInit /\ ParamsInit /\ LedgerInit
  /\ SmartInit
  /\ part = "smart" \/ (rate = [h \in 0..Hours - 1 |-> 1] /\ charge = 0)
  /\ ForecastInit
  /\ part = "forecast" \/ (weather = [h \in ForecastHours |->
                                        [sun |-> 0, demand |-> 0, asleep |-> FALSE]]
                             /\ baseline = 0)

Next ==
  /\ UNCHANGED part
  /\ IF part = "balance"  THEN BalanceNext  ELSE UNCHANGED balanceVars
  /\ IF part = "f7"       THEN F7Next       ELSE UNCHANGED f7Vars
  /\ IF part = "mirror"   THEN MirrorNext   ELSE UNCHANGED mirrorVars
  /\ IF part = "kasa"     THEN KasaNext     ELSE UNCHANGED kasaVars
  /\ IF part = "params"   THEN ParamsNext   ELSE UNCHANGED paramsVars
  /\ IF part = "smart"    THEN SmartNext    ELSE UNCHANGED smartVars
  /\ IF part = "forecast" THEN ForecastNext ELSE UNCHANGED forecastVars
  /\ IF part = "fits"     THEN FitsNext     ELSE UNCHANGED fitsVars
  /\ IF part = "packs"    THEN PackNext     ELSE UNCHANGED packVars
  /\ IF part = "ledger"   THEN LedgerNext   ELSE UNCHANGED ledgerVars
  /\ IF part = "calendar" THEN CalendarNext ELSE UNCHANGED calendarVars
  /\ IF part = "fanout"   THEN FanoutNext   ELSE UNCHANGED fanoutVars

Spec == Init /\ [][Next]_vars
=============================================================================
