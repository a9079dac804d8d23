----------------------------- MODULE MCServices -----------------------------
(***************************************************************************)
(* The components that keep data and talk to services, in one instance for *)
(* TLC.  They share no state: "part" chooses the one that runs, the others *)
(* rest in one of their initial states.                                    *)
(***************************************************************************)
EXTENDS Backup, Restore, EcoflowSession, SiseliFeed, SiseliPublish, EnergyClock,
        DailySummary, AdvisorActions, StreamReassembly, Weather,
        AssistantChat

VARIABLE part

vars == <<part, backupVars, restoreVars, ecoflowVars, siseliVars, publishVars,
          energyVars, summaryVars, advisorVars, streamVars, weatherVars, chatVars>>

Parts == {"backup", "restore", "ecoflow", "siseli", "publish", "energy",
          "summary", "advisor", "stream", "weather", "chat"}

MCDelays == [rotated |-> 1, failed |-> 1, refused |-> 2]

Init ==
  /\ part \in Parts
  /\ part = "backup" \/ transport = "none"
  /\ BackupInit
  /\ part = "restore" \/ (shelf = [s \in Snapshots |-> "bad"] /\ saved = TRUE
                            /\ data = [f \in DataFiles |-> Own])
  /\ RestoreInit
  /\ part = "ecoflow" \/ (credentials = FALSE /\ registry = {})
  /\ EcoflowInit
  /\ part = "siseli" \/ account = NoAccount
  /\ SiseliInit
  /\ PublishInit
  /\ EnergyInit
  /\ SummaryInit
  /\ AdvisorInit
  /\ StreamInit
  /\ WeatherInit
  /\ ChatInit

Next ==
  /\ UNCHANGED part
  /\ IF part = "backup"  THEN BackupNext  ELSE UNCHANGED backupVars
  /\ IF part = "restore" THEN RestoreNext ELSE UNCHANGED restoreVars
  /\ IF part = "ecoflow" THEN EcoflowNext ELSE UNCHANGED ecoflowVars
  /\ IF part = "siseli"  THEN SiseliNext  ELSE UNCHANGED siseliVars
  /\ IF part = "publish" THEN PublishNext ELSE UNCHANGED publishVars
  /\ IF part = "energy"  THEN EnergyNext  ELSE UNCHANGED energyVars
  /\ IF part = "summary" THEN SummaryNext ELSE UNCHANGED summaryVars
  /\ IF part = "advisor" THEN AdvisorNext ELSE UNCHANGED advisorVars
  /\ IF part = "stream"  THEN StreamNext  ELSE UNCHANGED streamVars
  /\ IF part = "weather" THEN WeatherNext ELSE UNCHANGED weatherVars
  /\ IF part = "chat"    THEN ChatNext    ELSE UNCHANGED chatVars

\* Each component's fairness, while it runs.
Fairness ==
  /\ WF_ecoflowVars(part = "ecoflow" /\ EcoflowPass)
  /\ WF_ecoflowVars(part = "ecoflow" /\ RetryTick)
  /\ WF_ecoflowVars(part = "ecoflow" /\ ConnectionChanges)
  /\ WF_siseliVars(part = "siseli" /\ SiseliPass)
  /\ WF_publishVars(part = "publish" /\ HealthThread)
  /\ WF_publishVars(part = "publish" /\ TakeSnapshot)
  /\ WF_publishVars(part = "publish" /\ PublishGroupedState)
  /\ WF_publishVars(part = "publish" /\ PublishTime)
  /\ \A c \in Callers :
       SF_weatherVars(part = "weather" /\ Ask(c)) /\ SF_weatherVars(part = "weather" /\ Answered(c))
  /\ WF_weatherVars(part = "weather" /\ WeatherTime)

Spec == Init /\ [][Next]_vars /\ Fairness

-----------------------------------------------------------------------------
\* What was changed is in force in the end, whatever was under way when it
\* was changed: the EcoFlow session is that of the settings (server.py
\* 1505-1734), a cleared Siseli account leaves no devices (server.py
\* 1126-1458), forecasts and offset are the place's (weather_client.py 71-76),
\* and a snapshot that the throttle defers is sent (parsers.py 727-741).
ChangesTakeEffect ==
  EcoflowFollowsSettings /\ SignedOutForgets /\ PlaceIsKept /\ DeferredIsSent
=============================================================================
