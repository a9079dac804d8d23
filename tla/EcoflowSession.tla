--------------------------- MODULE EcoflowSession ---------------------------
(***************************************************************************)
(* The EcoFlow MQTT session (server.py 1505-1734, ecoflow_client.py        *)
(* 365-564): ecoflow_loop starts it in a thread when there are credentials *)
(* and devices, asks a silent one for its data, and forces a reconnect;    *)
(* the API stops it and changes what it is for.  The wake flag is cleared  *)
(* at the end of each pass, whoever set it meanwhile.                      *)
(***************************************************************************)
EXTENDS Integers, FiniteSets

CONSTANTS
  Serials,      \* raw serial numbers that may be registered
  NoClient,
  QuotaRetries, \* 3 in the code
  Delays,       \* waits after [rotated, failed, refused]: 5, 30 and 300 s
  MaxEdits      \* bound: API calls and changes of the broker

ASSUME EcoflowAssumption ==
  /\ IsFiniteSet(Serials) /\ NoClient \notin [sns : SUBSET Serials, up : BOOLEAN, runs : BOOLEAN]
  /\ QuotaRetries \in Nat /\ MaxEdits \in Nat
  /\ Delays \in [{"rotated", "failed", "refused"} -> Nat \ {0}]

VARIABLES
  credentials, \* are credentials in the file
  registry,  \* serials of the registered devices
  client,    \* state.ecoflow_client: subscribed serials, is it connected
  sessions,  \* paho threads that run
  loop,      \* ecoflow_loop and the start thread it waits for
  wake,      \* state.ecoflow_wake
  retryIn,   \* what is left until next_retry_ts
  rotated,   \* client_id_rotated
  quotas,    \* quota_attempts
  silence,   \* of the telemetry: 0 fresh, 1 stale, 2 past quota retries
  broker,    \* "up", "down", or "refuses" the client id
  edits

apiVars == <<credentials, registry>>
watchVars == <<retryIn, rotated, quotas>>
ecoflowVars == <<apiVars, client, sessions, loop, wake, watchVars, silence,
                 broker, edits>>

Waiting == [pc |-> "wait"]
Watching == [pc |-> "watch"]

EcoflowInit ==
  /\ credentials \in BOOLEAN /\ registry \in SUBSET Serials
  /\ client = NoClient /\ sessions = 0
  /\ loop = [pc |-> "top"] /\ wake = FALSE
  /\ retryIn = 0 /\ rotated = FALSE /\ quotas = 0
  /\ silence = 2
  /\ broker = "up"
  /\ edits = 0

Connected == client # NoClient /\ client.up

\* Mutant: only a connected client is disconnected, the others' threads go on.
StopConnected ==
  /\ client' = NoClient
  /\ sessions' = IF ~Connected THEN sessions ELSE sessions - 1

\* A client that is not connected keeps its thread, unless it never was.
StopClient ==
  /\ client' = NoClient
  /\ sessions' = IF client = NoClient \/ ~client.runs THEN sessions ELSE sessions - 1

Configured == credentials /\ registry # {}

\* Mutant: serials that were removed stay subscribed.
SubscribesAdded == registry \ client.sns # {}

\* Registered serials that differ from the subscribed ones call for a restart.
NeedsResubscribe == client.sns # registry

NeedsStart == client = NoClient \/ ~client.up \/ NeedsResubscribe

LoopRests == loop' = Waiting /\ wake' = FALSE

\* The top of a pass.
LoopTop ==
  /\ loop.pc = "top"
  /\ \/ /\ Configured
        /\ loop' = IF NeedsStart /\ retryIn = 0 THEN [pc |-> "start"] ELSE Watching
        /\ UNCHANGED <<client, sessions, wake, watchVars>>
     \/ /\ ~Configured
        /\ StopClient
        /\ retryIn' = 0 /\ quotas' = 0
        /\ LoopRests
        /\ UNCHANGED rotated
  /\ UNCHANGED <<apiVars, silence, broker, edits>>

\* _ecoflow_start_client reads the settings and stops the old client.
StartReads ==
  /\ loop.pc = "start"
  /\ StopClient
  /\ IF Configured
     THEN /\ loop' = [pc |-> "login", sns |-> registry]
          /\ UNCHANGED <<retryIn, rotated>>
     ELSE loop' = Watching /\ retryIn' = 0 /\ rotated' = FALSE
  /\ UNCHANGED <<apiVars, wake, quotas, silence, broker, edits>>

\* A login that fails leaves no client.
StartLogin ==
  /\ loop.pc = "login"
  /\ IF broker = "up" \/ broker = "refuses"
     THEN /\ loop' = [pc |-> "update", sns |-> loop.sns, found |-> credentials]
          /\ UNCHANGED retryIn
     ELSE /\ loop' = Watching
          /\ \E why \in {"failed", "refused"} : retryIn' = Delays[why]
  /\ UNCHANGED <<apiVars, client, sessions, wake, rotated, quotas, silence,
                 broker, edits>>

\* update_session writes the file it has read a moment before, even one that
\* was deleted meanwhile.
StartUpdates ==
  /\ loop.pc = "update"
  /\ credentials' = (credentials \/ loop.found)
  /\ loop' = [pc |-> "mqtt", sns |-> loop.sns]
  /\ UNCHANGED <<registry, client, sessions, wake, watchVars, silence, broker, edits>>

\* The first refusal of the client id has it replaced.
StartMqtt ==
  /\ loop.pc = "mqtt"
  /\ client' = [sns |-> loop.sns, up |-> broker = "up", runs |-> broker = "up"]
  /\ sessions' = IF broker = "up" THEN sessions + 1 ELSE sessions
  /\ \/ broker = "up" /\ retryIn' = 0 /\ rotated' = FALSE /\ quotas' = 0
     \/ /\ broker = "refuses" /\ rotated' = TRUE
        /\ retryIn' = Delays[IF rotated THEN "refused" ELSE "rotated"]
        /\ UNCHANGED quotas
     \/ broker = "down" /\ retryIn' = Delays["failed"] /\ UNCHANGED <<rotated, quotas>>
  /\ loop' = Watching
  /\ UNCHANGED <<apiVars, wake, silence, broker, edits>>

\* A silent session is asked for its data, then given up, in the window that
\* the user allows.
LoopWatch ==
  /\ loop.pc = "watch"
  /\ \/ ~Connected /\ UNCHANGED <<client, sessions, retryIn, quotas>>
     \/ /\ Connected /\ silence > 0 /\ quotas < QuotaRetries
        /\ quotas' \in {quotas, quotas + 1}
        /\ UNCHANGED <<client, sessions, retryIn>>
     \/ /\ Connected /\ silence = 2 /\ quotas >= QuotaRetries
        /\ retryIn' = 0 /\ quotas' = 0
        /\ StopClient
     \/ /\ Connected /\ (silence = 0 \/ quotas >= QuotaRetries)
        /\ UNCHANGED <<client, sessions, retryIn, quotas>>
  /\ LoopRests
  /\ UNCHANGED <<apiVars, rotated, silence, broker, edits>>

\* The wait ends with the wake flag, which clears the back-off, or times out.
LoopWakes ==
  /\ loop = Waiting
  /\ loop' = [pc |-> "top"]
  /\ retryIn' = IF wake THEN 0 ELSE retryIn
  /\ UNCHANGED <<apiVars, client, sessions, wake, rotated, quotas, silence,
                 broker, edits>>

RetryTick ==
  /\ retryIn > 0
  /\ retryIn' = retryIn - 1
  /\ UNCHANGED <<apiVars, client, sessions, loop, wake, rotated, quotas,
                 silence, broker, edits>>

Telemetry ==
  /\ Connected /\ silence # 0
  /\ silence' = 0
  /\ UNCHANGED <<apiVars, client, sessions, loop, wake, watchVars, broker, edits>>

FallsSilent ==
  /\ silence < 2
  /\ silence' = silence + 1
  /\ UNCHANGED <<apiVars, client, sessions, loop, wake, watchVars, broker, edits>>

\* paho reports a lost connection, and comes back by itself.
ConnectionChanges ==
  /\ client # NoClient /\ client.runs
  /\ client.up # (broker = "up")
  /\ client' = [client EXCEPT !.up = ~@]
  /\ UNCHANGED <<apiVars, sessions, loop, wake, watchVars, silence, broker, edits>>

Change == edits < MaxEdits /\ edits' = edits + 1

BrokerChanges ==
  /\ Change
  /\ broker' \in {"up", "down", "refuses"} \ {broker}
  /\ UNCHANGED <<apiVars, client, sessions, loop, wake, watchVars, silence>>

SaveAccount ==
  /\ Change
  /\ credentials' = TRUE /\ wake' = TRUE
  /\ UNCHANGED <<registry, client, sessions, loop, watchVars, silence, broker>>

DeleteAccount ==
  /\ Change
  /\ credentials' = FALSE /\ wake' = TRUE
  /\ StopClient
  /\ retryIn' = 0 /\ rotated' = FALSE /\ quotas' = 0 /\ silence' = 2
  /\ UNCHANGED <<registry, loop, broker>>

SaveDevices ==
  /\ Change
  /\ registry' \in SUBSET Serials \ {registry} /\ wake' = TRUE
  /\ UNCHANGED <<credentials, client, sessions, loop, watchVars, silence, broker>>

\* /api/ecoflow/reconnect stops the client so that the loop must start one.
ForceReconnect ==
  /\ Change
  /\ Configured
  /\ StopClient
  /\ retryIn' = 0 /\ quotas' = 0 /\ wake' = TRUE
  /\ UNCHANGED <<apiVars, loop, rotated, silence, broker>>

EcoflowPass ==
  \/ LoopTop \/ StartReads \/ StartLogin \/ StartUpdates \/ StartMqtt
  \/ LoopWatch \/ LoopWakes

EcoflowNext ==
  \/ LoopTop \/ StartReads \/ StartLogin \/ StartUpdates \/ StartMqtt
  \/ LoopWatch \/ LoopWakes
  \/ RetryTick \/ Telemetry \/ FallsSilent \/ ConnectionChanges \/ BrokerChanges
  \/ SaveAccount \/ DeleteAccount \/ SaveDevices \/ ForceReconnect

\* The loop keeps going, time passes, and paho notices what the broker does.
EcoflowFairness ==
  /\ WF_ecoflowVars(EcoflowPass)
  /\ WF_ecoflowVars(RetryTick)
  /\ WF_ecoflowVars(ConnectionChanges)

EcoflowSpec == EcoflowInit /\ [][EcoflowNext]_ecoflowVars /\ EcoflowFairness

-----------------------------------------------------------------------------
\* No MQTT session runs that nobody refers to: a start, a stop by the API
\* meanwhile, a refused or forced reconnect leave the client's at most
\* (server.py 1510-1598).
NoOrphanSession ==
  sessions = IF client # NoClient /\ client.runs THEN 1 ELSE 0

\* Once settings and broker stay as they are, the session is theirs again and
\* again: connected for exactly the registered devices, or stopped.  Wake-ups
\* lost at the end of a pass and starts overtaken by the API only delay it.
EcoflowFollowsSettings ==
  []<>(IF Configured /\ broker = "up"
       THEN Connected /\ client.sns = registry
       ELSE Configured \/ client = NoClient)
=============================================================================
