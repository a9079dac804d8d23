----------------------------- MODULE PackCache -----------------------------
(***************************************************************************)
(* The list of a unit's expansion packs on its way from the cloud: the     *)
(* bridge keeps what was pushed or first fetched (bridge.py 662-682,       *)
(* 1248-1270), the server asks the bridge from its poll loop and from the  *)
(* panel, and keeps what it got in memory and as snapshots in the database *)
(* (server.py 1909-1998, 4326-4366, 6340-6431, energy_db.py 898-987).  The *)
(* cloud sometimes gives an empty list of a unit that has packs.           *)
(***************************************************************************)
EXTENDS Integers, FiniteSets

CONSTANTS
  Packs,    \* that may be attached
  PackWh,   \* capacity of one
  MainWh    \* capacity of the main unit

ASSUME PackAssumption ==
  /\ IsFiniteSet(Packs) /\ "unknown" \notin Packs
  /\ {PackWh, MainWh} \subseteq Nat \ {0}

VARIABLES
  attached,   \* truth
  bridgePacks,\* bridge: battery_packs_by_sn of the unit, or Unknown
  serverPacks,\* server: the same
  snapshot,   \* database: the packs of the latest snapshot
  persistDue, \* has BATTERY_PACK_DB_PERSIST_S passed
  asking,     \* the callers' requests: nothing, waiting, or the answer
  settled     \* history: a snapshot was in the database at the last start, or
              \* was made since

packVars == <<attached, bridgePacks, serverPacks, snapshot, persistDue, asking, settled>>

Unknown == {"unknown"}
Nobody == [pc |-> "idle", packs |-> {}]

PackInit ==
  /\ attached \in SUBSET Packs
  /\ bridgePacks = Unknown /\ serverPacks = Unknown
  /\ snapshot = {} /\ persistDue = TRUE
  /\ asking = [c \in {"loop", "panel"} |-> Nobody]
  /\ settled = FALSE

-----------------------------------------------------------------------------
(* The bridge *)

\* SubDevicePropertyChange: the packs, those marked as deleted left out.
PackPush ==
  /\ \E some \in SUBSET attached : bridgePacks' = some
  /\ UNCHANGED <<attached, serverPacks, snapshot, persistDue, asking, settled>>

\* get_battery_packs: from memory, even an empty list; else from the cloud,
\* whose list may be empty, and is kept.
BridgeAnswers(c) ==
  /\ asking[c].pc = "waiting"
  /\ \E some \in IF bridgePacks # Unknown THEN {bridgePacks} ELSE {attached, {}} :
       /\ bridgePacks' = some
       /\ asking' = [asking EXCEPT ![c] = [pc |-> "answered", packs |-> some]]
  /\ UNCHANGED <<attached, serverPacks, snapshot, persistDue, settled>>

\* The bridge is away, or the cloud raised: nothing is kept, the caller asks
\* again later.
RequestFails(c) ==
  /\ asking[c].pc = "waiting"
  /\ asking' = [asking EXCEPT ![c] = Nobody]
  /\ UNCHANGED <<attached, bridgePacks, serverPacks, snapshot, persistDue, settled>>

PackBridgeRestarts ==
  /\ bridgePacks' = Unknown
  /\ UNCHANGED <<attached, serverPacks, snapshot, persistDue, asking, settled>>

-----------------------------------------------------------------------------
(* The server *)

\* _refresh_packs_for, in each iteration of the poll loop, one at a time.
LoopAsks ==
  /\ asking["loop"] = Nobody
  /\ asking' = [asking EXCEPT !["loop"] = [pc |-> "waiting", packs |-> {}]]
  /\ UNCHANGED <<attached, bridgePacks, serverPacks, snapshot, persistDue, settled>>

\* api_devices_battery_packs: without "fresh" only what was never asked for.
PanelAsks(fresh) ==
  /\ asking["panel"] = Nobody
  /\ fresh \/ serverPacks = Unknown
  /\ asking' = [asking EXCEPT !["panel"] = [pc |-> "waiting", packs |-> {}]]
  /\ UNCHANGED <<attached, bridgePacks, serverPacks, snapshot, persistDue, settled>>

\* Mutant: what the bridge says is what is kept.
KeepsAnswer(packs, readable) == packs

\* _record_packs_or_keep_cache: an empty answer displaces no packs, neither of
\* the memory nor of the database.
KeepOrRecord(packs, readable) ==
  IF packs # {} THEN packs
  ELSE IF serverPacks \notin {Unknown, {}} THEN serverPacks
  ELSE IF readable THEN snapshot
  ELSE {}

\* A snapshot is of packs; the loop makes one when it is due, the panel always.
Recorded(c, packs) ==
  IF packs # {} /\ (c = "panel" \/ persistDue) THEN packs ELSE snapshot

\* The database may fail to be read or to be written.
ServerTakes(c) ==
  /\ asking[c].pc = "answered"
  /\ \E readable, writable \in BOOLEAN :
       LET packs == asking[c].packs
           written == writable /\ Recorded(c, packs) = packs /\ packs # {} IN
       /\ serverPacks' = KeepOrRecord(packs, readable)
       /\ snapshot' = IF written THEN Recorded(c, packs) ELSE snapshot
       /\ persistDue' = (persistDue /\ ~(c = "loop" /\ written))
       /\ settled' = IF written THEN TRUE
                     ELSE settled /\ (readable \/ packs # {} \/ serverPacks \notin {Unknown, {}})
  /\ asking' = [asking EXCEPT ![c] = Nobody]
  /\ UNCHANGED <<attached, bridgePacks>>

PersistIntervalPasses ==
  /\ ~persistDue
  /\ persistDue' = TRUE
  /\ UNCHANGED <<attached, bridgePacks, serverPacks, snapshot, asking, settled>>

\* _hydrate_battery_packs_from_db; a database that cannot be read is skipped.
PackServerRestarts ==
  /\ \E readable \in BOOLEAN :
       /\ serverPacks' = IF readable /\ snapshot # {} THEN snapshot ELSE Unknown
       /\ settled' = (readable /\ snapshot # {})
  /\ persistDue' = TRUE
  /\ asking' = [c \in {"loop", "panel"} |-> Nobody]
  /\ UNCHANGED <<attached, bridgePacks, snapshot>>

\* The user attaches or removes a pack.
Attach ==
  /\ \E p \in Packs : attached' = (attached \cup {p}) \ (attached \cap {p})
  /\ UNCHANGED <<bridgePacks, serverPacks, snapshot, persistDue, asking, settled>>

\* _total_capacity_wh without an override
TotalCapacity(packs) == MainWh + PackWh * Cardinality(packs \ Unknown)

PackNext ==
  \/ PackPush \/ PackBridgeRestarts \/ LoopAsks \/ PersistIntervalPasses
  \/ PackServerRestarts \/ Attach
  \/ \E fresh \in BOOLEAN : PanelAsks(fresh)
  \/ \E c \in {"loop", "panel"} : BridgeAnswers(c) \/ RequestFails(c) \/ ServerTakes(c)

PackSpec == PackInit /\ [][PackNext]_packVars

-----------------------------------------------------------------------------
\* Once the database knows of packs, no empty answer of the cloud, to whoever
\* asked and in whichever order the answers come, makes the unit one without
\* packs again, or its capacity that of the main unit alone; unless the
\* database could not be read when it was needed (server.py 1914-1921).
PacksRemembered ==
  settled => serverPacks # {} /\ TotalCapacity(serverPacks) > MainWh
=============================================================================
