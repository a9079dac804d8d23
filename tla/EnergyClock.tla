----------------------------- MODULE EnergyClock -----------------------------
(***************************************************************************)
(* The energy integrator of the Siseli capture (siseli_local/parsers.py    *)
(* 660-712, 778-806, 916-964, 1029-1035, core.py 107-195, state.py         *)
(* 107-141): a payload credits the time since the last one to a counter,   *)
(* and both travel in one cache file from which a new process resumes.     *)
(* One domain at constant power, so the counter is in seconds.             *)
(***************************************************************************)
EXTENDS Integers, FiniteSetsExt

CONSTANTS
  MaxDt,          \* _energy_max_dt
  CacheInterval,  \* STATE_CACHE_INTERVAL_SEC
  EndOfTime,      \* bound
  MaxBoots        \* bound

ASSUME EnergyAssumption == {MaxDt, CacheInterval, EndOfTime, MaxBoots} \subseteq Nat

VARIABLES
  time,     \* true time
  host,     \* this boot: its number, and when it began
  capturing,\* does the process run
  energy,   \* its memory: LAST_ENERGY_TS, is it restored, the counter, and
            \* (history) when that counter was last zero
  cache,    \* state.json
  written   \* LAST_CACHE_WRITE_TS, or NoReading

energyVars == <<time, host, capturing, energy, cache, written>>

NoReading == -1

\* time.monotonic()
Monotonic == time - host.began

EnergyInit ==
  /\ time = 0
  /\ host = [boot |-> 1, began |-> 0]
  /\ capturing = FALSE
  /\ energy = [clock |-> NoReading, restored |-> FALSE, counter |-> 0, since |-> 0]
  /\ cache = [clock |-> NoReading, boot |-> 0, counter |-> 0, since |-> 0]
  /\ written = NoReading

\* _energy_dt_seconds
Credit ==
  LET dt == Max({0, Monotonic - energy.clock}) IN
  IF energy.clock = NoReading \/ (energy.restored /\ dt > MaxDt) THEN 0
  ELSE Min({dt, MaxDt})

Integrated == [energy EXCEPT !.clock = Monotonic, !.restored = FALSE, !.counter = @ + Credit]

\* Mutant: the clocks are read before the payload is integrated.
SavedEarlier(e, legible) ==
  [clock |-> IF legible THEN energy.clock ELSE NoReading, boot |-> host.boot,
   counter |-> e.counter, since |-> e.since]

\* The record of _write_state_cache; the clock is left out when the boot id
\* cannot be read.
Saved(e, legible) ==
  [clock |-> IF legible THEN e.clock ELSE NoReading, boot |-> host.boot,
   counter |-> e.counter, since |-> e.since]

CacheDue == written = NoReading \/ Monotonic - written >= CacheInterval

\* A payload with the domain's power, parsed to the end or not: an exception
\* after the integration loses the interval.  The write may fail.
Payload ==
  /\ capturing
  /\ \/ /\ energy' = Integrated
        /\ \/ /\ CacheDue
              /\ \E legible \in BOOLEAN : cache' = Saved(Integrated, legible)
              /\ written' = Monotonic
           \/ UNCHANGED <<cache, written>>
     \/ /\ energy' = [Integrated EXCEPT !.counter = energy.counter]
        /\ UNCHANGED <<cache, written>>
  /\ UNCHANGED <<time, host, capturing>>

\* restore_energy_clocks
Resumable(legible) ==
  /\ cache.clock # NoReading /\ legible
  /\ cache.boot = host.boot
  /\ cache.clock <= Monotonic

\* load_cached_state; RESET_ENERGY_COUNTERS zeroes the counter and drops the
\* clock.
LoadCachedState(reset) ==
  /\ ~capturing
  /\ capturing' = TRUE
  /\ \E legible \in BOOLEAN :
       LET resumes == Resumable(legible) /\ ~reset IN
       energy' = [clock |-> IF resumes THEN cache.clock ELSE NoReading,
                  restored |-> resumes,
                  counter |-> IF reset THEN 0 ELSE cache.counter,
                  since |-> IF reset THEN time ELSE cache.since]
  /\ written' = NoReading
  /\ UNCHANGED <<time, host, cache>>

CaptureDies ==
  /\ capturing
  /\ capturing' = FALSE
  /\ UNCHANGED <<time, host, energy, cache, written>>

Reboot ==
  /\ host.boot < MaxBoots
  /\ host' = [boot |-> host.boot + 1, began |-> time]
  /\ capturing' = FALSE
  /\ UNCHANGED <<time, energy, cache, written>>

EnergyTime ==
  /\ time < EndOfTime
  /\ time' = time + 1
  /\ UNCHANGED <<host, capturing, energy, cache, written>>

EnergyNext ==
  \/ Payload
  \/ \E reset \in BOOLEAN : LoadCachedState(reset)
  \/ CaptureDies \/ Reboot \/ EnergyTime

EnergySpec == EnergyInit /\ [][EnergyNext]_energyVars

-----------------------------------------------------------------------------
\* No moment is credited twice, and none before the counters were reset,
\* whatever died when: clock and counter on disk are of one payload
\* (state.py 123: "a clock older than its counter would credit the gap between
\* them twice").
CreditedOnce == capturing => energy.counter <= time - energy.since
=============================================================================
