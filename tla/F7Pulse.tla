------------------------------- MODULE F7Pulse -------------------------------
(***************************************************************************)
(* The workaround for the solar inverter's F7 latch (f7_ac_reset.py,       *)
(* server.py 3432-3494): when a poll shows the error with AC off, by       *)
(* daylight, AC is switched on and, after a pause, off again by a task.    *)
(* The poll reads the bridge's last frame, whatever its age.               *)
(***************************************************************************)
EXTENDS Integers

CONSTANTS
  PulseCooldown,  \* cooldown_min
  PulseLength,    \* pulse_s
  MaxTime         \* bound: ages are not told apart beyond it

ASSUME F7Assumption ==
  {PulseCooldown, PulseLength, MaxTime} \subseteq Nat /\ MaxTime >= PulseCooldown

VARIABLES
  ac,         \* the AC output itself
  f7,         \* does the device report the error
  frame,      \* the bridge's last frame, with its age
  enabled,    \* the opt-in
  daylight,   \* manual window or weather
  sinceStamp, \* age of last_cycle_ts in the file, or Unstamped
  pulse,      \* the pulse task
  sincePulse  \* history: time since a pulse began

f7Vars == <<ac, f7, frame, enabled, daylight, sinceStamp, pulse, sincePulse>>

Unstamped == -1
NoPulse == [pc |-> "none"]
OneOlder(age) == IF age = -1 \/ age = MaxTime THEN age ELSE age + 1

F7Init ==
  /\ ac = FALSE /\ f7 = FALSE
  /\ frame = [ac |-> FALSE, f7 |-> FALSE, age |-> 0]
  /\ enabled = TRUE /\ daylight = TRUE
  /\ sinceStamp = Unstamped
  /\ pulse = NoPulse
  /\ sincePulse = MaxTime

\* The port switches; AC on clears the latch.
Switched(on) ==
  /\ ac' = on
  /\ f7' = (f7 /\ ~on)

LatchesF7 ==
  /\ ~ac /\ ~f7
  /\ f7' = TRUE
  /\ UNCHANGED <<ac, frame, enabled, daylight, sinceStamp, pulse, sincePulse>>

SunChanges ==
  /\ daylight' = ~daylight
  /\ UNCHANGED <<ac, f7, frame, enabled, sinceStamp, pulse, sincePulse>>

Report ==
  /\ frame' = [ac |-> ac, f7 |-> f7, age |-> 0]
  /\ UNCHANGED <<ac, f7, enabled, daylight, sinceStamp, pulse, sincePulse>>

\* At the device or through the API.
UserSwitches ==
  /\ Switched(~ac)
  /\ UNCHANGED <<frame, enabled, daylight, sinceStamp, pulse, sincePulse>>

\* Mutant: a save stores the form's fields only.
SetConfigOnly ==
  /\ enabled' = ~enabled
  /\ sinceStamp' = Unstamped
  /\ UNCHANGED <<ac, f7, frame, daylight, pulse, sincePulse>>

\* A save keeps the runtime fields.
SetConfig ==
  /\ enabled' = ~enabled
  /\ UNCHANGED <<ac, f7, frame, daylight, sinceStamp, pulse, sincePulse>>

\* f7_ac_reset.evaluate on a frame.
EvaluateF7(f) ==
  /\ enabled
  /\ ~f.ac
  /\ f.f7
  /\ daylight
  /\ sinceStamp = Unstamped \/ sinceStamp >= PulseCooldown

\* The poll loop's tick: the stamp is saved before the task starts.
F7Tick ==
  /\ EvaluateF7(frame)
  /\ pulse = NoPulse
  /\ sinceStamp' = 0 /\ sincePulse' = 0
  /\ pulse' = [pc |-> "on", left |-> PulseLength]
  /\ UNCHANGED <<ac, f7, frame, enabled, daylight>>

\* A command of the task reaches the port or not, and returns or raises.
PulseCommand(on, then) ==
  /\ \/ Switched(on)
     \/ UNCHANGED <<ac, f7>> /\ then = NoPulse
  /\ pulse' = then
  /\ UNCHANGED <<frame, enabled, daylight, sinceStamp, sincePulse>>

PulseOn ==
  /\ pulse.pc = "on"
  /\ \E then \in {NoPulse, [pulse EXCEPT !.pc = "wait"]} : PulseCommand(TRUE, then)

PulseOff ==
  /\ pulse.pc = "wait" /\ pulse.left = 0
  /\ PulseCommand(FALSE, NoPulse)

\* Commands take no time.
PulseTime ==
  /\ pulse = NoPulse \/ (pulse.pc = "wait" /\ pulse.left > 0)
  /\ pulse' = IF pulse = NoPulse THEN pulse ELSE [pulse EXCEPT !.left = @ - 1]
  /\ frame' = [frame EXCEPT !.age = OneOlder(@)]
  /\ sinceStamp' = OneOlder(sinceStamp)
  /\ sincePulse' = OneOlder(sincePulse)
  /\ UNCHANGED <<ac, f7, enabled, daylight>>

F7Restart ==
  /\ pulse # NoPulse
  /\ pulse' = NoPulse
  /\ UNCHANGED <<ac, f7, frame, enabled, daylight, sinceStamp, sincePulse>>

F7Next ==
  \/ LatchesF7 \/ SunChanges \/ Report \/ UserSwitches
  \/ SetConfig \/ F7Tick \/ PulseOn \/ PulseOff \/ PulseTime \/ F7Restart

F7Spec == F7Init /\ [][F7Next]_f7Vars

-----------------------------------------------------------------------------
\* Two pulses begin at least PulseCooldown apart, whatever was saved, failed or
\* restarted in between, and one never begins within another.
PulsesSpaced ==
  [][pulse = NoPulse /\ pulse' # NoPulse => sincePulse >= PulseCooldown]_f7Vars

=============================================================================
