--------------------------- MODULE AdvisorActions ---------------------------
(***************************************************************************)
(* What the advisor may change (advisor_routes.py 1129-1389, energy_db.py  *)
(* 1213-1430): suggestions that are applied, by the API or by the          *)
(* assistant's tool, or dismissed.  Dismissing runs in a worker thread,    *)
(* everything else in the event loop.                                      *)
(***************************************************************************)
EXTENDS Naturals, FiniteSets

CONSTANTS
  Suggestions,  \* rows of algorithm_suggestions
  NoSuggestion,
  MaxEffects    \* bound: applications are counted up to it

ASSUME AdvisorAssumption ==
  NoSuggestion \notin Suggestions /\ MaxEffects \in Nat \ {0, 1}

VARIABLES
  suggestion,      \* of each suggestion, "none" before it is made
  applications,     \* rows of algorithm_changes for it
  applying,    \* what the event loop is applying
  dismissing,  \* suggestions that a thread has seen pending
  interrupted  \* history: suggestions whose application the server survived not

advisorVars == <<suggestion, applications, applying, dismissing, interrupted>>

NoApply == [pc |-> "none", of |-> NoSuggestion]

AdvisorInit ==
  /\ suggestion = [s \in Suggestions |-> "none"]
  /\ applications = [s \in Suggestions |-> 0]
  /\ applying = NoApply /\ dismissing = {} /\ interrupted = {}

\* Nothing else runs in the event loop while a suggestion is applied.
LoopFree == applying = NoApply

-----------------------------------------------------------------------------
(* Suggestions *)

\* A review dismisses what is old and adds what it has found.
ReviewEnds ==
  /\ LoopFree
  /\ \E old \in SUBSET {s \in Suggestions : suggestion[s] = "pending"},
        new \in SUBSET {s \in Suggestions : suggestion[s] = "none"} :
       suggestion' = [s \in Suggestions |-> IF s \in old THEN "dismissed"
                                        ELSE IF s \in new THEN "pending" ELSE suggestion[s]]
  /\ UNCHANGED <<applications, applying, dismissing, interrupted>>

\* Mutant: whatever exists is applied.
MayReapply(s) == suggestion[s] # "none"

\* Through the API or the assistant's tool: read, change the configuration and
\* leave a trace, record the status.
MayApply(s) == suggestion[s] = "pending"

ApplyReads(s) ==
  /\ LoopFree
  /\ MayApply(s)
  /\ applying' = [pc |-> "change", of |-> s]
  /\ UNCHANGED <<suggestion, applications, dismissing, interrupted>>

ApplyChanges ==
  /\ applying.pc = "change"
  /\ applications' = [applications EXCEPT ![applying.of] = IF @ = MaxEffects THEN @ ELSE @ + 1]
  /\ applying' = [applying EXCEPT !.pc = "settle"]
  /\ UNCHANGED <<suggestion, dismissing, interrupted>>

ApplySettles ==
  /\ applying.pc = "settle"
  /\ suggestion' = [suggestion EXCEPT ![applying.of] = "applied"]
  /\ applying' = NoApply
  /\ UNCHANGED <<applications, dismissing, interrupted>>

DismissReads(s) ==
  /\ suggestion[s] = "pending"
  /\ dismissing' = dismissing \cup {s}
  /\ UNCHANGED <<suggestion, applications, applying, interrupted>>

DismissSettles(s) ==
  /\ s \in dismissing
  /\ suggestion' = [suggestion EXCEPT ![s] = "dismissed"]
  /\ dismissing' = dismissing \ {s}
  /\ UNCHANGED <<applications, applying, interrupted>>

\* Rows stay, whatever was under way is lost.
AdvisorRestart ==
  /\ applying' = NoApply /\ dismissing' = {}
  /\ interrupted' = interrupted \cup ({applying.of} \ {NoSuggestion})
  /\ UNCHANGED <<suggestion, applications>>

AdvisorNext ==
  \/ ReviewEnds \/ ApplyChanges \/ ApplySettles
  \/ \E s \in Suggestions : ApplyReads(s) \/ DismissReads(s) \/ DismissSettles(s)
  \/ AdvisorRestart

AdvisorSpec == AdvisorInit /\ [][AdvisorNext]_advisorVars

-----------------------------------------------------------------------------
\* A suggestion changes the configuration once at most, and one that was shown
\* as decided does so no more, through whichever of the two routes, unless the
\* server died while it was applied or it was dismissed at that very moment
\* (advisor_routes.py 1341, assistant_routes.py 446).
AppliedOnce ==
  \A s \in Suggestions \ interrupted :
    applications[s] <= IF suggestion[s] = "pending" /\ applying.of # s THEN 0 ELSE 1

=============================================================================
