---------------------------- MODULE AssistantChat ----------------------------
(***************************************************************************)
(* One conversation with the assistant (assistant_routes.py,               *)
(* assistant_agent.py, assistant_store.py): turns of the chat and their    *)
(* tools, the approval of what the model wants to change, an attachment,   *)
(* and the deletion of it all.  Turns, approvals and uploads are tasks of  *)
(* the event loop; denials and deletions run in worker threads.            *)
(***************************************************************************)
EXTENDS Naturals, SequencesExt

CONSTANTS
  ChatTurns,    \* turns that may be under way at once
  ToolRuns,     \* ids of rows in assistant_tool_runs
  MaxRounds,    \* calls of the model in a turn (6 in the code)
  MaxToolUses,  \* bound: tools in one answer of the model
  EffectsCounted   \* bound: commands of a run are counted up to it

ASSUME ChatAssumption == MaxRounds \in Nat \ {0} /\ MaxToolUses \in Nat /\ EffectsCounted \in Nat \ {0, 1}

VARIABLES
  chat,       \* the conversation has its row
  deleting,   \* "no", or what the thread that deletes it has left to do
  messages,   \* there are rows of its messages
  runs,       \* rows of its tool runs
  turns,      \* the turns under way
  approving,  \* approvals of each run under way
  denying,    \* runs that a thread has seen pending
  upload,     \* how far the upload is
  attachment, \* the row of the attachment: "none", "loose" or "bound" to a message
  file,       \* its file exists
  effects,    \* how often each run's command was sent
  unasked,    \* history: something was changed that nobody agreed to
  crossed,    \* history: runs decided twice at once, or under way at a restart
  disturbed   \* history: a turn or an upload was under way at the deletion, or
              \* the server stopped in it

chatVars == <<chat, deleting, messages, runs, turns, approving, denying, upload,
              attachment, file, effects, unasked, crossed, disturbed>>

\* What the model may call.  A preview is fit_device_param without apply: one
\* of WRITE_TOOLS that changes nothing.
Tools == {"read", "preview", "write"}
WriteTools == {"preview", "write"}

\* Mutant: previews are recognised by what they are not asked to do.
AsksForNamed(tool) == tool = "preview"

NeedsApproval(tool) == tool = "write"

NoTurn == [at |-> "idle", uses |-> <<>>, autopilot |-> FALSE, proposed |-> FALSE, round |-> 0]
\* Ids are never used again.
NoToolRun == [status |-> "none", tool |-> "read"]

ChatInit ==
  /\ chat = TRUE /\ deleting = "no" /\ messages = FALSE
  /\ runs = [r \in ToolRuns |-> NoToolRun]
  /\ turns = [t \in ChatTurns |-> NoTurn]
  /\ approving = [r \in ToolRuns |-> 0] /\ denying = {}
  /\ upload = "no" /\ attachment = "none" /\ file = FALSE
  /\ effects = [r \in ToolRuns |-> 0]
  /\ unasked = FALSE /\ crossed = {} /\ disturbed = FALSE

rowsVars == <<chat, deleting, upload, file, disturbed>>
decisionVars == <<approving, denying, effects, crossed>>

-----------------------------------------------------------------------------
(* A turn *)

FreeRuns == {r \in ToolRuns : runs[r].status = "none"}

\* The user's message, with an attachment or without, and the first call.
TurnStarts(t) ==
  /\ chat
  /\ turns[t].at = "idle"
  /\ \E auto \in BOOLEAN :
       turns' = [turns EXCEPT ![t] = [NoTurn EXCEPT !.at = "model", !.autopilot = auto, !.round = 1]]
  /\ messages' = TRUE
  /\ attachment' \in {attachment, IF attachment = "none" THEN "none" ELSE "bound"}
  /\ UNCHANGED <<rowsVars, decisionVars, runs, unasked>>

\* The assistant's message ends the turn, whether the conversation is still
\* there or not.
TurnEnds(t) ==
  /\ turns' = [turns EXCEPT ![t] = NoTurn]
  /\ messages' = TRUE

\* The model answers with text, asks for tools, or cannot be reached.
ModelAnswers(t) ==
  /\ turns[t].at = "model"
  /\ \/ TurnEnds(t)
     \/ /\ \E uses \in SeqOf(Tools, MaxToolUses) \ {<<>>} :
             turns' = [turns EXCEPT ![t].at = "tools", ![t].uses = uses]
        /\ UNCHANGED messages
  /\ UNCHANGED <<rowsVars, decisionVars, runs, attachment, unasked>>

Tool(t) == Head(turns[t].uses)

Waits(t) == NeedsApproval(Tool(t)) /\ ~turns[t].autopilot

\* The row of a run gets an unused id.
Insert(run) ==
  /\ FreeRuns # {}
  /\ LET r == CHOOSE x \in FreeRuns : TRUE IN runs' = [runs EXCEPT ![r] = run]

\* A change the user has to agree to is written down and not made.
Proposes(t) ==
  /\ turns[t].at = "tools" /\ turns[t].uses # <<>>
  /\ Waits(t)
  /\ Insert([status |-> "pending", tool |-> Tool(t)])
  /\ turns' = [turns EXCEPT ![t].uses = Tail(@), ![t].proposed = TRUE]
  /\ UNCHANGED <<rowsVars, decisionVars, messages, attachment, unasked>>

\* Anything else is carried out; the handler may be awaited.
Acts(t) ==
  /\ turns[t].at = "tools" /\ turns[t].uses # <<>>
  /\ ~Waits(t)
  /\ turns' = [turns EXCEPT ![t].at = "acting"]
  /\ unasked' = (unasked \/ (Tool(t) = "write" /\ ~turns[t].autopilot))
  /\ UNCHANGED <<rowsVars, decisionVars, messages, runs, attachment>>

\* It returns or raises; one of WRITE_TOOLS leaves its row either way.
Returns(t) ==
  /\ turns[t].at = "acting"
  /\ IF Tool(t) \in WriteTools
       THEN Insert([status |-> "applied", tool |-> Tool(t)])
       ELSE UNCHANGED runs
  /\ turns' = [turns EXCEPT ![t].at = "tools", ![t].uses = Tail(@)]
  /\ UNCHANGED <<rowsVars, decisionVars, messages, attachment, unasked>>

\* After proposals the user's decision is awaited, otherwise the model goes on.
RoundEnds(t) ==
  /\ turns[t].at = "tools" /\ turns[t].uses = <<>>
  /\ IF turns[t].proposed \/ turns[t].round = MaxRounds
       THEN TurnEnds(t)
       ELSE /\ turns' = [turns EXCEPT ![t].at = "model", ![t].round = @ + 1]
            /\ UNCHANGED messages
  /\ UNCHANGED <<rowsVars, decisionVars, runs, attachment, unasked>>

-----------------------------------------------------------------------------
(* Decisions on what was proposed *)

Approve(r) ==
  /\ runs[r].status = "pending"
  /\ approving[r] < EffectsCounted
  /\ approving' = [approving EXCEPT ![r] = @ + 1]
  /\ effects' = [effects EXCEPT ![r] = IF @ = EffectsCounted THEN @ ELSE @ + 1]
  /\ crossed' = IF approving[r] > 0 \/ r \in denying THEN crossed \cup {r} ELSE crossed
  /\ UNCHANGED <<rowsVars, messages, runs, turns, denying, attachment, unasked>>

\* The row of a deleted conversation stays deleted.
Decided(r, status) ==
  IF runs[r].status = "deleted" THEN runs ELSE [runs EXCEPT ![r].status = status]

ApproveSettles(r) ==
  /\ approving[r] > 0
  /\ approving' = [approving EXCEPT ![r] = @ - 1]
  /\ \E status \in {"applied", "error"} : runs' = Decided(r, status)
  /\ UNCHANGED <<rowsVars, messages, turns, denying, attachment, effects, unasked, crossed>>

DenyReads(r) ==
  /\ runs[r].status = "pending"
  /\ denying' = denying \cup {r}
  /\ crossed' = IF approving[r] > 0 THEN crossed \cup {r} ELSE crossed
  /\ UNCHANGED <<rowsVars, messages, runs, turns, approving, attachment, effects, unasked>>

DenySettles(r) ==
  /\ r \in denying
  /\ denying' = denying \ {r}
  /\ runs' = Decided(r, "denied")
  /\ UNCHANGED <<rowsVars, messages, turns, approving, attachment, effects, unasked, crossed>>

-----------------------------------------------------------------------------
(* Attachments, and the deletion of the conversation *)

otherVars == <<turns, approving, denying, effects, unasked, crossed>>

\* The body of the upload is awaited after the conversation was looked up.
UploadStarts ==
  /\ chat /\ upload = "no" /\ attachment = "none" /\ ~file
  /\ upload' = "reading"
  /\ UNCHANGED <<chat, deleting, messages, runs, attachment, file, disturbed, otherVars>>

UploadRefused ==
  /\ upload = "reading"
  /\ upload' = "no"
  /\ UNCHANGED <<chat, deleting, messages, runs, attachment, file, disturbed, otherVars>>

UploadWrites ==
  /\ upload = "reading"
  /\ upload' = "written" /\ file' = TRUE
  /\ UNCHANGED <<chat, deleting, messages, runs, attachment, disturbed, otherVars>>

UploadRecords ==
  /\ upload = "written"
  /\ upload' = "no" /\ attachment' = "loose"
  /\ UNCHANGED <<chat, deleting, messages, runs, file, disturbed, otherVars>>

DeleteAttachment ==
  /\ attachment # "none"
  /\ attachment' = "none" /\ file' = FALSE
  /\ UNCHANGED <<chat, deleting, messages, runs, upload, disturbed, otherVars>>

Busy == upload # "no" \/ \E t \in ChatTurns : turns[t].at # "idle"

\* All rows go in one transaction, the files of those it saw afterwards.
DeleteRows ==
  /\ chat /\ deleting = "no"
  /\ deleting' = IF attachment = "none" THEN "done" ELSE "files"
  /\ chat' = FALSE /\ messages' = FALSE /\ attachment' = "none"
  /\ runs' = [r \in ToolRuns |->
                IF r \in FreeRuns THEN NoToolRun ELSE [runs[r] EXCEPT !.status = "deleted"]]
  /\ disturbed' = (disturbed \/ Busy)
  /\ UNCHANGED <<upload, file, otherVars>>

DeleteFiles ==
  /\ deleting = "files"
  /\ deleting' = "done" /\ file' = FALSE
  /\ UNCHANGED <<chat, messages, runs, upload, attachment, disturbed, otherVars>>

\* Rows and files stay, what was under way is gone.
ChatRestart ==
  /\ turns' = [t \in ChatTurns |-> NoTurn]
  /\ crossed' = crossed \cup {r \in ToolRuns : approving[r] > 0}
  /\ approving' = [r \in ToolRuns |-> 0] /\ denying' = {}
  /\ upload' = "no"
  /\ disturbed' = (disturbed \/ deleting = "files" \/ upload = "written")
  /\ deleting' = IF deleting = "no" THEN "no" ELSE "done"
  /\ UNCHANGED <<chat, messages, runs, attachment, file, effects, unasked>>

ChatNext ==
  \/ \E t \in ChatTurns : \/ TurnStarts(t) \/ ModelAnswers(t) \/ Proposes(t)
                          \/ Acts(t) \/ Returns(t) \/ RoundEnds(t)
  \/ \E r \in ToolRuns : Approve(r) \/ ApproveSettles(r) \/ DenyReads(r) \/ DenySettles(r)
  \/ UploadStarts \/ UploadRefused \/ UploadWrites \/ UploadRecords \/ DeleteAttachment
  \/ DeleteRows \/ DeleteFiles
  \/ ChatRestart

ChatSpec == ChatInit /\ [][ChatNext]_chatVars

-----------------------------------------------------------------------------
\* A run that reads "denied" was not carried out and no run is carried out
\* twice, unless two decisions met or the server stopped in one
\* (assistant_routes.py 187-210).
DecidedOnce ==
  \A r \in ToolRuns \ crossed :
    /\ effects[r] <= 1
    /\ runs[r].status = "denied" => effects[r] = 0

\* Of a deleted conversation nothing is left, unless a turn or an upload went
\* on over the deletion or the server stopped in one of the two
\* (assistant_store.py 201).
DeletedIsGone ==
  ~chat /\ deleting = "done" /\ ~disturbed =>
    ~messages /\ attachment = "none" /\ ~file /\ \A r \in ToolRuns : runs[r].status \in {"none", "deleted"}

\* Without the autopilot nothing is changed that the user has not approved
\* (assistant_agent.py 47), and what is decided stays as decided.
ChatIsAccountable == ~unasked /\ DecidedOnce /\ DeletedIsGone
=============================================================================
