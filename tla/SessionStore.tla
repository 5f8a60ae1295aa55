------------------------------ MODULE SessionStore -----------------------------
(***************************************************************************)
(* saveSession and loadSession of packages/core/src/state/store.ts, under  *)
(* the agent loop: the save at an iteration boundary that the controller   *)
(* starts and does not await, the save it awaits when a turn or /compact   *)
(* has ended, and the restart that resumes from the files.                 *)
(*                                                                         *)
(* A save makes its directory, then renames session.json and then          *)
(* messages.jsonl into place.  Each file is serialized right before it is  *)
(* written, so the two are snapshots of different moments.                 *)
(***************************************************************************)
EXTENDS AgentLoop

CONSTANTS
    Nothing,       \* no such file
    SlowDisk,      \* may the answer come before a save serializes the transcript?
    MaxFaults, MaxCrashes    \* bounds

ASSUME SessionAssumption ==
    /\ SlowDisk \in BOOLEAN
    /\ {MaxFaults, MaxCrashes} \subseteq Nat

Saver == {"progress", "final"}

VARIABLES
    metadata,       \* modelRef and compaction in session.json, or Nothing
    saved,          \* messages.jsonl
    save,           \* per saver: "off", "opening", "metadata" or "transcript"
    snapshot,       \* per saver: what it is writing
    settled,        \* length of the transcript when a turn was last saved at its end
    faults, crashes

storeVars   == <<metadata, saved, save, snapshot>>
sessionVars == <<agentVars, storeVars, settled, faults, crashes>>

SessionInit ==
    /\ AgentInit
    /\ metadata = Nothing /\ saved = <<>>
    /\ save = [s \in Saver |-> "off"]
    /\ snapshot = [s \in Saver |-> Nothing]
    /\ settled = 0
    /\ faults = 0 /\ crashes = 0

Saving(s) == save[s] # "off"

Metadata == [model |-> model, autoEnabled |-> autoEnabled]

-----------------------------------------------------------------------------
(* The steps of saveSession.                                               *)

\* The directory exists; the metadata is serialized.
OpenSave(s) ==
    /\ save[s] = "opening"
    /\ save' = [save EXCEPT ![s] = "metadata"]
    /\ snapshot' = [snapshot EXCEPT ![s] = Metadata]
    /\ UNCHANGED <<agentVars, metadata, saved, settled, faults, crashes>>

\* session.json is in place; the transcript is serialized.
SaveMetadata(s) ==
    /\ save[s] = "metadata"
    /\ metadata' = snapshot[s]
    /\ save' = [save EXCEPT ![s] = "transcript"]
    /\ snapshot' = [snapshot EXCEPT ![s] = messages]
    /\ UNCHANGED <<agentVars, saved, settled, faults, crashes>>

\* messages.jsonl is in place.
SaveTranscript(s) ==
    /\ save[s] = "transcript"
    /\ saved' = snapshot[s]
    /\ save' = [save EXCEPT ![s] = "off"]
    /\ snapshot' = [snapshot EXCEPT ![s] = Nothing]

\* persistProgress's save ends.
ProgressSaved ==
    /\ SaveTranscript("progress")
    /\ UNCHANGED <<agentVars, metadata, settled, faults, crashes>>

\* The awaited save ends, and with it the turn or /compact.
FinalSaved ==
    /\ SaveTranscript("final")
    /\ TurnEnds
    /\ settled' = IF reason = "manual" THEN settled ELSE Len(snapshot["final"])
    /\ UNCHANGED <<metadata, faults, crashes>>

\* Mutant: persistingProgress is cleared only by a save that succeeds.
SaveFailsForGood(s) ==
    /\ Saving(s)
    /\ faults < MaxFaults /\ faults' = faults + 1
    /\ save' = [save EXCEPT ![s] = IF s = "final" THEN "off" ELSE "failed"]
    /\ snapshot' = [snapshot EXCEPT ![s] = Nothing]
    /\ IF s = "final" THEN TurnEnds ELSE UNCHANGED agentVars
    /\ UNCHANGED <<metadata, saved, settled, crashes>>

\* A write fails: the file keeps its old content and the save is given up.
SaveFails(s) ==
    /\ Saving(s)
    /\ faults < MaxFaults /\ faults' = faults + 1
    /\ save' = [save EXCEPT ![s] = "off"]
    /\ snapshot' = [snapshot EXCEPT ![s] = Nothing]
    /\ IF s = "final" THEN TurnEnds ELSE UNCHANGED agentVars
    /\ UNCHANGED <<metadata, saved, settled, crashes>>

\* Mutant: the save after a turn does not await progressSave.
StartFinalAtOnce ==
    /\ pc = "ending"
    /\ ~Saving("final")
    /\ save' = [save EXCEPT !["final"] = "opening"]
    /\ UNCHANGED <<agentVars, metadata, saved, snapshot, settled, faults, crashes>>

\* A turn that succeeded awaits progressSave and saves; /compact just saves.
StartFinal ==
    /\ pc = "ending"
    /\ ~Saving("final")
    /\ ~Saving("progress") \/ reason = "manual"
    /\ save' = [save EXCEPT !["final"] = "opening"]
    /\ UNCHANGED <<agentVars, metadata, saved, snapshot, settled, faults, crashes>>

-----------------------------------------------------------------------------
(* The steps of the agent loop, with the saves they start.                 *)

\* A new session is saved before its first turn.
Prompted ==
    /\ SubmitPrompt
    /\ IF metadata # Nothing
       THEN UNCHANGED <<metadata, saved, faults>>
       ELSE \/ metadata' = Metadata /\ saved' = messages' /\ UNCHANGED faults
            \/ faults < MaxFaults /\ faults' = faults + 1 /\ UNCHANGED <<metadata, saved>>
    /\ UNCHANGED <<save, snapshot>>

\* step-start of a later iteration calls persistProgress, single-flight.
Requested ==
    /\ Request
    /\ save' = IF iteration > 0 /\ ~Saving("progress")
               THEN [save EXCEPT !["progress"] = "opening"] ELSE save
    /\ UNCHANGED <<metadata, saved, snapshot, faults>>

\* The provider's part of an iteration.
Stream == \/ StreamRetries \/ StreamFails \/ StreamOverflows
          \/ \E names \in Replies : StreamAnswers(names)

\* Mutant: progress is saved when the tools start, not before the request.
StreamedSaving ==
    /\ SlowDisk \/ save["progress"] \in {"off", "transcript"}
    /\ Stream
    /\ save' = IF pc' = "tools" /\ ~Saving("progress")
               THEN [save EXCEPT !["progress"] = "opening"] ELSE save
    /\ UNCHANGED <<metadata, saved, snapshot, faults>>

\* Unless the disk is slow the transcript is serialized before the provider
\* answers; its rename may still be late.
Streamed ==
    /\ SlowDisk \/ save["progress"] \in {"off", "transcript"}
    /\ Stream
    /\ UNCHANGED <<storeVars, faults>>

\* Steps of the loop that start no save.
Unsaved ==
    /\ \/ Compaction \/ Exceed
       \/ RefuseSwitch \/ \E to \in Model : Switch(to)
       \/ ToolEnds \/ ToolsEnd
    /\ UNCHANGED <<storeVars, faults>>

UserStep ==
    /\ Prompted \/ ((Compact \/ Cancel) /\ UNCHANGED <<storeVars, faults>>)
    /\ UNCHANGED <<settled, crashes>>

LoopStep ==
    /\ Requested \/ Streamed \/ Unsaved
    /\ UNCHANGED <<settled, crashes>>

\* The process ends and the session is resumed from its files.
Crash ==
    /\ crashes < MaxCrashes /\ crashes' = crashes + 1
    /\ metadata # Nothing
    /\ messages' = saved /\ model' = metadata.model /\ autoEnabled' = metadata.autoEnabled
    /\ EndTurn
    /\ summarized' = (1 .. TailStart(saved) - 1) \ Markers(saved)
    /\ save' = [s \in Saver |-> "off"]
    /\ snapshot' = [s \in Saver |-> Nothing]
    /\ UNCHANGED <<bounds, metadata, saved, settled, faults>>

SessionNext ==
    \/ UserStep \/ LoopStep
    \/ StartFinal \/ ProgressSaved \/ FinalSaved
    \/ \E s \in Saver : OpenSave(s) \/ SaveMetadata(s) \/ SaveFails(s)
    \/ Crash

SessionSpec == SessionInit /\ [][SessionNext]_sessionVars

\* The fairness of the loop, and every write ends.
SessionFairSpec ==
    /\ SessionSpec
    /\ WF_sessionVars(LoopStep)
    /\ \A s \in Saver : WF_sessionVars(OpenSave(s) \/ SaveMetadata(s))
    /\ WF_sessionVars(StartFinal) /\ WF_sessionVars(ProgressSaved) /\ WF_sessionVars(FinalSaved)

-----------------------------------------------------------------------------
(* Properties.                                                             *)

\* Once a turn has been saved at its end no later or late save takes any of
\* it back, and a resumed session has it all (controller.ts:748-750: "a late
\* progress save can never land last and leave a stale snapshot").
SettledSurvives ==
    /\ settled <= Len(saved)
    /\ \A i \in 1 .. settled : saved[i] = messages[i]

\* The transcript a crash would leave behind can be sent: its calls are
\* answered (controller.ts:752-755, "completed, validly-paired iterations").
SavedIsPaired == ValidlyPaired(saved, Context(saved))
=============================================================================
