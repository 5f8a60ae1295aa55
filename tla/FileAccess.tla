------------------------------ MODULE FileAccess ------------------------------
(***************************************************************************)
(* The tools that touch a file, packages/core/src/tools/{read,edit,write,  *)
(* bash}.ts, with the gate of permission.ts and tool.ts, the registries of *)
(* subagents/tools.ts and the locks and the read cache of state/session.ts.*)
(*                                                                         *)
(* One file, used by several sessions: a parent and children that share    *)
(* its directory.  Locks and caches are per session.  A tool awaits the    *)
(* file system or the user between its steps; the user's editor works on   *)
(* the file all the while.  Any two writes have different times.           *)
(***************************************************************************)
EXTENDS Naturals

CONSTANTS
    Session,
    Kind,                \* of each session: "main", "isolated" or "readonly"
    Call,                \* several can be of one session, if two of its turns overlap
    Content, Torn,       \* texts of the file; what a write that was cut off leaves
    Missing, Unlocked,
    MaxTime              \* bound: changes of the file

ASSUME FileAssumption ==
    /\ Kind \in [Session -> {"main", "isolated", "readonly"}]
    /\ Torn \notin Content /\ Missing \notin Content \cup {Torn}
    /\ Unlocked \notin Call /\ "outsider" \notin Call
    /\ MaxTime \in Nat

VARIABLES
    disk,       \* [content, time], or Missing
    clock,
    cache,      \* fileState, per session: what it last saw, or Missing
    lock,       \* per session: the call that holds the file's semaphore, or Unlocked
    sessionOf,  \* per call, and never changed
    where,      \* per call: where it waits
    job         \* per call: what it is about, see Job

fileVars == <<disk, clock, cache, lock, sessionOf, where, job>>

Outsider == "outsider"
Idle     == "idle"

\* The tool and its command; what Edit took from the cache before it asked for
\* the lock; what the call found on the disk; what it writes; and, for the
\* properties, whether somebody changed the file since it looked.
Job(t, cmd, entry) == [tool |-> t, command |-> cmd, cached |-> entry,
                       seen |-> Missing, given |-> Missing, overtaken |-> FALSE]
NoJob == Job("Read", "inspect", Missing)

FileInit ==
    /\ disk \in {Missing} \cup [content : Content, time : {0}]
    /\ clock = 0
    /\ cache = [s \in Session |-> Missing]
    /\ lock = [s \in Session |-> Unlocked]
    /\ sessionOf \in [Call -> Session]
    /\ where = [c \in Call |-> Idle]
    /\ job = [c \in Call |-> NoJob]

-----------------------------------------------------------------------------
(* Who may do what.                                                        *)

\* Commands: "inspect" only looks.  "record" is made of commands on the allowlist
\* and yet writes: isReadOnlyCommand knows the options that write of sort and find
\* alone, and does not look into double quotes.  "edit" writes and looks harmless,
\* "risky" matches RISKY, "dangerous" HARD_DENY.
Modes               == {"ask", "auto", "plan"}
Commands            == {"inspect", "record", "edit", "risky", "dangerous"}
IsHardDenied(cmd)      == cmd = "dangerous"
IsRisky(cmd)           == cmd \in {"risky", "dangerous"}
IsReadOnlyCommand(cmd) == cmd \in {"inspect", "record"}
Writes(cmd)            == cmd # "inspect"

\* The Bash of a registry: a read-only child has the wrapped one.
BashAdmits(s, cmd) == Kind[s] = "readonly" => IsReadOnlyCommand(cmd)

\* makeChildToolRegistry.
ToolsOf(s) == IF Kind[s] = "readonly" THEN {"Read", "Bash"}
                                      ELSE {"Read", "Edit", "Write", "Bash"}

\* permission.check.  The mode is read at each check and the user cycles it at
\* any time, so a call finds any.
Decision(mode, readOnly) ==
    CASE mode = "auto" \/ readOnly -> "allow"
      [] mode = "plan"             -> "deny"
      [] mode = "ask"              -> "ask"

-----------------------------------------------------------------------------
(* Pieces of steps.                                                        *)

My(c)       == sessionOf[c]
Is(c, t)    == job[c].tool = t
Proceed(c, pc) == where' = [where EXCEPT ![c] = pc]
IsFresh(entry, time, content) == entry.time = time /\ entry.content = content

\* The call goes on, or ends, well or not, and gives back a permit it holds.
GoOn(c, pc) == Proceed(c, pc) /\ UNCHANGED lock
End(c) ==
    /\ Proceed(c, Idle)
    /\ job' = [job EXCEPT ![c] = NoJob]
    /\ lock' = [s \in Session |-> IF lock[s] = c THEN Unlocked ELSE lock[s]]

\* The file changes; whoever looked before is overtaken, unless the change is
\* made by a call that holds the lock of its session.
Change(who, content) ==
    /\ clock < MaxTime
    /\ clock' = clock + 1
    /\ disk' = IF content = Missing THEN Missing ELSE [content |-> content, time |-> clock + 1]
    /\ job' = [c \in Call |-> [job[c] EXCEPT !.overtaken =
            @ \/ (where[c] # Idle /\ who # c /\ ~(who \in Call /\ job[who].tool # "Bash"
                                                         /\ My(who) = My(c)))]]

FileStays == UNCHANGED <<disk, clock, sessionOf>>

-----------------------------------------------------------------------------
(* The calls.                                                              *)

\* callTool up to the tool's first await.  Calls refused before it, as plan mode
\* does with all but read-only tools, leave no trace.
Start(c, t, cmd) ==
    /\ where[c] = Idle
    /\ t \in ToolsOf(My(c))
    /\ job' = [job EXCEPT ![c] = Job(t, cmd, IF t = "Edit" THEN cache[My(c)] ELSE Missing)]
    /\ CASE t = "Read"  -> Proceed(c, "stat")
         [] t = "Edit"  -> cache[My(c)] # Missing /\ Proceed(c, "locking")
         [] t = "Write" -> Proceed(c, "locking")
         [] t = "Bash"  -> BashAdmits(My(c), cmd) /\ ~IsHardDenied(cmd) /\ Proceed(c, "checking")
    /\ FileStays
    /\ UNCHANGED <<cache, lock>>

\* Read: the time first, then the bytes.
ReadStat(c) ==
    /\ where[c] = "stat"
    /\ IF disk = Missing THEN End(c)
       ELSE GoOn(c, "reading") /\ job' = [job EXCEPT ![c].seen = disk]
    /\ FileStays
    /\ UNCHANGED cache

ReadBytes(c) ==
    /\ where[c] = "reading"
    /\ cache' = IF disk = Missing THEN cache
                ELSE [cache EXCEPT ![My(c)] = [content |-> disk.content, time |-> job[c].seen.time]]
    /\ End(c)
    /\ FileStays

\* Mutant: nobody waits.
LockAtOnce(c) ==
    /\ where[c] = "locking"
    /\ GoOn(c, "looking")
    /\ FileStays
    /\ UNCHANGED <<cache, job>>

\* withFileLock.
TakeLock(c) ==
    /\ where[c] = "locking" /\ lock[My(c)] = Unlocked
    /\ lock' = [lock EXCEPT ![My(c)] = c]
    /\ Proceed(c, "looking")
    /\ FileStays
    /\ UNCHANGED <<cache, job>>

\* Edit reads the file, Write asks whether it is there.
Look(c) ==
    /\ where[c] = "looking"
    /\ IF Is(c, "Edit") = (disk = Missing)
       THEN End(c)
       ELSE /\ GoOn(c, IF Is(c, "Edit") THEN "comparing" ELSE "checking")
            /\ job' = [job EXCEPT ![c].seen = disk, ![c].overtaken = FALSE]
    /\ FileStays
    /\ UNCHANGED cache

\* Edit asks for the time and compares it, and the text, with the cache.  From
\* here on it no longer looks.
Compare(c) ==
    /\ where[c] = "comparing"
    /\ IF disk # Missing /\ IsFresh(job[c].cached, disk.time, job[c].seen.content)
       THEN GoOn(c, "checking") /\ job' = [job EXCEPT ![c].overtaken = FALSE]
       ELSE End(c)
    /\ FileStays
    /\ UNCHANGED cache

\* What the call will write, and the decision of the gate.  An edit differs
\* from what it found.
Check(c) ==
    /\ where[c] = "checking"
    /\ \E mode \in Modes :
        LET decision == Decision(mode, Is(c, "Bash") /\ ~IsRisky(job[c].command))
        IN \/ /\ decision # "deny"
              /\ GoOn(c, IF decision = "ask" THEN "asking" ELSE "writing")
              /\ \E text \in IF Is(c, "Bash") THEN {Missing} ELSE Content :
                    /\ Is(c, "Edit") => text # job[c].seen.content
                    /\ job' = [job EXCEPT ![c].given = text]
           \/ decision = "deny" /\ End(c)
    /\ FileStays
    /\ UNCHANGED cache

\* The user decides, in their own time.
Approve(c) ==
    /\ where[c] = "asking"
    /\ GoOn(c, "writing")
    /\ FileStays
    /\ UNCHANGED <<cache, job>>

\* writeFileString truncates the file, then fills it.
Truncate(c) ==
    /\ where[c] = "writing" /\ ~Is(c, "Bash")
    /\ Change(c, Torn)
    /\ GoOn(c, "filling")
    /\ UNCHANGED <<cache, sessionOf>>

Fill(c) ==
    /\ where[c] = "filling"
    /\ Change(c, job[c].given)
    /\ GoOn(c, "remembering")
    /\ UNCHANGED <<cache, sessionOf>>

\* The time after the write, with the text that was written.
Remember(c) ==
    /\ where[c] = "remembering"
    /\ cache' = IF disk = Missing THEN cache
                ELSE [cache EXCEPT ![My(c)] = [content |-> job[c].given, time |-> disk.time]]
    /\ End(c)
    /\ FileStays

\* A command that runs may write.
CommandWrites(c) ==
    /\ where[c] = "writing" /\ Is(c, "Bash") /\ Writes(job[c].command)
    /\ \E text \in Content \cup {Missing} : Change(c, text)
    /\ UNCHANGED <<cache, lock, sessionOf, where>>

\* A command exits with its output read to the end, or its time is up and the
\* scope kills it; oldText is missing or ambiguous; the user denies; a file
\* operation fails.
Over(c) ==
    /\ where[c] # Idle /\ where[c] # "locking"
    /\ End(c)
    /\ FileStays
    /\ UNCHANGED cache

-----------------------------------------------------------------------------
(* The others.                                                             *)

\* The turn is interrupted: withPermits gives the permit back, a command is killed.
InterruptCall(c) ==
    /\ where[c] # Idle
    /\ End(c)
    /\ FileStays
    /\ UNCHANGED cache

\* The user's editor, or a program nobody here started.
OutsiderWrites ==
    /\ \E text \in Content \cup {Missing} : Change(Outsider, text)
    /\ UNCHANGED <<cache, lock, sessionOf, where>>

\* What goes on by itself, or by the user's answer.
CallStep(c) ==
    \/ ReadStat(c) \/ ReadBytes(c) \/ TakeLock(c) \/ Look(c) \/ Compare(c) \/ Check(c)
    \/ Approve(c) \/ Truncate(c) \/ Fill(c) \/ Remember(c) \/ Over(c)

FileNext ==
    \/ OutsiderWrites
    \/ \E c \in Call :
        \/ \E t \in ToolsOf(My(c)), cmd \in Commands :
                (t # "Bash" => cmd = "inspect") /\ Start(c, t, cmd)
        \/ CallStep(c) \/ CommandWrites(c) \/ InterruptCall(c)

FileSpec == FileInit /\ [][FileNext]_fileVars

-----------------------------------------------------------------------------
(* What must hold.                                                         *)

\* A write replaces the text its call has seen: between an edit's comparison and
\* its write, or a Write's look and its write, only somebody outside the
\* session's lock can have changed the file.  The cache is read before the lock
\* is awaited, the text before the time, and the user is asked in between.
NoLostChange ==
    \A c \in Call :
        where[c] = "writing" /\ job[c].tool \in {"Edit", "Write"} /\ ~job[c].overtaken =>
        IF job[c].seen = Missing THEN disk = Missing
                                ELSE disk # Missing /\ disk.content = job[c].seen.content
=============================================================================
