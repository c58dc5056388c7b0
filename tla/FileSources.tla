----------------------------- MODULE FileSources -----------------------------
(***************************************************************************)
(* Sources that read files (conduit_etl/sources/file.py) while their       *)
(* writers change the files. The sources are in one level, so each runs in *)
(* a thread of the executor. Each is followed by a step that appends what  *)
(* it finds in the table of the source, which every run replaces.          *)
(*                                                                         *)
(* file_batch hashes the files, one after another, leaves the hashes in an *)
(* attribute of the function, which all threads share, and returns a       *)
(* relation over the files that changed. The relation is evaluated later,  *)
(* when the executor stages it. In between the step function may store the *)
(* attribute: that is the last time it has control. Where it stores it is  *)
(* external; the run records have no hashes, whatever get_file_hashes      *)
(* looks for there.                                                        *)
(*                                                                         *)
(* The content of a file, and its hash, is the number of the edit that     *)
(* first made it.                                                          *)
(***************************************************************************)
EXTENDS Integers, FiniteSets

CONSTANTS Sources, Files,
          Pattern,        \* the files that match the pattern of each source
          Keepers,        \* the sources whose function stores new_hashes
          MaxEdits, MaxTicks, MaxFaults   \* bounds

ASSUME FileAssumption ==
    /\ Pattern \in [Sources -> SUBSET Files]
    /\ Keepers \subseteq Sources
    /\ {MaxEdits, MaxTicks, MaxFaults} \subseteq Nat

VARIABLES content,     \* Files -> its content; 0 when there is no such file
          attribute,   \* file_batch.new_hashes
          stored,      \* Sources -> the hashes its function stored last
          pc,          \* Sources -> where its run is in this tick
          left,        \* Sources -> files to be hashed, or read
          hashes,      \* Sources -> new_hashes, local
          fresh,       \* Sources -> new_paths
          batch,       \* Sources -> contents in its relation,
          table,       \* and in its table, which its last success replaced
          behind,      \* Sources -> the step after it has not read the table
          copied,      \* Sources -> contents last appended by the step after it
          spoiled,     \* Sources -> files stored by a run that failed later
          torn,        \* Sources -> files last read as another content than hashed
          returned,    \* files that have gone back to an earlier content
          edits, ticks, faults

vars == <<content, attribute, stored, pc, left, hashes, fresh, batch, table,
          behind, copied, spoiled, torn, returned, edits, ticks, faults>>

NoHashes == [f \in Files |-> 0]

Init ==
    /\ content = NoHashes
    /\ attribute = NoHashes
    /\ pc = [s \in Sources |-> "idle"]
    /\ left = [s \in Sources |-> {}]
    /\ fresh = left /\ spoiled = left /\ torn = left
    /\ returned = {}
    /\ stored = [s \in Sources |-> NoHashes]
    /\ hashes = stored /\ batch = stored
    /\ table = stored /\ copied = stored
    /\ behind = [s \in Sources |-> FALSE]
    /\ edits = 0 /\ ticks = 0 /\ faults = 0

At(s, here, next) == pc[s] = here /\ pc' = [pc EXCEPT ![s] = next]
Fault == faults < MaxFaults /\ faults' = faults + 1

\* Whoever writes the files: a content that is new,
Edit(f) ==
    /\ edits < MaxEdits
    /\ edits' = edits + 1
    /\ content' = [content EXCEPT ![f] = edits']
    /\ UNCHANGED <<attribute, stored, pc, left, hashes, fresh, batch, table,
                   behind, copied, spoiled, torn, returned, ticks, faults>>

\* or an earlier one: an edit taken back, or a file that is written in parts and
\* ends as it was.
Restore(f, c) ==
    /\ edits < MaxEdits
    /\ edits' = edits + 1
    /\ content[f] > 0 /\ content[f] # c
    /\ content' = [content EXCEPT ![f] = c]
    /\ returned' = returned \cup {f}
    /\ UNCHANGED <<attribute, stored, pc, left, hashes, fresh, batch, table,
                   behind, copied, spoiled, torn, ticks, faults>>

Between == \A s \in Sources : pc[s] = "idle"

StartTick ==
    /\ Between
    /\ ticks < MaxTicks
    /\ ticks' = ticks + 1
    /\ pc' = [s \in Sources |-> "glob"]
    /\ UNCHANGED <<content, attribute, stored, left, hashes, fresh, batch,
                   table, behind, copied, spoiled, torn, returned, edits,
                   faults>>

-----------------------------------------------------------------------------
(* file_batch                                                              *)

Glob(s) ==
    /\ At(s, "glob", "hash")
    /\ left' = [left EXCEPT ![s] = {f \in Pattern[s] : content[f] > 0}]
    /\ hashes' = [hashes EXCEPT ![s] = NoHashes]
    /\ fresh' = [fresh EXCEPT ![s] = {}]
    /\ batch' = [batch EXCEPT ![s] = NoHashes]
    /\ UNCHANGED <<content, attribute, stored, table, behind, copied, spoiled,
                   torn, returned, edits, ticks, faults>>

\* Mutant of Changed: a file of the previous run is not read again.
ChangedIfNew(s, f) == stored[s][f] = 0

\* prev.get(p) != h
Changed(s, f) == stored[s][f] # content[f]

\* One round of the loop: _file_hash, new_hashes and new_paths.
HashFile(s, f) ==
    /\ At(s, "hash", "hash")
    /\ f \in left[s]
    /\ left' = [left EXCEPT ![s] = @ \ {f}]
    /\ hashes' = [hashes EXCEPT ![s][f] = content[f]]
    /\ fresh' = [fresh EXCEPT ![s] = IF Changed(s, f) THEN @ \cup {f} ELSE @]
    /\ UNCHANGED <<content, attribute, stored, batch, table, behind, copied,
                   spoiled, torn, returned, edits, ticks, faults>>

SetAttribute(s) ==
    /\ At(s, "hash", "keep")
    /\ left[s] = {}
    /\ attribute' = hashes[s]
    /\ UNCHANGED <<content, stored, left, hashes, fresh, batch, table, behind,
                   copied, spoiled, torn, returned, edits, ticks, faults>>

\* The step function stores file_batch.new_hashes, and returns the relation.
Keep(s) ==
    /\ At(s, "keep", "read")
    /\ stored' = IF s \in Keepers THEN [stored EXCEPT ![s] = attribute]
                 ELSE stored
    /\ left' = [left EXCEPT ![s] = fresh[s]]
    /\ UNCHANGED <<content, attribute, hashes, fresh, batch, table, behind,
                   copied, spoiled, torn, returned, edits, ticks, faults>>

\* The executor evaluates the relation: each file is read as it is now.
ReadFile(s, f) ==
    /\ At(s, "read", "read")
    /\ f \in left[s]
    /\ left' = [left EXCEPT ![s] = @ \ {f}]
    /\ batch' = [batch EXCEPT ![s][f] = content[f]]
    /\ torn' = [torn EXCEPT ![s] = IF content[f] = hashes[s][f] THEN @ \ {f}
                                   ELSE @ \cup {f}]
    /\ UNCHANGED <<content, attribute, stored, hashes, fresh, table, behind,
                   copied, spoiled, returned, edits, ticks, faults>>

-----------------------------------------------------------------------------
(* The rest of the tick                                                    *)

\* The table of the source is replaced by the relation.
Commit(s) ==
    /\ At(s, "read", "done")
    /\ left[s] = {}
    /\ table' = [table EXCEPT ![s] = batch[s]]
    /\ behind' = [behind EXCEPT ![s] = TRUE]
    /\ UNCHANGED <<content, attribute, stored, left, hashes, fresh, batch,
                   copied, spoiled, torn, returned, edits, ticks, faults>>

Spoil(s, F) == spoiled' = [spoiled EXCEPT ![s] = @ \cup F]
InTable(s) == {f \in Files : table[s][f] > 0}

\* A file that is gone, a value that cannot be parsed, a full disk.
RunFails(s) ==
    /\ Fault
    /\ \E here \in {"glob", "hash", "keep", "read"} :
          /\ At(s, here, "failed")
          /\ Spoil(s, IF here = "read" THEN fresh[s] ELSE {})
    /\ UNCHANGED <<content, attribute, stored, left, hashes, fresh, batch,
                   table, behind, copied, torn, returned, edits, ticks>>

NextLevel(s) ==
    /\ \A t \in Sources : pc[t] \in {"done", "failed", "idle"}
    /\ \E here \in {"done", "failed"} : At(s, here, "idle")

\* The next level: the step after s, if it is ready, appends what is in the
\* table.
StepAfter(s) ==
    /\ NextLevel(s)
    /\ behind[s]
    /\ copied' = [copied EXCEPT ![s] =
                     [f \in Files |-> IF table[s][f] > 0 THEN table[s][f]
                                     ELSE copied[s][f]]]
    /\ behind' = [behind EXCEPT ![s] = FALSE]
    /\ spoiled' = [spoiled EXCEPT ![s] =
                     {f \in @ : table[s][f] # stored[s][f]}]
    /\ UNCHANGED <<content, attribute, stored, left, hashes, fresh, batch,
                   table, torn, returned, edits, ticks, faults>>

StepAfterFails(s) ==
    /\ NextLevel(s)
    /\ behind[s]
    /\ Fault
    /\ Spoil(s, InTable(s))
    /\ UNCHANGED <<content, attribute, stored, left, hashes, fresh, batch,
                   table, behind, copied, torn, returned, edits, ticks>>

NotReady(s) ==
    /\ NextLevel(s)
    /\ ~behind[s]
    /\ UNCHANGED <<content, attribute, stored, left, hashes, fresh, batch,
                   table, behind, copied, spoiled, torn, returned, edits,
                   ticks, faults>>

\* The process ends. What the sources read and nobody has copied is lost, if
\* its hashes are stored.
Crash ==
    /\ ~Between
    /\ Fault
    /\ pc' = [s \in Sources |-> "idle"]
    /\ attribute' = NoHashes
    /\ spoiled' = [s \in Sources |->
                      CASE pc[s] = "read" -> spoiled[s] \cup fresh[s]
                        [] pc[s] = "done" -> spoiled[s] \cup InTable(s)
                        [] OTHER -> spoiled[s]]
    /\ UNCHANGED <<content, stored, left, hashes, fresh, batch, table, behind,
                   copied, torn, returned, edits, ticks>>

Next ==
    \/ StartTick \/ Crash
    \/ \E f \in Files : Edit(f) \/ \E c \in 1..edits : Restore(f, c)
    \/ \E s \in Sources :
          \/ Glob(s) \/ SetAttribute(s) \/ Keep(s) \/ Commit(s) \/ RunFails(s)
          \/ StepAfter(s) \/ StepAfterFails(s) \/ NotReady(s)
          \/ \E f \in Files : HashFile(s, f) \/ ReadFile(s, f)

Spec == Init /\ [][Next]_vars

-----------------------------------------------------------------------------
(* Properties                                                              *)

\* No two sources match one file.
Disjoint ==
    \A s, t \in Sources : s # t => Pattern[s] \cap Pattern[t] = {}

\* The files of F that s will not read again as they are, since their hashes are
\* stored, have been handed on as they are.
HandedOn(s, F) ==
    \A f \in F :
        content[f] > 0 /\ stored[s][f] = content[f] => copied[s][f] = content[f]

\* A file that was read as another content than had been hashed, and has gone back
\* to an earlier one: if that is the hashed one, nobody reads it.
WentBack(s) == torn[s] \cap returned

\* No change is lost, whichever edits fall between hashing and reading and
\* whichever thread has set the shared attribute last (file.py:55-63), if no two
\* sources match one file and no run failed after it had stored the hash: but for
\* a file that was changed in between and went back.
NoChangeLost ==
    Between /\ Disjoint =>
        \A s \in Sources : HandedOn(s, Pattern[s] \ (spoiled[s] \cup WentBack(s)))

-----------------------------------------------------------------------------
(* What the docs and comments say and the code does not do: each of these  *)
(* is violated (see the README).                                           *)

\* file.py:3: each call returns only files that are new or changed since the
\* last run. The run records, where file.py:4 has the hashes, never hold them.
OnlyChangedFiles ==
    [][\A s \in Sources, f \in Files :
          ReadFile(s, f) /\ spoiled[s] = {} => copied[s][f] # content[f]]_vars

\* file.py:48: new_hashes is the next watermark: with it, no change is lost ...
\* ... though a file is changed while it is read, and changed back,
ReturnedContentIsRead ==
    Between /\ Disjoint =>
        \A s \in Sources : HandedOn(s, Pattern[s] \ spoiled[s])

\* ... though two sources match a file,
SharedFilesAreRead ==
    Between =>
        \A s \in Sources : HandedOn(s, Pattern[s] \ (spoiled[s] \cup WentBack(s)))

\* ... and though a run fails after its function has returned, or the step after
\* it fails once: the table that it did not read is replaced in the next tick.
FailedRunsAreRepeated ==
    Between /\ Disjoint =>
        \A s \in Sources : HandedOn(s, Pattern[s] \ WentBack(s))
=============================================================================
