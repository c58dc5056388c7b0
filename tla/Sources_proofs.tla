--------------------------- MODULE Sources_proofs ---------------------------
(***************************************************************************)
(* Proofs about what a source is given: FileSources, for any files,        *)
(* sources and patterns, and Schedule, the only gate of a source, for any  *)
(* schedules and units of time. What is stored of a file is what was read  *)
(* of it last, or the file will be read again, edits between hashing and   *)
(* reading included; and between the tick that finds a step due and the end*)
(* of its run no other run of it ends.                                     *)
(***************************************************************************)
EXTENDS FileSources, Schedule, SequenceTheorems, TLAPS

Hashes == [Files -> Nat]

FileTypeOK ==
    /\ content \in Hashes /\ attribute \in Hashes
    /\ pc \in [Sources -> {"idle", "glob", "hash", "keep", "read", "done",
                           "failed"}]
    /\ {stored, hashes, batch, table, copied} \subseteq [Sources -> Hashes]
    /\ {left, fresh, spoiled, torn} \subseteq [Sources -> SUBSET Files]
    /\ returned \subseteq Files
    /\ behind \in [Sources -> BOOLEAN]
    /\ edits \in Nat

\* Contents have the numbers of edits, and a run knows of no later content of a
\* file that has not gone back.
NothingFromTheFuture ==
    \A f \in Files :
        /\ content[f] <= edits
        /\ f \notin returned => \A s \in Sources : hashes[s][f] <= content[f]

\* What a run has hashed and will not read again is stored already, and what it
\* reads is what it has found to be changed.
HashedOrFresh(s) ==
    /\ pc[s] = "hash" => left[s] \subseteq Pattern[s]
    /\ pc[s] \in {"hash", "keep"} =>
          \A f \in Files :
             /\ hashes[s][f] > 0 => f \in Pattern[s]
             /\ f \in fresh[s] \/ hashes[s][f] \in {0, stored[s][f]}
             /\ batch[s][f] = 0
    /\ pc[s] = "read" =>
          /\ left[s] \subseteq fresh[s]
          /\ \A f \in Files : batch[s][f] > 0 => f \in fresh[s]
    /\ pc[s] \in {"hash", "keep", "read"} => fresh[s] \subseteq Pattern[s]

\* A table that is not of this run has nothing that the step after has not read,
\* except spoiled files.
TableIsRead(s) ==
    /\ pc[s] = "done" => behind[s]
    /\ behind[s] /\ pc[s] # "done" => InTable(s) \subseteq spoiled[s]

\* Of the files of a source, the attribute, and then what it stores, has the
\* hashes of its run or none.
AttributeIsOwn(s) ==
    /\ s \notin Keepers => \A f \in Files : stored[s][f] = 0
    /\ \A f \in Pattern[s] :
          /\ pc[s] = "keep" => attribute[f] \in {0, hashes[s][f]}
          /\ pc[s] = "read" => stored[s][f] \in {0, hashes[s][f]}

\* A file of which nothing is stored, or that was read as another content than
\* is stored: it will be read again, unless it has gone back.
ReadAgain(s, f) ==
    \/ stored[s][f] = 0
    \/ f \in torn[s] /\ (f \in returned \/ stored[s][f] < content[f])

\* A hash that is stored has been copied, or its file is on the way; and nothing
\* else is on the way.
OnTheWay(s) ==
    \A f \in Pattern[s] \ spoiled[s] : ~ReadAgain(s, f) =>
        /\ \/ copied[s][f] = stored[s][f]
           \/ pc[s] = "read" /\ (f \in left[s] \/ batch[s][f] = stored[s][f])
           \/ pc[s] = "done" /\ table[s][f] = stored[s][f]
        /\ pc[s] = "read" => batch[s][f] \in {0, stored[s][f]}
        /\ pc[s] = "done" => table[s][f] \in {0, stored[s][f]}

SourceInv(s) ==
    /\ HashedOrFresh(s) /\ TableIsRead(s)
    /\ Disjoint => AttributeIsOwn(s) /\ OnTheWay(s)

FileInv ==
    /\ FileTypeOK /\ NothingFromTheFuture
    /\ \A s \in Sources : SourceInv(s)

LEMMA FileStart == Init => FileInv
  <1> SUFFICES ASSUME Init
               PROVE  FileInv
    OBVIOUS
  <1>1. NoHashes \in Hashes /\ \A f \in Files : NoHashes[f] = 0
    BY DEF NoHashes, Hashes
  <1>2. FileTypeOK
    BY <1>1 DEF Init, FileTypeOK
  <1>3. NothingFromTheFuture
    BY <1>1 DEF Init, NothingFromTheFuture
  <1>4. Pattern \in [Sources -> SUBSET Files]
    BY FileAssumption
  <1>5. \A s \in Sources : HashedOrFresh(s) /\ TableIsRead(s)
    BY <1>1, <1>4 DEF Init, HashedOrFresh, TableIsRead
  <1>6. \A s \in Sources : AttributeIsOwn(s) /\ OnTheWay(s)
    BY <1>1, <1>4 DEF Init, AttributeIsOwn, OnTheWay, ReadAgain
  <1> QED
    BY <1>2, <1>3, <1>5, <1>6 DEF FileInv, SourceInv

\* What a file holds changes nothing for a source that is sure to read it again.
LEMMA StillReadAgain ==
    ASSUME FileInv, UNCHANGED <<stored, torn>>, returned \subseteq returned',
           \A f \in Files : \/ content'[f] = content[f] \/ f \in returned'
                            \/ content'[f] = edits + 1
    PROVE  \A s \in Sources, f \in Files : ReadAgain(s, f) => ReadAgain(s, f)'
  <1> SUFFICES ASSUME NEW s \in Sources, NEW f \in Files, ReadAgain(s, f)
               PROVE  ReadAgain(s, f)'
    OBVIOUS
  <1>1. /\ stored[s][f] \in Nat /\ content[f] \in Nat /\ edits \in Nat
        /\ content[f] <= edits
    BY DEF FileInv, FileTypeOK, Hashes, NothingFromTheFuture
  <1> QED
    BY <1>1 DEF ReadAgain

LEMMA EditInv ==
    ASSUME FileInv, NEW f \in Files,
           Edit(f) \/ \E c \in 1..edits : Restore(f, c)
    PROVE  FileInv'
  <1>1. PICK c \in 1..(edits + 1) :
            /\ content' = [content EXCEPT ![f] = c]
            /\ returned \subseteq returned' /\ returned' \subseteq Files
            /\ c = edits + 1 \/ f \in returned'
    <2>1. edits + 1 \in 1..(edits + 1) /\ \A c \in 1..edits : c \in 1..(edits + 1)
      BY DEF FileInv, FileTypeOK
    <2> QED
      BY <2>1 DEF Edit, Restore, FileInv, FileTypeOK
  <1>2. /\ edits' = edits + 1
        /\ UNCHANGED <<attribute, stored, pc, left, hashes, fresh, batch, table,
                       behind, copied, spoiled, torn>>
    BY DEF Edit, Restore
  <1>3. FileTypeOK'
    BY <1>1, <1>2 DEF FileInv, FileTypeOK, Hashes
  <1>4. NothingFromTheFuture'
    <2> SUFFICES ASSUME NEW g \in Files
                 PROVE  /\ content'[g] <= edits + 1
                        /\ g \notin returned' =>
                              \A s \in Sources : hashes[s][g] <= content'[g]
      BY <1>2 DEF NothingFromTheFuture
    <2>1. /\ content[g] \in Nat /\ edits \in Nat /\ content[g] <= edits
          /\ \A s \in Sources : hashes[s][g] \in Nat
          /\ g \notin returned => \A s \in Sources : hashes[s][g] <= content[g]
      BY DEF FileInv, FileTypeOK, Hashes, NothingFromTheFuture
    <2>2. content'[g] = IF g = f THEN c ELSE content[g]
      BY <1>1 DEF FileInv, FileTypeOK, Hashes
    <2>3. CASE g = f
      BY <1>1, <2>1, <2>2, <2>3
    <2>4. CASE g # f
      BY <1>1, <2>1, <2>2, <2>4
    <2> QED
      BY <2>3, <2>4
  <1>5. \A g \in Files : \/ content'[g] = content[g] \/ g \in returned'
                         \/ content'[g] = edits + 1
    BY <1>1 DEF FileInv, FileTypeOK, Hashes
  <1>6. \A s \in Sources, g \in Files : ReadAgain(s, g) => ReadAgain(s, g)'
    BY <1>1, <1>2, <1>5, StillReadAgain
  <1>7. ASSUME NEW s \in Sources
        PROVE  SourceInv(s)'
    <2>1. HashedOrFresh(s)' /\ TableIsRead(s)' /\ (Disjoint => AttributeIsOwn(s)')
      BY <1>2 DEF FileInv, SourceInv, HashedOrFresh, TableIsRead, InTable,
                  AttributeIsOwn
    <2>2. Pattern[s] \subseteq Files
      BY FileAssumption
    <2>3. Disjoint => OnTheWay(s)'
      BY <1>2, <1>6, <2>2 DEF FileInv, SourceInv, OnTheWay
    <2> QED
      BY <2>1, <2>3 DEF SourceInv
  <1> QED
    BY <1>3, <1>4, <1>7 DEF FileInv

LEMMA StartTickInv ==
    ASSUME FileInv, StartTick
    PROVE  FileInv'
  <1>1. /\ pc' = [s \in Sources |-> "glob"]
        /\ UNCHANGED <<content, attribute, stored, left, hashes, fresh, batch,
                       table, behind, copied, spoiled, torn, returned, edits>>
        /\ \A s \in Sources : pc[s] = "idle"
    BY DEF StartTick, Between
  <1>2. FileTypeOK' /\ NothingFromTheFuture'
    BY <1>1 DEF FileInv, FileTypeOK, NothingFromTheFuture
  <1>3. ASSUME NEW s \in Sources
        PROVE  SourceInv(s)'
    <2>1. pc'[s] = "glob" /\ pc[s] = "idle"
      BY <1>1
    <2>2. HashedOrFresh(s)' /\ TableIsRead(s)' /\ (Disjoint => AttributeIsOwn(s)')
      BY <1>1, <2>1 DEF FileInv, SourceInv, HashedOrFresh, TableIsRead, InTable,
                        AttributeIsOwn
    <2>3. Disjoint => OnTheWay(s)'
      BY <1>1, <2>1 DEF FileInv, SourceInv, OnTheWay, ReadAgain
    <2> QED
      BY <2>2, <2>3 DEF SourceInv
  <1> QED
    BY <1>2, <1>3 DEF FileInv

\* A step of one source leaves the invariant of the others alone.
Untouched(t) ==
    /\ pc'[t] = pc[t] /\ left'[t] = left[t] /\ hashes'[t] = hashes[t]
    /\ fresh'[t] = fresh[t] /\ stored'[t] = stored[t] /\ batch'[t] = batch[t]
    /\ table'[t] = table[t] /\ behind'[t] = behind[t]
    /\ copied'[t] = copied[t] /\ spoiled'[t] = spoiled[t] /\ torn'[t] = torn[t]

LEMMA OthersKeep ==
    ASSUME FileInv, UNCHANGED <<attribute, content, returned>>,
           NEW s \in Sources, SourceInv(s)',
           \A t \in Sources \ {s} : Untouched(t)
    PROVE  \A t \in Sources : SourceInv(t)'
  <1>1. ASSUME NEW t \in Sources \ {s}
        PROVE  SourceInv(t)'
    <2>1. HashedOrFresh(t)' /\ TableIsRead(t)' /\ (Disjoint => AttributeIsOwn(t)')
      BY DEF FileInv, Untouched, SourceInv, HashedOrFresh, TableIsRead, InTable,
             AttributeIsOwn
    <2>2. Disjoint => OnTheWay(t)'
      BY DEF FileInv, Untouched, SourceInv, OnTheWay, ReadAgain
    <2> QED
      BY <2>1, <2>2 DEF SourceInv
  <1> QED
    BY <1>1

LEMMA GlobInv ==
    ASSUME FileInv, NEW s \in Sources, Glob(s)
    PROVE  FileInv'
  <1>1. /\ pc[s] = "glob" /\ pc' = [pc EXCEPT ![s] = "hash"]
        /\ left' = [left EXCEPT ![s] = {f \in Pattern[s] : content[f] > 0}]
        /\ hashes' = [hashes EXCEPT ![s] = NoHashes]
        /\ fresh' = [fresh EXCEPT ![s] = {}]
        /\ batch' = [batch EXCEPT ![s] = NoHashes]
        /\ UNCHANGED <<content, attribute, stored, table, behind, copied, spoiled,
                       torn, returned, edits>>
    BY DEF Glob, At
  <1>2. NoHashes \in Hashes /\ \A f \in Files : NoHashes[f] = 0
    BY DEF NoHashes, Hashes
  <1>3. Pattern[s] \in SUBSET Files
    BY FileAssumption
  <1>4. FileTypeOK'
    BY <1>1, <1>2, <1>3 DEF FileInv, FileTypeOK
  <1>5. NothingFromTheFuture'
    <2>1. \A f \in Files : 0 <= content[f]
      BY DEF FileInv, FileTypeOK, Hashes
    <2>2. \A t \in Sources, f \in Files : hashes'[t][f] \in {0, hashes[t][f]}
      BY <1>1, <1>2 DEF FileInv, FileTypeOK
    <2> QED
      BY <1>1, <2>1, <2>2 DEF FileInv, NothingFromTheFuture
  <1>6. SourceInv(s)'
    <2>1. /\ pc'[s] = "hash" /\ hashes'[s] = NoHashes /\ batch'[s] = NoHashes
          /\ left'[s] = {f \in Pattern[s] : content[f] > 0} /\ fresh'[s] = {}
      BY <1>1 DEF FileInv, FileTypeOK
    <2>2. HashedOrFresh(s)'
      BY <1>2, <2>1 DEF HashedOrFresh
    <2>3. TableIsRead(s)' /\ (Disjoint => AttributeIsOwn(s)')
      BY <1>1, <2>1 DEF FileInv, SourceInv, TableIsRead, InTable, AttributeIsOwn
    <2>4. Disjoint => OnTheWay(s)'
      BY <1>1, <2>1 DEF FileInv, SourceInv, OnTheWay, ReadAgain
    <2> QED
      BY <2>2, <2>3, <2>4 DEF SourceInv
  <1>7. \A t \in Sources \ {s} : Untouched(t)
    BY <1>1 DEF Untouched, FileInv, FileTypeOK
  <1> QED
    BY <1>1, <1>4, <1>5, <1>6, <1>7, OthersKeep DEF FileInv

LEMMA HashFileInv ==
    ASSUME FileInv, NEW s \in Sources, NEW f \in Files, HashFile(s, f)
    PROVE  FileInv'
  <1>1. /\ pc[s] = "hash" /\ f \in left[s]
        /\ left' = [left EXCEPT ![s] = left[s] \ {f}]
        /\ hashes' = [hashes EXCEPT ![s][f] = content[f]]
        /\ fresh' = [fresh EXCEPT ![s] =
                        IF Changed(s, f) THEN fresh[s] \cup {f} ELSE fresh[s]]
        /\ pc' = pc
        /\ UNCHANGED <<content, attribute, stored, batch, table, behind, copied,
                       spoiled, torn, returned, edits>>
    BY DEF HashFile, At, FileInv, FileTypeOK
  <1>2. FileTypeOK'
    BY <1>1 DEF FileInv, FileTypeOK, Hashes
  <1>3. \A g \in Files : hashes'[s][g] = IF g = f THEN content[f] ELSE hashes[s][g]
    BY <1>1 DEF FileInv, FileTypeOK, Hashes
  <1>4. \A t \in Sources \ {s} : Untouched(t)
    BY <1>1 DEF Untouched, FileInv, FileTypeOK
  <1>5. NothingFromTheFuture'
    <2>1. content[f] <= content[f]
      BY DEF FileInv, FileTypeOK, Hashes
    <2> QED
      BY <1>1, <1>3, <1>4, <2>1 DEF FileInv, NothingFromTheFuture, Untouched
  <1>6. SourceInv(s)'
    <2>1. f \in Pattern[s]
      BY <1>1 DEF FileInv, SourceInv, HashedOrFresh
    <2>2. HashedOrFresh(s)'
      <3>1. /\ left'[s] \subseteq left[s] /\ fresh[s] \subseteq fresh'[s]
            /\ fresh'[s] \subseteq fresh[s] \cup {f}
            /\ f \in fresh'[s] \/ stored[s][f] = content[f]
        BY <1>1 DEF FileInv, FileTypeOK, Changed
      <3> QED
        BY <1>1, <1>3, <2>1, <3>1 DEF FileInv, SourceInv, HashedOrFresh
    <2>3. TableIsRead(s)' /\ (Disjoint => AttributeIsOwn(s)')
      BY <1>1 DEF FileInv, SourceInv, TableIsRead, InTable, AttributeIsOwn
    <2>4. Disjoint => OnTheWay(s)'
      BY <1>1 DEF FileInv, SourceInv, OnTheWay, ReadAgain
    <2> QED
      BY <2>2, <2>3, <2>4 DEF SourceInv
  <1> QED
    BY <1>1, <1>2, <1>4, <1>5, <1>6, OthersKeep DEF FileInv

\* The attribute that a thread sets has no hash of another source's file.
LEMMA SetAttributeInv ==
    ASSUME FileInv, NEW s \in Sources, SetAttribute(s)
    PROVE  FileInv'
  <1>1. /\ pc[s] = "hash" /\ pc' = [pc EXCEPT ![s] = "keep"]
        /\ attribute' = hashes[s]
        /\ UNCHANGED <<content, stored, left, hashes, fresh, batch, table, behind,
                       copied, spoiled, torn, returned, edits>>
    BY DEF SetAttribute, At
  <1>2. FileTypeOK' /\ NothingFromTheFuture'
    BY <1>1 DEF FileInv, FileTypeOK, NothingFromTheFuture
  <1>3. ASSUME NEW t \in Sources
        PROVE  HashedOrFresh(t)' /\ TableIsRead(t)' /\ (Disjoint => OnTheWay(t)')
    <2>1. pc'[t] = pc[t] \/ (pc[t] = "hash" /\ pc'[t] = "keep")
      <3>1. pc'[t] = IF t = s THEN "keep" ELSE pc[t]
        BY <1>1 DEF FileInv, FileTypeOK
      <3> QED
        BY <1>1, <3>1
    <2>2. HashedOrFresh(t)' /\ TableIsRead(t)'
      BY <1>1, <2>1 DEF FileInv, SourceInv, HashedOrFresh, TableIsRead, InTable
    <2>3. Disjoint => OnTheWay(t)'
      BY <1>1, <2>1 DEF FileInv, SourceInv, OnTheWay, ReadAgain
    <2> QED
      BY <2>2, <2>3
  <1>4. ASSUME Disjoint, NEW t \in Sources
        PROVE  AttributeIsOwn(t)'
    <2>1. CASE t = s
      <3>1. pc'[s] = "keep"
        BY <1>1 DEF FileInv, FileTypeOK
      <3> QED
        BY <1>1, <1>4, <2>1, <3>1 DEF FileInv, SourceInv, AttributeIsOwn
    <2>2. CASE t # s
      <3>1. ASSUME NEW f \in Pattern[t]
            PROVE  hashes[s][f] = 0
        <4>1. f \notin Pattern[s] /\ f \in Files
          BY <1>4, <2>2, FileAssumption DEF Disjoint
        <4>2. hashes[s][f] \in Nat
          BY <4>1 DEF FileInv, FileTypeOK, Hashes
        <4> QED
          BY <1>1, <4>1, <4>2 DEF FileInv, SourceInv, HashedOrFresh
      <3>2. pc'[t] = pc[t]
        BY <1>1, <2>2 DEF FileInv, FileTypeOK
      <3> QED
        BY <1>1, <1>4, <3>1, <3>2 DEF FileInv, SourceInv, AttributeIsOwn
    <2> QED
      BY <2>1, <2>2
  <1> QED
    BY <1>2, <1>3, <1>4 DEF FileInv, SourceInv

LEMMA KeepInv ==
    ASSUME FileInv, NEW s \in Sources, Keep(s)
    PROVE  FileInv'
  <1>1. /\ pc[s] = "keep" /\ pc' = [pc EXCEPT ![s] = "read"]
        /\ stored' = IF s \in Keepers THEN [stored EXCEPT ![s] = attribute]
                     ELSE stored
        /\ left' = [left EXCEPT ![s] = fresh[s]]
        /\ UNCHANGED <<content, attribute, hashes, fresh, batch, table, behind,
                       copied, spoiled, torn, returned, edits>>
    BY DEF Keep, At
  <1>2. FileTypeOK' /\ NothingFromTheFuture'
    BY <1>1 DEF FileInv, FileTypeOK, NothingFromTheFuture
  <1>3. \A t \in Sources \ {s} : Untouched(t)
    BY <1>1 DEF Untouched, FileInv, FileTypeOK
  <1>4. /\ \/ s \in Keepers /\ stored'[s] = attribute
           \/ s \notin Keepers /\ stored'[s] = stored[s]
        /\ pc'[s] = "read" /\ left'[s] = fresh[s]
    BY <1>1 DEF FileInv, FileTypeOK
  <1>5. SourceInv(s)'
    <2>1. HashedOrFresh(s)' /\ TableIsRead(s)'
      BY <1>1, <1>4
         DEF FileInv, SourceInv, HashedOrFresh, TableIsRead, InTable
    <2>2. Pattern[s] \subseteq Files
      BY FileAssumption
    <2>3. Disjoint => AttributeIsOwn(s)'
      BY <1>1, <1>4, <2>2 DEF FileInv, SourceInv, AttributeIsOwn
    <2>4. ASSUME Disjoint, NEW f \in Pattern[s] \ spoiled[s], f \notin fresh[s]
          PROVE  stored'[s][f] \in {0, stored[s][f]}
      BY <1>1, <1>4, <2>2, <2>4
         DEF FileInv, SourceInv, HashedOrFresh, AttributeIsOwn
    <2>5. \A f \in Files : batch'[s][f] = 0
      BY <1>1 DEF FileInv, SourceInv, HashedOrFresh
    <2>6. ASSUME Disjoint, NEW f \in Pattern[s] \ spoiled[s], f \notin fresh[s]
          PROVE  ReadAgain(s, f)' \/ copied'[s][f] = stored'[s][f]
      <3>1. ReadAgain(s, f) \/ copied[s][f] = stored[s][f]
        BY <1>1, <2>6 DEF FileInv, SourceInv, OnTheWay
      <3> QED
        BY <1>1, <2>4, <2>6, <3>1 DEF ReadAgain
    <2>7. Disjoint => OnTheWay(s)'
      BY <1>1, <1>4, <2>2, <2>5, <2>6 DEF OnTheWay
    <2> QED
      BY <2>1, <2>3, <2>7 DEF SourceInv
  <1> QED
    BY <1>1, <1>2, <1>3, <1>5, OthersKeep DEF FileInv

\* What is read is what was hashed, or else the file is torn.
LEMMA ReadFileInv ==
    ASSUME FileInv, NEW s \in Sources, NEW f \in Files, ReadFile(s, f)
    PROVE  FileInv'
  <1>1. /\ pc[s] = "read" /\ pc' = pc /\ f \in left[s]
        /\ left' = [left EXCEPT ![s] = left[s] \ {f}]
        /\ batch' = [batch EXCEPT ![s][f] = content[f]]
        /\ torn' = [torn EXCEPT ![s] = IF content[f] = hashes[s][f]
                                       THEN torn[s] \ {f} ELSE torn[s] \cup {f}]
        /\ UNCHANGED <<content, attribute, stored, hashes, fresh, table, behind,
                       copied, spoiled, returned, edits>>
    BY DEF ReadFile, At, FileInv, FileTypeOK
  <1>2. FileTypeOK'
    BY <1>1 DEF FileInv, FileTypeOK, Hashes
  <1>3. NothingFromTheFuture'
    BY <1>1 DEF FileInv, NothingFromTheFuture
  <1>4. \A t \in Sources \ {s} : Untouched(t)
    BY <1>1 DEF Untouched, FileInv, FileTypeOK
  <1>5. /\ \A g \in Files : batch'[s][g] = IF g = f THEN content[f] ELSE batch[s][g]
        /\ \A g \in Files \ {f} : /\ g \in torn'[s] <=> g \in torn[s]
                                  /\ g \in left'[s] <=> g \in left[s]
        /\ f \in torn'[s] <=> content[f] # hashes[s][f]
        /\ left'[s] \subseteq left[s]
    BY <1>1 DEF FileInv, FileTypeOK, Hashes
  <1>6. SourceInv(s)'
    <2>1. HashedOrFresh(s)'
      BY <1>1, <1>5 DEF FileInv, SourceInv, HashedOrFresh
    <2>2. TableIsRead(s)' /\ (Disjoint => AttributeIsOwn(s)')
      BY <1>1 DEF FileInv, SourceInv, TableIsRead, InTable, AttributeIsOwn
    <2>3. Pattern[s] \subseteq Files
      BY FileAssumption
    <2>4. ASSUME Disjoint, f \in Pattern[s]
          PROVE  ReadAgain(s, f)' \/ batch'[s][f] = stored'[s][f]
      <3>1. /\ content[f] \in Nat /\ hashes[s][f] \in Nat
            /\ f \notin returned => hashes[s][f] <= content[f]
        BY DEF FileInv, FileTypeOK, Hashes, NothingFromTheFuture
      <3>2. stored[s][f] \in {0, hashes[s][f]}
        BY <1>1, <2>4 DEF FileInv, SourceInv, AttributeIsOwn
      <3> QED
        BY <1>1, <1>5, <3>1, <3>2 DEF ReadAgain
    <2>5. \A g \in Files \ {f} : ReadAgain(s, g)' <=> ReadAgain(s, g)
      BY <1>1, <1>5 DEF ReadAgain
    <2>6. Disjoint => OnTheWay(s)'
      <3> SUFFICES ASSUME Disjoint, NEW g \in Pattern[s] \ spoiled[s],
                          ~ReadAgain(s, g)'
                   PROVE  /\ \/ copied[s][g] = stored[s][g]
                             \/ g \in left'[s] \/ batch'[s][g] = stored[s][g]
                          /\ batch'[s][g] \in {0, stored[s][g]}
        BY <1>1 DEF OnTheWay
      <3>1. CASE g = f
        BY <1>1, <2>4, <3>1
      <3>2. CASE g # f
        BY <1>1, <1>5, <2>3, <2>5, <3>2 DEF FileInv, SourceInv, OnTheWay
      <3> QED
        BY <3>1, <3>2
    <2> QED
      BY <2>1, <2>2, <2>6 DEF SourceInv
  <1> QED
    BY <1>1, <1>2, <1>3, <1>4, <1>6, OthersKeep DEF FileInv

LEMMA CommitInv ==
    ASSUME FileInv, NEW s \in Sources, Commit(s)
    PROVE  FileInv'
  <1>1. /\ pc[s] = "read" /\ pc' = [pc EXCEPT ![s] = "done"]
        /\ left[s] = {}
        /\ table' = [table EXCEPT ![s] = batch[s]]
        /\ behind' = [behind EXCEPT ![s] = TRUE]
        /\ UNCHANGED <<content, attribute, stored, left, hashes, fresh, batch,
                       copied, spoiled, torn, returned, edits>>
    BY DEF Commit, At
  <1>2. FileTypeOK' /\ NothingFromTheFuture'
    BY <1>1 DEF FileInv, FileTypeOK, NothingFromTheFuture
  <1>3. \A t \in Sources \ {s} : Untouched(t)
    BY <1>1 DEF Untouched, FileInv, FileTypeOK
  <1>4. pc'[s] = "done" /\ table'[s] = batch[s] /\ behind'[s]
    BY <1>1 DEF FileInv, FileTypeOK
  <1>5. SourceInv(s)'
    <2>1. HashedOrFresh(s)' /\ TableIsRead(s)' /\ (Disjoint => AttributeIsOwn(s)')
      BY <1>1, <1>4
         DEF FileInv, SourceInv, HashedOrFresh, TableIsRead, AttributeIsOwn
    <2>2. Disjoint => OnTheWay(s)'
      BY <1>1, <1>4 DEF FileInv, SourceInv, OnTheWay, ReadAgain
    <2> QED
      BY <2>1, <2>2 DEF SourceInv
  <1> QED
    BY <1>1, <1>2, <1>3, <1>5, OthersKeep DEF FileInv

\* A table that nobody has copied spoils its files.
LEMMA NotCopied ==
    ASSUME FileInv, NEW s \in Sources, Disjoint,
           NEW f \in Pattern[s] \ spoiled[s], ~ReadAgain(s, f),
           pc[s] = "read" => f \notin fresh[s],
           pc[s] = "done" => f \notin InTable(s)
    PROVE  copied[s][f] = stored[s][f]
  <1>1. /\ f \in Files /\ batch[s][f] \in Nat /\ table[s][f] \in Nat
        /\ stored[s][f] \in Nat /\ stored[s][f] # 0
    BY FileAssumption DEF FileInv, FileTypeOK, Hashes, ReadAgain
  <1>2. pc[s] = "read" => f \notin left[s] /\ batch[s][f] = 0
    BY <1>1 DEF FileInv, SourceInv, HashedOrFresh
  <1>3. pc[s] = "done" => table[s][f] = 0
    BY <1>1 DEF InTable
  <1> QED
    BY <1>1, <1>2, <1>3 DEF FileInv, SourceInv, OnTheWay

\* A run that fails after it has stored its hashes spoils the files it found.
LEMMA RunFailsInv ==
    ASSUME FileInv, NEW s \in Sources, RunFails(s)
    PROVE  FileInv'
  <1>1. PICK here \in {"glob", "hash", "keep", "read"} :
            At(s, here, "failed")
            /\ Spoil(s, IF here = "read" THEN fresh[s] ELSE {})
    BY DEF RunFails
  <1>2. /\ pc[s] = here /\ pc' = [pc EXCEPT ![s] = "failed"]
        /\ spoiled' = [spoiled EXCEPT ![s] =
                          spoiled[s] \cup (IF here = "read" THEN fresh[s] ELSE {})]
        /\ UNCHANGED <<content, attribute, stored, left, hashes, fresh, batch,
                       table, behind, copied, torn, returned, edits>>
    BY <1>1 DEF RunFails, At, Spoil
  <1>3. FileTypeOK' /\ NothingFromTheFuture'
    BY <1>2 DEF FileInv, FileTypeOK, NothingFromTheFuture
  <1>4. \A t \in Sources \ {s} : Untouched(t)
    BY <1>2 DEF Untouched, FileInv, FileTypeOK
  <1>5. pc'[s] = "failed" /\ spoiled[s] \subseteq spoiled'[s]
        /\ (here = "read" => fresh[s] \subseteq spoiled'[s])
    BY <1>2 DEF FileInv, FileTypeOK
  <1>6. SourceInv(s)'
    <2>1. HashedOrFresh(s)' /\ TableIsRead(s)' /\ (Disjoint => AttributeIsOwn(s)')
      BY <1>2, <1>5 DEF FileInv, SourceInv, HashedOrFresh, TableIsRead, InTable,
                        AttributeIsOwn
    <2>2. Disjoint => OnTheWay(s)'
      <3> SUFFICES ASSUME Disjoint, NEW f \in Pattern[s] \ spoiled'[s],
                          ~ReadAgain(s, f)
                   PROVE  copied[s][f] = stored[s][f]
        BY <1>2, <1>5 DEF OnTheWay, ReadAgain
      <3> QED
        BY <1>2, <1>5, NotCopied
    <2> QED
      BY <2>1, <2>2 DEF SourceInv
  <1> QED
    BY <1>2, <1>3, <1>4, <1>6, OthersKeep DEF FileInv

\* What the step after has read of a file that is not spoiled is what is stored.
LEMMA StepAfterInv ==
    ASSUME FileInv, NEW s \in Sources, StepAfter(s)
    PROVE  FileInv'
  <1>1. /\ pc[s] \in {"done", "failed"} /\ pc' = [pc EXCEPT ![s] = "idle"]
        /\ behind[s]
        /\ copied' = [copied EXCEPT ![s] =
                         [f \in Files |-> IF table[s][f] > 0 THEN table[s][f]
                                         ELSE copied[s][f]]]
        /\ behind' = [behind EXCEPT ![s] = FALSE]
        /\ spoiled' = [spoiled EXCEPT ![s] =
                          {f \in spoiled[s] : table[s][f] # stored[s][f]}]
        /\ UNCHANGED <<content, attribute, stored, left, hashes, fresh, batch,
                       table, torn, returned, edits>>
    BY DEF StepAfter, NextLevel, At
  <1>2. \A f \in Files : table[s][f] \in Nat /\ copied[s][f] \in Nat
    BY DEF FileInv, FileTypeOK, Hashes
  <1>3. /\ pc'[s] = "idle" /\ behind'[s] = FALSE
        /\ copied'[s] = [f \in Files |-> IF table[s][f] > 0 THEN table[s][f]
                                        ELSE copied[s][f]]
        /\ spoiled'[s] = {f \in spoiled[s] : table[s][f] # stored[s][f]}
    BY <1>1 DEF FileInv, FileTypeOK
  <1>4. \A t \in Sources \ {s} : Untouched(t)
    BY <1>1 DEF Untouched, FileInv, FileTypeOK
  <1>5. FileTypeOK'
    <2>1. copied'[s] \in Hashes
      BY <1>2, <1>3 DEF Hashes
    <2>2. copied' \in [Sources -> Hashes]
      BY <1>1, <1>3, <2>1 DEF FileInv, FileTypeOK
    <2> QED
      BY <1>1, <2>2 DEF FileInv, FileTypeOK
  <1>6. NothingFromTheFuture'
    BY <1>1 DEF FileInv, NothingFromTheFuture
  <1>7. SourceInv(s)'
    <2>1. HashedOrFresh(s)' /\ TableIsRead(s)' /\ (Disjoint => AttributeIsOwn(s)')
      BY <1>1, <1>3 DEF FileInv, SourceInv, HashedOrFresh, TableIsRead,
                        AttributeIsOwn
    <2>2. ASSUME Disjoint, NEW f \in Pattern[s] \ spoiled'[s], ~ReadAgain(s, f)
          PROVE  copied'[s][f] = stored[s][f]
      <3>1. f \in Files /\ stored[s][f] \in Nat /\ stored[s][f] # 0
        BY <2>2, FileAssumption DEF FileInv, FileTypeOK, Hashes, ReadAgain
      <3>2. CASE f \in spoiled[s]
        <4>1. table[s][f] = stored[s][f]
          BY <1>3, <2>2, <3>2
        <4> QED
          BY <1>3, <3>1, <4>1
      <3>3. CASE f \notin spoiled[s]
        <4>1. \/ copied[s][f] = stored[s][f]
              \/ pc[s] = "done" /\ table[s][f] = stored[s][f]
          BY <1>1, <2>2, <3>3 DEF FileInv, SourceInv, OnTheWay
        <4>2. pc[s] = "done" => table[s][f] \in {0, stored[s][f]}
          BY <2>2, <3>3 DEF FileInv, SourceInv, OnTheWay
        <4>3. pc[s] # "done" => ~(table[s][f] > 0)
          BY <1>1, <3>1, <3>3 DEF FileInv, SourceInv, TableIsRead, InTable
        <4>4. table[s][f] \in {0, stored[s][f]}
          BY <1>2, <3>1, <4>2, <4>3
        <4> QED
          BY <1>3, <3>1, <4>1, <4>4
      <3> QED
        BY <3>2, <3>3
    <2>3. \A f \in Files : ReadAgain(s, f)' <=> ReadAgain(s, f)
      BY <1>1 DEF ReadAgain
    <2>4. Disjoint => OnTheWay(s)'
      <3> SUFFICES ASSUME Disjoint, NEW f \in Pattern[s] \ spoiled'[s],
                          ~ReadAgain(s, f)'
                   PROVE  copied'[s][f] = stored[s][f]
        <4>1. pc'[s] = "idle" /\ stored' = stored
          BY <1>1, <1>3
        <4> QED
          BY <4>1 DEF OnTheWay
      <3> QED
        BY <2>2, <2>3, FileAssumption
    <2> QED
      BY <2>1, <2>4 DEF SourceInv
  <1> QED
    BY <1>1, <1>4, <1>5, <1>6, <1>7, OthersKeep DEF FileInv

LEMMA StepAfterFailsInv ==
    ASSUME FileInv, NEW s \in Sources, StepAfterFails(s) \/ NotReady(s)
    PROVE  FileInv'
  <1>1. /\ pc[s] \in {"done", "failed"} /\ pc' = [pc EXCEPT ![s] = "idle"]
        /\ \/ spoiled' = [spoiled EXCEPT ![s] = spoiled[s] \cup InTable(s)]
           \/ ~behind[s] /\ spoiled' = spoiled
        /\ UNCHANGED <<content, attribute, stored, left, hashes, fresh, batch,
                       table, behind, copied, torn, returned, edits>>
    BY DEF StepAfterFails, NotReady, NextLevel, At, Spoil
  <1>2. FileTypeOK' /\ NothingFromTheFuture'
    BY <1>1 DEF FileInv, FileTypeOK, NothingFromTheFuture, InTable
  <1>3. \A t \in Sources \ {s} : Untouched(t)
    BY <1>1 DEF Untouched, FileInv, FileTypeOK
  <1>4. SourceInv(s)'
    <2>1. /\ pc'[s] = "idle" /\ spoiled[s] \subseteq spoiled'[s]
          /\ behind[s] => InTable(s) \subseteq spoiled'[s]
          /\ pc[s] = "done" => behind[s]
      BY <1>1 DEF FileInv, FileTypeOK, SourceInv, TableIsRead
    <2>2. HashedOrFresh(s)' /\ TableIsRead(s)' /\ (Disjoint => AttributeIsOwn(s)')
      BY <1>1, <2>1 DEF FileInv, SourceInv, HashedOrFresh, TableIsRead, InTable,
                        AttributeIsOwn
    <2>3. ASSUME Disjoint, NEW f \in Pattern[s] \ spoiled'[s], ~ReadAgain(s, f)
          PROVE  copied[s][f] = stored[s][f]
      BY <1>1, <2>1, <2>3, NotCopied
    <2>4. Disjoint => OnTheWay(s)'
      BY <1>1, <2>1, <2>3 DEF OnTheWay, ReadAgain
    <2> QED
      BY <2>2, <2>4 DEF SourceInv
  <1> QED
    BY <1>1, <1>2, <1>3, <1>4, OthersKeep DEF FileInv

LEMMA CrashInv ==
    ASSUME FileInv, Crash
    PROVE  FileInv'
  <1>1. /\ pc' = [s \in Sources |-> "idle"]
        /\ attribute' = NoHashes
        /\ \A s \in Sources :
              spoiled'[s] = CASE pc[s] = "read" -> spoiled[s] \cup fresh[s]
                              [] pc[s] = "done" -> spoiled[s] \cup InTable(s)
                              [] OTHER -> spoiled[s]
        /\ DOMAIN spoiled' = Sources
        /\ spoiled' = [s \in Sources |-> spoiled'[s]]
        /\ UNCHANGED <<content, stored, left, hashes, fresh, batch, table, behind,
                       copied, torn, returned, edits>>
    BY DEF Crash
  <1>2. NoHashes \in Hashes
    BY DEF NoHashes, Hashes
  <1>3. \A s \in Sources :
            /\ spoiled[s] \subseteq spoiled'[s] /\ spoiled'[s] \subseteq Files
            /\ pc[s] = "read" => fresh[s] \subseteq spoiled'[s]
            /\ pc[s] = "done" => InTable(s) \subseteq spoiled'[s]
    BY <1>1 DEF FileInv, FileTypeOK, InTable
  <1>4. FileTypeOK'
    BY <1>1, <1>2, <1>3 DEF FileInv, FileTypeOK
  <1>5. NothingFromTheFuture'
    BY <1>1 DEF FileInv, NothingFromTheFuture
  <1>6. ASSUME NEW s \in Sources
        PROVE  SourceInv(s)'
    <2>1. pc'[s] = "idle"
      BY <1>1
    <2>2. HashedOrFresh(s)' /\ TableIsRead(s)' /\ (Disjoint => AttributeIsOwn(s)')
      BY <1>1, <1>3, <2>1 DEF FileInv, SourceInv, HashedOrFresh, TableIsRead,
                              InTable, AttributeIsOwn
    <2>3. ASSUME Disjoint, NEW f \in Pattern[s] \ spoiled'[s], ~ReadAgain(s, f)
          PROVE  copied[s][f] = stored[s][f]
      BY <1>3, <2>3, NotCopied
    <2>4. Disjoint => OnTheWay(s)'
      BY <1>1, <2>1, <2>3 DEF OnTheWay, ReadAgain
    <2> QED
      BY <2>2, <2>4 DEF SourceInv
  <1> QED
    BY <1>4, <1>5, <1>6 DEF FileInv

LEMMA FileStutter ==
    ASSUME FileInv, UNCHANGED vars
    PROVE  FileInv'
  BY DEF vars, FileInv, FileTypeOK, NothingFromTheFuture, SourceInv, HashedOrFresh,
         TableIsRead, InTable, AttributeIsOwn, OnTheWay, ReadAgain

LEMMA FileInvariant == Spec => []FileInv
  <1>1. ASSUME FileInv, [Next]_vars
        PROVE  FileInv'
    BY <1>1, EditInv, StartTickInv, CrashInv, GlobInv, HashFileInv,
       SetAttributeInv, KeepInv, ReadFileInv, CommitInv, RunFailsInv,
       StepAfterInv, StepAfterFailsInv, FileStutter
       DEF Next
  <1> QED
    BY FileStart, <1>1, PTL DEF Spec

\* A file whose stored hash is that of its content has been handed on with that
\* content, for any files, disjoint patterns, edits, failures and ends of the
\* process, if no run of its source failed after it had stored the hash, and if
\* the file did not change between hash and read and go back to an earlier content
\* (file.py:55-63).
THEOREM StoredHashesAreCopied == Spec => []NoChangeLost
  <1>1. ASSUME FileInv
        PROVE  NoChangeLost
    <2> SUFFICES ASSUME Between, Disjoint, NEW s \in Sources,
                        NEW f \in Pattern[s] \ (spoiled[s] \cup WentBack(s)),
                        content[f] > 0, stored[s][f] = content[f]
                 PROVE  copied[s][f] = content[f]
      BY DEF NoChangeLost, HandedOn
    <2>1. f \in Files /\ content[f] \in Nat
      BY <1>1, FileAssumption DEF FileInv, FileTypeOK, Hashes
    <2>2. ~ReadAgain(s, f)
      BY <2>1 DEF ReadAgain, WentBack
    <2> QED
      BY <1>1, <2>2 DEF Between, FileInv, SourceInv, OnTheWay
  <1> QED
    BY FileInvariant, <1>1, PTL

-----------------------------------------------------------------------------
(***************************************************************************)
(* Schedule.                                                               *)
(***************************************************************************)

Run == [start : Nat, end : Nat, ok : BOOLEAN]

ScheduleTypeOK ==
    /\ Interval \in Nat
    /\ now \in Nat
    /\ last \in SUBSET Nat
    /\ started \in SUBSET Nat
    /\ runs \in Seq(Run)

\* last_run is no earlier than the end of any success.
LastIsLatest ==
    /\ \A t \in last \cup started : t <= now
    /\ \A i \in DOMAIN runs :
          /\ runs[i].start <= runs[i].end /\ runs[i].end <= now
          /\ runs[i].ok => \E t \in last : runs[i].end <= t

\* Between the tick that found the step due and the end of its run, no other
\* run ends.
StartedWhenDue ==
    \A t \in started, i \in DOMAIN runs : runs[i].ok =>
        /\ Kind = "cron" => Minute(runs[i].end) < Minute(t)
        /\ Kind = "interval" => t - runs[i].end >= Interval

ScheduleInv ==
    /\ ScheduleTypeOK /\ LastIsLatest /\ StartedWhenDue
    /\ SucceedsOncePerMinute /\ RestsForInterval

LEMMA MinuteMonotonic ==
    ASSUME NEW s \in Nat, NEW t \in Nat, s <= t
    PROVE  /\ Minute(s) \in Nat /\ Minute(t) \in Nat
           /\ Minute(s) <= Minute(t)
  <1>1. Unit \in Nat /\ Unit > 0
    BY ScheduleAssumption
  <1> DEFINE a == s \div Unit
             b == t \div Unit
  <1>2. a \in Int /\ b \in Int
        /\ Unit * a <= s /\ s < Unit * (a + 1)
        /\ Unit * b <= t /\ t < Unit * (b + 1)
    BY <1>1, Z3
  <1>3. a \in Nat /\ b \in Nat /\ a <= b
    BY <1>1, <1>2, Z3
  <1> QED
    BY <1>3 DEF Minute

LEMMA RunTimes ==
    ASSUME ScheduleTypeOK, NEW i \in DOMAIN runs
    PROVE  runs[i].start \in Nat /\ runs[i].end \in Nat
  <1>1. runs[i] \in Run
    BY ElementOfSeq, LenProperties DEF ScheduleTypeOK
  <1> QED
    BY <1>1 DEF Run

LEMMA ScheduleStart == ScheduleInit => ScheduleInv
  BY ScheduleAssumption, EmptySeq
     DEF ScheduleInit, ScheduleInv, ScheduleTypeOK, IsSchedule, Interval, LastIsLatest,
         StartedWhenDue, SucceedsOncePerMinute, RestsForInterval

LEMMA TickInv ==
    ASSUME ScheduleInv, Tick
    PROVE  ScheduleInv'
  <1>1. /\ UNCHANGED <<schedule, now, last, runs>>
        /\ started' = {now}
        /\ now \in Nat
    BY DEF Tick, ScheduleInv, ScheduleTypeOK
  <1>2. ASSUME NEW i \in DOMAIN runs, runs[i].ok
        PROVE  /\ Kind = "cron" => Minute(runs[i].end) < Minute(now)
               /\ Kind = "interval" => now - runs[i].end >= Interval
    <2>1. PICK t \in last : runs[i].end <= t
      BY <1>2 DEF ScheduleInv, LastIsLatest
    <2>2. runs[i].end \in Nat /\ t \in Nat /\ Interval \in Nat
      BY RunTimes DEF ScheduleInv, ScheduleTypeOK
    <2>3. CASE Kind = "cron"
      <3>1. Minute(t) < Minute(now)
        BY <2>3 DEF Tick, IsDue
      <3> QED
        BY <1>1, <2>1, <2>2, <2>3, <3>1, MinuteMonotonic
    <2>4. CASE Kind = "interval"
      <3>1. now - t >= Interval
        BY <2>4 DEF Tick, IsDue
      <3> QED
        BY <1>1, <2>1, <2>2, <2>4, <3>1
    <2> QED
      BY <2>3, <2>4
  <1>3. StartedWhenDue'
    BY <1>1, <1>2 DEF StartedWhenDue, Kind, Interval, Minute
  <1>4. LastIsLatest'
    <2>1. \A t \in last \cup {now} : t <= now
      BY <1>1 DEF ScheduleInv, LastIsLatest
    <2> QED
      BY <1>1, <2>1 DEF ScheduleInv, LastIsLatest
  <1> QED
    BY <1>1, <1>3, <1>4
       DEF ScheduleInv, ScheduleTypeOK, SucceedsOncePerMinute, RestsForInterval,
           Kind, Interval, Minute

LEMMA EndsInv ==
    ASSUME ScheduleInv, Succeeds \/ Fails
    PROVE  ScheduleInv'
  <1>1. PICK ok \in BOOLEAN : Ends(ok) /\ (ok => last' = {now})
                              /\ (~ok => last' = last)
    BY DEF Succeeds, Fails
  <1>2. PICK t \in started :
            runs' = Append(runs, [start |-> t, end |-> now, ok |-> ok])
    BY <1>1 DEF Ends
  <1> DEFINE r == [start |-> t, end |-> now, ok |-> ok]
             n == Len(runs)
  <1>3. now \in Nat /\ t \in Nat /\ t <= now /\ r \in Run /\ runs \in Seq(Run)
    BY DEF ScheduleInv, ScheduleTypeOK, LastIsLatest, Run
  <1>4. /\ runs' \in Seq(Run) /\ n \in Nat
        /\ DOMAIN runs = 1..n /\ DOMAIN runs' = 1..(n + 1)
        /\ \A i \in 1..n : runs'[i] = runs[i]
        /\ runs'[n + 1] = r
    BY <1>2, <1>3, AppendProperties, LenProperties
  <1>5. UNCHANGED <<schedule, now>> /\ started' = {}
    BY <1>1 DEF Ends
  <1>6. \A i \in 1..n : runs[i].start \in Nat /\ runs[i].end \in Nat
                        /\ runs[i].start <= runs[i].end /\ runs[i].end <= now
    BY <1>4, RunTimes DEF ScheduleInv, LastIsLatest
  <1>7. \A i \in 1..n : runs[i].ok =>
            /\ Kind = "cron" => Minute(runs[i].start) < Minute(t)
            /\ Kind = "interval" => t - runs[i].end >= Interval
    <2> SUFFICES ASSUME NEW i \in 1..n, runs[i].ok
                 PROVE  /\ Kind = "cron" => Minute(runs[i].start) < Minute(t)
                        /\ Kind = "interval" => t - runs[i].end >= Interval
      OBVIOUS
    <2>1. /\ Kind = "cron" => Minute(runs[i].end) < Minute(t)
          /\ Kind = "interval" => t - runs[i].end >= Interval
      BY <1>4 DEF ScheduleInv, StartedWhenDue
    <2>2. /\ Minute(runs[i].start) \in Nat /\ Minute(runs[i].end) \in Nat
          /\ Minute(runs[i].start) <= Minute(runs[i].end)
          /\ Minute(t) \in Nat
      BY <1>3, <1>6, MinuteMonotonic
    <2> QED
      BY <2>1, <2>2
  <1>8. ScheduleTypeOK'
    BY <1>1, <1>4, <1>5 DEF ScheduleInv, ScheduleTypeOK, Interval
  <1>9. LastIsLatest'
    <2>1. \A i \in 1..n : runs[i].ok => \E u \in last' : runs[i].end <= u
      BY <1>1, <1>3, <1>4, <1>6 DEF ScheduleInv, LastIsLatest
    <2>2. ok => \E u \in last' : now <= u
      <3>1. now <= now
        BY <1>3
      <3> QED
        BY <1>1, <3>1
    <2>3. \A u \in last' : u <= now
      BY <1>1, <1>3 DEF ScheduleInv, LastIsLatest
    <2>4. \A i \in 1..(n + 1) : i \in 1..n \/ i = n + 1
      BY <1>4
    <2> QED
      <3>1. ASSUME NEW i \in 1..(n + 1)
            PROVE  /\ runs'[i].start <= runs'[i].end /\ runs'[i].end <= now
                   /\ runs'[i].ok => \E u \in last' : runs'[i].end <= u
        <4>1. CASE i \in 1..n
          BY <4>1, <1>4, <1>6, <2>1
        <4>2. CASE i = n + 1
          BY <4>2, <1>3, <1>4, <2>2
        <4> QED
          BY <2>4, <4>1, <4>2
      <3>2. now' = now /\ DOMAIN runs' = 1..(n + 1)
        BY <1>4, <1>5
      <3>3. \A u \in last' \cup started' : u <= now
        BY <1>5, <2>3
      <3> HIDE DEF n
      <3> QED
        BY <3>1, <3>2, <3>3 DEF LastIsLatest
  <1>10. StartedWhenDue'
    BY <1>5 DEF StartedWhenDue
  <1>11. ASSUME NEW i \in 1..(n + 1), NEW j \in 1..(n + 1), i < j,
                runs'[i].ok
         PROVE  /\ Kind = "cron" /\ runs'[j].ok
                      => Minute(runs'[i].start) < Minute(runs'[j].start)
                /\ Kind = "interval"
                      => runs'[j].start - runs'[i].end >= Interval
    <2>0. n \in Nat
      BY <1>4
    <2>1. i \in 1..n /\ (j \in 1..n \/ j = n + 1)
      BY <2>0, <1>11
    <2>2. CASE j \in 1..n
      BY <1>4, <1>11, <2>1, <2>2
         DEF ScheduleInv, SucceedsOncePerMinute, RestsForInterval
    <2>3. CASE j = n + 1
      BY <1>4, <1>7, <1>11, <2>1, <2>3
    <2> QED
      BY <2>1, <2>2, <2>3
  <1>12. SucceedsOncePerMinute' /\ RestsForInterval'
    BY <1>4, <1>5, <1>11
       DEF SucceedsOncePerMinute, RestsForInterval, Kind, Interval, Minute
  <1> QED
    BY <1>8, <1>9, <1>10, <1>12 DEF ScheduleInv

LEMMA TimePassesInv ==
    ASSUME ScheduleInv, TimePasses \/ UNCHANGED scheduleVars
    PROVE  ScheduleInv'
  <1>1. /\ UNCHANGED <<schedule, last, started, runs>>
        /\ now \in Nat /\ now' \in Nat /\ now <= now'
    BY DEF TimePasses, scheduleVars, ScheduleInv, ScheduleTypeOK
  <1>2. \A i \in DOMAIN runs : runs[i].end \in Nat
    BY RunTimes DEF ScheduleInv
  <1>3. LastIsLatest'
    BY <1>1, <1>2 DEF ScheduleInv, ScheduleTypeOK, LastIsLatest
  <1> QED
    BY <1>1, <1>3
       DEF ScheduleInv, ScheduleTypeOK, StartedWhenDue, SucceedsOncePerMinute,
           RestsForInterval, Kind, Interval, Minute

LEMMA ScheduleInvariant == ScheduleSpec => []ScheduleInv
  <1>1. ScheduleInv /\ [ScheduleNext]_scheduleVars => ScheduleInv'
    BY TickInv, EndsInv, TimePassesInv DEF ScheduleNext
  <1> QED
    BY ScheduleStart, <1>1, PTL DEF ScheduleSpec

\* Whatever the cron expression, a step succeeds at most once in a minute, even
\* if its runs take longer than that: is_due compares the minutes of the tick's
\* start and of the last success.
THEOREM CronSucceedsOncePerMinute == ScheduleSpec => []SucceedsOncePerMinute
  <1>1. ScheduleInv => SucceedsOncePerMinute
    BY DEF ScheduleInv
  <1> QED
    BY ScheduleInvariant, <1>1, PTL

\* After a success a step with an interval rests for all of it, failures and
\* long runs in between included.
THEOREM IntervalIsKept == ScheduleSpec => []RestsForInterval
  <1>1. ScheduleInv => RestsForInterval
    BY DEF ScheduleInv
  <1> QED
    BY ScheduleInvariant, <1>1, PTL
=============================================================================
