--------------------------- MODULE SynthesizeFile ---------------------------
(***************************************************************************)
(* synthesize_revision_cmd and atomic_write of memspec-cli/src/main.rs:    *)
(* runs of the command that read a .memspec file, compute its rewritten    *)
(* text, replace the file by a temporary one and read it back, beside an   *)
(* author who saves the file, other runs, I/O errors, killed processes and *)
(* a power loss.                                                           *)
(*                                                                         *)
(* A text is the version of its slice (body) and the versions its          *)
(* revisions record; synthesis itself is RevisionChain's part.  What an    *)
(* entry replays to is its version, so the genesis entry, which replays to *)
(* the empty slice, is left out of the chain.  A file is a text with a     *)
(* stamp that tells the writes apart and a flag: its data is on the disk.  *)
(***************************************************************************)
EXTENDS Naturals, Sequences

CONSTANTS
  Proc,         \* the processes that run the command
  Body,         \* the versions of the slice
  Malformed,    \* those with a syntax error
  Flawed,       \* those the analyzer faults for something but their revisions
  Refused,      \* those whose change the semantic patch cannot express
  IOErrors,     \* whether reads and writes may fail
  Bare,         \* the path is a file name with no directory in front
  NoFile,       \* a run has read nothing, or has written nothing
  Torn,         \* a file whose data never reached the disk
  MaxSaves,     \* bound: how often the author saves
  MaxLosses,    \* bound: how often the power fails
  MaxStamp      \* bound: how many writes there are

ASSUME FileAssumption ==
  /\ Malformed \subseteq Body /\ Flawed \subseteq Body /\ Refused \subseteq Body
  /\ IOErrors \in BOOLEAN /\ Bare \in BOOLEAN
  /\ MaxSaves \in Nat /\ MaxLosses \in Nat /\ MaxStamp \in Nat

FileText == [body : Body, chain : Seq(Body), stamp : Nat, synced : BOOLEAN]

ASSUME NoFileAssumption == NoFile \notin FileText /\ Torn \notin FileText /\ Torn # NoFile

VARIABLES
  shared,   \* whether saves and other runs may fall into a run
  file,     \* what the path names
  durable,  \* what it would name after a power loss
  pc,       \* where each run is
  got,      \* the text each run read
  tmp,      \* the temporary file of each run
  exit,     \* what each run's exit code says (clean 0, parse 2, semantic 3, io 4)
  replaced, \* the stamp of the file a run put in place, or 0
  said,     \* what a run reported: "appended", "no_op", "replay_check" or "none"
  stamp,    \* the last stamp given
  saves,    \* how often the author saved
  losses    \* how often the power failed

vars == <<shared, file, durable, pc, got, tmp, exit, replaced, said, stamp, saves, losses>>
runVars == <<pc, got, tmp, exit, replaced, said>>

TypeOK ==
  /\ shared \in BOOLEAN
  /\ file \in FileText \cup {Torn}
  /\ durable \in FileText \cup {Torn}
  /\ pc \in [Proc -> {"idle", "write", "persist", "syncdir", "reread", "done"}]
  /\ got \in [Proc -> FileText \cup {NoFile}]
  /\ tmp \in [Proc -> FileText \cup {NoFile}]
  /\ exit \in [Proc -> {"none", "killed", "clean", "parse", "semantic", "io"}]
  /\ replaced \in [Proc -> Nat]
  /\ said \in [Proc -> {"none", "appended", "no_op", "replay_check"}]
  /\ stamp \in Nat /\ saves \in Nat /\ losses \in Nat

-----------------------------------------------------------------------------
(* Texts. *)

\* A bug to find: a text whose last revision is its slice is appended to.
Recorded_Never(t) == FALSE

Recorded(t) == t.chain # <<>> /\ t.chain[Len(t.chain)] = t.body

\* The revisions of a text are fine if there are none or the last is current.
RevisionsClean(t) == t.chain = <<>> \/ Recorded(t)

\* A bug to find: exit code 1, walk-incomplete, for a file that has errors.
WalkCode_Incomplete(t) ==
  IF t.body \in Malformed THEN "parse"
  ELSE IF t.body \in Flawed \/ ~RevisionsClean(t) THEN "incomplete"
  ELSE "clean"

\* What a walk of the text exits with.
WalkCode(t) ==
  IF t.body \in Malformed THEN "parse"
  ELSE IF t.body \in Flawed \/ ~RevisionsClean(t) THEN "semantic"
  ELSE "clean"

\* A bug to find: the temporary file is renamed before its data is synced.
Rewritten_Unsynced(t) ==
  [body |-> t.body, chain |-> Append(t.chain, t.body), stamp |-> 0,
   synced |-> FALSE]

\* A bug to find: the rendered chain holds the new revision only.
Rewritten_DropsHistory(t) ==
  [body |-> t.body, chain |-> <<t.body>>, stamp |-> 0, synced |-> TRUE]

\* The temporary file: the text with one revision more, written and synced.
Rewritten(t) ==
  [body |-> t.body, chain |-> Append(t.chain, t.body), stamp |-> 0,
   synced |-> TRUE]

-----------------------------------------------------------------------------

Running(p) == pc[p] \notin {"idle", "done"}
Quiet == \A p \in Proc : ~Running(p)

Init ==
  /\ shared \in BOOLEAN
  /\ \E b \in Body :
       file = [body |-> b, chain |-> <<>>, stamp |-> 0, synced |-> TRUE]
  /\ durable = file
  /\ pc = [p \in Proc |-> "idle"]
  /\ got = [p \in Proc |-> NoFile]
  /\ tmp = [p \in Proc |-> NoFile]
  /\ exit = [p \in Proc |-> "none"]
  /\ replaced = [p \in Proc |-> 0]
  /\ said = [p \in Proc |-> "none"]
  /\ stamp = 0 /\ saves = 0 /\ losses = 0

\* The run ends.
Exit(p, code, words) ==
  /\ pc' = [pc EXCEPT ![p] = "done"]
  /\ exit' = [exit EXCEPT ![p] = code]
  /\ said' = [said EXCEPT ![p] = words]

\* A run begins by reading the file, and computes the rewritten text from
\* what it read: nothing else is looked at until the text replaces the file.
Begin(p) ==
  /\ pc[p] = "idle"
  /\ shared \/ Quiet

ReadFails(p) ==
  /\ IOErrors
  /\ Begin(p)
  /\ Exit(p, "io", "none")
  /\ UNCHANGED <<file, durable, got, tmp, replaced, stamp, saves, losses>>

Rejects(p) ==
  /\ Begin(p)
  /\ file # Torn
  /\ \/ file.body \in Malformed /\ Exit(p, "parse", "none")
     \/ /\ file.body \in Refused \ Malformed
        /\ ~Recorded(file)
        /\ Exit(p, "semantic", "none")
  /\ UNCHANGED <<file, durable, got, tmp, replaced, stamp, saves, losses>>

NothingToAppend(p) ==
  /\ Begin(p)
  /\ file # Torn
  /\ file.body \notin Malformed
  /\ Recorded(file)
  /\ Exit(p, "clean", "no_op")
  /\ UNCHANGED <<file, durable, got, tmp, replaced, stamp, saves, losses>>

Synthesize(p) ==
  /\ Begin(p)
  /\ file # Torn
  /\ file.body \notin Malformed \cup Refused
  /\ ~Recorded(file)
  /\ got' = [got EXCEPT ![p] = file]
  /\ pc' = [pc EXCEPT ![p] = "write"]
  /\ UNCHANGED <<file, durable, tmp, exit, replaced, said, stamp, saves, losses>>

\* atomic_write, up to tmp.as_file_mut().sync_all()
WriteTemp(p) ==
  /\ pc[p] = "write"
  /\ tmp' = [tmp EXCEPT ![p] = Rewritten(got[p])]
  /\ pc' = [pc EXCEPT ![p] = "persist"]
  /\ UNCHANGED <<file, durable, got, exit, replaced, said, stamp, saves, losses>>

\* Creating, writing, syncing or renaming the temporary file fails: the file
\* is as it was, and the temporary one is removed.
WriteFails(p) ==
  /\ IOErrors
  /\ pc[p] \in {"write", "persist"}
  /\ tmp' = [tmp EXCEPT ![p] = NoFile]
  /\ Exit(p, "io", "none")
  /\ UNCHANGED <<file, durable, got, replaced, stamp, saves, losses>>

Persist(p) ==
  /\ pc[p] = "persist"
  /\ stamp < MaxStamp
  /\ file' = [tmp[p] EXCEPT !.stamp = stamp + 1]
  /\ stamp' = stamp + 1
  /\ replaced' = [replaced EXCEPT ![p] = stamp + 1]
  /\ tmp' = [tmp EXCEPT ![p] = NoFile]
  /\ pc' = [pc EXCEPT ![p] = "syncdir"]
  /\ UNCHANGED <<durable, got, exit, said, saves, losses>>

\* A bug to find: the directory is not synced after the rename.
SyncDir_Skipped(p) ==
  /\ pc[p] = "syncdir"
  /\ pc' = [pc EXCEPT ![p] = "reread"]
  /\ UNCHANGED <<file, durable, got, tmp, exit, replaced, said, stamp, saves, losses>>

SyncDir(p) ==
  /\ ~Bare
  /\ pc[p] = "syncdir"
  /\ durable' = file
  /\ pc' = [pc EXCEPT ![p] = "reread"]
  /\ UNCHANGED <<file, got, tmp, exit, replaced, said, stamp, saves, losses>>

\* Opening or syncing the directory fails: exit 4 with the file replaced.  The
\* parent of a bare file name is the empty path, which cannot be opened.
SyncDirFails(p) ==
  /\ IOErrors \/ Bare
  /\ pc[p] = "syncdir"
  /\ Exit(p, "io", "none")
  /\ UNCHANGED <<file, durable, got, tmp, replaced, stamp, saves, losses>>

\* The file is read back, whoever wrote it by now, and walked in full.
ReadBack(p) ==
  /\ pc[p] = "reread"
  /\ file # Torn
  /\ Exit(p, WalkCode(file),
          IF WalkCode(file) = "clean" THEN "appended" ELSE "replay_check")
  /\ UNCHANGED <<file, durable, got, tmp, replaced, stamp, saves, losses>>

ReadBackFails(p) ==
  /\ IOErrors
  /\ pc[p] = "reread"
  /\ Exit(p, "io", "none")
  /\ UNCHANGED <<file, durable, got, tmp, replaced, stamp, saves, losses>>

\* The process is asked for another run.
Again(p) ==
  /\ pc[p] = "done"
  /\ pc' = [pc EXCEPT ![p] = "idle"]
  /\ got' = [got EXCEPT ![p] = NoFile]
  /\ exit' = [exit EXCEPT ![p] = "none"]
  /\ replaced' = [replaced EXCEPT ![p] = 0]
  /\ said' = [said EXCEPT ![p] = "none"]
  /\ UNCHANGED <<file, durable, tmp, stamp, saves, losses>>

-----------------------------------------------------------------------------
(* The surroundings. *)

\* The author changes the slice and leaves the revisions alone.
Save ==
  /\ shared \/ Quiet
  /\ saves < MaxSaves /\ stamp < MaxStamp
  /\ file # Torn
  /\ \E b \in Body \ {file.body} :
       file' = [body |-> b, chain |-> file.chain, stamp |-> stamp + 1, synced |-> TRUE]
  /\ durable' = file'
  /\ stamp' = stamp + 1
  /\ saves' = saves + 1
  /\ UNCHANGED <<losses, runVars>>

\* A process is killed; its temporary file stays behind and is never read.
Kill(p) ==
  /\ Running(p)
  /\ Exit(p, "killed", "none")
  /\ tmp' = [tmp EXCEPT ![p] = NoFile]
  /\ UNCHANGED <<file, durable, got, replaced, stamp, saves, losses>>

\* Every process dies.  A rename the directory was not synced after is kept
\* or lost, and data that was not synced is lost.
PowerLoss ==
  /\ losses < MaxLosses
  /\ losses' = losses + 1
  /\ \E kept \in {file, durable} :
       file' = (IF kept # Torn /\ kept.synced THEN kept ELSE Torn)
  /\ durable' = file'
  /\ pc' = [p \in Proc |-> IF Running(p) THEN "done" ELSE pc[p]]
  /\ exit' = [p \in Proc |-> IF Running(p) THEN "killed" ELSE exit[p]]
  /\ tmp' = [p \in Proc |-> NoFile]
  /\ UNCHANGED <<got, replaced, said, stamp, saves>>

Step(p) ==
  \/ ReadFails(p) \/ Rejects(p) \/ NothingToAppend(p) \/ Synthesize(p)
  \/ WriteTemp(p) \/ WriteFails(p) \/ Persist(p)
  \/ SyncDir(p) \/ SyncDirFails(p) \/ ReadBack(p) \/ ReadBackFails(p)

Next ==
  /\ \/ \E p \in Proc : Step(p) \/ Again(p) \/ Kill(p)
     \/ Save
     \/ PowerLoss
  /\ UNCHANGED shared

Spec == Init /\ [][Next]_vars

-----------------------------------------------------------------------------
(* Properties. *)

(* Whatever fails, whoever is killed and whenever the power goes: the path *)
(* names a whole text, the old one or the new one, never a part of either. *)
FileIsWhole == file # Torn /\ durable # Torn

(* A run that exits 0 after appending has its text on the disk for good: a *)
(* power loss can bring back nothing older than what it wrote.             *)
AcknowledgedIsDurable ==
  \A p \in Proc :
    (pc[p] = "done" /\ said[p] = "appended") =>
      durable # Torn /\ durable.stamp >= replaced[p]

(* No version is recorded twice in a row: not by two runs at once, not by a *)
(* run repeated after one that failed past the rename, not after a crash.  *)
NeverTwiceInARow ==
  file # Torn =>
    \A i \in 1..(Len(file.chain) - 1) : file.chain[i] # file.chain[i + 1]

(* The file's history only grows.                                          *)
HistoryOnlyGrows ==
  [][file # Torn /\ file' # Torn =>
       /\ Len(file.chain) <= Len(file'.chain)
       /\ SubSeq(file'.chain, 1, Len(file.chain)) = file.chain]_vars

(* If no read or write fails, a run that put its text in place and was not *)
(* killed says that it appended.                                           *)
AppendIsReported ==
  \A p \in Proc :
    (~IOErrors /\ pc[p] = "done" /\ replaced[p] # 0 /\ exit[p] # "killed") =>
      said[p] = "appended"

\* What is on the disk for good, as a RevisionLog.
Log == INSTANCE RevisionLog WITH slice <- durable.body, log <- durable.chain

(* Runs that have the file to themselves implement the log, through I/O    *)
(* errors, kills and power losses: the slice is only the author's, the     *)
(* revisions grow by the version the slice has.                            *)
ImplementsLog ==
  Log!Init /\ [][~shared => [Log!Next]_<<durable.body, durable.chain>>]_vars

=============================================================================
