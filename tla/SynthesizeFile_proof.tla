------------------------ MODULE SynthesizeFile_proof ------------------------
(***************************************************************************)
(* Proofs about SynthesizeFile, for every set of processes, versions and   *)
(* bounds: the path never names a torn file, an acknowledged revision is   *)
(* durable, and no version is recorded twice in a row.                     *)
(*                                                                         *)
(* The first invariant, WholeInv, adds to the types that a temporary file  *)
(* about to be renamed has its data on the disk.  StampInv orders the      *)
(* stamps of the writes: what is durable is never newer than what the path *)
(* names, and a run past the directory sync wrote nothing newer than what  *)
(* is durable.  RepeatInv carries NeverTwiceInARow through the copies of   *)
(* the text a run holds: what it read was not on record, so what it writes *)
(* repeats nothing.  AloneInv says, for a run that has the file to itself, *)
(* that the path still names the text the run read until it is replaced.   *)
(***************************************************************************)
EXTENDS SynthesizeFile, TLAPS

WholeInv ==
  /\ TypeOK
  /\ file \in FileText /\ file.synced = TRUE
  /\ durable \in FileText /\ durable.synced = TRUE
  /\ \A p \in Proc : pc[p] = "write" => got[p] \in FileText
  /\ \A p \in Proc : pc[p] = "persist" => tmp[p] \in FileText /\ tmp[p].synced = TRUE

\* What the actions that end a run have in common.
Ends(p) ==
  /\ pc' = [pc EXCEPT ![p] = "done"]
  /\ exit' \in [Proc -> {"none", "killed", "clean", "parse", "semantic", "io"}]
  /\ \E w \in {"none", "appended", "no_op", "replay_check"} :
       /\ said' = [said EXCEPT ![p] = w]
       /\ w = "appended" => pc[p] = "reread"
  /\ tmp' \in {tmp, [tmp EXCEPT ![p] = NoFile]}
  /\ UNCHANGED <<file, durable, got, replaced, stamp, saves, losses>>

-----------------------------------------------------------------------------

LEMMA EndActions ==
  ASSUME TypeOK, NEW p \in Proc,
         \/ ReadFails(p) \/ Rejects(p) \/ NothingToAppend(p) \/ WriteFails(p)
         \/ SyncDirFails(p) \/ ReadBack(p) \/ ReadBackFails(p) \/ Kill(p)
  PROVE  Ends(p)
<1>1. CASE ReadFails(p)
  BY <1>1 DEF ReadFails, Ends, Exit, TypeOK
<1>2. CASE Rejects(p)
  BY <1>2 DEF Rejects, Ends, Exit, TypeOK
<1>3. CASE NothingToAppend(p)
  BY <1>3 DEF NothingToAppend, Ends, Exit, TypeOK
<1>4. CASE WriteFails(p)
  BY <1>4 DEF WriteFails, Ends, Exit, TypeOK
<1>5. CASE SyncDirFails(p)
  BY <1>5 DEF SyncDirFails, Ends, Exit, TypeOK
<1>6. CASE ReadBack(p)
  <2>1. WalkCode(file) \in {"parse", "semantic", "clean"}
    BY DEF WalkCode
  <2> QED
    BY <1>6, <2>1 DEF ReadBack, Ends, Exit, TypeOK
<1>7. CASE ReadBackFails(p)
  BY <1>7 DEF ReadBackFails, Ends, Exit, TypeOK
<1>8. CASE Kill(p)
  BY <1>8 DEF Kill, Ends, Exit, TypeOK
<1> QED
  BY <1>1, <1>2, <1>3, <1>4, <1>5, <1>6, <1>7, <1>8

LEMMA RewrittenIsText ==
  ASSUME NEW t \in FileText
  PROVE  /\ Rewritten(t) \in FileText
         /\ Rewritten(t).synced = TRUE
         /\ Rewritten(t).chain = Append(t.chain, t.body)
         /\ Rewritten(t).body = t.body
BY DEF Rewritten, FileText

LEMMA RestampIsText ==
  ASSUME NEW t \in FileText, NEW n \in Nat
  PROVE  /\ [t EXCEPT !.stamp = n] \in FileText
         /\ [t EXCEPT !.stamp = n].synced = t.synced
         /\ [t EXCEPT !.stamp = n].stamp = n
         /\ [t EXCEPT !.stamp = n].chain = t.chain
         /\ [t EXCEPT !.stamp = n].body = t.body
<1>1. PICK b \in Body, c \in Seq(Body), m \in Nat, y \in BOOLEAN :
        t = [body |-> b, chain |-> c, stamp |-> m, synced |-> y]
  BY DEF FileText
<1>2. [t EXCEPT !.stamp = n] = [body |-> b, chain |-> c, stamp |-> n, synced |-> y]
  BY <1>1
<1>3. [body |-> b, chain |-> c, stamp |-> n, synced |-> y] \in FileText
  BY DEF FileText
<1> QED
  BY <1>1, <1>2, <1>3

\* The next-state relation, with the actions that end a run as one.
LEMMA NextCases ==
  ASSUME TypeOK, [Next]_vars
  PROVE  /\ shared' = shared
         /\ \/ \E p \in Proc : Ends(p) \/ Synthesize(p) \/ WriteTemp(p) \/ Persist(p)
                                 \/ SyncDir(p) \/ Again(p)
            \/ Save \/ PowerLoss \/ UNCHANGED vars
BY EndActions DEF Next, Step, vars

-----------------------------------------------------------------------------
(* Whole files. *)

LEMMA WholeInit == Init => WholeInv
<1> SUFFICES ASSUME Init PROVE WholeInv
  OBVIOUS
<1>1. file \in FileText /\ file.synced = TRUE
  BY DEF Init, FileText
<1> QED
  BY <1>1 DEF Init, WholeInv, TypeOK

LEMMA WholeNext ==
  ASSUME WholeInv, [Next]_vars
  PROVE  WholeInv'
<1>0. shared' \in BOOLEAN
  BY NextCases DEF WholeInv, TypeOK
<1> USE <1>0 DEF WholeInv
<1>1. ASSUME NEW p \in Proc, Ends(p) PROVE WholeInv'
  BY <1>1 DEF Ends, TypeOK
<1>2. ASSUME NEW p \in Proc, Synthesize(p) PROVE WholeInv'
  BY <1>2 DEF Synthesize, TypeOK
<1>3. ASSUME NEW p \in Proc, WriteTemp(p) PROVE WholeInv'
  <2>1. got[p] \in FileText
    BY <1>3 DEF WriteTemp
  <2>2. Rewritten(got[p]) \in FileText /\ Rewritten(got[p]).synced = TRUE
    BY <2>1, RewrittenIsText
  <2> QED
    BY <1>3, <2>2 DEF WriteTemp, TypeOK
<1>4. ASSUME NEW p \in Proc, Persist(p) PROVE WholeInv'
  <2>1. tmp[p] \in FileText /\ tmp[p].synced = TRUE
    BY <1>4 DEF Persist
  <2>2. file' \in FileText /\ file'.synced = TRUE
    BY <1>4, <2>1, RestampIsText, stamp + 1 \in Nat DEF Persist, TypeOK
  <2> QED
    BY <1>4, <2>2 DEF Persist, TypeOK
<1>5. ASSUME NEW p \in Proc, SyncDir(p) PROVE WholeInv'
  BY <1>5 DEF SyncDir, TypeOK
<1>6. ASSUME NEW p \in Proc, Again(p) PROVE WholeInv'
  BY <1>6 DEF Again, TypeOK
<1>7. CASE Save
  <2>1. file' \in FileText /\ file'.synced = TRUE
    BY <1>7 DEF Save, FileText, TypeOK
  <2> QED
    BY <1>7, <2>1 DEF Save, runVars, TypeOK
<1>8. CASE PowerLoss
  <2>1. file' \in {file, durable}
    BY <1>8, NoFileAssumption DEF PowerLoss
  <2>2. file' \in FileText /\ file'.synced = TRUE
    BY <2>1
  <2>3. \A p \in Proc : pc'[p] \in {"idle", "done"}
    BY <1>8 DEF PowerLoss, Running, TypeOK
  <2>4. pc' \in [Proc -> {"idle", "write", "persist", "syncdir", "reread", "done"}]
    BY <1>8 DEF PowerLoss, TypeOK
  <2>5. exit' \in [Proc -> {"none", "killed", "clean", "parse", "semantic", "io"}]
    BY <1>8 DEF PowerLoss, TypeOK
  <2> QED
    BY <1>8, <2>2, <2>3, <2>4, <2>5 DEF PowerLoss, TypeOK
<1>9. CASE UNCHANGED vars
  BY <1>9 DEF vars, TypeOK
<1> QED
  BY <1>1, <1>2, <1>3, <1>4, <1>5, <1>6, <1>7, <1>8, <1>9, NextCases

(* WholeInv holds throughout: what atomic_write is about to rename has been *)
(* synced by then.                                                         *)
THEOREM Whole == Spec => []WholeInv
<1>1. Init => WholeInv
  BY WholeInit
<1>2. WholeInv /\ [Next]_vars => WholeInv'
  BY WholeNext
<1> QED
  BY <1>1, <1>2, PTL DEF Spec

(* Every variable keeps its type: a run holds whole texts or none, and     *)
(* exits with a code of exit_for_diagnostics or the one for I/O errors,    *)
(* or is killed.                                                           *)
THEOREM TypeCorrect == Spec => []TypeOK
<1>1. WholeInv => TypeOK
  BY DEF WholeInv
<1> QED
  BY <1>1, Whole, PTL

(* The path always names a whole text: sync_all comes before persist in    *)
(* atomic_write, so no power loss, kill or error leaves a torn file.       *)
THEOREM PathNamesWholeFile == Spec => []FileIsWhole
<1>1. WholeInv => FileIsWhole
  BY NoFileAssumption DEF WholeInv, FileIsWhole
<1> QED
  BY <1>1, Whole, PTL

-----------------------------------------------------------------------------
(* Acknowledged revisions are durable. *)

StampInv ==
  /\ file.stamp <= stamp
  /\ durable.stamp <= file.stamp
  /\ \A p \in Proc :
       /\ pc[p] = "syncdir" => replaced[p] <= file.stamp
       /\ pc[p] = "reread" => replaced[p] <= durable.stamp
       /\ said[p] = "appended" => pc[p] = "done" /\ replaced[p] <= durable.stamp

LEMMA StampInit == Init => StampInv
BY DEF Init, StampInv

LEMMA StampNext ==
  ASSUME WholeInv, WholeInv', StampInv, [Next]_vars
  PROVE  StampInv'
<1>0. /\ file.stamp \in Nat /\ durable.stamp \in Nat /\ stamp \in Nat
      /\ file'.stamp \in Nat /\ durable'.stamp \in Nat /\ stamp' \in Nat
      /\ replaced \in [Proc -> Nat] /\ replaced' \in [Proc -> Nat]
      /\ pc \in [Proc -> {"idle", "write", "persist", "syncdir", "reread", "done"}]
      /\ said \in [Proc -> {"none", "appended", "no_op", "replay_check"}]
  BY DEF WholeInv, FileText, TypeOK
<1>1. ASSUME NEW p \in Proc, Ends(p) PROVE StampInv'
  BY <1>0, <1>1 DEF Ends, StampInv
<1>2. ASSUME NEW p \in Proc, Synthesize(p) PROVE StampInv'
  BY <1>0, <1>2 DEF Synthesize, Begin, StampInv
<1>3. ASSUME NEW p \in Proc, WriteTemp(p) PROVE StampInv'
  BY <1>0, <1>3 DEF WriteTemp, StampInv
<1>4. ASSUME NEW p \in Proc, Persist(p) PROVE StampInv'
  <2>1. tmp[p] \in FileText
    BY <1>4 DEF Persist, WholeInv
  <2>2. file'.stamp = stamp + 1 /\ stamp' = stamp + 1 /\ durable' = durable
    BY <1>0, <1>4, <2>1, RestampIsText DEF Persist
  <2>3. /\ pc' = [pc EXCEPT ![p] = "syncdir"] /\ pc[p] = "persist"
        /\ replaced' = [replaced EXCEPT ![p] = stamp + 1] /\ said' = said
    BY <1>4 DEF Persist
  <2>4. said[p] # "appended"
    BY <2>3 DEF StampInv
  <2>5. ASSUME NEW q \in Proc, q # p
        PROVE  pc'[q] = pc[q] /\ replaced'[q] = replaced[q]
    BY <1>0, <2>3, <2>5
  <2>6. pc'[p] = "syncdir" /\ replaced'[p] = stamp + 1
    BY <1>0, <2>3
  <2> QED
    BY <1>0, <2>2, <2>3, <2>4, <2>5, <2>6 DEF StampInv
<1>5. ASSUME NEW p \in Proc, SyncDir(p) PROVE StampInv'
  <2>1. /\ file' = file /\ durable' = file /\ stamp' = stamp
        /\ replaced' = replaced /\ said' = said
        /\ pc' = [pc EXCEPT ![p] = "reread"] /\ pc[p] = "syncdir"
    BY <1>5 DEF SyncDir
  <2>2. ASSUME NEW q \in Proc, pc'[q] = "reread" PROVE replaced[q] <= file.stamp
    BY <1>0, <2>1, <2>2 DEF StampInv
  <2>3. ASSUME NEW q \in Proc, said[q] = "appended"
        PROVE  pc'[q] = "done" /\ replaced[q] <= file.stamp
    BY <1>0, <2>1, <2>3 DEF StampInv
  <2> QED
    BY <1>0, <2>1, <2>2, <2>3 DEF StampInv
<1>6. ASSUME NEW p \in Proc, Again(p) PROVE StampInv'
  BY <1>0, <1>6 DEF Again, StampInv
<1>7. CASE Save
  <2>1. /\ file'.stamp = stamp + 1 /\ durable'.stamp = stamp + 1 /\ stamp' = stamp + 1
        /\ pc' = pc /\ replaced' = replaced /\ said' = said
    BY <1>7 DEF Save, runVars
  <2> QED
    BY <1>0, <2>1 DEF StampInv
<1>8. CASE PowerLoss
  <2>1. file' \in {file, durable} /\ durable' = file' /\ stamp' = stamp
    BY <1>8, NoFileAssumption DEF PowerLoss, WholeInv
  <2>2. durable.stamp <= durable'.stamp /\ file'.stamp <= stamp
    BY <1>0, <2>1 DEF StampInv
  <2>3. \A q \in Proc : /\ pc'[q] \notin {"syncdir", "reread"}
                        /\ pc[q] = "done" => pc'[q] = "done"
                        /\ replaced'[q] = replaced[q] /\ said'[q] = said[q]
    BY <1>0, <1>8 DEF PowerLoss, Running
  <2> QED
    BY <1>0, <2>1, <2>2, <2>3 DEF StampInv
<1>9. CASE UNCHANGED vars
  BY <1>9 DEF vars, StampInv
<1> QED
  BY <1>1, <1>2, <1>3, <1>4, <1>5, <1>6, <1>7, <1>8, <1>9, NextCases DEF WholeInv

(* When a run has said that it appended, what a power loss can bring back  *)
(* is at least as new as what the run wrote: the directory sync comes      *)
(* before the exit.                                                        *)
THEOREM AcknowledgedRevisionsLast == Spec => []AcknowledgedIsDurable
<1>1. Init => StampInv
  BY StampInit
<1>2. WholeInv /\ WholeInv' /\ StampInv /\ [Next]_vars => StampInv'
  BY StampNext
<1>3. WholeInv /\ StampInv => AcknowledgedIsDurable
  <2> SUFFICES ASSUME WholeInv, StampInv, NEW p \in Proc, pc[p] = "done", said[p] = "appended"
               PROVE  durable # Torn /\ durable.stamp >= replaced[p]
    BY DEF AcknowledgedIsDurable
  <2>1. durable \in FileText /\ durable.stamp \in Nat /\ replaced[p] \in Nat
    BY DEF WholeInv, TypeOK, FileText
  <2> QED
    BY <2>1, NoFileAssumption DEF StampInv
<1> QED
  BY <1>1, <1>2, <1>3, Whole, PTL DEF Spec

-----------------------------------------------------------------------------
(* No version twice in a row. *)

NoRepeat(c) == \A i \in 1..(Len(c) - 1) : c[i] # c[i + 1]

RepeatInv ==
  /\ NoRepeat(file.chain)
  /\ NoRepeat(durable.chain)
  /\ \A p \in Proc : pc[p] = "write" => NoRepeat(got[p].chain) /\ ~Recorded(got[p])
  /\ \A p \in Proc : pc[p] = "persist" => NoRepeat(tmp[p].chain)

LEMMA AppendNoRepeat ==
  ASSUME NEW t \in FileText, NoRepeat(t.chain), ~Recorded(t)
  PROVE  NoRepeat(Append(t.chain, t.body))
<1>1. t.chain \in Seq(Body) /\ t.body \in Body
  BY DEF FileText
<1>2. PICK n \in Nat : n = Len(t.chain)
  BY <1>1
<1>3. Len(Append(t.chain, t.body)) = n + 1
  BY <1>1, <1>2
<1>4. ASSUME NEW i \in 1..n
      PROVE  Append(t.chain, t.body)[i] # Append(t.chain, t.body)[i + 1]
  <2>1. Append(t.chain, t.body)[i] = t.chain[i]
    BY <1>1, <1>2
  <2>2. CASE i = n
    BY <1>1, <1>2, <2>1, <2>2 DEF Recorded
  <2>3. CASE i # n
    <3>1. i \in 1..(n - 1) /\ i + 1 \in 1..n
      BY <2>3
    <3>2. Append(t.chain, t.body)[i + 1] = t.chain[i + 1]
      BY <1>1, <1>2, <3>1
    <3> QED
      BY <1>2, <2>1, <3>1, <3>2 DEF NoRepeat
  <2> QED
    BY <2>2, <2>3
<1> QED
  BY <1>3, <1>4 DEF NoRepeat

LEMMA RepeatInit == Init => RepeatInv
<1> SUFFICES ASSUME Init PROVE RepeatInv
  OBVIOUS
<1>1. file.chain = <<>> /\ durable.chain = <<>>
  BY DEF Init
<1>2. NoRepeat(<<>>)
  BY DEF NoRepeat
<1> QED
  BY <1>1, <1>2 DEF Init, RepeatInv

LEMMA RepeatNext ==
  ASSUME WholeInv, RepeatInv, [Next]_vars
  PROVE  RepeatInv'
<1>0. /\ pc \in [Proc -> {"idle", "write", "persist", "syncdir", "reread", "done"}]
      /\ got \in [Proc -> FileText \cup {NoFile}]
      /\ tmp \in [Proc -> FileText \cup {NoFile}]
      /\ stamp \in Nat
  BY DEF WholeInv, TypeOK
<1>1. ASSUME NEW p \in Proc, Ends(p) PROVE RepeatInv'
  BY <1>0, <1>1 DEF Ends, RepeatInv, Recorded
<1>2. ASSUME NEW p \in Proc, Synthesize(p) PROVE RepeatInv'
  BY <1>0, <1>2 DEF Synthesize, RepeatInv, Recorded
<1>3. ASSUME NEW p \in Proc, WriteTemp(p) PROVE RepeatInv'
  <2>1. got[p] \in FileText /\ NoRepeat(got[p].chain) /\ ~Recorded(got[p])
    BY <1>3 DEF WriteTemp, WholeInv, RepeatInv
  <2>2. NoRepeat(Rewritten(got[p]).chain)
    BY <2>1, AppendNoRepeat, RewrittenIsText
  <2>3. tmp' = [tmp EXCEPT ![p] = Rewritten(got[p])] /\ pc' = [pc EXCEPT ![p] = "persist"]
        /\ file' = file /\ durable' = durable /\ got' = got
    BY <1>3 DEF WriteTemp
  <2> HIDE DEF NoRepeat
  <2> QED
    BY <1>0, <2>2, <2>3 DEF RepeatInv, Recorded
<1>4. ASSUME NEW p \in Proc, Persist(p) PROVE RepeatInv'
  <2>1. tmp[p] \in FileText /\ NoRepeat(tmp[p].chain)
    BY <1>4 DEF Persist, WholeInv, RepeatInv
  <2>2. file'.chain = tmp[p].chain
    BY <1>0, <1>4, <2>1, RestampIsText DEF Persist
  <2> QED
    BY <1>0, <1>4, <2>1, <2>2 DEF Persist, RepeatInv, Recorded
<1>5. ASSUME NEW p \in Proc, SyncDir(p) PROVE RepeatInv'
  BY <1>0, <1>5 DEF SyncDir, RepeatInv, Recorded
<1>6. ASSUME NEW p \in Proc, Again(p) PROVE RepeatInv'
  BY <1>0, <1>6 DEF Again, RepeatInv, Recorded
<1>7. CASE Save
  <2>1. file'.chain = file.chain /\ durable'.chain = file.chain
        /\ pc' = pc /\ got' = got /\ tmp' = tmp
    BY <1>7 DEF Save, runVars
  <2> QED
    BY <1>0, <2>1 DEF RepeatInv, Recorded
<1>8. CASE PowerLoss
  <2>1. file' \in {file, durable} /\ durable' = file'
    BY <1>8, NoFileAssumption DEF PowerLoss, WholeInv
  <2>2. \A q \in Proc : pc'[q] \notin {"write", "persist"}
    BY <1>0, <1>8 DEF PowerLoss, Running
  <2> QED
    BY <2>1, <2>2 DEF RepeatInv
<1>9. CASE UNCHANGED vars
  BY <1>9 DEF vars, RepeatInv, Recorded
<1> QED
  BY <1>1, <1>2, <1>3, <1>4, <1>5, <1>6, <1>7, <1>8, <1>9, NextCases DEF WholeInv

(* No version is recorded twice in a row, however many runs read the same  *)
(* text and whichever of them is repeated after a failure.                 *)
THEOREM VersionsRecordedOnce == Spec => []NeverTwiceInARow
<1>1. Init => RepeatInv
  BY RepeatInit
<1>2. WholeInv /\ RepeatInv /\ [Next]_vars => RepeatInv'
  BY RepeatNext
<1>3. RepeatInv => NeverTwiceInARow
  BY DEF RepeatInv, NoRepeat, NeverTwiceInARow
<1> QED
  BY <1>1, <1>2, <1>3, Whole, PTL DEF Spec

-----------------------------------------------------------------------------
(* The file as a RevisionLog, when runs have it to themselves.             *)

\* What the path names is what is durable, or one record ahead of it.
Ahead ==
  /\ file.body = durable.body
  /\ \/ file.chain = durable.chain
     \/ ~Recorded(durable) /\ file.chain = Append(durable.chain, durable.body)

AloneInv ==
  /\ Ahead
  /\ \A p, q \in Proc : Running(p) /\ Running(q) => p = q
  /\ \A p \in Proc : pc[p] = "write" => got[p] = file /\ ~Recorded(file)
  /\ \A p \in Proc :
       pc[p] = "persist" =>
         /\ ~Recorded(file)
         /\ tmp[p].body = file.body
         /\ tmp[p].chain = Append(file.chain, file.body)

LEMMA RecordedAfterAppend ==
  ASSUME NEW t \in FileText, NEW u \in FileText,
         u.body = t.body, u.chain = Append(t.chain, t.body)
  PROVE  Recorded(u)
<1>1. t.chain \in Seq(Body) /\ t.body \in Body
  BY DEF FileText
<1>2. PICK n \in Nat : n = Len(t.chain)
  BY <1>1
<1>3. Len(u.chain) = n + 1 /\ u.chain[n + 1] = u.body /\ u.chain # <<>>
  BY <1>1, <1>2
<1> QED
  BY <1>3 DEF Recorded

\* A file that is not on record is as durable.
LEMMA UnrecordedIsDurable ==
  ASSUME WholeInv, Ahead, ~Recorded(file)
  PROVE  file.chain = durable.chain /\ ~Recorded(durable)
<1>1. file.chain = durable.chain
  BY RecordedAfterAppend DEF WholeInv, Ahead
<1> QED
  BY <1>1 DEF Ahead, Recorded

LEMMA AloneInit == Init => AloneInv
BY DEF Init, AloneInv, Ahead, Running

LEMMA AloneNext ==
  ASSUME ~shared, WholeInv, AloneInv, [Next]_vars
  PROVE  AloneInv'
<1>0. /\ pc \in [Proc -> {"idle", "write", "persist", "syncdir", "reread", "done"}]
      /\ got \in [Proc -> FileText \cup {NoFile}]
      /\ tmp \in [Proc -> FileText \cup {NoFile}]
      /\ stamp \in Nat /\ file \in FileText /\ durable \in FileText
  BY DEF WholeInv, TypeOK
<1>1. ASSUME NEW p \in Proc, Ends(p) PROVE AloneInv'
  BY <1>0, <1>1 DEF Ends, AloneInv, Ahead, Recorded, Running
<1>2. ASSUME NEW p \in Proc, Synthesize(p) PROVE AloneInv'
  <2>1. \A q \in Proc : ~Running(q)
    BY <1>2 DEF Synthesize, Begin, Quiet
  <2> QED
    BY <1>0, <1>2, <2>1 DEF Synthesize, AloneInv, Ahead, Recorded, Running
<1>3. ASSUME NEW p \in Proc, WriteTemp(p) PROVE AloneInv'
  <2>1. got[p] = file /\ ~Recorded(file) /\ Running(p)
    BY <1>3 DEF WriteTemp, AloneInv, Running
  <2>2. Rewritten(file).body = file.body /\ Rewritten(file).chain = Append(file.chain, file.body)
    BY <1>0, RewrittenIsText
  <2>3. tmp' = [tmp EXCEPT ![p] = Rewritten(file)] /\ pc' = [pc EXCEPT ![p] = "persist"]
        /\ file' = file /\ durable' = durable /\ got' = got
    BY <1>3, <2>1 DEF WriteTemp
  <2> QED
    BY <1>0, <2>1, <2>2, <2>3 DEF AloneInv, Ahead, Recorded, Running
<1>4. ASSUME NEW p \in Proc, Persist(p) PROVE AloneInv'
  <2>1. /\ tmp[p] \in FileText /\ Running(p) /\ ~Recorded(file)
        /\ tmp[p].body = file.body /\ tmp[p].chain = Append(file.chain, file.body)
    BY <1>4 DEF Persist, WholeInv, AloneInv, Running
  <2>2. file'.body = file.body /\ file'.chain = Append(file.chain, file.body)
    BY <1>0, <1>4, <2>1, RestampIsText DEF Persist
  <2>3. file.chain = durable.chain /\ ~Recorded(durable) /\ file.body = durable.body
    BY <2>1, UnrecordedIsDurable DEF AloneInv, Ahead
  <2>4. Ahead'
    BY <1>4, <2>2, <2>3 DEF Persist, Ahead, Recorded
  <2>5. pc' = [pc EXCEPT ![p] = "syncdir"]
    BY <1>4 DEF Persist
  <2>6. \A q \in Proc : pc'[q] \notin {"write", "persist"}
    BY <1>0, <2>1, <2>5 DEF AloneInv, Running
  <2> QED
    BY <1>0, <2>1, <2>4, <2>5, <2>6 DEF AloneInv, Running
<1>5. ASSUME NEW p \in Proc, SyncDir(p) PROVE AloneInv'
  BY <1>0, <1>5 DEF SyncDir, AloneInv, Ahead, Recorded, Running
<1>6. ASSUME NEW p \in Proc, Again(p) PROVE AloneInv'
  <2>1. pc' = [pc EXCEPT ![p] = "idle"] /\ pc[p] = "done"
        /\ got' = [got EXCEPT ![p] = NoFile] /\ tmp' = tmp
        /\ file' = file /\ durable' = durable
    BY <1>6 DEF Again
  <2> QED
    BY <1>0, <2>1 DEF AloneInv, Ahead, Recorded, Running
<1>7. CASE Save
  <2>1. /\ \A q \in Proc : ~Running(q)
        /\ durable' = file' /\ pc' = pc
    BY <1>7 DEF Save, Quiet, runVars
  <2> QED
    BY <2>1 DEF AloneInv, Ahead, Running
<1>8. CASE PowerLoss
  <2>1. durable' = file'
    BY <1>8 DEF PowerLoss
  <2>2. \A q \in Proc : pc'[q] \in {"idle", "done"}
    BY <1>0, <1>8 DEF PowerLoss, Running
  <2> QED
    BY <2>1, <2>2 DEF AloneInv, Ahead, Running
<1>9. CASE UNCHANGED vars
  BY <1>9 DEF vars, AloneInv, Ahead, Recorded, Running
<1> QED
  BY <1>1, <1>2, <1>3, <1>4, <1>5, <1>6, <1>7, <1>8, <1>9, NextCases DEF WholeInv

LEMMA LogStep ==
  ASSUME ~shared, WholeInv, WholeInv', AloneInv, [Next]_vars
  PROVE  [Log!Next]_<<durable.body, durable.chain>>
<1>0. durable.body \in Body /\ durable'.body \in Body
  BY DEF WholeInv, FileText
<1>1. CASE durable' = durable
  BY <1>1
\* What is durable comes to be what the path names.
<1>2. CASE durable' = file
  <2>1. CASE file.chain = durable.chain
    BY <1>2, <2>1 DEF AloneInv, Ahead
  <2>2. CASE ~Recorded(durable) /\ file.chain = Append(durable.chain, durable.body)
    BY <1>0, <1>2, <2>2 DEF Log!Next, Log!Record, Recorded
  <2> QED
    BY <2>1, <2>2 DEF AloneInv, Ahead
<1>3. CASE Save
  <2>1. durable'.chain = file.chain
    BY <1>3 DEF Save
  <2>2. CASE file.chain = durable.chain
    BY <1>0, <2>1, <2>2 DEF Log!Next, Log!Author
  <2>3. CASE ~Recorded(durable) /\ file.chain = Append(durable.chain, durable.body)
    BY <1>0, <2>1, <2>3 DEF Log!Next, Log!Record, Recorded
  <2> QED
    BY <2>2, <2>3 DEF AloneInv, Ahead
<1>4. CASE PowerLoss
  <2>1. durable' \in {file, durable}
    BY <1>4, NoFileAssumption DEF PowerLoss, WholeInv
  <2> QED
    BY <1>1, <1>2, <2>1
<1>5. CASE UNCHANGED vars
  BY <1>1, <1>5 DEF vars
<1>6. ASSUME NEW p \in Proc,
             Ends(p) \/ Synthesize(p) \/ WriteTemp(p) \/ Persist(p) \/ SyncDir(p) \/ Again(p)
      PROVE  durable' \in {file, durable}
  BY <1>6 DEF Ends, Synthesize, WriteTemp, Persist, SyncDir, Again
<1> QED
  BY <1>1, <1>2, <1>3, <1>4, <1>5, <1>6, NextCases DEF WholeInv

(* Runs that have the file to themselves implement the log, through failed *)
(* writes, kills and power losses: what is on the disk changes as the      *)
(* author saves, and its revisions only grow, by the slice's version.      *)
THEOREM RunsImplementLog == Spec => ImplementsLog
<1>1. Init => AloneInv
  BY AloneInit
<1>2. WholeInv /\ (~shared => AloneInv) /\ [Next]_vars => (~shared => AloneInv)'
  BY AloneNext, NextCases DEF WholeInv
<1>3. Init => Log!Init
  BY DEF Init, Log!Init
<1>4. WholeInv /\ WholeInv' /\ (~shared => AloneInv) /\ [Next]_vars
        => [~shared => [Log!Next]_<<durable.body, durable.chain>>]_vars
  BY LogStep
<1> QED
  BY <1>1, <1>2, <1>3, <1>4, Whole, PTL DEF Spec, ImplementsLog
=============================================================================
