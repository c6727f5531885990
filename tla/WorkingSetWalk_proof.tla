------------------------ MODULE WorkingSetWalk_proof ------------------------
(***************************************************************************)
(* What a walk of a file and all it imports does: first the load           *)
(* (ImportLoader), for every set of files, import graph and number of      *)
(* saves; then what the walk says (WorkingSetWalk), against the disk, for  *)
(* every content of the files.                                             *)
(***************************************************************************)
EXTENDS WorkingSetWalk, SliceAnalysis_proof

(* How the control variables fit together: while the loader walks there is *)
(* an open call, and a canonicalised target means a declaration at hand.   *)
Shape ==
  /\ pc = "start" => files = <<>> /\ visited = {}
  /\ pc = "walking" => stack # <<>>
  /\ pc # "walking" => stack = <<>> /\ target = NoKey
  /\ pc = "done" => files # <<>>
  /\ target # NoKey => HasNext
  /\ \A i \in Index : Len(files[i].uses) <= Len(files[i].imports)

TypeInv == TypeOK /\ Shape

-----------------------------------------------------------------------------
(* Two facts about sequences: replacing an element, and adding one.        *)

LEMMA ReplaceElement ==
  ASSUME NEW T, NEW s \in Seq(T), NEW i \in 1..Len(s), NEW e \in T
  PROVE  /\ [s EXCEPT ![i] = e] \in Seq(T)
         /\ Len([s EXCEPT ![i] = e]) = Len(s)
         /\ [s EXCEPT ![i] = e][i] = e
         /\ \A j \in 1..Len(s) : j # i => [s EXCEPT ![i] = e][j] = s[j]
OBVIOUS

LEMMA AddElement ==
  ASSUME NEW T, NEW s \in Seq(T), NEW e \in T
  PROVE  /\ Append(s, e) \in Seq(T)
         /\ Len(Append(s, e)) = Len(s) + 1
         /\ Append(s, e)[Len(s) + 1] = e
         /\ \A j \in 1..Len(s) : Append(s, e)[j] = s[j]
BY AppendProperties

LEMMA SubSeqTo ==
  ASSUME NEW T, NEW s \in Seq(T), s # <<>>, NEW n \in Nat, n = Len(s) - 1
  PROVE  /\ SubSeq(s, 1, n) \in Seq(T)
         /\ Len(SubSeq(s, 1, n)) = n
         /\ \A i \in 1..n : SubSeq(s, 1, n)[i] = s[i]
<1>1. \A i \in 1..n : s[i] \in T
  OBVIOUS
<1> QED
  BY <1>1, SubSeqProperties

LEMMA DropLast ==
  ASSUME NEW T, NEW s \in Seq(T), s # <<>>
  PROVE  /\ SubSeq(s, 1, Len(s) - 1) \in Seq(T)
         /\ Len(s) \in Nat \ {0} /\ Len(SubSeq(s, 1, Len(s) - 1)) = Len(s) - 1
         /\ \A i \in 1..(Len(s) - 1) : SubSeq(s, 1, Len(s) - 1)[i] = s[i]
         /\ Len(s) = 1 => SubSeq(s, 1, Len(s) - 1) = <<>>
         /\ Len(s) # 1 => SubSeq(s, 1, Len(s) - 1) # <<>>
<1>1. Len(s) \in Nat \ {0} /\ Len(s) - 1 \in Nat
  OBVIOUS
<1>2. \A n \in Nat : n = Len(s) - 1 =>
        /\ SubSeq(s, 1, n) \in Seq(T)
        /\ Len(SubSeq(s, 1, n)) = n
        /\ \A i \in 1..n : SubSeq(s, 1, n)[i] = s[i]
  BY SubSeqTo
<1>3. \A r \in Seq(T) : Len(r) = 0 <=> r = <<>>
  OBVIOUS
<1>4. ASSUME NEW n \in Nat, n = Len(s) - 1
      PROVE  (Len(s) = 1 => SubSeq(s, 1, n) = <<>>) /\ (Len(s) # 1 => SubSeq(s, 1, n) # <<>>)
  <2>1. Len(SubSeq(s, 1, n)) = n /\ SubSeq(s, 1, n) \in Seq(T) /\ (n = 0 <=> Len(s) = 1)
    BY <1>1, <1>2, <1>4
  <2> QED
    BY <1>3, <2>1
<1> QED
  BY <1>1, <1>2, <1>4

-----------------------------------------------------------------------------
(* What the two ways of ending a declaration do to the importer's record.  *)

(* While a call is open, the importer is a loaded file.                    *)
LEMMA ImporterIndex ==
  ASSUME TypeOK, stack # <<>>
  PROVE  importer \in Index /\ files[importer] \in LoadedFile
         /\ Len(stack) \in Nat \ {0} /\ Len(files) \in Nat
BY DEF TypeOK, importer, Index

(* The declaration at hand is one of the importer's.                       *)
LEMMA DeclarationType ==
  ASSUME TypeOK, stack # <<>>, HasNext
  PROVE  /\ declaration \in Import
         /\ Len(files[importer].uses) \in Nat
         /\ Len(files[importer].uses) + 1 \in 1..Len(files[importer].imports)
<1> DEFINE f == files[importer]
<1>1. f \in LoadedFile
  BY ImporterIndex
<1>2. f.imports \in Seq(Import) /\ Len(f.uses) \in Nat /\ Len(f.imports) \in Nat
  BY <1>1 DEF LoadedFile
<1>3. Len(f.uses) < Len(f.imports)
  BY DEF HasNext
<1> QED
  BY <1>2, <1>3 DEF declaration

(* Ending a declaration appends its outcome and keeps the rest.            *)
LEMMA NoteFacts ==
  ASSUME TypeOK, stack # <<>>, target \in Key, NEW as \in Outcome
  PROVE  /\ Note(as) \in LoadedFile
         /\ Note(as).key = files[importer].key
         /\ Note(as).imports = files[importer].imports
         /\ Note(as).resolved = files[importer].resolved
         /\ Note(as).rootError = files[importer].rootError
         /\ Note(as).uses = Append(files[importer].uses, [as |-> as, key |-> target])
<1> DEFINE f == files[importer]
<1>1. f \in LoadedFile
  BY ImporterIndex
<1>2. [as |-> as, key |-> target] \in [as : Outcome, key : Key]
  OBVIOUS
<1>3. f.uses \in Seq([as : Outcome, key : Key])
  BY <1>1 DEF LoadedFile
<1>4. Append(f.uses, [as |-> as, key |-> target]) \in Seq([as : Outcome, key : Key])
  BY <1>2, <1>3, AppendProperties
<1> QED
  BY <1>1, <1>4 DEF Note, LoadedFile

(* Following a declaration also records its alias.                         *)
LEMMA ResolveFacts ==
  ASSUME TypeOK, stack # <<>>, HasNext, target \in Key, NEW as \in Outcome
  PROVE  /\ Resolve(as) \in LoadedFile
         /\ Resolve(as).key = files[importer].key
         /\ Resolve(as).imports = files[importer].imports
         /\ Resolve(as).resolved =
              [files[importer].resolved EXCEPT ![declaration.alias] = target]
         /\ Resolve(as).rootError = files[importer].rootError
         /\ Resolve(as).uses = Append(files[importer].uses, [as |-> as, key |-> target])
<1> DEFINE n == Note(as)
<1>1. n \in LoadedFile /\ n.key = files[importer].key
      /\ n.imports = files[importer].imports
      /\ n.resolved = files[importer].resolved
      /\ n.rootError = files[importer].rootError
      /\ n.uses = Append(files[importer].uses, [as |-> as, key |-> target])
  BY NoteFacts
<1>2. declaration.alias \in Alias
  BY DeclarationType DEF Import
<1>3. Resolve(as) = [n EXCEPT !.resolved[declaration.alias] = target]
  BY DEF Resolve
<1> HIDE DEF n
<1> QED
  BY <1>1, <1>2, <1>3 DEF LoadedFile

(* A file starts with no alias resolved and nothing reported.              *)
LEMMA NewFileType ==
  ASSUME NEW k \in Key, NEW imports \in Seq(Import), NEW err \in BOOLEAN
  PROVE  NewFile(k, imports, err) \in LoadedFile
BY DEF NewFile, LoadedFile

(* What a step that reports the declaration leaves in the working set.     *)
LEMMA ReportStep ==
  ASSUME TypeInv, target \in Key, NEW as \in Outcome,
         files' = [files EXCEPT ![importer] = Note(as)]
  PROVE  /\ files' \in Seq(LoadedFile) /\ Len(files') = Len(files)
         /\ importer \in Index /\ Len(files) \in Nat
         /\ \A i \in Index : /\ files'[i].key = files[i].key
                             /\ files'[i].imports = files[i].imports
                             /\ files'[i].resolved = files[i].resolved
                             /\ files'[i].rootError = files[i].rootError
         /\ \A i \in Index \ {importer} : files'[i] = files[i]
         /\ files'[importer].uses =
              Append(files[importer].uses, [as |-> as, key |-> target])
<1>1. stack # <<>> /\ target # NoKey
  BY LoaderAssumption DEF TypeInv, Shape
<1>2. importer \in Index /\ Len(files) \in Nat /\ files \in Seq(LoadedFile)
  BY <1>1, ImporterIndex DEF TypeInv, TypeOK
<1> DEFINE n == Note(as)
<1>3. /\ n \in LoadedFile /\ n.key = files[importer].key
      /\ n.imports = files[importer].imports
      /\ n.resolved = files[importer].resolved
      /\ n.rootError = files[importer].rootError
      /\ n.uses = Append(files[importer].uses, [as |-> as, key |-> target])
  BY <1>1, NoteFacts DEF TypeInv
<1>4. files' = [files EXCEPT ![importer] = n]
  OBVIOUS
<1> HIDE DEF n
<1>5. /\ files' \in Seq(LoadedFile) /\ Len(files') = Len(files)
      /\ files'[importer] = n
      /\ \A j \in Index : j # importer => files'[j] = files[j]
  <2>1. importer \in 1..Len(files)
    BY <1>2 DEF Index
  <2> DEFINE h == [files EXCEPT ![importer] = n]
  <2>2. h \in Seq(LoadedFile) /\ Len(h) = Len(files) /\ h[importer] = n
        /\ \A j \in Index : j # importer => h[j] = files[j]
    BY <1>2, <1>3, <2>1, ReplaceElement DEF Index
  <2> QED
    BY <1>4, <2>2
<1> QED
  BY <1>2, <1>3, <1>5

(* What a step that follows the declaration leaves in the working set, but *)
(* for the file it may load.                                               *)
LEMMA FollowStep ==
  ASSUME TypeInv, target \in Key, NEW as \in Outcome
  PROVE  LET g == [files EXCEPT ![importer] = Resolve(as)] IN
         /\ g \in Seq(LoadedFile) /\ Len(g) = Len(files)
         /\ importer \in Index /\ Len(files) \in Nat
         /\ \A i \in Index : /\ g[i].key = files[i].key
                             /\ g[i].imports = files[i].imports
                             /\ g[i].rootError = files[i].rootError
         /\ \A i \in Index \ {importer} : g[i] = files[i]
         /\ declaration.alias \in Alias
         /\ g[importer].resolved =
              [files[importer].resolved EXCEPT ![declaration.alias] = target]
         /\ g[importer].uses =
              Append(files[importer].uses, [as |-> as, key |-> target])
<1>1. stack # <<>> /\ target # NoKey /\ HasNext
  BY LoaderAssumption DEF TypeInv, Shape
<1>2. importer \in Index /\ Len(files) \in Nat /\ files \in Seq(LoadedFile)
  BY <1>1, ImporterIndex DEF TypeInv, TypeOK
<1> DEFINE n == Resolve(as)
           g == [files EXCEPT ![importer] = n]
<1>3. /\ n \in LoadedFile /\ n.key = files[importer].key
      /\ n.imports = files[importer].imports
      /\ n.resolved = [files[importer].resolved EXCEPT ![declaration.alias] = target]
      /\ n.rootError = files[importer].rootError
      /\ n.uses = Append(files[importer].uses, [as |-> as, key |-> target])
  BY <1>1, ResolveFacts DEF TypeInv
<1>4. declaration.alias \in Alias
  BY <1>1, DeclarationType DEF TypeInv, Import
<1>5. /\ g \in Seq(LoadedFile) /\ Len(g) = Len(files)
      /\ g[importer] = n
      /\ \A j \in Index : j # importer => g[j] = files[j]
  <2> HIDE DEF n
  <2> QED BY <1>2, <1>3, ReplaceElement DEF Index
<1> HIDE DEF g
<1>6. /\ g \in Seq(LoadedFile) /\ Len(g) = Len(files)
      /\ importer \in Index /\ Len(files) \in Nat
      /\ \A i \in Index : /\ g[i].key = files[i].key
                          /\ g[i].imports = files[i].imports
                          /\ g[i].rootError = files[i].rootError
      /\ \A i \in Index \ {importer} : g[i] = files[i]
      /\ declaration.alias \in Alias
      /\ g[importer].resolved =
           [files[importer].resolved EXCEPT ![declaration.alias] = target]
      /\ g[importer].uses =
           Append(files[importer].uses, [as |-> as, key |-> target])
  <2> HIDE DEF n
  <2> QED BY <1>2, <1>3, <1>4, <1>5
<1> QED
  BY <1>6 DEF g

(* What the disk holds of a readable file is a sequence of declarations.   *)
LEMMA DiskImports ==
  ASSUME NEW k \in Key, Readable(k)
  PROVE  disk[FileOf[k]] \in Seq(Import)
BY LoaderAssumption DEF Readable

(* What loading an import leaves: the importer's record and a new file.    *)
LEMMA ReadImportFacts ==
  ASSUME TypeInv, ReadImport
  PROVE  /\ target \in Key /\ pc = "walking" /\ HasNext
         /\ importer \in Index /\ Len(files) \in Nat
         /\ files' \in Seq(LoadedFile) /\ Len(files') = Len(files) + 1
         /\ \A i \in Index : /\ files'[i].key = files[i].key
                             /\ files'[i].imports = files[i].imports
                             /\ files'[i].rootError = files[i].rootError
         /\ \A i \in Index \ {importer} : files'[i] = files[i]
         /\ declaration.alias \in Alias
         /\ files'[importer].resolved =
              [files[importer].resolved EXCEPT ![declaration.alias] = target]
         /\ files'[importer].uses =
              Append(files[importer].uses, [as |-> "loaded", key |-> target])
         /\ files'[Len(files) + 1] = NewFile(target, disk[FileOf[target]], FALSE)
         /\ disk[FileOf[target]] \in Seq(Import)
<1>1. target \in Key /\ "loaded" \in Outcome
  BY DEF ReadImport, TypeInv, TypeOK, Outcome
<1> DEFINE g == [files EXCEPT ![importer] = Resolve("loaded")]
           n == NewFile(target, disk[FileOf[target]], FALSE)
<1>2. /\ g \in Seq(LoadedFile) /\ Len(g) = Len(files) /\ Len(files) \in Nat
      /\ importer \in Index
      /\ \A i \in Index : /\ g[i].key = files[i].key
                          /\ g[i].imports = files[i].imports
                          /\ g[i].rootError = files[i].rootError
      /\ \A i \in Index \ {importer} : g[i] = files[i]
      /\ declaration.alias \in Alias
      /\ g[importer].resolved =
           [files[importer].resolved EXCEPT ![declaration.alias] = target]
      /\ g[importer].uses =
            Append(files[importer].uses, [as |-> "loaded", key |-> target])
  BY <1>1, FollowStep
<1>3. n \in LoadedFile /\ disk[FileOf[target]] \in Seq(Import)
  BY <1>1, DiskImports, NewFileType DEF ReadImport
<1>4. files' = Append(g, n) /\ pc = "walking" /\ HasNext
  BY DEF ReadImport, TypeInv, Shape
<1> HIDE DEF g, n
<1>5. \A h \in Seq(LoadedFile) : \A m \in LoadedFile :
        /\ Append(h, m) \in Seq(LoadedFile) /\ Len(Append(h, m)) = Len(h) + 1
        /\ Append(h, m)[Len(h) + 1] = m
        /\ \A j \in 1..Len(h) : Append(h, m)[j] = h[j]
  BY AddElement
<1>6. /\ Append(g, n) \in Seq(LoadedFile) /\ Len(Append(g, n)) = Len(g) + 1
      /\ Append(g, n)[Len(g) + 1] = n
  BY <1>2, <1>3, <1>5
<1>7. \A j \in 1..Len(g) : Append(g, n)[j] = g[j]
  BY <1>2, <1>3, <1>5
<1>8. Index = 1..Len(g)
  BY <1>2 DEF Index
<1>9. /\ files' \in Seq(LoadedFile) /\ Len(files') = Len(files) + 1
      /\ files'[Len(files) + 1] = n
      /\ \A i \in Index : files'[i] = g[i]
  BY <1>2, <1>4, <1>6, <1>7, <1>8
<1> QED
  BY <1>1, <1>2, <1>3, <1>4, <1>9 DEF n

(* A declaration more is used up, and never more than there are.           *)
LEMMA UsesBounded ==
  ASSUME TypeInv, target # NoKey, NEW g, NEW use,
         g.imports = files[importer].imports,
         g.uses = Append(files[importer].uses, use)
  PROVE  Len(g.uses) <= Len(g.imports)
<1>1. stack # <<>> /\ HasNext
  BY DEF TypeInv, Shape
<1>2. files[importer] \in LoadedFile
  BY <1>1, ImporterIndex DEF TypeInv
<1>3. files[importer].uses \in Seq([as : Outcome, key : Key])
      /\ files[importer].imports \in Seq(Import)
  BY <1>2 DEF LoadedFile
<1>4. Len(g.uses) = Len(files[importer].uses) + 1
  BY <1>3
<1> QED
  BY <1>1, <1>3, <1>4 DEF HasNext

-----------------------------------------------------------------------------
(* Type correctness, with the shape of the control variables.              *)

LEMMA TypeInit == Init => TypeInv
<1> SUFFICES ASSUME Init PROVE TypeInv
  OBVIOUS
<1>1. \A T : <<>> \in Seq(T)
  BY EmptySeq
<1> QED
  BY <1>1, LoaderAssumption DEF Init, TypeInv, TypeOK, Shape, Index

LEMMA TypeStep == TypeInv /\ [Next]_vars => TypeInv'
<1> SUFFICES ASSUME TypeInv, [Next]_vars PROVE TypeInv'
  OBVIOUS
<1> USE LoaderAssumption
<1>1. CASE ReadRoot
  <2>1. NewFile(Root, disk[FileOf[Root]], FALSE) \in LoadedFile
    BY <1>1, DiskImports, NewFileType DEF ReadRoot
  <2> DEFINE n == NewFile(Root, disk[FileOf[Root]], FALSE)
  <2>2. files' = <<n>> /\ n \in LoadedFile /\ n.uses = <<>> /\ n.imports \in Seq(Import)
    BY <1>1, <2>1, DiskImports DEF ReadRoot, NewFile
  <2> HIDE DEF n
  <2>3. files' \in Seq(LoadedFile) /\ Len(files') = 1 /\ files'[1] = n
    BY <2>2
  <2>4. chain' \in Seq(Key) /\ stack' \in Seq(1..Len(files')) /\ stack' # <<>>
    BY <1>1, <2>3 DEF ReadRoot
  <2>5. TypeOK'
    BY <1>1, <2>3, <2>4 DEF ReadRoot, TypeInv, TypeOK
  <2>6. target' = NoKey
    BY <1>1 DEF ReadRoot, TypeInv, Shape
  <2>7. \A i \in Index' : Len(files'[i].uses) <= Len(files'[i].imports)
    BY <2>2, <2>3 DEF Index
  <2> QED
    BY <1>1, <2>4, <2>5, <2>6, <2>7 DEF ReadRoot, TypeInv, Shape
<1>2. CASE RootFails
  <2> DEFINE n == NewFile(Root, <<>>, TRUE)
  <2>1. <<>> \in Seq(Import)
    BY EmptySeq
  <2>2. files' = <<n>> /\ n \in LoadedFile /\ n.uses = <<>> /\ n.imports = <<>>
    BY <1>2, <2>1, NewFileType DEF RootFails, NewFile
  <2> HIDE DEF n
  <2>3. files' \in Seq(LoadedFile) /\ Len(files') = 1 /\ files'[1] = n /\ files' # <<>>
    BY <2>2
  <2>4. stack' = <<>> /\ target' = NoKey /\ stack' \in Seq(1..Len(files'))
    BY <1>2, <2>3, EmptySeq DEF RootFails, TypeInv, Shape
  <2>5. TypeOK'
    BY <1>2, <2>3, <2>4 DEF RootFails, TypeInv, TypeOK
  <2>6. \A i \in Index' : Len(files'[i].uses) <= Len(files'[i].imports)
    BY <2>2, <2>3 DEF Index
  <2> QED
    BY <1>2, <2>3, <2>4, <2>5, <2>6 DEF RootFails, TypeInv, Shape
<1>3. CASE CanonicalizeNext
  <2>1. stack # <<>> /\ HasNext
    BY <1>3 DEF CanonicalizeNext, TypeInv, Shape
  <2>2. declaration.path \in Key
    BY <2>1, DeclarationType DEF TypeInv, Import
  <2>3. target' \in Key
    BY <1>3, <2>2 DEF CanonicalizeNext, Canonicalize, Exists
  <2>4. TypeOK'
    BY <1>3, <2>3 DEF CanonicalizeNext, TypeInv, TypeOK
  <2>5. HasNext'
    BY <1>3, <2>1 DEF CanonicalizeNext, HasNext, importer
  <2> QED
    BY <1>3, <2>4, <2>5 DEF CanonicalizeNext, TypeInv, Shape, Index
<1>4. ASSUME NEW as \in Outcome, target # NoKey, target' = NoKey,
             files' = [files EXCEPT ![importer] = Note(as)],
             UNCHANGED <<disk, saves, pc, visited, chain, stack>>
      PROVE  TypeInv'
  <2>1. target \in Key
    BY <1>4 DEF TypeInv, TypeOK
  <2>2. /\ files' \in Seq(LoadedFile) /\ Len(files') = Len(files)
        /\ importer \in Index
        /\ \A i \in Index \ {importer} : files'[i] = files[i]
        /\ files'[importer].imports = files[importer].imports
        /\ files'[importer].uses =
              Append(files[importer].uses, [as |-> as, key |-> target])
    BY <1>4, <2>1, ReportStep
  <2>3. Len(files'[importer].uses) <= Len(files'[importer].imports)
    BY <1>4, <2>2, UsesBounded
  <2>4. \A i \in Index' : Len(files'[i].uses) <= Len(files'[i].imports)
    BY <2>2, <2>3 DEF TypeInv, Shape, Index
  <2>5. TypeOK'
    BY <1>4, <2>2 DEF TypeInv, TypeOK
  <2>6. files # <<>> => files' # <<>>
    BY <2>2 DEF Index, TypeInv, TypeOK
  <2> QED
    BY <1>4, <2>4, <2>5, <2>6 DEF TypeInv, Shape
<1>5. CASE ReportCycle
  BY <1>4, <1>5 DEF ReportCycle, Outcome
<1>6. CASE ImportFails
  BY <1>4, <1>6 DEF ImportFails, Outcome
<1>7. CASE ShareLoaded
  <2>1. target \in Key /\ "shared" \in Outcome
    BY <1>7 DEF ShareLoaded, TypeInv, TypeOK, Outcome
  <2>2. /\ files' \in Seq(LoadedFile) /\ Len(files') = Len(files)
        /\ importer \in Index
        /\ \A i \in Index \ {importer} : files'[i] = files[i]
        /\ files'[importer].imports = files[importer].imports
        /\ files'[importer].uses =
              Append(files[importer].uses, [as |-> "shared", key |-> target])
    BY <1>7, <2>1, FollowStep DEF ShareLoaded
  <2>3. Len(files'[importer].uses) <= Len(files'[importer].imports)
    BY <1>7, <2>2, UsesBounded DEF ShareLoaded
  <2>4. \A i \in Index' : Len(files'[i].uses) <= Len(files'[i].imports)
    BY <2>2, <2>3 DEF TypeInv, Shape, Index
  <2>5. TypeOK'
    BY <1>7, <2>2 DEF ShareLoaded, TypeInv, TypeOK
  <2>6. pc = "walking" /\ pc' = pc /\ target' = NoKey /\ stack' = stack
    BY <1>7 DEF ShareLoaded, TypeInv, Shape
  <2> QED
    BY <2>4, <2>5, <2>6 DEF TypeInv, Shape
<1>8. CASE ReadImport
  <2>1. /\ target \in Key /\ pc = "walking" /\ importer \in Index /\ Len(files) \in Nat
        /\ files' \in Seq(LoadedFile) /\ Len(files') = Len(files) + 1
        /\ files'[importer].imports = files[importer].imports
        /\ \A i \in Index \ {importer} : files'[i] = files[i]
        /\ files'[importer].uses =
              Append(files[importer].uses, [as |-> "loaded", key |-> target])
        /\ files'[Len(files) + 1].uses = <<>>
        /\ files'[Len(files) + 1].imports \in Seq(Import)
    BY <1>8, ReadImportFacts DEF NewFile
  <2>2. Len(files'[importer].uses) <= Len(files'[importer].imports)
    BY <1>8, <2>1, UsesBounded DEF ReadImport
  <2>3. \A i \in Index' : Len(files'[i].uses) <= Len(files'[i].imports)
    <3> SUFFICES ASSUME NEW i \in Index' PROVE Len(files'[i].uses) <= Len(files'[i].imports)
      OBVIOUS
    <3>1. CASE i = Len(files) + 1
      BY <2>1, <3>1
    <3>2. CASE i \in Index
      BY <2>1, <2>2, <3>2 DEF TypeInv, Shape
    <3> QED
      BY <2>1, <3>1, <3>2 DEF Index
  <2>4. stack' \in Seq(1..Len(files')) /\ stack' # <<>>
    <3>1. stack \in Seq(1..Len(files')) /\ Len(files) + 1 \in 1..Len(files')
      <4>1. stack \in Seq(1..Len(files)) /\ 1..Len(files) \subseteq 1..Len(files')
        BY <2>1 DEF TypeInv, TypeOK
      <4> QED
        BY <2>1, <4>1, SeqMonotonic
    <3> QED
      BY <1>8, <3>1 DEF ReadImport, NewIndex
  <2>5. chain' \in Seq(Key) /\ visited' \subseteq Key /\ target' = NoKey
    BY <1>8, <2>1, AddElement DEF ReadImport, TypeInv, TypeOK
  <2>6. TypeOK'
    BY <1>8, <2>1, <2>4, <2>5 DEF ReadImport, TypeInv, TypeOK
  <2> QED
    BY <1>8, <2>1, <2>3, <2>4, <2>5, <2>6 DEF ReadImport, TypeInv, Shape
<1>9. CASE Return
  <2>1. stack \in Seq(1..Len(files)) /\ stack # <<>> /\ chain \in Seq(Key)
    BY <1>9 DEF Return, TypeInv, TypeOK, Shape
  <2>2. stack' \in Seq(1..Len(files')) /\ (Len(stack) # 1 => stack' # <<>>)
        /\ (Len(stack) = 1 => stack' = <<>>)
    BY <1>9, <2>1, DropLast DEF Return
  <2>3. chain' \in Seq(Key)
    BY <1>9, <2>1 DEF Return, ShorterChain
  <2>4. TypeOK'
    BY <1>9, <2>2, <2>3 DEF Return, TypeInv, TypeOK
  <2>5. files # <<>>
    BY <2>1, ImporterIndex DEF TypeInv, TypeOK, Index
  <2> QED
    BY <1>9, <2>2, <2>4, <2>5 DEF Return, TypeInv, Shape, Index
<1>10. ASSUME NEW f \in File, Save(f) PROVE TypeInv'
  <2>1. disk' \in [File -> Sources \cup {Absent, Unreadable}]
    BY <1>10 DEF Save, TypeInv, TypeOK
  <2>2. saves' \in 0..MaxSaves
    BY <1>10 DEF Save, TypeInv, TypeOK
  <2> QED
    BY <1>10, <2>1, <2>2 DEF Save, loaderVars, TypeInv, TypeOK, Shape, Index, HasNext, importer
<1>11. CASE UNCHANGED vars
  BY <1>11 DEF vars, TypeInv, TypeOK, Shape, Index, HasNext, importer
<1> QED
  BY <1>1, <1>2, <1>3, <1>5, <1>6, <1>7, <1>8, <1>9, <1>10, <1>11 DEF Next, LoaderStep

(* Every variable keeps its type: in particular every open call belongs to *)
(* a loaded file, and the path being resolved is a path.                   *)
THEOREM TypeCorrect == Spec => []TypeOK
<1>1. TypeInv => TypeOK
  BY DEF TypeInv
<1> QED
  BY TypeInit, TypeStep, <1>1, PTL DEF Spec

-----------------------------------------------------------------------------
(* No path is loaded twice.  The step that loads a path has just seen that *)
(* it is not visited, and visited is the set of loaded paths while the     *)
(* walk goes on.                                                           *)

OnceInv ==
  /\ TypeInv
  /\ LoadedOnce
  /\ pc = "walking" => ~files[1].rootError

(* A step that adds no file and renames none keeps OnceInv.                *)
LEMMA OnceFrame ==
  ASSUME OnceInv, TypeInv', pc # "start",
         Len(files') = Len(files), visited' = visited,
         pc' = "walking" => pc = "walking", pc' # "start",
         \A i \in Index : files'[i].key = files[i].key
                          /\ files'[i].rootError = files[i].rootError
  PROVE  OnceInv'
<1>1. Index' = Index
  BY DEF Index
<1>2. Len(files) \in Nat /\ files # <<>> => 1 \in Index
  BY DEF Index, OnceInv, TypeInv, TypeOK
<1>3. files # <<>>
  <2>1. pc = "done" => files # <<>>
    BY DEF OnceInv, TypeInv, Shape
  <2>2. pc = "walking" => files # <<>>
    BY ImporterIndex DEF OnceInv, TypeInv, TypeOK, Shape, Index
  <2> QED
    BY <2>1, <2>2 DEF OnceInv, TypeInv, TypeOK
<1>4. 1 \in Index
  BY <1>2, <1>3 DEF OnceInv, TypeInv, TypeOK
<1>5. \A i, j \in Index' : files'[i].key = files'[j].key => i = j
  BY <1>1 DEF OnceInv, LoadedOnce
<1>6. {files'[i].key : i \in Index'} = {files[i].key : i \in Index}
  BY <1>1
<1> QED
  BY <1>4, <1>5, <1>6 DEF OnceInv, LoadedOnce

LEMMA OnceStep == OnceInv /\ [Next]_vars => OnceInv'
<1> SUFFICES ASSUME OnceInv, [Next]_vars PROVE OnceInv'
  OBVIOUS
<1>0. TypeInv /\ TypeInv'
  BY TypeStep DEF OnceInv
<1>1. CASE ReadRoot
  <2> DEFINE n == NewFile(Root, disk[FileOf[Root]], FALSE)
  <2>1. files' = <<n>> /\ n.key = Root /\ n.rootError = FALSE /\ visited' = {Root}
    BY <1>1 DEF ReadRoot, NewFile
  <2> HIDE DEF n
  <2>2. Index' = {1} /\ files'[1] = n
    BY <2>1 DEF Index
  <2> QED
    BY <1>0, <2>1, <2>2 DEF OnceInv, LoadedOnce
<1>2. CASE RootFails
  <2> DEFINE n == NewFile(Root, <<>>, TRUE)
  <2>1. files' = <<n>> /\ n.rootError = TRUE /\ pc' = "done"
    BY <1>2 DEF RootFails, NewFile
  <2> HIDE DEF n
  <2>2. Index' = {1} /\ files'[1] = n
    BY <2>1 DEF Index
  <2> QED
    BY <1>0, <2>1, <2>2 DEF OnceInv, LoadedOnce
<1>3. CASE CanonicalizeNext
  BY <1>0, <1>3, OnceFrame DEF CanonicalizeNext
<1>4. ASSUME NEW as \in Outcome, target # NoKey,
             files' = [files EXCEPT ![importer] = Note(as)],
             UNCHANGED <<disk, saves, pc, visited, chain, stack>>
      PROVE  OnceInv'
  <2>1. target \in Key /\ pc = "walking"
    BY <1>0, <1>4 DEF TypeInv, TypeOK, Shape
  <2>2. Len(files') = Len(files) /\ \A i \in Index : files'[i].key = files[i].key
                                        /\ files'[i].rootError = files[i].rootError
    BY <1>0, <1>4, <2>1, ReportStep
  <2> QED
    BY <1>0, <1>4, <2>1, <2>2, OnceFrame
<1>5. CASE ReportCycle
  BY <1>4, <1>5 DEF ReportCycle, Outcome
<1>6. CASE ImportFails
  BY <1>4, <1>6 DEF ImportFails, Outcome
<1>7. CASE ShareLoaded
  <2>1. target \in Key /\ "shared" \in Outcome /\ pc = "walking" /\ pc' = pc
    BY <1>0, <1>7 DEF ShareLoaded, TypeInv, TypeOK, Shape, Outcome
  <2>2. Len(files') = Len(files) /\ \A i \in Index : files'[i].key = files[i].key
                                        /\ files'[i].rootError = files[i].rootError
    BY <1>0, <1>7, <2>1, FollowStep DEF ShareLoaded
  <2>3. visited' = visited
    BY <1>7 DEF ShareLoaded
  <2> QED
    BY <1>0, <2>1, <2>2, <2>3, OnceFrame
<1>8. CASE ReadImport
  <2>1. /\ pc = "walking" /\ Len(files) \in Nat /\ importer \in Index
        /\ Len(files') = Len(files) + 1
        /\ \A i \in Index : files'[i].key = files[i].key
                            /\ files'[i].rootError = files[i].rootError
        /\ files'[Len(files) + 1].key = target
    BY <1>0, <1>8, ReadImportFacts DEF NewFile
  <2>2. ~files[1].rootError /\ visited = {files[i].key : i \in Index} /\ 1 \in Index
    BY <2>1 DEF OnceInv, LoadedOnce, Index
  <2>3. target \notin visited /\ visited' = visited \cup {target}
    BY <1>8 DEF ReadImport, Visited
  <2>4. Index' = Index \cup {Len(files) + 1} /\ Len(files) + 1 \notin Index
    <3>1. \A n \in Nat : 1..(n + 1) = (1..n) \cup {n + 1} /\ n + 1 \notin 1..n
      OBVIOUS
    <3>2. Len(files) \in Nat /\ Index = 1..Len(files) /\ Index' = 1..(Len(files) + 1)
      BY <2>1 DEF Index
    <3> QED BY <3>1, <3>2
  <2>5. \A i, j \in Index' : files'[i].key = files'[j].key => i = j
    BY <2>1, <2>2, <2>3, <2>4 DEF OnceInv, LoadedOnce
  <2>6. visited' = {files'[i].key : i \in Index'}
    BY <2>1, <2>2, <2>3, <2>4
  <2> QED
    BY <1>0, <2>1, <2>2, <2>5, <2>6 DEF OnceInv, LoadedOnce
<1>9. CASE Return
  <2>1. pc' # "start" /\ pc = "walking" /\ files' = files /\ visited' = visited
    BY <1>9 DEF Return
  <2> QED
    BY <1>0, <2>1, OnceFrame
<1>10. ASSUME UNCHANGED <<files, visited, pc>> PROVE OnceInv'
  BY <1>0, <1>10 DEF OnceInv, LoadedOnce, Index
<1>11. ASSUME NEW f \in File, Save(f) PROVE OnceInv'
  BY <1>10, <1>11 DEF Save, loaderVars
<1>12. CASE UNCHANGED vars
  BY <1>10, <1>12 DEF vars
<1> QED
  BY <1>1, <1>2, <1>3, <1>5, <1>6, <1>7, <1>8, <1>9, <1>11, <1>12 DEF Next, LoaderStep

LEMMA OnceInit == Init => OnceInv
BY TypeInit DEF Init, OnceInv, LoadedOnce, Index

(* No path is ever loaded twice, for every import graph and whatever the   *)
(* editor saves meanwhile.                                                 *)
THEOREM EachPathLoadedOnce == Spec => []LoadedOnce
<1>1. OnceInv => LoadedOnce
  BY DEF OnceInv
<1> QED
  BY OnceInit, OnceStep, <1>1, PTL DEF Spec

-----------------------------------------------------------------------------
(* The alias maps are acyclic.  A file is open while its call is on the    *)
(* stack and finished afterwards.  Finished files lead to finished files   *)
(* only; an open file leads to finished files and to the file opened next  *)
(* on the stack.  So a declaration that is followed leads either to a      *)
(* finished file, which leads back to no open one, or to a new file, which *)
(* leads nowhere yet: no cycle closes.                                     *)

Open(i) == \E p \in 1..Len(stack) : stack[p] = i

OpenChain ==
  /\ Len(chain) = Len(stack)
  /\ \A p \in 1..Len(stack) : chain[p] = files[stack[p]].key

OpenOnce == \A p, q \in 1..Len(stack) : stack[p] = stack[q] => p = q

AliasesKnown ==
  \A i \in Index, a \in Alias :
    files[i].resolved[a] # NoKey => \E j \in Index : files[j].key = files[i].resolved[a]

FinishedEdges == \A i, j \in Index : ~Open(i) /\ Resolves(i, j) => ~Open(j)

OpenEdges ==
  \A p \in 1..Len(stack), i, j \in Index :
    stack[p] = i /\ Resolves(i, j) =>
      ~Open(j) \/ (p < Len(stack) /\ j = stack[p + 1])

GraphInv ==
  /\ OnceInv
  /\ OpenChain
  /\ OpenOnce
  /\ AliasesKnown
  /\ FinishedEdges
  /\ OpenEdges
  /\ ResolvedAcyclic

(* Open calls are loaded files, and the importer is the last one.          *)
LEMMA OpenFacts ==
  ASSUME TypeInv
  PROVE  /\ Len(stack) \in Nat
         /\ \A p \in 1..Len(stack) : stack[p] \in Index
         /\ pc = "walking" => Open(importer) /\ Len(stack) \in 1..Len(stack)
<1>1. stack \in Seq(1..Len(files)) /\ (pc = "walking" => stack # <<>>)
  BY DEF TypeInv, TypeOK, Shape
<1>2. Len(stack) \in Nat /\ \A p \in 1..Len(stack) : stack[p] \in Index
  BY <1>1 DEF Index
<1>3. pc = "walking" => Len(stack) \in 1..Len(stack)
  BY <1>1
<1> QED
  BY <1>2, <1>3 DEF Open, importer

(* The alias map of a loaded file.                                         *)
LEMMA ResolvedType ==
  ASSUME TypeInv, NEW i \in Index
  PROVE  files[i].resolved \in [Alias -> Key \cup {NoKey}] /\ files[i].key \in Key
<1>1. files[i] \in LoadedFile
  BY DEF TypeInv, TypeOK, Index
<1> QED
  BY <1>1 DEF LoadedFile

(* A step that leaves the alias maps, the stack and the paths alone keeps  *)
(* the graph.                                                              *)
LEMMA GraphFrame ==
  ASSUME GraphInv, OnceInv', stack' = stack, chain' = chain, Len(files') = Len(files),
         \A i \in Index : files'[i].key = files[i].key
                          /\ files'[i].resolved = files[i].resolved
  PROVE  GraphInv'
<1>1. Index' = Index /\ \A p \in 1..Len(stack) : stack[p] \in Index
  BY OpenFacts DEF Index, GraphInv, OnceInv
<1>2. \A i, j \in Index : Resolves(i, j)' <=> Resolves(i, j)
  BY <1>1 DEF Resolves
<1>3. \A i : Open(i)' <=> Open(i)
  BY DEF Open
<1>4. OpenChain' /\ OpenOnce'
  BY <1>1 DEF GraphInv, OpenChain, OpenOnce
<1>5. AliasesKnown'
  BY <1>1 DEF GraphInv, AliasesKnown
<1>6. FinishedEdges' /\ OpenEdges'
  BY <1>1, <1>2, <1>3 DEF GraphInv, FinishedEdges, OpenEdges
<1>7. ResolvedAcyclic'
  BY <1>1, <1>2 DEF GraphInv, ResolvedAcyclic
<1> QED
  BY <1>4, <1>5, <1>6, <1>7 DEF GraphInv

(* The alias map of the importer after a declaration was followed.         *)
LEMMA ResolvedUpdate ==
  ASSUME NEW r \in [Alias -> Key \cup {NoKey}], NEW al \in Alias, NEW k \in Key,
         NEW x \in Alias
  PROVE  [r EXCEPT ![al] = k][x] = IF x = al THEN k ELSE r[x]
OBVIOUS

LEMMA GraphShare == GraphInv /\ ShareLoaded /\ OnceInv' => GraphInv'
<1> SUFFICES ASSUME GraphInv, ShareLoaded, OnceInv' PROVE GraphInv'
  OBVIOUS
<1>0. TypeInv
  BY DEF GraphInv, OnceInv
<1>1. target \in Key /\ "shared" \in Outcome /\ pc = "walking"
  BY <1>0 DEF ShareLoaded, TypeInv, TypeOK, Shape, Outcome
<1>2. /\ Len(files') = Len(files) /\ Len(files) \in Nat /\ importer \in Index
      /\ \A i \in Index : files'[i].key = files[i].key
      /\ \A i \in Index \ {importer} : files'[i] = files[i]
      /\ declaration.alias \in Alias
      /\ files'[importer].resolved =
           [files[importer].resolved EXCEPT ![declaration.alias] = target]
  BY <1>0, <1>1, FollowStep DEF ShareLoaded
<1>3. Index' = Index /\ stack' = stack /\ chain' = chain
  BY <1>2 DEF ShareLoaded, Index
<1>4. files[importer].resolved \in [Alias -> Key \cup {NoKey}]
  BY <1>0, <1>2, ResolvedType
<1>5. \A x \in Alias : files'[importer].resolved[x] =
        IF x = declaration.alias THEN target ELSE files[importer].resolved[x]
  BY <1>1, <1>2, <1>4, ResolvedUpdate
<1>6. \A i, j \in Index : Resolves(i, j)' =>
        Resolves(i, j) \/ (i = importer /\ files[j].key = target)
  BY <1>2, <1>3, <1>5 DEF Resolves
<1>7. \A j \in Index : files[j].key = target => ~Open(j)
  <2>1. \A p \in 1..Len(chain) : chain[p] # target
    BY <1>0 DEF ShareLoaded, OnChain, Range, TypeInv, TypeOK
  <2> QED
    BY <2>1 DEF GraphInv, OpenChain, Open
<1>8. \A i : Open(i)' <=> Open(i)
  BY <1>3 DEF Open
<1>9. \A p \in 1..Len(stack) : stack[p] \in Index
  BY <1>0, OpenFacts
<1>10. Open(importer)
  BY <1>0, <1>1, OpenFacts
<1>11. OpenChain' /\ OpenOnce'
  BY <1>2, <1>3, <1>9 DEF GraphInv, OpenChain, OpenOnce
<1>12. AliasesKnown'
  <2>1. \E j \in Index : files[j].key = target
    <3>1. target \in visited
      BY DEF ShareLoaded, Visited
    <3>2. visited = {files[i].key : i \in Index}
      BY <1>1 DEF GraphInv, OnceInv, LoadedOnce
    <3> QED
      BY <3>1, <3>2
  <2>2. ASSUME NEW i \in Index, NEW x \in Alias, files'[i].resolved[x] # NoKey
        PROVE  \E j \in Index : files'[j].key = files'[i].resolved[x]
    <3>1. CASE i = importer /\ x = declaration.alias
      BY <1>2, <1>5, <2>1, <3>1
    <3>2. CASE ~(i = importer /\ x = declaration.alias)
      <4>1. files'[i].resolved[x] = files[i].resolved[x]
        BY <1>2, <1>5, <3>2
      <4> QED
        BY <1>2, <2>2, <4>1 DEF GraphInv, AliasesKnown
    <3> QED
      BY <3>1, <3>2
  <2> QED
    BY <1>3, <2>2 DEF AliasesKnown
<1>13. FinishedEdges'
  BY <1>3, <1>6, <1>8, <1>10 DEF GraphInv, FinishedEdges
<1>14. OpenEdges'
  BY <1>3, <1>6, <1>7, <1>8, <1>9 DEF GraphInv, OpenEdges
<1>15. ResolvedAcyclic'
  <2> SUFFICES ASSUME NEW S \in (SUBSET Index) \ {{}}
               PROVE  \E i \in S : \A j \in S : ~Resolves(i, j)'
    BY <1>3 DEF ResolvedAcyclic
  <2>1. CASE \E v \in S : ~Open(v)
    <3> DEFINE F == {v \in S : ~Open(v)}
    <3>1. F \in (SUBSET Index) \ {{}}
      BY <2>1
    <3>2. PICK i \in F : \A j \in F : ~Resolves(i, j)
      BY <3>1 DEF GraphInv, ResolvedAcyclic
    <3>3. \A j \in S : Resolves(i, j) => j \in F
      BY <3>2 DEF GraphInv, FinishedEdges
    <3>4. i # importer /\ i \in S
      BY <1>10, <3>2
    <3> QED
      BY <1>6, <3>2, <3>3, <3>4
  <2>2. CASE \A v \in S : Open(v)
    <3>1. PICK i \in S : \A j \in S : ~Resolves(i, j)
      BY DEF GraphInv, ResolvedAcyclic
    <3>2. \A j \in S : files[j].key # target
      BY <1>7, <2>2
    <3> QED
      BY <1>6, <3>1, <3>2
  <2> QED
    BY <2>1, <2>2
<1> QED
  BY <1>11, <1>12, <1>13, <1>14, <1>15 DEF GraphInv

LEMMA GraphRead == GraphInv /\ ReadImport /\ OnceInv' => GraphInv'
<1> SUFFICES ASSUME GraphInv, ReadImport, OnceInv' PROVE GraphInv'
  OBVIOUS
<1>0. TypeInv /\ TypeInv' /\ Len(files) \in Nat
  BY DEF GraphInv, OnceInv, TypeInv, TypeOK
<1> PICK N \in Nat : N = Len(files)
  BY <1>0
<1>1. /\ target \in Key /\ pc = "walking" /\ Len(files') = N + 1
      /\ importer \in Index
      /\ \A i \in Index : files'[i].key = files[i].key
      /\ \A i \in Index \ {importer} : files'[i] = files[i]
      /\ declaration.alias \in Alias
      /\ files'[importer].resolved =
           [files[importer].resolved EXCEPT ![declaration.alias] = target]
      /\ files'[N + 1].key = target
      /\ files'[N + 1].resolved = [x \in Alias |-> NoKey]
  BY <1>0, ReadImportFacts DEF NewFile
<1>2. Index' = Index \cup {N + 1} /\ N + 1 \notin Index /\ Index = 1..N
  BY <1>1 DEF Index
<1>3. \A i \in Index : files[i].key # target
  <2>1. target \notin visited
    BY DEF ReadImport, Visited
  <2>2. visited = {files[i].key : i \in Index}
    BY <1>1 DEF GraphInv, OnceInv, LoadedOnce
  <2> QED
    BY <2>1, <2>2
<1>4. files[importer].resolved \in [Alias -> Key \cup {NoKey}]
  BY <1>0, <1>1, ResolvedType
<1>5. \A x \in Alias : files'[importer].resolved[x] =
        IF x = declaration.alias THEN target ELSE files[importer].resolved[x]
  BY <1>1, <1>4, ResolvedUpdate
<1>6. \A i, j \in Index : Resolves(i, j)' => Resolves(i, j)
  <2> SUFFICES ASSUME NEW i \in Index, NEW j \in Index, NEW x \in Alias,
                      files'[i].resolved[x] = files'[j].key
               PROVE  files[i].resolved[x] = files[j].key
    BY DEF Resolves
  <2>1. CASE i = importer
    BY <1>1, <1>3, <1>5, <2>1
  <2>2. CASE i # importer
    BY <1>1, <2>2
  <2> QED
    BY <2>1, <2>2
<1>7. \A i \in Index : Resolves(i, N + 1)' => i = importer
  <2> SUFFICES ASSUME NEW i \in Index, i # importer, NEW x \in Alias,
                      files'[i].resolved[x] = files'[N + 1].key
               PROVE  FALSE
    BY DEF Resolves
  <2>1. files[i].resolved[x] = target /\ target # NoKey
    BY <1>1, LoaderAssumption
  <2> QED
    BY <1>3, <2>1 DEF GraphInv, AliasesKnown
<1>8. \A j \in Index' : ~Resolves(N + 1, j)'
  <2>1. \A j \in Index' : files'[j].key \in Key
    BY <1>1, <1>2, <1>0, ResolvedType
  <2>2. \A j \in Index', x \in Alias : files'[N + 1].resolved[x] # files'[j].key
    BY <1>1, <2>1, LoaderAssumption
  <2> QED
    BY <2>2 DEF Resolves
<1>9. /\ Len(stack) \in Nat /\ Len(stack') = Len(stack) + 1
      /\ stack'[Len(stack) + 1] = N + 1
      /\ \A p \in 1..Len(stack) : stack'[p] = stack[p] /\ stack[p] \in Index
  <2>1. stack \in Seq(Nat)
    <3>1. 1..Len(files) \subseteq Nat /\ stack \in Seq(1..Len(files))
      BY <1>0 DEF TypeInv, TypeOK
    <3> QED
      BY <3>1, SeqMonotonic
  <2>2. stack' = Append(stack, N + 1) /\ N + 1 \in Nat
    BY <1>1 DEF ReadImport, NewIndex
  <2> QED
    BY <1>0, <2>1, <2>2, AddElement, OpenFacts
<1>10. /\ Len(chain') = Len(chain) + 1 /\ chain'[Len(chain) + 1] = target
       /\ \A p \in 1..Len(chain) : chain'[p] = chain[p]
  <2>1. chain \in Seq(Key) /\ chain' = Append(chain, target)
    BY <1>0 DEF ReadImport, TypeInv, TypeOK
  <2> QED
    BY <1>1, <2>1, AddElement
<1>11. \A i \in Index : Open(i)' <=> Open(i)
  BY <1>2, <1>9 DEF Open
<1>12. Open(N + 1)' /\ Open(importer)
  BY <1>0, <1>1, <1>9, OpenFacts DEF Open
<1>13. OpenChain'
  <2> SUFFICES ASSUME NEW p \in 1..Len(stack')
               PROVE  chain'[p] = files'[stack'[p]].key
    BY <1>9, <1>10 DEF GraphInv, OpenChain
  <2>1. CASE p \in 1..Len(stack)
    BY <1>1, <1>9, <1>10, <2>1 DEF GraphInv, OpenChain
  <2>2. CASE p = Len(stack) + 1
    BY <1>1, <1>9, <1>10, <2>2 DEF GraphInv, OpenChain
  <2> QED
    BY <1>9, <2>1, <2>2
<1>14. OpenOnce'
  <2> SUFFICES ASSUME NEW p \in 1..Len(stack'), NEW q \in 1..Len(stack'),
                      stack'[p] = stack'[q]
               PROVE  p = q
    BY DEF OpenOnce
  <2>1. CASE p = Len(stack) + 1 \/ q = Len(stack) + 1
    BY <1>2, <1>9, <2>1
  <2>2. CASE p \in 1..Len(stack) /\ q \in 1..Len(stack)
    BY <1>9, <2>2 DEF GraphInv, OpenOnce
  <2> QED
    BY <1>9, <2>1, <2>2
<1>15. AliasesKnown'
  <2> SUFFICES ASSUME NEW i \in Index', NEW x \in Alias, files'[i].resolved[x] # NoKey
               PROVE  \E j \in Index' : files'[j].key = files'[i].resolved[x]
    BY DEF AliasesKnown
  <2>1. CASE i = N + 1
    BY <1>1, <2>1
  <2>2. CASE i = importer /\ x = declaration.alias
    BY <1>1, <1>2, <1>5, <2>2
  <2>3. CASE i \in Index /\ ~(i = importer /\ x = declaration.alias)
    <3>1. files'[i].resolved[x] = files[i].resolved[x]
      BY <1>1, <1>5, <2>3
    <3>2. PICK j \in Index : files[j].key = files[i].resolved[x]
      BY <2>3, <3>1 DEF GraphInv, AliasesKnown
    <3> QED
      BY <1>1, <1>2, <3>1, <3>2
  <2> QED
    BY <1>2, <2>1, <2>2, <2>3
<1>16. FinishedEdges'
  BY <1>2, <1>6, <1>7, <1>8, <1>11, <1>12 DEF GraphInv, FinishedEdges
<1>17. OpenEdges'
  <2> SUFFICES ASSUME NEW p \in 1..Len(stack'), NEW i \in Index', NEW j \in Index',
                      stack'[p] = i, Resolves(i, j)'
               PROVE  ~Open(j)' \/ (p < Len(stack') /\ j = stack'[p + 1])
    BY DEF OpenEdges
  <2>1. p \in 1..Len(stack) /\ stack[p] = i /\ i \in Index
    BY <1>8, <1>9
  <2>2. CASE j = N + 1
    <3>1. stack[p] = stack[Len(stack)]
      BY <1>7, <2>1, <2>2 DEF importer
    <3>2. p = Len(stack)
      BY <2>1, <3>1, <1>9 DEF GraphInv, OpenOnce
    <3> QED
      BY <1>9, <2>2, <3>2
  <2>3. CASE j \in Index
    <3>1. Resolves(i, j)
      BY <1>6, <2>1, <2>3
    <3>2. ~Open(j) \/ (p < Len(stack) /\ j = stack[p + 1])
      BY <2>1, <2>3, <3>1 DEF GraphInv, OpenEdges
    <3> QED
      BY <1>9, <1>11, <2>1, <2>3, <3>2
  <2> QED
    BY <1>2, <2>2, <2>3
<1>18. ResolvedAcyclic'
  <2> SUFFICES ASSUME NEW S \in (SUBSET Index') \ {{}}
               PROVE  \E i \in S : \A j \in S : ~Resolves(i, j)'
    BY DEF ResolvedAcyclic
  <2>1. CASE N + 1 \in S
    BY <1>8, <2>1
  <2>2. CASE N + 1 \notin S
    <3>1. S \in (SUBSET Index) \ {{}}
      BY <1>2, <2>2
    <3>2. PICK i \in S : \A j \in S : ~Resolves(i, j)
      BY <3>1 DEF GraphInv, ResolvedAcyclic
    <3> QED
      BY <1>6, <3>1, <3>2
  <2> QED
    BY <2>1, <2>2
<1> QED
  BY <1>13, <1>14, <1>15, <1>16, <1>17, <1>18 DEF GraphInv

LEMMA GraphReturn == GraphInv /\ Return /\ OnceInv' => GraphInv'
<1> SUFFICES ASSUME GraphInv, Return, OnceInv' PROVE GraphInv'
  OBVIOUS
<1>0. TypeInv /\ stack \in Seq(1..Len(files)) /\ chain \in Seq(Key) /\ stack # <<>>
  BY DEF Return, GraphInv, OnceInv, TypeInv, TypeOK, Shape
<1>1. /\ Len(stack) \in Nat \ {0} /\ Len(stack') = Len(stack) - 1
      /\ \A p \in 1..(Len(stack) - 1) : stack'[p] = stack[p]
  BY <1>0, DropLast DEF Return
<1>2. /\ Len(chain') = Len(chain) - 1
      /\ \A p \in 1..(Len(chain) - 1) : chain'[p] = chain[p]
  <2>1. chain # <<>>
    BY <1>1 DEF GraphInv, OpenChain
  <2> QED
    BY <1>0, <2>1, DropLast DEF Return, ShorterChain
<1>3. files' = files /\ Index' = Index
  BY DEF Return, Index
<1>4. \A p \in 1..Len(stack') : p \in 1..Len(stack) /\ stack[p] \in Index /\ stack'[p] = stack[p]
  BY <1>0, <1>1, OpenFacts
<1>5. \A i : Open(i)' => Open(i) /\ i # importer
  <2>1. \A p \in 1..Len(stack') : stack[p] # stack[Len(stack)]
    BY <1>1 DEF GraphInv, OpenOnce
  <2> QED
    BY <1>4, <2>1 DEF Open, importer
<1>6. \A i : Open(i) /\ i # importer => Open(i)'
  <2> SUFFICES ASSUME NEW p \in 1..Len(stack), stack[p] # stack[Len(stack)]
               PROVE  p \in 1..Len(stack') /\ stack'[p] = stack[p]
    BY DEF Open, importer
  <2> QED
    BY <1>1
<1>7. \A i, j \in Index : Resolves(i, j)' <=> Resolves(i, j)
  BY <1>3 DEF Resolves
<1>8. OpenChain' /\ OpenOnce'
  <2>1. OpenChain'
    BY <1>1, <1>2, <1>3, <1>4 DEF GraphInv, OpenChain
  <2>2. OpenOnce'
    BY <1>4 DEF GraphInv, OpenOnce
  <2> QED
    BY <2>1, <2>2
<1>9. AliasesKnown'
  BY <1>3 DEF GraphInv, AliasesKnown
<1>10. \A j \in Index : Resolves(importer, j) => ~Open(j)
  <2>1. Len(stack) \in 1..Len(stack) /\ ~(Len(stack) < Len(stack))
        /\ stack[Len(stack)] = importer /\ importer \in Index
    BY <1>0, <1>1, OpenFacts DEF importer
  <2> QED
    BY <2>1 DEF GraphInv, OpenEdges
<1>11. FinishedEdges'
  BY <1>3, <1>5, <1>6, <1>7, <1>10 DEF GraphInv, FinishedEdges
<1>12. OpenEdges'
  <2> SUFFICES ASSUME NEW p \in 1..Len(stack'), NEW i \in Index, NEW j \in Index,
                      stack'[p] = i, Resolves(i, j)'
               PROVE  ~Open(j)' \/ (p < Len(stack') /\ j = stack'[p + 1])
    BY <1>3 DEF OpenEdges
  <2>1. ~Open(j) \/ (p < Len(stack) /\ j = stack[p + 1])
    BY <1>4, <1>7 DEF GraphInv, OpenEdges
  <2>2. CASE p = Len(stack) - 1 /\ j = stack[p + 1]
    BY <1>1, <1>5, <2>2 DEF importer
  <2>3. CASE p < Len(stack) - 1 /\ j = stack[p + 1]
    BY <1>1, <1>4, <2>3
  <2> QED
    BY <1>1, <1>5, <2>1, <2>2, <2>3
<1>13. ResolvedAcyclic'
  BY <1>3, <1>7 DEF GraphInv, ResolvedAcyclic
<1> QED
  BY <1>8, <1>9, <1>11, <1>12, <1>13 DEF GraphInv

(* A working set of one file with no alias resolved.                       *)
LEMMA GraphRoot ==
  ASSUME OnceInv, OnceInv', pc = "start", NEW n, files' = <<n>>,
         n.resolved = [a \in Alias |-> NoKey], n.key \in Key,
         (stack' = << 1 >> /\ chain' = <<n.key>>) \/ (stack' = <<>> /\ chain' = <<>>)
  PROVE  GraphInv'
<1>1. Index' = {1} /\ files'[1] = n
  BY DEF Index
<1>2. ~Resolves(1, 1)'
  BY <1>1, LoaderAssumption DEF Resolves
<1>3. OpenChain' /\ OpenOnce'
  BY <1>1 DEF OpenChain, OpenOnce
<1>4. AliasesKnown'
  BY <1>1 DEF AliasesKnown
<1>5. FinishedEdges' /\ OpenEdges'
  BY <1>1, <1>2 DEF FinishedEdges, OpenEdges
<1>6. ResolvedAcyclic'
  <2> SUFFICES ASSUME NEW S \in (SUBSET {1}) \ {{}}
               PROVE  \E i \in S : \A j \in S : ~Resolves(i, j)'
    BY <1>1 DEF ResolvedAcyclic
  <2>1. S # {} /\ \A j \in S : j = 1
    BY Zenon
  <2>2. PICK i \in S : TRUE
    BY <2>1, Zenon
  <2>3. \A j \in S : ~Resolves(i, j)'
    BY <1>2, <2>1, <2>2
  <2> QED
    BY <2>2, <2>3
<1> QED
  BY <1>3, <1>4, <1>5, <1>6 DEF GraphInv

LEMMA GraphStep == GraphInv /\ [Next]_vars => GraphInv'
<1> SUFFICES ASSUME GraphInv, [Next]_vars PROVE GraphInv'
  OBVIOUS
<1>0. OnceInv /\ TypeInv /\ OnceInv'
  BY OnceStep DEF GraphInv, OnceInv
<1>1. CASE ReadRoot
  <2> DEFINE n == NewFile(Root, disk[FileOf[Root]], FALSE)
  <2>1. /\ files' = <<n>> /\ n.key = Root /\ n.resolved = [a \in Alias |-> NoKey]
        /\ stack' = <<1>> /\ chain' = <<Root>> /\ pc = "start" /\ Root \in Key
    BY <1>1, LoaderAssumption DEF ReadRoot, NewFile
  <2> HIDE DEF n
  <2>2. \A m : files' = <<m>> /\ m.key = Root /\ m.resolved = [a \in Alias |-> NoKey]
          => GraphInv'
    BY <1>0, <2>1, GraphRoot
  <2> QED
    BY <2>1, <2>2
<1>2. CASE RootFails
  <2> DEFINE n == NewFile(Root, <<>>, TRUE)
  <2>1. /\ files' = <<n>> /\ n.key = Root /\ n.resolved = [a \in Alias |-> NoKey]
        /\ pc = "start" /\ Root \in Key
    BY <1>2, LoaderAssumption DEF RootFails, NewFile
  <2>2. stack' = <<>> /\ chain' = <<>>
    <3>1. stack = <<>> /\ Len(chain) = 0 /\ chain \in Seq(Key)
      BY <1>0, <2>1 DEF TypeInv, TypeOK, Shape, GraphInv, OpenChain
    <3> QED
      BY <1>2, <3>1 DEF RootFails
  <2> HIDE DEF n
  <2>3. \A m : files' = <<m>> /\ m.key = Root /\ m.resolved = [a \in Alias |-> NoKey]
          => GraphInv'
    BY <1>0, <2>1, <2>2, GraphRoot
  <2> QED
    BY <2>1, <2>3
<1>3. ASSUME UNCHANGED <<files, stack, chain>> PROVE GraphInv'
  BY <1>0, <1>3, GraphFrame
<1>4. ASSUME NEW as \in Outcome, target # NoKey,
             files' = [files EXCEPT ![importer] = Note(as)],
             UNCHANGED <<disk, saves, pc, visited, chain, stack>>
      PROVE  GraphInv'
  <2>1. target \in Key
    BY <1>0, <1>4 DEF TypeInv, TypeOK
  <2>2. Len(files') = Len(files) /\ \A i \in Index : files'[i].key = files[i].key
                                        /\ files'[i].resolved = files[i].resolved
    BY <1>0, <1>4, <2>1, ReportStep
  <2> QED
    BY <1>0, <1>4, <2>2, GraphFrame
<1>5. CASE ReportCycle
  BY <1>4, <1>5 DEF ReportCycle, Outcome
<1>6. CASE ImportFails
  BY <1>4, <1>6 DEF ImportFails, Outcome
<1>7. CASE ShareLoaded
  BY <1>0, <1>7, GraphShare
<1>8. CASE ReadImport
  BY <1>0, <1>8, GraphRead
<1>9. CASE Return
  BY <1>0, <1>9, GraphReturn
<1>10. CASE CanonicalizeNext
  BY <1>3, <1>10 DEF CanonicalizeNext
<1>11. ASSUME NEW f \in File, Save(f) PROVE GraphInv'
  BY <1>3, <1>11 DEF Save, loaderVars
<1>12. CASE UNCHANGED vars
  BY <1>3, <1>12 DEF vars
<1> QED
  BY <1>1, <1>2, <1>5, <1>6, <1>7, <1>8, <1>9, <1>10, <1>11, <1>12 DEF Next, LoaderStep

LEMMA GraphInit == Init => GraphInv
<1> SUFFICES ASSUME Init PROVE GraphInv
  OBVIOUS
<1>1. OnceInv /\ Len(files) = 0 /\ Len(stack) = 0 /\ Len(chain) = 0
  BY OnceInit DEF Init
<1>2. Index = {} /\ 1..Len(stack) = {}
  BY <1>1 DEF Index
<1>3. OpenChain /\ OpenOnce /\ OpenEdges
  BY <1>1, <1>2 DEF OpenChain, OpenOnce, OpenEdges
<1>4. AliasesKnown /\ FinishedEdges
  BY <1>2 DEF AliasesKnown, FinishedEdges
<1>5. \A S \in SUBSET {} : S = {}
  OBVIOUS
<1>6. ResolvedAcyclic
  BY <1>2, <1>5, Zenon DEF ResolvedAcyclic
<1> QED
  BY <1>1, <1>3, <1>4, <1>6 DEF GraphInv

(* The alias maps the analysis follows never form a cycle, for every       *)
(* import graph.                                                           *)
THEOREM AliasMapsAcyclic == Spec => []ResolvedAcyclic
<1>1. GraphInv => ResolvedAcyclic
  BY DEF GraphInv
<1> QED
  BY GraphInit, GraphStep, <1>1, PTL DEF Spec
-----------------------------------------------------------------------------
(* What a load leaves behind: the declarations it followed, reported and   *)
(* refused, and the working set against the disk; for every import graph.  *)

Uses(i) == files[i].uses

(* How a declaration ends, whatever its outcome: one more use, and nothing *)
(* else of the files that were loaded but an alias.                        *)
Ends(as) ==
  /\ as \in Outcome
  /\ pc = "walking" /\ target \in Key /\ importer \in Index /\ Len(files) \in Nat
  /\ \A i \in Index : /\ files'[i].key = files[i].key
                      /\ files'[i].imports = files[i].imports
                      /\ files'[i].rootError = files[i].rootError
  /\ \A i \in Index \ {importer} : files'[i] = files[i]
  /\ files'[importer].uses = Append(Uses(importer), [as |-> as, key |-> target])
  /\ declaration.alias \in Alias
  /\ files'[importer].resolved =
       IF as \in {"loaded", "shared"}
       THEN [files[importer].resolved EXCEPT ![declaration.alias] = target]
       ELSE files[importer].resolved
  /\ Index \subseteq Index'
  /\ IF as = "loaded"
     THEN /\ Index' = Index \cup {Len(files) + 1} /\ Len(files) + 1 \notin Index
          /\ files'[Len(files) + 1] = NewFile(target, disk[FileOf[target]], FALSE)
          /\ Readable(target)
          /\ chain' = Append(chain, target) /\ stack' = Append(stack, Len(files) + 1)
     ELSE Index' = Index /\ chain' = chain /\ stack' = stack
  /\ (as = "E0401") <=> OnChain(target)
  /\ (as = "E0400") => ~Readable(target)
  /\ (as = "shared") => Visited(target)
  /\ UNCHANGED <<disk, saves, pc>> /\ target' = NoKey

LEMMA EndsSomehow ==
  ASSUME GraphInv, ReportCycle \/ ShareLoaded \/ ReadImport \/ ImportFails
  PROVE  \E as \in Outcome : Ends(as)
<1>1. TypeInv /\ target \in Key /\ pc = "walking" /\ HasNext /\ stack # <<>> /\ TypeOK
  BY DEF ReportCycle, ShareLoaded, ReadImport, ImportFails, GraphInv, OnceInv, TypeInv, TypeOK,
         Shape
<1>2. declaration.alias \in Alias
  BY <1>1, DeclarationType DEF Import
<1>3. ASSUME NEW as \in {"E0401", "E0400"}, files' = [files EXCEPT ![importer] = Note(as)],
             (as = "E0401") <=> OnChain(target), (as = "E0400") => ~Readable(target),
             UNCHANGED <<disk, saves, pc, chain, stack>>, target' = NoKey
      PROVE  Ends(as)
  <2>1. as \in Outcome
    BY DEF Outcome
  <2>2. Index' = Index
    BY <1>1, <1>3, <2>1, ReportStep DEF Index
  <2> QED
    BY <1>1, <1>2, <1>3, <2>1, <2>2, ReportStep DEF Ends, Uses
<1>4. CASE ReportCycle
  BY <1>3, <1>4 DEF ReportCycle, Outcome
<1>5. CASE ImportFails
  BY <1>3, <1>5 DEF ImportFails, Outcome
<1>6. CASE ShareLoaded
  <2>1. "shared" \in Outcome
    BY DEF Outcome
  <2>2. Index' = Index
    BY <1>1, <1>6, <2>1, FollowStep DEF Index, ShareLoaded
  <2>3. Ends("shared")
    BY <1>1, <1>2, <1>6, <2>1, <2>2, FollowStep DEF Ends, Uses, ShareLoaded
  <2> QED
    BY <2>1, <2>3
<1>7. CASE ReadImport
  <2>1. "loaded" \in Outcome
    BY DEF Outcome
  <2>2. Index' = Index \cup {Len(files) + 1} /\ Len(files) + 1 \notin Index
    BY <1>1, <1>7, ReadImportFacts DEF Index
  <2>3. Ends("loaded")
    BY <1>1, <1>2, <1>7, <2>1, <2>2, ReadImportFacts DEF Ends, Uses, ReadImport, NewIndex
  <2> QED
    BY <2>1, <2>3
<1> QED
  BY <1>4, <1>5, <1>6, <1>7

(* The uses of every file, one by one.                                     *)
LEMMA UsesAfter ==
  ASSUME GraphInv, NEW as, Ends(as)
  PROVE  /\ \A i \in Index : /\ Len(Uses(i)) \in Nat
                             /\ \A u \in 1..Len(Uses(i)) : files'[i].uses[u] = Uses(i)[u]
                             /\ i # importer => Len(files'[i].uses) = Len(Uses(i))
         /\ Len(files'[importer].uses) = Len(Uses(importer)) + 1
         /\ files'[importer].uses[Len(Uses(importer)) + 1] = [as |-> as, key |-> target]
         /\ declaration = files[importer].imports[Len(Uses(importer)) + 1]
<1>1. \A i \in Index : Uses(i) \in Seq([as : Outcome, key : Key])
  <2>1. \A i \in Index : files[i] \in LoadedFile
    BY DEF GraphInv, OnceInv, TypeInv, TypeOK, Index
  <2> QED
    BY <2>1 DEF LoadedFile, Uses
<1>2. [as |-> as, key |-> target] \in [as : Outcome, key : Key]
  BY DEF Ends
<1>3. /\ files'[importer].uses = Append(Uses(importer), [as |-> as, key |-> target])
      /\ importer \in Index /\ \A i \in Index \ {importer} : files'[i] = files[i]
  BY DEF Ends
<1>4. declaration = files[importer].imports[Len(Uses(importer)) + 1]
  BY DEF declaration, Uses
<1>5. \A i \in Index \ {importer} : files'[i].uses = Uses(i)
  BY <1>3 DEF Uses
<1>6. /\ Len(files'[importer].uses) = Len(Uses(importer)) + 1
      /\ files'[importer].uses[Len(Uses(importer)) + 1] = [as |-> as, key |-> target]
      /\ \A u \in 1..Len(Uses(importer)) : files'[importer].uses[u] = Uses(importer)[u]
  BY <1>1, <1>2, <1>3, AddElement
<1> QED
  BY <1>1, <1>3, <1>4, <1>5, <1>6, LenProperties

(* The root is the first file, read or not.                                *)
LEMMA FirstFile ==
  ASSUME GraphInv, ReadRoot \/ RootFails
  PROVE  /\ pc = "start" /\ Index = {} /\ Index' = {1} /\ target' = NoKey
         /\ files'[1].key = Root /\ files'[1].uses = <<>>
         /\ files'[1].resolved = [a \in Alias |-> NoKey]
         /\ files'[1].imports = IF ReadRoot THEN disk[FileOf[Root]] ELSE <<>>
         /\ files'[1].rootError = RootFails
         /\ ReadRoot => Readable(Root) /\ stack' = <<1>>
         /\ RootFails => ~Readable(Root) /\ stack' = <<>>
         /\ UNCHANGED <<disk, saves>>
<1>1. pc = "start" /\ files = <<>> /\ stack = <<>> /\ target = NoKey
  BY DEF ReadRoot, RootFails, GraphInv, OnceInv, TypeInv, Shape
<1>2. Index = {}
  BY <1>1 DEF Index
<1>3. CASE ReadRoot
  <2> DEFINE n == NewFile(Root, disk[FileOf[Root]], FALSE)
  <2>1. /\ files' = <<n>> /\ n.key = Root /\ n.uses = <<>>
        /\ n.resolved = [a \in Alias |-> NoKey]
        /\ n.imports = disk[FileOf[Root]] /\ n.rootError = FALSE
    BY <1>3 DEF ReadRoot, NewFile
  <2> HIDE DEF n
  <2>2. Index' = {1} /\ files'[1] = n
    BY <2>1 DEF Index
  <2> QED
    BY <1>1, <1>2, <1>3, <2>1, <2>2 DEF ReadRoot, RootFails
<1>4. CASE RootFails
  <2> DEFINE n == NewFile(Root, <<>>, TRUE)
  <2>1. /\ files' = <<n>> /\ n.key = Root /\ n.uses = <<>>
        /\ n.resolved = [a \in Alias |-> NoKey]
        /\ n.imports = <<>> /\ n.rootError = TRUE
    BY <1>4 DEF RootFails, NewFile
  <2> HIDE DEF n
  <2>2. Index' = {1} /\ files'[1] = n
    BY <2>1 DEF Index
  <2> QED
    BY <1>1, <1>2, <1>4, <2>1, <2>2 DEF ReadRoot, RootFails
<1> QED
  BY <1>3, <1>4

(* A call that returns leaves the other calls open.                        *)
LEMMA ReturnFacts ==
  ASSUME GraphInv, Return
  PROVE  /\ files' = files /\ Index' = Index
         /\ importer \in Index /\ ~HasNext
         /\ \A i : Open(i)' <=> (Open(i) /\ i # importer)
         /\ Len(stack') \in Nat /\ Len(stack) \in Nat
         /\ \A p \in 1..Len(stack') : p \in 1..Len(stack) /\ stack'[p] = stack[p]
         /\ UNCHANGED <<disk, saves, target>>
<1>0. TypeInv /\ stack \in Seq(1..Len(files)) /\ stack # <<>> /\ importer \in Index
  BY ImporterIndex DEF Return, GraphInv, OnceInv, TypeInv, TypeOK, Shape
<1>1. /\ Len(stack) \in Nat \ {0} /\ Len(stack') = Len(stack) - 1
      /\ \A p \in 1..(Len(stack) - 1) : stack'[p] = stack[p]
  BY <1>0, DropLast DEF Return
<1>2. \A p \in 1..Len(stack') : p \in 1..Len(stack) /\ stack'[p] = stack[p]
  BY <1>1
<1>3. \A i : Open(i)' => Open(i) /\ i # importer
  <2>1. \A p \in 1..Len(stack') : stack[p] # stack[Len(stack)]
    BY <1>1 DEF GraphInv, OpenOnce
  <2> QED
    BY <1>2, <2>1 DEF Open, importer
<1>4. \A i : Open(i) /\ i # importer => Open(i)'
  <2> SUFFICES ASSUME NEW p \in 1..Len(stack), stack[p] # stack[Len(stack)]
               PROVE  p \in 1..Len(stack') /\ stack'[p] = stack[p]
    BY DEF Open, importer
  <2> QED
    BY <1>1
<1> QED
  BY <1>0, <1>1, <1>2, <1>3, <1>4 DEF Return, Index

(* Every other step leaves the working set and the open calls alone.       *)
LEMMA StepKinds ==
  ASSUME GraphInv, [Next]_vars
  PROVE  \/ ReadRoot \/ RootFails
         \/ \E as \in Outcome : Ends(as)
         \/ Return
         \/ CanonicalizeNext
         \/ UNCHANGED loaderVars /\ \/ UNCHANGED <<disk, saves>>
                                    \/ saves' = saves + 1
<1>1. CASE UNCHANGED vars
  BY <1>1 DEF vars, loaderVars
<1>2. ASSUME NEW f \in File, Save(f) PROVE UNCHANGED loaderVars /\ saves' = saves + 1
  BY <1>2 DEF Save
<1> QED
  BY <1>1, <1>2, EndsSomehow DEF Next, LoaderStep

(* A declaration that ends leaves the open calls open, and opens one more  *)
(* if it loads a file.                                                     *)
LEMMA StackAfter ==
  ASSUME GraphInv, NEW as, Ends(as)
  PROVE  /\ Len(stack) \in 1..Len(stack)
         /\ \A p \in 1..Len(stack) : /\ p \in 1..Len(stack')
                                     /\ stack'[p] = stack[p] /\ stack[p] \in Index
         /\ IF as = "loaded"
            THEN /\ Len(stack') = Len(stack) + 1 /\ Len(stack) + 1 \in 1..Len(stack')
                 /\ stack'[Len(stack) + 1] = Len(files) + 1
            ELSE Len(stack') = Len(stack)
<1>1. /\ Len(stack) \in Nat /\ Len(stack) \in 1..Len(stack)
      /\ \A p \in 1..Len(stack) : stack[p] \in Index
  BY OpenFacts DEF GraphInv, OnceInv, Ends
<1>2. CASE as # "loaded"
  BY <1>1, <1>2 DEF Ends
<1>3. CASE as = "loaded"
  <2>1. stack \in Seq(Nat) /\ Len(files) + 1 \in Nat
    <3>1. 1..Len(files) \subseteq Nat /\ stack \in Seq(1..Len(files))
      BY DEF GraphInv, OnceInv, TypeInv, TypeOK, Ends
    <3> QED
      BY <3>1, SeqMonotonic DEF Ends
  <2>2. stack' = Append(stack, Len(files) + 1)
    BY <1>3 DEF Ends
  <2>3. /\ Len(stack') = Len(stack) + 1 /\ stack'[Len(stack) + 1] = Len(files) + 1
        /\ \A p \in 1..Len(stack) : stack'[p] = stack[p]
    BY <2>1, <2>2, AddElement
  <2> QED
    BY <1>1, <1>3, <2>3
<1> QED
  BY <1>2, <1>3

-----------------------------------------------------------------------------
(* No file is loaded under two paths: every path that is loaded is the     *)
(* canonical one of its file.                                              *)

CanonicalPaths ==
  (saves = 0 /\ Root = CanonOf[FileOf[Root]]) =>
    /\ \A i \in Index : files[i].key = CanonOf[FileOf[files[i].key]]
    /\ target # NoKey => target = CanonOf[FileOf[target]] \/ ~Exists(target)

CanonInv == GraphInv /\ CanonicalPaths

LEMMA CanonStep == CanonInv /\ [Next]_vars => CanonInv'
<1> SUFFICES ASSUME CanonInv, [Next]_vars PROVE CanonInv'
  OBVIOUS
<1>0. GraphInv /\ GraphInv' /\ saves \in Nat
  BY GraphStep DEF CanonInv, GraphInv, OnceInv, TypeInv, TypeOK
<1>1. CASE ReadRoot \/ RootFails
  <2>1. CanonicalPaths'
    BY <1>0, <1>1, FirstFile DEF CanonicalPaths
  <2> QED
    BY <1>0, <2>1 DEF CanonInv
<1>2. ASSUME NEW as \in Outcome, Ends(as) PROVE CanonInv'
  <2>1. saves' = saves /\ target' = NoKey /\ \A i \in Index : files'[i].key = files[i].key
    BY <1>2 DEF Ends
  <2>2. CASE as # "loaded"
    <3>1. Index' = Index
      BY <1>2, <2>2 DEF Ends
    <3>2. CanonicalPaths'
      BY <2>1, <3>1 DEF CanonInv, CanonicalPaths
    <3> QED
      BY <1>0, <3>2 DEF CanonInv
  <2>3. CASE as = "loaded"
    <3>1. /\ Index' = Index \cup {Len(files) + 1} /\ target # NoKey
          /\ files'[Len(files) + 1].key = target
      BY <1>2, <2>3, LoaderAssumption DEF Ends, NewFile
    <3>2. Exists(target)
      BY <1>2, <2>3, LoaderAssumption DEF Ends, Readable, Exists
    <3>3. CanonicalPaths'
      BY <2>1, <3>1, <3>2 DEF CanonInv, CanonicalPaths
    <3> QED
      BY <1>0, <3>3 DEF CanonInv
  <2> QED
    BY <2>2, <2>3
<1>3. CASE Return
  <2>1. CanonicalPaths'
    BY <1>0, <1>3, ReturnFacts DEF CanonInv, CanonicalPaths, Exists
  <2> QED
    BY <1>0, <2>1 DEF CanonInv
<1>4. CASE CanonicalizeNext
  <2>1. files' = files /\ saves' = saves /\ disk' = disk /\ target' = Canonicalize(declaration.path)
          /\ stack # <<>> /\ TypeOK /\ HasNext
    BY <1>0, <1>4 DEF CanonicalizeNext, GraphInv, OnceInv, TypeInv, Shape
  <2>2. declaration.path \in Key
    BY <2>1, DeclarationType DEF Import
  <2>3. target' = CanonOf[FileOf[target']] \/ ~Exists(target')
    BY <2>1, <2>2, LoaderAssumption DEF Canonicalize, Exists
  <2>4. CanonicalPaths'
    BY <2>1, <2>3 DEF CanonInv, CanonicalPaths, Index, Exists
  <2> QED
    BY <1>0, <2>4 DEF CanonInv
<1>5. CASE UNCHANGED loaderVars /\ (UNCHANGED <<disk, saves>> \/ saves' = saves + 1)
  <2>1. CanonicalPaths'
    BY <1>0, <1>5 DEF CanonInv, CanonicalPaths, loaderVars, Index, Exists
  <2> QED
    BY <1>0, <2>1 DEF CanonInv
<1> QED
  BY <1>0, <1>1, <1>2, <1>3, <1>4, <1>5, StepKinds

LEMMA CanonInit == Init => CanonInv
BY GraphInit DEF Init, CanonInv, CanonicalPaths, Index

(* A file is loaded once, whatever paths lead to it, if the root was given *)
(* by its canonical path and nobody saved: fs::canonicalize in loader.rs   *)
(* tells apart every two files, and no file from itself.                   *)
THEOREM EachFileLoadedOnce == Spec => []CanonicalFilesLoadedOnce
<1>1. CanonInv => CanonicalFilesLoadedOnce
  BY DEF CanonInv, CanonicalPaths, CanonicalFilesLoadedOnce, FileLoadedOnce, GraphInv, OnceInv,
         LoadedOnce
<1> QED
  BY CanonInit, CanonStep, <1>1, PTL DEF Spec

-----------------------------------------------------------------------------
(* No import is dropped in silence.  A file whose call has returned has    *)
(* come to the end of its declarations, and an alias is recorded exactly   *)
(* if one of those that ended so far was followed.                         *)

AllDeclared == \A i \in Index : ~Open(i) => Len(Uses(i)) = Len(files[i].imports)

AliasHas(i, a) ==
  IF files[i].resolved[a] = NoKey
  THEN \A u \in 1..Len(Uses(i)) : files[i].imports[u].alias = a => ~Followed(i, u)
  ELSE \E v \in 1..Len(Uses(i)) : /\ files[i].imports[v].alias = a
                                  /\ Followed(i, v)
                                  /\ Uses(i)[v].key = files[i].resolved[a]

ReportInv == GraphInv /\ AllDeclared /\ \A i \in Index, a \in Alias : AliasHas(i, a)

(* The declaration that ends leaves one more use of the importer.          *)
LEMMA AliasEnds ==
  ASSUME ReportInv, NEW as, Ends(as), NEW a \in Alias, NEW i, i = importer
  PROVE  AliasHas(i, a)'
<1>1. PICK n \in Nat : n = Len(Uses(i))
  BY UsesAfter DEF ReportInv, Ends
<1>2. /\ Len(files'[i].uses) = n + 1
      /\ \A u \in 1..n : files'[i].uses[u] = Uses(i)[u]
      /\ files'[i].uses[n + 1] = [as |-> as, key |-> target]
      /\ declaration = files[i].imports[n + 1]
      /\ i \in Index
  BY <1>1, UsesAfter DEF ReportInv, Ends
<1>3. /\ files'[i].imports = files[i].imports /\ declaration.alias \in Alias /\ target # NoKey
      /\ files'[i].resolved =
           IF as \in {"loaded", "shared"}
           THEN [files[i].resolved EXCEPT ![declaration.alias] = target]
           ELSE files[i].resolved
  BY <1>2, LoaderAssumption DEF Ends
<1>4. files[i].resolved \in [Alias -> Key \cup {NoKey}]
  BY <1>2, ResolvedType DEF ReportInv, GraphInv, OnceInv
<1>5. /\ files'[i].uses[n + 1].as = as /\ files'[i].uses[n + 1].key = target
      /\ files'[i].imports[n + 1].alias = declaration.alias
  BY <1>2, <1>3
<1>6. n + 1 \in 1..(n + 1) /\ \A v \in 1..(n + 1) : v \in 1..n \/ v = n + 1
  OBVIOUS
<1>7. \A v \in 1..n : v \in 1..(n + 1)
  OBVIOUS
<1>8. CASE as \in {"loaded", "shared"} /\ declaration.alias = a
  <2>1. files'[i].resolved[a] = target
    BY <1>3, <1>4, <1>8
  <2> QED
    BY <1>2, <1>3, <1>5, <1>6, <1>8, <2>1 DEF AliasHas, Followed, Uses
<1>9. CASE ~(as \in {"loaded", "shared"} /\ declaration.alias = a)
  <2>1. files'[i].resolved[a] = files[i].resolved[a]
    BY <1>3, <1>4, <1>9
  <2>2. AliasHas(i, a)
    BY <1>2 DEF ReportInv
  <2>3. CASE files[i].resolved[a] = NoKey
    <3>1. \A u \in 1..n : files[i].imports[u].alias = a =>
                            files[i].uses[u].as \notin {"loaded", "shared"}
      BY <1>1, <2>2, <2>3 DEF AliasHas, Followed
    <3>2. \A u \in 1..(n + 1) : files'[i].imports[u].alias = a =>
                                  files'[i].uses[u].as \notin {"loaded", "shared"}
      BY <1>2, <1>3, <1>5, <1>6, <1>9, <3>1 DEF Uses
    <3> QED
      BY <1>2, <2>1, <2>3, <3>2 DEF AliasHas, Followed, Uses
  <2>4. CASE files[i].resolved[a] # NoKey
    <3>1. PICK v \in 1..n : /\ files[i].imports[v].alias = a
                            /\ files[i].uses[v].as \in {"loaded", "shared"}
                            /\ files[i].uses[v].key = files[i].resolved[a]
      BY <1>1, <2>2, <2>4 DEF AliasHas, Followed, Uses
    <3>2. /\ v \in 1..(n + 1) /\ files'[i].imports[v].alias = a
          /\ files'[i].uses[v] = files[i].uses[v]
      BY <1>2, <1>3, <1>7, <3>1 DEF Uses
    <3> QED
      BY <1>2, <2>1, <2>4, <3>1, <3>2 DEF AliasHas, Followed, Uses
  <2> QED
    BY <2>3, <2>4
<1> QED
  BY <1>8, <1>9

LEMMA ReportStepInv == ReportInv /\ [Next]_vars => ReportInv'
<1> SUFFICES ASSUME ReportInv, [Next]_vars PROVE ReportInv'
  OBVIOUS
<1>0. GraphInv /\ GraphInv'
  BY GraphStep DEF ReportInv
<1>1. CASE ReadRoot \/ RootFails
  <2>1. Index' = {1} /\ files'[1].uses = <<>> /\ files'[1].resolved = [a \in Alias |-> NoKey]
    BY <1>0, <1>1, FirstFile
  <2>2. \A a \in Alias : AliasHas(1, a)'
    BY <2>1 DEF AliasHas, Uses
  <2>3. AllDeclared'
    <3>1. CASE ReadRoot
      <4>1. stack' = <<1>>
        BY <1>0, <3>1, FirstFile
      <4>2. 1 \in 1..Len(stack') /\ stack'[1] = 1
        BY <4>1
      <4>3. Open(1)'
        BY <4>2 DEF Open
      <4> QED
        BY <2>1, <4>3 DEF AllDeclared
    <3>2. CASE RootFails
      <4>1. files'[1].imports = <<>>
        BY <1>0, <3>2, FirstFile DEF ReadRoot, RootFails
      <4> QED
        BY <2>1, <4>1 DEF AllDeclared, Uses
    <3> QED
      BY <1>1, <3>1, <3>2
  <2> QED
    BY <1>0, <2>1, <2>2, <2>3 DEF ReportInv
<1>2. ASSUME NEW as \in Outcome, Ends(as) PROVE ReportInv'
  <2>0. importer \in Index /\ \A i \in Index \ {importer} : files'[i] = files[i]
    BY <1>2 DEF Ends
  <2>1. \A i \in Index, a \in Alias : AliasHas(i, a)'
    <3> SUFFICES ASSUME NEW i \in Index, NEW a \in Alias PROVE AliasHas(i, a)'
      OBVIOUS
    <3>1. CASE i = importer
      BY <1>2, <3>1, AliasEnds
    <3>2. CASE i # importer
      BY <2>0, <3>2 DEF ReportInv, AliasHas, Uses, Followed
    <3> QED
      BY <3>1, <3>2
  <2>2. PICK m \in Nat : m = Len(files) + 1
    BY <1>2 DEF Ends
  <2>3. \A i \in Index : Open(i) => Open(i)'
    BY <1>0, <1>2, StackAfter DEF Open
  <2>4. Open(importer)
    BY <1>0, <1>2, OpenFacts DEF GraphInv, OnceInv, Ends
  <2>5. \A i \in Index : ~Open(i)' => Len(files'[i].uses) = Len(files'[i].imports)
    BY <2>0, <2>3, <2>4 DEF ReportInv, AllDeclared, Uses
  <2>6. CASE as # "loaded"
    <3>1. Index' = Index
      BY <1>2, <2>6 DEF Ends
    <3> QED
      BY <1>0, <2>1, <2>5, <3>1 DEF ReportInv, AllDeclared, Uses
  <2>7. CASE as = "loaded"
    <3>1. /\ Index' = Index \cup {m}
          /\ files'[m].uses = <<>> /\ files'[m].resolved = [a \in Alias |-> NoKey]
      BY <1>2, <2>2, <2>7 DEF Ends, NewFile
    <3>2. \A a \in Alias : AliasHas(m, a)'
      BY <3>1 DEF AliasHas, Uses
    <3>3. Open(m)'
      BY <1>0, <1>2, <2>2, <2>7, StackAfter DEF Open
    <3>4. \A i \in Index', a \in Alias : AliasHas(i, a)'
      BY <2>1, <3>1, <3>2
    <3>5. AllDeclared'
      BY <2>5, <3>1, <3>3 DEF AllDeclared, Uses
    <3> QED
      BY <1>0, <3>4, <3>5 DEF ReportInv
  <2> QED
    BY <2>6, <2>7
<1>3. CASE Return
  <2>1. Len(files[importer].uses) = Len(files[importer].imports) /\ importer \in Index
    <3>1. importer \in Index /\ ~HasNext /\ TypeInv /\ files[importer] \in LoadedFile
      BY <1>0, <1>3, ReturnFacts DEF GraphInv, OnceInv, TypeInv, TypeOK, Index
    <3>2. Len(files[importer].uses) \in Nat /\ Len(files[importer].imports) \in Nat
      BY <3>1, LenProperties DEF LoadedFile
    <3> QED
      BY <3>1, <3>2 DEF HasNext, TypeInv, Shape
  <2>2. AllDeclared'
    BY <1>0, <1>3, <2>1, ReturnFacts DEF ReportInv, AllDeclared, Uses
  <2>3. \A i \in Index', a \in Alias : AliasHas(i, a)'
    BY <1>0, <1>3, ReturnFacts DEF ReportInv, AliasHas, Uses, Followed
  <2> QED
    BY <1>0, <2>2, <2>3 DEF ReportInv
<1>4. ASSUME files' = files, stack' = stack PROVE ReportInv'
  <2>1. Index' = Index /\ \A i : Open(i)' <=> Open(i)
    BY <1>4 DEF Index, Open
  <2>2. AllDeclared' /\ \A i \in Index', a \in Alias : AliasHas(i, a)'
    BY <1>4, <2>1 DEF ReportInv, AllDeclared, AliasHas, Uses, Followed
  <2> QED
    BY <1>0, <2>2 DEF ReportInv
<1>5. CASE CanonicalizeNext
  BY <1>4, <1>5 DEF CanonicalizeNext
<1>6. CASE UNCHANGED loaderVars
  BY <1>4, <1>6 DEF loaderVars
<1> QED
  BY <1>0, <1>1, <1>2, <1>3, <1>5, <1>6, StepKinds

LEMMA ReportInit == Init => ReportInv
BY GraphInit DEF Init, ReportInv, AllDeclared, Index

LEMMA ReportMeans == ReportInv => MissingAliasIsReported
<1> SUFFICES ASSUME ReportInv, pc = "done", NEW i \in Index
             PROVE  /\ Len(files[i].uses) = Len(files[i].imports)
                    /\ \A u \in 1..Len(files[i].imports) :
                         LET to == files[i].resolved[files[i].imports[u].alias] IN
                         IF to = NoKey THEN ~Followed(i, u)
                         ELSE \E j \in Index, v \in 1..Len(files[i].imports) :
                                /\ files[j].key = to
                                /\ files[i].imports[v].alias = files[i].imports[u].alias
                                /\ Followed(i, v)
                                /\ files[i].uses[v].key = to
  BY DEF MissingAliasIsReported
<1>1. ~Open(i)
  <2>1. stack = <<>>
    BY DEF ReportInv, GraphInv, OnceInv, TypeInv, Shape
  <2> QED
    BY <2>1 DEF Open
<1>2. Len(files[i].uses) = Len(files[i].imports)
  BY <1>1 DEF ReportInv, AllDeclared, Uses
<1> SUFFICES ASSUME NEW u \in 1..Len(files[i].imports)
             PROVE  LET to == files[i].resolved[files[i].imports[u].alias] IN
                    IF to = NoKey THEN ~Followed(i, u)
                    ELSE \E j \in Index, v \in 1..Len(files[i].imports) :
                           /\ files[j].key = to
                           /\ files[i].imports[v].alias = files[i].imports[u].alias
                           /\ Followed(i, v)
                           /\ files[i].uses[v].key = to
  BY <1>2
<1>3. PICK a \in Alias : a = files[i].imports[u].alias
  <2>1. files[i] \in LoadedFile
    BY DEF ReportInv, GraphInv, OnceInv, TypeInv, TypeOK, Index
  <2>2. files[i].imports[u] \in Import
    BY <2>1 DEF LoadedFile
  <2> QED
    BY <2>2 DEF Import
<1>4. AliasHas(i, a)
  BY DEF ReportInv
<1>5. files[i].resolved[a] # NoKey => \E j \in Index : files[j].key = files[i].resolved[a]
  BY DEF ReportInv, GraphInv, AliasesKnown
<1> QED
  BY <1>2, <1>3, <1>4, <1>5 DEF AliasHas, Uses

(* Once the load is done no call is open: every declaration of every       *)
(* loaded file has an outcome, an alias of the map leads to a loaded file, *)
(* and one that the map lacks was reported.                                *)
THEOREM EveryImportAccounted == Spec => []MissingAliasIsReported
BY ReportInit, ReportStepInv, ReportMeans, PTL DEF Spec
-----------------------------------------------------------------------------
(* E0401 is never a false alarm.  An open file reaches, through imports    *)
(* that were followed, every file opened after it; a path on the chain is  *)
(* that of an open file, and the importer was opened last.  Reaching is    *)
(* said with closed sets, which a new edge can only make fewer.            *)

OpenReach ==
  \A p, q \in 1..Len(stack) : p <= q =>
    \A C \in SUBSET Index : stack[p] \in C /\ ClosedUnderFollows(C) => stack[q] \in C

CycleKeysLoaded ==
  \A i \in Index : \A u \in 1..Len(Uses(i)) :
    Uses(i)[u].as = "E0401" => \E j \in Index : files[j].key = Uses(i)[u].key

CycleInv == GraphInv /\ OpenReach /\ CycleKeysLoaded /\ CyclesAreReal

(* A set closed after a declaration ended was closed before it.            *)
LEMMA ClosedBefore ==
  ASSUME GraphInv, NEW as, Ends(as), NEW C, ClosedUnderFollows(C)'
  PROVE  ClosedUnderFollows(C \cap Index)
<1> SUFFICES ASSUME NEW i \in C \cap Index, NEW j \in Index, Follows(i, j)
             PROVE  j \in C
  BY DEF ClosedUnderFollows
<1>1. PICK u \in 1..Len(files[i].uses) : /\ files[i].uses[u].as \in {"loaded", "shared"}
                                         /\ files[i].uses[u].key = files[j].key
  BY DEF Follows, Followed
<1>2. /\ files'[i].uses[u] = files[i].uses[u] /\ files'[j].key = files[j].key
      /\ Len(files[i].uses) \in Nat
      /\ Len(files'[i].uses) \in {Len(files[i].uses), Len(files[i].uses) + 1}
  BY <1>1, UsesAfter DEF Uses, Ends
<1>3. u \in 1..Len(files'[i].uses)
  BY <1>1, <1>2
<1>4. Follows(i, j)'
  BY <1>1, <1>2, <1>3 DEF Follows, Followed
<1>5. j \in Index'
  BY DEF Ends
<1> QED
  BY <1>4, <1>5 DEF ClosedUnderFollows

(* A path on the chain is the path of an open file.                        *)
LEMMA ChainIsOpen ==
  ASSUME GraphInv, OnChain(target)
  PROVE  \E p \in 1..Len(stack) : stack[p] \in Index /\ files[stack[p]].key = target
<1>1. chain \in Seq(Key) /\ Len(chain) = Len(stack)
  BY DEF GraphInv, OnceInv, TypeInv, TypeOK, OpenChain
<1>2. PICK p \in DOMAIN chain : chain[p] = target
  BY DEF OnChain, Range
<1>3. p \in 1..Len(stack)
  BY <1>1, <1>2
<1> QED
  BY <1>2, <1>3, OpenFacts DEF GraphInv, OpenChain, OnceInv

LEMMA CycleEnds == ASSUME CycleInv, NEW as \in Outcome, Ends(as), GraphInv' PROVE CycleInv'
<1>0. GraphInv
  BY DEF CycleInv
<1>1. PICK n \in Nat : n = Len(Uses(importer))
  BY <1>0, UsesAfter DEF Ends
<1>2. /\ importer \in Index /\ Index \subseteq Index'
      /\ \A i \in Index : files'[i].key = files[i].key
      /\ \A i \in Index \ {importer} : files'[i] = files[i]
  BY DEF Ends
<1>3. /\ Len(files'[importer].uses) = n + 1
      /\ files'[importer].uses[n + 1] = [as |-> as, key |-> target]
      /\ \A i \in Index : \A u \in 1..Len(Uses(i)) : files'[i].uses[u] = Uses(i)[u]
  BY <1>0, <1>1, UsesAfter
<1>4. PICK N \in Nat : N = Len(stack)
  BY <1>0, StackAfter
<1>5. /\ N \in 1..N /\ importer = stack[N]
      /\ \A p \in 1..N : p \in 1..Len(stack') /\ stack'[p] = stack[p] /\ stack[p] \in Index
  BY <1>0, <1>4, StackAfter DEF importer
<1>6. PICK m \in Nat : m = Len(files) + 1
  BY DEF Ends
<1>7. /\ as = "loaded" => /\ Index' = Index \cup {m} /\ m \notin Index
                            /\ files'[m].key = target /\ files'[m].uses = <<>>
                            /\ Len(stack') = N + 1 /\ stack'[N + 1] = m
      /\ as # "loaded" => Index' = Index /\ Len(stack') = N
  <2>1. CASE as = "loaded"
    <3>1. Index' = Index \cup {m} /\ m \notin Index
      BY <1>6, <2>1 DEF Ends
    <3>2. files'[m] = NewFile(target, disk[FileOf[target]], FALSE)
      BY <1>6, <2>1 DEF Ends
    <3>3. Len(stack') = N + 1 /\ stack'[N + 1] = m
      BY <1>0, <1>4, <1>6, <2>1, StackAfter
    <3> QED
      BY <2>1, <3>1, <3>2, <3>3 DEF NewFile
  <2>2. CASE as # "loaded"
    BY <1>0, <1>4, <2>2, StackAfter DEF Ends
  <2> QED
    BY <2>1, <2>2
<1>8. \A i, j \in Index' : files'[i].key = files'[j].key => i = j
  BY DEF GraphInv, OnceInv, LoadedOnce
<1>9. as = "E0401" => OnChain(target) /\ Index' = Index
  BY <1>7 DEF Ends
<1>10. \A p \in 1..N : p <= N
  OBVIOUS
\* Among the files that were open before, reaching is kept.
<1>11. \A C : ClosedUnderFollows(C)' =>
         \A p, q \in 1..N : p <= q /\ stack[p] \in C => stack[q] \in C
  <2> SUFFICES ASSUME NEW C, ClosedUnderFollows(C)', NEW p \in 1..N, NEW q \in 1..N, p <= q,
                      stack[p] \in C
               PROVE  stack[q] \in C
    OBVIOUS
  <2>1. ClosedUnderFollows(C \cap Index) /\ C \cap Index \in SUBSET Index
    BY <1>0, ClosedBefore
  <2>2. stack[p] \in C \cap Index
    BY <1>5
  <2> QED
    BY <1>4, <2>1, <2>2 DEF CycleInv, OpenReach
<1>12. OpenReach'
  <2> SUFFICES ASSUME NEW p \in 1..Len(stack'), NEW q \in 1..Len(stack'), p <= q,
                      NEW C \in SUBSET Index', stack'[p] \in C, ClosedUnderFollows(C)'
               PROVE  stack'[q] \in C
    BY DEF OpenReach
  <2>1. CASE q \in 1..N
    <3>1. p \in 1..N
      BY <2>1
    <3> QED
      BY <1>5, <1>11, <2>1, <3>1
  <2>2. CASE q \notin 1..N
    <3>1. as = "loaded"
      <4>1. as # "loaded" => Len(stack') = N
        BY <1>7
      <4> QED
        BY <2>2, <4>1
    <3>2. q = N + 1 /\ stack'[q] = m /\ m \in Index'
      <4>1. Len(stack') = N + 1 /\ stack'[N + 1] = m /\ m \in Index'
        BY <1>7, <3>1
      <4> QED
        BY <2>2, <4>1
    <3>3. CASE p = q
      BY <3>3
    <3>4. CASE p # q
      <4>1. p \in 1..N
        BY <3>2, <3>4
      <4>2. importer \in C
        BY <1>5, <1>10, <1>11, <4>1
      <4>3. n + 1 \in 1..(n + 1)
        OBVIOUS
      <4>4. ASSUME NEW i, i = importer PROVE m \in C
        <5>1. n + 1 \in 1..Len(files'[i].uses) /\ files'[i].uses[n + 1] = [as |-> as, key |-> target]
          BY <1>3, <4>3, <4>4
        <5>2. files'[i].uses[n + 1].as = "loaded" /\ files'[i].uses[n + 1].key = files'[m].key
          BY <1>7, <3>1, <5>1
        <5>3. Follows(i, m)'
          BY <5>1, <5>2 DEF Follows, Followed
        <5> QED
          BY <3>2, <4>2, <4>4, <5>3 DEF ClosedUnderFollows
      <4> QED
        BY <3>2, <4>4
    <3> QED
      BY <3>3, <3>4
  <2> QED
    BY <2>1, <2>2
\* The use that was added, and those that were there.
<1>13. \A i \in Index' : \A u \in 1..Len(files'[i].uses) :
         \/ i \in Index /\ u \in 1..Len(Uses(i)) /\ files'[i].uses[u] = Uses(i)[u]
         \/ i = importer /\ files'[i].uses[u] = [as |-> as, key |-> target]
  <2> SUFFICES ASSUME NEW i \in Index', NEW u \in 1..Len(files'[i].uses)
               PROVE  \/ i \in Index /\ u \in 1..Len(Uses(i)) /\ files'[i].uses[u] = Uses(i)[u]
                      \/ i = importer /\ files'[i].uses[u] = [as |-> as, key |-> target]
    OBVIOUS
  <2>1. CASE i = importer
    <3>1. u \in 1..n \/ u = n + 1
      BY <1>3, <2>1
    <3> QED
      BY <1>1, <1>2, <1>3, <2>1, <3>1
  <2>2. CASE i # importer
    <3>1. i \in Index
      <4>1. CASE as = "loaded"
        <5>1. files'[m].uses = <<>> /\ (i \in Index \/ i = m)
          BY <1>7, <4>1
        <5> QED
          BY <5>1
      <4>2. CASE as # "loaded"
        BY <1>7, <4>2
      <4> QED
        BY <4>1, <4>2
    <3> QED
      BY <1>2, <2>2, <3>1 DEF Uses
  <2> QED
    BY <2>1, <2>2
<1>14. CycleKeysLoaded'
  <2> SUFFICES ASSUME NEW i \in Index', NEW u \in 1..Len(files'[i].uses),
                      files'[i].uses[u].as = "E0401"
               PROVE  \E j \in Index' : files'[j].key = files'[i].uses[u].key
    BY DEF CycleKeysLoaded, Uses
  <2>1. CASE i \in Index /\ u \in 1..Len(Uses(i)) /\ files'[i].uses[u] = Uses(i)[u]
    BY <1>2, <2>1 DEF CycleInv, CycleKeysLoaded
  <2>2. CASE files'[i].uses[u] = [as |-> as, key |-> target]
    <3>1. as = "E0401" /\ files'[i].uses[u].key = target
      BY <2>2
    <3>2. PICK j \in Index : files[j].key = target
      BY <1>0, <1>9, <3>1, ChainIsOpen
    <3> QED
      BY <1>2, <3>1, <3>2
  <2> QED
    BY <1>13, <2>1, <2>2
<1>15. CyclesAreReal'
  <2> SUFFICES ASSUME NEW i \in Index', NEW j \in Index', NEW u \in 1..Len(files'[i].uses),
                      files'[i].uses[u] = [as |-> "E0401", key |-> files'[j].key],
                      NEW C \in SUBSET Index', j \in C, ClosedUnderFollows(C)'
               PROVE  i \in C
    BY DEF CyclesAreReal
  <2>1. CASE i \in Index /\ u \in 1..Len(Uses(i)) /\ files'[i].uses[u] = Uses(i)[u]
    <3>1. PICK k \in Index : files[k].key = Uses(i)[u].key
      BY <2>1 DEF CycleInv, CycleKeysLoaded
    <3>2. k = j
      BY <1>2, <1>8, <2>1, <3>1
    <3>3. files[i].uses[u] = [as |-> "E0401", key |-> files[j].key] /\ j \in Index
      BY <1>2, <2>1, <3>1, <3>2 DEF Uses
    <3>4. ClosedUnderFollows(C \cap Index) /\ C \cap Index \in SUBSET Index /\ j \in C \cap Index
      BY <1>0, <3>3, ClosedBefore
    <3> QED
      BY <2>1, <3>3, <3>4 DEF CycleInv, CyclesAreReal, Uses
  <2>2. CASE i = importer /\ files'[i].uses[u] = [as |-> as, key |-> target]
    <3>1. as = "E0401" /\ files'[j].key = target
      <4>1. [as |-> as, key |-> target] = [as |-> "E0401", key |-> files'[j].key]
        BY <2>2
      <4> QED
        BY <4>1
    <3>2. PICK p \in 1..N : stack[p] \in Index /\ files[stack[p]].key = target
      BY <1>0, <1>4, <1>9, <3>1, ChainIsOpen
    <3>3. stack[p] = j
      <4>1. PICK k \in Index : k = stack[p]
        BY <3>2
      <4>2. k \in Index' /\ files'[k].key = files'[j].key
        BY <1>2, <3>1, <3>2, <4>1
      <4> QED
        BY <1>8, <4>1, <4>2
    <3> QED
      BY <1>5, <1>10, <1>11, <2>2, <3>3
  <2> QED
    BY <1>13, <2>1, <2>2
<1> QED
  BY <1>12, <1>14, <1>15 DEF CycleInv

LEMMA CycleStep == CycleInv /\ [Next]_vars => CycleInv'
<1> SUFFICES ASSUME CycleInv, [Next]_vars PROVE CycleInv'
  OBVIOUS
<1>0. GraphInv /\ GraphInv'
  BY GraphStep DEF CycleInv
<1>1. CASE ReadRoot \/ RootFails
  <2>1. Index' = {1} /\ files'[1].uses = <<>> /\ (stack' = <<1>> \/ stack' = <<>>)
    BY <1>0, <1>1, FirstFile
  <2>2. \A p \in 1..Len(stack') : stack'[p] = 1
    BY <2>1
  <2> QED
    BY <1>0, <2>1, <2>2 DEF CycleInv, OpenReach, CycleKeysLoaded, CyclesAreReal, Uses
<1>2. ASSUME NEW as \in Outcome, Ends(as) PROVE CycleInv'
  BY <1>0, <1>2, CycleEnds
<1>3. ASSUME files' = files,
             \A p \in 1..Len(stack') : p \in 1..Len(stack) /\ stack'[p] = stack[p]
      PROVE  CycleInv'
  <2>1. Index' = Index /\ \A C : ClosedUnderFollows(C)' <=> ClosedUnderFollows(C)
    BY <1>3 DEF Index, ClosedUnderFollows, Follows, Followed
  <2>2. OpenReach'
    BY <1>3, <2>1 DEF CycleInv, OpenReach
  <2>3. CycleKeysLoaded' /\ CyclesAreReal'
    BY <1>3, <2>1 DEF CycleInv, CycleKeysLoaded, CyclesAreReal, Uses
  <2> QED
    BY <1>0, <2>2, <2>3 DEF CycleInv
<1>4. CASE Return
  BY <1>0, <1>3, <1>4, ReturnFacts
<1>5. CASE CanonicalizeNext
  BY <1>3, <1>5 DEF CanonicalizeNext
<1>6. CASE UNCHANGED loaderVars
  BY <1>3, <1>6 DEF loaderVars
<1> QED
  BY <1>0, <1>1, <1>2, <1>4, <1>5, <1>6, StepKinds

LEMMA CycleInit == Init => CycleInv
<1> SUFFICES ASSUME Init PROVE CycleInv
  OBVIOUS
<1>1. Index = {} /\ 1..Len(stack) = {}
  BY DEF Init, Index
<1> QED
  BY <1>1, GraphInit DEF CycleInv, OpenReach, CycleKeysLoaded, CyclesAreReal

(* An import is reported as a cycle only if the file it names does lead    *)
(* back, through imports that were followed, to the file that declares it: *)
(* the chain that walk_imports_of pushes to and pops from is neither too   *)
(* long nor too short.                                                     *)
THEOREM NoFalseCycle == Spec => []CyclesAreReal
<1>1. CycleInv => CyclesAreReal
  BY DEF CycleInv
<1> QED
  BY CycleInit, CycleStep, <1>1, PTL DEF Spec
-----------------------------------------------------------------------------
(* The working set is what the root reaches on the disk.  While nobody     *)
(* saves, a loaded file holds what the disk holds, a use that ended names  *)
(* the path its declaration resolves to, which is loaded unless it cannot  *)
(* be read, and no file is loaded that the root does not reach.            *)

AsOnDisk(i) ==
  /\ Readable(files[i].key)
  /\ files[i].imports = disk[FileOf[files[i].key]]

UseOnDisk(i, u) ==
  /\ Uses(i)[u].key = Canonicalize(files[i].imports[u].path)
  /\ Readable(Uses(i)[u].key) => \E j \in Index : files[j].key = Uses(i)[u].key

Undisturbed == saves = 0 /\ Readable(Root)

DiskParts ==
  /\ \A i \in Index : AsOnDisk(i)
  /\ \A i \in Index : \A u \in 1..Len(Uses(i)) : UseOnDisk(i, u)
  /\ target # NoKey => target = Canonicalize(declaration.path)
  /\ \A C \in SUBSET Key : (Root \in C /\ ClosedOnDisk(C)) => \A i \in Index : files[i].key \in C

DiskInv == ReportInv /\ (Undisturbed => DiskParts)

(* What a declaration resolves to is among the paths its file imports.     *)
LEMMA DeclarationImported ==
  ASSUME GraphInv, stack # <<>>, HasNext, NEW i \in Index, i = importer, AsOnDisk(i)
  PROVE  Canonicalize(declaration.path) \in ImportedBy(files[i].key)
<1>1. TypeOK /\ files[i] \in LoadedFile
  BY DEF GraphInv, OnceInv, TypeInv, TypeOK, Index
<1>2. Len(files[i].uses) + 1 \in 1..Len(files[i].imports)
  BY <1>1, DeclarationType
<1>3. PICK w : w = Len(files[i].uses) + 1
  OBVIOUS
<1>4. declaration = files[i].imports[w] /\ w \in 1..Len(files[i].imports)
  BY <1>2, <1>3 DEF declaration
<1>5. files[i].imports \in Seq(Import) /\ files[i].imports = disk[FileOf[files[i].key]]
  BY <1>1 DEF LoadedFile, AsOnDisk
<1>6. w \in DOMAIN disk[FileOf[files[i].key]]
  BY <1>4, <1>5
<1> QED
  BY <1>4, <1>5, <1>6 DEF ImportedBy

(* However a declaration ends, the file it names is loaded or unreadable.  *)
LEMMA EndsLoaded ==
  ASSUME GraphInv, NEW as \in Outcome, Ends(as), Readable(target)
  PROVE  \E j \in Index' : files'[j].key = target
<1>1. /\ Index \subseteq Index' /\ pc = "walking"
      /\ \A i \in Index : files'[i].key = files[i].key
  BY DEF Ends
<1>2. CASE as = "loaded"
  <2>1. PICK m \in Nat : m = Len(files) + 1
    BY DEF Ends
  <2>2. Index' = Index \cup {m} /\ files'[m] = NewFile(target, disk[FileOf[target]], FALSE)
    BY <1>2, <2>1 DEF Ends
  <2>3. files'[m].key = target
    BY <2>2 DEF NewFile
  <2> QED
    BY <2>2, <2>3
<1>3. CASE as = "E0401"
  <2>1. OnChain(target)
    BY <1>3 DEF Ends
  <2>2. PICK j \in Index : files[j].key = target
    BY <2>1, ChainIsOpen
  <2> QED
    BY <1>1, <2>2
<1>4. CASE as = "shared"
  <2>1. target \in visited
    BY <1>4 DEF Ends, Visited
  <2>2. visited = {files[i].key : i \in Index}
    BY <1>1 DEF GraphInv, OnceInv, LoadedOnce
  <2>3. PICK j \in Index : files[j].key = target
    BY <2>1, <2>2
  <2> QED
    BY <1>1, <2>3
<1>5. CASE as = "E0400"
  BY <1>5 DEF Ends
<1> QED
  BY <1>2, <1>3, <1>4, <1>5 DEF Outcome

LEMMA DiskEnds ==
  ASSUME GraphInv, Undisturbed, DiskParts, NEW as \in Outcome, Ends(as)
  PROVE  DiskParts'
<1>1. PICK i \in Index : i = importer
  BY DEF Ends
<1>2. PICK n \in Nat : n = Len(Uses(i))
  BY UsesAfter
<1>3. /\ Len(files'[i].uses) = n + 1
      /\ files'[i].uses[n + 1] = [as |-> as, key |-> target]
      /\ declaration = files[i].imports[n + 1]
      /\ \A j \in Index : \A u \in 1..Len(Uses(j)) : files'[j].uses[u] = Uses(j)[u]
  BY <1>1, <1>2, UsesAfter
<1>4. /\ Index \subseteq Index' /\ disk' = disk /\ target' = NoKey
      /\ target \in Key /\ target # NoKey
      /\ \A j \in Index : files'[j].key = files[j].key /\ files'[j].imports = files[j].imports
      /\ \A j \in Index \ {i} : files'[j] = files[j]
  BY <1>1, LoaderAssumption DEF Ends
<1>5. PICK m \in Nat : m = Len(files) + 1
  BY DEF Ends
<1>6. /\ as = "loaded" => /\ Index' = Index \cup {m} /\ Readable(target)
                          /\ files'[m].key = target /\ files'[m].uses = <<>>
                          /\ files'[m].imports = disk[FileOf[target]]
      /\ as # "loaded" => Index' = Index
  <2>1. CASE as = "loaded"
    <3>1. Index' = Index \cup {m} /\ Readable(target)
      BY <1>5, <2>1 DEF Ends
    <3>2. files'[m] = NewFile(target, disk[FileOf[target]], FALSE)
      BY <1>5, <2>1 DEF Ends
    <3> QED
      BY <2>1, <3>1, <3>2 DEF NewFile
  <2>2. CASE as # "loaded"
    BY <2>2 DEF Ends
  <2> QED
    BY <2>1, <2>2
<1>7. /\ \A k : Readable(k)' <=> Readable(k)
      /\ \A k : Canonicalize(k)' = Canonicalize(k)
      /\ \A k : ImportedBy(k)' = ImportedBy(k)
      /\ \A C : ClosedOnDisk(C)' <=> ClosedOnDisk(C)
  BY <1>4 DEF Readable, Canonicalize, Exists, ImportedBy, ClosedOnDisk
<1>8. \A j \in Index' : j \in Index \/ (j = m /\ as = "loaded")
  <2>1. CASE as = "loaded"
    BY <1>6, <2>1
  <2>2. CASE as # "loaded"
    BY <1>6, <2>2
  <2> QED
    BY <2>1, <2>2
<1>9. ASSUME NEW j \in Index' PROVE AsOnDisk(j)'
  <2>1. CASE j \in Index
    BY <1>4, <1>7, <2>1 DEF DiskParts, AsOnDisk
  <2>2. CASE j = m /\ as = "loaded"
    BY <1>4, <1>6, <1>7, <2>2 DEF AsOnDisk
  <2> QED
    BY <1>8, <2>1, <2>2
<1>10. ASSUME NEW j \in Index', NEW u \in 1..Len(files'[j].uses) PROVE UseOnDisk(j, u)'
  <2>1. CASE j \in Index /\ u \in 1..Len(Uses(j))
    <3>1. UseOnDisk(j, u) /\ files'[j].uses[u] = Uses(j)[u]
      BY <1>3, <2>1 DEF DiskParts
    <3> QED
      BY <1>4, <1>7, <2>1, <3>1 DEF UseOnDisk, Uses
  <2>2. CASE j = i /\ u = n + 1
    <3>1. files'[j].uses[u].key = target /\ files'[j].imports[u] = declaration
      BY <1>3, <1>4, <2>2
    <3>2. target = Canonicalize(declaration.path)
      BY <1>4 DEF DiskParts
    <3>3. Readable(target) => \E k \in Index' : files'[k].key = target
      BY EndsLoaded
    <3> QED
      BY <1>7, <3>1, <3>2, <3>3 DEF UseOnDisk, Uses
  <2>3. j = i => u \in 1..n \/ u = n + 1
    BY <1>3
  <2>4. j # i => j \in Index /\ u \in 1..Len(Uses(j))
    <3>1. CASE j \in Index
      BY <1>4, <3>1 DEF Uses
    <3>2. CASE j = m /\ as = "loaded"
      <4>1. files'[j].uses = <<>>
        BY <1>6, <3>2
      <4> QED
        BY <4>1
    <3> QED
      BY <1>8, <3>1, <3>2
  <2> QED
    BY <1>2, <2>1, <2>2, <2>3, <2>4
<1>11. ASSUME NEW C \in SUBSET Key, Root \in C, ClosedOnDisk(C)' PROVE \A j \in Index' : files'[j].key \in C
  <2>1. ClosedOnDisk(C) /\ \A j \in Index : files[j].key \in C
    BY <1>7, <1>11 DEF DiskParts
  <2>2. CASE as = "loaded"
    <3>1. stack # <<>> /\ HasNext
      BY <1>4 DEF GraphInv, OnceInv, TypeInv, Shape, Ends
    <3>2. AsOnDisk(i) /\ target = Canonicalize(declaration.path)
      BY <1>4 DEF DiskParts
    <3>3. target \in ImportedBy(files[i].key)
      BY <1>1, <3>1, <3>2, DeclarationImported
    <3>4. Readable(files[i].key) /\ Readable(target) /\ files[i].key \in C
      BY <1>6, <2>1, <2>2, <3>2 DEF AsOnDisk
    <3>5. target \in C
      BY <2>1, <3>3, <3>4 DEF ClosedOnDisk
    <3> QED
      BY <1>4, <1>6, <1>8, <2>1, <2>2, <3>5
  <2>3. CASE as # "loaded"
    BY <1>4, <1>8, <2>1, <2>3
  <2> QED
    BY <2>2, <2>3
<1> QED
  BY <1>4, <1>9, <1>10, <1>11 DEF DiskParts, Uses

LEMMA DiskStep == DiskInv /\ [Next]_vars => DiskInv'
<1> SUFFICES ASSUME DiskInv, [Next]_vars, Undisturbed' PROVE DiskParts'
  BY ReportStepInv DEF DiskInv
<1>0. GraphInv /\ saves \in Nat
  BY DEF DiskInv, ReportInv, GraphInv, OnceInv, TypeInv, TypeOK
<1>1. CASE ReadRoot \/ RootFails
  <2>1. /\ Index' = {1} /\ files'[1].key = Root /\ files'[1].uses = <<>> /\ target' = NoKey
        /\ files'[1].imports = IF ReadRoot THEN disk[FileOf[Root]] ELSE <<>>
        /\ RootFails => ~Readable(Root)
        /\ disk' = disk
    BY <1>0, <1>1, FirstFile
  <2>2. Readable(Root) /\ ReadRoot
    BY <1>1, <2>1 DEF Undisturbed, Readable
  <2>3. AsOnDisk(1)'
    BY <2>1, <2>2 DEF AsOnDisk, Readable
  <2> QED
    BY <2>1, <2>3 DEF DiskParts, Uses
<1>2. ASSUME NEW as \in Outcome, Ends(as) PROVE DiskParts'
  <2>1. disk' = disk /\ saves' = saves
    BY <1>2 DEF Ends
  <2>2. Undisturbed
    BY <2>1 DEF Undisturbed, Readable
  <2> QED
    BY <1>0, <1>2, <2>2, DiskEnds DEF DiskInv
<1>3. ASSUME files' = files, disk' = disk, saves' = saves,
             target' # NoKey => target' = Canonicalize(declaration.path)'
      PROVE  DiskParts'
  <2>1. Undisturbed /\ Index' = Index
    BY <1>3 DEF Undisturbed, Readable, Index
  <2>2. DiskParts
    BY <2>1 DEF DiskInv
  <2>3. /\ \A k : Readable(k)' <=> Readable(k)
        /\ \A k : Canonicalize(k)' = Canonicalize(k)
        /\ \A C : ClosedOnDisk(C)' <=> ClosedOnDisk(C)
    BY <1>3 DEF Readable, Canonicalize, Exists, ImportedBy, ClosedOnDisk
  <2>4. \A i \in Index' : AsOnDisk(i)'
    BY <1>3, <2>1, <2>2, <2>3 DEF DiskParts, AsOnDisk
  <2>5. \A i \in Index' : \A u \in 1..Len(files'[i].uses) : UseOnDisk(i, u)'
    BY <1>3, <2>1, <2>2, <2>3 DEF DiskParts, UseOnDisk, Uses
  <2>6. \A C \in SUBSET Key : (Root \in C /\ ClosedOnDisk(C)') => \A i \in Index' : files'[i].key \in C
    BY <1>3, <2>1, <2>2, <2>3 DEF DiskParts
  <2> QED
    BY <1>3, <2>4, <2>5, <2>6 DEF DiskParts, Uses
<1>4. CASE Return
  <2>1. target' = NoKey
    BY <1>4 DEF Return
  <2> QED
    BY <1>0, <1>3, <1>4, <2>1, ReturnFacts
<1>5. CASE CanonicalizeNext
  <2>1. /\ files' = files /\ disk' = disk /\ saves' = saves /\ stack' = stack
        /\ target' = Canonicalize(declaration.path)
    BY <1>5 DEF CanonicalizeNext
  <2>2. target' = Canonicalize(declaration.path)'
    BY <2>1 DEF Canonicalize, Exists, declaration, importer
  <2> QED
    BY <1>3, <2>1, <2>2
<1>6. CASE UNCHANGED loaderVars /\ UNCHANGED <<disk, saves>>
  <2>1. /\ files' = files /\ disk' = disk /\ saves' = saves /\ stack' = stack /\ target' = target
    BY <1>6 DEF loaderVars
  <2>2. Undisturbed
    BY <2>1 DEF Undisturbed, Readable
  <2>3. target # NoKey => target = Canonicalize(declaration.path)
    BY <2>2 DEF DiskInv, DiskParts
  <2>4. Canonicalize(declaration.path)' = Canonicalize(declaration.path)
    BY <2>1 DEF Canonicalize, Exists, declaration, importer
  <2> QED
    BY <1>3, <2>1, <2>3, <2>4
<1>7. CASE saves' = saves + 1
  BY <1>0, <1>7 DEF Undisturbed
<1> QED
  BY <1>0, <1>1, <1>2, <1>4, <1>5, <1>6, <1>7, StepKinds

LEMMA DiskInit == Init => DiskInv
BY ReportInit DEF Init, DiskInv, DiskParts, Index

LEMMA DiskMeans == DiskInv => LoadsTheReachable
<1> SUFFICES ASSUME DiskInv, pc = "done", saves = 0, Readable(Root)
             PROVE  LET loaded == {files[i].key : i \in Index} IN
                    /\ ClosedOnDisk(loaded)
                    /\ \A C \in SUBSET Key : (Root \in C /\ ClosedOnDisk(C)) => loaded \subseteq C
  BY DEF LoadsTheReachable
<1> DEFINE loaded == {files[i].key : i \in Index}
<1>1. DiskParts
  BY DEF DiskInv, Undisturbed
<1>2. \A i \in Index : Len(files[i].uses) = Len(files[i].imports)
  <2>1. stack = <<>>
    BY DEF DiskInv, ReportInv, GraphInv, OnceInv, TypeInv, Shape
  <2>2. \A i : ~Open(i)
    BY <2>1 DEF Open
  <2> QED
    BY <2>2 DEF DiskInv, ReportInv, AllDeclared, Uses
<1>3. ASSUME NEW k \in loaded, Readable(k), NEW m \in ImportedBy(k), Readable(m)
      PROVE  m \in loaded
  <2>1. PICK i \in Index : k = files[i].key
    OBVIOUS
  <2>2. AsOnDisk(i) /\ files[i] \in LoadedFile
    BY <1>1 DEF DiskParts, DiskInv, ReportInv, GraphInv, OnceInv, TypeInv, TypeOK, Index
  <2>3. PICK u \in DOMAIN disk[FileOf[k]] : m = Canonicalize(disk[FileOf[k]][u].path)
    BY <1>3 DEF ImportedBy
  <2>4. /\ files[i].imports = disk[FileOf[k]] /\ files[i].imports \in Seq(Import)
    BY <2>1, <2>2 DEF AsOnDisk, LoadedFile
  <2>5. u \in 1..Len(files[i].imports)
    BY <2>3, <2>4
  <2>6. UseOnDisk(i, u)
    BY <1>1, <1>2, <2>5 DEF DiskParts, Uses
  <2> QED
    BY <1>3, <2>3, <2>4, <2>6 DEF UseOnDisk
<1>4. ClosedOnDisk(loaded)
  BY <1>3 DEF ClosedOnDisk
<1>5. \A C \in SUBSET Key : (Root \in C /\ ClosedOnDisk(C)) => loaded \subseteq C
  BY <1>1 DEF DiskParts
<1> QED
  BY <1>4, <1>5

(* If nobody saves meanwhile, a load ends with the root's readable imports *)
(* and theirs, all of them and nothing else: whatever the order the walk   *)
(* met them in, and although it stops at the ones it has seen.             *)
THEOREM LoadIsReachability == Spec => []LoadsTheReachable
BY DiskInit, DiskStep, DiskMeans, PTL DEF Spec

-----------------------------------------------------------------------------
(* The walk. *)

(* What the loader's invariants leave out: the root, and why an import was *)
(* called unreadable.                                                      *)
RootParts ==
  /\ pc = "walking" => Readable(Root)
  /\ pc # "start" => /\ 1 \in Index /\ files[1].key = Root
                     /\ \A i \in Index : files[i].rootError <=> ~Readable(Root)
  /\ \A i \in Index : \A u \in 1..Len(Uses(i)) : \A k :
       (Uses(i)[u].as = "E0400" /\ Uses(i)[u].key = k) => ~Readable(k)

\* What the files hold is what the parser makes of a text.
TextsAre ==
  \A f \in File : /\ IsSlice(text[f].slice)
                  /\ QualifiedRefs(text[f].slice) \subseteq Alias \X Range(Order)
                  /\ text[f].faults \subseteq ParseClass

ReportIs == report = [k \in {files[i].key : i \in Index} |-> Diagnostics(At(k))]

WalkInv ==
  /\ DiskInv /\ CycleInv /\ RootParts
  /\ saves = 0
  /\ TextsAre
  /\ report # NoReport => pc = "done" /\ ReportIs

LEMMA RootNow ==
  ASSUME \A k : Readable(k)' <=> Readable(k),
         pc' = "walking" => Readable(Root),
         1 \in Index', files'[1].key = Root,
         \A i \in Index' : files'[i].rootError <=> ~Readable(Root)',
         \A i \in Index' : \A u \in 1..Len(files'[i].uses) : \A k :
           (files'[i].uses[u].as = "E0400" /\ files'[i].uses[u].key = k) => ~Readable(k)
  PROVE  RootParts'
<1>1. \A i \in Index' : \A u \in 1..Len(files'[i].uses) : \A k :
        (files'[i].uses[u].as = "E0400" /\ files'[i].uses[u].key = k) => ~Readable(k)'
  OBVIOUS
<1>2. (pc = "walking" => Readable(Root))'
  OBVIOUS
<1> QED
  BY <1>1, <1>2, Zenon DEF RootParts, Uses

LEMMA RootStep ==
  ASSUME GraphInv, RootParts, LoaderStep
  PROVE  RootParts' /\ UNCHANGED <<disk, saves>>
<1>1. UNCHANGED <<disk, saves>>
  BY DEF LoaderStep, ReadRoot, RootFails, CanonicalizeNext, ReportCycle, ShareLoaded, ReadImport,
         ImportFails, Return
<1>2. \A k : Readable(k)' <=> Readable(k)
  BY <1>1 DEF Readable
<1>3. CASE ReadRoot \/ RootFails
  <2>1. /\ Index' = {1} /\ files'[1].key = Root /\ files'[1].uses = <<>>
        /\ files'[1].rootError = RootFails
        /\ ReadRoot => Readable(Root)
        /\ RootFails => ~Readable(Root)
    BY <1>3, FirstFile
  <2>2. pc' \in {"walking", "done"} /\ (pc' = "walking" => ReadRoot)
    BY <1>3 DEF ReadRoot, RootFails
  <2>3. files'[1].rootError <=> ~Readable(Root)
    BY <1>3, <2>1
  <2>4. \A i \in Index' : i = 1 /\ 1..Len(files'[i].uses) = {}
    BY <2>1
  <2>5. Readable(Root)' <=> Readable(Root)
    BY <1>2
  <2>6. pc' = "walking" => Readable(Root)
    BY <2>1, <2>2
  <2>7. 1 \in Index' /\ \A i \in Index' : files'[i].rootError <=> ~Readable(Root)'
    BY <2>1, <2>3, <2>4, <2>5, Zenon
  <2>8. \A i \in Index' : \A u \in 1..Len(files'[i].uses) : \A k :
          (files'[i].uses[u].as = "E0400" /\ files'[i].uses[u].key = k) => ~Readable(k)
    BY <2>4
  <2>9. files'[1].key = Root
    BY <2>1
  <2> QED
    BY <1>1, <1>2, <2>6, <2>7, <2>8, <2>9, RootNow
<1>4. ASSUME NEW as \in Outcome, Ends(as) PROVE RootParts'
  <2>1. /\ pc = "walking" /\ pc' = pc /\ Readable(Root) /\ 1 \in Index /\ Index \subseteq Index'
        /\ \A i \in Index : /\ files'[i].key = files[i].key
                            /\ files'[i].rootError = files[i].rootError
                            /\ ~files[i].rootError
        /\ \A i \in Index \ {importer} : files'[i] = files[i]
        /\ importer \in Index
    BY <1>4 DEF Ends, RootParts
  <2>2. \A i \in Index' : i \in Index \/ (files'[i].rootError = FALSE /\ files'[i].uses = <<>>)
    <3>1. CASE as = "loaded"
      <4>1. PICK m : m = Len(files) + 1
        OBVIOUS
      <4>2. Index' = Index \cup {m} /\ files'[m] = NewFile(target, disk[FileOf[target]], FALSE)
        BY <1>4, <3>1, <4>1 DEF Ends
      <4>3. files'[m].rootError = FALSE /\ files'[m].uses = <<>>
        BY <4>2 DEF NewFile
      <4> QED
        BY <4>2, <4>3
    <3>2. CASE as # "loaded"
      BY <1>4, <3>2 DEF Ends
    <3> QED
      BY <3>1, <3>2
  <2>3. ASSUME NEW i \in Index', NEW u \in 1..Len(files'[i].uses), NEW k,
               files'[i].uses[u].as = "E0400" /\ files'[i].uses[u].key = k
        PROVE  ~Readable(k)
    <3>1. CASE i \in Index /\ u \in 1..Len(Uses(i))
      BY <1>4, <2>3, <3>1, UsesAfter DEF RootParts
    <3>2. CASE i = importer /\ u = Len(Uses(i)) + 1
      <4>1. files'[i].uses[u] = [as |-> as, key |-> target]
        BY <1>4, <3>2, UsesAfter
      <4>2. as = "E0400" /\ ~Readable(target)
        BY <1>4, <2>3, <4>1 DEF Ends
      <4> QED
        BY <2>3, <4>1, <4>2
    <3>3. i \in Index => Len(Uses(i)) \in Nat /\
            Len(files'[i].uses) = IF i = importer THEN Len(Uses(i)) + 1 ELSE Len(Uses(i))
      BY <1>4, UsesAfter
    <3>4. i \in Index
      <4>1. files'[i].uses = <<>> => FALSE
        BY <2>3
      <4> QED BY <2>2, <4>1
    <3>5. u \in 1..Len(Uses(i)) \/ (i = importer /\ u = Len(Uses(i)) + 1)
      BY <3>3, <3>4
    <3> QED
      BY <3>1, <3>2, <3>4, <3>5
  <2>4. pc' # "start" /\ files'[1].key = Root /\ 1 \in Index'
    BY <2>1 DEF RootParts
  <2>5. \A i \in Index' : ~files'[i].rootError
    BY <2>1, <2>2
  <2> QED
    BY <1>2, <2>1, <2>3, <2>4, <2>5, RootNow
<1>5. ASSUME files' = files, pc = "walking", pc' \in {"walking", "done"} PROVE RootParts'
  <2>1. Index' = Index /\ Readable(Root) /\ pc # "start"
    BY <1>5 DEF RootParts, Index
  <2>2. Readable(Root)'
    BY <1>2, <2>1
  <2>3. 1 \in Index' /\ files'[1].key = Root
    BY <1>5, <2>1 DEF RootParts
  <2>4. \A i \in Index' : files'[i].rootError <=> ~Readable(Root)'
    BY <1>5, <2>1, <2>2, Zenon DEF RootParts
  <2>5. \A i \in Index' : \A u \in 1..Len(files'[i].uses) : \A k :
          (files'[i].uses[u].as = "E0400" /\ files'[i].uses[u].key = k) => ~Readable(k)
    BY <1>5, <2>1 DEF RootParts, Uses
  <2> QED
    BY <1>2, <1>5, <2>1, <2>3, <2>4, <2>5, RootNow
<1>6. Return \/ CanonicalizeNext => RootParts'
  BY <1>5, ReturnFacts DEF Return, CanonicalizeNext
<1>7. ReadRoot \/ RootFails \/ Return \/ CanonicalizeNext \/ \E as \in Outcome : Ends(as)
  BY EndsSomehow DEF LoaderStep
<1> QED
  BY <1>1, <1>3, <1>4, <1>6, <1>7

LEMMA WalkBegins == WalkInit => WalkInv
<1> SUFFICES ASSUME WalkInit PROVE WalkInv
  OBVIOUS
<1>1. Init /\ report = NoReport /\ saves = 0 /\ pc = "start" /\ files = <<>>
  BY DEF WalkInit, Init
<1>2. RootParts
  BY <1>1 DEF RootParts, Index
<1>3. TextsAre
  <2>1. PICK w \in Worlds : text = w.text
    BY DEF WalkInit
  <2> QED
    BY <2>1, WalkAssumption DEF TextsAre
<1> QED
  BY <1>1, <1>2, <1>3, DiskInit, CycleInit DEF WalkInv

(* What the report is made of does not change when the loader is over.     *)
LEMMA ReportStays ==
  ASSUME UNCHANGED <<disk, files, text>>
  PROVE  \A j : Diagnostics(j)' = Diagnostics(j)
<1>1. Index' = Index /\ \A i : TextOf(i)' = TextOf(i)
  BY DEF Index, TextOf
<1>2. \A i : HasSlice(i)' <=> HasSlice(i)
  BY <1>1 DEF HasSlice
<1>3. \A i : SliceOf(i)' = SliceOf(i)
  BY <1>1, <1>2 DEF SliceOf
<1>4. \A k : At(k)' = At(k)
  BY <1>1 DEF At
<1>5. \A i : LoaderDiagnostics(i)' = LoaderDiagnostics(i)
  BY <1>1 DEF LoaderDiagnostics
<1>6. \A i : SingleFile(i)' = SingleFile(i)
  BY <1>2, <1>3 DEF SingleFile
<1>7. \A i, r : UnresolvedRef(i, r)' = UnresolvedRef(i, r)
  BY <1>3, <1>4 DEF UnresolvedRef
<1>8. \A i : CrossSlice(i)' = CrossSlice(i)
  BY <1>3, <1>7 DEF CrossSlice
<1>9. \A i : CrossReferenced(i)' = CrossReferenced(i)
  BY <1>1, <1>3 DEF CrossReferenced
<1>10. \A i : UsedAliases(i)' = UsedAliases(i)
  BY <1>3 DEF UsedAliases
<1>11. \A i : UnusedImports(i)' = UnusedImports(i)
  BY <1>10 DEF UnusedImports
<1>12. \A i : DuplicateTargets(i)' = DuplicateTargets(i)
  BY DEF DuplicateTargets
<1>13. \A i : Shadowed(i)' = Shadowed(i)
  BY <1>3, <1>4 DEF Shadowed
<1>14. \A i : Composition(i)' = Composition(i)
  BY <1>2, <1>11, <1>12, <1>13 DEF Composition
<1>15. \A j, d : Suppressed(j, d)' <=> Suppressed(j, d)
  BY <1>9 DEF Suppressed
<1> QED
  BY <1>1, <1>5, <1>6, <1>8, <1>14, <1>15 DEF Diagnostics

LEMMA WalkStep == WalkInv /\ [WalkNext]_walkVars => WalkInv'
<1> SUFFICES ASSUME WalkInv, [WalkNext]_walkVars PROVE WalkInv'
  OBVIOUS
<1>0. GraphInv /\ TypeInv
  BY DEF WalkInv, CycleInv, GraphInv, OnceInv
<1>1. CASE LoaderStep /\ UNCHANGED <<text, report>>
  <2>1. [Next]_vars /\ RootParts' /\ saves' = 0
    BY <1>0, <1>1, RootStep DEF Next, WalkInv
  <2>2. DiskInv' /\ CycleInv'
    BY <2>1, DiskStep, CycleStep DEF WalkInv
  <2>3. pc # "done"
    <3>1. pc = "done" => target = NoKey
      BY <1>0 DEF TypeInv, Shape
    <3> QED
      BY <1>1, <3>1 DEF LoaderStep, ReadRoot, RootFails, CanonicalizeNext, ReportCycle, ShareLoaded,
         ReadImport, ImportFails, Return
  <2>4. TextsAre'
    BY <1>1 DEF WalkInv, TextsAre
  <2>5. report' = NoReport
    BY <1>1, <2>3 DEF WalkInv
  <2> QED
    BY <2>1, <2>2, <2>4, <2>5 DEF WalkInv
<1>2. CASE UNCHANGED <<vars, text>>
  <2>1. /\ [Next]_vars /\ saves' = saves /\ pc' = pc /\ files' = files /\ Index' = Index
        /\ UNCHANGED <<disk, files, text>>
    BY <1>2 DEF vars, Index
  <2>2. DiskInv' /\ CycleInv'
    BY <2>1, DiskStep, CycleStep DEF WalkInv
  <2>3. RootParts'
    BY <2>1 DEF WalkInv, RootParts, Readable, Uses
  <2>4. TextsAre'
    BY <2>1 DEF WalkInv, TextsAre
  <2>5. ReportIs' <=> report' = [k \in {files[i].key : i \in Index} |-> Diagnostics(At(k))]
    <3>1. \A k : At(k)' = At(k)
      BY <2>1 DEF At
    <3>2. \A k : Diagnostics(At(k))' = Diagnostics(At(k))
      BY <2>1, <3>1, ReportStays
    <3> QED
      BY <2>1, <3>2 DEF ReportIs
  <2>6. CASE Walk
    BY <2>1, <2>2, <2>3, <2>4, <2>5, <2>6 DEF WalkInv, Walk
  <2>7. CASE report' = report
    BY <2>1, <2>2, <2>3, <2>4, <2>5, <2>7 DEF WalkInv, ReportIs
  <2> QED
    BY <1>2, <2>6, <2>7 DEF WalkNext, walkVars, vars
<1> QED
  BY <1>1, <1>2 DEF WalkNext, Walk, walkVars, vars
-----------------------------------------------------------------------------
(* What the report says of one file. *)

LEMMA OverIs ==
  ASSUME WalkInv, pc = "done"
  PROVE  /\ 1 \in Index /\ files[1].key = Root
         /\ \A i, j \in Index : files[i].key = files[j].key => i = j
         /\ \A i \in Index :
              /\ At(files[i].key) = i
              /\ files[i].key \in Key /\ FileOf[files[i].key] \in File
              /\ files[i].resolved \in [Alias -> Key \cup {NoKey}]
              /\ files[i].imports \in Seq(Import)
              /\ DOMAIN files[i].imports = 1..Len(files[i].imports)
              /\ DOMAIN files[i].uses = 1..Len(files[i].imports)
              /\ Len(files[i].uses) = Len(files[i].imports)
              /\ \A u \in 1..Len(files[i].imports) :
                   files[i].imports[u] \in Import /\ files[i].uses[u] \in [as : Outcome, key : Key]
<1>1. TypeOK /\ Shape /\ LoadedOnce /\ ReportInv
  BY DEF WalkInv, DiskInv, ReportInv, GraphInv, OnceInv, TypeInv
<1>2. 1 \in Index /\ files[1].key = Root
  BY DEF WalkInv, RootParts
<1>3. \A i, j \in Index : files[i].key = files[j].key => i = j
  BY <1>1 DEF LoadedOnce
<1>4. ASSUME NEW i \in Index
      PROVE  /\ files[i] \in LoadedFile /\ At(files[i].key) = i
             /\ Len(files[i].uses) = Len(files[i].imports)
  <2>1. files[i] \in LoadedFile
    BY <1>1 DEF TypeOK, Index
  <2>2. ~Open(i)
    BY <1>1 DEF Open, Shape
  <2>3. At(files[i].key) = i
    BY <1>3 DEF At
  <2> QED
    BY <1>1, <2>1, <2>2, <2>3 DEF ReportInv, AllDeclared, Uses
<1>5. ASSUME NEW i \in Index
      PROVE  /\ files[i].key \in Key /\ FileOf[files[i].key] \in File
             /\ files[i].resolved \in [Alias -> Key \cup {NoKey}]
             /\ files[i].imports \in Seq(Import)
             /\ files[i].uses \in Seq([as : Outcome, key : Key])
  BY <1>4, LoaderAssumption DEF LoadedFile
<1>6. ASSUME NEW i \in Index
      PROVE  /\ DOMAIN files[i].imports = 1..Len(files[i].imports)
             /\ DOMAIN files[i].uses = 1..Len(files[i].imports)
             /\ \A u \in 1..Len(files[i].imports) :
                  files[i].imports[u] \in Import /\ files[i].uses[u] \in [as : Outcome, key : Key]
  <2>1. \A T, s : s \in Seq(T) => DOMAIN s = 1..Len(s) /\ \A u \in 1..Len(s) : s[u] \in T
    OBVIOUS
  <2>2. /\ files[i].imports \in Seq(Import) /\ files[i].uses \in Seq([as : Outcome, key : Key])
        /\ Len(files[i].uses) = Len(files[i].imports)
    BY <1>4, <1>5
  <2> QED
    BY <2>1, <2>2, Zenon
<1> QED
  BY <1>2, <1>3, <1>4, <1>5, <1>6

Faults(i) == TextOf(i).faults \cup AliasFaults(files[i].imports)
Failed(i) == {u \in DOMAIN files[i].uses : files[i].uses[u].as \in {"E0400", "E0401"}}

LEMMA LoaderSays ==
  ASSUME NEW i, NEW d
  PROVE  d \in LoaderDiagnostics(i) <=>
           \/ files[i].rootError /\ d = Diag("E0400", <<>>, files[i].key)
           \/ ~files[i].rootError /\ \E c \in Faults(i) : d = Diag(c, <<>>, NoName)
           \/ \E u \in Failed(i) : d = Diag(files[i].uses[u].as, <<u>>, files[i].uses[u].key)
<1>1. CASE files[i].rootError
  BY <1>1, Zenon DEF LoaderDiagnostics, Failed
<1>2. CASE ~files[i].rootError
  BY <1>2, Zenon DEF LoaderDiagnostics, Failed, Faults
<1> QED
  BY <1>1, <1>2

LEMMA CodeIs == ASSUME NEW c, NEW at, NEW x PROVE Diag(c, at, x).code = c
BY DEF Diag

LEMMA SliceIs ==
  ASSUME TextsAre, NEW i, FileOf[files[i].key] \in File
  PROVE  /\ IsSlice(TextOf(i).slice) /\ TextOf(i).faults \subseteq ParseClass
         /\ QualifiedRefs(TextOf(i).slice) \subseteq Alias \X Range(Order)
         /\ IsSlice(SliceOf(i)) /\ QualifiedRefs(SliceOf(i)) \subseteq Alias \X Range(Order)
<1>1. /\ IsSlice(TextOf(i).slice) /\ TextOf(i).faults \subseteq ParseClass
      /\ QualifiedRefs(TextOf(i).slice) \subseteq Alias \X Range(Order)
  BY DEF TextsAre, TextOf
<1>2. IsSlice(<<>>) /\ QualifiedRefs(<<>>) = {}
  <2>1. IsList(<<>>) /\ Range(<<>>) = {}
    BY One
  <2> QED
    BY <2>1 DEF IsSlice, QualifiedRefs
<1> QED
  BY <1>1, <1>2 DEF SliceOf

LEMMA OthersSay ==
  ASSUME TextsAre, NEW i, FileOf[files[i].key] \in File, NEW d
  PROVE  /\ d \in SingleFile(i) => d.code \in PassCodes \cup {"W0270"}
         /\ d \in CrossSlice(i) => d.code \in {"E0402", "E0403"}
         /\ d \in Composition(i) => d.code \in {"W0273", "W0274", "W0275"}
<1>1. ASSUME d \in SingleFile(i) PROVE d.code \in PassCodes \cup {"W0270"}
  <2>1. \A e \in Range(Analyze(SliceOf(i))) : e.code \in PassCodes
    BY SliceIs, AnalyzeFinds
  <2>2. \/ d \in Range(Analyze(SliceOf(i)))
        \/ \E x \in UnusedCells(SliceOf(i)) : d = Diag("W0270", <<>>, x)
    BY <1>1, Zenon DEF SingleFile
  <2> QED
    BY <2>1, <2>2, CodeIs
<1>2. ASSUME d \in CrossSlice(i) PROVE d.code \in {"E0402", "E0403"}
  <2>1. PICK r \in QualifiedRefs(SliceOf(i)) : d \in UnresolvedRef(i, r)
    BY <1>2 DEF CrossSlice
  <2>2. d = Diag("E0402", <<>>, r) \/ d = Diag("E0403", <<>>, r)
    BY <2>1 DEF UnresolvedRef
  <2> QED
    BY <2>2, CodeIs
<1>3. ASSUME d \in Composition(i) PROVE d.code \in {"W0273", "W0274", "W0275"}
  <2>1. d \in UnusedImports(i) \cup DuplicateTargets(i) \cup Shadowed(i)
    BY <1>3 DEF Composition
  <2>2. \/ \E at, x : d = Diag("W0273", at, x)
        \/ \E at, x : d = Diag("W0274", at, x)
        \/ \E at, x : d = Diag("W0275", at, x)
    BY <2>1, Zenon DEF UnusedImports, DuplicateTargets, Shadowed
  <2> QED
    BY <2>2, CodeIs
<1> QED
  BY <1>1, <1>2, <1>3

LEMMA FaultsAre ==
  ASSUME TextsAre, NEW i, FileOf[files[i].key] \in File
  PROVE  /\ Faults(i) \subseteq ParseClass
         /\ Faults(i) = {} => ~NotAMemspec(TextOf(i))
         /\ NotAMemspec(TextOf(i)) => Faults(i) # {}
<1>1. AliasFaults(files[i].imports) \subseteq ParseClass
  BY DEF AliasFaults, ParseClass
<1> QED
  BY <1>1, SliceIs DEF Faults, NotAMemspec

\* Nothing but warnings is to be said of file i.
IsClean(i) ==
  /\ ~files[i].rootError
  /\ Faults(i) = {} /\ Failed(i) = {}
  /\ Analyze(TextOf(i).slice) = <<>>
  /\ \A r \in QualifiedRefs(TextOf(i).slice) : UnresolvedRef(i, r) = {}

LEMMA ParseErrorsSay ==
  ASSUME TextsAre, NEW i, FileOf[files[i].key] \in File
  PROVE  (\E d \in Diagnostics(i) : d.code \in ParseClass) <=>
           ~files[i].rootError /\ Faults(i) # {}
<1>1. CASE ~files[i].rootError /\ NotAMemspec(TextOf(i))
  <2>1. Diag("E0006", <<>>, NoName) \in Diagnostics(i)
    BY <1>1 DEF Diagnostics
  <2>2. "E0006" \in ParseClass
    BY DEF ParseClass
  <2> QED
    BY <1>1, <2>1, <2>2, FaultsAre, CodeIs
<1>2. CASE files[i].rootError \/ ~NotAMemspec(TextOf(i))
  <2>1. \A d : d \in Diagnostics(i) <=>
          /\ d \in LoaderDiagnostics(i) \cup SingleFile(i) \cup CrossSlice(i) \cup Composition(i)
          /\ ~Suppressed(i, d)
    BY <1>2 DEF Diagnostics
  <2>2. ASSUME NEW d \in Diagnostics(i), d.code \in ParseClass
        PROVE  ~files[i].rootError /\ Faults(i) # {}
    <3>1. d \in LoaderDiagnostics(i)
      BY <2>1, <2>2, OthersSay DEF ParseClass, ShapeCodes, PassCodes
    <3>2. \/ d = Diag("E0400", <<>>, files[i].key)
          \/ ~files[i].rootError /\ \E c \in Faults(i) : d = Diag(c, <<>>, NoName)
          \/ \E u \in Failed(i) : d = Diag(files[i].uses[u].as, <<u>>, files[i].uses[u].key)
      BY <3>1, LoaderSays
    <3>3. \A u \in Failed(i) : files[i].uses[u].as \in {"E0400", "E0401"}
      BY DEF Failed
    <3>4. "E0400" \notin ParseClass /\ "E0401" \notin ParseClass
      BY DEF ParseClass
    <3>5. d.code \notin {"E0400", "E0401"}
      BY <2>2, <3>4
    <3>6. d # Diag("E0400", <<>>, files[i].key)
      BY <3>5, CodeIs
    <3>7. ASSUME NEW u \in Failed(i)
          PROVE  d # Diag(files[i].uses[u].as, <<u>>, files[i].uses[u].key)
      BY <3>3, <3>5, CodeIs
    <3> QED
      BY <3>2, <3>6, <3>7
  <2>3. ASSUME ~files[i].rootError, NEW c \in Faults(i)
        PROVE  \E d \in Diagnostics(i) : d.code \in ParseClass
    <3>1. Diag(c, <<>>, NoName) \in LoaderDiagnostics(i)
      BY <2>3, LoaderSays
    <3>2. Diag(c, <<>>, NoName).code = c /\ c \in ParseClass
      BY CodeIs, FaultsAre
    <3>3. c # "W0270"
      BY <3>2 DEF ParseClass
    <3> QED
      BY <2>1, <3>1, <3>2, <3>3 DEF Suppressed
  <2> QED
    BY <2>2, <2>3
<1> QED
  BY <1>1, <1>2

LEMMA WarningsSay ==
  ASSUME TextsAre, NEW i, FileOf[files[i].key] \in File
  PROVE  (\A d \in Diagnostics(i) : d.code \in Warning) <=> IsClean(i)
<1>1. Warning \cap ParseClass = {} /\ Warning \cap PassCodes = {}
  BY DEF Warning, ParseClass, ShapeCodes, PassCodes
<1>2. CASE ~files[i].rootError /\ Faults(i) # {}
  <2>1. PICK d \in Diagnostics(i) : d.code \in ParseClass
    BY <1>2, ParseErrorsSay
  <2> QED
    BY <1>1, <1>2, <2>1 DEF IsClean
<1>3. CASE files[i].rootError \/ Faults(i) = {}
  <2>1. \A d : d \in Diagnostics(i) <=>
          /\ d \in LoaderDiagnostics(i) \cup SingleFile(i) \cup CrossSlice(i) \cup Composition(i)
          /\ ~Suppressed(i, d)
    BY <1>3, FaultsAre DEF Diagnostics
  <2>2. \A d : Suppressed(i, d) => d.code = "W0270"
    BY DEF Suppressed
  <2>3. "W0270" \in Warning
    BY DEF Warning
  <2>4. (\A d \in Diagnostics(i) : d.code \in Warning) <=>
          /\ \A d \in LoaderDiagnostics(i) : d.code \in Warning
          /\ \A d \in SingleFile(i) : d.code \in Warning
          /\ \A d \in CrossSlice(i) : d.code \in Warning
    <3>1. \A d \in Composition(i) : d.code \in Warning
      BY OthersSay DEF Warning
    <3> QED
      BY <2>1, <2>2, <2>3, <3>1
  <2>5. (\A d \in LoaderDiagnostics(i) : d.code \in Warning) <=>
          ~files[i].rootError /\ Failed(i) = {}
    <3>1. {"E0400", "E0401"} \cap Warning = {}
      BY DEF Warning
    <3>2. \A u \in Failed(i) : files[i].uses[u].as \in {"E0400", "E0401"}
      BY DEF Failed
    <3>3. files[i].rootError => \E d \in LoaderDiagnostics(i) : d.code = "E0400"
      BY LoaderSays, CodeIs
    <3>4. ASSUME NEW u \in Failed(i)
          PROVE  \E d \in LoaderDiagnostics(i) : d.code = files[i].uses[u].as
      <4>1. PICK d : d = Diag(files[i].uses[u].as, <<u>>, files[i].uses[u].key)
        OBVIOUS
      <4> QED
        BY <4>1, LoaderSays, CodeIs
    <3>5. ~files[i].rootError /\ Failed(i) = {} => LoaderDiagnostics(i) = {}
      BY <1>3, LoaderSays
    <3> QED
      BY <3>1, <3>2, <3>3, <3>4, <3>5
  <2>6. CASE files[i].rootError
    BY <2>4, <2>5, <2>6 DEF IsClean
  <2>7. CASE ~files[i].rootError
    <3>1. Faults(i) = {} /\ HasSlice(i) /\ SliceOf(i) = TextOf(i).slice
      BY <1>3, <2>7, FaultsAre DEF HasSlice, SliceOf
    <3>2. (\A d \in SingleFile(i) : d.code \in Warning) <=> Analyze(TextOf(i).slice) = <<>>
      <4>1. /\ IsList(Analyze(TextOf(i).slice))
            /\ \A d \in Range(Analyze(TextOf(i).slice)) : d.code \in PassCodes
        BY SliceIs, AnalyzeFinds
      <4>2. Analyze(TextOf(i).slice) = <<>> <=> Range(Analyze(TextOf(i).slice)) = {}
        BY <4>1, Listed
      <4>3. \A d : d \in SingleFile(i) <=>
              \/ d \in Range(Analyze(TextOf(i).slice))
              \/ \E x \in UnusedCells(TextOf(i).slice) : d = Diag("W0270", <<>>, x)
        BY <3>1, Zenon DEF SingleFile
      <4>4. \A d \in Range(Analyze(TextOf(i).slice)) : d.code \notin Warning
        BY <1>1, <4>1
      <4> QED
        BY <2>3, <4>2, <4>3, <4>4, CodeIs
    <3>3. (\A d \in CrossSlice(i) : d.code \in Warning) <=>
            \A r \in QualifiedRefs(TextOf(i).slice) : UnresolvedRef(i, r) = {}
      <4>1. \A d \in CrossSlice(i) : d.code \notin Warning
        BY OthersSay DEF Warning
      <4>2. CrossSlice(i) = {} <=> \A r \in QualifiedRefs(TextOf(i).slice) : UnresolvedRef(i, r) = {}
        BY <3>1 DEF CrossSlice
      <4> QED
        BY <4>1, <4>2
    <3> QED
      BY <2>4, <2>5, <2>7, <3>1, <3>2, <3>3 DEF IsClean
  <2> QED
    BY <2>6, <2>7
<1> QED
  BY <1>2, <1>3
-----------------------------------------------------------------------------
(* What the report says of all of them. *)

LEMMA ReportedIs ==
  ASSUME WalkInv, HasReported
  PROVE  /\ pc = "done"
         /\ \A i \in Index : FileOf[files[i].key] \in File
         /\ \A i \in Index : files[i].key \in DOMAIN report /\ report[files[i].key] = Diagnostics(i)
         /\ \A k \in DOMAIN report : \E i \in Index : k = files[i].key /\ report[k] = Diagnostics(i)
<1>1. pc = "done" /\ ReportIs
  BY DEF WalkInv, HasReported
<1>2. \A i \in Index : At(files[i].key) = i /\ FileOf[files[i].key] \in File
  BY <1>1, OverIs
<1>3. /\ DOMAIN report = {files[i].key : i \in Index}
      /\ \A k \in DOMAIN report : report[k] = Diagnostics(At(k))
  BY <1>1 DEF ReportIs
<1>4. ASSUME NEW i \in Index
      PROVE  files[i].key \in DOMAIN report /\ report[files[i].key] = Diagnostics(i)
  BY <1>2, <1>3
<1>5. ASSUME NEW k \in DOMAIN report
      PROVE  \E i \in Index : k = files[i].key /\ report[k] = Diagnostics(i)
  BY <1>3, <1>4
<1> QED
  BY <1>1, <1>2, <1>4, <1>5

LEMMA CodesAre ==
  ASSUME WalkInv, HasReported, NEW c
  PROVE  c \in Reported(report) <=> \E i \in Index : \E d \in Diagnostics(i) : d.code = c
<1>1. c \in Reported(report) <=> \E k \in DOMAIN report : \E d \in report[k] : d.code = c
  BY DEF Reported
<1> QED
  BY <1>1, ReportedIs

LEMMA ExitIs ==
  ASSUME WalkInv, HasReported
  PROVE  /\ ExitCode = 2 <=> \E i \in Index : ~files[i].rootError /\ Faults(i) # {}
         /\ ExitCode = 0 <=> \A i \in Index : IsClean(i)
<1>1. TextsAre /\ \A i \in Index : FileOf[files[i].key] \in File
  BY ReportedIs DEF WalkInv
<1>2. Warning \cap ParseClass = {}
  BY DEF Warning, ParseClass
<1>3. ExitCode = 2 <=> Reported(report) \cap ParseClass # {}
  BY DEF ExitCode
<1>4. ExitCode = 0 <=> Reported(report) \subseteq Warning
  BY <1>2 DEF ExitCode
<1>5. Reported(report) \cap ParseClass # {} <=>
        \E i \in Index : \E d \in Diagnostics(i) : d.code \in ParseClass
  BY CodesAre
<1>6. Reported(report) \subseteq Warning <=>
        \A i \in Index : \A d \in Diagnostics(i) : d.code \in Warning
  BY CodesAre
<1> QED
  BY <1>1, <1>3, <1>4, <1>5, <1>6, ParseErrorsSay, WarningsSay

(* However the imports and the contents fall, walk exits with 2 exactly if *)
(* a loaded file has a parse error: none is lost between the load, where a *)
(* file that is no .memspec is one E0006 and an alias used twice an E0110, *)
(* and the exit code.                                                      *)
THEOREM NoParseErrorIsLost == WalkSpec => []ParseErrorsReachTheExitCode
<1>1. WalkInv => ParseErrorsReachTheExitCode
  BY ExitIs DEF ParseErrorsReachTheExitCode, Faults
<1> QED
  BY WalkBegins, WalkStep, <1>1, PTL DEF WalkSpec
-----------------------------------------------------------------------------
(* The disk, as far as the root can see. *)

LeadsOn(d) == \A k \in Key : Targets(d, k) \subseteq Key
ClosedFrom(d, C) == Root \in C /\ \A m \in C : Targets(d, m) \subseteq C

LEMMA ReachedIs ==
  ASSUME NEW d, LeadsOn(d)
  PROVE  /\ Reached(d) \subseteq Key /\ ClosedFrom(d, Reached(d))
         /\ \A C \in SUBSET Key : ClosedFrom(d, C) => Reached(d) \subseteq C
<1>1. \A k : k \in Reached(d) <=> k \in Key /\ \A C \in SUBSET Key : ClosedFrom(d, C) => k \in C
  BY DEF Reached, ClosedFrom
<1>2. Root \in Key
  BY LoaderAssumption
<1>3. ASSUME NEW m \in Reached(d) PROVE Targets(d, m) \subseteq Reached(d)
  <2>1. m \in Key /\ \A C \in SUBSET Key : ClosedFrom(d, C) => m \in C
    BY <1>1, <1>3
  <2>2. Targets(d, m) \subseteq Key
    BY <2>1 DEF LeadsOn
  <2>3. \A C \in SUBSET Key : ClosedFrom(d, C) => Targets(d, m) \subseteq C
    BY <2>1 DEF ClosedFrom
  <2> QED
    BY <1>1, <2>2, <2>3
<1>4. ClosedFrom(d, Reached(d))
  BY <1>1, <1>2, <1>3 DEF ClosedFrom
<1> QED
  BY <1>1, <1>4

(* The disk of a walk: the path of an import is its own canonical path.    *)
LEMMA DiskIs ==
  ASSUME TypeOK
  PROVE  /\ \A k \in Key : ReadableOn(disk, k) <=> Readable(k)
         /\ \A k \in Key : Canonicalize(k) = k
         /\ \A k \in Key : Readable(k) =>
              /\ disk[FileOf[k]] \in Seq(Import) /\ IsList(disk[FileOf[k]])
              /\ Imports(disk, k) \subseteq Import
              /\ ImportedBy(k) = Targets(disk, k)
         /\ LeadsOn(disk)
<1>1. ASSUME NEW k \in Key
      PROVE  /\ ReadableOn(disk, k) <=> Readable(k)
             /\ Canonicalize(k) = k
             /\ Readable(k) => disk[FileOf[k]] \in Seq(Import)
  <2>1. disk[FileOf[k]] \in Sources \cup {Absent, Unreadable}
    BY LoaderAssumption DEF TypeOK
  <2>2. CanonOf[FileOf[k]] = k
    BY WalkAssumption, Zenon
  <2>3. Sources \subseteq Seq(Import) /\ Absent \notin Sources /\ Unreadable \notin Sources
    BY LoaderAssumption
  <2>4. ReadableOn(disk, k) <=> Readable(k)
    BY <2>1, <2>3 DEF ReadableOn, Readable
  <2>5. Canonicalize(k) = k
    BY <2>2, Zenon DEF Canonicalize
  <2>6. Readable(k) => disk[FileOf[k]] \in Seq(Import)
    BY <2>3, Zenon DEF Readable
  <2> QED
    BY <2>4, <2>5, <2>6
<1>2. ASSUME NEW k \in Key, Readable(k)
      PROVE  /\ IsList(disk[FileOf[k]]) /\ Imports(disk, k) \subseteq Import
             /\ ImportedBy(k) = Targets(disk, k) /\ Targets(disk, k) \subseteq Key
  <2>1. IsList(disk[FileOf[k]]) /\ Imports(disk, k) \subseteq Import
    BY <1>1, <1>2, ListOf DEF Imports
  <2>2. \A u \in Imports(disk, k) : u.path \in Key
    BY <2>1 DEF Import
  <2>3. \A m : m \in Targets(disk, k) <=> \E u \in Imports(disk, k) : m = u.path
    BY <1>1, <1>2 DEF Targets
  <2>4. \A m : m \in ImportedBy(k) <=> \E u \in Imports(disk, k) : m = Canonicalize(u.path)
    BY DEF ImportedBy, Imports, Range
  <2>5. \A m : m \in ImportedBy(k) <=> m \in Targets(disk, k)
    BY <1>1, <2>2, <2>3, <2>4
  <2> QED
    BY <2>1, <2>2, <2>3, <2>5
<1>3. ASSUME NEW k \in Key, ~Readable(k) PROVE Targets(disk, k) = {}
  BY <1>1, <1>3 DEF Targets
<1> QED
  BY <1>1, <1>2, <1>3 DEF LeadsOn

(* What is loaded is on the disk, and the root leads to it.                *)
LEMMA LoadedIs ==
  ASSUME WalkInv, pc = "done", Readable(Root)
  PROVE  /\ TypeOK /\ DiskParts
         /\ \A i \in Index :
              /\ ~files[i].rootError
              /\ Readable(files[i].key) /\ disk[FileOf[files[i].key]] = files[i].imports
              /\ files[i].key \in Reached(disk)
<1>1. TypeOK /\ DiskParts
  BY DEF WalkInv, DiskInv, ReportInv, GraphInv, OnceInv, TypeInv, Undisturbed
<1>2. ASSUME NEW i \in Index
      PROVE  /\ ~files[i].rootError
             /\ Readable(files[i].key) /\ disk[FileOf[files[i].key]] = files[i].imports
  BY <1>1, Zenon DEF WalkInv, RootParts, DiskParts, AsOnDisk
<1>3. ClosedFrom(disk, Reached(disk)) /\ Reached(disk) \subseteq Key
  BY <1>1, DiskIs, ReachedIs
<1>4. ClosedOnDisk(Reached(disk))
  BY <1>1, <1>3, DiskIs DEF ClosedOnDisk, ClosedFrom
<1>5. \A i \in Index : files[i].key \in Reached(disk)
  BY <1>1, <1>3, <1>4 DEF DiskParts, ClosedFrom
<1> QED
  BY <1>1, <1>2, <1>5

(* A declaration and what the loader made of it.                           *)
LEMMA UseIs ==
  ASSUME WalkInv, pc = "done", Readable(Root), NEW i \in Index
  PROVE  /\ \A x \in Imports(disk, files[i].key) :
              \E u \in 1..Len(files[i].imports) : x = files[i].imports[u]
         /\ \A u \in 1..Len(files[i].imports) :
              /\ files[i].imports[u] \in Imports(disk, files[i].key)
              /\ files[i].uses[u].key = files[i].imports[u].path
              /\ files[i].imports[u].path \in Targets(disk, files[i].key)
<1>1. /\ files[i].imports \in Seq(Import) /\ DOMAIN files[i].imports = 1..Len(files[i].imports)
      /\ \A u \in 1..Len(files[i].imports) : files[i].imports[u] \in Import
      /\ DOMAIN files[i].uses = 1..Len(files[i].imports)
      /\ Len(files[i].uses) = Len(files[i].imports) /\ files[i].key \in Key
  BY OverIs
<1>2. TypeOK /\ DiskParts /\ Readable(files[i].key) /\ disk[FileOf[files[i].key]] = files[i].imports
  BY LoadedIs
<1>3. \A x : x \in Imports(disk, files[i].key) <=>
        \E u \in 1..Len(files[i].imports) : x = files[i].imports[u]
  BY <1>1, <1>2 DEF Imports, Range
<1>4. Targets(disk, files[i].key) = {x.path : x \in Imports(disk, files[i].key)}
  BY <1>1, <1>2, DiskIs DEF Targets
<1>5. ASSUME NEW u \in 1..Len(files[i].imports)
      PROVE  files[i].uses[u].key = files[i].imports[u].path
  <2>1. files[i].uses[u].key = Canonicalize(files[i].imports[u].path)
    BY <1>1, <1>2 DEF DiskParts, UseOnDisk, Uses
  <2>2. files[i].imports[u].path \in Key
    BY <1>1 DEF Import
  <2> QED
    BY <1>2, <2>1, <2>2, DiskIs
<1> QED
  BY <1>3, <1>4, <1>5
(* When every declaration was followed, the alias maps are the imports.    *)
Smooth(i) == ~files[i].rootError /\ AliasFaults(files[i].imports) = {} /\ Failed(i) = {}

LEMMA EdgesAre ==
  ASSUME WalkInv, pc = "done", \A i \in Index : Smooth(i)
  PROVE  /\ Readable(Root)
         /\ \A k : k \in Reached(disk) <=> \E i \in Index : k = files[i].key
         /\ \A i \in Index : \A x \in Imports(disk, files[i].key) :
              /\ x \in Import
              /\ files[i].resolved[x.alias] = x.path
              /\ \E j \in Index : files[j].key = x.path
         /\ \A i \in Index : \A a \in Alias : files[i].resolved[a] # NoKey =>
              \E x \in Imports(disk, files[i].key) : x.alias = a /\ x.path = files[i].resolved[a]
<1>1. Readable(Root) /\ 1 \in Index /\ files[1].key = Root
  BY OverIs DEF WalkInv, RootParts, Smooth
<1>2. TypeOK /\ AliasesKnown /\ \A i \in Index, a \in Alias : AliasHas(i, a)
  BY DEF WalkInv, DiskInv, ReportInv, GraphInv, OnceInv, TypeInv
<1>3. ASSUME NEW i \in Index
      PROVE  /\ files[i].key \in Key
             /\ files[i].resolved \in [Alias -> Key \cup {NoKey}]
             /\ DOMAIN files[i].imports = 1..Len(files[i].imports)
             /\ DOMAIN files[i].uses = 1..Len(files[i].imports)
             /\ Len(files[i].uses) = Len(files[i].imports)
             /\ \A u \in 1..Len(files[i].imports) :
                  files[i].imports[u] \in Import /\ files[i].uses[u].as \in Outcome
  BY OverIs
<1>4. ASSUME NEW i \in Index, NEW u \in 1..Len(files[i].imports)
      PROVE  Followed(i, u)
  <2>1. files[i].uses[u].as \in Outcome /\ u \in DOMAIN files[i].uses
    BY <1>3
  <2>2. files[i].uses[u].as \notin {"E0400", "E0401"}
    BY <2>1 DEF Smooth, Failed
  <2> QED
    BY <2>1, <2>2 DEF Followed, Outcome
<1>5. ASSUME NEW i \in Index, NEW u \in 1..Len(files[i].imports),
             NEW v \in 1..Len(files[i].imports),
             files[i].imports[u].alias = files[i].imports[v].alias
      PROVE  u = v
  BY <1>3, <1>5 DEF Smooth, AliasFaults
<1>6. ASSUME NEW i \in Index, NEW a \in Alias, files[i].resolved[a] # NoKey
      PROVE  \E v \in 1..Len(files[i].imports) :
               /\ files[i].imports[v].alias = a
               /\ files[i].imports[v].path = files[i].resolved[a]
  <2>1. PICK v \in 1..Len(files[i].uses) :
          files[i].imports[v].alias = a /\ files[i].uses[v].key = files[i].resolved[a]
    BY <1>2, <1>6 DEF AliasHas, Uses
  <2> QED
    BY <1>1, <1>3, <2>1, UseIs
<1>7. ASSUME NEW i \in Index, NEW u \in 1..Len(files[i].imports)
      PROVE  files[i].resolved[files[i].imports[u].alias] = files[i].imports[u].path
  <2> DEFINE a == files[i].imports[u].alias
  <2>1. a \in Alias
    BY <1>3 DEF Import
  <2>2. files[i].resolved[a] # NoKey
    <3>1. AliasHas(i, a) /\ u \in 1..Len(Uses(i)) /\ Followed(i, u)
      BY <1>2, <1>3, <1>4, <2>1 DEF Uses
    <3> QED
      BY <3>1 DEF AliasHas
  <2> QED
    BY <1>5, <1>6, <2>1, <2>2
<1>8. ASSUME NEW i \in Index, NEW x \in Imports(disk, files[i].key)
      PROVE  /\ x \in Import
             /\ files[i].resolved[x.alias] = x.path
             /\ \E j \in Index : files[j].key = x.path
  <2>1. PICK u \in 1..Len(files[i].imports) : x = files[i].imports[u]
    BY <1>1, UseIs
  <2>2. x \in Import /\ x.alias \in Alias /\ x.path \in Key
    BY <1>3, <2>1 DEF Import
  <2>3. files[i].resolved[x.alias] = x.path
    BY <1>7, <2>1
  <2>4. x.path # NoKey
    BY <2>2, LoaderAssumption
  <2> QED
    BY <1>2, <2>2, <2>3, <2>4 DEF AliasesKnown
<1>9. ASSUME NEW i \in Index, NEW a \in Alias, files[i].resolved[a] # NoKey
      PROVE  \E x \in Imports(disk, files[i].key) : x.alias = a /\ x.path = files[i].resolved[a]
  BY <1>1, <1>6, <1>9, UseIs
<1>10. Reached(disk) \subseteq {files[i].key : i \in Index}
  <2> DEFINE L == {files[i].key : i \in Index}
  <2>1. L \subseteq Key /\ Root \in L
    BY <1>1, <1>3
  <2>2. ASSUME NEW m \in L PROVE Targets(disk, m) \subseteq L
    BY <1>8 DEF Targets
  <2>3. ClosedFrom(disk, L)
    BY <2>1, <2>2 DEF ClosedFrom
  <2> HIDE DEF L
  <2> QED
    BY <1>2, <2>1, <2>3, DiskIs, ReachedIs DEF L
<1>11. \A i \in Index : files[i].key \in Reached(disk)
  BY <1>1, LoadedIs
<1> QED
  BY <1>1, <1>8, <1>9, <1>10, <1>11
(* A reference is resolved exactly if it leads somewhere on the disk.      *)
LEMMA RefsLead ==
  ASSUME WalkInv, pc = "done", \A i \in Index : Smooth(i) /\ Faults(i) = {},
         NEW i \in Index, NEW r \in QualifiedRefs(TextOf(i).slice)
  PROVE  UnresolvedRef(i, r) = {} <=> Leads(disk, files[i].key, r)
<1>1. ASSUME NEW j \in Index
      PROVE  /\ At(files[j].key) = j /\ SliceOf(j) = text[FileOf[files[j].key]].slice
             /\ ~NotAMemspec(text[FileOf[files[j].key]]) /\ ReadableOn(disk, files[j].key)
  <2>1. At(files[j].key) = j /\ files[j].key \in Key /\ FileOf[files[j].key] \in File
    BY OverIs
  <2>2. TextsAre /\ ~files[j].rootError /\ Faults(j) = {}
    BY DEF Smooth, WalkInv
  <2>3. ~NotAMemspec(TextOf(j))
    BY <2>1, <2>2, FaultsAre
  <2>4. ReadableOn(disk, files[j].key)
    BY <2>1, EdgesAre, LoadedIs, DiskIs
  <2> QED
    BY <2>1, <2>2, <2>3, <2>4 DEF SliceOf, HasSlice, TextOf
<1>2. r[1] \in Alias
  <2>1. FileOf[files[i].key] \in File /\ TextsAre
    BY OverIs DEF WalkInv
  <2>2. r \in Alias \X Range(Order)
    BY <2>1, SliceIs
  <2> QED
    BY <2>2
<1> DEFINE to == files[i].resolved[r[1]]
<1>3. UnresolvedRef(i, r) = {} <=> to # NoKey /\ r[2] \in Declared(SliceOf(At(to)))
  BY DEF UnresolvedRef
<1>4. ASSUME UnresolvedRef(i, r) = {} PROVE Leads(disk, files[i].key, r)
  <2>1. PICK x \in Imports(disk, files[i].key) : x.alias = r[1] /\ x.path = to
    BY <1>2, <1>3, <1>4, EdgesAre
  <2>2. PICK j \in Index : files[j].key = x.path
    BY <2>1, EdgesAre
  <2> QED
    BY <1>1, <1>3, <1>4, <2>1, <2>2 DEF Leads
<1>5. ASSUME Leads(disk, files[i].key, r) PROVE UnresolvedRef(i, r) = {}
  <2>1. PICK x \in Imports(disk, files[i].key) :
          x.alias = r[1] /\ r[2] \in Declared(text[FileOf[x.path]].slice)
    BY <1>5 DEF Leads
  <2>2. PICK j \in Index : files[j].key = x.path /\ files[i].resolved[x.alias] = x.path
    BY <2>1, EdgesAre
  <2>3. to = files[j].key /\ files[j].key \in Key
    BY <2>1, <2>2, OverIs
  <2>4. to # NoKey
    BY <2>3, LoaderAssumption
  <2> QED
    BY <1>1, <1>3, <2>1, <2>2, <2>3, <2>4
<1> QED
  BY <1>4, <1>5

(* A disk on which the walk has nothing but warnings to say is whole.      *)
LEMMA CleanIsWhole ==
  ASSUME WalkInv, pc = "done", \A i \in Index : IsClean(i)
  PROVE  Whole(disk)
<1>1. \A i \in Index : Smooth(i) /\ Faults(i) = {}
  BY DEF IsClean, Smooth, Faults
<1>2. ASSUME NEW k \in Reached(disk)
      PROVE  /\ ReadableOn(disk, k)
             /\ text[FileOf[k]].faults = {} /\ AliasFaults(disk[FileOf[k]]) = {}
             /\ Analyze(text[FileOf[k]].slice) = <<>>
             /\ \A r \in QualifiedRefs(text[FileOf[k]].slice) : Leads(disk, k, r)
  <2>1. PICK i \in Index : k = files[i].key
    BY <1>1, EdgesAre
  <2>2. TypeOK /\ k \in Key /\ Readable(k) /\ disk[FileOf[k]] = files[i].imports
    BY <1>1, <2>1, EdgesAre, LoadedIs, OverIs
  <2>3. Faults(i) = {} /\ Analyze(text[FileOf[k]].slice) = <<>> /\ Smooth(i)
    BY <1>1, <2>1 DEF IsClean, TextOf
  <2>4. \A r \in QualifiedRefs(text[FileOf[k]].slice) : Leads(disk, k, r)
    <3>1. TextOf(i) = text[FileOf[k]]
      BY <2>1 DEF TextOf
    <3>2. \A r \in QualifiedRefs(TextOf(i).slice) : UnresolvedRef(i, r) = {}
      BY DEF IsClean
    <3> QED
      BY <1>1, <2>1, <3>1, <3>2, RefsLead
  <2>5. text[FileOf[k]].faults = {} /\ AliasFaults(disk[FileOf[k]]) = {}
    BY <2>1, <2>2, <2>3 DEF Faults, TextOf
  <2>6. ReadableOn(disk, k)
    BY <2>2, DiskIs
  <2> QED
    BY <2>3, <2>4, <2>5, <2>6
<1>3. ASSUME NEW S \in (SUBSET Reached(disk)) \ {{}}
      PROVE  \E k \in S : Targets(disk, k) \cap S = {}
  <2> DEFINE T == {i \in Index : files[i].key \in S}
  <2>1. \A k \in S : \E i \in Index : k = files[i].key
    BY <1>1, EdgesAre
  <2>2. T \in (SUBSET Index) \ {{}}
    BY <2>1
  <2>3. ResolvedAcyclic
    BY DEF WalkInv, CycleInv, GraphInv
  <2>4. PICK i \in T : \A j \in T : ~Resolves(i, j)
    BY <2>2, <2>3 DEF ResolvedAcyclic
  <2>5. ASSUME NEW m \in Targets(disk, files[i].key), m \in S PROVE FALSE
    <3>1. PICK x \in Imports(disk, files[i].key) : m = x.path
      BY <2>5 DEF Targets
    <3>2. PICK j \in Index : /\ x \in Import /\ files[j].key = x.path
                             /\ files[i].resolved[x.alias] = x.path
      BY <1>1, <2>4, EdgesAre
    <3>3. j \in T /\ x.alias \in Alias
      BY <2>5, <3>1, <3>2 DEF Import
    <3> QED
      BY <2>4, <3>2, <3>3 DEF Resolves
  <2> QED
    BY <2>4, <2>5
<1> QED
  BY <1>2, <1>3 DEF Whole
(* A declaration reported as a cycle closes one on the disk: the files     *)
(* that lead to the importer through imports that were followed each       *)
(* import another of them.                                                 *)
LEMMA CycleOnDisk ==
  ASSUME WalkInv, pc = "done", Readable(Root),
         NEW i \in Index, NEW u \in 1..Len(files[i].uses), files[i].uses[u].as = "E0401"
  PROVE  \E S \in (SUBSET Reached(disk)) \ {{}} : \A k \in S : Targets(disk, k) \cap S # {}
<1> DEFINE Avoids(C) == C \subseteq Index /\ ClosedUnderFollows(C) /\ i \notin C
           T == {m \in Index : \A C \in SUBSET Index : m \in C /\ ClosedUnderFollows(C) => i \in C}
           S == {files[m].key : m \in T}
<1>1. PICK j \in Index : files[j].key = files[i].uses[u].key
  BY DEF WalkInv, CycleInv, CycleKeysLoaded, Uses
<1>2. u \in 1..Len(files[i].imports) /\ files[i].uses[u] \in [as : Outcome, key : Key]
  BY OverIs
<1>3. files[i].uses[u] = [as |-> "E0401", key |-> files[j].key]
  BY <1>1, <1>2
<1>4. j \in T
  BY <1>3 DEF WalkInv, CycleInv, CyclesAreReal
<1>5. i \in T
  OBVIOUS
<1>6. ASSUME NEW m \in T PROVE \E n \in T : files[n].key \in Targets(disk, files[m].key)
  <2>1. CASE m = i
    <3>1. files[j].key \in Targets(disk, files[i].key)
      BY <1>1, <1>2, UseIs
    <3> QED
      BY <1>4, <2>1, <3>1
  <2>2. CASE m # i
    <3> DEFINE U == {m} \cup UNION {C \in SUBSET Index : Avoids(C)}
    <3>1. m \in U /\ i \notin U /\ U \subseteq Index
      BY <2>2
    <3>2. ~ClosedUnderFollows(U)
      BY <1>6, <3>1
    <3>3. PICK a \in U, n \in Index : Follows(a, n) /\ n \notin U
      BY <3>2 DEF ClosedUnderFollows
    <3>4. a = m
      <4>1. ASSUME NEW C \in SUBSET Index, Avoids(C), a \in C PROVE FALSE
        <5>1. n \in C
          BY <3>3, <4>1 DEF ClosedUnderFollows
        <5> QED
          BY <3>3, <4>1, <5>1
      <4> QED
        BY <3>3, <4>1
    <3>5. n \in T
      <4>1. \A C \in SUBSET Index : n \in C => ~Avoids(C)
        BY <3>3
      <4> QED
        BY <4>1
    <3>6. PICK v \in 1..Len(files[m].uses) : files[m].uses[v].key = files[n].key
      BY <3>3, <3>4 DEF Follows
    <3>7. v \in 1..Len(files[m].imports)
      BY <3>6, OverIs
    <3>8. files[n].key \in Targets(disk, files[m].key)
      BY <3>6, <3>7, UseIs
    <3> QED
      BY <3>5, <3>8
  <2> QED
    BY <2>1, <2>2
<1> HIDE DEF T
<1>7. \A m \in T : files[m].key \in Reached(disk)
  BY LoadedIs DEF T
<1>8. S \in (SUBSET Reached(disk)) \ {{}}
  BY <1>4, <1>7
<1>9. \A k \in S : Targets(disk, k) \cap S # {}
  BY <1>6
<1> QED
  BY <1>8, <1>9

(* On a whole disk nothing but warnings is to be said.                     *)
LEMMA WholeIsClean ==
  ASSUME WalkInv, pc = "done", Whole(disk)
  PROVE  \A i \in Index : IsClean(i)
<1>1. TypeOK
  BY DEF WalkInv, DiskInv, ReportInv, GraphInv, OnceInv, TypeInv
<1>2. /\ ClosedFrom(disk, Reached(disk)) /\ Reached(disk) \subseteq Key
      /\ \A k \in Reached(disk) : Readable(k)
  BY <1>1, DiskIs, ReachedIs DEF Whole
<1>3. Readable(Root)
  BY <1>2 DEF ClosedFrom
<1>4. ASSUME NEW i \in Index
      PROVE  /\ Smooth(i) /\ Faults(i) = {} /\ Analyze(TextOf(i).slice) = <<>>
             /\ \A r \in QualifiedRefs(TextOf(i).slice) : Leads(disk, files[i].key, r)
  <2>1. /\ ~files[i].rootError /\ disk[FileOf[files[i].key]] = files[i].imports
        /\ files[i].key \in Reached(disk)
    BY <1>3, LoadedIs
  <2>2. /\ Faults(i) = {} /\ Analyze(TextOf(i).slice) = <<>>
        /\ AliasFaults(files[i].imports) = {}
        /\ \A r \in QualifiedRefs(TextOf(i).slice) : Leads(disk, files[i].key, r)
    BY <2>1 DEF Whole, Faults, TextOf
  <2>3. ASSUME NEW u \in Failed(i) PROVE FALSE
    <3>1. /\ u \in 1..Len(files[i].imports) /\ u \in 1..Len(files[i].uses)
          /\ files[i].uses[u].as \in {"E0400", "E0401"}
      BY <2>3, OverIs DEF Failed
    <3>2. files[i].uses[u].key \in Targets(disk, files[i].key)
      BY <1>3, <3>1, UseIs
    <3>3. Readable(files[i].uses[u].key)
      BY <1>2, <2>1, <3>2 DEF ClosedFrom
    <3>4. files[i].uses[u].as # "E0400"
      BY <3>1, <3>3 DEF WalkInv, RootParts, Uses
    <3>5. files[i].uses[u].as # "E0401"
      BY <1>3, <3>1, CycleOnDisk DEF Whole
    <3> QED
      BY <3>1, <3>4, <3>5
  <2>4. Failed(i) = {}
    BY <2>3
  <2> QED
    BY <2>1, <2>2, <2>4 DEF Smooth
<1> QED
  BY <1>4, RefsLead DEF IsClean, Smooth

(* A walk of a file and all it imports exits with 0 if and only if every   *)
(* file the root leads to is there, parses and passes by itself, imports   *)
(* form no cycle, and every qualified reference leads through its alias to *)
(* a declaration - whatever the import graph and the contents are.  The    *)
(* disk is described without the loader, so this is also what the loader,  *)
(* the passes and the resolution of references come to when they are put   *)
(* together.                                                               *)
THEOREM WalkIsCleanIffWhole == WalkSpec => []CleanIffWhole
<1>1. ASSUME WalkInv, HasReported PROVE ExitCode = 0 <=> Whole(disk)
  BY <1>1, ReportedIs, ExitIs, CleanIsWhole, WholeIsClean
<1>2. WalkInv => CleanIffWhole
  BY <1>1 DEF CleanIffWhole
<1> QED
  BY WalkBegins, WalkStep, <1>2, PTL DEF WalkSpec
-----------------------------------------------------------------------------
(* The warnings of a clean walk. *)

LEMMA CleanSays ==
  ASSUME TextsAre, NEW i, FileOf[files[i].key] \in File, IsClean(i)
  PROVE  /\ SliceOf(i) = TextOf(i).slice
         /\ \A d : d \in Diagnostics(i) /\ d.code = "W0270" <=>
              \E x \in UnusedCells(TextOf(i).slice) \ CrossReferenced(i) : d = Diag("W0270", <<>>, x)
         /\ \A d : d \in Diagnostics(i) /\ d.code = "W0273" =>
              \E u \in DOMAIN files[i].imports :
                /\ files[i].imports[u].alias \notin UsedAliases(i)
                /\ d = Diag("W0273", <<u>>, files[i].imports[u].alias)
<1>1. HasSlice(i) /\ SliceOf(i) = TextOf(i).slice
  BY FaultsAre DEF IsClean, HasSlice, SliceOf
<1>2. LoaderDiagnostics(i) = {}
  BY LoaderSays DEF IsClean
<1>3. Range(Analyze(SliceOf(i))) = {}
  BY <1>1, One DEF IsClean
<1>4. \A d : d \in SingleFile(i) <=> \E x \in UnusedCells(TextOf(i).slice) : d = Diag("W0270", <<>>, x)
  BY <1>1, <1>3, Zenon DEF SingleFile
<1>5. \A d : d \in Diagnostics(i) <=>
        /\ d \in SingleFile(i) \cup CrossSlice(i) \cup Composition(i)
        /\ ~Suppressed(i, d)
  BY <1>1, <1>2 DEF Diagnostics, HasSlice
<1>6. ASSUME NEW d
      PROVE  d \in Diagnostics(i) /\ d.code = "W0270" <=>
               \E x \in UnusedCells(TextOf(i).slice) \ CrossReferenced(i) : d = Diag("W0270", <<>>, x)
  <2>1. d \in Diagnostics(i) /\ d.code = "W0270" <=>
          d \in SingleFile(i) /\ d.code = "W0270" /\ ~Suppressed(i, d)
    BY <1>5, OthersSay
  <2>2. \A x : d = Diag("W0270", <<>>, x) =>
          d.code = "W0270" /\ (Suppressed(i, d) <=> x \in CrossReferenced(i))
    <3>1. \A x : Diag("W0270", <<>>, x).code = "W0270" /\ Diag("W0270", <<>>, x).arg = x
      BY DEF Diag
    <3> QED
      BY <3>1 DEF Suppressed
  <2> QED
    BY <1>4, <2>1, <2>2
<1>7. ASSUME NEW d \in Diagnostics(i), d.code = "W0273"
      PROVE  \E u \in DOMAIN files[i].imports :
               /\ files[i].imports[u].alias \notin UsedAliases(i)
               /\ d = Diag("W0273", <<u>>, files[i].imports[u].alias)
  <2>1. d \in Composition(i)
    BY <1>5, <1>7, OthersSay DEF ShapeCodes, PassCodes
  <2>2. \/ \E u \in DOMAIN files[i].imports :
             /\ files[i].imports[u].alias \notin UsedAliases(i)
             /\ d = Diag("W0273", <<u>>, files[i].imports[u].alias)
        \/ \E at, x : d = Diag("W0274", at, x)
        \/ \E at, x : d = Diag("W0275", at, x)
    <3>1. d \in UnusedImports(i) \cup DuplicateTargets(i) \cup Shadowed(i)
      BY <2>1 DEF Composition
    <3>2. d \in UnusedImports(i) =>
            \E u \in DOMAIN files[i].imports :
              /\ files[i].imports[u].alias \notin UsedAliases(i)
              /\ d = Diag("W0273", <<u>>, files[i].imports[u].alias)
      BY Zenon DEF UnusedImports
    <3>3. d \in DuplicateTargets(i) => \E at, x : d = Diag("W0274", at, x)
      BY Zenon DEF DuplicateTargets
    <3>4. d \in Shadowed(i) => \E at, x : d = Diag("W0275", at, x)
      BY Zenon DEF Shadowed
    <3> QED
      BY <3>1, <3>2, <3>3, <3>4
  <2> QED
    BY <1>7, <2>2, CodeIs
<1> QED
  BY <1>1, <1>6, <1>7

(* What another file refers to, said of the disk.                          *)
LEMMA CrossReferencedIs ==
  ASSUME WalkInv, pc = "done", \A i \in Index : IsClean(i), NEW i \in Index, NEW x
  PROVE  x \in CrossReferenced(i) <=>
           \E m \in Reached(disk) : \E u \in Imports(disk, m) :
             u.path = files[i].key /\ <<u.alias, x>> \in QualifiedRefs(text[FileOf[m]].slice)
<1>1. \A j \in Index : Smooth(j)
  BY DEF IsClean, Smooth, Faults
<1>2. ASSUME NEW j \in Index
      PROVE  /\ FileOf[files[j].key] \in File /\ SliceOf(j) = text[FileOf[files[j].key]].slice
             /\ files[j].key \in Key
             /\ QualifiedRefs(SliceOf(j)) \subseteq Alias \X Range(Order)
  <2>1. files[j].key \in Key /\ FileOf[files[j].key] \in File /\ TextsAre
    BY OverIs DEF WalkInv
  <2> QED
    BY <2>1, CleanSays, SliceIs DEF TextOf
<1>3. x \in CrossReferenced(i) <=>
        \E j \in Index : \E q \in QualifiedRefs(SliceOf(j)) :
          files[j].resolved[q[1]] = files[i].key /\ q[2] = x
  BY DEF CrossReferenced
<1>4. ASSUME NEW j \in Index
      PROVE  (\E q \in QualifiedRefs(SliceOf(j)) :
                files[j].resolved[q[1]] = files[i].key /\ q[2] = x) <=>
             \E u \in Imports(disk, files[j].key) :
               u.path = files[i].key /\ <<u.alias, x>> \in QualifiedRefs(SliceOf(j))
  <2>1. ASSUME NEW q \in QualifiedRefs(SliceOf(j)),
               files[j].resolved[q[1]] = files[i].key, q[2] = x
        PROVE  \E u \in Imports(disk, files[j].key) :
                 u.path = files[i].key /\ <<u.alias, x>> \in QualifiedRefs(SliceOf(j))
    <3>1. q \in Alias \X Range(Order)
      BY <1>2
    <3>2. q = <<q[1], x>> /\ q[1] \in Alias
      BY <2>1, <3>1
    <3>3. files[j].resolved[q[1]] # NoKey
      BY <1>2, <2>1, LoaderAssumption
    <3>4. PICK u \in Imports(disk, files[j].key) :
            u.alias = q[1] /\ u.path = files[j].resolved[q[1]]
      BY <1>1, <3>2, <3>3, EdgesAre
    <3>5. u.path = files[i].key /\ <<u.alias, x>> = q
      BY <2>1, <3>2, <3>4
    <3> QED
      BY <2>1, <3>5
  <2>2. ASSUME NEW u \in Imports(disk, files[j].key),
               u.path = files[i].key, <<u.alias, x>> \in QualifiedRefs(SliceOf(j))
        PROVE  \E q \in QualifiedRefs(SliceOf(j)) :
                 files[j].resolved[q[1]] = files[i].key /\ q[2] = x
    <3>1. files[j].resolved[u.alias] = files[i].key
      BY <1>1, <2>2, EdgesAre
    <3>2. PICK q \in QualifiedRefs(SliceOf(j)) : q = <<u.alias, x>>
      BY <2>2
    <3> QED
      BY <3>1, <3>2
  <2> QED
    BY <2>1, <2>2
<1>5. x \in CrossReferenced(i) <=>
        \E j \in Index : \E u \in Imports(disk, files[j].key) :
          u.path = files[i].key /\ <<u.alias, x>> \in QualifiedRefs(text[FileOf[files[j].key]].slice)
  BY <1>2, <1>3, <1>4
<1>6. \A m : m \in Reached(disk) <=> \E j \in Index : m = files[j].key
  BY <1>1, EdgesAre
<1> QED
  BY <1>5, <1>6

(* In a clean walk W0270 is said of exactly the cells that no file refers  *)
(* to: the one that declares them in no field, and none of those the root  *)
(* leads to through an alias for it.  A reference that goes by another     *)
(* file's cell of the same name does not keep a cell alive.                *)
THEOREM UnusedMeansUnused == WalkSpec => []UnusedCellsAreUnused
<1>1. ASSUME WalkInv, HasReported, ExitCode = 0, NEW k \in Reached(disk)
      PROVE  {d.arg : d \in {e \in report[k] : e.code = "W0270"}} =
               {x \in Ids(text[FileOf[k]].slice, "cell") :
                  /\ x \notin ReferencedCells(text[FileOf[k]].slice)
                  /\ \A m \in Reached(disk), u \in UNION {Imports(disk, l) : l \in Reached(disk)} :
                       ~(u \in Imports(disk, m) /\ u.path = k
                           /\ <<u.alias, x>> \in QualifiedRefs(text[FileOf[m]].slice))}
  <2>1. pc = "done" /\ TextsAre /\ \A i \in Index : IsClean(i)
    BY <1>1, ReportedIs, ExitIs DEF WalkInv
  <2>2. \A j \in Index : Smooth(j)
    BY <2>1 DEF IsClean, Smooth, Faults
  <2>3. PICK i \in Index : k = files[i].key
    BY <1>1, <2>1, <2>2, EdgesAre
  <2>4. report[k] = Diagnostics(i) /\ FileOf[files[i].key] \in File
    BY <1>1, <2>3, ReportedIs
  <2> DEFINE Unused == UnusedCells(text[FileOf[k]].slice)
             D == Diagnostics(i)
  <2>5. \A d : d \in D /\ d.code = "W0270" <=>
          \E x \in Unused \ CrossReferenced(i) : d = Diag("W0270", <<>>, x)
    BY <2>1, <2>3, <2>4, CleanSays DEF TextOf
  <2>6. \A x : Diag("W0270", <<>>, x).arg = x
    BY DEF Diag
  <2>7. {d.arg : d \in {e \in D : e.code = "W0270"}} = Unused \ CrossReferenced(i)
    <3> HIDE DEF D, Unused
    <3> QED
      BY <2>5, <2>6
  <2>8. \A x : x \in CrossReferenced(i) <=>
          \E m \in Reached(disk) : \E u \in Imports(disk, m) :
            u.path = k /\ <<u.alias, x>> \in QualifiedRefs(text[FileOf[m]].slice)
    BY <1>1, <2>1, <2>3, CrossReferencedIs
  <2>9. \A x : x \notin CrossReferenced(i) <=>
          \A m \in Reached(disk), u \in UNION {Imports(disk, l) : l \in Reached(disk)} :
            ~(u \in Imports(disk, m) /\ u.path = k
                /\ <<u.alias, x>> \in QualifiedRefs(text[FileOf[m]].slice))
    BY <2>8
  <2> QED
    BY <2>4, <2>7, <2>9 DEF UnusedCells
<1>2. WalkInv => UnusedCellsAreUnused
  BY <1>1 DEF UnusedCellsAreUnused
<1> QED
  BY WalkBegins, WalkStep, <1>2, PTL DEF WalkSpec
-----------------------------------------------------------------------------
(* The disk without a declaration. *)

LEMMA RemovedIs ==
  ASSUME TypeOK, NEW k \in Key, Readable(k), NEW u \in DOMAIN disk[FileOf[k]]
  PROVE  /\ \A m \in Key \ {k} : Removed(k, u)[FileOf[m]] = disk[FileOf[m]]
         /\ \A m \in Key : ReadableOn(disk, m) => ReadableOn(Removed(k, u), m)
         /\ \A m \in Key : Targets(Removed(k, u), m) \subseteq Targets(disk, m)
         /\ Imports(Removed(k, u), k) = Imports(disk, k) \ {disk[FileOf[k]][u]}
         /\ AliasFaults(disk[FileOf[k]]) = {} => AliasFaults(Removed(k, u)[FileOf[k]]) = {}
<1> DEFINE s == disk[FileOf[k]]
           set == Range(s) \ {s[u]}
           d == Removed(k, u)
<1>1. IsList(s) /\ s \in Seq(Import) /\ ReadableOn(disk, k)
  BY DiskIs
<1>2. FileOf \in [Key -> File] /\ disk \in [File -> Sources \cup {Absent, Unreadable}]
  BY LoaderAssumption DEF TypeOK
<1>3. d[FileOf[k]] = Only(s, set) /\ \A f \in File \ {FileOf[k]} : d[f] = disk[f]
  BY <1>2 DEF Removed
<1>4. \A m \in Key \ {k} : FileOf[m] \in File \ {FileOf[k]}
  <2>1. \A m \in Key : CanonOf[FileOf[m]] = m
    BY WalkAssumption, Zenon
  <2> QED
    BY <1>2, <2>1
<1>5. IsList(Only(s, set)) /\ Range(Only(s, set)) = Range(s) \cap set
  <2> HIDE DEF set, s
  <2> QED
    BY <1>1, OnlyIs
<1> HIDE DEF d
<1>6. \A m \in Key \ {k} : d[FileOf[m]] = disk[FileOf[m]]
  BY <1>3, <1>4
<1>7. Imports(d, k) = Imports(disk, k) \ {s[u]}
  BY <1>3, <1>5 DEF Imports
<1>8. ReadableOn(d, k)
  <2>1. Only(s, set) \in Seq(Import)
    <3>1. Range(s) \subseteq Import
      BY <1>1, ListOf
    <3>2. Range(Only(s, set)) \subseteq Import
      BY <1>5, <3>1
    <3> HIDE DEF set, s
    <3>3. \A T, q : (q \in Seq(T) /\ T \subseteq Import) => q \in Seq(Import)
      OBVIOUS
    <3> QED
      BY <1>5, <3>2, <3>3 DEF IsList
  <2>2. Absent \notin Seq(Import) /\ Unreadable \notin Seq(Import)
    BY WalkAssumption, Zenon
  <2> QED
    BY <1>3, <2>1, <2>2, Zenon DEF ReadableOn
<1>9. \A m \in Key : ReadableOn(disk, m) => ReadableOn(d, m)
  BY <1>6, <1>8 DEF ReadableOn
<1>10. \A m \in Key : Targets(d, m) \subseteq Targets(disk, m)
  <2>1. Targets(d, k) \subseteq Targets(disk, k)
    BY <1>1, <1>7, <1>8 DEF Targets
  <2>2. \A m \in Key \ {k} : Targets(d, m) = Targets(disk, m)
    BY <1>6 DEF Targets, ReadableOn, Imports
  <2> QED
    BY <2>1, <2>2
<1>11. ASSUME AliasFaults(s) = {} PROVE AliasFaults(d[FileOf[k]]) = {}
  <2>1. \A p, q \in DOMAIN s : p # q => s[p].alias # s[q].alias
    BY <1>11, Zenon DEF AliasFaults
  <2> DEFINE o == Only(s, set)
  <2>2. \A p, q \in DOMAIN o : p # q => \E i, j \in DOMAIN s : i # j /\ s[i] = o[p] /\ s[j] = o[q]
    <3> HIDE DEF set, s
    <3> QED
      BY <1>1, OnlyPlaces
  <2> HIDE DEF o, s
  <2>3. \A p, q \in DOMAIN o : p # q => o[p].alias # o[q].alias
    BY <2>1, <2>2
  <2>4. AliasFaults(o) = {}
    BY <2>3, Zenon DEF AliasFaults
  <2> QED
    BY <1>3, <2>4 DEF o
<1> QED
  BY <1>6, <1>7, <1>9, <1>10, <1>11 DEF d

(* A whole disk without a declaration no reference goes through is whole.  *)
LEMMA RemovedIsWhole ==
  ASSUME TypeOK, Whole(disk), NEW k \in Reached(disk), NEW u \in DOMAIN disk[FileOf[k]],
         \A r \in QualifiedRefs(text[FileOf[k]].slice) : r[1] # disk[FileOf[k]][u].alias
  PROVE  Whole(Removed(k, u))
<1> DEFINE d == Removed(k, u)
<1>1. /\ ClosedFrom(disk, Reached(disk)) /\ Reached(disk) \subseteq Key
      /\ LeadsOn(disk) /\ \A m \in Reached(disk) : Readable(m)
  BY DiskIs, ReachedIs DEF Whole
<1>2. k \in Key /\ Readable(k)
  BY <1>1
<1>3. /\ \A m \in Key \ {k} : d[FileOf[m]] = disk[FileOf[m]]
      /\ \A m \in Key : ReadableOn(disk, m) => ReadableOn(d, m)
      /\ \A m \in Key : Targets(d, m) \subseteq Targets(disk, m)
      /\ Imports(d, k) = Imports(disk, k) \ {disk[FileOf[k]][u]}
      /\ AliasFaults(disk[FileOf[k]]) = {} => AliasFaults(d[FileOf[k]]) = {}
  BY <1>2, RemovedIs
<1> HIDE DEF d
<1>4. Reached(d) \subseteq Reached(disk)
  <2>1. LeadsOn(d)
    BY <1>1, <1>3 DEF LeadsOn
  <2>2. ClosedFrom(d, Reached(disk))
    BY <1>1, <1>3 DEF ClosedFrom
  <2> QED
    BY <1>1, <2>1, <2>2, ReachedIs
<1>5. ASSUME NEW m \in Reached(d)
      PROVE  /\ ReadableOn(d, m)
             /\ text[FileOf[m]].faults = {} /\ AliasFaults(d[FileOf[m]]) = {}
             /\ Analyze(text[FileOf[m]].slice) = <<>>
             /\ \A r \in QualifiedRefs(text[FileOf[m]].slice) : Leads(d, m, r)
  <2>1. /\ m \in Key /\ ReadableOn(disk, m)
        /\ text[FileOf[m]].faults = {} /\ AliasFaults(disk[FileOf[m]]) = {}
        /\ Analyze(text[FileOf[m]].slice) = <<>>
        /\ \A r \in QualifiedRefs(text[FileOf[m]].slice) : Leads(disk, m, r)
    BY <1>1, <1>4 DEF Whole
  <2>2. AliasFaults(d[FileOf[m]]) = {}
    BY <1>3, <2>1
  <2>3. ASSUME NEW r \in QualifiedRefs(text[FileOf[m]].slice) PROVE Leads(d, m, r)
    <3>1. PICK x \in Imports(disk, m) :
            /\ x.alias = r[1] /\ ReadableOn(disk, x.path)
            /\ ~NotAMemspec(text[FileOf[x.path]])
            /\ r[2] \in Declared(text[FileOf[x.path]].slice)
      BY <2>1 DEF Leads
    <3>2. x \in Imports(d, m)
      BY <1>3, <2>1, <3>1 DEF Imports
    <3>3. x.path \in Key
      <4>1. x.path \in Targets(disk, m)
        BY <2>1, <3>1 DEF Targets
      <4> QED
        BY <1>1, <2>1, <4>1 DEF LeadsOn
    <3> QED
      BY <1>3, <3>1, <3>2, <3>3 DEF Leads
  <2> QED
    BY <1>3, <2>1, <2>2, <2>3
<1>6. ASSUME NEW S \in (SUBSET Reached(d)) \ {{}}
      PROVE  \E m \in S : Targets(d, m) \cap S = {}
  <2>1. S \in (SUBSET Reached(disk)) \ {{}}
    BY <1>4
  <2>2. PICK m \in S : Targets(disk, m) \cap S = {}
    BY <2>1 DEF Whole
  <2> QED
    BY <1>1, <1>3, <2>1, <2>2
<1>7. Whole(d)
  BY <1>5, <1>6 DEF Whole
<1> QED
  BY <1>7 DEF d

(* In a clean walk, a declaration W0273 calls unused can be removed: the   *)
(* disk without it is clean too.                                           *)
THEOREM UnusedMeansRemovable == WalkSpec => []UnusedImportsCanGo
<1>1. ASSUME WalkInv, HasReported, ExitCode = 0,
             NEW k \in DOMAIN report, NEW e \in report[k], e.code = "W0273"
      PROVE  Whole(Removed(k, e.at[1]))
  <2>1. pc = "done" /\ TextsAre /\ \A i \in Index : IsClean(i)
    BY <1>1, ReportedIs, ExitIs DEF WalkInv
  <2>2. \A j \in Index : Smooth(j)
    BY <2>1 DEF IsClean, Smooth, Faults
  <2>3. PICK i \in Index : k = files[i].key /\ report[k] = Diagnostics(i)
    BY <1>1, ReportedIs
  <2>4. FileOf[files[i].key] \in File
    BY <1>1, ReportedIs
  <2>5. SliceOf(i) = TextOf(i).slice /\
        \E u \in DOMAIN files[i].imports :
          /\ files[i].imports[u].alias \notin UsedAliases(i)
          /\ e = Diag("W0273", <<u>>, files[i].imports[u].alias)
    BY <1>1, <2>1, <2>3, <2>4, CleanSays
  <2>6. PICK u \in DOMAIN files[i].imports :
          /\ files[i].imports[u].alias \notin UsedAliases(i)
          /\ e = Diag("W0273", <<u>>, files[i].imports[u].alias)
    BY <2>5
  <2>7. e.at[1] = u
    BY <2>6 DEF Diag
  <2>8. TypeOK /\ k \in Reached(disk) /\ disk[FileOf[k]] = files[i].imports
    BY <1>1, <2>1, <2>2, <2>3, EdgesAre, LoadedIs
  <2>9. \A r \in QualifiedRefs(text[FileOf[k]].slice) : r[1] # files[i].imports[u].alias
    BY <2>3, <2>5, <2>6 DEF UsedAliases, TextOf
  <2>10. Whole(disk)
    BY <1>1, <2>1, CleanIsWhole
  <2> QED
    BY <2>6, <2>7, <2>8, <2>9, <2>10, RemovedIsWhole
<1>2. WalkInv => UnusedImportsCanGo
  BY <1>1, Zenon DEF UnusedImportsCanGo
<1> QED
  BY WalkBegins, WalkStep, <1>2, PTL DEF WalkSpec
=============================================================================
