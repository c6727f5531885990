--------------------------- MODULE ImportLoader ---------------------------
(***************************************************************************)
(* The import loader: load_with_imports and walk_imports_of of             *)
(* analysis/loader.rs, run over the file system (FsLoader) while an editor *)
(* may save files.                                                         *)
(*                                                                         *)
(* A file has an identity (File); a path names it (Key), and several paths *)
(* may name one file ("a.memspec", "/abs/a.memspec").  The loader keys its *)
(* working set by path.  What a file declares is its sequence of `use`     *)
(* declarations; the rest of the source is of no consequence to the load.  *)
(* The recursion of walk_imports_of is the variable stack, one importer    *)
(* index per open call.                                                    *)
(***************************************************************************)
EXTENDS Naturals, Sequences, Functions

CONSTANTS
  File,        \* the files a path can name
  Key,         \* the paths: what the working set is keyed by
  FileOf,      \* the file each path names
  CanonOf,     \* the path fs::canonicalize answers for each file that exists
  Alias,       \* the names `use "<path>" as <alias>` can introduce
  Root,        \* the path the command line gave
  Sources,     \* the lists of `use` declarations a source can have
  Absent,      \* on the disk: no such file
  Unreadable,  \* on the disk: the file exists and cannot be read as text
  NoKey,       \* no path
  MaxSaves     \* bound: how many saves the editor makes during one load

Import == [alias : Alias, path : Key]

ASSUME LoaderAssumption ==
  /\ FileOf \in [Key -> File]
  /\ CanonOf \in [File -> Key]
  /\ \A f \in File : FileOf[CanonOf[f]] = f
  /\ Root \in Key
  /\ Sources \subseteq Seq(Import)
  /\ Absent \notin Sources /\ Unreadable \notin Sources /\ Absent # Unreadable
  /\ NoKey \notin Key
  /\ MaxSaves \in Nat

VARIABLES
  disk,     \* what each file holds: Absent, Unreadable or its declarations
  saves,    \* how many saves the editor made
  pc,       \* "start", "walking" or "done"
  files,    \* the working set in discovery order
  visited,  \* paths already loaded
  chain,    \* paths of the imports being followed
  stack,    \* the importer index of each open call of walk_imports_of
  target    \* the canonicalised path of the declaration at hand, or NoKey

vars == <<disk, saves, pc, files, visited, chain, stack, target>>
loaderVars == <<pc, files, visited, chain, stack, target>>

(***************************************************************************)
(* A loaded file.  uses[i] is what became of its i-th declaration, which   *)
(* the code leaves as a diagnostic with the declaration's span (E0401,     *)
(* E0400) or as an entry of the alias map (loaded, shared); rootError is   *)
(* the E0400 of a root that could not be read.                             *)
(***************************************************************************)
Outcome == {"loaded", "shared", "E0401", "E0400"}

LoadedFile ==
  [key : Key, imports : Seq(Import), uses : Seq([as : Outcome, key : Key]),
   resolved : [Alias -> Key \cup {NoKey}], rootError : BOOLEAN]

NewFile(k, imports, err) ==
  [key |-> k, imports |-> imports, uses |-> <<>>,
   resolved |-> [a \in Alias |-> NoKey], rootError |-> err]

TypeOK ==
  /\ disk \in [File -> Sources \cup {Absent, Unreadable}]
  /\ saves \in 0..MaxSaves
  /\ pc \in {"start", "walking", "done"}
  /\ files \in Seq(LoadedFile)
  /\ visited \subseteq Key
  /\ chain \in Seq(Key)
  /\ stack \in Seq(1..Len(files))
  /\ target \in Key \cup {NoKey}

-----------------------------------------------------------------------------
(* The file system as the loader sees it. *)

Exists(k)   == disk[FileOf[k]] # Absent
Readable(k) == disk[FileOf[k]] \in Sources

\* A bug to find: imports keyed by the path they are spelled with.
Canonicalize_AsSpelled(k) == k

\* fs::canonicalize needs the file; without it the joined path is kept.
Canonicalize(k) == IF Exists(k) THEN CanonOf[FileOf[k]] ELSE k

-----------------------------------------------------------------------------
(* The walk. *)

importer     == stack[Len(stack)]

\* A bug to find: the walk of a file's declarations ends at the first error.
HasNext_StopsAtError ==
  /\ Len(files[importer].uses) < Len(files[importer].imports)
  /\ \A u \in DOMAIN files[importer].uses :
       files[importer].uses[u].as \in {"loaded", "shared"}

HasNext      == Len(files[importer].uses) < Len(files[importer].imports)
declaration  == files[importer].imports[Len(files[importer].uses) + 1]

\* Bugs to find: no cycle check; no check that a path was loaded before.
OnChain_Unchecked(k) == FALSE
Visited_Unchecked(k) == FALSE

OnChain(k) == k \in Range(chain)
Visited(k) == k \in visited

\* The importer's record after the declaration at hand ended as `as`.
Note(as) == [files[importer] EXCEPT !.uses = Append(@, [as |-> as, key |-> target])]

\* A bug to find: the alias is recorded for a file just read only.
Resolve_LoadedOnly(as) ==
  IF as = "loaded" THEN [Note(as) EXCEPT !.resolved[declaration.alias] = target]
  ELSE Note(as)

\* ... and with its alias recorded for the cross-slice pass.
Resolve(as) == [Note(as) EXCEPT !.resolved[declaration.alias] = target]

Init ==
  /\ disk \in [File -> Sources \cup {Absent, Unreadable}]
  /\ saves = 0
  /\ pc = "start"
  /\ files = <<>>
  /\ visited = {}
  /\ chain = <<>>
  /\ stack = <<>>
  /\ target = NoKey

\* The root's path is used as it was given.
ReadRoot ==
  /\ pc = "start"
  /\ Readable(Root)
  /\ files' = <<NewFile(Root, disk[FileOf[Root]], FALSE)>>
  /\ visited' = {Root}
  /\ chain' = <<Root>>
  /\ stack' = <<1>>
  /\ pc' = "walking"
  /\ UNCHANGED <<disk, saves, target>>

RootFails ==
  /\ pc = "start"
  /\ ~Readable(Root)
  /\ files' = <<NewFile(Root, <<>>, TRUE)>>
  /\ pc' = "done"
  /\ UNCHANGED <<disk, saves, visited, chain, stack, target>>

CanonicalizeNext ==
  /\ pc = "walking"
  /\ target = NoKey
  /\ HasNext
  /\ target' = Canonicalize(declaration.path)
  /\ UNCHANGED <<disk, saves, pc, files, visited, chain, stack>>

ReportCycle ==
  /\ target # NoKey
  /\ OnChain(target)
  /\ files' = [files EXCEPT ![importer] = Note("E0401")]
  /\ target' = NoKey
  /\ UNCHANGED <<disk, saves, pc, visited, chain, stack>>

ShareLoaded ==
  /\ target # NoKey
  /\ ~OnChain(target)
  /\ Visited(target)
  /\ files' = [files EXCEPT ![importer] = Resolve("shared")]
  /\ target' = NoKey
  /\ UNCHANGED <<disk, saves, pc, visited, chain, stack>>

\* A bug to find: the new file's index is the length of the grown list,
\* plus one.
NewIndex_OffByOne == Len(files) + 2

\* The index the file about to be pushed will have.
NewIndex == Len(files) + 1

ReadImport ==
  /\ target # NoKey
  /\ ~OnChain(target)
  /\ ~Visited(target)
  /\ Readable(target)
  /\ files' = Append([files EXCEPT ![importer] = Resolve("loaded")],
                     NewFile(target, disk[FileOf[target]], FALSE))
  /\ visited' = visited \cup {target}
  /\ chain' = Append(chain, target)
  /\ stack' = Append(stack, NewIndex)
  /\ target' = NoKey
  /\ UNCHANGED <<disk, saves, pc>>

\* A bug to find: a failed read is tried again, for ever.
ImportFails_Retries ==
  /\ target # NoKey
  /\ ~OnChain(target)
  /\ ~Visited(target)
  /\ ~Readable(target)
  /\ UNCHANGED vars

ImportFails ==
  /\ target # NoKey
  /\ ~OnChain(target)
  /\ ~Visited(target)
  /\ ~Readable(target)
  /\ files' = [files EXCEPT ![importer] = Note("E0400")]
  /\ target' = NoKey
  /\ UNCHANGED <<disk, saves, pc, visited, chain, stack>>

\* A bug to find: the pop is forgotten, so a path stays on the chain.
ShorterChain_NoPop == chain

\* A path leaves the chain when the call that pushed it returns.
ShorterChain == SubSeq(chain, 1, Len(chain) - 1)

Return ==
  /\ pc = "walking"
  /\ target = NoKey
  /\ ~HasNext
  /\ stack' = SubSeq(stack, 1, Len(stack) - 1)
  /\ chain' = ShorterChain
  /\ pc' = IF Len(stack) = 1 THEN "done" ELSE "walking"
  /\ UNCHANGED <<disk, saves, files, visited, target>>

LoaderStep ==
  \/ ReadRoot
  \/ RootFails
  \/ CanonicalizeNext
  \/ ReportCycle
  \/ ShareLoaded
  \/ ReadImport
  \/ ImportFails
  \/ Return

\* Somebody writes, breaks or removes a file while the loader runs.
Save(f) ==
  /\ pc # "done"
  /\ saves < MaxSaves
  /\ \E content \in (Sources \cup {Absent, Unreadable}) \ {disk[f]} :
       disk' = [disk EXCEPT ![f] = content]
  /\ saves' = saves + 1
  /\ UNCHANGED loaderVars

Next == LoaderStep \/ \E f \in File : Save(f)

\* The loader is straight-line code of one thread: it runs until it returns.
\* Nothing obliges the editor to save.
Spec == Init /\ [][Next]_vars /\ WF_vars(LoaderStep)

-----------------------------------------------------------------------------
(* Properties. *)

Index == 1..Len(files)

\* Declaration u of file i was followed: its alias was recorded.
Followed(i, u) == files[i].uses[u].as \in {"loaded", "shared"}

\* i declares an import the loader followed to j.
Follows(i, j) == \E u \in 1..Len(files[i].uses) :
                    Followed(i, u) /\ files[i].uses[u].key = files[j].key

\* The alias map of i leads to j: the edge the cross-slice pass walks.
Resolves(i, j) == \E a \in Alias : files[i].resolved[a] = files[j].key

ClosedUnderFollows(C) == \A i \in C, j \in Index : Follows(i, j) => j \in C

(* No path is loaded twice, however the import graph and the saves fall:   *)
(* a diamond's bottom is parsed once and `visited` is the set of loaded    *)
(* paths.                                                                  *)
LoadedOnce ==
  /\ \A i, j \in Index : files[i].key = files[j].key => i = j
  /\ (pc # "start" /\ ~files[1].rootError) =>
       visited = {files[i].key : i \in Index}

(* The alias maps that analysis follows are free of cycles: every set of   *)
(* loaded files has one that resolves to none of them.  walk_imports_of    *)
(* reports a declaration that would close a cycle and leaves its alias     *)
(* out.                                                                    *)
ResolvedAcyclic ==
  \A S \in (SUBSET Index) \ {{}} : \E i \in S : \A j \in S : ~Resolves(i, j)

(* E0401 is never a false alarm: the file it is reported on really is      *)
(* reachable, through imports the loader followed, from the file the       *)
(* declaration names.  A diamond is not a cycle.                           *)
CyclesAreReal ==
  \A i, j \in Index : \A u \in 1..Len(files[i].uses) :
    (files[i].uses[u] = [as |-> "E0401", key |-> files[j].key]) =>
      \A C \in SUBSET Index : (j \in C /\ ClosedUnderFollows(C)) => i \in C

(* When the load returns, an alias is missing from a file's alias map      *)
(* exactly if each of its declarations carries an E0400 or an E0401, and   *)
(* an alias that is present leads to a loaded file: no import is dropped   *)
(* without a diagnostic and none dangles.                                  *)
MissingAliasIsReported ==
  pc = "done" =>
    \A i \in Index :
      /\ Len(files[i].uses) = Len(files[i].imports)
      /\ \A u \in 1..Len(files[i].imports) :
           LET to == files[i].resolved[files[i].imports[u].alias] IN
           IF to = NoKey THEN ~Followed(i, u)
           ELSE \E j \in Index, v \in 1..Len(files[i].imports) :
                  /\ files[j].key = to
                  /\ files[i].imports[v].alias = files[i].imports[u].alias
                  /\ Followed(i, v)
                  /\ files[i].uses[v].key = to

\* Reading the disk without loading: the paths a path's file imports.
ImportedBy(k) == {Canonicalize(disk[FileOf[k]][u].path) : u \in DOMAIN disk[FileOf[k]]}

ClosedOnDisk(C) ==
  \A k \in C : Readable(k) => {m \in ImportedBy(k) : Readable(m)} \subseteq C

(* If nobody saved during the load, the working set is exactly what the    *)
(* root reaches on the disk through readable files: it is closed, and it   *)
(* lies in every closed set that holds the root.                           *)
LoadsTheReachable ==
  (pc = "done" /\ saves = 0 /\ Readable(Root)) =>
    LET loaded == {files[i].key : i \in Index} IN
    /\ ClosedOnDisk(loaded)
    /\ \A C \in SUBSET Key : (Root \in C /\ ClosedOnDisk(C)) => loaded \subseteq C

(* No file of the disk is loaded under two paths, if the root was given by *)
(* its canonical path and nobody saved during the load.                    *)
FileLoadedOnce ==
  \A i, j \in Index : FileOf[files[i].key] = FileOf[files[j].key] => i = j

CanonicalFilesLoadedOnce ==
  (saves = 0 /\ Root = CanonOf[FileOf[Root]]) => FileLoadedOnce

(* The load returns, on every import graph, with cycles and missing files. *)
Termination == <>(pc = "done")

=============================================================================
