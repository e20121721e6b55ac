------------------------------ MODULE Scanner -------------------------------
(***************************************************************************)
(* The scanner of the import directory (migrator/scanner.go) and           *)
(* GenerateMigrationFiles, which writes into it.                           *)
(*                                                                         *)
(* The directory has a folder per migration folder, with directories named *)
(* after versions, and a folder of snapshots.  Directories are listed in   *)
(* any order: the scanner takes their entries one by one and stops at the  *)
(* first it does not accept.  A directory name and a version are not the   *)
(* same: v1.0 and v1.0.0 are Equal, and some names are no version.         *)
(*                                                                         *)
(* A file name is its number, direction, name and type.  The patterns      *)
(* ignore the case of the direction, the parser does not: "DOWN" stands    *)
(* for any direction that is not lower case, "none" for a file without.    *)
(* What is hidden or not a file is skipped and left out.                   *)
(***************************************************************************)
EXTENDS Planner, Sequences, FiniteSets, Functions

CONSTANTS
    DirNames,     \* names of directories
    Rank,         \* the version of each name that is one
    VNames,       \* the names that begin with v
    Names,        \* file names: [ts, direction, word, type]
    SnapFiles,    \* snapshots that may be put into the directory: [batch, dir, type]
    Wanted,       \* what is asked to be generated: [ts, word, upType, downType]
    KeptDirs,     \* schema directories with a .keep_version_folder file
    MaxEntries    \* bounds the files, snapshots and empty directories

ASSUME NamesAssumption ==
    /\ Rank \in [DOMAIN Rank -> Versions]
    /\ DOMAIN Rank \subseteq DirNames /\ VNames \subseteq DirNames
    /\ Names \subseteq [ts : Timestamps \cup {0}, direction : {"up", "down", "DOWN", "none"},
                        word : BOOLEAN, type : {"cypher", "run"}]
    /\ Wanted \subseteq [ts : Timestamps \cup {0}, word : BOOLEAN,
                         upType : {"cypher", "run"}, downType : {"cypher", "run"}]
    /\ \A s \in SnapFiles : s.dir \in DOMAIN Rank
    /\ KeptDirs \subseteq VNames \cap DOMAIN Rank
    /\ Kept = {Rank[d] : d \in KeptDirs}

VARIABLES
    dirs,    \* the directories of the folders: [folder, dir]
    files,   \* the files in them: [folder, dir, name]
    snaps,   \* the snapshots: [batch, dir, type]
    phase,   \* what the scanner is doing
    left,    \* the entries it has still to look at
    found,   \* the LocalFolders it has so far
    torn     \* the last generation, when it failed half way and should not have

tree == <<dirs, files, snaps>>
scan == <<phase, left, found>>
vars == <<tree, scan, torn>>

\* The arguments of GenerateMigrationFiles.
Calls == [folder : Folders, dir : DOMAIN Rank, wanted : Wanted]

NoScripts == [up |-> <<>>, down |-> <<>>]

Init ==
    /\ dirs = {[folder |-> Schema, dir |-> d] : d \in KeptDirs}
    /\ files = {} /\ snaps = {}
    /\ phase = "none" /\ left = {} /\ found = <<>>
    /\ torn = {}

-----------------------------------------------------------------------------
(* File names.                                                             *)
UpDown(folder) == folder \notin ChangeOnly

\* In a change folder the direction is part of the name.
Matches(f) == f.name.word /\ (UpDown(f.folder) => f.name.direction # "none")

IsDowngrade(f) == UpDown(f.folder) /\ f.name.direction = "down"

FileError(f) == ~Matches(f) \/ f.name.ts = 0

\* Of one number, and one of them up and the other down.
SameNumber(f, g) == f.folder = g.folder /\ f.dir = g.dir /\ f.name.ts = g.name.ts
Opposite(f, g)   == IsDowngrade(f) <=> ~IsDowngrade(g)

-----------------------------------------------------------------------------
(* One directory.                                                          *)
FilesIn(folder, dir) == {f \in files : f.folder = folder /\ f.dir = dir}

\* A set as a sequence, in the order of a key.  (Files with one number are
\* refused before they are sorted.)
SortedBy(S, key) ==
    CHOOSE s \in [1 .. Cardinality(S) -> S] :
        IsInjective(s) /\ \A i, j \in DOMAIN s : i < j => key[s[i]] <= key[s[j]]

Up(folder, dir) ==
    SortedBy({f \in FilesIn(folder, dir) : ~IsDowngrade(f)}, [f \in files |-> f.name.ts])

Down(folder, dir) ==
    SortedBy({f \in FilesIn(folder, dir) : IsDowngrade(f)}, [f \in files |-> -f.name.ts])

Scripts(folder, dir) == [up |-> Up(folder, dir), down |-> Down(folder, dir)]

\* Two files with one number, both up or both down.
Duplicate(folder, dir) ==
    \E f, g \in FilesIn(folder, dir) :
        f # g /\ SameNumber(f, g) /\ ~Opposite(f, g)

\* Mutant of Paired: as many up files as down files are taken for pairs.
PairedByNumber(u, d) == Len(u) = Len(d)

\* Up files ascend, down files descend.
Paired(u, d) ==
    /\ Len(u) = Len(d)
    /\ \A i \in DOMAIN u : d[Len(d) - i + 1].name.ts = u[i].name.ts

FolderError(folder, dir) ==
    \/ \E f \in FilesIn(folder, dir) : FileError(f)
    \/ Duplicate(folder, dir)
    \/ UpDown(folder) /\ ~Paired(Up(folder, dir), Down(folder, dir))

DirError(dir) == dir \notin VNames \/ dir \notin DOMAIN Rank

-----------------------------------------------------------------------------
(* A scan: the schema folder, the other folders, the snapshots.            *)
Failed == phase' = "failed" /\ UNCHANGED <<left, found>>

Scan ==
    /\ phase = "none"
    /\ phase' = "schema"
    /\ left' = {d \in dirs : d.folder = Schema}
    /\ UNCHANGED <<tree, found, torn>>

ScanSchemaDir(d) ==
    /\ phase = "schema" /\ d \in left
    /\ IF DirError(d.dir) \/ FolderError(Schema, d.dir) THEN Failed
       ELSE /\ found' = IF Up(Schema, d.dir) = <<>> /\ d.dir \notin KeptDirs THEN found
                        ELSE Append(found, [dir     |-> d.dir,
                                            scripts |-> Scripts(Schema, d.dir),
                                            extra   |-> [e \in Extra |-> NoScripts],
                                            snaps   |-> [b \in BatchNames |-> {}]])
            /\ left' = left \ {d}
            /\ phase' = phase
    /\ UNCHANGED <<tree, torn>>

\* The versions found that are Equal to the one of a directory name.
SameVersion(dir) == {k \in DOMAIN found : Rank[found[k].dir] = Rank[dir]}
First(S) == CHOOSE k \in S : \A j \in S : k <= j

\* The folders are taken in any order; they do not depend on each other.
ScanExtra ==
    /\ phase = "schema" /\ left = {}
    /\ phase' = "extra"
    /\ left' = {d \in dirs : d.folder \in Extra}
    /\ UNCHANGED <<tree, found, torn>>

\* Mutant of ScanExtraDir: it attaches the files to the last version found.
ScanExtraDirLast(d) ==
    /\ phase = "extra" /\ d \in left
    /\ IF DirError(d.dir) \/ SameVersion(d.dir) = {} \/ FolderError(d.folder, d.dir) THEN Failed
       ELSE /\ found' = [found EXCEPT ![Len(found)].extra[d.folder] =
                             Scripts(d.folder, d.dir)]
            /\ left' = left \ {d}
            /\ phase' = phase
    /\ UNCHANGED <<tree, torn>>

ScanExtraDir(d) ==
    /\ phase = "extra" /\ d \in left
    /\ IF DirError(d.dir) \/ SameVersion(d.dir) = {} \/ FolderError(d.folder, d.dir) THEN Failed
       ELSE /\ found' = [found EXCEPT ![First(SameVersion(d.dir))].extra[d.folder] =
                             Scripts(d.folder, d.dir)]
            /\ left' = left \ {d}
            /\ phase' = phase
    /\ UNCHANGED <<tree, torn>>

ScanSnapshots ==
    /\ phase = "extra" /\ left = {}
    /\ phase' = "snapshots"
    /\ left' = snaps
    /\ UNCHANGED <<tree, found, torn>>

AddSnapshot(s) ==
    /\ phase = "snapshots" /\ s \in left
    /\ IF s.batch \notin BatchNames \/ SameVersion(s.dir) = {} THEN Failed
       ELSE /\ found' = [found EXCEPT ![First(SameVersion(s.dir))].snaps[s.batch] = {s}]
            /\ left' = left \ {s}
            /\ phase' = phase
    /\ UNCHANGED <<tree, torn>>

Scanned ==
    /\ phase = "snapshots" /\ left = {}
    /\ phase' = "done"
    /\ UNCHANGED <<tree, left, found, torn>>

\* The caller takes the result, or the error.
Return ==
    /\ phase \in {"done", "failed"}
    /\ phase' = "none" /\ left' = {} /\ found' = <<>>
    /\ UNCHANGED <<tree, torn>>

-----------------------------------------------------------------------------
(* Changes of the directory, between scans.                                *)
Entries == Cardinality(files) + Cardinality(snaps)
           + Cardinality({d \in dirs : d.dir \notin KeptDirs /\ FilesIn(d.folder, d.dir) = {}})

Edit == phase = "none" /\ Entries < MaxEntries /\ UNCHANGED scan

PutDir(folder, dir) ==
    /\ Edit
    /\ dirs' = dirs \cup {[folder |-> folder, dir |-> dir]}
    /\ torn' = {}
    /\ UNCHANGED <<files, snaps>>

PutFile(d, name) ==
    /\ Edit
    /\ files' = files \cup {[folder |-> d.folder, dir |-> d.dir, name |-> name]}
    /\ torn' = {}
    /\ UNCHANGED <<dirs, snaps>>

PutSnapshot(s) ==
    /\ Edit
    /\ snaps' = snaps \cup {s}
    /\ torn' = {}
    /\ UNCHANGED <<dirs, files>>

-----------------------------------------------------------------------------
(* GenerateMigrationFiles.                                                 *)

\* writeMigrationFile
FileOf(c, direction, type) ==
    [folder |-> c.folder, dir |-> c.dir,
     name |-> [ts |-> c.wanted.ts, word |-> c.wanted.word, type |-> type,
               direction |-> IF UpDown(c.folder) THEN direction ELSE "none"]]

UpFile(c)   == FileOf(c, "up", c.wanted.upType)
DownFile(c) == FileOf(c, "down", c.wanted.downType)

\* Mutant of Generated: a down file when the schema folder has them.
GeneratedAsSchema(c) ==
    {UpFile(c)} \cup IF UpDown(Schema) THEN {DownFile(c)} ELSE {}

Generated(c) ==
    {UpFile(c)} \cup IF UpDown(c.folder) THEN {DownFile(c)} ELSE {}

\* The directory gets the name as it was spelled.
GenerateDir(c) ==
    /\ Edit
    /\ c.wanted.ts # 0
    /\ dirs' = dirs \cup {[folder |-> c.folder, dir |-> c.dir]}
    /\ UNCHANGED snaps

Generate(c) ==
    /\ GenerateDir(c)
    /\ files' = files \cup Generated(c)
    /\ torn' = {}

-----------------------------------------------------------------------------
(* What the scanner accepts, in any order of the entries.                  *)
HasSchema(version) ==
    \E d \in dirs :
        /\ d.folder = Schema /\ Rank[d.dir] = version
        /\ d.dir \in KeptDirs \/ FilesIn(Schema, d.dir) # {}

FileOK(f, others) ==
    /\ ~FileError(f)
    /\ \A g \in others \ {f} : SameNumber(f, g) => Opposite(f, g)
    /\ UpDown(f.folder) => \E g \in others : SameNumber(f, g) /\ Opposite(f, g)

WellFormed ==
    /\ \A d \in dirs : ~DirError(d.dir)
    /\ \A f \in files : FileOK(f, files)
    /\ \A d \in dirs : d.folder \in Extra => HasSchema(Rank[d.dir])
    /\ \A s \in snaps : s.batch \in BatchNames /\ HasSchema(Rank[s.dir])

\* A call that asks for files the scanner can accept: a name of word characters,
\* a version with a v, a number that is not used, a version the schema has.
Proper(c) ==
    /\ c.wanted.word
    /\ c.dir \in VNames
    /\ \A f \in FilesIn(c.folder, c.dir) : f.name.ts # c.wanted.ts
    /\ c.folder \in Extra => HasSchema(Rank[c.dir])

\* A write fails: the directory is there, and of the files none or the first.
GenerateFails(c) ==
    /\ GenerateDir(c)
    /\ \/ files' = files
       \/ files' = files \cup {UpFile(c)}
    /\ torn' = IF (WellFormed /\ Proper(c)) \/ torn = {c} THEN {c} ELSE {}

-----------------------------------------------------------------------------
Next == \/ Scan \/ ScanExtra \/ ScanSnapshots \/ Scanned \/ Return
        \/ \E d \in left : ScanSchemaDir(d) \/ ScanExtraDir(d) \/ AddSnapshot(d)
        \/ \E folder \in Folders, dir \in DirNames : PutDir(folder, dir)
        \/ \E d \in dirs, name \in Names : PutFile(d, name)
        \/ \E s \in SnapFiles : PutSnapshot(s)
        \/ \E c \in Calls : Generate(c) \/ GenerateFails(c)

Spec == Init /\ [][Next]_vars

-----------------------------------------------------------------------------
(* Correctness.                                                            *)

\* The verdict of a scan depends on the directory alone, not on the order in
\* which its entries are listed.
AcceptanceExact ==
    /\ phase = "done" => WellFormed
    /\ phase = "failed" => ~WellFormed

\* No two directories of a folder, and no two snapshots of a batch, are of one
\* version.
Distinct ==
    /\ \A d, e \in dirs : d.folder = e.folder /\ Rank[d.dir] = Rank[e.dir] => d = e
    /\ \A s, t \in snaps : s.batch = t.batch /\ Rank[s.dir] = Rank[t.dir] => s = t

ScriptsOf(v, folder) == IF folder = Schema THEN v.scripts ELSE v.extra[folder]

\* What Planner calls the repo of a directory.
Repo == {[folder |-> f.folder, version |-> Rank[f.dir], ts |-> f.name.ts] : f \in files}

\* Every file and snapshot of the directory is found once, at its version, and
\* Planner's view of the directory is what was found.
ResultExact ==
    (phase = "done" /\ Distinct) =>
        /\ {Rank[v.dir] : v \in Range(found)} = LocalVersions(Repo)
        /\ \A i, j \in DOMAIN found : Rank[found[i].dir] = Rank[found[j].dir] => i = j
        /\ ~ScanError(Repo)
        /\ \A v \in Range(found), folder \in Folders :
              Range(ScriptsOf(v, folder).up) \cup Range(ScriptsOf(v, folder).down) =
                  {f \in files : f.folder = folder /\ Rank[f.dir] = Rank[v.dir]}
        /\ \A s \in snaps : \E v \in Range(found) : Rank[v.dir] = Rank[s.dir] /\ v.snaps[s.batch] = {s}

\* Generated files do not break the directory, and the same call again repairs
\* what one that failed half way has left.
GeneratedScans ==
    [][\A c \in Calls :
          (Generate(c) /\ ((WellFormed /\ Proper(c)) \/ torn = {c})) => WellFormed']_vars

=============================================================================
