--------------------------- MODULE ScannerProofs ----------------------------
(***************************************************************************)
(* GenerateMigrationFiles and a directory without errors, for any folders, *)
(* names and versions.                                                     *)
(***************************************************************************)
EXTENDS Scanner, FiniteSetTheorems, TLAPS

FileSet == [folder : Folders, dir : DirNames,
            name : [ts : Timestamps \cup {0}, direction : {"up", "down", "DOWN", "none"},
                    word : BOOLEAN, type : {"cypher", "run"}]]

\* But for the up file of a call there is no error in the directory, and no file
\* with its number.
Almost(c) ==
    /\ c.wanted.word /\ c.dir \in VNames
    /\ c.folder \in Extra => HasSchema(Rank[c.dir])
    /\ \A d \in dirs : ~DirError(d.dir)
    /\ \A f \in files \ {UpFile(c)} :
          FileOK(f, files \ {UpFile(c)}) /\ ~SameNumber(f, UpFile(c))
    /\ \A d \in dirs : d.folder \in Extra => HasSchema(Rank[d.dir])
    /\ \A s \in snaps : s.batch \in BatchNames /\ HasSchema(Rank[s.dir])

\* A generation that failed half way has done no more than that.
TornInv ==
    /\ files \subseteq FileSet
    /\ \A d \in dirs : d.folder \in Folders /\ d.dir \in DirNames
    /\ \A c \in torn : c \in Calls /\ Almost(c)

LEMMA CallTypes ==
    ASSUME NEW c \in Calls
    PROVE  /\ UpFile(c) \in FileSet /\ DownFile(c) \in FileSet
           /\ c.folder \in Folders /\ c.dir \in DOMAIN Rank /\ c.dir \in DirNames
  BY NamesAssumption DEF Calls, UpFile, DownFile, FileOf, FileSet

\* The generated files have the number of the call and are a pair.
LEMMA CallFiles ==
    ASSUME NEW c \in Calls
    PROVE  /\ ~IsDowngrade(UpFile(c))
           /\ UpDown(c.folder) => IsDowngrade(DownFile(c))
           /\ SameNumber(UpFile(c), DownFile(c)) /\ SameNumber(DownFile(c), UpFile(c))
           /\ UpFile(c).folder = c.folder /\ DownFile(c).folder = c.folder
           /\ c.wanted.word /\ c.wanted.ts # 0 => ~FileError(UpFile(c)) /\ ~FileError(DownFile(c))
  BY DEF UpFile, DownFile, FileOf, IsDowngrade, UpDown, SameNumber, FileError, Matches

\* More files and directories leave no version without schema.
LEMMA SchemaGrows ==
    ASSUME NEW version, HasSchema(version), dirs \subseteq dirs', files \subseteq files'
    PROVE  HasSchema(version)'
  BY DEF HasSchema, FilesIn

LEMMA ProperIsAlmost ==
    ASSUME NEW c \in Calls, WellFormed, Proper(c)
    PROVE  Almost(c)
<1>1. \A f \in files : ~SameNumber(f, UpFile(c))
  BY DEF Proper, FilesIn, SameNumber, UpFile, FileOf
<1>2. UpFile(c) \notin files
  BY <1>1 DEF SameNumber
<1>3. files \ {UpFile(c)} = files
  BY <1>2
<1>4. QED  BY <1>1, <1>3 DEF Almost, WellFormed, Proper

LEMMA FailureIsAlmost ==
    ASSUME NEW c \in Calls, Almost(c), GenerateFails(c)
    PROVE  Almost(c)'
<1>1. /\ dirs' = dirs \cup {[folder |-> c.folder, dir |-> c.dir]}
      /\ files' = files \/ files' = files \cup {UpFile(c)}
      /\ snaps' = snaps
  BY DEF GenerateFails, GenerateDir
<1>2. files' \ {UpFile(c)} = files \ {UpFile(c)}
  BY <1>1
<1>3. \A version : HasSchema(version) => HasSchema(version)'
  BY <1>1, SchemaGrows
<1>4. \A d \in dirs' : ~DirError(d.dir)
  BY <1>1, CallTypes DEF Almost, DirError
<1>5. \A d \in dirs' : d.folder \in Extra => HasSchema(Rank[d.dir])'
  BY <1>1, <1>3 DEF Almost
<1>6. \A s \in snaps' : s.batch \in BatchNames /\ HasSchema(Rank[s.dir])'
  BY <1>1, <1>3 DEF Almost
<1>7. c.folder \in Extra => HasSchema(Rank[c.dir])'
  BY <1>3 DEF Almost
<1>8. QED  BY <1>2, <1>4, <1>5, <1>6, <1>7 DEF Almost

\* The whole of the call completes the pair.
LEMMA CallCompletes ==
    ASSUME NEW c \in Calls, Almost(c), Generate(c), files \subseteq FileSet
    PROVE  WellFormed'
<1>1. /\ dirs' = dirs \cup {[folder |-> c.folder, dir |-> c.dir]}
      /\ files' = files \cup Generated(c)
      /\ snaps' = snaps
      /\ c.wanted.ts # 0
  BY DEF Generate, GenerateDir
<1>2. \A version : HasSchema(version) => HasSchema(version)'
  BY <1>1, SchemaGrows
<1>3. \A d \in dirs' : ~DirError(d.dir)
  BY <1>1, CallTypes DEF Almost, DirError
<1>4. \A d \in dirs' : d.folder \in Extra => HasSchema(Rank[d.dir])'
  BY <1>1, <1>2 DEF Almost
<1>5. \A s \in snaps' : s.batch \in BatchNames /\ HasSchema(Rank[s.dir])'
  BY <1>1, <1>2 DEF Almost
<1>6. \A f \in files' : FileOK(f, files')
  <2> DEFINE rest == files \ {UpFile(c)}
  <2>1. files' = rest \cup Generated(c) /\ UpFile(c) \in Generated(c)
    BY <1>1 DEF Generated
  <2>2. \A g \in Generated(c) :
           g = UpFile(c) \/ (UpDown(c.folder) /\ g = DownFile(c) /\ DownFile(c) \in Generated(c))
    BY DEF Generated
  <2>3. UpDown(c.folder) => DownFile(c) \in Generated(c)
    BY DEF Generated
  <2>4. \A f \in rest, g \in Generated(c) : ~SameNumber(f, g) /\ ~SameNumber(g, f)
    BY <2>2, CallFiles DEF Almost, SameNumber
  <2>5. \A f \in rest : FileOK(f, rest)
    BY DEF Almost
  <2> HIDE DEF rest
  <2>6. ASSUME NEW f \in rest PROVE FileOK(f, files')
    BY <2>1, <2>4, <2>5, <2>6 DEF FileOK
  <2>7. ASSUME NEW f \in Generated(c) PROVE FileOK(f, files')
    <3>1. ~FileError(f)
      BY <1>1, <2>2, CallFiles DEF Almost
    <3>2. f.folder = c.folder
      BY <2>2, CallFiles
    <3>3. \A g \in files' \ {f} : SameNumber(f, g) => Opposite(f, g)
      BY <2>1, <2>2, <2>4, CallFiles DEF Opposite
    <3>4. UpDown(f.folder) => \E g \in files' : SameNumber(f, g) /\ Opposite(f, g)
      BY <2>1, <2>2, <2>3, <3>2, CallFiles DEF Opposite
    <3>5. QED  BY <3>1, <3>3, <3>4 DEF FileOK
  <2>8. QED  BY <2>1, <2>6, <2>7
<1>7. QED  BY <1>3, <1>4, <1>5, <1>6 DEF WellFormed

-----------------------------------------------------------------------------
LEMMA InitTornInv == Init => TornInv
<1> SUFFICES ASSUME Init PROVE TornInv
  OBVIOUS
<1>1. Schema \in Folders /\ KeptDirs \subseteq DirNames
  BY NamesAssumption DEF Folders
<1>2. QED  BY <1>1 DEF Init, TornInv

\* What leaves the directory alone leaves the invariant alone.
LEMMA UntouchedTornInv == TornInv /\ UNCHANGED <<tree, torn>> => TornInv'
BY DEF TornInv, tree, Almost, HasSchema, FilesIn

LEMMA NextTornInv == TornInv /\ [Next]_vars => TornInv'
<1> SUFFICES ASSUME TornInv, [Next]_vars PROVE TornInv'
  OBVIOUS
<1>1. CASE UNCHANGED vars
  BY <1>1, UntouchedTornInv DEF vars
<1>2. CASE Scan \/ ScanExtra \/ ScanSnapshots \/ Scanned \/ Return
  BY <1>2, UntouchedTornInv DEF Scan, ScanExtra, ScanSnapshots, Scanned, Return
<1>3. ASSUME NEW d \in left, ScanSchemaDir(d) \/ ScanExtraDir(d) \/ AddSnapshot(d)
      PROVE  TornInv'
  BY <1>3, UntouchedTornInv DEF ScanSchemaDir, ScanExtraDir, AddSnapshot
<1>4. ASSUME NEW folder \in Folders, NEW dir \in DirNames, PutDir(folder, dir)
      PROVE  TornInv'
  BY <1>4 DEF PutDir, TornInv
<1>5. ASSUME NEW d \in dirs, NEW name \in Names, PutFile(d, name)
      PROVE  TornInv'
  <2>1. [folder |-> d.folder, dir |-> d.dir, name |-> name] \in FileSet
    BY NamesAssumption DEF TornInv, FileSet
  <2>2. QED  BY <1>5, <2>1 DEF PutFile, TornInv
<1>6. ASSUME NEW s \in SnapFiles, PutSnapshot(s) PROVE TornInv'
  BY <1>6 DEF PutSnapshot, TornInv
<1>7. ASSUME NEW c \in Calls, Generate(c) \/ GenerateFails(c) PROVE TornInv'
  <2>1. UpFile(c) \in FileSet /\ Generated(c) \subseteq FileSet
    BY CallTypes DEF Generated
  <2>2. files' \subseteq FileSet
    BY <1>7, <2>1 DEF Generate, GenerateFails, TornInv
  <2>3. dirs' = dirs \cup {[folder |-> c.folder, dir |-> c.dir]}
    BY <1>7 DEF Generate, GenerateFails, GenerateDir
  <2>4. \A d \in dirs' : d.folder \in Folders /\ d.dir \in DirNames
    BY <2>3, CallTypes DEF TornInv
  <2>5. CASE Generate(c)
    BY <2>2, <2>4, <2>5 DEF Generate, TornInv
  <2>6. CASE GenerateFails(c)
    <3>1. torn' = {} \/ (torn' = {c} /\ Almost(c))
      BY <2>6, ProperIsAlmost DEF GenerateFails, TornInv
    <3>2. torn' = {c} => Almost(c)'
      BY <2>6, <3>1, FailureIsAlmost
    <3>3. QED  BY <2>2, <2>4, <3>1, <3>2 DEF TornInv
  <2>7. QED  BY <1>7, <2>5, <2>6
<1>8. QED  BY <1>1, <1>2, <1>3, <1>4, <1>5, <1>6, <1>7 DEF Next

\* GenerateMigrationFiles, asked for files the scanner can accept, leaves a
\* directory it accepts, and repairs what the same call left when a write failed.
THEOREM GenerationIsSafe == Spec => GeneratedScans
<1>1. ASSUME TornInv
      PROVE  \A c \in Calls :
                (Generate(c) /\ ((WellFormed /\ Proper(c)) \/ torn = {c})) => WellFormed'
  <2> SUFFICES ASSUME NEW c \in Calls, Generate(c), (WellFormed /\ Proper(c)) \/ torn = {c}
               PROVE  WellFormed'
    OBVIOUS
  <2>1. Almost(c) /\ files \subseteq FileSet
    BY <1>1, ProperIsAlmost DEF TornInv
  <2>2. QED  BY <2>1, CallCompletes
<1>2. QED
  BY <1>1, InitTornInv, NextTornInv, PTL DEF Spec, GeneratedScans

=============================================================================
