---------------------------- MODULE StartupProofs ----------------------------
(***************************************************************************)
(* Theorems about Startup, for every height of the chain, the snapshot and *)
(* the checkpoint, every set of command lines and any number of faults.    *)
(***************************************************************************)
EXTENDS Startup, TLAPS

-----------------------------------------------------------------------------
(* The invariant                                                           *)

\* Places in AppInit2 after the test for a migration marker.
PastMigration ==
    {"index", "wipe", "wipe rest", "import", "import rest", "unmark reindex",
     "genesis", "load wallet", "running"}

Migrating == {"remove rocksdb", "mark", "copy chain", "verify chain"}

Reindexing == {"wipe", "wipe rest", "import", "import rest", "unmark reindex"}

LoadingSnapshot == {"load snapshot", "extract blocks"}

Places ==
    {"down", "wallet", "copy wallet", "back up wallet", "swap wallet", "snapshot", "migrate",
     "unmark", "deleted"} \cup PastMigration \cup Migrating \cup LoadingSnapshot

\* Where the process is, and which markers and directories it has seen or made.
Control ==
    /\ pc \in Places
    /\ pc \in PastMigration \cup LoadingSnapshot /\ opt.chaindb = "rocksdb" => ~MIGRATION_INCOMPLETE
    /\ pc \in Migrating => LevelDb.db # "none"
    /\ pc = "mark" => Rocks.db = "bare"
    /\ pc \in {"copy chain", "verify chain", "unmark"} => MIGRATION_INCOMPLETE
    /\ pc \in Reindexing => REINDEX_INCOMPLETE
    /\ pc = "deleted" => "deleted" \in scars
    /\ refused = "marked" => pc = "down" /\ MIGRATION_INCOMPLETE

\* A wallet that is still in the old format holds every key given out; a file
\* that is not there holds none, and the copy has the new format.  Apart from
\* the copy, wallet.dat and its backup hold all keys.
Keys ==
    /\ wallet.format = "bdb" => issued \subseteq wallet.keys
    /\ wallet.format = "none" => wallet.keys = {}
    /\ walletTmp.format = "none" => walletTmp.keys = {}
    /\ walletBak.format = "none" => walletBak.keys = {}
    /\ walletTmp.format # "bdb"
    /\ pc \in {"copy wallet", "back up wallet"} => wallet.format = "bdb"
    /\ pc = "swap wallet" => wallet.format = "none"
    /\ issued \subseteq wallet.keys \cup walletBak.keys

\* The places where a partial directory needs no marker.
PartialUnmarked(b) ==
    \/ pc \in LoadingSnapshot /\ opt.chaindb = b
    \/ pc = "remove rocksdb" /\ b = "rocksdb"

\* The state of the directory of the configured backend.
DirDb == IF opt.chaindb = "rocksdb" THEN Rocks.db ELSE LevelDb.db

\* A partial directory is marked, and a process past the markers is not on one.
Marked ==
    /\ Rocks.db = "partial" =>
          MIGRATION_INCOMPLETE \/ REINDEX_INCOMPLETE \/ PartialUnmarked("rocksdb")
    /\ LevelDb.db = "partial" => REINDEX_INCOMPLETE \/ PartialUnmarked("txleveldb")
    /\ pc = "unmark" /\ Rocks.db = "partial" => REINDEX_INCOMPLETE
    /\ pc = "genesis" => DirDb = "bare"
    /\ pc \in {"unmark reindex", "load wallet", "running"} => DirDb = "whole"

MarkedInv == scars \cap {"unmarked", "deleted"} = {} => Marked

\* The chain of an old node is whole in one of the directories, or is about to
\* be read from blk0001.dat again.
ChainKept ==
    /\ blk.height = legacyHeight
    /\ Rocks.db = "whole" => Rocks.height = legacyHeight
    /\ LevelDb.db = "whole" => LevelDb.height = legacyHeight
    /\ \/ REINDEX_INCOMPLETE
       \/ LevelDb.db = "whole"
       \/ Rocks.db = "whole" /\ ~MIGRATION_INCOMPLETE
    /\ LevelDb.db # "bare"
    /\ Rocks.db = "bare" => MIGRATION_INCOMPLETE \/ pc = "mark"
    /\ pc = "unmark" => Rocks.db \in {"whole", "partial"}
    /\ pc = "index" /\ opt.chaindb = "rocksdb" /\ Rocks.db # "whole" => REINDEX_INCOMPLETE
    /\ pc # "genesis" /\ pc # "extract blocks"

ChainKeptInv == legacyHeight >= 0 /\ scars = {} => legacyHeight = Top /\ ChainKept

\* What is said of the chain databases.
ChainPart ==
    /\ Control
    /\ MIGRATION_INCOMPLETE => Rocks.db # "none"
    /\ MarkedInv
    /\ ChainKeptInv

IInv == TypeOK /\ Keys /\ ChainPart

-----------------------------------------------------------------------------
(* Directories, faults and the end of the process                          *)

\* The backends, and the directories that a step may leave.
LEMMA DirectoryKinds ==
    /\ "rocksdb" \in Backend /\ "txleveldb" \in Backend
    /\ \A b \in Backend : b = "rocksdb" \/ b = "txleveldb"
    /\ NoDir \in Directory /\ Bare \in Directory /\ Partial \in Directory
    /\ \A h \in 0 .. Top : Whole(h) \in Directory
    /\ SnapshotHeight \in 0 .. Top /\ 0 \in 0 .. Top
  BY StartupConstants DEF NoDir, Bare, Partial, Whole, Directory, Backend

\* The kinds of directory differ.
LEMMA DirectoryFields ==
    /\ NoDir.db = "none" /\ Bare.db = "bare" /\ Partial.db = "partial"
    /\ \A h \in 0 .. Top : Whole(h).db = "whole" /\ Whole(h).height = h
  BY DEF NoDir, Bare, Partial, Whole

\* One directory is replaced, the other is not.
LEMMA SetDirEffect ==
    ASSUME TypeOK, NEW b \in Backend, NEW d \in Directory, SetDir(b, d)
    PROVE  /\ chainDb' \in [Backend -> Directory]
           /\ Rocks' = IF b = "rocksdb" THEN d ELSE Rocks
           /\ LevelDb' = IF b = "txleveldb" THEN d ELSE LevelDb
<1>1. chainDb' = [chainDb EXCEPT ![b] = d] /\ chainDb \in [Backend -> Directory]
  BY DEF SetDir, TypeOK
<1>2. chainDb' \in [Backend -> Directory]
  BY <1>1
<1> QED BY <1>1, <1>2, DirectoryKinds DEF Rocks, LevelDb

\* The directory of the configured backend is one of the two.
LEMMA DirIs ==
    ASSUME TypeOK
    PROVE  /\ opt.chaindb \in Backend /\ opt.reindex \in BOOLEAN
           /\ opt.chaindb = "rocksdb" \/ opt.chaindb = "txleveldb"
           /\ Dir = IF opt.chaindb = "rocksdb" THEN Rocks ELSE LevelDb
           /\ Dir \in Directory /\ Rocks \in Directory /\ LevelDb \in Directory
<1>1. opt.chaindb \in Backend /\ opt.reindex \in BOOLEAN /\ chainDb \in [Backend -> Directory]
  BY DEF TypeOK, OptionSet
<1> QED BY <1>1, DirectoryKinds DEF Dir, Rocks, LevelDb

\* The directory of the configured backend is replaced.
LEMMA OwnDirEffect ==
    ASSUME TypeOK, NEW d \in Directory, SetDir(opt.chaindb, d)
    PROVE  /\ Rocks' = IF opt.chaindb = "rocksdb" THEN d ELSE Rocks
           /\ LevelDb' = IF opt.chaindb = "txleveldb" THEN d ELSE LevelDb
<1>1. opt.chaindb \in Backend
  BY DirIs
<1> QED BY <1>1, SetDirEffect, Zenon

\* The wallet files that a step may leave.
LEMMA FileKinds ==
    /\ NoFile \in File
    /\ [format |-> "sqlite", keys |-> {}] \in File
    /\ \A f \in File : [format |-> "sqlite", keys |-> f.keys] \in File
  BY DEF NoFile, File

\* Faults are counted and bounded.
LEMMA FaultCounts ==
    ASSUME TypeOK, Fault
    PROVE  faults' \in 0 .. MaxFaults
  BY StartupConstants DEF TypeOK, Fault

\* A process that ends leaves nothing in memory.
LEMMA StopTypes ==
    ASSUME Stop
    PROVE  opt' \in OptionSet /\ opened' \in BOOLEAN /\ fetching' \in BOOLEAN /\ pc' = "down"
  BY DEF Stop, Default, OptionSet, Backend

-----------------------------------------------------------------------------
(* Types                                                                   *)

\* The types without the place of the marker.
Types ==
    /\ wallet \in File /\ walletTmp \in File /\ walletBak \in File
    /\ chainDb \in [Backend -> Directory]
    /\ MIGRATION_INCOMPLETE \in BOOLEAN /\ REINDEX_INCOMPLETE \in BOOLEAN
    /\ blk \in [height : -1 .. Top, stray : BOOLEAN, torn : BOOLEAN]
    /\ snapshotFile \in {"none", "partial", "good"}
    /\ opt \in OptionSet /\ opened \in BOOLEAN /\ fetching \in BOOLEAN
    /\ legacyHeight \in -1 .. Top
    /\ issued \subseteq {"old", "new"}
    /\ faults \in 0 .. MaxFaults
    /\ scars \subseteq {"unmarked", "deleted", "replaced", "restarted"}

\* Steps that replace no directory keep the types.
LEMMA FileTypes ==
    ASSUME TypeOK,
           \/ WalletStep \/ SkipSnapshot \/ ExtractBlocks \/ SkipMigration
           \/ WriteMigrationMarker \/ RemoveMigrationMarker
           \/ BeginReindex \/ RemoveReindexMarker \/ LoadBlockIndex \/ LoadWallet
           \/ FetchSnapshot \/ FetchSucceeds \/ FetchFails \/ Shutdown
           \/ \E o \in Options : Start(o)
    PROVE  Types'
<1> USE DEF TypeOK, Types, walletFiles, chainFiles, process, history
<1>1. CASE WalletStep \/ SkipSnapshot
  BY <1>1, FileKinds DEF WalletStep, SkipWalletMigration, BeginWalletCopy, CopyWallet,
                         BackUpWallet, SwapWallet, SkipSnapshot
<1>2. CASE ExtractBlocks
  <2>1. [height |-> SnapshotHeight, stray |-> FALSE, torn |-> TRUE]
          \in [height : -1 .. Top, stray : BOOLEAN, torn : BOOLEAN]
    BY StartupConstants
  <2>2. scars' \subseteq {"unmarked", "deleted", "replaced", "restarted"}
    BY <1>2 DEF ExtractBlocks
  <2> QED BY <1>2, <2>1, <2>2 DEF ExtractBlocks
<1>3. CASE SkipMigration \/ LoadBlockIndex
  BY <1>3, StopTypes DEF SkipMigration, LoadBlockIndex, InitError
<1>4. CASE BeginReindex
  BY <1>4, StopTypes DEF BeginReindex, InitError
<1>5. CASE WriteMigrationMarker \/ RemoveMigrationMarker \/ RemoveReindexMarker
  BY <1>5 DEF WriteMigrationMarker, RemoveMigrationMarker, RemoveReindexMarker
<1>6. CASE LoadWallet
  <2>1. LoadedWallet \in File
    BY DEF LoadedWallet, File
  <2>2. wallet' \in File /\ issued' \subseteq {"old", "new"} /\ fetching' \in BOOLEAN
    BY <1>6, <2>1 DEF LoadWallet, File
  <2> QED BY <1>6, <2>2 DEF LoadWallet
<1>7. CASE FetchSnapshot \/ FetchSucceeds \/ FetchFails \/ Shutdown
  BY <1>7, StopTypes DEF FetchSnapshot, FetchSucceeds, FetchFails, Shutdown
<1>8. CASE \E o \in Options : Start(o)
  BY <1>8, StartupConstants DEF Start
<1> QED BY <1>1, <1>2, <1>3, <1>4, <1>5, <1>6, <1>7, <1>8

\* A failure or a crash that replaces no directory keeps the types.
LEMMA FaultTypes ==
    ASSUME TypeOK, FaultStep, ~LoadSnapshotFails
    PROVE  Types'
<1> USE DEF TypeOK, Types, walletFiles, chainFiles, process, history, InitError
<1>1. CASE CopyWalletFails \/ BackUpWalletFails
  <2>1. faults' \in 0 .. MaxFaults
    BY <1>1, FaultCounts DEF CopyWalletFails, BackUpWalletFails
  <2>2. walletTmp' \in File
    BY <1>1, FileKinds DEF CopyWalletFails, BackUpWalletFails
  <2> QED BY <1>1, <2>1, <2>2, StopTypes DEF CopyWalletFails, BackUpWalletFails
<1>2. CASE SwapWalletFails
  <2>1. faults' \in 0 .. MaxFaults
    <3>1. CASE Fault
      BY <3>1, FaultCounts
    <3>2. CASE faults + 2 <= MaxFaults /\ faults' = faults + 2
      BY <3>2, StartupConstants
    <3> QED BY <1>2, <3>1, <3>2 DEF SwapWalletFails
  <2> QED BY <1>2, <2>1, StopTypes, FileKinds DEF SwapWalletFails
<1>3. CASE WriteMigrationMarkerFails \/ CopyChainFails \/ RemoveMigrationMarkerFails
  BY <1>3, StopTypes, FaultCounts
     DEF WriteMigrationMarkerFails, CopyChainFails, RemoveMigrationMarkerFails
<1>4. CASE BeginReindexFails
  BY <1>4, StopTypes, FaultCounts DEF BeginReindexFails
<1>5. CASE ImportFails \/ RemoveReindexMarkerFails
  BY <1>5, StopTypes, FaultCounts DEF ImportFails, RemoveReindexMarkerFails
<1>6. CASE Crash
  BY <1>6, StopTypes, FaultCounts DEF Crash
<1> QED BY <1>1, <1>2, <1>3, <1>4, <1>5, <1>6 DEF FaultStep

\* A genesis record in the block file.
LEMMA AppendGenesisType ==
    ASSUME TypeOK
    PROVE  AppendGenesis(blk) \in [height : -1 .. Top, stray : BOOLEAN, torn : BOOLEAN]
<1>1. blk \in [height : -1 .. Top, stray : BOOLEAN, torn : BOOLEAN] /\ 0 \in -1 .. Top
  BY StartupConstants DEF TypeOK
<1>2. CASE blk.height < 0
  BY <1>1, <1>2 DEF AppendGenesis
<1>3. CASE ~(blk.height < 0)
  BY <1>1, <1>3 DEF AppendGenesis
<1> QED BY <1>2, <1>3

\* One directory is replaced by a directory: with the rest unchanged or of the
\* right types, the types are kept.
LEMMA DirTypes ==
    ASSUME TypeOK, NEW b \in Backend, NEW d \in Directory, SetDir(b, d),
           UNCHANGED walletFiles, UNCHANGED <<legacyHeight, issued>>,
           MIGRATION_INCOMPLETE' \in BOOLEAN, REINDEX_INCOMPLETE' = REINDEX_INCOMPLETE,
           blk' \in [height : -1 .. Top, stray : BOOLEAN, torn : BOOLEAN],
           snapshotFile' = snapshotFile,
           opt' \in OptionSet, opened' \in BOOLEAN, fetching' \in BOOLEAN,
           faults' \in 0 .. MaxFaults,
           scars' \subseteq {"unmarked", "deleted", "replaced", "restarted"}
    PROVE  Types'
<1>1. chainDb' \in [Backend -> Directory]
  BY SetDirEffect
<1> QED BY <1>1 DEF TypeOK, Types, walletFiles

\* Steps that replace a directory keep the types.
LEMMA DirectoryTypes ==
    ASSUME TypeOK,
           \/ BeginLoadSnapshot \/ FinishLoadSnapshot \/ LoadSnapshotFails
           \/ RemoveOldRocksDb \/ CreateRocksDir \/ CopySomeRecords \/ CopyLastRecords
           \/ WipeSome \/ WipeRest \/ ImportSome \/ ImportRest
           \/ WriteGenesis \/ IndexGenesis \/ AcceptBlock \/ DeleteRocksDb
    PROVE  Types'
<1> USE DirectoryKinds, DirIs
<1> DEFINE Blk == [height : -1 .. Top, stray : BOOLEAN, torn : BOOLEAN]
           Scars == SUBSET {"unmarked", "deleted", "replaced", "restarted"}
<1>1. CASE BeginLoadSnapshot \/ FinishLoadSnapshot
  <2>1. blk' \in Blk
    BY <1>1 DEF BeginLoadSnapshot, FinishLoadSnapshot, TypeOK
  <2>2. PICK d \in Directory : SetDir(opt.chaindb, d)
    BY <1>1 DEF BeginLoadSnapshot, FinishLoadSnapshot
  <2>3. opt' \in OptionSet /\ opened' \in BOOLEAN /\ fetching' \in BOOLEAN
    BY <1>1 DEF BeginLoadSnapshot, FinishLoadSnapshot, process, TypeOK
  <2>4. /\ UNCHANGED walletFiles /\ UNCHANGED <<legacyHeight, issued, faults>>
        /\ MIGRATION_INCOMPLETE' \in BOOLEAN /\ REINDEX_INCOMPLETE' = REINDEX_INCOMPLETE
        /\ snapshotFile' = snapshotFile /\ scars' \in Scars /\ faults \in 0 .. MaxFaults
    BY <1>1 DEF BeginLoadSnapshot, FinishLoadSnapshot, TypeOK, history
  <2> QED BY <2>1, <2>2, <2>3, <2>4, DirTypes
<1>2. CASE LoadSnapshotFails
  <2>1. faults' \in 0 .. MaxFaults
    BY <1>2, FaultCounts DEF LoadSnapshotFails
  <2> QED BY <1>2, <2>1, DirTypes DEF LoadSnapshotFails, TypeOK, process
<1>3. CASE RemoveOldRocksDb
  <2>1. MIGRATION_INCOMPLETE' \in BOOLEAN /\ scars' \in Scars
    BY <1>3 DEF RemoveOldRocksDb, TypeOK
  <2>2. PICK d \in Directory : SetDir("rocksdb", d)
    BY <1>3 DEF RemoveOldRocksDb
  <2> QED BY <1>3, <2>1, <2>2, DirTypes DEF RemoveOldRocksDb, TypeOK, process
<1>4. CASE CreateRocksDir \/ CopySomeRecords \/ CopyLastRecords
  <2>1. PICK d \in Directory : SetDir("rocksdb", d)
    BY <1>4 DEF CreateRocksDir, CopySomeRecords, CopyLastRecords
  <2> QED BY <1>4, <2>1, DirTypes DEF CreateRocksDir, CopySomeRecords, CopyLastRecords, TypeOK, process, history
<1>5. CASE WipeSome
  <2>1. scars' \in Scars
    BY <1>5 DEF WipeSome, TypeOK
  <2>2. PICK d \in Directory : SetDir(opt.chaindb, d)
    BY <1>5 DEF WipeSome
  <2> QED BY <1>5, <2>1, <2>2, DirTypes DEF WipeSome, TypeOK, process
<1>6. CASE WipeRest \/ ImportSome
  <2>1. PICK d \in Directory : SetDir(opt.chaindb, d)
    BY <1>6 DEF WipeRest, ImportSome
  <2> QED BY <1>6, <2>1, DirTypes DEF WipeRest, ImportSome, TypeOK, process, history
<1>7. CASE ImportRest
  <2>1. opt' \in OptionSet /\ opened' \in BOOLEAN /\ fetching' \in BOOLEAN
    BY <1>7, StopTypes DEF ImportRest, InitError, process, TypeOK
  <2>2. CASE Importable
    <3>1. blk.height \in 0 .. Top
      BY <2>2, StartupConstants DEF Importable, TypeOK
    <3>2. SetDir(opt.chaindb, Whole(blk.height)) /\ Whole(blk.height) \in Directory
      BY <1>7, <2>2, <3>1 DEF ImportRest
    <3> QED BY <1>7, <2>1, <3>2, DirTypes DEF ImportRest, TypeOK
  <2>3. CASE ~Importable
    BY <1>7, <2>1, <2>3 DEF ImportRest, TypeOK, Types, walletFiles
  <2> QED BY <2>2, <2>3
<1>8. CASE WriteGenesis
  <2>1. blk' \in Blk
    BY <1>8, AppendGenesisType DEF WriteGenesis
  <2>2. scars' \in Scars
    BY <1>8 DEF WriteGenesis, TypeOK
  <2>3. PICK d \in Directory : SetDir(opt.chaindb, d)
    BY <1>8 DEF WriteGenesis
  <2> QED BY <1>8, <2>1, <2>2, <2>3, DirTypes DEF WriteGenesis, TypeOK, process
<1>9. CASE IndexGenesis
  <2>1. PICK d \in Directory : SetDir(opt.chaindb, d)
    BY <1>9 DEF IndexGenesis
  <2> QED BY <1>9, <2>1, DirTypes DEF IndexGenesis, TypeOK, process, history
<1>10. CASE AcceptBlock
  <2>1. Dir.height \in 0 .. Top /\ Dir.height < Top /\ Top \in Nat
    BY <1>10, StartupConstants DEF AcceptBlock, Directory
  <2>2. Dir.height + 1 \in 0 .. Top
    BY <2>1
  <2>3. blk' \in Blk
    BY <1>10, <2>1, <2>2 DEF AcceptBlock, TypeOK
  <2>4. SetDir(opt.chaindb, Whole(Dir.height + 1)) /\ Whole(Dir.height + 1) \in Directory
    BY <1>10, <2>2 DEF AcceptBlock
  <2> QED BY <1>10, <2>3, <2>4, DirTypes DEF AcceptBlock, TypeOK, process, history
<1>11. CASE DeleteRocksDb
  BY <1>11, DirTypes DEF DeleteRocksDb, TypeOK, process
<1> QED BY <1>1, <1>2, <1>3, <1>4, <1>5, <1>6, <1>7, <1>8, <1>9, <1>10, <1>11

\* A process whose database was deleted under it leaves files of their types.
LEMMA DeletedTypes ==
    ASSUME TypeOK, RunDeleted
    PROVE  Types'
<1> USE DirectoryKinds, DirIs
<1>1. PICK d \in Directory : SetDir(opt.chaindb, d)
  BY DEF RunDeleted
<1>2. chainDb' \in [Backend -> Directory]
  BY <1>1, SetDirEffect
<1>3. MIGRATION_INCOMPLETE' \in BOOLEAN /\ REINDEX_INCOMPLETE' \in BOOLEAN
  BY DEF RunDeleted, TypeOK
<1>4. blk' \in [height : -1 .. Top, stray : BOOLEAN, torn : BOOLEAN]
  BY AppendGenesisType DEF RunDeleted, TypeOK
<1>5. wallet' \in File /\ issued' \subseteq {"old", "new"}
  <2>1. LoadedWallet \in File
    BY DEF LoadedWallet, File, TypeOK
  <2> QED BY <2>1 DEF RunDeleted, TypeOK, File
<1>6. opt' \in OptionSet /\ opened' \in BOOLEAN /\ fetching' \in BOOLEAN
  BY StopTypes DEF RunDeleted, InitError
<1> QED BY <1>2, <1>3, <1>4, <1>5, <1>6 DEF RunDeleted, TypeOK, Types

-----------------------------------------------------------------------------
(* The chain databases: steps that replace no directory                    *)

\* The process ends: what it leaves is marked, or the place is one of those
\* that Unmarked names.
LEMMA StoppedChain ==
    ASSUME ChainPart, pc' = "down", UNCHANGED <<Rocks, LevelDb, MIGRATION_INCOMPLETE, blk, legacyHeight>>,
           REINDEX_INCOMPLETE => REINDEX_INCOMPLETE',
           scars \subseteq scars', Unmarked \/ pc = "deleted" => scars' \cap {"unmarked", "deleted"} # {},
           refused' = "marked" => MIGRATION_INCOMPLETE'
    PROVE  ChainPart'
<1>1. Control'
  BY DEF Control, Places, PastMigration, Migrating, Reindexing, LoadingSnapshot
<1>2. MarkedInv'
  BY DEF ChainPart, MarkedInv, Marked, PartialUnmarked, DirDb, Unmarked, LoadingSnapshot
<1>3. ChainKeptInv'
  BY DEF ChainPart, ChainKeptInv, ChainKept, Unmarked
<1> QED BY <1>1, <1>2, <1>3 DEF ChainPart

\* The start, the wallet migration and the test for a snapshot.
LEMMA WalletChain ==
    ASSUME ChainPart,
           WalletStep \/ SkipSnapshot \/ \E o \in Options : Start(o)
    PROVE  ChainPart'
<1>1. /\ pc' \in {"wallet", "copy wallet", "back up wallet", "swap wallet", "snapshot", "migrate"}
      /\ pc \in {"down", "wallet", "copy wallet", "back up wallet", "swap wallet", "snapshot"}
      /\ refused' # "marked"
      /\ UNCHANGED <<chainDb, MIGRATION_INCOMPLETE, REINDEX_INCOMPLETE, blk, legacyHeight, scars>>
  BY DEF ChainPart, Control, WalletStep, SkipWalletMigration, BeginWalletCopy, CopyWallet,
         BackUpWallet, SwapWallet, SkipSnapshot, Start, Goto, history, chainFiles
<1>2. Rocks' = Rocks /\ LevelDb' = LevelDb
  BY <1>1 DEF Rocks, LevelDb
<1>3. Control'
  BY <1>1 DEF Control, Places, PastMigration, Migrating, Reindexing, LoadingSnapshot
<1>4. MarkedInv'
  BY <1>1, <1>2 DEF ChainPart, MarkedInv, Marked, PartialUnmarked, DirDb, LoadingSnapshot
<1>5. ChainKeptInv'
  BY <1>1, <1>2 DEF ChainPart, ChainKeptInv, ChainKept
<1> QED BY <1>1, <1>2, <1>3, <1>4, <1>5 DEF ChainPart

\* Failures that end the process, and crashes.
LEMMA FaultChain ==
    ASSUME ChainPart, FaultStep, ~LoadSnapshotFails
    PROVE  ChainPart'
<1> USE DEF InitError, Stop, chainFiles
<1>1. CASE \/ CopyWalletFails \/ BackUpWalletFails \/ SwapWalletFails
           \/ CopyChainFails \/ RemoveMigrationMarkerFails
           \/ ImportFails \/ RemoveReindexMarkerFails
  <2>1. /\ pc' = "down" /\ refused' # "marked"
        /\ UNCHANGED <<chainDb, MIGRATION_INCOMPLETE, REINDEX_INCOMPLETE, blk, legacyHeight, scars>>
        /\ ~Unmarked /\ pc # "deleted"
    BY <1>1 DEF CopyWalletFails, BackUpWalletFails, SwapWalletFails, CopyChainFails,
                RemoveMigrationMarkerFails, ImportFails, RemoveReindexMarkerFails, Unmarked
  <2> QED BY <2>1, StoppedChain DEF Rocks, LevelDb
<1>2. CASE WriteMigrationMarkerFails
  <2>1. /\ pc' = "down" /\ refused' # "marked" /\ "unmarked" \in scars' /\ scars \subseteq scars'
        /\ UNCHANGED <<chainDb, MIGRATION_INCOMPLETE, REINDEX_INCOMPLETE, blk, legacyHeight>>
    BY <1>2 DEF WriteMigrationMarkerFails
  <2> QED BY <2>1, StoppedChain DEF Rocks, LevelDb
<1>3. CASE BeginReindexFails
  <2>1. /\ pc' = "down" /\ refused' # "marked"
        /\ UNCHANGED <<chainDb, MIGRATION_INCOMPLETE, blk, legacyHeight, scars>>
        /\ ~Unmarked /\ pc # "deleted"
    BY <1>3 DEF BeginReindexFails, Unmarked
  <2>2. REINDEX_INCOMPLETE => REINDEX_INCOMPLETE'
    BY <1>3 DEF BeginReindexFails
  <2> QED BY <2>1, <2>2, StoppedChain DEF Rocks, LevelDb
<1>4. CASE Crash
  <2>1. /\ pc' = "down" /\ refused' = refused /\ scars \subseteq scars'
        /\ Unmarked => "unmarked" \in scars'
        /\ UNCHANGED <<chainDb, MIGRATION_INCOMPLETE, REINDEX_INCOMPLETE, blk, legacyHeight>>
    BY <1>4 DEF Crash
  <2>2. pc = "deleted" => "deleted" \in scars'
    BY <2>1 DEF ChainPart, Control
  <2>3. refused' = "marked" => MIGRATION_INCOMPLETE'
    BY <2>1 DEF ChainPart, Control
  <2> QED BY <2>1, <2>2, <2>3, StoppedChain DEF Rocks, LevelDb
<1> QED BY <1>1, <1>2, <1>3, <1>4 DEF FaultStep

\* The node runs, fetches a snapshot, shuts down.
LEMMA RunningChain ==
    ASSUME TypeOK, ChainPart, LoadWallet \/ FetchSnapshot \/ FetchSucceeds \/ FetchFails \/ Shutdown
    PROVE  ChainPart'
<1>1. CASE FetchSucceeds \/ Shutdown
  <2>1. /\ pc' = "down" /\ refused' = refused /\ pc = "running"
        /\ UNCHANGED <<chainDb, MIGRATION_INCOMPLETE, REINDEX_INCOMPLETE, blk, legacyHeight, scars>>
    BY <1>1 DEF FetchSucceeds, Shutdown, Stop, chainFiles, history
  <2>2. refused # "marked" /\ ~Unmarked
    BY <2>1 DEF ChainPart, Control, Unmarked
  <2> QED BY <2>1, <2>2, StoppedChain DEF Rocks, LevelDb
<1>2. CASE LoadWallet \/ FetchSnapshot \/ FetchFails
  <2>1. /\ pc' = "running" /\ pc \in {"load wallet", "running"} /\ opt' = opt /\ refused' = refused
        /\ UNCHANGED <<chainDb, MIGRATION_INCOMPLETE, REINDEX_INCOMPLETE, blk, legacyHeight, scars>>
    BY <1>2 DEF LoadWallet, FetchSnapshot, FetchFails, Goto, chainFiles, history, process
  <2>2. Rocks' = Rocks /\ LevelDb' = LevelDb
    BY <2>1 DEF Rocks, LevelDb
  <2>3. Control'
    BY <2>1, <2>2 DEF ChainPart, Control, Places, PastMigration, Migrating, Reindexing, LoadingSnapshot
  <2>4. MarkedInv'
    BY <2>1, <2>2 DEF ChainPart, MarkedInv, Marked, PartialUnmarked, DirDb, LoadingSnapshot
  <2>5. ChainKeptInv'
    BY <2>1, <2>2 DEF ChainPart, ChainKeptInv, ChainKept
  <2> QED BY <2>1, <2>2, <2>3, <2>4, <2>5 DEF ChainPart
<1> QED BY <1>1, <1>2

\* The snapshot replaces blk0001.dat, that of an old node too.
LEMMA ExtractChain ==
    ASSUME TypeOK, ChainPart, ExtractBlocks
    PROVE  ChainPart'
<1>1. /\ pc = "load snapshot" /\ pc' = "extract blocks" /\ opt' = opt /\ refused' = refused
      /\ UNCHANGED <<chainDb, MIGRATION_INCOMPLETE, REINDEX_INCOMPLETE, legacyHeight>>
      /\ scars \subseteq scars' /\ (blk.height > 0 => scars' # {})
  BY DEF ExtractBlocks, Goto, process
<1>2. Rocks' = Rocks /\ LevelDb' = LevelDb
  BY <1>1 DEF Rocks, LevelDb
<1>3. Control'
  BY <1>1, <1>2 DEF ChainPart, Control, Places, PastMigration, Migrating, Reindexing, LoadingSnapshot
<1>4. MarkedInv'
  BY <1>1, <1>2 DEF ChainPart, MarkedInv, Marked, PartialUnmarked, DirDb, LoadingSnapshot
<1>5. legacyHeight >= 0 => scars' # {}
  <2>1. Top > 0 /\ Top \in Nat
    BY StartupConstants
  <2>2. legacyHeight >= 0 /\ scars = {} => blk.height = Top
    BY DEF ChainPart, ChainKeptInv, ChainKept
  <2> QED BY <1>1, <2>1, <2>2
<1>6. ChainKeptInv'
  BY <1>1, <1>5 DEF ChainKeptInv
<1> QED BY <1>1, <1>2, <1>3, <1>4, <1>6 DEF ChainPart

\* Past the migration: the marker is refused, and a RocksDB chain that is not
\* there means that there was no LevelDB chain to migrate.
LEMMA SkipMigrationChain ==
    ASSUME TypeOK, ChainPart, SkipMigration
    PROVE  ChainPart'
<1>1. /\ pc = "migrate" /\ ~Migrates
      /\ UNCHANGED <<chainDb, MIGRATION_INCOMPLETE, REINDEX_INCOMPLETE, blk, legacyHeight, scars>>
  BY DEF SkipMigration, chainFiles
<1>2. Rocks' = Rocks /\ LevelDb' = LevelDb
  BY <1>1 DEF Rocks, LevelDb
<1>3. CASE RefusesMarked
  <2>1. pc' = "down" /\ MIGRATION_INCOMPLETE
    BY <1>3 DEF SkipMigration, InitError, Stop, RefusesMarked
  <2>2. ~Unmarked
    BY <1>1 DEF Unmarked
  <2> QED BY <1>1, <1>2, <2>1, <2>2, StoppedChain
<1>4. CASE ~RefusesMarked
  <2>1. pc' = "index" /\ opt' = opt /\ refused' = refused
    BY <1>4 DEF SkipMigration, Goto, process
  <2>2. opt.chaindb = "rocksdb" => ~MIGRATION_INCOMPLETE
    BY <1>4 DEF RefusesMarked
  <2>3. opt.chaindb = "rocksdb" /\ Rocks.db = "none" => LevelDb.db = "none"
    BY <1>1 DEF Migrates, MigrationWanted
  <2>4. Control'
    BY <1>1, <1>2, <2>1, <2>2
       DEF ChainPart, Control, Places, PastMigration, Migrating, Reindexing, LoadingSnapshot
  <2>5. MarkedInv'
    BY <1>1, <1>2, <2>1 DEF ChainPart, MarkedInv, Marked, PartialUnmarked, DirDb, LoadingSnapshot
  <2>6. ChainKeptInv'
    <3> SUFFICES ASSUME legacyHeight >= 0, scars = {}
                 PROVE  legacyHeight = Top /\ ChainKept'
      BY <1>1 DEF ChainKeptInv
    <3>1. ChainKept /\ Marked /\ legacyHeight = Top
      BY DEF ChainPart, ChainKeptInv, MarkedInv
    <3>2. Rocks.db \in {"none", "bare", "partial", "whole"}
      BY DirIs DEF Directory
    <3>3. opt.chaindb = "rocksdb" /\ Rocks.db # "whole" => REINDEX_INCOMPLETE
      BY <1>1, <2>2, <2>3, <3>1, <3>2 DEF ChainKept, Marked, PartialUnmarked, LoadingSnapshot
    <3> QED BY <1>1, <1>2, <2>1, <3>1, <3>3 DEF ChainKept
  <2> QED BY <1>1, <1>2, <2>4, <2>5, <2>6 DEF ChainPart
<1> QED BY <1>3, <1>4

\* The markers of the migration and of the reindex are written and removed.
LEMMA MarkerChain ==
    ASSUME TypeOK, ChainPart,
           WriteMigrationMarker \/ RemoveMigrationMarker \/ RemoveReindexMarker
    PROVE  ChainPart'
<1>0. /\ UNCHANGED <<chainDb, blk, legacyHeight, opt, refused>>
      /\ pc \in {"mark", "unmark", "unmark reindex"}
  BY DEF WriteMigrationMarker, RemoveMigrationMarker, RemoveReindexMarker, process, history
<1> Rocks' = Rocks /\ LevelDb' = LevelDb
  BY <1>0 DEF Rocks, LevelDb
<1>1. CASE WriteMigrationMarker
  <2>1. /\ pc = "mark" /\ pc' = "copy chain" /\ MIGRATION_INCOMPLETE'
        /\ UNCHANGED <<REINDEX_INCOMPLETE, scars>>
    BY <1>1 DEF WriteMigrationMarker, Goto, history
  <2>2. Rocks.db = "bare"
    BY <2>1 DEF ChainPart, Control
  <2>3. Control'
    BY <1>0, <2>1 DEF ChainPart, Control, Places, PastMigration, Migrating, Reindexing, LoadingSnapshot
  <2>4. MarkedInv'
    BY <1>0, <2>1, <2>2 DEF ChainPart, MarkedInv, Marked, PartialUnmarked, DirDb, LoadingSnapshot
  <2>5. ChainKeptInv'
    BY <1>0, <2>1, <2>2 DEF ChainPart, ChainKeptInv, ChainKept
  <2> QED BY <2>2, <2>3, <2>4, <2>5 DEF ChainPart
<1>2. CASE RemoveMigrationMarker
  <2>1. /\ pc = "unmark" /\ pc' = "index" /\ ~MIGRATION_INCOMPLETE'
        /\ UNCHANGED <<REINDEX_INCOMPLETE, scars>>
    BY <1>2 DEF RemoveMigrationMarker, Goto, history
  <2>3. Control'
    BY <1>0, <2>1 DEF ChainPart, Control, Places, PastMigration, Migrating, Reindexing, LoadingSnapshot
  <2>4. MarkedInv'
    BY <1>0, <2>1 DEF ChainPart, MarkedInv, Marked, PartialUnmarked, DirDb, LoadingSnapshot
  <2>5. ChainKeptInv'
    <3> SUFFICES ASSUME legacyHeight >= 0, scars = {}
                 PROVE  legacyHeight = Top /\ ChainKept'
      BY <1>0, <2>1 DEF ChainKeptInv
    <3>1. ChainKept /\ Marked /\ legacyHeight = Top
      BY DEF ChainPart, ChainKeptInv, MarkedInv
    <3> QED BY <1>0, <2>1, <3>1 DEF ChainKept, Marked
  <2> QED BY <2>1, <2>3, <2>4, <2>5 DEF ChainPart
<1>3. CASE RemoveReindexMarker
  <2>1. /\ pc = "unmark reindex" /\ pc' = "load wallet" /\ ~REINDEX_INCOMPLETE'
        /\ UNCHANGED MIGRATION_INCOMPLETE /\ scars \subseteq scars'
    BY <1>3 DEF RemoveReindexMarker, Goto
  <2>2. chainDb[OtherBackend].db = "partial" => "unmarked" \in scars'
    BY <1>3 DEF RemoveReindexMarker
  <2>3. chainDb[OtherBackend] = IF opt.chaindb = "rocksdb" THEN LevelDb ELSE Rocks
    <3>1. OtherBackend \in Backend /\ OtherBackend # opt.chaindb
      BY DirectoryKinds DEF OtherBackend
    <3> QED BY <3>1, DirectoryKinds, DirIs DEF Rocks, LevelDb
  <2>4. opt.chaindb = "rocksdb" => ~MIGRATION_INCOMPLETE
    BY <2>1 DEF ChainPart, Control, PastMigration
  <2>5. Control'
    BY <1>0, <2>1 DEF ChainPart, Control, Places, PastMigration, Migrating, Reindexing, LoadingSnapshot
  <2>6. MarkedInv'
    <3> SUFFICES ASSUME scars' \cap {"unmarked", "deleted"} = {} PROVE Marked'
      BY DEF MarkedInv
    <3>1. Marked /\ DirDb = "whole"
      BY <2>1 DEF ChainPart, MarkedInv, Marked
    <3>2. Rocks.db # "partial" /\ LevelDb.db # "partial"
      BY <2>2, <2>3, <3>1 DEF DirDb
    <3> QED BY <1>0, <2>1, <3>1, <3>2 DEF Marked, DirDb
  <2>7. ChainKeptInv'
    <3> SUFFICES ASSUME legacyHeight >= 0, scars' = {}
                 PROVE  legacyHeight = Top /\ ChainKept'
      BY <1>0, <2>1 DEF ChainKeptInv
    <3>1. ChainKept /\ Marked /\ legacyHeight = Top
      BY <2>1 DEF ChainPart, ChainKeptInv, MarkedInv
    <3>2. DirDb = "whole"
      BY <2>1, <3>1 DEF Marked
    <3>3. LevelDb.db = "whole" \/ (Rocks.db = "whole" /\ ~MIGRATION_INCOMPLETE)
      BY <2>4, <3>2, DirIs DEF DirDb
    <3> QED BY <1>0, <2>1, <3>1, <3>3 DEF ChainKept
  <2> QED BY <2>1, <2>5, <2>6, <2>7 DEF ChainPart
<1> QED BY <1>1, <1>2, <1>3

\* Step 7 up to the wiping of the directory: -reindex, or the block index.
LEMMA IndexChain ==
    ASSUME TypeOK, ChainPart, BeginReindex \/ LoadBlockIndex
    PROVE  ChainPart'
<1>0. pc = "index" /\ UNCHANGED <<chainDb, MIGRATION_INCOMPLETE, blk, legacyHeight, scars>>
  BY DEF BeginReindex, LoadBlockIndex, chainFiles
<1> Rocks' = Rocks /\ LevelDb' = LevelDb
  BY <1>0 DEF Rocks, LevelDb
<1> ~Unmarked
  BY <1>0 DEF Unmarked
<1>1. CASE pc' = "down" /\ refused' # "marked" /\ REINDEX_INCOMPLETE' = REINDEX_INCOMPLETE
  BY <1>0, <1>1, StoppedChain
<1>2. CASE pc' = "wipe" /\ REINDEX_INCOMPLETE' /\ opt' = opt /\ refused' = refused
  <2>1. Control'
    BY <1>0, <1>2 DEF ChainPart, Control, Places, PastMigration, Migrating, Reindexing, LoadingSnapshot
  <2>2. MarkedInv'
    BY <1>0, <1>2 DEF ChainPart, MarkedInv, Marked, PartialUnmarked, DirDb, LoadingSnapshot
  <2>3. ChainKeptInv'
    BY <1>0, <1>2 DEF ChainPart, ChainKeptInv, ChainKept
  <2> QED BY <1>0, <2>1, <2>2, <2>3 DEF ChainPart
<1>3. CASE /\ pc' = "load wallet" /\ ~REINDEX_INCOMPLETE /\ REINDEX_INCOMPLETE' = REINDEX_INCOMPLETE
           /\ opt' = opt /\ refused' = refused /\ Dir.db \in {"whole", "partial"}
  <2>1. Control'
    BY <1>0, <1>3 DEF ChainPart, Control, Places, PastMigration, Migrating, Reindexing, LoadingSnapshot
  <2>2. DirDb \in {"whole", "partial"}
    BY <1>3, DirIs DEF DirDb
  <2>3. opt.chaindb = "rocksdb" => ~MIGRATION_INCOMPLETE
    BY <1>0 DEF ChainPart, Control, PastMigration
  <2>4. MarkedInv'
    <3> SUFFICES ASSUME scars \cap {"unmarked", "deleted"} = {} PROVE Marked'
      BY <1>0 DEF MarkedInv
    <3>1. Marked
      BY DEF ChainPart, MarkedInv
    <3>2. DirDb # "partial"
      BY <1>0, <1>3, <2>3, <3>1 DEF Marked, DirDb, PartialUnmarked, LoadingSnapshot
    <3> QED BY <1>0, <1>3, <2>2, <3>1, <3>2 DEF Marked, DirDb, PartialUnmarked, LoadingSnapshot
  <2>5. ChainKeptInv'
    BY <1>0, <1>3 DEF ChainPart, ChainKeptInv, ChainKept
  <2> QED BY <1>0, <2>1, <2>4, <2>5 DEF ChainPart
<1>4. CASE BeginReindex
  <2>1. \/ pc' = "down" /\ refused' # "marked" /\ REINDEX_INCOMPLETE' = REINDEX_INCOMPLETE
        \/ pc' = "wipe" /\ REINDEX_INCOMPLETE' /\ opt' = opt /\ refused' = refused
    BY <1>4 DEF BeginReindex, InitError, Stop, Goto, process
  <2> QED BY <1>1, <1>2, <2>1
<1>5. CASE LoadBlockIndex
  <2>1. REINDEX_INCOMPLETE' = REINDEX_INCOMPLETE
    BY <1>5 DEF LoadBlockIndex, chainFiles
  <2>2. \/ pc' = "down" /\ refused' # "marked"
        \/ /\ pc' = "load wallet" /\ ~REINDEX_INCOMPLETE
           /\ opt' = opt /\ refused' = refused /\ Dir.db \in {"whole", "partial"}
    BY <1>5 DEF LoadBlockIndex, InitError, Stop, Goto, process, RefusesInterruptedReindex
  <2> QED BY <1>1, <1>3, <2>1, <2>2
<1> QED BY <1>4, <1>5

-----------------------------------------------------------------------------
(* The chain databases: steps that replace a directory                     *)

\* The database is deleted while it is open: nothing is promised any more but
\* that the marker lies in its directory.
LEMMA DeletedChain ==
    ASSUME Control, "deleted" \in scars', pc' \in {"deleted", "down"},
           refused' # "marked", MIGRATION_INCOMPLETE' => Rocks'.db # "none"
    PROVE  ChainPart'
<1>1. Control'
  BY DEF Control, Places, PastMigration, Migrating, Reindexing, LoadingSnapshot
<1>2. MarkedInv' /\ ChainKeptInv'
  BY DEF MarkedInv, ChainKeptInv
<1> QED BY <1>1, <1>2 DEF ChainPart

\* Loading a snapshot, and running on a deleted database.
LEMMA SnapshotChain ==
    ASSUME TypeOK, ChainPart,
           BeginLoadSnapshot \/ FinishLoadSnapshot \/ LoadSnapshotFails \/ RunDeleted
    PROVE  ChainPart'
<1> USE DirectoryKinds, DirIs, DirectoryFields
<1>1. CASE BeginLoadSnapshot
  <2>1. /\ pc = "snapshot" /\ pc' = "load snapshot" /\ Dir.db = "none" /\ SetDir(opt.chaindb, Partial)
        /\ UNCHANGED <<MIGRATION_INCOMPLETE, REINDEX_INCOMPLETE, blk, legacyHeight, opt, refused, scars>>
    BY <1>1 DEF BeginLoadSnapshot, LoadsSnapshot, Goto, history
  <2>2. /\ Rocks' = IF opt.chaindb = "rocksdb" THEN Partial ELSE Rocks
        /\ LevelDb' = IF opt.chaindb = "txleveldb" THEN Partial ELSE LevelDb
    BY <2>1, OwnDirEffect
  <2>3. opt.chaindb = "rocksdb" => Rocks.db = "none" /\ ~MIGRATION_INCOMPLETE
    BY <2>1 DEF ChainPart
  <2>4. opt.chaindb = "txleveldb" => LevelDb.db = "none"
    BY <2>1
  <2>5. Control'
    BY <2>1, <2>3 DEF ChainPart, Control, Places, PastMigration, Migrating, Reindexing, LoadingSnapshot
  <2>6. MarkedInv'
    BY <2>1, <2>2 DEF ChainPart, MarkedInv, Marked, PartialUnmarked, DirDb, LoadingSnapshot
  <2>7. ChainKeptInv'
    BY <2>1, <2>2, <2>3, <2>4 DEF ChainPart, ChainKeptInv, ChainKept
  <2>8. MIGRATION_INCOMPLETE' => Rocks'.db # "none"
    BY <2>1, <2>2 DEF ChainPart
  <2> QED BY <2>5, <2>6, <2>7, <2>8 DEF ChainPart
<1>2. CASE FinishLoadSnapshot
  <2>1. /\ pc = "extract blocks" /\ pc' = "migrate" /\ SetDir(opt.chaindb, Whole(SnapshotHeight))
        /\ UNCHANGED <<MIGRATION_INCOMPLETE, REINDEX_INCOMPLETE, legacyHeight, opt, refused, scars>>
    BY <1>2 DEF FinishLoadSnapshot, Goto, history, process
  <2> DEFINE d == Whole(SnapshotHeight)
  <2>0. SetDir(opt.chaindb, d) /\ d \in Directory /\ d.db = "whole"
    BY <2>1
  <2> HIDE DEF d
  <2>2. /\ Rocks' = IF opt.chaindb = "rocksdb" THEN d ELSE Rocks
        /\ LevelDb' = IF opt.chaindb = "txleveldb" THEN d ELSE LevelDb
    BY <2>0, SetDirEffect
  <2>3. Control'
    BY <2>1 DEF ChainPart, Control, Places, PastMigration, Migrating, Reindexing, LoadingSnapshot
  <2>4. MarkedInv'
    BY <2>0, <2>1, <2>2 DEF ChainPart, MarkedInv, Marked, PartialUnmarked, DirDb, LoadingSnapshot
  <2>5. ChainKeptInv'
    BY <2>1 DEF ChainPart, ChainKeptInv, ChainKept
  <2>6. MIGRATION_INCOMPLETE' => Rocks'.db # "none"
    BY <2>0, <2>1, <2>2 DEF ChainPart
  <2> QED BY <2>3, <2>4, <2>5, <2>6 DEF ChainPart
<1>3. CASE LoadSnapshotFails
  <2>1. /\ pc \in LoadingSnapshot /\ pc' = "deleted" /\ "deleted" \in scars' /\ refused' = refused
        /\ SetDir(opt.chaindb, NoDir) /\ MIGRATION_INCOMPLETE' = MIGRATION_INCOMPLETE
    BY <1>3 DEF LoadSnapshotFails, LoadingSnapshot, Goto
  <2>2. Rocks' = IF opt.chaindb = "rocksdb" THEN NoDir ELSE Rocks
    BY <2>1, SetDirEffect
  <2>3. (opt.chaindb = "rocksdb" => ~MIGRATION_INCOMPLETE) /\ refused # "marked"
    BY <2>1 DEF ChainPart, Control, LoadingSnapshot
  <2> QED BY <2>1, <2>2, <2>3, DeletedChain DEF ChainPart
<1>4. CASE RunDeleted
  <2>1. "deleted" \in scars' /\ pc' = "down" /\ refused' # "marked"
    BY <1>4 DEF RunDeleted, InitError, Stop, ChainPart, Control
  <2>2. MIGRATION_INCOMPLETE' => Rocks'.db # "none"
    BY <1>4 DEF RunDeleted, Rocks
  <2> QED BY <2>1, <2>2, DeletedChain DEF ChainPart
<1> QED BY <1>1, <1>2, <1>3, <1>4

\* The migration: from the removal of an old rocksdb to the copy of the last
\* record, the LevelDB chain is not touched.
LEMMA MigrationChain ==
    ASSUME TypeOK, ChainPart,
           RemoveOldRocksDb \/ CreateRocksDir \/ CopySomeRecords \/ CopyLastRecords
    PROVE  ChainPart'
<1> USE DirectoryKinds, DirIs, DirectoryFields
<1>0. UNCHANGED <<REINDEX_INCOMPLETE, blk, legacyHeight, opt, refused>>
  BY DEF RemoveOldRocksDb, CreateRocksDir, CopySomeRecords, CopyLastRecords, history, process
<1>1. CASE RemoveOldRocksDb /\ opened /\ opt.chaindb = "rocksdb"
  <2>1. /\ pc = "migrate" /\ pc' = "deleted" /\ "deleted" \in scars' /\ ~MIGRATION_INCOMPLETE'
    BY <1>1 DEF RemoveOldRocksDb, Goto
  <2>2. refused' # "marked"
    BY <1>0, <2>1 DEF ChainPart, Control
  <2> QED BY <2>1, <2>2, DeletedChain DEF ChainPart
<1>2. CASE RemoveOldRocksDb /\ ~(opened /\ opt.chaindb = "rocksdb")
  <2>1. /\ pc = "migrate" /\ pc' = "remove rocksdb" /\ scars' = scars
        /\ SetDir("rocksdb", Partial) /\ LevelDb.db # "none"
    BY <1>2 DEF RemoveOldRocksDb, Migrates, Goto
  <2>2. Rocks' = Partial /\ LevelDb' = LevelDb
    BY <2>1, SetDirEffect
  <2>3. Control'
    BY <1>0, <2>1, <2>2 DEF ChainPart, Control, Places, PastMigration, Migrating, Reindexing, LoadingSnapshot
  <2>4. MarkedInv'
    BY <1>0, <2>1, <2>2 DEF ChainPart, MarkedInv, Marked, PartialUnmarked, DirDb, LoadingSnapshot
  <2>5. ChainKeptInv'
    <3> SUFFICES ASSUME legacyHeight >= 0, scars = {}
                 PROVE  legacyHeight = Top /\ ChainKept'
      BY <1>0, <2>1 DEF ChainKeptInv
    <3>1. ChainKept /\ Marked /\ legacyHeight = Top
      BY DEF ChainPart, ChainKeptInv, MarkedInv
    <3>2. LevelDb.db \in {"partial", "whole"}
      BY <2>1, <3>1 DEF ChainKept, Directory
    <3>3. LevelDb.db = "whole" \/ REINDEX_INCOMPLETE
      BY <2>1, <3>1, <3>2 DEF Marked, PartialUnmarked, LoadingSnapshot
    <3> QED BY <1>0, <2>1, <2>2, <3>1, <3>3 DEF ChainKept
  <2> QED BY <2>2, <2>3, <2>4, <2>5 DEF ChainPart
<1>3. CASE CreateRocksDir
  <2>1. /\ pc \in {"migrate", "remove rocksdb"} /\ pc' = "mark" /\ scars' = scars
        /\ SetDir("rocksdb", Bare) /\ ~MIGRATION_INCOMPLETE'
        /\ pc = "migrate" => LevelDb.db # "none"
    BY <1>3 DEF CreateRocksDir, Migrates, Goto, history
  <2>2. Rocks' = Bare /\ LevelDb' = LevelDb
    BY <2>1, SetDirEffect
  <2>3. LevelDb.db # "none" /\ refused # "marked"
    BY <2>1 DEF ChainPart, Control, Migrating
  <2>4. Control'
    BY <1>0, <2>1, <2>2, <2>3 DEF Control, Places, PastMigration, Migrating, Reindexing, LoadingSnapshot
  <2>5. MarkedInv'
    BY <1>0, <2>1, <2>2 DEF ChainPart, MarkedInv, Marked, PartialUnmarked, DirDb, LoadingSnapshot
  <2>6. ChainKeptInv'
    <3> SUFFICES ASSUME legacyHeight >= 0, scars = {}
                 PROVE  legacyHeight = Top /\ ChainKept'
      BY <1>0, <2>1 DEF ChainKeptInv
    <3>1. ChainKept /\ Marked /\ legacyHeight = Top
      BY DEF ChainPart, ChainKeptInv, MarkedInv
    <3>2. LevelDb.db \in {"partial", "whole"}
      BY <2>3, <3>1 DEF ChainKept, Directory
    <3>3. LevelDb.db = "whole" \/ REINDEX_INCOMPLETE
      BY <2>1, <3>1, <3>2 DEF Marked, PartialUnmarked, LoadingSnapshot
    <3> QED BY <1>0, <2>1, <2>2, <3>1, <3>3 DEF ChainKept
  <2> QED BY <2>1, <2>4, <2>5, <2>6 DEF ChainPart
<1>4. CASE CopySomeRecords
  <2>1. /\ pc = "copy chain" /\ pc' = "verify chain" /\ scars' = scars
        /\ SetDir("rocksdb", Partial) /\ MIGRATION_INCOMPLETE' = MIGRATION_INCOMPLETE
    BY <1>4 DEF CopySomeRecords, Goto, history
  <2>2. Rocks' = Partial /\ LevelDb' = LevelDb
    BY <2>1, SetDirEffect
  <2>3. MIGRATION_INCOMPLETE
    BY <2>1 DEF ChainPart, Control
  <2>4. Control'
    BY <1>0, <2>1, <2>2 DEF ChainPart, Control, Places, PastMigration, Migrating, Reindexing, LoadingSnapshot
  <2>5. MarkedInv'
    BY <1>0, <2>1, <2>2, <2>3 DEF ChainPart, MarkedInv, Marked, PartialUnmarked, DirDb, LoadingSnapshot
  <2>6. ChainKeptInv'
    BY <1>0, <2>1, <2>2, <2>3 DEF ChainPart, ChainKeptInv, ChainKept
  <2> QED BY <2>2, <2>4, <2>5, <2>6 DEF ChainPart
<1>5. CASE CopyLastRecords
  <2>1. /\ pc = "verify chain" /\ pc' = "unmark" /\ scars' = scars
        /\ SetDir("rocksdb", LevelDb) /\ MIGRATION_INCOMPLETE' = MIGRATION_INCOMPLETE
    BY <1>5 DEF CopyLastRecords, Goto, history
  <2>2. Rocks' = LevelDb /\ LevelDb' = LevelDb
    BY <2>1, SetDirEffect
  <2>3. MIGRATION_INCOMPLETE /\ LevelDb.db # "none"
    BY <2>1 DEF ChainPart, Control, Migrating
  <2>4. Control'
    BY <1>0, <2>1, <2>2 DEF ChainPart, Control, Places, PastMigration, Migrating, Reindexing, LoadingSnapshot
  <2>5. MarkedInv'
    BY <1>0, <2>1, <2>2, <2>3 DEF ChainPart, MarkedInv, Marked, PartialUnmarked, DirDb, LoadingSnapshot
  <2>6. ChainKeptInv'
    <3> SUFFICES ASSUME legacyHeight >= 0, scars = {}
                 PROVE  legacyHeight = Top /\ ChainKept'
      BY <1>0, <2>1 DEF ChainKeptInv
    <3>1. ChainKept /\ legacyHeight = Top
      BY DEF ChainPart, ChainKeptInv
    <3>2. LevelDb.db \in {"partial", "whole"}
      BY <2>3, <3>1 DEF ChainKept, Directory
    <3> QED BY <1>0, <2>1, <2>2, <2>3, <3>1, <3>2 DEF ChainKept
  <2> QED BY <2>2, <2>3, <2>4, <2>5, <2>6 DEF ChainPart
<1> QED BY <1>1, <1>2, <1>3, <1>4, <1>5

\* A reindex: from the first file wiped to the last block imported the marker
\* is there.
LEMMA ReindexChain ==
    ASSUME TypeOK, ChainPart, WipeSome \/ WipeRest \/ ImportSome \/ ImportRest
    PROVE  ChainPart'
<1> USE DirectoryKinds, DirIs, DirectoryFields
<1>0. /\ UNCHANGED <<MIGRATION_INCOMPLETE, REINDEX_INCOMPLETE, blk, legacyHeight>>
      /\ pc \in {"wipe", "wipe rest", "import", "import rest"}
  BY DEF WipeSome, WipeRest, ImportSome, ImportRest, history
<1>1. REINDEX_INCOMPLETE /\ refused # "marked" /\ (opt.chaindb = "rocksdb" => ~MIGRATION_INCOMPLETE)
  BY <1>0 DEF ChainPart, Control, Reindexing, PastMigration
<1>2. CASE WipeSome /\ opened
  <2>1. /\ pc' = "deleted" /\ "deleted" \in scars' /\ refused' = refused /\ SetDir(opt.chaindb, NoDir)
    BY <1>2 DEF WipeSome, Goto
  <2>2. Rocks' = IF opt.chaindb = "rocksdb" THEN NoDir ELSE Rocks
    BY <2>1, SetDirEffect
  <2> QED BY <1>0, <1>1, <2>1, <2>2, DeletedChain DEF ChainPart
<1>3. ASSUME NEW d \in Directory, SetDir(opt.chaindb, d), d.db # "bare",
             opt' = opt, refused' = refused, scars' = scars,
             pc' \in {"wipe rest", "import", "import rest", "unmark reindex"},
             pc' = "unmark reindex" => d.db = "whole",
             d.db = "whole" => d.height = blk.height
      PROVE  ChainPart'
  <2>1. /\ Rocks' = IF opt.chaindb = "rocksdb" THEN d ELSE Rocks
        /\ LevelDb' = IF opt.chaindb = "txleveldb" THEN d ELSE LevelDb
    BY <1>3, OwnDirEffect
  <2>2. Control'
    BY <1>0, <1>1, <1>3 DEF ChainPart, Control, Places, PastMigration, Migrating, Reindexing, LoadingSnapshot
  <2>3. MarkedInv'
    BY <1>0, <1>1, <1>3, <2>1 DEF ChainPart, MarkedInv, Marked, PartialUnmarked, DirDb, LoadingSnapshot
  <2>4. ChainKeptInv'
    BY <1>0, <1>1, <1>3, <2>1 DEF ChainPart, ChainKeptInv, ChainKept
  <2>5. MIGRATION_INCOMPLETE' => Rocks'.db # "none"
    BY <1>0, <1>1, <2>1 DEF ChainPart
  <2> QED BY <2>2, <2>3, <2>4, <2>5 DEF ChainPart
<1>4. CASE WipeSome /\ ~opened
  <2>1. /\ SetDir(opt.chaindb, Partial) /\ opt' = opt /\ refused' = refused /\ scars' = scars
        /\ pc' = "wipe rest"
    BY <1>4 DEF WipeSome, Goto, process
  <2> QED BY <1>3, <2>1
<1>5. CASE WipeRest
  <2>1. /\ SetDir(opt.chaindb, NoDir) /\ opt' = opt /\ refused' = refused /\ scars' = scars
        /\ pc' = "import"
    BY <1>5 DEF WipeRest, Goto, process, history
  <2> QED BY <1>3, <2>1
<1>6. CASE ImportSome
  <2>1. /\ SetDir(opt.chaindb, Partial) /\ opt' = opt /\ refused' = refused /\ scars' = scars
        /\ pc' = "import rest"
    BY <1>6 DEF ImportSome, Goto, process, history
  <2> QED BY <1>3, <2>1
<1>7. CASE ImportRest /\ Importable
  <2>1. blk.height \in 0 .. Top
    BY <1>7, StartupConstants DEF Importable, TypeOK
  <2>2. /\ SetDir(opt.chaindb, Whole(blk.height)) /\ opt' = opt /\ refused' = refused /\ scars' = scars
        /\ pc' = "unmark reindex"
    BY <1>7 DEF ImportRest, Goto, process
  <2> QED BY <1>3, <2>1, <2>2
<1>8. CASE ImportRest /\ ~Importable
  <2>1. /\ pc' = "down" /\ refused' # "marked" /\ chainDb' = chainDb /\ scars' = scars
    BY <1>8 DEF ImportRest, InitError, Stop
  <2>2. ~Unmarked /\ pc # "deleted" /\ Rocks' = Rocks /\ LevelDb' = LevelDb
    BY <1>0, <2>1 DEF Unmarked, Rocks, LevelDb
  <2> QED BY <1>0, <2>1, <2>2, StoppedChain
<1> QED BY <1>2, <1>4, <1>5, <1>6, <1>7, <1>8

\* A chain begun at genesis: never in the place of one that is only partly there.
LEMMA GenesisChain ==
    ASSUME TypeOK, ChainPart, WriteGenesis \/ IndexGenesis
    PROVE  ChainPart'
<1> USE DirectoryKinds, DirIs, DirectoryFields
<1>0. /\ UNCHANGED <<MIGRATION_INCOMPLETE, REINDEX_INCOMPLETE, legacyHeight, opt, refused>>
      /\ pc \in {"index", "genesis"}
  BY DEF WriteGenesis, IndexGenesis, history, process
<1>1. refused # "marked" /\ (opt.chaindb = "rocksdb" => ~MIGRATION_INCOMPLETE)
  BY <1>0 DEF ChainPart, Control, PastMigration
<1>2. CASE WriteGenesis
  <2> DEFINE d == IF Dir.db = "none" THEN Bare ELSE Dir
  <2>1. /\ pc = "index" /\ pc' = "genesis" /\ ~REINDEX_INCOMPLETE /\ Dir.db # "whole"
        /\ SetDir(opt.chaindb, d) /\ scars \subseteq scars'
        /\ opt.chaindb = "txleveldb" /\ legacyHeight >= 0 => scars' # {}
    BY <1>2 DEF WriteGenesis, Goto, RefusesInterruptedReindex
  <2>2. d \in Directory /\ (d.db = "bare" \/ (d.db = "partial" /\ d = Dir))
    <3>1. Dir \in Directory /\ Dir.db \in {"none", "bare", "partial", "whole"}
      BY DEF Directory
    <3>2. CASE Dir.db = "none"
      BY <3>2
    <3>3. CASE Dir.db # "none"
      BY <2>1, <3>1, <3>3
    <3> QED BY <3>2, <3>3
  <2> HIDE DEF d
  <2>3. /\ Rocks' = IF opt.chaindb = "rocksdb" THEN d ELSE Rocks
        /\ LevelDb' = IF opt.chaindb = "txleveldb" THEN d ELSE LevelDb
    BY <2>1, <2>2, SetDirEffect
  <2>4. Control'
    BY <1>0, <1>1, <2>1 DEF Control, Places, PastMigration, Migrating, Reindexing, LoadingSnapshot
  <2>5. MarkedInv'
    <3> SUFFICES ASSUME scars' \cap {"unmarked", "deleted"} = {} PROVE Marked'
      BY DEF MarkedInv
    <3>1. Marked
      BY <2>1 DEF ChainPart, MarkedInv
    <3>2. Dir.db # "partial"
      BY <1>1, <2>1, <3>1 DEF Marked, PartialUnmarked, LoadingSnapshot
    <3>3. d.db = "bare"
      BY <2>2, <3>2
    <3> QED BY <1>0, <2>1, <2>3, <3>1, <3>3 DEF Marked, PartialUnmarked, DirDb, LoadingSnapshot
  <2>6. ChainKeptInv'
    <3>1. ASSUME legacyHeight >= 0, scars' = {} PROVE FALSE
      <4>1. ChainKept
        BY <2>1, <3>1 DEF ChainPart, ChainKeptInv
      <4>2. opt.chaindb = "rocksdb"
        BY <2>1, <3>1
      <4>3. Rocks.db # "whole"
        BY <2>1, <4>2
      <4> QED BY <2>1, <4>1, <4>2, <4>3 DEF ChainKept
    <3> QED BY <1>0, <3>1 DEF ChainKeptInv
  <2>7. MIGRATION_INCOMPLETE' => Rocks'.db # "none"
    BY <1>0, <1>1, <2>3 DEF ChainPart
  <2> QED BY <2>4, <2>5, <2>6, <2>7 DEF ChainPart
<1>3. CASE IndexGenesis
  <2> DEFINE d == IF Dir.db = "bare" THEN Whole(0) ELSE Dir
  <2>1. pc = "genesis" /\ pc' = "load wallet" /\ SetDir(opt.chaindb, d) /\ scars' = scars
    BY <1>3 DEF IndexGenesis, Goto, history
  <2>2. d \in Directory /\ (Dir.db = "bare" => d.db = "whole")
    <3>1. CASE Dir.db = "bare"
      BY <3>1
    <3>2. CASE Dir.db # "bare"
      BY <3>2
    <3> QED BY <3>1, <3>2
  <2> HIDE DEF d
  <2>3. /\ Rocks' = IF opt.chaindb = "rocksdb" THEN d ELSE Rocks
        /\ LevelDb' = IF opt.chaindb = "txleveldb" THEN d ELSE LevelDb
    BY <2>1, <2>2, OwnDirEffect
  <2>4. Control'
    BY <1>0, <1>1, <2>1 DEF Control, Places, PastMigration, Migrating, Reindexing, LoadingSnapshot
  <2>5. MarkedInv'
    <3> SUFFICES ASSUME scars \cap {"unmarked", "deleted"} = {} PROVE Marked'
      BY <2>1 DEF MarkedInv
    <3>1. Marked
      BY <2>1 DEF ChainPart, MarkedInv
    <3>2. d.db = "whole"
      BY <2>1, <2>2, <3>1 DEF Marked, DirDb
    <3> QED BY <1>0, <2>1, <2>3, <3>1, <3>2 DEF Marked, PartialUnmarked, DirDb, LoadingSnapshot
  <2>6. ChainKeptInv'
    BY <1>0, <2>1 DEF ChainPart, ChainKeptInv, ChainKept
  <2>7. MIGRATION_INCOMPLETE' => Rocks'.db # "none"
    BY <1>0, <1>1, <2>3 DEF ChainPart
  <2> QED BY <2>4, <2>5, <2>6, <2>7 DEF ChainPart
<1> QED BY <1>2, <1>3

\* The running node, and the owner who deletes a marked rocksdb directory.
LEMMA OwnerChain ==
    ASSUME TypeOK, ChainPart, AcceptBlock \/ DeleteRocksDb
    PROVE  ChainPart'
<1> USE DirectoryKinds, DirIs, DirectoryFields
<1>1. CASE AcceptBlock
  <2> DEFINE h == Dir.height + 1
  <2>1. /\ pc = "running" /\ pc' = "running" /\ Dir.db = "whole" /\ Dir.height < Top
        /\ SetDir(opt.chaindb, Whole(h))
        /\ UNCHANGED <<MIGRATION_INCOMPLETE, REINDEX_INCOMPLETE, legacyHeight, opt, refused, scars>>
    BY <1>1 DEF AcceptBlock, history, process
  <2>2. h \in 0 .. Top
    <3>1. Dir.height \in 0 .. Top /\ Top \in Nat
      BY StartupConstants DEF Directory
    <3> QED BY <2>1, <3>1
  <2> HIDE DEF h
  <2>3. Whole(h) \in Directory /\ Whole(h).db = "whole"
    BY <2>2
  <2>4. /\ Rocks' = IF opt.chaindb = "rocksdb" THEN Whole(h) ELSE Rocks
        /\ LevelDb' = IF opt.chaindb = "txleveldb" THEN Whole(h) ELSE LevelDb
    BY <2>1, <2>3, SetDirEffect
  <2>5. Control'
    BY <2>1 DEF ChainPart, Control, Places, PastMigration, Migrating, Reindexing, LoadingSnapshot
  <2>6. MarkedInv'
    BY <2>1, <2>3, <2>4 DEF ChainPart, MarkedInv, Marked, PartialUnmarked, DirDb, LoadingSnapshot
  <2>7. ChainKeptInv'
    <3>1. ASSUME legacyHeight >= 0, scars = {} PROVE FALSE
      <4>1. ChainKept /\ legacyHeight = Top
        BY <3>1 DEF ChainPart, ChainKeptInv
      <4>2. Dir.height = Top
        BY <2>1, <4>1 DEF ChainKept
      <4> QED BY <2>1, <4>2, StartupConstants
    <3> QED BY <2>1, <3>1 DEF ChainKeptInv
  <2>8. MIGRATION_INCOMPLETE' => Rocks'.db # "none"
    BY <2>1, <2>3, <2>4 DEF ChainPart
  <2> QED BY <2>5, <2>6, <2>7, <2>8 DEF ChainPart
<1>2. CASE DeleteRocksDb
  <2>1. /\ pc = "down" /\ refused = "marked" /\ pc' = pc /\ ~MIGRATION_INCOMPLETE'
        /\ SetDir("rocksdb", NoDir) /\ refused' # "marked"
        /\ UNCHANGED <<REINDEX_INCOMPLETE, blk, legacyHeight, opt, scars>>
    BY <1>2 DEF DeleteRocksDb, process
  <2>2. Rocks' = NoDir /\ LevelDb' = LevelDb
    BY <2>1, SetDirEffect
  <2>3. MIGRATION_INCOMPLETE
    BY <2>1 DEF ChainPart, Control
  <2>4. Control'
    BY <2>1 DEF Control, Places, PastMigration, Migrating, Reindexing, LoadingSnapshot
  <2>5. MarkedInv'
    BY <2>1, <2>2 DEF ChainPart, MarkedInv, Marked, PartialUnmarked, DirDb, LoadingSnapshot
  <2>6. ChainKeptInv'
    BY <2>1, <2>2, <2>3 DEF ChainPart, ChainKeptInv, ChainKept
  <2> QED BY <2>1, <2>4, <2>5, <2>6 DEF ChainPart
<1> QED BY <1>1, <1>2

-----------------------------------------------------------------------------
(* The keys                                                                *)

\* Steps that touch no wallet file and do not go on to the wallet migration.
LEMMA KeysFrame ==
    ASSUME Keys, UNCHANGED <<wallet, walletTmp, walletBak, issued>>,
           pc' \notin {"copy wallet", "back up wallet", "swap wallet"}
    PROVE  Keys'
  BY DEF Keys

\* The steps of MaybeMigrateBerkeleyWalletToSQLite.  wallet.dat is moved away
\* only as long as it has the old format, and then it has all keys.
LEMMA WalletKeys ==
    ASSUME Keys, WalletStep
    PROVE  Keys'
<1> USE DEF Goto, history
<1>1. CASE SkipWalletMigration
  BY <1>1, KeysFrame DEF SkipWalletMigration, walletFiles
<1>2. CASE BeginWalletCopy
  <2>1. /\ UNCHANGED <<wallet, walletBak, issued>> /\ walletTmp'.format = "sqlite"
        /\ wallet.format = "bdb" /\ pc' = "copy wallet"
    BY <1>2 DEF BeginWalletCopy
  <2> QED BY <2>1 DEF Keys
<1>3. CASE CopyWallet
  <2>1. UNCHANGED <<wallet, walletBak, issued>> /\ pc = "copy wallet" /\ pc' = "back up wallet"
    BY <1>3 DEF CopyWallet
  <2>2. walletTmp'.format = "sqlite"
    BY <1>3 DEF CopyWallet
  <2> QED BY <2>1, <2>2 DEF Keys
<1>4. CASE BackUpWallet
  <2>1. /\ walletBak' = wallet /\ wallet'.format = "none" /\ wallet'.keys = {}
        /\ UNCHANGED <<walletTmp, issued>> /\ pc' = "swap wallet"
    BY <1>4 DEF BackUpWallet, NoFile
  <2>2. issued \subseteq wallet.keys /\ wallet.format = "bdb"
    BY <1>4 DEF BackUpWallet, Keys
  <2> QED BY <2>1, <2>2 DEF Keys
<1>5. CASE SwapWallet
  <2>1. /\ walletBak' = walletBak /\ wallet' = walletTmp
        /\ walletTmp'.format = "none" /\ walletTmp'.keys = {}
        /\ issued' = issued /\ pc' = "snapshot" /\ wallet.format = "none"
    BY <1>5 DEF SwapWallet, NoFile, Keys
  <2>2. issued \subseteq walletBak.keys
    BY <2>1 DEF Keys
  <2> QED BY <2>1, <2>2 DEF Keys
<1> QED BY <1>1, <1>2, <1>3, <1>4, <1>5 DEF WalletStep

\* Its failures: a file that is put back or left has what it had.
LEMMA WalletFailureKeys ==
    ASSUME Keys, CopyWalletFails \/ BackUpWalletFails \/ SwapWalletFails
    PROVE  Keys'
<1> USE DEF InitError, Stop
<1>1. CASE CopyWalletFails \/ BackUpWalletFails
  <2>1. UNCHANGED <<wallet, walletBak, issued>> /\ pc' = "down"
    BY <1>1 DEF CopyWalletFails, BackUpWalletFails
  <2>2. \/ walletTmp' = walletTmp
        \/ walletTmp' = [format |-> "sqlite", keys |-> wallet.keys]
        \/ walletTmp' = NoFile
    BY <1>1 DEF CopyWalletFails, BackUpWalletFails
  <2>3. \/ walletTmp' = walletTmp
        \/ walletTmp'.format = "sqlite"
        \/ walletTmp'.format = "none" /\ walletTmp'.keys = {}
    BY <2>2 DEF NoFile
  <2> QED BY <2>1, <2>3 DEF Keys
<1>2. CASE SwapWalletFails
  <2>1. /\ pc = "swap wallet" /\ issued' = issued /\ pc' = "down" /\ walletTmp' = NoFile
        /\ \/ wallet' = walletBak /\ walletBak' = NoFile
           \/ wallet' = wallet /\ walletBak' = walletBak
    BY <1>2 DEF SwapWalletFails
  <2>2. NoFile.format = "none" /\ NoFile.keys = {}
    BY DEF NoFile
  <2>3. wallet.format = "none" /\ wallet.keys = {} /\ issued \subseteq walletBak.keys
    BY <2>1 DEF Keys
  <2> QED BY <2>1, <2>2, <2>3 DEF Keys
<1> QED BY <1>1, <1>2

\* A wallet that is loaded, or made because it is missing.
LEMMA LoadedKeys ==
    ASSUME TypeOK, Keys, LoadWallet \/ RunDeleted
    PROVE  Keys'
<1>1. /\ wallet' = wallet \/ wallet' = LoadedWallet
      /\ issued' = issued \cup wallet'.keys
      /\ walletTmp' = walletTmp /\ walletBak' = walletBak
      /\ pc' \in {"down", "running"}
  BY DEF LoadWallet, RunDeleted, InitError, Stop, Goto
<1>2. wallet.format = "none" => wallet.keys = {}
  BY DEF Keys
<1>3. CASE wallet' = wallet
  BY <1>1, <1>3 DEF Keys
<1>4. CASE wallet' # wallet
  <2>1. wallet.format = "none" /\ wallet' = [format |-> "sqlite", keys |-> {"new"}]
    BY <1>1, <1>4 DEF LoadedWallet
  <2>2. wallet'.format = "sqlite" /\ wallet'.keys = {"new"} /\ wallet.keys = {}
    BY <1>2, <2>1
  <2> QED BY <1>1, <2>2 DEF Keys
<1> QED BY <1>3, <1>4

\* All other steps leave the wallet files alone.
LEMMA OtherKeys ==
    ASSUME Keys,
           \/ \E o \in Options : Start(o)
           \/ SnapshotStep /\ ~RunDeleted
           \/ MigrationStep
           \/ IndexStep /\ ~LoadWallet
           \/ FaultStep /\ ~CopyWalletFails /\ ~BackUpWalletFails /\ ~SwapWalletFails
           \/ Running \/ DeleteRocksDb
    PROVE  Keys'
<1> USE DEF walletFiles, history, Goto, InitError, Stop
<1>1. CASE \E o \in Options : Start(o)
  BY <1>1, KeysFrame DEF Start
<1>2. CASE SnapshotStep /\ ~RunDeleted
  BY <1>2, KeysFrame DEF SnapshotStep, SkipSnapshot, BeginLoadSnapshot, ExtractBlocks, FinishLoadSnapshot
<1>3. CASE MigrationStep
  BY <1>3, KeysFrame DEF MigrationStep, SkipMigration, RemoveOldRocksDb, CreateRocksDir,
     WriteMigrationMarker, CopySomeRecords, CopyLastRecords, RemoveMigrationMarker
<1>4. CASE IndexStep /\ ~LoadWallet
  BY <1>4, KeysFrame DEF IndexStep, BeginReindex, WipeSome, WipeRest, ImportSome, ImportRest,
     RemoveReindexMarker, LoadBlockIndex, WriteGenesis, IndexGenesis
<1>5. CASE FaultStep /\ ~CopyWalletFails /\ ~BackUpWalletFails /\ ~SwapWalletFails
  BY <1>5, KeysFrame DEF FaultStep, LoadSnapshotFails, WriteMigrationMarkerFails, CopyChainFails,
     RemoveMigrationMarkerFails, BeginReindexFails, ImportFails, RemoveReindexMarkerFails, Crash
<1>6. CASE Running
  <2>1. CASE pc' = pc
    BY <1>6, <2>1 DEF Running, AcceptBlock, FetchSnapshot, FetchSucceeds, FetchFails, Shutdown, Keys
  <2>2. CASE pc' # pc
    BY <1>6, <2>2, KeysFrame DEF Running, AcceptBlock, FetchSnapshot, FetchSucceeds, FetchFails, Shutdown
  <2> QED BY <2>1, <2>2
<1>7. CASE DeleteRocksDb
  BY <1>7, KeysFrame DEF DeleteRocksDb
<1> QED BY <1>1, <1>2, <1>3, <1>4, <1>5, <1>6, <1>7

-----------------------------------------------------------------------------
(* The invariant is inductive                                              *)

\* Every step keeps the types.
LEMMA TypesStep ==
    ASSUME TypeOK, Next
    PROVE  Types'
<1>1. CASE \E o \in Options : Start(o)
  BY <1>1, FileTypes
<1>2. CASE WalletStep
  BY <1>2, FileTypes
<1>3. CASE SnapshotStep
  BY <1>3, FileTypes, DirectoryTypes, DeletedTypes DEF SnapshotStep
<1>4. CASE MigrationStep
  BY <1>4, FileTypes, DirectoryTypes DEF MigrationStep
<1>5. CASE IndexStep
  BY <1>5, FileTypes, DirectoryTypes DEF IndexStep
<1>6. CASE FaultStep
  BY <1>6, FaultTypes, DirectoryTypes
<1>7. CASE Running
  BY <1>7, FileTypes, DirectoryTypes DEF Running
<1>8. CASE DeleteRocksDb
  BY <1>8, DirectoryTypes
<1> QED BY <1>1, <1>2, <1>3, <1>4, <1>5, <1>6, <1>7, <1>8 DEF Next, InitStep

\* Every step keeps the keys.
LEMMA KeysStep ==
    ASSUME TypeOK, Keys, Next
    PROVE  Keys'
<1>1. CASE WalletStep
  BY <1>1, WalletKeys
<1>2. CASE CopyWalletFails \/ BackUpWalletFails \/ SwapWalletFails
  BY <1>2, WalletFailureKeys
<1>3. CASE LoadWallet \/ RunDeleted
  BY <1>3, LoadedKeys
<1>4. CASE /\ ~WalletStep /\ ~(LoadWallet \/ RunDeleted)
           /\ ~(CopyWalletFails \/ BackUpWalletFails \/ SwapWalletFails)
  BY <1>4, OtherKeys DEF Next, InitStep
<1> QED BY <1>1, <1>2, <1>3, <1>4

\* Every step keeps what is known of the chain databases.
LEMMA ChainStep ==
    ASSUME TypeOK, ChainPart, Next
    PROVE  ChainPart'
<1>1. CASE WalletStep \/ \E o \in Options : Start(o)
  BY <1>1, WalletChain
<1>2. CASE SnapshotStep
  BY <1>2, WalletChain, ExtractChain, SnapshotChain DEF SnapshotStep
<1>3. CASE MigrationStep
  BY <1>3, SkipMigrationChain, MigrationChain, MarkerChain DEF MigrationStep
<1>4. CASE IndexStep
  BY <1>4, IndexChain, ReindexChain, MarkerChain, GenesisChain, RunningChain DEF IndexStep
<1>5. CASE FaultStep
  BY <1>5, FaultChain, SnapshotChain
<1>6. CASE Running
  BY <1>6, RunningChain, OwnerChain DEF Running
<1>7. CASE DeleteRocksDb
  BY <1>7, OwnerChain
<1> QED BY <1>1, <1>2, <1>3, <1>4, <1>5, <1>6, <1>7 DEF Next, InitStep

\* The invariant holds initially.
LEMMA IInvInit == Init => IInv
<1> SUFFICES ASSUME Init PROVE IInv
  OBVIOUS
<1>1. PICK old \in BOOLEAN :
          /\ wallet = IF old THEN [format |-> "bdb", keys |-> {"old"}] ELSE NoFile
          /\ chainDb = [b \in Backend |-> IF old /\ b = "txleveldb" THEN Whole(Top) ELSE NoDir]
          /\ blk = IF old THEN [NoBlk EXCEPT !.height = Top] ELSE NoBlk
          /\ legacyHeight = IF old THEN Top ELSE -1
  BY StartupConstants DEF Init
<1>2. /\ issued = wallet.keys /\ walletTmp = NoFile /\ walletBak = NoFile
      /\ MIGRATION_INCOMPLETE = FALSE /\ REINDEX_INCOMPLETE = FALSE
      /\ snapshotFile \in {"none", "partial", "good"}
      /\ pc = "down" /\ opt = Default /\ opened = FALSE /\ fetching = FALSE
      /\ refused = "no" /\ faults = 0 /\ scars = {}
  BY StartupConstants DEF Init
<1>3. Rocks = NoDir /\ LevelDb = IF old THEN Whole(Top) ELSE NoDir
  BY <1>1, DirectoryKinds DEF Rocks, LevelDb
<1>4. Top \in 0 .. Top /\ Top \in Nat
  BY StartupConstants
<1>5. TypeOK
  <2>1. wallet \in File /\ walletTmp \in File /\ walletBak \in File /\ issued \subseteq {"old", "new"}
    BY <1>1, <1>2 DEF File, NoFile
  <2>2. chainDb \in [Backend -> Directory]
    BY <1>1, <1>4, DirectoryKinds
  <2>3. blk \in [height : -1 .. Top, stray : BOOLEAN, torn : BOOLEAN] /\ legacyHeight \in -1 .. Top
    <3>1. CASE old
      <4>1. blk = [height |-> Top, stray |-> FALSE, torn |-> FALSE] /\ legacyHeight = Top
        BY <1>1, <3>1 DEF NoBlk
      <4>2. Top \in -1 .. Top
        BY <1>4
      <4> QED BY <4>1, <4>2
    <3>2. CASE ~old
      <4>1. blk = NoBlk /\ legacyHeight = -1 /\ -1 \in -1 .. Top
        BY <1>1, <1>4, <3>2
      <4> QED BY <4>1 DEF NoBlk
    <3> QED BY <3>1, <3>2
  <2>4. opt \in OptionSet
    BY <1>2 DEF Default, OptionSet, Backend
  <2>5. faults \in 0 .. MaxFaults
    BY <1>2, StartupConstants
  <2>6. /\ MIGRATION_INCOMPLETE \in BOOLEAN /\ REINDEX_INCOMPLETE \in BOOLEAN /\ ~MIGRATION_INCOMPLETE
        /\ opened \in BOOLEAN /\ fetching \in BOOLEAN
    BY <1>2
  <2>7. scars \subseteq {"unmarked", "deleted", "replaced", "restarted"}
    BY <1>2
  <2> QED BY <1>2, <2>1, <2>2, <2>3, <2>4, <2>5, <2>6, <2>7 DEF TypeOK
<1>6. Keys
  BY <1>1, <1>2 DEF Keys, NoFile
<1>7. Control /\ MarkedInv
  BY <1>1, <1>2, <1>3, <1>4, DirectoryFields
     DEF Control, Places, MarkedInv, Marked, PastMigration, Migrating, Reindexing, LoadingSnapshot
<1>8. ChainKeptInv
  <2>1. CASE old
    <3>1. blk.height = Top /\ legacyHeight = Top /\ Rocks.db = "none"
          /\ LevelDb.db = "whole" /\ LevelDb.height = Top
      BY <1>1, <1>3, <1>4, <2>1, DirectoryFields DEF NoBlk
    <3> QED BY <1>2, <3>1 DEF ChainKeptInv, ChainKept
  <2>2. CASE ~old
    BY <1>1, <2>2 DEF ChainKeptInv
  <2> QED BY <2>1, <2>2
<1> QED BY <1>2, <1>5, <1>6, <1>7, <1>8 DEF IInv, ChainPart

\* Every step keeps the invariant.
LEMMA IInvStep == IInv /\ [Next]_vars => IInv'
<1> SUFFICES ASSUME IInv, [Next]_vars PROVE IInv'
  OBVIOUS
<1>1. CASE Next
  <2>1. TypeOK /\ Keys /\ ChainPart
    BY DEF IInv
  <2>2. Types' /\ Keys' /\ ChainPart'
    BY <1>1, <2>1, TypesStep, KeysStep, ChainStep
  <2>3. TypeOK'
    BY <2>2 DEF Types, TypeOK, ChainPart, Rocks
  <2> QED BY <2>2, <2>3 DEF IInv
<1>2. CASE UNCHANGED vars
  <2> USE <1>2 DEF vars, walletFiles, chainFiles, process, history
  <2>1. TypeOK'
    BY DEF IInv, TypeOK
  <2>2. Keys'
    BY DEF IInv, Keys
  <2>3. Rocks' = Rocks /\ LevelDb' = LevelDb
    BY DEF Rocks, LevelDb
  <2>4. Control' /\ (MIGRATION_INCOMPLETE' => Rocks'.db # "none")
    BY <2>3 DEF IInv, ChainPart, Control
  <2>5. MarkedInv'
    BY <2>3 DEF IInv, ChainPart, MarkedInv, Marked, PartialUnmarked, DirDb
  <2>6. ChainKeptInv'
    BY <2>3 DEF IInv, ChainPart, ChainKeptInv, ChainKept
  <2> QED BY <2>1, <2>2, <2>4, <2>5, <2>6 DEF IInv, ChainPart
<1> QED BY <1>1, <1>2

-----------------------------------------------------------------------------
(* Theorems                                                                *)

\* The markers, the keys and the chain are as IInv says in every state of every
\* sequence of starts, faults and restarts.
THEOREM Inductive == Spec => []IInv
  BY IInvInit, IInvStep, PTL DEF Spec

\* The files and the process have their types, and the migration marker lies in
\* a directory that exists.
THEOREM TypeCorrect == Spec => []TypeOK
<1>1. IInv => TypeOK
  BY DEF IInv
<1> QED BY <1>1, Inductive, PTL

\* No key that was given out is lost, wherever the wallet migration fails or dies.
THEOREM KeysAreNeverLost == Spec => []KeysNeverLost
<1>1. IInv => KeysNeverLost
  BY DEF IInv, Keys, KeysNeverLost
<1> QED BY <1>1, Inductive, PTL

\* A node that runs has a whole chain database, unless a directory was left
\* unmarked or deleted under an open database.
THEOREM RunsOnlyOnWhole == Spec => []RunsOnWhole
<1>1. IInv => RunsOnWhole
  <2> SUFFICES ASSUME IInv, pc = "running", scars \cap {"unmarked", "deleted"} = {}
               PROVE  Dir.db = "whole"
    BY DEF RunsOnWhole
  <2>1. DirDb = "whole"
    BY DEF IInv, ChainPart, MarkedInv, Marked
  <2> QED BY <2>1, DirIs DEF IInv, DirDb
<1> QED BY <1>1, Inductive, PTL

\* A node that came with a LevelDB chain and runs on RocksDB has at least that
\* chain, for any number of failed and repeated migrations and reindexes.
THEOREM UpgradeKeeps == Spec => []UpgradeKeepsChain
<1>1. IInv => UpgradeKeepsChain
  <2> SUFFICES ASSUME IInv, pc = "running", opt.chaindb = "rocksdb", scars = {}
               PROVE  Rocks.height >= legacyHeight
    BY DEF UpgradeKeepsChain
  <2>1. DirDb = "whole"
    BY DEF IInv, ChainPart, MarkedInv, Marked
  <2>2. Rocks.db = "whole" /\ Rocks.height \in 0 .. Top /\ legacyHeight \in -1 .. Top
    BY <2>1, DirIs DEF IInv, DirDb, TypeOK, Directory
  <2>3. CASE legacyHeight >= 0
    <3>1. ChainKept
      BY <2>3 DEF IInv, ChainPart, ChainKeptInv
    <3> QED BY <2>2, <3>1 DEF ChainKept
  <2>4. CASE legacyHeight < 0
    BY <2>2, <2>4, StartupConstants
  <2> QED BY <2>2, <2>3, <2>4
<1> QED BY <1>1, Inductive, PTL

=============================================================================
