------------------------------ MODULE Startup -------------------------------
(***************************************************************************)
(* The data directory of a node over any number of process starts          *)
(* (init.cpp AppInit2, walletmigrate.cpp, chaindb_migrate.cpp,             *)
(* utxosnapshot.cpp, snapshotnet.cpp, FastImportBlockFile in main.cpp).    *)
(*                                                                         *)
(* AppInit2 converts what earlier versions left behind: wallet.dat from    *)
(* Berkeley DB to SQLite (step 5), a UTXO snapshot into a chain database   *)
(* (6c), txleveldb/ into rocksdb/ (6d), blk0001.dat into a chain database  *)
(* on -reindex (7).  Each conversion is a sequence of file operations, and *)
(* the process may die between any two of them; the next start works on    *)
(* what it finds.  pc is the place in AppInit2.                            *)
(*                                                                         *)
(* A chain database is "none" (no directory), "bare" (a directory or a     *)
(* database without blocks), "partial" (some of its records or files) or   *)
(* "whole".  Its height, that of blk0001.dat and that of the compiled      *)
(* snapshot are small numbers.  A wallet file is NoFile or a record of its *)
(* format and the keys in it.                                              *)
(***************************************************************************)
EXTENDS Integers, FiniteSets

CONSTANTS
    Top,                \* the height of the network's best chain
    SnapshotHeight,     \* Checkpoints::GetBestSnapshotHeight
    CheckpointHeight,   \* Checkpoints::GetLastCheckpointHeight
    Options,            \* the command lines in use
    SnapshotFiles,      \* what utxo-snapshot.bin may be before the first start
    Legacy,             \* whether the node comes from a version with LevelDB
    MaxFaults           \* crashes and failing file operations

Backend == {"rocksdb", "txleveldb"}

OptionSet == [chaindb : Backend, reindex : BOOLEAN, migrate : {"no", "yes", "force"}]

ASSUME StartupConstants ==
    /\ Top \in Nat /\ SnapshotHeight \in 1 .. Top /\ CheckpointHeight \in 0 .. Top
    /\ Options \subseteq OptionSet
    /\ SnapshotFiles \subseteq {"none", "partial", "good"}
    /\ Legacy \subseteq BOOLEAN
    /\ MaxFaults \in Nat

Default == [chaindb |-> "rocksdb", reindex |-> FALSE, migrate |-> "no"]

NoFile == [format |-> "none", keys |-> {}]
NoDir == [db |-> "none", height |-> 0]
Bare == [db |-> "bare", height |-> 0]
Partial == [db |-> "partial", height |-> 0]
Whole(h) == [db |-> "whole", height |-> h]
NoBlk == [height |-> -1, stray |-> FALSE, torn |-> FALSE]

VARIABLES
    (* the data directory *)
    wallet, walletTmp, walletBak,  \* wallet.dat, .sqlite.tmp, .bdb.bak
    chainDb,                       \* the directories txleveldb and rocksdb
    MIGRATION_INCOMPLETE,          \* the marker in rocksdb
    REINDEX_INCOMPLETE,
    blk,                           \* blk0001.dat; stray: a second genesis record in it
    snapshotFile,                  \* utxo-snapshot.bin
    (* the process *)
    pc, opt,
    opened,                        \* step 6c opened the chain database
    fetching,                      \* ThreadSnapshotFetch is at work
    (* history *)
    legacyHeight,                  \* of the LevelDB chain before the first start, or -1
    issued,                        \* keys some wallet ever gave out
    refused,                       \* the last InitError
    faults, scars

walletFiles == <<wallet, walletTmp, walletBak>>
chainFiles == <<chainDb, MIGRATION_INCOMPLETE, REINDEX_INCOMPLETE, blk, snapshotFile>>
process == <<opt, opened, fetching>>
history == <<legacyHeight, issued, refused, faults, scars>>
vars == <<walletFiles, chainFiles, pc, process, history>>

-----------------------------------------------------------------------------

\* GetChainDataDir: the directory of the configured backend.
Dir == chainDb[opt.chaindb]

SetDir(b, d) == chainDb' = [chainDb EXCEPT ![b] = d]

Goto(label) == pc' = label

\* The process ends, and its memory with it.
Stop ==
    /\ pc' = "down"
    /\ opt' = Default /\ opened' = FALSE /\ fetching' = FALSE

\* return InitError(...): AppInit2 fails.
InitError(reason) ==
    /\ Stop
    /\ refused' = reason

Fault ==
    /\ faults < MaxFaults
    /\ faults' = faults + 1

Start(o) ==
    /\ pc = "down"
    /\ opt' = o
    /\ refused' = "no"
    /\ Goto("wallet")
    /\ UNCHANGED <<walletFiles, chainFiles, opened, fetching, legacyHeight, issued, faults, scars>>

\* Fault: a genesis record that is appended counts as one more block.
AppendGenesisAsBlock(f) == [f EXCEPT !.height = @ + 1]

\* WriteToDisk of the genesis block: it is appended to a file that has blocks.
AppendGenesis(f) == IF f.height < 0 THEN [f EXCEPT !.height = 0] ELSE [f EXCEPT !.stray = TRUE]

\* LoadWallet and the first-run code of step 8: a wallet that is missing is
\* made, with keys of its own.
LoadedWallet == IF wallet.format = "none" THEN [format |-> "sqlite", keys |-> {"new"}] ELSE wallet

-----------------------------------------------------------------------------
(* Step 5: MaybeMigrateBerkeleyWalletToSQLite                              *)

SkipWalletMigration ==
    /\ pc = "wallet"
    /\ wallet.format # "bdb"
    /\ Goto("snapshot")
    /\ UNCHANGED <<walletFiles, chainFiles, process, history>>

\* A stale temporary file goes, a new one is begun.
BeginWalletCopy ==
    /\ pc = "wallet"
    /\ wallet.format = "bdb"
    /\ walletTmp' = [format |-> "sqlite", keys |-> {}]
    /\ Goto("copy wallet")
    /\ UNCHANGED <<wallet, walletBak, chainFiles, process, history>>

\* One SQLite transaction, and the count of its records.
CopyWallet ==
    /\ pc = "copy wallet"
    /\ walletTmp' = [format |-> "sqlite", keys |-> wallet.keys]
    /\ Goto("back up wallet")
    /\ UNCHANGED <<wallet, walletBak, chainFiles, process, history>>

\* The temporary file is left, before or after the commit.
CopyWalletFails ==
    /\ pc = "copy wallet"
    /\ Fault
    /\ walletTmp' \in {walletTmp, [format |-> "sqlite", keys |-> wallet.keys]}
    /\ InitError("wallet")
    /\ UNCHANGED <<wallet, walletBak, chainFiles, legacyHeight, issued, scars>>

\* Fault: the new wallet is moved over the original, without a backup.
BackUpNothing ==
    /\ pc = "back up wallet"
    /\ walletBak' = walletBak
    /\ wallet' = NoFile
    /\ Goto("swap wallet")
    /\ UNCHANGED <<walletTmp, chainFiles, process, history>>

\* rename(wallet.dat, wallet.dat.bdb.bak)
BackUpWallet ==
    /\ pc = "back up wallet"
    /\ walletBak' = wallet
    /\ wallet' = NoFile
    /\ Goto("swap wallet")
    /\ UNCHANGED <<walletTmp, chainFiles, process, history>>

BackUpWalletFails ==
    /\ pc = "back up wallet"
    /\ Fault
    /\ walletTmp' = NoFile
    /\ InitError("wallet")
    /\ UNCHANGED <<wallet, walletBak, chainFiles, legacyHeight, issued, scars>>

\* rename(wallet.dat.sqlite.tmp, wallet.dat)
SwapWallet ==
    /\ pc = "swap wallet"
    /\ wallet' = walletTmp
    /\ walletTmp' = NoFile
    /\ Goto("snapshot")
    /\ UNCHANGED <<walletBak, chainFiles, process, history>>

\* The rename fails and the original is put back, unless that fails too.
SwapWalletFails ==
    /\ pc = "swap wallet"
    /\ walletTmp' = NoFile
    /\ \/ Fault /\ wallet' = walletBak /\ walletBak' = NoFile
       \/ /\ faults + 2 <= MaxFaults
          /\ faults' = faults + 2
          /\ UNCHANGED <<wallet, walletBak>>
    /\ InitError("wallet")
    /\ UNCHANGED <<chainFiles, legacyHeight, issued, scars>>

-----------------------------------------------------------------------------
(* Step 6c: LoadSnapshot                                                   *)

\* utxo-snapshot.bin is there, the database of the backend is not, and the
\* hash of the file is the compiled one.
LoadsSnapshot == snapshotFile = "good" /\ Dir.db = "none"

SkipSnapshot ==
    /\ pc = "snapshot"
    /\ ~LoadsSnapshot
    /\ Goto("migrate")
    /\ UNCHANGED <<walletFiles, chainFiles, process, history>>

\* A new database, and its first batches.
BeginLoadSnapshot ==
    /\ pc = "snapshot"
    /\ LoadsSnapshot
    /\ SetDir(opt.chaindb, Partial)
    /\ opened' = TRUE
    /\ Goto("load snapshot")
    /\ UNCHANGED <<walletFiles, MIGRATION_INCOMPLETE, REINDEX_INCOMPLETE, blk, snapshotFile,
                   opt, fetching, history>>

\* blk0001.dat is opened "wb" and refilled, whatever it held: a chain database
\* of the other backend, or an interrupted reindex, may depend on it.
ExtractBlocks ==
    /\ pc = "load snapshot"
    /\ blk' = [height |-> SnapshotHeight, stray |-> FALSE, torn |-> TRUE]
    /\ scars' = IF blk.height > 0 THEN scars \cup {"replaced"} ELSE scars
    /\ Goto("extract blocks")
    /\ UNCHANGED <<walletFiles, chainDb, MIGRATION_INCOMPLETE, REINDEX_INCOMPLETE, snapshotFile,
                   process, legacyHeight, issued, refused, faults>>

\* The transaction index, then hashBestChain in the last batch.
FinishLoadSnapshot ==
    /\ pc = "extract blocks"
    /\ blk' = [blk EXCEPT !.torn = FALSE]
    /\ SetDir(opt.chaindb, Whole(SnapshotHeight))
    /\ Goto("migrate")
    /\ UNCHANGED <<walletFiles, MIGRATION_INCOMPLETE, REINDEX_INCOMPLETE, snapshotFile,
                   process, history>>

\* The directory is wiped while the database in it is open, and startup goes on.
LoadSnapshotFails ==
    /\ pc \in {"load snapshot", "extract blocks"}
    /\ Fault
    /\ SetDir(opt.chaindb, NoDir)
    /\ scars' = scars \cup {"deleted"}
    /\ Goto("deleted")
    /\ UNCHANGED <<walletFiles, MIGRATION_INCOMPLETE, REINDEX_INCOMPLETE, blk, snapshotFile,
                   process, legacyHeight, issued, refused>>

\* A process whose open database was deleted goes through the rest of AppInit2
\* and may run: what it leaves behind is undefined.
RunDeleted ==
    /\ pc = "deleted"
    /\ \E d \in {NoDir, Bare, Partial} : SetDir(opt.chaindb, d)
    /\ MIGRATION_INCOMPLETE' \in BOOLEAN
    /\ MIGRATION_INCOMPLETE' => chainDb'["rocksdb"].db # "none"
    /\ REINDEX_INCOMPLETE' \in {REINDEX_INCOMPLETE, opt.reindex}
    /\ blk' \in {blk, AppendGenesis(blk)}
    /\ wallet' \in {wallet, LoadedWallet}
    /\ issued' = issued \cup wallet'.keys
    /\ InitError("deleted")
    /\ UNCHANGED <<walletTmp, walletBak, snapshotFile, legacyHeight, faults, scars>>

-----------------------------------------------------------------------------
(* Step 6d: MaybeMigrateLevelDbToRocksDb                                   *)

Rocks == chainDb["rocksdb"]
LevelDb == chainDb["txleveldb"]

\* Requested, or RocksDB is the backend and there is only a LevelDB chain or a
\* crashed migration.
MigrationWanted ==
    \/ opt.migrate # "no"
    \/ /\ opt.chaindb = "rocksdb"
       /\ LevelDb.db # "none"
       /\ Rocks.db = "none" \/ MIGRATION_INCOMPLETE

\* What MaybeMigrateLevelDbToRocksDb goes on to do with an existing rocksdb/.
Migrates ==
    /\ MigrationWanted
    /\ LevelDb.db # "none"
    /\ Rocks.db = "none" \/ MIGRATION_INCOMPLETE \/ opt.migrate = "force"

\* "Last line of defense: never open a RocksDB that still carries the
\* incomplete-migration marker".
RefusesMarked == opt.chaindb = "rocksdb" /\ MIGRATION_INCOMPLETE

SkipMigration ==
    /\ pc = "migrate"
    /\ ~Migrates
    /\ IF RefusesMarked
       THEN InitError("marked")
       ELSE Goto("index") /\ UNCHANGED <<process, refused>>
    /\ UNCHANGED <<walletFiles, chainFiles, legacyHeight, issued, faults, scars>>

\* remove_all(rocksdb) takes the files, the marker among them, in any order.
RemoveOldRocksDb ==
    /\ pc = "migrate"
    /\ Migrates /\ Rocks.db # "none"
    /\ IF opened /\ opt.chaindb = "rocksdb"
       THEN /\ SetDir("rocksdb", NoDir)
            /\ MIGRATION_INCOMPLETE' = FALSE
            /\ scars' = scars \cup {"deleted"}
            /\ Goto("deleted")
       ELSE /\ SetDir("rocksdb", Partial)
            /\ MIGRATION_INCOMPLETE' \in {MIGRATION_INCOMPLETE, FALSE}
            /\ Goto("remove rocksdb")
            /\ UNCHANGED scars
    /\ UNCHANGED <<walletFiles, REINDEX_INCOMPLETE, blk, snapshotFile, process,
                   legacyHeight, issued, refused, faults>>

\* create_directories(rocksdb), after what was left of an old one is gone.
CreateRocksDir ==
    /\ \/ pc = "migrate" /\ Migrates /\ Rocks.db = "none"
       \/ pc = "remove rocksdb"
    /\ SetDir("rocksdb", Bare)
    /\ MIGRATION_INCOMPLETE' = FALSE
    /\ Goto("mark")
    /\ UNCHANGED <<walletFiles, REINDEX_INCOMPLETE, blk, snapshotFile, process, history>>

WriteMigrationMarker ==
    /\ pc = "mark"
    /\ MIGRATION_INCOMPLETE' = TRUE
    /\ Goto("copy chain")
    /\ UNCHANGED <<walletFiles, chainDb, REINDEX_INCOMPLETE, blk, snapshotFile, process, history>>

\* "refuse to start": this time; the directory without a marker stays.
WriteMigrationMarkerFails ==
    /\ pc = "mark"
    /\ Fault
    /\ scars' = scars \cup {"unmarked"}
    /\ InitError("migration")
    /\ UNCHANGED <<walletFiles, chainFiles, legacyHeight, issued>>

\* Batches of records; the process may stop after any of them.
CopySomeRecords ==
    /\ pc = "copy chain"
    /\ SetDir("rocksdb", Partial)
    /\ Goto("verify chain")
    /\ UNCHANGED <<walletFiles, MIGRATION_INCOMPLETE, REINDEX_INCOMPLETE, blk, snapshotFile,
                   process, history>>

\* The last batch, and StatsMatch: the records are those of the source.
CopyLastRecords ==
    /\ pc = "verify chain"
    /\ SetDir("rocksdb", LevelDb)
    /\ Goto("unmark")
    /\ UNCHANGED <<walletFiles, MIGRATION_INCOMPLETE, REINDEX_INCOMPLETE, blk, snapshotFile,
                   process, history>>

\* Fault: the marker is taken away on the way out of a failed copy.
CopyChainFailsUnmarked ==
    /\ pc \in {"copy chain", "verify chain"}
    /\ Fault
    /\ MIGRATION_INCOMPLETE' = FALSE
    /\ InitError("migration")
    /\ UNCHANGED <<walletFiles, chainDb, REINDEX_INCOMPLETE, blk, snapshotFile,
                   legacyHeight, issued, scars>>

CopyChainFails ==
    /\ pc \in {"copy chain", "verify chain"}
    /\ Fault
    /\ InitError("migration")
    /\ UNCHANGED <<walletFiles, chainFiles, legacyHeight, issued, scars>>

RemoveMigrationMarker ==
    /\ pc = "unmark"
    /\ MIGRATION_INCOMPLETE' = FALSE
    /\ Goto("index")
    /\ UNCHANGED <<walletFiles, chainDb, REINDEX_INCOMPLETE, blk, snapshotFile, process, history>>

RemoveMigrationMarkerFails ==
    /\ pc = "unmark"
    /\ Fault
    /\ InitError("migration")
    /\ UNCHANGED <<walletFiles, chainFiles, legacyHeight, issued, scars>>

-----------------------------------------------------------------------------
(* Step 7: the block index, or -reindex                                    *)

\* SyncReindexMarker, once blk0001.dat is found to exist.
BeginReindex ==
    /\ pc = "index" /\ opt.reindex
    /\ IF blk.height < 0
       THEN InitError("reindex") /\ UNCHANGED REINDEX_INCOMPLETE
       ELSE REINDEX_INCOMPLETE' = TRUE /\ Goto("wipe") /\ UNCHANGED <<process, refused>>
    /\ UNCHANGED <<walletFiles, chainDb, MIGRATION_INCOMPLETE, blk, snapshotFile,
                   legacyHeight, issued, faults, scars>>

\* The marker cannot be made durable, and may be there or not.
BeginReindexFails ==
    /\ pc = "index" /\ opt.reindex /\ blk.height >= 0
    /\ Fault
    /\ REINDEX_INCOMPLETE' \in {REINDEX_INCOMPLETE, TRUE}
    /\ InitError("reindex")
    /\ UNCHANGED <<walletFiles, chainDb, MIGRATION_INCOMPLETE, blk, snapshotFile,
                   legacyHeight, issued, scars>>

\* WipeChainDataDir: the files go one by one, then the directory.
WipeSome ==
    /\ pc = "wipe" /\ Dir.db # "none"
    /\ IF opened
       THEN /\ SetDir(opt.chaindb, NoDir)
            /\ scars' = scars \cup {"deleted"}
            /\ Goto("deleted")
       ELSE /\ SetDir(opt.chaindb, Partial)
            /\ Goto("wipe rest")
            /\ UNCHANGED scars
    /\ UNCHANGED <<walletFiles, MIGRATION_INCOMPLETE, REINDEX_INCOMPLETE, blk, snapshotFile,
                   process, legacyHeight, issued, refused, faults>>

WipeRest ==
    /\ \/ pc = "wipe" /\ Dir.db = "none"
       \/ pc = "wipe rest"
    /\ SetDir(opt.chaindb, NoDir)
    /\ Goto("import")
    /\ UNCHANGED <<walletFiles, MIGRATION_INCOMPLETE, REINDEX_INCOMPLETE, blk, snapshotFile,
                   process, history>>

\* Fault: the newest block of the file cannot be the checkpoint itself.
ImportableAbove == ~blk.torn /\ ~blk.stray /\ blk.height > CheckpointHeight

\* FastImportBlockFile accepts the file: framing intact, one genesis record, the
\* newest compiled checkpoint on the best chain.
Importable == ~blk.torn /\ ~blk.stray /\ blk.height >= CheckpointHeight

\* The batches of both passes.
ImportSome ==
    /\ pc = "import"
    /\ SetDir(opt.chaindb, Partial)
    /\ Goto("import rest")
    /\ UNCHANGED <<walletFiles, MIGRATION_INCOMPLETE, REINDEX_INCOMPLETE, blk, snapshotFile,
                   process, history>>

ImportRest ==
    /\ pc = "import rest"
    /\ IF Importable
       THEN SetDir(opt.chaindb, Whole(blk.height)) /\ Goto("unmark reindex") /\ UNCHANGED <<process, refused>>
       ELSE InitError("import") /\ UNCHANGED chainDb
    /\ UNCHANGED <<walletFiles, MIGRATION_INCOMPLETE, REINDEX_INCOMPLETE, blk, snapshotFile, legacyHeight, issued, faults, scars>>

\* Interrupted by a shutdown request, or a failed read or commit.
ImportFails ==
    /\ pc = "import rest"
    /\ Fault
    /\ InitError("reindex")
    /\ UNCHANGED <<walletFiles, chainFiles, legacyHeight, issued, scars>>

OtherBackend == CHOOSE b \in Backend : b # opt.chaindb

\* The marker is that of the data directory, not of one backend.
RemoveReindexMarker ==
    /\ pc = "unmark reindex"
    /\ REINDEX_INCOMPLETE' = FALSE
    /\ scars' = IF chainDb[OtherBackend].db = "partial" THEN scars \cup {"unmarked"} ELSE scars
    /\ Goto("load wallet")
    /\ UNCHANGED <<walletFiles, chainDb, MIGRATION_INCOMPLETE, blk, snapshotFile, process,
                   legacyHeight, issued, refused, faults>>

RemoveReindexMarkerFails ==
    /\ pc = "unmark reindex"
    /\ Fault
    /\ InitError("reindex")
    /\ UNCHANGED <<walletFiles, chainFiles, legacyHeight, issued, scars>>

\* Fault: the marker of an interrupted reindex is ignored.
RefusesNoReindex == FALSE

\* "A previous reindex was interrupted": no ordinary start.
RefusesInterruptedReindex == REINDEX_INCOMPLETE

\* LoadBlockIndex on a database that has blocks.  One with some of its records
\* may be refused or not.
LoadBlockIndex ==
    /\ pc = "index" /\ ~opt.reindex
    /\ \/ /\ ~RefusesInterruptedReindex
          /\ Dir.db \in {"whole", "partial"}
          /\ Goto("load wallet")
          /\ UNCHANGED <<process, refused>>
       \/ /\ RefusesInterruptedReindex
          /\ InitError("interrupted")
       \/ /\ ~RefusesInterruptedReindex
          /\ Dir.db = "partial"
          /\ InitError("index")
    /\ UNCHANGED <<walletFiles, chainFiles, legacyHeight, issued, faults, scars>>

\* An empty index, in a database that may hold other records: the genesis block
\* goes to the block file ...  The LevelDB chain is begun anew only after a
\* -reindex of it was given up.
WriteGenesis ==
    /\ pc = "index" /\ ~opt.reindex /\ ~RefusesInterruptedReindex
    /\ Dir.db # "whole"
    /\ SetDir(opt.chaindb, IF Dir.db = "none" THEN Bare ELSE Dir)
    /\ blk' = AppendGenesis(blk)
    /\ scars' = IF opt.chaindb = "txleveldb" /\ legacyHeight >= 0
                THEN scars \cup {"restarted"} ELSE scars
    /\ Goto("genesis")
    /\ UNCHANGED <<walletFiles, MIGRATION_INCOMPLETE, REINDEX_INCOMPLETE, snapshotFile,
                   process, legacyHeight, issued, refused, faults>>

\* ... and then to the index.
IndexGenesis ==
    /\ pc = "genesis"
    /\ SetDir(opt.chaindb, IF Dir.db = "bare" THEN Whole(0) ELSE Dir)
    /\ Goto("load wallet")
    /\ UNCHANGED <<walletFiles, MIGRATION_INCOMPLETE, REINDEX_INCOMPLETE, blk, snapshotFile,
                   process, history>>

-----------------------------------------------------------------------------
(* Steps 8 and 11.6, and the running node                                  *)

LoadWallet ==
    /\ pc = "load wallet"
    /\ wallet' = LoadedWallet
    /\ issued' = issued \cup wallet'.keys
    /\ fetching' = (Dir.height = 0 /\ snapshotFile = "none")
    /\ Goto("running")
    /\ UNCHANGED <<walletTmp, walletBak, chainFiles, opt, opened, legacyHeight, refused, faults, scars>>

\* The next block of the network: block file first, then the database.
AcceptBlock ==
    /\ pc = "running"
    /\ Dir.db = "whole" /\ Dir.height < Top
    /\ blk' = [blk EXCEPT !.height = IF @ > Dir.height THEN @ ELSE Dir.height + 1]
    /\ SetDir(opt.chaindb, Whole(Dir.height + 1))
    /\ UNCHANGED <<walletFiles, MIGRATION_INCOMPLETE, REINDEX_INCOMPLETE, snapshotFile,
                   pc, process, history>>

\* TryFetchSnapshot creates the file at its full size ...
FetchSnapshot ==
    /\ pc = "running" /\ fetching
    /\ snapshotFile = "none"
    /\ snapshotFile' = "partial"
    /\ UNCHANGED <<walletFiles, chainDb, MIGRATION_INCOMPLETE, REINDEX_INCOMPLETE, blk,
                   pc, process, history>>

\* ... fills it, verifies it and asks for a restart ...
FetchSucceeds ==
    /\ pc = "running" /\ fetching
    /\ snapshotFile = "partial"
    /\ snapshotFile' = "good"
    /\ Stop
    /\ UNCHANGED <<walletFiles, chainDb, MIGRATION_INCOMPLETE, REINDEX_INCOMPLETE, blk, history>>

\* ... or removes it at the deadline, or when its hash is wrong.
FetchFails ==
    /\ pc = "running" /\ fetching
    /\ snapshotFile' = "none"
    /\ fetching' = FALSE
    /\ UNCHANGED <<walletFiles, chainDb, MIGRATION_INCOMPLETE, REINDEX_INCOMPLETE, blk,
                   pc, opt, opened, history>>

Shutdown ==
    /\ pc = "running"
    /\ Stop
    /\ UNCHANGED <<walletFiles, chainFiles, history>>

\* Places where a directory holds less than a whole database and no marker.
Unmarked ==
    \/ pc \in {"mark", "load snapshot", "extract blocks"}
    \/ pc = "remove rocksdb" /\ ~MIGRATION_INCOMPLETE

Crash ==
    /\ pc # "down"
    /\ Fault
    /\ Stop
    /\ scars' = IF Unmarked THEN scars \cup {"unmarked"} ELSE scars
    /\ UNCHANGED <<walletFiles, chainFiles, legacyHeight, issued, refused>>

\* "Delete the 'rocksdb' directory in the data directory and restart".
DeleteRocksDb ==
    /\ pc = "down" /\ refused = "marked"
    /\ SetDir("rocksdb", NoDir)
    /\ MIGRATION_INCOMPLETE' = FALSE
    /\ refused' = "no"
    /\ UNCHANGED <<walletFiles, REINDEX_INCOMPLETE, blk, snapshotFile, pc, process,
                   legacyHeight, issued, faults, scars>>

-----------------------------------------------------------------------------

\* A new node, or one that ran a version with Berkeley DB and LevelDB.
Init ==
    /\ \E old \in Legacy :
          /\ wallet = IF old THEN [format |-> "bdb", keys |-> {"old"}] ELSE NoFile
          /\ chainDb = [b \in Backend |-> IF old /\ b = "txleveldb" THEN Whole(Top) ELSE NoDir]
          /\ blk = IF old THEN [NoBlk EXCEPT !.height = Top] ELSE NoBlk
          /\ legacyHeight = IF old THEN Top ELSE -1
    /\ issued = wallet.keys
    /\ walletTmp = NoFile /\ walletBak = NoFile
    /\ MIGRATION_INCOMPLETE = FALSE /\ REINDEX_INCOMPLETE = FALSE
    /\ snapshotFile \in SnapshotFiles
    /\ pc = "down" /\ opt = Default
    /\ opened = FALSE /\ fetching = FALSE
    /\ refused = "no" /\ faults = 0 /\ scars = {}

WalletStep ==
    \/ SkipWalletMigration \/ BeginWalletCopy \/ CopyWallet \/ BackUpWallet \/ SwapWallet

SnapshotStep ==
    \/ SkipSnapshot \/ BeginLoadSnapshot \/ ExtractBlocks \/ FinishLoadSnapshot \/ RunDeleted

MigrationStep ==
    \/ SkipMigration \/ RemoveOldRocksDb \/ CreateRocksDir \/ WriteMigrationMarker
    \/ CopySomeRecords \/ CopyLastRecords \/ RemoveMigrationMarker

IndexStep ==
    \/ BeginReindex \/ WipeSome \/ WipeRest \/ ImportSome \/ ImportRest \/ RemoveReindexMarker
    \/ LoadBlockIndex \/ WriteGenesis \/ IndexGenesis \/ LoadWallet

\* AppInit2 goes on.
InitStep == WalletStep \/ SnapshotStep \/ MigrationStep \/ IndexStep

FaultStep ==
    \/ CopyWalletFails \/ BackUpWalletFails \/ SwapWalletFails \/ LoadSnapshotFails
    \/ WriteMigrationMarkerFails \/ CopyChainFails \/ RemoveMigrationMarkerFails
    \/ BeginReindexFails \/ ImportFails \/ RemoveReindexMarkerFails \/ Crash

Running ==
    \/ AcceptBlock \/ FetchSnapshot \/ FetchSucceeds \/ FetchFails \/ Shutdown

Next ==
    \/ \E o \in Options : Start(o)
    \/ InitStep \/ FaultStep \/ Running \/ DeleteRocksDb

\* AppInit2 does not wait for anything.  Whoever runs the node starts it again
\* when it is down, tries -reindex now and then, and does what the message about
\* an interrupted migration says.
Fairness ==
    /\ WF_vars(InitStep)
    /\ SF_vars(Start(Default))
    /\ SF_vars(Start([Default EXCEPT !.reindex = TRUE]))
    /\ SF_vars(DeleteRocksDb)

Spec == Init /\ [][Next]_vars /\ Fairness

-----------------------------------------------------------------------------
(* Properties                                                              *)

File == [format : {"none", "bdb", "sqlite"}, keys : SUBSET {"old", "new"}]
Directory == [db : {"none", "bare", "partial", "whole"}, height : 0 .. Top]

\* The types; and the marker of a migration lies in the directory that it marks.
TypeOK ==
    /\ wallet \in File /\ walletTmp \in File /\ walletBak \in File
    /\ chainDb \in [Backend -> Directory]
    /\ MIGRATION_INCOMPLETE \in BOOLEAN /\ REINDEX_INCOMPLETE \in BOOLEAN
    /\ blk \in [height : -1 .. Top, stray : BOOLEAN, torn : BOOLEAN]
    /\ snapshotFile \in {"none", "partial", "good"}
    /\ opt \in OptionSet /\ opened \in BOOLEAN /\ fetching \in BOOLEAN
    /\ legacyHeight \in -1 .. Top
    /\ issued \subseteq {"old", "new"}
    /\ faults \in 0 .. MaxFaults
    /\ scars \subseteq {"unmarked", "deleted", "replaced", "restarted"}
    /\ MIGRATION_INCOMPLETE => chainDb["rocksdb"].db # "none"

\* No key that a wallet ever gave out is lost: whatever fails or dies between
\* the renames of MaybeMigrateBerkeleyWalletToSQLite, some file has it.
KeysNeverLost == issued \subseteq UNION {f.keys : f \in {wallet, walletTmp, walletBak}}

\* A node that runs has a whole chain database.  The markers see to it through
\* every failure of a migration or a reindex, except in the places where a
\* directory is unmarked or deleted under an open database.
RunsOnWhole ==
    pc = "running" /\ scars \cap {"unmarked", "deleted"} = {} => Dir.db = "whole"

\* A node that had a LevelDB chain and runs on RocksDB has at least that chain,
\* after any number of failed and repeated migrations and reindexes, except where
\* a directory was unmarked or deleted, a snapshot took the place of blk0001.dat,
\* or the LevelDB chain itself was begun anew.
UpgradeKeepsChain ==
    pc = "running" /\ opt.chaindb = "rocksdb" /\ scars = {} => Rocks.height >= legacyHeight

\* blk0001.dat has not the chain in one piece that a reindex needs.
BlocksLost == blk.torn \/ blk.stray \/ blk.height < CheckpointHeight

\* When faults stop the node comes up again, with the help of -reindex: no marker
\* and no leftover of a migration, a reindex or a snapshot keeps it down for ever,
\* unless blk0001.dat has lost the chain that the reindex needs (missing, torn,
\* below the checkpoint or with a second genesis record), or a database was
\* deleted while it was open.
ComesUp ==
    \/ []<>(pc = "running")
    \/ <>[](pc = "down" => BlocksLost /\ (REINDEX_INCOMPLETE \/ Rocks.db = "partial"))
    \/ <>[]("deleted" \in scars)

\* "so the wallet is never left missing" (walletmigrate.cpp): a node runs on the
\* wallet whose keys were given out.
WalletNeverMissing == pc = "running" => issued \subseteq wallet.keys

\* "This makes the RocksDB default transparent for existing nodes: their chain
\* state is copied (and verified) into a new rocksdb/ directory on first launch"
\* (init.cpp), and a migration that cannot be marked refuses to start.
UpgradeTransparent ==
    pc = "running" /\ opt.chaindb = "rocksdb" => Rocks.height >= legacyHeight

=============================================================================
