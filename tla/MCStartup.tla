----------------------------- MODULE MCStartup ------------------------------
(***************************************************************************)
(* Command lines for model checking Startup: the default, the fallback to  *)
(* LevelDB, -reindex with either backend, -migratechaindb with LevelDB and *)
(* -migratechaindbforce.                                                   *)
(***************************************************************************)
EXTENDS Startup

MCOptions ==
    {Default,
     [Default EXCEPT !.reindex = TRUE],
     [Default EXCEPT !.migrate = "force"],
     [Default EXCEPT !.chaindb = "txleveldb"],
     [Default EXCEPT !.chaindb = "txleveldb", !.reindex = TRUE],
     [Default EXCEPT !.chaindb = "txleveldb", !.migrate = "yes"]}

MCDefault == {Default}

=============================================================================
