--------------------------- MODULE MVFForkProofs ---------------------------
(***************************************************************************)
(* Proofs about MVFFork, for every height bound, set of branches, set of   *)
(* command lines and backup behaviour that ForkAssumption admits.          *)
(***************************************************************************)
EXTENDS MVFFork, TLAPS

BakType == [file : [Heights -> {"none", "bad", "pre", "post"}],
            old : SUBSET {"bad", "pre", "post"}]

-----------------------------------------------------------------------------
(***************************************************************************)
(* Type correctness.                                                       *)
(***************************************************************************)

\* The chain without blocks that Exit and Reindex produce is a chain.
LEMMA NoChainType == \A b \in Branches : NoChain(b) \in Chain /\ NoChain(b).height = -1
  BY ForkAssumption DEF NoChain, OldChain, Chain, Heights

\* Connecting a block (ConnectTip) yields a chain that is one block higher.
LEMMA ConnectedType ==
  ASSUME TypeOK, NEW b \in Branches, Extends(b)
  PROVE  /\ Connected(b) \in Chain
         /\ Connected(b).height = tip.height + 1
         /\ Connected(b).height \in Heights
  BY ForkAssumption DEF TypeOK, Extends, Connected, Chain, Heights

\* Disconnecting a block (DisconnectTip) yields a chain that is one block lower.
LEMMA DisconnectedType ==
  ASSUME TypeOK, tip.height >= 1
  PROVE  /\ Disconnected \in Chain
         /\ Disconnected.height = tip.height - 1
         /\ Disconnected.height \in Heights
  BY ForkAssumption DEF TypeOK, Disconnected, Chain, Heights

\* CWallet::BackupWalletAuto leaves well-formed backup files.
LEMMA BackupType ==
  ASSUME TypeOK, NEW n \in Heights, NEW r \in {"ok", "bad", "none", "throw"}
  PROVE  BackupWalletAuto(n, r) \in BakType
<1> DEFINE new == IF r # "ok" THEN r ELSE IF Complete(conf) THEN "post" ELSE "pre"
<1>1. CASE args.wallet = "enabled" /\ ~HasBackup(n - 1) /\ r # "throw"
  <2>1. new \in {"none", "bad", "pre", "post"}
    BY <1>1
  <2>2. [bak.file EXCEPT ![n] = new] \in [Heights -> {"none", "bad", "pre", "post"}]
    BY <2>1 DEF TypeOK
  <2>3. bak.old \cup ({bak.file[n]} \ {"none"}) \in SUBSET {"bad", "pre", "post"}
    BY DEF TypeOK
  <2> QED BY <1>1, <2>2, <2>3 DEF BackupWalletAuto, BakType
<1>2. CASE ~(args.wallet = "enabled" /\ ~HasBackup(n - 1) /\ r # "throw")
  BY <1>2 DEF BackupWalletAuto, BakType, TypeOK
<1> QED BY <1>1, <1>2

\* A missing btcfork.conf and an empty one are well formed.
LEMMA NewConfType == NoConf \in ConfType /\ EmptyConf \in ConfType
  BY DEF NoConf, EmptyConf, ConfType, NoVal

\* What ActivateFork writes to btcfork.conf is well formed.
LEMMA ActivationConfType ==
  ASSUME TypeOK, NEW h \in Nat, NEW doBackup \in BOOLEAN, NEW r
  PROVE  ActivationConf(h, doBackup, r) \in ConfType
  BY DEF TypeOK, ActivationConf, ClosedConf, BackupBlock, ConfType, NoVal

\* UpdateTip preserves the type invariant.
LEMMA UpdateTipType ==
  ASSUME TypeOK, NEW t \in Chain, t.height \in Heights, NEW r \in BackupResults,
         UpdateTip(t, r), disk' \in Chain
  PROVE  TypeOK'
<1>1. r \in {"ok", "bad", "none", "throw"}
  BY ForkAssumption
<1>2. t.height \in Nat
  BY ForkAssumption DEF Heights
<1>8. BackupWalletAuto(t.height, r) \in BakType /\ bak \in BakType
  BY <1>1, BackupType DEF TypeOK, BakType
<1>9. ActivationConf(t.height, TRUE, r) \in ConfType /\ conf \in ConfType
  BY <1>2, ActivationConfType, Zenon DEF TypeOK
<1>3. bak' \in BakType
  BY <1>8, Zenon DEF UpdateTip, OneOffActions, PreForkBackup, ActivationBackup
<1>4. conf' \in ConfType
  BY <1>9, Zenon DEF UpdateTip, OneOffActions
<1>5. FinalActivateForkHeight' \in Nat
  BY <1>2, Zenon DEF UpdateTip, OneOffActions, TypeOK
<1>6. isMVFHardForkActive' \in BOOLEAN /\ fAutoBackupDone' \in BOOLEAN
  BY Zenon DEF UpdateTip, OneOffActions, PreForkBackup, TypeOK
<1>7. /\ phase' = phase /\ args' = args /\ backupArg' = backupArg /\ tip' = t
      /\ FinalForkId' = FinalForkId /\ fRequestShutdown' = fRequestShutdown
      /\ wasMVFHardForkPreviouslyActivated' = wasMVFHardForkPreviouslyActivated
      /\ thrown' \in {"no", "before", "now"}
  BY DEF UpdateTip, settings, TypeOK
<1> QED BY <1>3, <1>4, <1>5, <1>6, <1>7 DEF TypeOK, BakType

\* The files left behind when the process dies inside UpdateTip are well formed.
LEMMA FilesType ==
  ASSUME TypeOK, NEW t \in Chain, t.height \in Heights, NEW r \in BackupResults,
         NEW f \in FilesInUpdateTip(t, r)
  PROVE  f.conf \in ConfType /\ f.bak \in BakType
<1>1. r \in {"ok", "bad", "none", "throw"}
  BY ForkAssumption
<1>2. t.height \in Nat
  BY ForkAssumption DEF Heights
<1>3. BackupWalletAuto(t.height, r) \in BakType /\ bak \in BakType
  BY <1>1, BackupType DEF TypeOK, BakType
<1>4. ActivationConf(t.height, TRUE, r) \in ConfType
  BY <1>2, ActivationConfType, Zenon
<1>5. conf \in ConfType /\ NoConf \in ConfType /\ EmptyConf \in ConfType
  BY NewConfType DEF TypeOK
<1> DEFINE copied == ActivationBackup(t.height, TRUE, r)
           stored == IF AtBackupBlock(t.height) THEN BackupWalletAuto(t.height, r) ELSE bak
<1>6. copied \in BakType /\ stored \in BakType
  BY <1>3, Zenon DEF ActivationBackup
<1>7. CASE Trigger(t) /\ OneOff
  <2>1. f \in {Files(conf, bak), Files(NoConf, bak), Files(EmptyConf, bak),
               Files(EmptyConf, copied), Files(ActivationConf(t.height, TRUE, r), copied)}
    BY <1>7, Zenon DEF FilesInUpdateTip
  <2>2. PICK c \in {conf, NoConf, EmptyConf, ActivationConf(t.height, TRUE, r)},
              b \in {bak, copied} : f = Files(c, b)
    BY <2>1, Zenon
  <2>3. c \in ConfType /\ b \in BakType
    BY <1>3, <1>4, <1>5, <1>6, Zenon
  <2> QED BY <2>2, <2>3 DEF Files
<1>8. CASE ~(Trigger(t) /\ OneOff)
  <2>1. f \in {Files(conf, bak), Files(conf, stored)}
    BY <1>8, Zenon DEF FilesInUpdateTip
  <2> HIDE DEF stored
  <2> QED BY <1>3, <1>5, <1>6, <2>1 DEF Files
<1> QED BY <1>7, <1>8

\* The end of the process preserves the type invariant.
LEMMA ExitType ==
  ASSUME TypeOK, Exit, disk' \in Chain, conf' \in ConfType, bak' \in BakType
  PROVE  TypeOK'
<1>1. tip' \in Chain
  BY NoChainType DEF Exit, Chain
<1>2. args' \in Args /\ thrown' \in {"no", "before", "now"} /\ phase' = "down"
  BY DEF Exit, TypeOK
<1>4. backupArg' \in Int /\ FinalActivateForkHeight' \in Nat /\ FinalForkId' \in Nat
  BY DEF Exit, NoVal
<1>3. /\ isMVFHardForkActive' \in BOOLEAN /\ fAutoBackupDone' \in BOOLEAN
      /\ wasMVFHardForkPreviouslyActivated' \in BOOLEAN /\ fRequestShutdown' \in BOOLEAN
  BY Zenon DEF Exit
<1> QED BY <1>1, <1>2, <1>3, <1>4 DEF TypeOK, BakType
\* ForkSetup takes each setting from btcfork.conf or from the command line.
LEMMA FromConfType ==
  ASSUME TypeOK, NEW a \in Args
  PROVE  /\ FromConf(conf.forkheight, a.forkheight) \in Nat
         /\ FromConf(conf.forkid, a.forkid) \in Nat
         /\ FromConf(conf.backupblock, a.backupblock) \in Int
  BY ForkAssumption DEF TypeOK, FromConf, ConfType, ArgsType, NoVal

\* Start-up, and the steps that only write the coin database, keep the types.
LEMMA StartType ==
  ASSUME TypeOK,
         \/ \E a \in Args : ForkSetup(a)
         \/ LoadBlockIndexDB
         \/ Reindex
         \/ AppInit2
         \/ FlushStateToDisk
  PROVE  TypeOK'
<1>1. ASSUME NEW a \in Args, ForkSetup(a) PROVE TypeOK'
  <2>1. tip' \in Chain
    BY <1>1, NoChainType DEF ForkSetup, TypeOK, Chain
  <2>2. /\ FinalActivateForkHeight' \in Nat /\ FinalForkId' \in Nat /\ backupArg' \in Int
    BY <1>1, FromConfType DEF ForkSetup
  <2>3. /\ isMVFHardForkActive' \in BOOLEAN /\ fAutoBackupDone' \in BOOLEAN
        /\ wasMVFHardForkPreviouslyActivated' \in BOOLEAN /\ fRequestShutdown' \in BOOLEAN
    BY <1>1, Zenon DEF ForkSetup, TypeOK, ConfType
  <2>4. phase' = "setup" /\ args' \in Args /\ disk' = disk /\ conf' = conf /\ bak' = bak
    BY <1>1 DEF ForkSetup, files
  <2>5. thrown' \in {"no", "before", "now"}
    BY <1>1 DEF ForkSetup
  <2> QED BY <2>1, <2>2, <2>3, <2>4, <2>5 DEF TypeOK
<1>2. CASE LoadBlockIndexDB
  <2>1. LoadTrigger => disk.height \in Nat
    BY ForkAssumption DEF LoadTrigger, SegwitActive, TypeOK, Chain, Heights
  <2>2. LoadTrigger => ActivationConf(disk.height, FALSE, "ok") \in ConfType
    BY <2>1, ActivationConfType, Zenon
  <2>3. conf' \in ConfType /\ FinalActivateForkHeight' \in Nat
    BY <1>2, <2>1, <2>2, Zenon DEF LoadBlockIndexDB, OneOffActions, TypeOK, files
  <2>4. isMVFHardForkActive' \in BOOLEAN /\ fAutoBackupDone' \in BOOLEAN /\ bak' = bak
    BY <1>2, Zenon DEF LoadBlockIndexDB, OneOffActions, TypeOK, files, ActivationBackup, BackupAtFork,
                LoadTrigger
  <2>5. /\ phase' \in {"down", "importing"} /\ args' = args /\ backupArg' = backupArg
        /\ tip' = disk /\ disk' = disk /\ thrown' = thrown
        /\ FinalForkId' = FinalForkId /\ fRequestShutdown' = fRequestShutdown
        /\ wasMVFHardForkPreviouslyActivated' = wasMVFHardForkPreviouslyActivated
    BY <1>2 DEF LoadBlockIndexDB, AfterLoad, settings
  <2> QED BY <2>3, <2>4, <2>5 DEF TypeOK
<1>3. CASE Reindex
  <2>1. disk' \in Chain
    BY <1>3, NoChainType DEF Reindex, TypeOK, Chain
  <2> QED BY <1>3, <2>1 DEF Reindex, AfterLoad, TypeOK, settings, fork, files
<1>4. CASE AppInit2
  BY <1>4 DEF AppInit2, TypeOK, settings, files
<1>5. CASE FlushStateToDisk
  BY <1>5 DEF FlushStateToDisk, TypeOK, settings, fork, files
<1> QED BY <1>1, <1>2, <1>3, <1>4, <1>5

\* The steps of a dying process keep the types.
LEMMA DieType ==
  ASSUME TypeOK,
         \/ Shutdown
         \/ Crash
         \/ DieInLoadBlockIndexDB
         \/ \E t \in Chain, r \in BackupResults, flush \in BOOLEAN :
               t.height \in Heights /\ DieInUpdateTip(t, r, flush)
  PROVE  TypeOK'
<1>1. conf \in ConfType /\ bak \in BakType
  BY DEF TypeOK, BakType
<1>2. CASE Shutdown
  BY <1>1, <1>2, ExitType DEF Shutdown, TypeOK, files
<1>3. CASE Crash
  BY <1>1, <1>3, ExitType DEF Crash, TypeOK, files
<1>4. CASE DieInLoadBlockIndexDB
  BY <1>1, <1>4, ExitType, NewConfType DEF DieInLoadBlockIndexDB, TypeOK
<1>5. ASSUME NEW t \in Chain, NEW r \in BackupResults, NEW flush \in BOOLEAN,
             t.height \in Heights, DieInUpdateTip(t, r, flush)
      PROVE  TypeOK'
  <2>1. disk' \in Chain
    BY <1>5 DEF DieInUpdateTip, TypeOK
  <2>2. conf' \in ConfType /\ bak' \in BakType
    BY <1>5, FilesType DEF DieInUpdateTip
  <2> QED BY <1>5, <2>1, <2>2, ExitType DEF DieInUpdateTip
<1> QED BY <1>2, <1>3, <1>4, <1>5

\* Every step is one of: start-up and flushing, UpdateTip with the chain one
\* block higher or lower, and the end of the process.
LEMMA StepCases ==
  ASSUME TypeOK, Next
  PROVE  \/ \E a \in Args : ForkSetup(a)
         \/ LoadBlockIndexDB
         \/ Reindex
         \/ AppInit2
         \/ FlushStateToDisk
         \/ \E b \in Branches, r \in BackupResults, flush \in BOOLEAN : ConnectTip(b, r, flush)
         \/ \E r \in BackupResults, flush \in BOOLEAN : DisconnectTip(r, flush)
         \/ Shutdown
         \/ Crash
         \/ DieInLoadBlockIndexDB
         \/ \E t \in Chain, r \in BackupResults, flush \in BOOLEAN :
               /\ t.height \in Heights
               /\ \/ \E b \in Branches : Extends(b) /\ t = Connected(b)
                  \/ AllowReorg /\ tip.height >= 1 /\ t = Disconnected
               /\ DieInUpdateTip(t, r, flush)
<1>1. ASSUME NEW b \in Branches, NEW r \in BackupResults, NEW flush \in BOOLEAN,
             DieInConnectTip(b, r, flush)
      PROVE  /\ Connected(b) \in Chain /\ Connected(b).height \in Heights /\ Extends(b)
             /\ DieInUpdateTip(Connected(b), r, flush)
  BY <1>1, ConnectedType DEF DieInConnectTip
<1>2. ASSUME NEW r \in BackupResults, NEW flush \in BOOLEAN, DieInDisconnectTip(r, flush)
      PROVE  /\ Disconnected \in Chain /\ Disconnected.height \in Heights
             /\ AllowReorg /\ tip.height >= 1
             /\ DieInUpdateTip(Disconnected, r, flush)
  BY <1>2, DisconnectedType DEF DieInDisconnectTip
<1> QED BY <1>1, <1>2, Zenon DEF Next

\* The state of an upgraded data directory is well typed.
LEMMA InitType == Init => TypeOK
<1> SUFFICES ASSUME Init PROVE TypeOK
  OBVIOUS
<1>1. disk \in Chain
  BY ForkAssumption DEF Init, OldChain, Chain, Heights
<1>2. tip \in Chain
  BY <1>1, NoChainType DEF Init, Chain
<1>3. conf \in ConfType
  BY NewConfType DEF Init
<1>4. bak \in BakType
  BY DEF Init, BakType
<1>5. /\ backupArg \in Int /\ FinalActivateForkHeight \in Nat /\ FinalForkId \in Nat
  BY DEF Init, NoVal
<1> QED BY <1>1, <1>2, <1>3, <1>4, <1>5, Zenon DEF Init, TypeOK, BakType

\* Type correctness of the fork's globals, chain and files: MVFFork's TypeOK is
\* inductive as it stands.
THEOREM TypeCorrect == Spec => []TypeOK
<1>1. Init => TypeOK
  BY InitType
<1>2. TypeOK /\ [Next]_vars => TypeOK'
  <2> SUFFICES ASSUME TypeOK, [Next]_vars PROVE TypeOK'
    OBVIOUS
  <2>1. ASSUME NEW b \in Branches, NEW r \in BackupResults, NEW flush \in BOOLEAN,
               ConnectTip(b, r, flush)
        PROVE  TypeOK'
    BY <2>1, ConnectedType, UpdateTipType DEF ConnectTip, TypeOK
  <2>2. ASSUME NEW r \in BackupResults, NEW flush \in BOOLEAN, DisconnectTip(r, flush)
        PROVE  TypeOK'
    BY <2>2, DisconnectedType, UpdateTipType DEF DisconnectTip, TypeOK
  <2>3. CASE UNCHANGED vars
    BY <2>3 DEF vars, TypeOK, settings, fork, files
  <2> QED BY <2>1, <2>2, <2>3, StepCases, StartType, DieType
<1> QED BY <1>1, <1>2, PTL DEF Spec
-----------------------------------------------------------------------------
(***************************************************************************)
(* The strict height test.  Besides the property, the invariant says that  *)
(* there is no tip before the block index is loaded, so that a reindex,    *)
(* which loads nothing, starts below every fork height.                    *)
(***************************************************************************)
TriggerInv ==
    /\ TypeOK
    /\ phase = "setup" => tip.height = -1 /\ ~isMVFHardForkActive
    /\ StrictTriggerSuffices

\* UpdateTip with a chain one block higher or lower keeps the strict test exact.
LEMMA UpdateTipTrigger ==
  ASSUME TriggerInv, Live, NEW t \in Chain, NEW r \in BackupResults, UpdateTip(t, r),
         \/ t.height = tip.height + 1
         \/ t.height = tip.height - 1
  PROVE  StrictTriggerSuffices'
<1> SUFFICES ASSUME thrown' # "now", t.height >= FinalActivateForkHeight'
             PROVE  isMVFHardForkActive'
  BY DEF StrictTriggerSuffices, UpdateTip
<1>1. thrown # "now" /\ ~Throws(t, r)
  BY DEF UpdateTip
<1>2. CASE Trigger(t) /\ OneOff
  BY <1>1, <1>2, Zenon DEF UpdateTip, OneOffActions, Throws
<1>3. CASE ~(Trigger(t) /\ OneOff)
  <2>1. /\ isMVFHardForkActive' = (isMVFHardForkActive \/ Trigger(t))
        /\ FinalActivateForkHeight' = FinalActivateForkHeight
    BY <1>3, Zenon DEF UpdateTip
  <2>2. CASE tip.height >= FinalActivateForkHeight
    BY <1>1, <2>1, <2>2, Zenon DEF TriggerInv, StrictTriggerSuffices
  <2>3. CASE tip.height < FinalActivateForkHeight
    <3>1. t.height = FinalActivateForkHeight
      BY <2>1, <2>3 DEF TriggerInv, TypeOK, Chain
    <3> QED BY <2>1, <3>1, Zenon DEF Trigger
  <2> QED BY <2>2, <2>3 DEF TriggerInv, TypeOK, Chain
<1> QED BY <1>2, <1>3

\* Every step keeps the strict test exact.
LEMMA TriggerInvStep ==
  ASSUME TriggerInv, [Next]_vars, TypeOK'
  PROVE  TriggerInv'
<1>1. ASSUME NEW a \in Args, ForkSetup(a) PROVE TriggerInv'
  BY <1>1, NoChainType DEF ForkSetup, TriggerInv, TypeOK, Chain, StrictTriggerSuffices, Live
<1>2. CASE LoadBlockIndexDB
  <2>1. phase' # "setup"
    BY <1>2 DEF LoadBlockIndexDB, AfterLoad
  <2>2. ASSUME tip'.height >= FinalActivateForkHeight' PROVE isMVFHardForkActive'
    <3>1. CASE LoadTrigger /\ OneOff
      BY <1>2, <3>1, Zenon DEF LoadBlockIndexDB, OneOffActions, ActivationThrows, BackupAtFork
    <3>2. CASE ~(LoadTrigger /\ OneOff)
      BY <1>2, <2>2, <3>2, Zenon DEF LoadBlockIndexDB, LoadTrigger
    <3> QED BY <3>1, <3>2
  <2> QED BY <2>1, <2>2 DEF TriggerInv, StrictTriggerSuffices
<1>3. CASE Reindex
  <2>1. tip'.height < FinalActivateForkHeight'
    BY <1>3 DEF Reindex, TriggerInv, TypeOK, fork
  <2> QED BY <1>3, <2>1 DEF Reindex, AfterLoad, TriggerInv, TypeOK, Chain, StrictTriggerSuffices
<1>4. CASE AppInit2
  BY <1>4 DEF AppInit2, TriggerInv, StrictTriggerSuffices, Live, TypeOK
<1>5. CASE FlushStateToDisk
  BY <1>5 DEF FlushStateToDisk, TriggerInv, StrictTriggerSuffices, Live, fork
<1>6. ASSUME NEW b \in Branches, NEW r \in BackupResults, NEW flush \in BOOLEAN,
             ConnectTip(b, r, flush)
      PROVE  TriggerInv'
  <2>1. StrictTriggerSuffices'
    BY <1>6, ConnectedType, UpdateTipTrigger DEF ConnectTip, TriggerInv
  <2>2. phase' # "setup"
    BY <1>6 DEF ConnectTip, UpdateTip, Live
  <2> QED BY <2>1, <2>2 DEF TriggerInv
<1>7. ASSUME NEW r \in BackupResults, NEW flush \in BOOLEAN, DisconnectTip(r, flush)
      PROVE  TriggerInv'
  <2>1. StrictTriggerSuffices'
    BY <1>7, DisconnectedType, UpdateTipTrigger DEF DisconnectTip, TriggerInv
  <2>2. phase' # "setup"
    BY <1>7 DEF DisconnectTip, UpdateTip, Live
  <2> QED BY <2>1, <2>2 DEF TriggerInv
<1>8. CASE Exit
  BY <1>8 DEF Exit, TriggerInv, StrictTriggerSuffices, Live
<1>9. CASE UNCHANGED vars
  BY <1>9 DEF vars, TriggerInv, StrictTriggerSuffices, Live, fork
<1>10. Next => \/ \E a \in Args : ForkSetup(a)
               \/ LoadBlockIndexDB \/ Reindex \/ AppInit2 \/ FlushStateToDisk \/ Exit
               \/ \E b \in Branches, r \in BackupResults, flush \in BOOLEAN : ConnectTip(b, r, flush)
               \/ \E r \in BackupResults, flush \in BOOLEAN : DisconnectTip(r, flush)
  BY Zenon DEF Next, Shutdown, Crash, DieInConnectTip, DieInDisconnectTip, DieInUpdateTip,
               DieInLoadBlockIndexDB
<1> QED BY <1>1, <1>2, <1>3, <1>4, <1>5, <1>6, <1>7, <1>8, <1>9, <1>10

\* The strict equality of UpdateTip's trigger is enough, for every command line,
\* SegWit height, reorg, crash and backup failure: the answer to main.cpp's TODO.
THEOREM StrictTriggerCorrect == Spec => []StrictTriggerSuffices
<1>1. Init => TriggerInv
  BY InitType DEF Init, TriggerInv, StrictTriggerSuffices, Live
<1>2. TriggerInv /\ TypeOK' /\ [Next]_vars => TriggerInv'
  BY TriggerInvStep
<1>3. TriggerInv => StrictTriggerSuffices
  BY DEF TriggerInv
<1> QED BY <1>1, <1>2, <1>3, TypeCorrect, PTL DEF Spec
-----------------------------------------------------------------------------
(***************************************************************************)
(* The marker file.  A complete btcfork.conf in the data directory of a    *)
(* running process was read by ForkSetup or written by its ActivateFork:   *)
(* either way the memory agrees with it and the one-off actions are over.  *)
(***************************************************************************)
MarkerInv ==
    /\ TypeOK
    /\ Complete(conf) => conf.forkheight \in Nat /\ conf.forkid \in Nat
    /\ MarkerMatchesMemory
    /\ phase # "down" /\ Complete(conf) => ~OneOff
    /\ phase = "setup" =>
          ~isMVFHardForkActive /\ wasMVFHardForkPreviouslyActivated = conf.exists
    /\ phase # "down" /\ (isMVFHardForkActive \/ wasMVFHardForkPreviouslyActivated) => conf.exists

\* ActivateFork's file records the height and id it activates with, and is
\* complete only when ActivateFork returns.
LEMMA ActivationConfFacts ==
  ASSUME TypeOK, NEW h \in Nat, NEW doBackup, NEW r
  PROVE  /\ ActivationConf(h, doBackup, r).exists
         /\ ActivationConf(h, doBackup, r).forkheight = h
         /\ ActivationConf(h, doBackup, r).forkid = FinalForkId
         /\ Complete(ActivationConf(h, doBackup, r)) => ~ActivationThrows(h, doBackup, r)
<1>1. CASE ActivationThrows(h, doBackup, r)
  <2>1. ActivationConf(h, doBackup, r) = ClosedConf(h, BackupSignal(h, r) = "exception", NoVal)
    BY <1>1 DEF ActivationConf
  <2> QED BY <1>1, <2>1 DEF ClosedConf, Complete
<1>2. CASE ~ActivationThrows(h, doBackup, r)
  <2> DEFINE b == IF BackupAtFork(doBackup) THEN h ELSE BackupBlock(h)
  <2>1. ActivationConf(h, doBackup, r) = ClosedConf(h, TRUE, b)
    BY <1>2 DEF ActivationConf
  <2> HIDE DEF b
  <2> QED BY <1>2, <2>1 DEF ClosedConf
<1> QED BY <1>1, <1>2

\* The height and the id it records, with the backup and without.
LEMMA ActivationHeight ==
  ASSUME TypeOK, NEW h \in Nat, NEW r
  PROVE  /\ ActivationConf(h, TRUE, r).forkheight = h
         /\ ActivationConf(h, TRUE, r).forkid = FinalForkId
         /\ ActivationConf(h, FALSE, r).forkheight = h
<1>1. ActivationConf(h, TRUE, r).forkheight = h
  BY ActivationConfFacts, Zenon
<1>2. ActivationConf(h, TRUE, r).forkid = FinalForkId
  BY DEF ActivationConf, ClosedConf
<1>3. ActivationConf(h, FALSE, r).forkheight = h
  BY ActivationConfFacts, Zenon
<1> QED BY <1>1, <1>2, <1>3, Zenon

\* The heights of the two chains are integers.
LEMMA ChainHeights ==
  ASSUME TypeOK
  PROVE  tip.height \in Int /\ disk.height \in Int /\ FinalActivateForkHeight \in Int
<1>1. \A c \in Chain : c.height \in Int
  BY DEF Chain
<1> QED BY <1>1 DEF TypeOK

\* Block heights are natural numbers.
LEMMA HeightsNat == Heights \subseteq Nat
  BY ForkAssumption DEF Heights

\* Neither a missing nor an empty btcfork.conf is complete.
LEMMA NewConfIncomplete == ~Complete(NoConf) /\ ~Complete(EmptyConf)
  BY DEF Complete, NoConf, EmptyConf

\* ActivateFork's one-off actions establish the marker invariant.
LEMMA OneOffMarker ==
  ASSUME TypeOK, TypeOK', NEW h \in Nat, NEW doBackup \in BOOLEAN, NEW r,
         OneOffActions(h, doBackup, r), phase' # "setup", FinalForkId' = FinalForkId
  PROVE  MarkerInv'
<1> DEFINE c == ActivationConf(h, doBackup, r)
<1>8. /\ c.exists /\ c.forkheight = h /\ c.forkid = FinalForkId
      /\ Complete(c) => ~ActivationThrows(h, doBackup, r)
  BY ActivationConfFacts
<1>9. conf' = c /\ isMVFHardForkActive' = ~ActivationThrows(h, doBackup, r)
  BY DEF OneOffActions
<1> HIDE DEF c
<1>1. /\ conf'.exists /\ conf'.forkheight = h /\ conf'.forkid = FinalForkId
      /\ Complete(conf') => isMVFHardForkActive'
  BY <1>8, <1>9, Zenon DEF Complete
<1>2. FinalActivateForkHeight' = h
  BY DEF OneOffActions
<1>3. FinalForkId \in Nat
  BY DEF TypeOK
<1> QED BY <1>1, <1>2, <1>3, Zenon DEF MarkerInv, MarkerMatchesMemory, OneOff, Complete

\* UpdateTip keeps the marker invariant.
LEMMA UpdateTipMarker ==
  ASSUME MarkerInv, TypeOK', Live, NEW t \in Chain, t.height \in Heights, NEW r,
         UpdateTip(t, r)
  PROVE  MarkerInv'
<1>1. phase' = phase /\ phase \notin {"setup", "down"}
  BY DEF UpdateTip, Live
<1>2. CASE Trigger(t) /\ OneOff
  <2>1. t.height \in Nat
    BY ForkAssumption DEF Heights
  <2> QED BY <1>1, <1>2, <2>1, OneOffMarker, Zenon DEF UpdateTip, MarkerInv, settings
<1>3. CASE ~(Trigger(t) /\ OneOff)
  <2>1. /\ conf' = conf /\ FinalActivateForkHeight' = FinalActivateForkHeight
        /\ FinalForkId' = FinalForkId
        /\ wasMVFHardForkPreviouslyActivated' = wasMVFHardForkPreviouslyActivated
        /\ isMVFHardForkActive' = (isMVFHardForkActive \/ Trigger(t))
    BY <1>3, Zenon DEF UpdateTip, settings
  <2>2. isMVFHardForkActive' \/ wasMVFHardForkPreviouslyActivated' => conf'.exists
    BY <1>1, <1>3, <2>1, Zenon DEF MarkerInv, OneOff, Trigger
  <2> QED BY <1>1, <2>1, <2>2, Zenon DEF MarkerInv, MarkerMatchesMemory, OneOff, Complete
<1> QED BY <1>2, <1>3

\* What the files of a dying process may hold.
LEMMA FilesMarker ==
  ASSUME TypeOK, NEW t \in Chain, t.height \in Heights, NEW r, NEW f \in FilesInUpdateTip(t, r)
  PROVE  \/ f.conf = conf
         \/ /\ Trigger(t) /\ OneOff
            /\ ~Complete(f.conf) \/ f.conf = ActivationConf(t.height, TRUE, r)
<1>1. CASE Trigger(t) /\ OneOff
  <2> DEFINE copied == ActivationBackup(t.height, TRUE, r)
  <2>1. f \in {Files(conf, bak), Files(NoConf, bak), Files(EmptyConf, bak),
               Files(EmptyConf, copied), Files(ActivationConf(t.height, TRUE, r), copied)}
    BY <1>1, Zenon DEF FilesInUpdateTip
  <2>2. PICK c \in {conf, NoConf, EmptyConf, ActivationConf(t.height, TRUE, r)},
             b \in {bak, copied} : f = Files(c, b)
    BY <2>1, Zenon
  <2>3. f.conf = c
    BY <2>2 DEF Files
  <2>4. c = conf \/ ~Complete(c) \/ c = ActivationConf(t.height, TRUE, r)
    BY NewConfIncomplete, Zenon
  <2> QED BY <1>1, <2>3, <2>4, Zenon
<1>2. CASE ~(Trigger(t) /\ OneOff)
  <2> DEFINE stored == IF AtBackupBlock(t.height) THEN BackupWalletAuto(t.height, r) ELSE bak
  <2>1. f \in {Files(conf, bak), Files(conf, stored)}
    BY <1>2, Zenon DEF FilesInUpdateTip
  <2> HIDE DEF stored
  <2>2. PICK b \in {bak, stored} : f = Files(conf, b)
    BY <2>1
  <2> QED BY <2>2 DEF Files
<1> QED BY <1>1, <1>2, Zenon

\* A process that ends keeps the marker invariant when the file it leaves is the
\* old one, an incomplete one or the one ActivateFork writes.
LEMMA ExitMarker ==
  ASSUME MarkerInv, TypeOK', Exit,
         Complete(conf') => \/ conf' = conf
                            \/ conf'.forkheight \in Nat /\ conf'.forkid \in Nat
  PROVE  MarkerInv'
  BY DEF MarkerInv, MarkerMatchesMemory, Exit, Complete
\* Every step keeps the marker invariant.
LEMMA MarkerInvStep ==
  ASSUME MarkerInv, [Next]_vars, TypeOK'
  PROVE  MarkerInv'
<1>0. TypeOK
  BY DEF MarkerInv
<1>1. ASSUME NEW a \in Args, ForkSetup(a) PROVE MarkerInv'
  <2>1. /\ conf' = conf /\ phase' = "setup" /\ ~isMVFHardForkActive'
        /\ wasMVFHardForkPreviouslyActivated' = conf.exists
    BY <1>1, Zenon DEF ForkSetup, files
  <2>2. ASSUME Complete(conf)
        PROVE  /\ FinalActivateForkHeight' = conf.forkheight /\ FinalForkId' = conf.forkid
               /\ conf.exists
    BY <1>1, <2>2 DEF ForkSetup, FromConf, Complete, MarkerInv, NoVal
  <2> QED BY <2>1, <2>2 DEF MarkerInv, MarkerMatchesMemory, OneOff, Complete
<1>2. CASE LoadBlockIndexDB
  <2>1. FinalForkId' = FinalForkId /\ phase' # "setup"
    BY <1>2 DEF LoadBlockIndexDB, AfterLoad, settings
  <2>2. CASE LoadTrigger /\ OneOff
    <3>1. disk.height \in Nat
      BY <1>0, <2>2, ForkAssumption DEF LoadTrigger, SegwitActive, TypeOK, Chain
    <3>2. OneOffActions(disk.height, FALSE, "ok")
      BY <1>2, <2>2, Zenon DEF LoadBlockIndexDB
    <3> QED BY <1>0, <2>1, <3>1, <3>2, OneOffMarker, Zenon
  <2>3. CASE ~(LoadTrigger /\ OneOff)
    <3>1. /\ conf' = conf /\ FinalActivateForkHeight' = FinalActivateForkHeight
          /\ wasMVFHardForkPreviouslyActivated' = wasMVFHardForkPreviouslyActivated
          /\ isMVFHardForkActive' = LoadTrigger /\ phase = "setup"
      BY <1>2, <2>3, Zenon DEF LoadBlockIndexDB, settings, files
    <3> QED BY <2>1, <2>3, <3>1 DEF MarkerInv, MarkerMatchesMemory, OneOff, Complete
  <2> QED BY <2>2, <2>3
<1>3. CASE Reindex
  BY <1>3 DEF Reindex, AfterLoad, MarkerInv, MarkerMatchesMemory, OneOff, Complete, settings,
              fork, files
<1>4. CASE AppInit2
  BY <1>4 DEF AppInit2, MarkerInv, MarkerMatchesMemory, OneOff, Complete, settings, files
<1>5. CASE FlushStateToDisk
  BY <1>5 DEF FlushStateToDisk, MarkerInv, MarkerMatchesMemory, OneOff, Complete, settings,
              fork, files
<1>6. ASSUME NEW b \in Branches, NEW r \in BackupResults, NEW flush \in BOOLEAN,
             ConnectTip(b, r, flush)
      PROVE  MarkerInv'
  BY <1>0, <1>6, ConnectedType, UpdateTipMarker DEF ConnectTip
<1>7. ASSUME NEW r \in BackupResults, NEW flush \in BOOLEAN, DisconnectTip(r, flush)
      PROVE  MarkerInv'
  BY <1>0, <1>7, DisconnectedType, UpdateTipMarker DEF DisconnectTip
<1>8. CASE Shutdown
  BY <1>8, ExitMarker DEF Shutdown, files
<1>9. CASE Crash
  BY <1>9, ExitMarker DEF Crash, files
<1>10. CASE DieInLoadBlockIndexDB
  <2>1. ~Complete(conf')
    BY <1>10, NewConfIncomplete DEF DieInLoadBlockIndexDB, Complete
  <2> QED BY <1>10, <2>1, ExitMarker DEF DieInLoadBlockIndexDB
<1>11. ASSUME NEW t \in Chain, NEW r \in BackupResults, NEW flush \in BOOLEAN,
              t.height \in Heights, DieInUpdateTip(t, r, flush)
       PROVE  MarkerInv'
  <2>1. PICK f \in FilesInUpdateTip(t, r) : conf' = f.conf
    BY <1>11 DEF DieInUpdateTip
  <2>2. t.height \in Nat /\ FinalForkId \in Nat
    BY <1>0, <1>11, ForkAssumption DEF Heights, TypeOK
  <2> DEFINE c == ActivationConf(t.height, TRUE, r)
  <2>3. c.forkheight = t.height /\ c.forkid = FinalForkId
    BY <1>0, <2>2, ActivationHeight, Zenon
  <2>4. f.conf = conf \/ ~Complete(f.conf) \/ f.conf = c
    BY <1>0, <1>11, FilesMarker, Zenon
  <2> HIDE DEF c
  <2>5. CASE f.conf = c
    BY <1>11, <2>1, <2>2, <2>3, <2>5, ExitMarker DEF DieInUpdateTip
  <2>6. CASE f.conf = conf \/ ~Complete(f.conf)
    BY <1>11, <2>1, <2>6, ExitMarker DEF DieInUpdateTip, Complete
  <2> QED BY <2>4, <2>5, <2>6
<1>12. CASE UNCHANGED vars
  BY <1>12 DEF vars, MarkerInv, MarkerMatchesMemory, OneOff, Complete, settings, fork, files
<1> QED BY <1>0, <1>1, <1>2, <1>3, <1>4, <1>5, <1>6, <1>7, <1>8, <1>9, <1>10, <1>11, <1>12,
           StepCases

\* MarkerInv holds initially: an upgraded data directory has no marker.
LEMMA MarkerInvInit == Init => MarkerInv
<1> SUFFICES ASSUME Init PROVE MarkerInv
  OBVIOUS
<1>1. TypeOK
  BY InitType
<1>2. ~Complete(conf) /\ phase = "down"
  BY NewConfIncomplete DEF Init
<1> QED BY <1>1, <1>2 DEF MarkerInv, MarkerMatchesMemory

\* A complete btcfork.conf is the authority for the fork height and the fork id
\* in memory, whatever the command line of a later start says.
THEOREM MarkerCorrect == Spec => []MarkerMatchesMemory
<1>1. MarkerInv => MarkerMatchesMemory
  BY DEF MarkerInv
<1>2. MarkerInv /\ TypeOK' /\ [Next]_vars => MarkerInv'
  BY MarkerInvStep
<1> QED BY <1>1, <1>2, MarkerInvInit, TypeCorrect, PTL DEF Spec

\* A node with the new rules active has left btcfork.conf behind.
THEOREM ActiveLeavesMarkerCorrect == Spec => []ActiveLeavesMarker
<1>1. MarkerInv => ActiveLeavesMarker
  BY DEF MarkerInv, ActiveLeavesMarker
<1>2. MarkerInv /\ TypeOK' /\ [Next]_vars => MarkerInv'
  BY MarkerInvStep
<1> QED BY <1>1, <1>2, MarkerInvInit, TypeCorrect, PTL DEF Spec

\* With the marker invariant, no step changes a complete btcfork.conf.
LEMMA MarkerStep ==
  ASSUME MarkerInv, [Next]_vars, Complete(conf)
  PROVE  conf' = conf
<1>1. TypeOK /\ (phase # "down" => ~OneOff)
  BY DEF MarkerInv
<1>2. ASSUME NEW t \in Chain, NEW r, UpdateTip(t, r), Live PROVE conf' = conf
  BY <1>1, <1>2, Zenon DEF UpdateTip, Live
<1>3. CASE \E b \in Branches, r \in BackupResults, flush \in BOOLEAN : ConnectTip(b, r, flush)
  BY <1>1, <1>2, <1>3, ConnectedType DEF ConnectTip
<1>4. CASE \E r \in BackupResults, flush \in BOOLEAN : DisconnectTip(r, flush)
  BY <1>1, <1>2, <1>4, DisconnectedType DEF DisconnectTip
<1>5. CASE LoadBlockIndexDB
  BY <1>1, <1>5 DEF LoadBlockIndexDB, files
<1>6. CASE DieInLoadBlockIndexDB
  BY <1>1, <1>6 DEF DieInLoadBlockIndexDB
<1>7. ASSUME NEW t \in Chain, NEW r \in BackupResults, NEW flush \in BOOLEAN,
             t.height \in Heights, DieInUpdateTip(t, r, flush)
      PROVE  conf' = conf
  BY <1>1, <1>7, FilesMarker, Zenon DEF DieInUpdateTip, Live
<1>8. CASE (\E a \in Args : ForkSetup(a)) \/ Reindex \/ AppInit2 \/ FlushStateToDisk
             \/ Shutdown \/ Crash \/ UNCHANGED vars
  BY <1>8, Zenon DEF ForkSetup, Reindex, AppInit2, FlushStateToDisk, Shutdown, Crash, vars, files
<1> QED BY <1>1, <1>3, <1>4, <1>5, <1>6, <1>7, <1>8, StepCases

\* No step ever rewrites a complete btcfork.conf: ActivateFork's one-off actions
\* happen once in the life of a data directory.
THEOREM MarkerWrittenOnceCorrect == Spec => MarkerWrittenOnce
<1>1. MarkerInv /\ [Next]_vars => [Complete(conf) => conf' = conf]_vars
  BY MarkerStep
<1>2. MarkerInv /\ TypeOK' /\ [Next]_vars => MarkerInv'
  BY MarkerInvStep
<1> QED BY <1>1, <1>2, MarkerInvInit, TypeCorrect, PTL DEF Spec, MarkerWrittenOnce
-----------------------------------------------------------------------------
(***************************************************************************)
(* The new rules above the fork height.  The chain on disk, from which a   *)
(* later process starts, must have them above the height the marker        *)
(* records; and while the one-off actions are still to come the chain on   *)
(* disk is below the height at which they can come.                        *)
(***************************************************************************)
RulesFrom(c, n) == \A h \in Heights : n < h /\ h <= c.height => c.rules[h]

RulesInv ==
    /\ TriggerInv
    /\ MarkerInv
    /\ NewRulesAboveFork
    /\ thrown = "no" /\ Complete(conf) => RulesFrom(disk, conf.forkheight)
    /\ Live /\ OneOff /\ thrown = "no" =>
          disk.height < FinalActivateForkHeight /\ (AllowReorg \/ disk.height <= tip.height)

\* The chain after a block has been connected or disconnected: its rules, and
\* where it is when UpdateTip triggers or does not.
LEMMA NextChain ==
  ASSUME RulesInv, QuietFork, Live, thrown = "no", NEW t \in Chain,
         \/ \E b \in Branches : Extends(b) /\ t = Connected(b)
         \/ AllowReorg /\ tip.height >= 1 /\ t = Disconnected
  PROVE  /\ Complete(conf) => RulesFrom(t, FinalActivateForkHeight)
         /\ Trigger(t) /\ OneOff => disk.height < t.height
         /\ ~isMVFHardForkActive /\ ~Trigger(t) => t.height < FinalActivateForkHeight
<1>0. TypeOK /\ tip.height \in Int /\ disk.height \in Int /\ FinalActivateForkHeight \in Int
  BY ChainHeights DEF RulesInv, TriggerInv
<1>1. ~isMVFHardForkActive => tip.height < FinalActivateForkHeight
  BY <1>0 DEF RulesInv, TriggerInv, StrictTriggerSuffices
<1>2. Complete(conf) => RulesFrom(tip, FinalActivateForkHeight)
  BY DEF RulesInv, NewRulesAboveFork, RulesFrom
<1>3. OneOff => disk.height < FinalActivateForkHeight /\ (AllowReorg \/ disk.height <= tip.height)
  BY DEF RulesInv
<1>4. AllowReorg /\ Trigger(t) => t.height = FinalActivateForkHeight
  BY <1>0 DEF QuietFork, Trigger, TypeOK
<1>5. ASSUME NEW b \in Branches, Extends(b), t = Connected(b)
      PROVE  /\ Complete(conf) => RulesFrom(t, FinalActivateForkHeight)
             /\ Trigger(t) /\ OneOff => disk.height < t.height
             /\ ~isMVFHardForkActive /\ ~Trigger(t) => t.height < FinalActivateForkHeight
  <2>1. t.height = tip.height + 1 /\ t.height \in Heights
    BY <1>0, <1>5, ConnectedType
  <2>2. \A h \in Heights : h # t.height => t.rules[h] = tip.rules[h]
    BY <1>0, <1>5, <2>1 DEF Connected, TypeOK, Chain
  <2>3. t.rules[t.height] = isMVFHardForkActive
    BY <1>0, <1>5, <2>1 DEF Connected, TypeOK, Chain
  <2>4. Complete(conf) => RulesFrom(t, FinalActivateForkHeight)
    <3> SUFFICES ASSUME Complete(conf), NEW h \in Heights,
                        FinalActivateForkHeight < h, h <= t.height
                 PROVE  t.rules[h]
      BY DEF RulesFrom
    <3>1. CASE h = t.height
      BY <1>0, <1>1, <2>1, <2>3, <3>1 DEF TypeOK
    <3>2. CASE h # t.height
      BY <1>0, <1>2, <2>1, <2>2, <3>2 DEF RulesFrom, Heights
    <3> QED BY <3>1, <3>2, Zenon
  <2>5. Trigger(t) /\ OneOff => disk.height < t.height
    BY <1>0, <1>3, <1>4, <2>1
  <2>6. ~isMVFHardForkActive /\ ~Trigger(t) => t.height < FinalActivateForkHeight
    BY <1>0, <1>1, <2>1 DEF Trigger
  <2> QED BY <2>4, <2>5, <2>6
<1>6. ASSUME AllowReorg, tip.height >= 1, t = Disconnected
      PROVE  /\ Complete(conf) => RulesFrom(t, FinalActivateForkHeight)
             /\ Trigger(t) /\ OneOff => disk.height < t.height
             /\ ~isMVFHardForkActive /\ ~Trigger(t) => t.height < FinalActivateForkHeight
  <2>1. t.height = tip.height - 1
    BY <1>0, <1>6, DisconnectedType
  <2>2. \A h \in Heights : h # tip.height => t.rules[h] = tip.rules[h]
    BY <1>0, <1>6 DEF Disconnected, TypeOK, Chain
  <2>3. Complete(conf) => RulesFrom(t, FinalActivateForkHeight)
    BY <1>0, <1>2, <2>1, <2>2 DEF RulesFrom, Heights
  <2>4. ~(Trigger(t) /\ OneOff)
    BY <1>0, <1>1, <1>4, <1>6, <2>1 DEF OneOff
  <2>5. ~isMVFHardForkActive => t.height < FinalActivateForkHeight
    BY <1>0, <1>1, <2>1
  <2> QED BY <2>3, <2>4, <2>5
<1> QED BY <1>5, <1>6

\* UpdateTip, with the coin database flushed or not, keeps the invariant.
LEMMA UpdateTipRules ==
  ASSUME RulesInv, QuietFork, TriggerInv', MarkerInv', Live, NEW t \in Chain, t.height \in Heights,
         \/ \E b \in Branches : Extends(b) /\ t = Connected(b)
         \/ AllowReorg /\ tip.height >= 1 /\ t = Disconnected,
         ~AllowReorg => t.height = tip.height + 1,
         NEW r, UpdateTip(t, r), disk' = t \/ disk' = disk
  PROVE  RulesInv'
<1>0. TypeOK /\ t.height \in Nat /\ disk.height \in Int /\ tip.height \in Int
  BY ChainHeights, HeightsNat, Zenon DEF RulesInv, TriggerInv
<1>1. CASE thrown' # "no"
  BY <1>1, Zenon DEF RulesInv, NewRulesAboveFork
<1>2. CASE thrown' = "no"
  <2>1. thrown = "no" /\ ~Throws(t, r) /\ tip' = t /\ phase' = phase
        /\ wasMVFHardForkPreviouslyActivated' = wasMVFHardForkPreviouslyActivated
    BY <1>2 DEF UpdateTip, settings
  <2>2. /\ Complete(conf) => RulesFrom(t, FinalActivateForkHeight)
        /\ Trigger(t) /\ OneOff => disk.height < t.height
        /\ ~isMVFHardForkActive /\ ~Trigger(t) => t.height < FinalActivateForkHeight
    BY <2>1, NextChain
  <2>3. CASE Trigger(t) /\ OneOff
    <3>1. /\ FinalActivateForkHeight' = t.height /\ isMVFHardForkActive'
          /\ conf' = ActivationConf(t.height, TRUE, r)
      BY <2>1, <2>3, Zenon DEF UpdateTip, OneOffActions, Throws
    <3>2. conf'.forkheight = t.height
      BY <1>0, <3>1, ActivationHeight, Zenon
    <3>3. disk'.height <= t.height
      BY <1>0, <2>2, <2>3
    <3>4. RulesFrom(tip', FinalActivateForkHeight')
      <4>1. \A h \in Heights : ~(t.height < h /\ h <= t.height)
        BY <1>0, HeightsNat
      <4> QED BY <2>1, <3>1, <4>1, Zenon DEF RulesFrom
    <3>5. RulesFrom(disk', conf'.forkheight)
      <4> SUFFICES ASSUME NEW h \in Heights, t.height < h, h <= disk'.height
                   PROVE  disk'.rules[h]
        BY <3>2 DEF RulesFrom
      <4>1. h \in Int /\ disk'.height \in Int
        BY <1>0, HeightsNat
      <4> QED BY <1>0, <3>3, <4>1
    <3> QED BY <3>1, <3>4, <3>5, Zenon DEF RulesInv, NewRulesAboveFork, RulesFrom, OneOff
  <2>4. CASE ~(Trigger(t) /\ OneOff)
    <3>1. /\ FinalActivateForkHeight' = FinalActivateForkHeight /\ conf' = conf
          /\ isMVFHardForkActive' = (isMVFHardForkActive \/ Trigger(t))
      BY <2>4, Zenon DEF UpdateTip
    <3>2. Complete(conf) => conf.forkheight = FinalActivateForkHeight
      BY DEF RulesInv, MarkerInv, MarkerMatchesMemory, Live
    <3>3. Complete(conf) => RulesFrom(disk', conf.forkheight)
      BY <2>1, <2>2, <3>2 DEF RulesInv
    <3>4. NewRulesAboveFork'
      BY <2>1, <2>2, <3>1, Zenon DEF NewRulesAboveFork, RulesFrom, Complete
    <3>5. ASSUME OneOff'
          PROVE  /\ disk'.height < FinalActivateForkHeight
                 /\ AllowReorg \/ disk'.height <= t.height
      <4>1. OneOff /\ ~isMVFHardForkActive /\ ~Trigger(t)
        BY <2>1, <3>1, <3>5, Zenon DEF OneOff
      <4>2. /\ disk.height < FinalActivateForkHeight
            /\ AllowReorg \/ disk.height <= tip.height
        BY <2>1, <4>1 DEF RulesInv
      <4> QED BY <1>0, <2>2, <4>1, <4>2
    <3> QED BY <2>1, <3>1, <3>3, <3>4, <3>5, Zenon DEF RulesInv, Complete, RulesFrom
  <2> QED BY <2>3, <2>4
<1> QED BY <1>1, <1>2
\* The end of a process keeps the invariant when the chain it leaves on disk has
\* the new rules above the height in the file it leaves.
LEMMA ExitRules ==
  ASSUME RulesInv, TriggerInv', MarkerInv', Exit,
         thrown = "no" /\ Complete(conf') => RulesFrom(disk', conf'.forkheight)
  PROVE  RulesInv'
  BY Zenon DEF RulesInv, Exit, NewRulesAboveFork, Live, RulesFrom, Complete

\* Every step keeps the invariant.
LEMMA RulesInvStep ==
  ASSUME RulesInv, QuietFork, [Next]_vars, TriggerInv', MarkerInv'
  PROVE  RulesInv'
<1>0. TypeOK /\ TypeOK'
  BY DEF RulesInv, TriggerInv
<1>1. ASSUME NEW a \in Args, ForkSetup(a) PROVE RulesInv'
  <2>1. /\ conf' = conf /\ disk' = disk /\ phase' = "setup"
        /\ thrown' = "no" => thrown = "no"
    BY <1>1, Zenon DEF ForkSetup, files
  <2> QED BY <2>1, Zenon DEF RulesInv, NewRulesAboveFork, Live, RulesFrom, Complete
<1>2. CASE LoadBlockIndexDB
  <2>1. tip' = disk /\ disk' = disk /\ thrown' = thrown /\ phase = "setup"
        /\ wasMVFHardForkPreviouslyActivated' = wasMVFHardForkPreviouslyActivated
    BY <1>2 DEF LoadBlockIndexDB, settings
  <2>2. CASE LoadTrigger /\ OneOff
    <3>1. disk.height \in Nat
      BY <1>0, <2>2, ForkAssumption, SMTT(30) DEF LoadTrigger, SegwitActive, TypeOK, Chain
    <3>2. /\ FinalActivateForkHeight' = disk.height /\ isMVFHardForkActive'
          /\ conf' = ActivationConf(disk.height, FALSE, "ok")
      BY <1>2, <2>2, Zenon DEF LoadBlockIndexDB, OneOffActions, ActivationThrows, BackupAtFork
    <3>3. conf'.forkheight = disk.height
      BY <1>0, <3>1, <3>2, ActivationHeight, Zenon
    <3>4. RulesFrom(disk, disk.height)
      BY <3>1 DEF RulesFrom, Heights
    <3> QED BY <2>1, <3>2, <3>3, <3>4, Zenon DEF RulesInv, NewRulesAboveFork, RulesFrom, OneOff
  <2>3. CASE ~(LoadTrigger /\ OneOff)
    <3>1. /\ FinalActivateForkHeight' = FinalActivateForkHeight /\ conf' = conf
          /\ isMVFHardForkActive' = LoadTrigger
      BY <1>2, <2>3, Zenon DEF LoadBlockIndexDB, files
    <3>2. Complete(conf) => conf.forkheight = FinalActivateForkHeight
      BY <2>1 DEF RulesInv, MarkerInv, MarkerMatchesMemory
    <3>3. thrown = "no" /\ Complete(conf) => RulesFrom(disk, FinalActivateForkHeight)
      BY <3>2 DEF RulesInv
    <3>4. OneOff' => disk.height < FinalActivateForkHeight
      BY <1>0, <2>1, <3>1, ChainHeights DEF OneOff, LoadTrigger
    <3>5. disk.height \in Int
      BY <1>0, ChainHeights
    <3>6. Complete(conf') => Complete(conf)
      BY <3>1
    <3>7. thrown' = "no" /\ Complete(conf') => RulesFrom(disk', FinalActivateForkHeight')
      BY <2>1, <3>1, <3>3
    <3>8. NewRulesAboveFork'
      BY <2>1, <3>7 DEF NewRulesAboveFork, RulesFrom, Complete
    <3>9. thrown' = "no" /\ Complete(conf') => RulesFrom(disk', conf'.forkheight)
      BY <3>1, <3>2, <3>6, <3>7
    <3>10. OneOff' => disk'.height < FinalActivateForkHeight' /\ disk'.height <= tip'.height
      BY <2>1, <3>1, <3>4, <3>5
    <3> QED BY <3>8, <3>9, <3>10, Zenon DEF RulesInv, RulesFrom, Complete
  <2> QED BY <2>2, <2>3
<1>3. CASE Reindex
  <2>1. /\ tip' = tip /\ tip.height = -1 /\ disk'.height = -1 /\ conf' = conf
        /\ FinalActivateForkHeight' = FinalActivateForkHeight /\ FinalActivateForkHeight \in Nat
    BY <1>0, <1>3, NoChainType, Zenon DEF Reindex, RulesInv, TriggerInv, TypeOK, Chain, fork, files
  <2>2. \A n : RulesFrom(tip', n) /\ RulesFrom(disk', n)
    BY <2>1 DEF RulesFrom, Heights
  <2>3. NewRulesAboveFork'
    BY <2>2 DEF NewRulesAboveFork, RulesFrom
  <2>4. thrown' = "no" /\ Complete(conf') => RulesFrom(disk', conf'.forkheight)
    BY <2>2
  <2>5. disk'.height < FinalActivateForkHeight' /\ disk'.height <= tip'.height
    BY <2>1
  <2> QED BY <2>3, <2>4, <2>5 DEF RulesInv, RulesFrom, Complete
<1>4. CASE AppInit2
  BY <1>4, Zenon DEF AppInit2, RulesInv, NewRulesAboveFork, Live, OneOff, Complete, RulesFrom, settings,
              files
<1>5. ASSUME Live
      PROVE  /\ thrown = "no" /\ Complete(conf) => RulesFrom(tip, conf.forkheight)
             /\ thrown = "no" /\ OneOff => tip.height < FinalActivateForkHeight
  <2>1. Complete(conf) => conf.forkheight = FinalActivateForkHeight
    BY <1>5 DEF RulesInv, MarkerInv, MarkerMatchesMemory, Live
  <2>2. tip.height \in Int /\ FinalActivateForkHeight \in Int
    BY <1>0, ChainHeights
  <2>3. thrown = "no" /\ Complete(conf) => RulesFrom(tip, conf.forkheight)
    BY <1>5, <2>1, Zenon DEF RulesInv, NewRulesAboveFork, RulesFrom
  <2>4. thrown = "no" /\ OneOff => ~(tip.height >= FinalActivateForkHeight)
    BY <1>5 DEF RulesInv, TriggerInv, StrictTriggerSuffices, OneOff
  <2> QED BY <2>2, <2>3, <2>4
<1>6. CASE FlushStateToDisk
  <2>1. tip.height \in Int
    BY <1>0, ChainHeights
  <2>2. /\ UNCHANGED <<phase, FinalActivateForkHeight, isMVFHardForkActive,
                       wasMVFHardForkPreviouslyActivated, tip, conf, thrown>>
        /\ Live /\ disk' = tip
    BY <1>6 DEF FlushStateToDisk, settings, fork, files
  <2>3. NewRulesAboveFork'
    BY <2>2, Zenon DEF RulesInv, NewRulesAboveFork, Live, Complete
  <2>4. thrown' = "no" /\ Complete(conf)' => RulesFrom(disk', conf'.forkheight)
    BY <1>5, <2>2 DEF Complete
  <2>5. OneOff' /\ thrown' = "no" =>
          disk'.height < FinalActivateForkHeight' /\ disk'.height <= tip'.height
    BY <1>5, <2>1, <2>2 DEF OneOff
  <2> QED BY <2>3, <2>4, <2>5, Zenon DEF RulesInv, RulesFrom
<1>7. CASE Shutdown
  <2>1. Live /\ disk' = tip /\ conf' = conf /\ Exit
    BY <1>7 DEF Shutdown, Live, files
  <2> QED BY <1>5, <2>1, ExitRules DEF Complete, RulesFrom
<1>8. CASE Crash
  <2>1. disk' = disk /\ conf' = conf /\ Exit
    BY <1>8 DEF Crash, files
  <2> QED BY <2>1, ExitRules, Zenon DEF RulesInv, Complete, RulesFrom
<1>9. CASE DieInLoadBlockIndexDB
  <2>1. ~Complete(conf') /\ Exit
    BY <1>9, NewConfIncomplete DEF DieInLoadBlockIndexDB, Complete
  <2> QED BY <2>1, ExitRules
<1>10. ASSUME NEW b \in Branches, NEW r \in BackupResults, NEW flush \in BOOLEAN,
              ConnectTip(b, r, flush)
       PROVE  RulesInv'
  <2>1. Live /\ Extends(b) /\ UpdateTip(Connected(b), r) /\ (disk' = Connected(b) \/ disk' = disk)
    BY <1>10 DEF ConnectTip
  <2>2. /\ Connected(b) \in Chain /\ Connected(b).height \in Heights
        /\ Connected(b).height = tip.height + 1
    BY <1>0, <2>1, ConnectedType
  <2> QED BY <2>1, <2>2, UpdateTipRules
<1>11. ASSUME NEW r \in BackupResults, NEW flush \in BOOLEAN, DisconnectTip(r, flush)
       PROVE  RulesInv'
  <2>1. /\ Live /\ AllowReorg /\ tip.height >= 1 /\ UpdateTip(Disconnected, r)
        /\ disk' = Disconnected \/ disk' = disk
    BY <1>11 DEF DisconnectTip
  <2>2. Disconnected \in Chain /\ Disconnected.height \in Heights
    BY <1>0, <2>1, DisconnectedType
  <2> QED BY <2>1, <2>2, UpdateTipRules
<1>12. ASSUME NEW t \in Chain, NEW r \in BackupResults, NEW flush \in BOOLEAN,
              t.height \in Heights,
              \/ \E b \in Branches : Extends(b) /\ t = Connected(b)
              \/ AllowReorg /\ tip.height >= 1 /\ t = Disconnected,
              DieInUpdateTip(t, r, flush)
       PROVE  RulesInv'
  <2>1. Live /\ Exit /\ (disk' = t \/ disk' = disk)
    BY <1>12 DEF DieInUpdateTip
  <2>2. PICK f \in FilesInUpdateTip(t, r) : conf' = f.conf
    BY <1>12 DEF DieInUpdateTip
  <2>3. ASSUME thrown = "no", Complete(conf') PROVE RulesFrom(disk', conf'.forkheight)
    <3>1. /\ Complete(conf) => RulesFrom(t, FinalActivateForkHeight)
          /\ Trigger(t) /\ OneOff => disk.height < t.height
      BY <1>12, <2>1, <2>3, NextChain
    <3>2. CASE conf' = conf
      <4>1. Complete(conf) /\ conf.forkheight = FinalActivateForkHeight
        BY <2>1, <2>3, <3>2, Zenon DEF RulesInv, MarkerInv, MarkerMatchesMemory, Live, Complete
      <4> QED BY <2>1, <2>3, <3>1, <3>2, <4>1 DEF RulesInv
    <3>3. CASE conf' # conf
      <4> DEFINE c == ActivationConf(t.height, TRUE, r)
      <4>4. f.conf = conf \/ (Trigger(t) /\ OneOff /\ (~Complete(f.conf) \/ f.conf = c))
        BY <1>0, <1>12, FilesMarker, Zenon
      <4>2. t.height \in Nat /\ disk.height \in Int
        BY <1>0, <1>12, ChainHeights, HeightsNat, Zenon
      <4>5. c.forkheight = t.height
        BY <1>0, <4>2, ActivationHeight, Zenon
      <4> HIDE DEF c
      <4>6. Complete(f.conf)
        BY <2>2, <2>3 DEF Complete
      <4>1. Trigger(t) /\ OneOff /\ f.conf = c
        BY <2>2, <3>3, <4>4, <4>6
      <4>3. conf'.forkheight = t.height
        BY <2>2, <4>1, <4>5
      <4> SUFFICES ASSUME NEW h \in Heights, t.height < h, h <= disk'.height
                   PROVE  disk'.rules[h]
        BY <4>3 DEF RulesFrom
      <4>7. disk'.height = t.height \/ disk'.height < t.height
        BY <2>1, <3>1, <4>1
      <4>8. h \in Int /\ disk'.height \in Int
        BY <2>1, <4>2 DEF Heights
      <4> QED BY <4>2, <4>7, <4>8
    <3> QED BY <3>2, <3>3
  <2> QED BY <2>1, <2>3, ExitRules
<1>13. CASE UNCHANGED vars
  BY <1>13, Zenon DEF vars, RulesInv, NewRulesAboveFork, Live, OneOff, Complete, RulesFrom, settings,
               fork, files
<1> QED BY <1>0, <1>1, <1>2, <1>3, <1>4, <1>6, <1>7, <1>8, <1>9, <1>10, <1>11, <1>12, <1>13,
           StepCases

\* Every block above the recorded fork height has been validated with the new
\* rules, across crashes and restarts, when the SegWit trigger is off or no block
\* is disconnected.
THEOREM NewRulesCorrect ==
  ASSUME QuietFork
  PROVE  Spec => []NewRulesAboveFork
<1>1. Init => RulesInv
  <2> SUFFICES ASSUME Init PROVE RulesInv
    OBVIOUS
  <2>1. phase = "down" /\ ~Live
    BY DEF Init, Live
  <2>2. ~Complete(conf)
    BY DEF Init, Complete, NoConf
  <2>3. TriggerInv
    BY <2>1, InitType DEF TriggerInv, StrictTriggerSuffices
  <2>4. MarkerInv
    BY MarkerInvInit
  <2> QED BY <2>1, <2>2, <2>3, <2>4, Zenon DEF RulesInv, NewRulesAboveFork
<1>2. RulesInv /\ TypeOK' /\ [Next]_vars => RulesInv'
  BY TriggerInvStep, MarkerInvStep, RulesInvStep DEF RulesInv
<1>3. RulesInv => NewRulesAboveFork
  BY DEF RulesInv
<1> QED BY <1>1, <1>2, <1>3, TypeCorrect, PTL DEF Spec
-----------------------------------------------------------------------------
(***************************************************************************)
(* The backup.  As long as there is no copy of the wallet from before the  *)
(* fork there is no backup at all and no btcfork.conf, so the settings are *)
(* those of the command line, and both chains are below the height at      *)
(* which every command line makes one.                                     *)
(***************************************************************************)
Early(c, w) == c.height < w /\ \A a \in Args : a.segwitfork => ~SegwitActive(c)

NotYet(w) ==
    /\ \A h \in Heights : bak.file[h] = "none"
    /\ ~conf.exists
    /\ Early(disk, w)
    /\ phase # "down" =>
          /\ Early(tip, w)
          /\ ~fAutoBackupDone /\ ~isMVFHardForkActive /\ ~wasMVFHardForkPreviouslyActivated
          /\ FinalActivateForkHeight = args.forkheight /\ backupArg = args.backupblock

BackupInv(w) == TypeOK /\ ("pre" \notin Backups => NotYet(w))

\* A backup replaces no copy from before the fork: it is renamed first
\* (CWallet::BackupWalletAuto).
LEMMA CopyStays ==
  ASSUME TypeOK, NEW n \in Heights, NEW r, bak' = bak \/ bak' = BackupWalletAuto(n, r),
         "pre" \in Backups
  PROVE  "pre" \in Backups'
<1>1. CASE bak' = bak
  BY <1>1 DEF Backups
<1>2. CASE bak' # bak
  <2>1. PICK v : bak' = [file |-> [bak.file EXCEPT ![n] = v],
                         old  |-> bak.old \cup ({bak.file[n]} \ {"none"})]
    BY <1>2 DEF BackupWalletAuto
  <2>2. /\ bak'.old = bak.old \cup ({bak.file[n]} \ {"none"})
        /\ \A h \in Heights : h # n => bak'.file[h] = bak.file[h]
    BY <2>1 DEF TypeOK
  <2>3. CASE "pre" \in bak.old
    BY <2>2, <2>3 DEF Backups
  <2>4. CASE "pre" \notin bak.old
    <3>1. PICK h \in Heights : bak.file[h] = "pre"
      BY <2>4 DEF Backups
    <3>2. CASE h = n
      BY <2>2, <3>1, <3>2 DEF Backups
    <3>3. CASE h # n
      BY <2>2, <3>1, <3>3 DEF Backups
    <3> QED BY <3>2, <3>3
  <2> QED BY <2>3, <2>4
<1> QED BY <1>1, <1>2

\* The first backup is a copy from before the fork (CWallet::BackupWalletAuto).
LEMMA FirstCopy ==
  ASSUME TypeOK, NEW n \in Heights, NEW w, NotYet(w), args.wallet = "enabled",
         bak' = BackupWalletAuto(n, "ok")
  PROVE  "pre" \in Backups'
<1>1. ~HasBackup(n - 1) /\ ~Complete(conf)
  BY DEF HasBackup, Complete, NotYet
<1>2. bak'.file = [bak.file EXCEPT ![n] = "pre"]
  BY <1>1 DEF BackupWalletAuto
<1>3. bak'.file[n] = "pre"
  BY <1>2 DEF TypeOK
<1> QED BY <1>3 DEF Backups

\* UpdateTip passes neither the backup block nor the fork without a copy.
LEMMA UpdateTipBackup ==
  ASSUME NEW w \in Nat, SafeBackup(w), BackupInv(w), Live, NEW t \in Chain, t.height \in Heights,
         t.height <= tip.height + 1, NEW r \in BackupResults, UpdateTip(t, r),
         disk' = t \/ disk' = disk, "pre" \notin Backups'
  PROVE  NotYet(w)'
<1>1. /\ TypeOK /\ r = "ok" /\ phase # "down" /\ phase' = phase /\ args \in Args
      /\ args.wallet = "enabled" /\ tip' = t
  BY Zenon DEF SafeBackup, BackupInv, Live, UpdateTip, TypeOK
<1>2. bak' = bak \/ bak' = BackupWalletAuto(t.height, r)
  <2>1. CASE Trigger(t) /\ OneOff
    BY <2>1, Zenon DEF UpdateTip, OneOffActions, ActivationBackup
  <2>2. CASE ~(Trigger(t) /\ OneOff)
    BY <2>2, Zenon DEF UpdateTip, PreForkBackup
  <2> QED BY <2>1, <2>2, Zenon
<1>3. NotYet(w)
  BY <1>1, <1>2, CopyStays, Zenon DEF BackupInv
<1>4. bak' # BackupWalletAuto(t.height, r)
  BY <1>1, <1>3, FirstCopy, Zenon
<1>5. /\ ~fAutoBackupDone /\ OneOff
      /\ FinalActivateForkHeight = args.forkheight /\ backupArg = args.backupblock
  BY <1>1, <1>3, Zenon DEF NotYet, OneOff
<1>6. ~Trigger(t)
  BY <1>4, <1>5, Zenon DEF UpdateTip, OneOffActions, ActivationBackup, BackupAtFork
<1>7. /\ UNCHANGED <<FinalActivateForkHeight, conf, backupArg, args,
                     wasMVFHardForkPreviouslyActivated>>
      /\ isMVFHardForkActive' = (isMVFHardForkActive \/ Trigger(t))
      /\ PreForkBackup(t.height, r)
  BY <1>6, Zenon DEF UpdateTip, settings
<1>8. ~AtBackupBlock(t.height)
  BY <1>4, <1>7, Zenon DEF PreForkBackup
<1>9. bak' = bak /\ ~fAutoBackupDone' /\ ~isMVFHardForkActive'
  BY <1>1, <1>3, <1>6, <1>7, <1>8, Zenon DEF PreForkBackup, NotYet
<1>10. t.height # args.forkheight /\ (args.segwitfork => ~SegwitActive(t))
  BY <1>5, <1>6, Zenon DEF Trigger, OneOff
<1>11. t.height # BackupDue(args)
  BY <1>1, <1>5, <1>8 DEF AtBackupBlock, BackupBlock, BackupDue
<1>12. t.height < w
  <2>1. tip.height < w
    BY <1>1, <1>3, Zenon DEF NotYet, Early
  <2>2. tip.height \in Int
    BY <1>1, ChainHeights, Zenon
  <2>3. t.height \in Nat
    BY HeightsNat, Zenon
  <2>4. w \in {args.forkheight, BackupDue(args)}
    BY <1>1, Zenon DEF SafeBackup
  <2> QED BY <1>10, <1>11, <2>1, <2>2, <2>3, <2>4
<1>13. Early(t, w)
  BY <1>1, <1>10, <1>12, Zenon DEF Early, SafeBackup
<1>14. Early(disk', w) /\ Early(tip', w)
  BY <1>1, <1>3, <1>13, Zenon DEF NotYet
<1> QED BY <1>1, <1>3, <1>5, <1>7, <1>9, <1>14, Zenon DEF NotYet, Early, OneOff

\* Neither the start of the node (ForkSetup, LoadBlockIndexDB, AppInit2) nor
\* flushing and shutting down takes the node past the backup without one.
LEMMA BackupInvStep ==
  ASSUME NEW w \in Nat, SafeBackup(w), BackupInv(w), [Next]_vars, TypeOK'
  PROVE  BackupInv(w)'
<1> SUFFICES ASSUME "pre" \notin Backups' PROVE NotYet(w)'
  BY DEF BackupInv
<1>0. TypeOK /\ args \in Args
  BY DEF BackupInv, TypeOK
<1>1. ASSUME bak' = bak PROVE NotYet(w)
  BY <1>1, Zenon DEF BackupInv, Backups
<1>2. \A b \in Branches : Early(NoChain(b), w)
  <2>1. ASSUME NEW b \in Branches PROVE NoChain(b).height = -1 /\ NoChain(b).branch = b
    BY DEF NoChain, OldChain
  <2> QED BY <2>1, ForkAssumption DEF Early, SegwitActive
<1>3. disk.branch \in Branches
  BY <1>0 DEF TypeOK, Chain
<1>4. ASSUME NEW a \in Args, ForkSetup(a) PROVE NotYet(w)'
  <2>1. NotYet(w) /\ ~conf.exists
    BY <1>1, <1>4 DEF ForkSetup, files, NotYet
  <2>2. /\ FinalActivateForkHeight' = a.forkheight /\ backupArg' = a.backupblock /\ args' = a
        /\ ~wasMVFHardForkPreviouslyActivated'
    BY <1>4, <2>1, Zenon DEF ForkSetup, FromConf
  <2>3. /\ ~isMVFHardForkActive' /\ ~fAutoBackupDone' /\ tip' = NoChain(disk.branch)
        /\ disk' = disk /\ conf' = conf /\ bak' = bak
    BY <1>4 DEF ForkSetup, files
  <2>4. Early(tip', w) /\ Early(disk', w)
    BY <1>2, <1>3, <2>1, <2>3, Zenon DEF NotYet
  <2> QED BY <2>1, <2>2, <2>3, <2>4, Zenon DEF NotYet, Early
<1>5. CASE LoadBlockIndexDB
  <2>1. bak' = bak
    BY <1>5, Zenon DEF LoadBlockIndexDB, OneOffActions, ActivationBackup, BackupAtFork, files
  <2>2. NotYet(w) /\ phase = "setup"
    BY <1>1, <1>5, <2>1 DEF LoadBlockIndexDB
  <2>3. ~LoadTrigger
    <3>1. disk.height < w /\ w <= args.forkheight /\ FinalActivateForkHeight = args.forkheight
      BY <1>0, <2>2 DEF NotYet, Early, SafeBackup
    <3>2. disk.height \in Int /\ FinalActivateForkHeight \in Int
      BY <1>0, ChainHeights
    <3>3. args.segwitfork => ~SegwitActive(disk)
      BY <1>0, <2>2, Zenon DEF NotYet, Early
    <3> QED BY <3>1, <3>2, <3>3 DEF LoadTrigger
  <2>4. /\ ~isMVFHardForkActive' /\ tip' = disk /\ disk' = disk
        /\ UNCHANGED <<FinalActivateForkHeight, fAutoBackupDone, conf, bak, args, backupArg,
                       wasMVFHardForkPreviouslyActivated>>
    BY <1>5, <2>3, Zenon DEF LoadBlockIndexDB, files, settings
  <2>5. phase # "down"
    BY <2>2
  <2> QED BY <2>2, <2>4, <2>5, Zenon DEF NotYet, Early
<1>6. CASE Reindex
  <2>1. /\ UNCHANGED <<FinalActivateForkHeight, isMVFHardForkActive, fAutoBackupDone, conf, bak, args,
                       backupArg, wasMVFHardForkPreviouslyActivated, tip>>
        /\ phase # "down" /\ disk' = NoChain(disk.branch)
    BY <1>6 DEF Reindex, settings, fork, files
  <2>2. NotYet(w) /\ Early(disk', w)
    BY <1>1, <1>2, <1>3, <2>1
  <2> QED BY <2>1, <2>2, Zenon DEF NotYet, Early
<1>7. CASE AppInit2
  <2>1. /\ UNCHANGED <<FinalActivateForkHeight, isMVFHardForkActive, conf, bak, args, backupArg,
                       wasMVFHardForkPreviouslyActivated, tip, disk>>
        /\ phase # "down"
    BY <1>7 DEF AppInit2, settings, files
  <2>2. NotYet(w)
    BY <1>1, <2>1
  <2>3. /\ tip.height < w /\ ~wasMVFHardForkPreviouslyActivated /\ ~fAutoBackupDone
        /\ FinalActivateForkHeight = args.forkheight /\ backupArg = args.backupblock
    BY <2>1, <2>2, Zenon DEF NotYet, Early
  <2>4. w <= args.forkheight /\ w <= BackupDue(args) + 1
    BY <1>0, Zenon DEF SafeBackup
  <2>5. /\ tip.height \in Int /\ FinalActivateForkHeight \in Int
        /\ BackupDue(args) = BackupBlock(FinalActivateForkHeight) /\ BackupDue(args) \in Int
    <3>1. BackupDue(args) = BackupBlock(FinalActivateForkHeight)
      BY <2>3, Zenon DEF BackupDue, BackupBlock
    <3>2. backupArg \in Int
      BY <1>0, Zenon DEF TypeOK
    <3>3. tip.height \in Int /\ FinalActivateForkHeight \in Int
      BY <1>0, ChainHeights, Zenon
    <3> QED BY <3>1, <3>2, <3>3 DEF BackupBlock
  <2>6. ~(tip.height >= FinalActivateForkHeight) /\ ~(tip.height > BackupBlock(FinalActivateForkHeight))
    BY <2>3, <2>4, <2>5
  <2>7. ~fAutoBackupDone'
    BY <1>7, <2>3, <2>6, Zenon DEF AppInit2
  <2> QED BY <2>1, <2>2, <2>7, Zenon DEF NotYet, Early
<1>8. CASE FlushStateToDisk
  <2>1. /\ UNCHANGED <<phase, FinalActivateForkHeight, isMVFHardForkActive, fAutoBackupDone, conf, bak,
                       args, backupArg, wasMVFHardForkPreviouslyActivated, tip>>
        /\ phase # "down" /\ disk' = tip
    BY <1>8 DEF FlushStateToDisk, settings, fork, files, Live
  <2>2. NotYet(w)
    BY <1>1, <2>1
  <2> QED BY <2>1, <2>2, Zenon DEF NotYet, Early
<1>9. CASE Shutdown
  <2>1. conf' = conf /\ bak' = bak /\ phase # "down" /\ phase' = "down" /\ disk' = tip
    BY <1>9 DEF Shutdown, files, Exit
  <2>2. NotYet(w)
    BY <1>1, <2>1
  <2> QED BY <2>1, <2>2, Zenon DEF NotYet, Early
<1>10. ASSUME NEW b \in Branches, NEW r \in BackupResults, NEW flush \in BOOLEAN,
              ConnectTip(b, r, flush)
       PROVE  NotYet(w)'
  <2>1. Live /\ Extends(b) /\ UpdateTip(Connected(b), r) /\ (disk' = Connected(b) \/ disk' = disk)
    BY <1>10 DEF ConnectTip
  <2>2. /\ Connected(b) \in Chain /\ Connected(b).height \in Heights
        /\ Connected(b).height = tip.height + 1
    BY <1>0, <2>1, ConnectedType
  <2>3. Connected(b).height <= tip.height + 1
    BY <1>0, <2>2, ChainHeights
  <2> QED BY <2>1, <2>2, <2>3, UpdateTipBackup, Zenon
<1>11. ASSUME NEW r \in BackupResults, NEW flush \in BOOLEAN, DisconnectTip(r, flush)
       PROVE  NotYet(w)'
  <2>1. /\ Live /\ tip.height >= 1 /\ UpdateTip(Disconnected, r)
        /\ disk' = Disconnected \/ disk' = disk
    BY <1>11 DEF DisconnectTip
  <2>2. Disconnected \in Chain /\ Disconnected.height \in Heights /\ Disconnected.height = tip.height - 1
    BY <1>0, <2>1, DisconnectedType
  <2>3. Disconnected.height <= tip.height + 1
    BY <1>0, <2>2, ChainHeights
  <2> QED BY <2>1, <2>2, <2>3, UpdateTipBackup, Zenon
<1>12. CASE UNCHANGED vars
  <2>1. UNCHANGED <<phase, FinalActivateForkHeight, isMVFHardForkActive, fAutoBackupDone, conf, bak,
                    args, backupArg, wasMVFHardForkPreviouslyActivated, tip, disk>>
    BY <1>12 DEF vars, settings, fork, files
  <2>2. NotYet(w)
    BY <1>1, <2>1
  <2> QED BY <2>1, <2>2, Zenon DEF NotYet, Early
<1>13. ~AllowCrash
  BY DEF SafeBackup
<1> QED BY <1>0, <1>4, <1>5, <1>6, <1>7, <1>8, <1>9, <1>10, <1>11, <1>12, <1>13, StepCases, Zenon
           DEF Crash, DieInLoadBlockIndexDB, DieInUpdateTip

\* When the fork is active the wallet has been backed up before it, for all
\* settings that provide for a backup in time and change between starts, through
\* reorganisations and reindexing, at a fork by height or by SegWit; as long as
\* backups succeed and the process is not killed.
THEOREM BackupCorrect ==
  ASSUME NEW w \in Nat, SafeBackup(w)
  PROVE  Spec => []BackupByFork
<1>1. Init => BackupInv(w)
  <2> SUFFICES ASSUME Init PROVE BackupInv(w)
    OBVIOUS
  <2>1. PICK h \in StartHeights, b \in Branches : disk = OldChain(h, b)
    BY DEF Init
  <2>2. disk.height = h /\ disk.branch = b /\ h \in Nat /\ SegwitHeight[b] \in Nat
    BY <2>1, ForkAssumption DEF OldChain, Heights
  <2>3. h < w /\ \A a \in Args : a.segwitfork => h < SegwitHeight[b]
    BY DEF SafeBackup
  <2>4. Early(disk, w)
    BY <2>2, <2>3 DEF Early, SegwitActive
  <2>5. phase = "down" /\ ~conf.exists /\ \A n \in Heights : bak.file[n] = "none"
    BY DEF Init, NoConf
  <2> QED BY <2>4, <2>5, InitType, Zenon DEF BackupInv, NotYet
<1>2. BackupInv(w) /\ TypeOK' /\ [Next]_vars => BackupInv(w)'
  BY BackupInvStep
<1>3. BackupInv(w) => BackupByFork
  BY DEF BackupInv, NotYet, BackupByFork, Live
<1> QED BY <1>1, <1>2, <1>3, TypeCorrect, PTL DEF Spec
=============================================================================
