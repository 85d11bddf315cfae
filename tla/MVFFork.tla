------------------------------ MODULE MVFFork ------------------------------
(***************************************************************************)
(* The life of the MVF hard fork in one node: ForkSetup and the activation *)
(* at start-up, UpdateTip's trigger while blocks are connected and         *)
(* disconnected, ActivateFork with the marker file btcfork.conf, and the   *)
(* automatic wallet backup; across shutdowns, crashes and restarts.        *)
(*                                                                         *)
(* The chain is abstracted to its height, the branch it is on, and, for    *)
(* every height, whether the block there was validated with the new        *)
(* signature hash (isMVFHardForkActive as ConnectBlock's script checks saw  *)
(* it).  Branches share their blocks up to SplitHeight.                    *)
(***************************************************************************)
EXTENDS Integers

CONSTANTS
    MaxHeight,      \* bound: the greatest block height considered
    Branches,       \* the competing chains
    SplitHeight,    \* the height of the last block all branches share
    SegwitHeight,   \* [Branches -> Nat] first height whose tip state is THRESHOLD_ACTIVE
    Args,           \* the command lines the operator may start the node with
    StartHeights,   \* heights of the chain a node may have when MVF is first run on it
    MaxForkId,      \* MAX_HARDFORK_SIGHASH_ID
    BackupResults,  \* what CWallet::BackupWalletAuto may do: "ok", "bad", "none", "throw"
    AllowCrash,     \* may the process die without a shutdown
    AllowReorg      \* may blocks be disconnected

NoVal == -2         \* an option that is not given, a key that is not in the file

Heights == 0 .. MaxHeight

ArgsType == [forkheight : Nat, forkid : Nat, dropok : BOOLEAN,
             backupblock : Nat \cup {NoVal}, segwitfork : BOOLEAN,
             wallet : {"enabled", "disabled", "notbuilt"}, reindex : BOOLEAN]

ASSUME ForkAssumption ==
    /\ MaxHeight \in Nat
    /\ SplitHeight \in Nat
    /\ SegwitHeight \in [Branches -> Nat]
    /\ \A b, c \in Branches :
          SegwitHeight[b] <= SplitHeight => SegwitHeight[c] = SegwitHeight[b]
    /\ Args \subseteq ArgsType
    /\ StartHeights \subseteq Heights
    /\ MaxForkId \in Nat
    /\ BackupResults \subseteq {"ok", "bad", "none", "throw"}
    /\ AllowCrash \in BOOLEAN
    /\ AllowReorg \in BOOLEAN

VARIABLES
    phase,          \* "down", "setup", "importing" (ThreadImport runs), "running"
    args,           \* mapArgs as given on the command line
    backupArg,      \* mapArgs["-autobackupblock"] after btcfork.conf was applied
    FinalActivateForkHeight,
    FinalForkId,
    isMVFHardForkActive,
    wasMVFHardForkPreviouslyActivated,
    fAutoBackupDone,
    fRequestShutdown,
    tip,            \* chainActive
    disk,           \* the chain of the coin database on disk
    conf,           \* btcfork.conf
    bak,            \* the backups: file[h] is wallet.dat.auto.<h>.bak ("none", "bad" for an
                    \* unusable one, or a copy of the wallet as it was before, "pre", or
                    \* after, "post", the fork); old, the contents of the .old files
    thrown          \* history: has an exception left UpdateTip and been swallowed

settings == <<args, backupArg, FinalForkId, wasMVFHardForkPreviouslyActivated, fRequestShutdown>>
fork     == <<FinalActivateForkHeight, isMVFHardForkActive, fAutoBackupDone>>
files    == <<conf, bak>>
vars     == <<phase, settings, fork, tip, disk, files, thrown>>

Chain == [height : -1 .. MaxHeight, branch : Branches, rules : [Heights -> BOOLEAN]]

(***************************************************************************)
(* btcfork.conf.  ActivateFork writes it through a buffered stream, so     *)
(* until the stream is closed the file on disk is empty.  A line without   *)
(* an '=' makes MVFReadConfigFile throw.                                   *)
(***************************************************************************)
NoConf == [exists |-> FALSE, parses |-> TRUE,
           forkheight |-> NoVal, forkid |-> NoVal, backupblock |-> NoVal]

EmptyConf == [exists |-> TRUE, parses |-> TRUE,
              forkheight |-> NoVal, forkid |-> NoVal, backupblock |-> NoVal]

ClosedConf(h, ok, b) == [exists |-> TRUE, parses |-> ok,
                         forkheight |-> h, forkid |-> FinalForkId, backupblock |-> b]

Complete(c) == c.exists /\ c.parses /\ c.backupblock # NoVal

BackupBlock(forkHeight) == IF backupArg # NoVal THEN backupArg ELSE forkHeight - 1

SegwitActive(t) == t.height >= SegwitHeight[t.branch]

-----------------------------------------------------------------------------
(***************************************************************************)
(* CWallet::BackupWalletAuto, called through a boost signal.  The wallet   *)
(* may copy its file ("ok"), leave a file without the wallet in it         *)
(* ("bad": the source cannot be read, or the copy stops early), leave no   *)
(* file ("none") or throw a filesystem_error.  The signal's combiner       *)
(* yields an optional<bool>: it is empty when no wallet is connected and   *)
(* holds a value, true in a condition, whatever bool the wallet returned.  *)
(***************************************************************************)
HasBackup(n) == n \in Heights /\ bak.file[n] # "none"

BackupSignal(n, r) ==
    IF args.wallet # "enabled" THEN "empty"
    ELSE IF r = "throw" /\ ~HasBackup(n - 1) THEN "exception"
    ELSE "value"

BackupWalletAuto(n, r) ==
    IF args.wallet = "enabled" /\ ~HasBackup(n - 1) /\ r # "throw"
    THEN [file |-> [bak.file EXCEPT
                       ![n] = IF r # "ok" THEN r ELSE IF Complete(conf) THEN "post" ELSE "pre"],
          old  |-> bak.old \cup ({bak.file[n]} \ {"none"})]
    ELSE bak

(***************************************************************************)
(* ActivateFork.  Its one-off actions throw when the backup signal comes   *)
(* back empty (the file then ends with the "error:" line) or when the      *)
(* wallet throws (the stream's destructor closes the file early).          *)
(***************************************************************************)
\* Bug: the sanity check forgets wasMVFHardForkPreviouslyActivated.
OneOffEveryStart == ~isMVFHardForkActive

OneOff == ~isMVFHardForkActive /\ ~wasMVFHardForkPreviouslyActivated

\* Bug: no backup at a fork that comes before the backup block.
BackupAtForkNever(doBackup) == FALSE

BackupAtFork(doBackup) == doBackup /\ ~fAutoBackupDone

ActivationThrows(h, doBackup, r) ==
    /\ BackupAtFork(doBackup)
    /\ args.wallet # "disabled"
    /\ BackupSignal(h, r) # "value"

\* Bug: the marker is written only where the backup is.
ActivationConfWithBackup(h, doBackup, r) ==
    IF BackupAtFork(doBackup) THEN ClosedConf(h, TRUE, h) ELSE conf

ActivationConf(h, doBackup, r) ==
    IF ActivationThrows(h, doBackup, r)
    THEN ClosedConf(h, BackupSignal(h, r) = "exception", NoVal)
    ELSE ClosedConf(h, TRUE, IF BackupAtFork(doBackup) THEN h ELSE BackupBlock(h))

ActivationBackup(h, doBackup, r) ==
    IF BackupAtFork(doBackup) THEN BackupWalletAuto(h, r) ELSE bak

OneOffActions(h, doBackup, r) ==
    /\ FinalActivateForkHeight' = h
    /\ isMVFHardForkActive' = ~ActivationThrows(h, doBackup, r)
    /\ fAutoBackupDone' = (fAutoBackupDone \/ ~ActivationThrows(h, doBackup, r))
    /\ conf' = ActivationConf(h, doBackup, r)
    /\ bak' = ActivationBackup(h, doBackup, r)

(***************************************************************************)
(* UpdateTip's backup at the pre-fork block.                               *)
(***************************************************************************)
AtBackupBlock(h) ==
    /\ ~fAutoBackupDone
    /\ args.wallet # "disabled"
    /\ h = BackupBlock(FinalActivateForkHeight)

PreForkBackup(h, r) ==
    /\ fAutoBackupDone' = \/ fAutoBackupDone
                          \/ args.wallet = "disabled"
                          \/ AtBackupBlock(h) /\ BackupSignal(h, r) = "value"
    /\ bak' = IF AtBackupBlock(h) THEN BackupWalletAuto(h, r) ELSE bak

(***************************************************************************)
(* UpdateTip(t): chainActive becomes t, then the fork trigger and the      *)
(* backup.  An exception that leaves it is swallowed by ProcessMessages,   *)
(* by the RPC server and by LoadExternalBlockFile, and ends the process    *)
(* when a parallel validation thread raised it (DieInUpdateTip below).     *)
(***************************************************************************)
\* Bug: the trigger is lost when the marker exists.
TriggerOnce(t) ==
    /\ OneOff
    /\ \/ t.height = FinalActivateForkHeight
       \/ SegwitActive(t) /\ args.segwitfork

Trigger(t) ==
    /\ ~isMVFHardForkActive
    /\ \/ t.height = FinalActivateForkHeight
       \/ SegwitActive(t) /\ args.segwitfork

Throws(t, r) ==
    IF Trigger(t) /\ OneOff
    THEN ActivationThrows(t.height, TRUE, r)
    ELSE AtBackupBlock(t.height) /\ BackupSignal(t.height, r) # "value"

UpdateTip(t, r) ==
    /\ tip' = t
    /\ IF Trigger(t) /\ OneOff
       THEN OneOffActions(t.height, TRUE, r)
       ELSE /\ isMVFHardForkActive' = (isMVFHardForkActive \/ Trigger(t))
            /\ PreForkBackup(t.height, r)
            /\ UNCHANGED <<FinalActivateForkHeight, conf>>
    /\ thrown' = IF Throws(t, r) THEN "now" ELSE thrown
    /\ UNCHANGED <<phase, settings>>

(***************************************************************************)
(* What btcfork.conf and the backups may be when the process dies inside   *)
(* UpdateTip(t): the file is removed, created empty, the backup is made,   *)
(* and the file gets its contents when the stream is closed.               *)
(***************************************************************************)
Files(c, b) == [conf |-> c, bak |-> b]

FilesInUpdateTip(t, r) ==
    IF Trigger(t) /\ OneOff
    THEN LET copied == ActivationBackup(t.height, TRUE, r)
         IN  {Files(conf, bak), Files(NoConf, bak), Files(EmptyConf, bak),
              Files(EmptyConf, copied), Files(ActivationConf(t.height, TRUE, r), copied)}
    ELSE {Files(conf, bak),
          Files(conf, IF AtBackupBlock(t.height) THEN BackupWalletAuto(t.height, r) ELSE bak)}

-----------------------------------------------------------------------------
OldChain(n, b) == [height |-> n, branch |-> b, rules |-> [h \in Heights |-> FALSE]]

NoChain(b) == OldChain(-1, b)

(***************************************************************************)
(* No process: its globals have their static initial values.               *)
(***************************************************************************)
Exit ==
    /\ phase' = "down"
    /\ backupArg' = NoVal
    /\ FinalActivateForkHeight' = 0
    /\ FinalForkId' = 0
    /\ isMVFHardForkActive' = FALSE
    /\ wasMVFHardForkPreviouslyActivated' = FALSE
    /\ fAutoBackupDone' = FALSE
    /\ fRequestShutdown' = FALSE
    /\ tip' = NoChain(disk'.branch)
    /\ UNCHANGED <<args, thrown>>

(***************************************************************************)
(* An upgrade: a chain validated by earlier software, no fork files.       *)
(***************************************************************************)
Init ==
    /\ \E h \in StartHeights, b \in Branches : disk = OldChain(h, b)
    /\ phase = "down"
    /\ backupArg = NoVal
    /\ FinalActivateForkHeight = 0
    /\ FinalForkId = 0
    /\ isMVFHardForkActive = FALSE
    /\ wasMVFHardForkPreviouslyActivated = FALSE
    /\ fAutoBackupDone = FALSE
    /\ fRequestShutdown = FALSE
    /\ tip = NoChain(disk.branch)
    /\ args \in Args
    /\ conf = NoConf
    /\ bak = [file |-> [h \in Heights |-> "none"], old |-> {}]
    /\ thrown = "no"

(***************************************************************************)
(* ForkSetup, and bitcoind's StartShutdown when it returns false.  Start-  *)
(* up goes on all the same until AppInit2 looks at fRequestShutdown.       *)
(***************************************************************************)
\* Bug: a key the file does not have is used all the same.
FromConfUnchecked(key, given) == IF conf.exists /\ conf.parses THEN key ELSE given

\* Bug: the command line wins over the file.
FromCommandLine(key, given) == IF given # NoVal THEN given ELSE key

FromConf(key, given) == IF conf.exists /\ conf.parses /\ key # NoVal THEN key ELSE given

SettingsValid(a, forkHeight, forkId) ==
    /\ forkHeight > 0
    /\ a.dropok
    /\ forkId <= MaxForkId

ForkSetup(a) ==
    /\ phase = "down"
    /\ phase' = "setup"
    /\ args' = a
    /\ FinalActivateForkHeight' = FromConf(conf.forkheight, a.forkheight)
    /\ backupArg' = FromConf(conf.backupblock, a.backupblock)
    /\ FinalForkId' = FromConf(conf.forkid, a.forkid)
    /\ wasMVFHardForkPreviouslyActivated' = conf.exists
    /\ fRequestShutdown' = ~SettingsValid(a, FromConf(conf.forkheight, a.forkheight),
                                             FromConf(conf.forkid, a.forkid))
    /\ isMVFHardForkActive' = FALSE
    /\ fAutoBackupDone' = FALSE
    /\ tip' = NoChain(disk.branch)
    /\ thrown' = IF thrown = "no" THEN "no" ELSE "before"
    /\ UNCHANGED <<disk, files>>

(***************************************************************************)
(* LoadBlockIndexDB.  AppInit2 skips it when reindexing, having wiped the  *)
(* coin database, and returns after it if a shutdown has been requested.   *)
(***************************************************************************)
\* Bug: strict equality at start-up too.
LoadTriggerStrict ==
    \/ disk.height = FinalActivateForkHeight
    \/ SegwitActive(disk) /\ args.segwitfork

LoadTrigger ==
    \/ disk.height >= FinalActivateForkHeight
    \/ SegwitActive(disk) /\ args.segwitfork

AfterLoad == IF fRequestShutdown THEN "down" ELSE "importing"

LoadBlockIndexDB ==
    /\ phase = "setup"
    /\ ~args.reindex
    /\ phase' = AfterLoad
    /\ tip' = disk
    /\ IF LoadTrigger /\ OneOff
       THEN OneOffActions(disk.height, FALSE, "ok")
       ELSE /\ isMVFHardForkActive' = LoadTrigger
            /\ UNCHANGED <<FinalActivateForkHeight, fAutoBackupDone, files>>
    /\ UNCHANGED <<settings, disk, thrown>>

Reindex ==
    /\ phase = "setup"
    /\ args.reindex
    /\ phase' = AfterLoad
    /\ disk' = NoChain(disk.branch)
    /\ UNCHANGED <<settings, fork, tip, files, thrown>>

(***************************************************************************)
(* AppInit2 after it has started ThreadImport.  With no tip yet it waits   *)
(* for one and leaves fAutoBackupDone alone.                               *)
(***************************************************************************)
AppInit2 ==
    /\ phase = "importing"
    /\ phase' = "running"
    /\ fAutoBackupDone' = \/ fAutoBackupDone
                          \/ /\ tip.height # -1
                             /\ \/ wasMVFHardForkPreviouslyActivated
                                \/ tip.height >= FinalActivateForkHeight
                                \/ tip.height > BackupBlock(FinalActivateForkHeight)
    /\ UNCHANGED <<settings, FinalActivateForkHeight, isMVFHardForkActive, tip, disk, files, thrown>>

Live == phase \in {"importing", "running"}

(***************************************************************************)
(* ConnectTip and DisconnectTip: the block is validated (with the flag as  *)
(* it is), the coin database may be flushed, then UpdateTip runs.          *)
(***************************************************************************)
\* Bug: the new rules start one block late.
ConnectedLate(b) ==
    [height |-> tip.height + 1, branch |-> b,
     rules  |-> [tip.rules EXCEPT ![tip.height + 1] =
                    isMVFHardForkActive /\ tip.height > FinalActivateForkHeight]]

Connected(b) ==
    [height |-> tip.height + 1, branch |-> b,
     rules  |-> [tip.rules EXCEPT ![tip.height + 1] = isMVFHardForkActive]]

Extends(b) == tip.height < MaxHeight /\ (b = tip.branch \/ tip.height <= SplitHeight)

ConnectTip(b, r, flush) ==
    /\ Live
    /\ Extends(b)
    /\ disk' = IF flush THEN Connected(b) ELSE disk
    /\ UpdateTip(Connected(b), r)

Disconnected ==
    [height |-> tip.height - 1, branch |-> tip.branch,
     rules  |-> [tip.rules EXCEPT ![tip.height] = FALSE]]

DisconnectTip(r, flush) ==
    /\ AllowReorg
    /\ Live
    /\ tip.height >= 1
    /\ disk' = IF flush THEN Disconnected ELSE disk
    /\ UpdateTip(Disconnected, r)

FlushStateToDisk ==
    /\ Live
    /\ disk' = tip
    /\ UNCHANGED <<phase, settings, fork, tip, files, thrown>>

Shutdown ==
    /\ phase = "running"
    /\ disk' = tip
    /\ Exit
    /\ UNCHANGED files

(***************************************************************************)
(* The process dies: between operations, inside UpdateTip (an exception    *)
(* that nothing catches included), or while LoadBlockIndexDB activates.    *)
(***************************************************************************)
Crash ==
    /\ AllowCrash
    /\ phase # "down"
    /\ UNCHANGED <<disk, files>>
    /\ Exit

DieInUpdateTip(t, r, flush) ==
    /\ AllowCrash
    /\ Live
    /\ disk' = IF flush THEN t ELSE disk
    /\ Exit
    /\ \E f \in FilesInUpdateTip(t, r) : conf' = f.conf /\ bak' = f.bak

DieInConnectTip(b, r, flush) ==
    Extends(b) /\ DieInUpdateTip(Connected(b), r, flush)

DieInDisconnectTip(r, flush) ==
    AllowReorg /\ tip.height >= 1 /\ DieInUpdateTip(Disconnected, r, flush)

DieInLoadBlockIndexDB ==
    /\ AllowCrash
    /\ phase = "setup"
    /\ ~args.reindex
    /\ LoadTrigger /\ OneOff
    /\ conf' = EmptyConf
    /\ UNCHANGED <<disk, bak>>
    /\ Exit

Next ==
    \/ \E a \in Args : ForkSetup(a)
    \/ LoadBlockIndexDB
    \/ Reindex
    \/ AppInit2
    \/ \E b \in Branches, r \in BackupResults, flush \in BOOLEAN :
          ConnectTip(b, r, flush) \/ DieInConnectTip(b, r, flush)
    \/ \E r \in BackupResults, flush \in BOOLEAN :
          DisconnectTip(r, flush) \/ DieInDisconnectTip(r, flush)
    \/ FlushStateToDisk
    \/ Shutdown
    \/ Crash
    \/ DieInLoadBlockIndexDB

Spec == Init /\ [][Next]_vars
-----------------------------------------------------------------------------
(***************************************************************************)
(* Properties.                                                             *)
(***************************************************************************)
ConfType == [exists : BOOLEAN, parses : BOOLEAN, forkheight : Nat \cup {NoVal},
             forkid : Nat \cup {NoVal}, backupblock : Int]

\* Type correctness of the globals of mvf-bu-globals.h, the chain and the files.
TypeOK ==
    /\ phase \in {"down", "setup", "importing", "running"}
    /\ args \in Args
    /\ backupArg \in Int
    /\ FinalActivateForkHeight \in Nat
    /\ FinalForkId \in Nat
    /\ isMVFHardForkActive \in BOOLEAN
    /\ wasMVFHardForkPreviouslyActivated \in BOOLEAN
    /\ fAutoBackupDone \in BOOLEAN
    /\ fRequestShutdown \in BOOLEAN
    /\ tip \in Chain
    /\ disk \in Chain
    /\ conf \in ConfType
    /\ bak \in [file : [Heights -> {"none", "bad", "pre", "post"}],
                old : SUBSET {"bad", "pre", "post"}]
    /\ thrown \in {"no", "before", "now"}

\* The question of the TODO at UpdateTip's trigger: testing the height with
\* == instead of >= is enough.  A node that is up, and has not swallowed an
\* exception out of UpdateTip, never has a tip at or above the fork height
\* with the fork inactive, whatever restarts, crashes and reorgs came before.
StrictTriggerSuffices ==
    Live /\ thrown # "now" /\ tip.height >= FinalActivateForkHeight => isMVFHardForkActive

\* UpdateTip activates after the fork block has been connected, so "only
\* FinalActivateForkHeight+1 can be new rules": once the fork is recorded, every
\* block of the active chain above the fork height has been validated with the
\* new signature hash, the blocks of earlier processes included.  It needs
\* QuietFork: a SegWit trigger on one branch says nothing of the blocks another
\* branch already has on disk at greater heights.
QuietFork == AllowReorg => \A a \in Args : ~a.segwitfork

NewRulesAboveFork ==
    Live /\ thrown = "no" /\ Complete(conf) =>
        \A h \in Heights : FinalActivateForkHeight < h /\ h <= tip.height => tip.rules[h]

\* Once btcfork.conf is complete it is the authority: the fork height and the
\* fork id in memory are the ones it records, also after a restart with other
\* command line options.
MarkerMatchesMemory ==
    phase # "down" /\ Complete(conf) =>
        /\ FinalActivateForkHeight = conf.forkheight
        /\ FinalForkId = conf.forkid

\* The one-off actions of ActivateFork run once in the life of a data
\* directory: a complete btcfork.conf is never rewritten or removed.
MarkerWrittenOnce ==
    [][Complete(conf) => conf' = conf]_vars

\* A node that applies the new rules has left btcfork.conf behind, so that the
\* next start sees wasMVFHardForkPreviouslyActivated.
ActiveLeavesMarker ==
    phase # "down" /\ isMVFHardForkActive => conf.exists

Backups == {bak.file[h] : h \in Heights} \cup bak.old

BackupDue(a) == IF a.backupblock # NoVal THEN a.backupblock ELSE a.forkheight - 1

\* Backups succeed, and every command line has one made at height w at the latest:
\* its fork or its backup block is there, the fork not earlier and the backup block
\* at most one block earlier.  No earlier SegWit fork is missed by a start that
\* does not look for one.
SafeBackup(w) ==
    /\ BackupResults \subseteq {"ok"} /\ ~AllowCrash
    /\ \A a \in Args :
          /\ a.wallet = "enabled"
          /\ w <= a.forkheight /\ w <= BackupDue(a) + 1
          /\ w \in {a.forkheight, BackupDue(a)}
          /\ \A c \in Args : a.segwitfork = c.segwitfork
    /\ \A h \in StartHeights, b \in Branches :
          h < w /\ \A a \in Args : a.segwitfork => h < SegwitHeight[b]

\* A wallet copy from before the fork exists when the fork is active, if backups
\* succeed and the settings provide for one (SafeBackup): a restart with other
\* settings, a reorganisation or a SegWit fork ahead of the height does not make
\* the node skip it.
BackupByFork ==
    Live /\ isMVFHardForkActive => "pre" \in Backups

\* No block up to the fork height is validated with the new rules.
NewRulesOnlyAboveFork ==
    Live => \A h \in Heights : h <= tip.height /\ tip.rules[h] => h > FinalActivateForkHeight
=============================================================================
