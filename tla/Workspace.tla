----------------------------- MODULE Workspace ------------------------------
(***************************************************************************)
(* An operator's checkout: the commands of scripts/, in any order.         *)
(* create-test-wallets runs in several terminals at the same time, one     *)
(* export-idls at a time beside anchor builds, and one version.ts at a     *)
(* time beside commits and tags.  The four families of commands share no   *)
(* file, so a behaviour follows one of them: what one does is the same     *)
(* whatever steps of the others come in between.                           *)
(***************************************************************************)
EXTENDS EnvFiles, Wallets, Idls, Release

CONSTANT MaxCommands   \* bound on commands, by family

VARIABLES
  family,   \* the family of commands the behaviour follows
  commands  \* commands issued

workspaceVars == <<envVars, walletVars, idlVars, releaseVars, family, commands>>

Families == {"env", "wallets", "idls", "ci"}

Init ==
  /\ EnvInit /\ WalletsInit /\ IdlsInit /\ ReleaseInit
  /\ family \in Families /\ commands = 0

Issued ==
  /\ commands < MaxCommands[family]
  /\ commands' = commands + 1

Env ==
  /\ family = "env"
  /\ \/ Issued /\ EnvCommand
     \/ UNCHANGED commands /\ \E f \in Files, e \in Edits : Edit(f, e)
  /\ UNCHANGED <<walletVars, idlVars, releaseVars, family>>

Wallet ==
  /\ family = "wallets"
  /\ \/ Issued /\ \E t \in Terminals, a \in WalletArgs : CreateWallets(t, a)
     \/ UNCHANGED commands /\ WalletStep
  /\ UNCHANGED <<envVars, idlVars, releaseVars, family>>

Idl ==
  /\ family = "idls"
  /\ \/ Issued /\ \E a \in ExportArgs : ExportIdls(a)
     \/ UNCHANGED commands /\ (ExportIdl \/ WriteIndex \/ ExportDies)
     \/ UNCHANGED commands /\ \E p \in Programs, json \in BOOLEAN : AnchorBuild(p, json)
  /\ UNCHANGED <<envVars, walletVars, releaseVars, family>>

Ci ==
  /\ family = "ci"
  /\ \/ Issued /\ ReleaseCommand
     \/ UNCHANGED commands /\ ReleaseStep
  /\ UNCHANGED <<envVars, walletVars, idlVars, family>>

Next == Env \/ Wallet \/ Idl \/ Ci

Spec == Init /\ [][Next]_workspaceVars
=============================================================================
