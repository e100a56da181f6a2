------------------------------ MODULE Wallets -------------------------------
(***************************************************************************)
(* scripts/solana/create-test-wallets.ts, run from several terminals over  *)
(* one directory and prefix.  Each run makes the key files 1 .. count one  *)
(* after the other, naming each on the way under --print, may then ask for *)
(* an airdrop to each, and reports what it made when all went well.        *)
(* solana-keygen and the faucet are external: keygen refuses to write over *)
(* a file.                                                                 *)
(***************************************************************************)
EXTENDS Naturals, Sequences

CONSTANTS
  Terminals,
  MaxWallets   \* bound on --count (500 in the code)

ASSUME WalletsAssumption == MaxWallets \in Nat

Indices == 1..MaxWallets
NoKey == 0

VARIABLES
  keyFile,   \* index -> the key in the file, or NoKey
  made,      \* keys made so far
  funded,    \* keys that received an airdrop
  wallet,    \* terminal -> the run in it; own is the key it made for file i
  reported,  \* terminal -> the wallets its last complete run reported
  replaced   \* keys removed by a run with --force

walletVars == <<keyFile, made, funded, wallet, reported, replaced>>

WalletArgs == [count : Indices, force : BOOLEAN, fund : BOOLEAN]

NoRun == [pc |-> "none", i |-> 1, args |-> [count |-> 1, force |-> FALSE, fund |-> FALSE],
          own |-> NoKey, list |-> <<>>]

WalletsInit ==
  /\ keyFile = [i \in Indices |-> NoKey] /\ made = 0 /\ funded = {} /\ replaced = {}
  /\ wallet = [t \in Terminals |-> NoRun] /\ reported = [t \in Terminals |-> <<>>]

CreateWallets(t, a) ==
  /\ wallet[t].pc = "none"
  /\ wallet' = [wallet EXCEPT ![t] = [NoRun EXCEPT !.pc = "generate", !.args = a]]
  /\ reported' = [reported EXCEPT ![t] = <<>>]
  /\ UNCHANGED <<keyFile, made, funded, replaced>>

GoTo(t, pc) == wallet' = [wallet EXCEPT ![t].pc = pc]
At(t, pc) == wallet[t].pc = pc
Here(t) == keyFile[wallet[t].i]

\* A file that exists is removed under --force.  Without it the run dies: WalletDies.
ClearFile(t) ==
  /\ At(t, "generate")
  /\ Here(t) # NoKey => wallet[t].args.force
  /\ keyFile' = [keyFile EXCEPT ![wallet[t].i] = NoKey]
  /\ replaced' = replaced \cup ({Here(t)} \ {NoKey})
  /\ GoTo(t, "keygen")
  /\ UNCHANGED <<made, funded, reported>>

\* Mutant: the result of keygen is not looked at.
KeygenUnchecked(t) ==
  /\ At(t, "keygen")
  /\ IF Here(t) = NoKey
     THEN /\ made' = made + 1
          /\ keyFile' = [keyFile EXCEPT ![wallet[t].i] = made + 1]
          /\ wallet' = [wallet EXCEPT ![t].pc = "pubkey", ![t].own = made + 1]
     ELSE GoTo(t, "pubkey") /\ UNCHANGED <<made, keyFile>>
  /\ UNCHANGED <<funded, reported, replaced>>

\* keygen refuses a file that another run has made by now, and the run dies.
Keygen(t) ==
  /\ At(t, "keygen") /\ Here(t) = NoKey
  /\ made' = made + 1
  /\ keyFile' = [keyFile EXCEPT ![wallet[t].i] = made + 1]
  /\ wallet' = [wallet EXCEPT ![t].pc = "pubkey", ![t].own = made + 1]
  /\ UNCHANGED <<funded, reported, replaced>>

\* The public key of whatever is in the file by now.
ReadPubkey(t) ==
  LET w == wallet[t]
      list == Append(w.list, [i |-> w.i, key |-> Here(t), own |-> w.own])
      more == w.i < w.args.count
  IN /\ At(t, "pubkey") /\ Here(t) # NoKey
     /\ wallet' = [wallet EXCEPT ![t] =
          [w EXCEPT !.list = list, !.i = IF more THEN w.i + 1 ELSE 1,
                    !.pc = IF more THEN "generate" ELSE IF w.args.fund THEN "fund" ELSE "report"]]
     /\ UNCHANGED <<keyFile, made, funded, reported, replaced>>

FundWallet(t) ==
  LET w == wallet[t] IN
  /\ At(t, "fund")
  /\ funded' = funded \cup {w.list[w.i].key}
  /\ wallet' = [wallet EXCEPT ![t] =
       IF w.i < w.args.count THEN [w EXCEPT !.i = @ + 1] ELSE [w EXCEPT !.pc = "report"]]
  /\ UNCHANGED <<keyFile, made, reported, replaced>>

Report(t) ==
  /\ At(t, "report")
  /\ reported' = [reported EXCEPT ![t] = wallet[t].list]
  /\ wallet' = [wallet EXCEPT ![t] = NoRun]
  /\ UNCHANGED <<keyFile, made, funded, replaced>>

\* A file in the way, a keygen, a pubkey or an airdrop that fails, or a kill.
WalletDies(t) ==
  /\ wallet[t].pc # "none"
  /\ wallet' = [wallet EXCEPT ![t] = NoRun]
  /\ UNCHANGED <<keyFile, made, funded, reported, replaced>>

WalletStep ==
  \E t \in Terminals : ClearFile(t) \/ Keygen(t) \/ ReadPubkey(t) \/ FundWallet(t)
                       \/ Report(t) \/ WalletDies(t)

-----------------------------------------------------------------------------
(* Properties                                                              *)

\* The keys an entry names and was made for, unless a run with --force removed them.
OwnAndInPlace(w) ==
  /\ keyFile[w.i] = w.key \/ w.key \in replaced
  /\ w.key = w.own \/ w.own \in replaced

\* A run reports what it made, at its end and under --print on the way: the key it
\* names is in the file it names, and is the one this run generated, unless a run
\* with --force has removed the one or the other.  Without --force, therefore, no
\* two runs report the same file, though both may have looked for it before either
\* made it.
ReportsWhatItMade ==
  \A t \in Terminals :
    /\ \A n \in 1..Len(reported[t]) : OwnAndInPlace(reported[t][n])
    /\ \A n \in 1..Len(wallet[t].list) : OwnAndInPlace(wallet[t].list[n])
=============================================================================
