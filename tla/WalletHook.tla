----------------------------- MODULE WalletHook -----------------------------
(***************************************************************************)
(* The browser wallets of the dashboard (app/src/useSolanaWallet.ts, with  *)
(* the buttons of App.tsx and CreateJobForm.tsx that call it): which       *)
(* wallet is selected, whose key is shown, and the calls under way.        *)
(*                                                                         *)
(* A provider answers a call when the user of the wallet does.  Its state, *)
(* its event and the continuation of the awaiting call are one step: the   *)
(* events are emitted and the promises resolved in the same turn of the    *)
(* browser's event loop.  Between a call and its answer anything happens.  *)
(***************************************************************************)
EXTENDS Naturals, FiniteSets, FiniteSetsExt

CONSTANTS
  Wallets,   \* WALLET_ORDER, as numbers: the smaller, the earlier
  NoWallet,  \* null, of a wallet id
  Keys,      \* public keys of the wallets' accounts
  NoKey,     \* null, of a public key
  MaxCalls   \* bound: calls awaiting a wallet at a time

ASSUME WalletsAssumption == Wallets \subseteq Nat /\ NoWallet \notin Wallets
ASSUME KeysAssumption == NoKey \notin Keys
ASSUME CallsAssumption == MaxCalls \in Nat

VARIABLES
  localhost,   \* localhostMode: nothing is shown before the user asks
  installed,   \* providers found on window
  account,     \* publicKey of every provider
  stored,      \* the id in localStorage
  available,   \* availableWallets
  selected,    \* selectedWalletId
  shown,       \* publicKey
  connecting,  \* the buttons say CONNECTING or SWITCHING
  silent,      \* connect({onlyIfTrusted}) of the current effect awaits its answer
  calls,       \* calls of the user awaiting their answer
  strayed      \* history: the key shown was set by a call of another wallet

vars == <<localhost, installed, account, stored, available, selected, shown,
          connecting, silent, calls, strayed>>

Call ==
  [kind : {"connect"}, step : {"connecting"}, wallet : Wallets]
    \cup [kind : {"switch"}, step : {"disconnecting", "pausing", "connecting"},
          wallet : Wallets]
    \cup [kind : {"disconnect"}, step : {"disconnecting"}, wallet : Wallets]
    \cup [kind : {"select"}, step : {"disconnecting"}, wallet : Wallets, next : Wallets]

Replace(c, d) == calls' = (calls \ {c}) \cup {d}
Return(c) == calls' = calls \ {c}

-----------------------------------------------------------------------------
(* Selection.                                                               *)

\* Variants: the preferred wallet need not be there; nothing stands in for it.
PickAnyway(wallets, preferred) ==
  IF preferred # NoWallet THEN preferred
  ELSE IF wallets = {} THEN NoWallet ELSE Min(wallets)

PickPreferred(wallets, preferred) ==
  IF preferred \in wallets THEN preferred ELSE NoWallet

\* pickWalletId
Pick(wallets, preferred) ==
  IF preferred \in wallets THEN preferred
  ELSE IF wallets = {} THEN NoWallet ELSE Min(wallets)

Preferred == IF selected # NoWallet THEN selected ELSE stored

\* Variant: the key of the last provider stays.
EffectsStale(wallets, w) ==
  /\ available' = wallets /\ selected' = w /\ stored' = w
  /\ IF w = selected /\ Cardinality(wallets) = Cardinality(available)
     THEN UNCHANGED <<shown, silent, strayed>>
     ELSE /\ silent' = (w # NoWallet /\ ~localhost)
          /\ strayed' = FALSE /\ UNCHANGED shown

\* The render after wallets were listed and w was selected.  The first effect stores
\* the selection; the second runs when provider or number of wallets changed, drops
\* the handlers of the last one and, unless on localhost, connects if trusted.
Effects(wallets, w) ==
  /\ available' = wallets /\ selected' = w /\ stored' = w
  /\ IF w = selected /\ Cardinality(wallets) = Cardinality(available)
     THEN UNCHANGED <<shown, silent, strayed>>
     ELSE /\ shown' = IF w = NoWallet \/ localhost THEN NoKey ELSE account[w]
          /\ silent' = (w # NoWallet /\ ~localhost)
          /\ strayed' = FALSE

\* The page is loaded again: fresh providers, a fresh state, the stored id.
Load ==
  /\ LET w == Pick(installed, stored)
     IN  /\ available' = installed /\ selected' = w /\ stored' = w
         /\ silent' = (w # NoWallet /\ ~localhost)
  /\ account' = [w \in Wallets |-> NoKey]
  /\ shown' = NoKey /\ connecting' = FALSE /\ calls' = {} /\ strayed' = FALSE
  /\ UNCHANGED <<localhost, installed>>

\* An extension injects its provider after the page has looked for it.
Inject(w) ==
  /\ w \notin installed
  /\ installed' = installed \cup {w}
  /\ UNCHANGED <<localhost, account, stored, available, selected, shown, connecting,
                 silent, calls, strayed>>

-----------------------------------------------------------------------------
(* What the user calls: the buttons and the list of the page.               *)

\* CONNECT; or SWITCH ACCOUNT and DISCONNECT, which with a key has a wallet.
ConnectButton == shown = NoKey /\ ~connecting /\ selected # NoWallet
KeyButtons == shown # NoKey /\ ~connecting /\ selected # NoWallet

\* The list is there with two wallets, also while connecting.
Offered(w) == Cardinality(available) > 1 /\ w \in available

Room == Cardinality(calls) < MaxCalls

Connect ==
  /\ Room /\ ConnectButton
  /\ LET w == Pick(installed, Preferred)
     IN  /\ Effects(installed, w)
         /\ calls' = calls \cup {[kind |-> "connect", step |-> "connecting", wallet |-> w]}
  /\ connecting' = TRUE
  /\ UNCHANGED <<localhost, installed, account>>

\* A wallet that has a key is disconnected first.
SwitchWallet ==
  /\ Room /\ KeyButtons
  /\ LET w == Pick(installed, Preferred)
     IN  /\ Effects(installed, w)
         /\ calls' = calls \cup
              {[kind |-> "switch", wallet |-> w,
                step |-> IF account[w] = NoKey THEN "connecting" ELSE "disconnecting"]}
  /\ connecting' = TRUE
  /\ UNCHANGED <<localhost, installed, account>>

Disconnect ==
  /\ Room /\ KeyButtons
  /\ calls' = calls \cup
       {[kind |-> "disconnect", step |-> "disconnecting", wallet |-> selected]}
  /\ UNCHANGED <<localhost, installed, account, stored, available, selected, shown,
                 connecting, silent, strayed>>

\* The rest of selectWallet: the key goes, and comes with the effects of w.
Selected(w) ==
  /\ available' = available /\ selected' = w /\ stored' = w
  /\ shown' = IF w = selected \/ localhost THEN NoKey ELSE account[w]
  /\ silent' = IF w = selected THEN silent ELSE ~localhost
  /\ strayed' = FALSE

SelectWallet(w) ==
  /\ Room /\ Offered(w) /\ w # selected
  /\ IF account[selected] = NoKey
     THEN Selected(w) /\ UNCHANGED calls
     ELSE /\ calls' = calls \cup {[kind |-> "select", step |-> "disconnecting",
                                   wallet |-> selected, next |-> w]}
          /\ UNCHANGED <<stored, available, selected, shown, silent, strayed>>
  /\ UNCHANGED <<localhost, installed, account, connecting>>

-----------------------------------------------------------------------------
(* What the wallets do.                                                     *)

\* The handlers of the selected provider take its key.
Emit(w, key) ==
  /\ account' = [account EXCEPT ![w] = key]
  /\ IF w = selected THEN shown' = key /\ strayed' = FALSE
     ELSE UNCHANGED <<shown, strayed>>

\* The user takes another account in the wallet, leaves the site, or approves the
\* silent connect of an effect that was cleaned up.
AccountChanged(w, key) ==
  /\ w \in installed /\ key # account[w]
  /\ Emit(w, key)
  /\ UNCHANGED <<localhost, installed, stored, available, selected, connecting, silent, calls>>

\* The effect's own connect; one whose effect was cleaned up sets nothing.
SilentlyConnected ==
  /\ silent /\ silent' = FALSE
  /\ \E key \in Keys \cup {NoKey} :
       /\ account[selected] # NoKey => key = account[selected]
       /\ Emit(selected, key)
  /\ UNCHANGED <<localhost, installed, stored, available, selected, connecting, calls>>

\* The wallet disconnects, or does not: c goes on without its key.
Disconnected(c) ==
  /\ c.step = "disconnecting"
  /\ \E done \in BOOLEAN :
       /\ account' = [account EXCEPT ![c.wallet] = IF done THEN NoKey ELSE @]
       /\ CASE c.kind = "switch" ->
                 /\ Replace(c, [c EXCEPT !.step = "pausing"])
                 /\ shown' = NoKey /\ strayed' = FALSE
                 /\ UNCHANGED <<stored, available, selected, silent>>
            [] c.kind = "disconnect" ->
                 /\ Return(c)
                 /\ IF done THEN shown' = NoKey /\ strayed' = FALSE
                    ELSE UNCHANGED <<shown, strayed>>
                 /\ UNCHANGED <<stored, available, selected, silent>>
            [] c.kind = "select" -> Return(c) /\ Selected(c.next)
  /\ UNCHANGED <<localhost, installed, connecting>>

Paused(c) ==
  /\ c.step = "pausing"
  /\ Replace(c, [c EXCEPT !.step = "connecting"])
  /\ UNCHANGED <<localhost, installed, account, stored, available, selected, shown,
                 connecting, silent, strayed>>

\* The user of the wallet approves: its key is shown, whichever wallet is selected.
Approved(c) ==
  /\ c.step = "connecting"
  /\ \E key \in Keys :
       /\ account[c.wallet] # NoKey => key = account[c.wallet]
       /\ account' = [account EXCEPT ![c.wallet] = key]
       /\ shown' = key
  /\ strayed' = (c.wallet # selected)
  /\ connecting' = FALSE /\ Return(c)
  /\ UNCHANGED <<localhost, installed, stored, available, selected, silent>>

\* Variants: connecting is not reset when the call throws; whoever refuses is asked
\* again.
RejectedBusy(c) ==
  /\ c.step = "connecting"
  /\ Return(c)
  /\ UNCHANGED <<localhost, installed, account, stored, available, selected, shown,
                 connecting, silent, strayed>>

RejectedAskAgain(c) ==
  /\ c.step = "connecting"
  /\ IF c.kind = "switch"
     THEN Replace(c, [c EXCEPT !.step = "disconnecting"]) /\ UNCHANGED connecting
     ELSE connecting' = FALSE /\ Return(c)
  /\ UNCHANGED <<localhost, installed, account, stored, available, selected, shown,
                 silent, strayed>>

Rejected(c) ==
  /\ c.step = "connecting"
  /\ connecting' = FALSE /\ Return(c)
  /\ UNCHANGED <<localhost, installed, account, stored, available, selected, shown,
                 silent, strayed>>

-----------------------------------------------------------------------------
\* A page of a browser that has been here before, once loaded.
Init ==
  /\ localhost \in BOOLEAN
  /\ installed \in SUBSET Wallets
  /\ account = [w \in Wallets |-> NoKey]
  /\ \E before \in Wallets \cup {NoWallet} : stored = Pick(installed, before)
  /\ available = installed /\ selected = stored
  /\ silent = (selected # NoWallet /\ ~localhost)
  /\ shown = NoKey /\ connecting = FALSE /\ calls = {} /\ strayed = FALSE

User ==
  \/ Connect \/ SwitchWallet \/ Disconnect \/ Load
  \/ \E w \in Wallets : SelectWallet(w)

Wallet ==
  \/ SilentlyConnected
  \/ \E w \in Wallets : Inject(w) \/ \E key \in Keys \cup {NoKey} : AccountChanged(w, key)

Goes(c) == Disconnected(c) \/ Paused(c) \/ Approved(c) \/ Rejected(c)

Next == User \/ Wallet \/ \E c \in calls : Goes(c)

Spec == Init /\ [][Next]_vars

(* Whoever is asked by a wallet answers some time, and the pause passes.    *)
Fairness ==
  \A w \in Wallets, kind \in {"connect", "switch"} :
    WF_vars(\E c \in calls : c.kind = kind /\ c.wallet = w /\ Goes(c))

FairSpec == Spec /\ Fairness

-----------------------------------------------------------------------------
TypeOK ==
  /\ localhost \in BOOLEAN /\ connecting \in BOOLEAN
  /\ silent \in BOOLEAN /\ strayed \in BOOLEAN
  /\ installed \in SUBSET Wallets /\ available \in SUBSET installed
  /\ account \in [Wallets -> Keys \cup {NoKey}]
  /\ stored \in Wallets \cup {NoWallet} /\ selected \in available \cup {NoWallet}
  /\ shown \in Keys \cup {NoKey}
  /\ calls \in SUBSET Call /\ Cardinality(calls) <= MaxCalls
  /\ \A c \in calls : c.wallet \in available

\* The calls that CONNECTING stands for.
Busy == {c \in calls : c.kind \in {"connect", "switch"}}

(* The buttons say CONNECTING while exactly one connect or switch is under   *)
(* way, however the list of wallets and the wallets' events interfere        *)
(* (useSolanaWallet.ts:230-285, App.tsx:722-761).                            *)
ConnectingIsBusy ==
  Cardinality(Busy) = IF connecting THEN 1 ELSE 0

(* The key shown is the one the selected provider signs with, through        *)
(* switches, late silent connects, account changes and calls that overlap;   *)
(* only a connect that outlives a selection can show another wallet's key    *)
(* (useSolanaWallet.ts:181-313).                                             *)
ShownIsSelected == shown # NoKey /\ ~strayed => shown = account[selected]

(* A wallet is selected as soon as one is listed, it is one of the list, and *)
(* the stored choice follows it, the empty one too: CONNECT is disabled only *)
(* where no wallet was found (useSolanaWallet.ts:148-179).                   *)
SelectionHeld ==
  /\ stored = selected
  /\ IF available = {} THEN selected = NoWallet ELSE selected \in available

\* How many answers a call that connects still needs.
AnswersLeft(c) ==
  CASE c.step = "disconnecting" -> 3 [] c.step = "pausing" -> 2 [] c.step = "connecting" -> 1

Nearer(d, c) == d.kind = c.kind /\ d.wallet = c.wallet /\ AnswersLeft(d) < AnswersLeft(c)

(* While the buttons say CONNECTING, the call they stand for is never        *)
(* replaced, only brought nearer to its end, whatever the user selects and   *)
(* the wallets report meanwhile (useSolanaWallet.ts:230-285).                *)
ConnectAdvances ==
  [][connecting /\ connecting' =>
       \A c \in Busy : \E d \in Busy' : d = c \/ Nearer(d, c)]_vars

(* CONNECTING ends, also when the user selects another wallet meanwhile, if  *)
(* whoever a wallet asks answers (useSolanaWallet.ts:230-285).               *)
ConnectEnds == connecting ~> ~connecting
=============================================================================
