-------------------------- MODULE WalletHookProofs --------------------------
(***************************************************************************)
(* What holds of WalletHook for any wallets, any keys and any number of    *)
(* calls that await a wallet at a time.                                    *)
(***************************************************************************)
EXTENDS WalletHook, FiniteSetTheorems, WellFoundedInduction, TLAPS

-----------------------------------------------------------------------------
(* Picking a wallet.                                                        *)

\* The first wallet in the order of preference is one of the wallets.
LEMMA MinIsMember ==
  ASSUME NEW S \in SUBSET Nat, S # {}
  PROVE  Min(S) \in S
<1> DEFINE Less == OpToRel(<, Nat)
<1>1. PICK x \in S : \A y \in S : ~ (<<y, x>> \in Less)
  <2> HIDE DEF Less
  <2>1. IsWellFoundedOn(Less, Nat)
    BY NatLessThanWellFounded DEF Less
  <2>2. QED
    BY <2>1, WFMin
<1>2. ASSUME NEW y \in S PROVE x <= y
  <2>1. SUFFICES ASSUME y < x PROVE FALSE
    OBVIOUS
  <2>2. <<y, x>> \in Nat \X Nat /\ <<y, x>>[1] < <<y, x>>[2]
    BY <2>1
  <2>3. Less = {ss \in Nat \X Nat : ss[1] < ss[2]}
    BY DEF OpToRel
  <2> HIDE DEF Less
  <2>4. <<y, x>> \in Less
    BY <2>2, <2>3
  <2>5. QED
    BY <1>1, <2>4
<1>3. QED
  BY <1>2 DEF Min

LEMMA PickIsListed ==
  ASSUME NEW wallets \in SUBSET Wallets, NEW preferred
  PROVE  IF wallets = {} THEN Pick(wallets, preferred) = NoWallet
         ELSE Pick(wallets, preferred) \in wallets
BY WalletsAssumption, MinIsMember DEF Pick

-----------------------------------------------------------------------------
(* The invariant: what is selected and shown, and the calls under way.      *)

Page ==
  /\ localhost \in BOOLEAN /\ silent \in BOOLEAN /\ strayed \in BOOLEAN
  /\ installed \in SUBSET Wallets /\ available \in SUBSET installed
  /\ account \in [Wallets -> Keys \cup {NoKey}] /\ shown \in Keys \cup {NoKey}
  /\ SelectionHeld /\ ShownIsSelected
  /\ silent => selected # NoWallet

\* A selection that awaits a disconnect is of another wallet, also a listed one.
Listed(c) ==
  /\ c \in Call /\ c.wallet \in available
  /\ c.kind = "select" => c.next \in available /\ c.next # c.wallet

CallsListed ==
  /\ IsFiniteSet(calls) /\ Cardinality(calls) <= MaxCalls
  /\ \A c \in calls : Listed(c)

\* One connect or switch is under way while connecting, else none.
BusyIsOne ==
  /\ connecting \in BOOLEAN
  /\ IF connecting THEN \E c : Busy = {c} ELSE Busy = {}

HookInv == Page /\ CallsListed /\ BusyIsOne

LEMMA InitHookInv == Init => HookInv
<1> SUFFICES ASSUME Init PROVE HookInv
  OBVIOUS
<1>1. IF available = {} THEN selected = NoWallet ELSE selected \in available
  BY PickIsListed DEF Init
<1>2. IsFiniteSet(calls) /\ Cardinality(calls) = 0
  BY FS_EmptySet DEF Init
<1>3. silent \in BOOLEAN /\ (silent => selected # NoWallet)
  BY Zenon DEF Init
<1>4. Page
  BY <1>1, <1>3 DEF Init, Page, SelectionHeld, ShownIsSelected
<1>5. CallsListed
  BY <1>2, CallsAssumption DEF Init, CallsListed
<1>6. calls = {} /\ connecting = FALSE
  BY DEF Init
<1>7. BusyIsOne
  BY <1>6, Zenon DEF BusyIsOne, Busy
<1>8. QED
  BY <1>4, <1>5, <1>7 DEF HookInv

-----------------------------------------------------------------------------
(* What is selected and shown.                                              *)

LEMMA EffectsPage ==
  ASSUME Page, NEW w, Effects(installed, w),
         IF installed = {} THEN w = NoWallet ELSE w \in installed,
         UNCHANGED <<localhost, installed, account>>
  PROVE  Page'
<1>1. silent' \in BOOLEAN /\ (silent' => selected' # NoWallet)
  <2>1. CASE w = selected /\ Cardinality(installed) = Cardinality(available)
    BY <2>1 DEF Effects, Page
  <2>2. CASE ~(w = selected /\ Cardinality(installed) = Cardinality(available))
    <3>1. silent' = (w # NoWallet /\ ~localhost) /\ selected' = w
      BY <2>2 DEF Effects
    <3>2. QED
      BY <3>1, Zenon
  <2>3. QED
    BY <2>1, <2>2
<1>2. SelectionHeld'
  BY DEF Effects, SelectionHeld
<1>3. /\ strayed' \in BOOLEAN /\ shown' \in Keys \cup {NoKey}
      /\ shown' # NoKey /\ ~strayed' => shown' = account[selected']
  BY WalletsAssumption DEF Effects, Page, ShownIsSelected
<1>4. QED
  BY <1>1, <1>2, <1>3 DEF Page, Effects, ShownIsSelected

LEMMA SelectedPage ==
  ASSUME Page, NEW w \in available, Selected(w), account' \in [Wallets -> Keys \cup {NoKey}],
         account'[w] = account[w], UNCHANGED <<localhost, installed>>
  PROVE  Page'
<1>1. silent' \in BOOLEAN
  <2>1. CASE w = selected
    BY <2>1 DEF Selected, Page
  <2>2. CASE w # selected
    <3>1. silent' = ~localhost
      BY <2>2 DEF Selected
    <3>2. QED
      BY <3>1, Zenon
  <2>3. QED
    BY <2>1, <2>2
<1>2. w # NoWallet /\ w \in Wallets /\ SelectionHeld'
  BY WalletsAssumption DEF Page, Selected, SelectionHeld
<1>3. /\ shown' \in Keys \cup {NoKey} /\ strayed' = FALSE
      /\ shown' # NoKey => shown' = account'[selected']
  BY <1>2 DEF Selected, Page
<1>4. QED
  BY <1>1, <1>2, <1>3 DEF Page, Selected, ShownIsSelected

LEMMA EmitPage ==
  ASSUME Page, NEW w \in Wallets, NEW key \in Keys \cup {NoKey}, Emit(w, key),
         silent' \in BOOLEAN, silent' => silent,
         UNCHANGED <<localhost, installed, stored, available, selected>>
  PROVE  Page'
<1>1. SelectionHeld'
  BY DEF Page, SelectionHeld
<1>2. ShownIsSelected' /\ account' \in [Wallets -> Keys \cup {NoKey}]
  BY DEF Page, Emit, ShownIsSelected
<1>3. strayed' \in BOOLEAN /\ shown' \in Keys \cup {NoKey}
  BY DEF Page, Emit
<1>4. QED
  BY <1>1, <1>2, <1>3 DEF Page

\* What a step does to the calls.
CallStep ==
  \/ UNCHANGED calls
  \/ \E d : Room /\ calls' = calls \cup {d} /\ Listed(d)'
  \/ \E c \in calls : \E d : Replace(c, d) /\ Listed(d)'
  \/ \E c \in calls : Return(c)
  \/ calls' = {}

LEMMA CallStepListed ==
  ASSUME CallsListed, CallStep, available \subseteq available' \/ calls' = {}
  PROVE  CallsListed'
<1>0. IsFiniteSet(calls) /\ Cardinality(calls) \in Nat /\ Cardinality(calls) <= MaxCalls
  BY FS_CardinalityType DEF CallsListed
<1> USE CallsAssumption
<1>1. available \subseteq available' => \A c \in calls : Listed(c)'
  BY DEF CallsListed, Listed
<1>2. CASE UNCHANGED calls
  BY <1>0, <1>1, <1>2 DEF CallsListed
<1>3. ASSUME NEW d, Room, calls' = calls \cup {d}, Listed(d)' PROVE CallsListed'
  <2>1. available \subseteq available'
    BY <1>3
  <2>2. IsFiniteSet(calls') /\ Cardinality(calls') <= Cardinality(calls) + 1
    BY <1>0, <1>3, FS_AddElement
  <2>3. Cardinality(calls') \in Nat /\ Cardinality(calls') <= MaxCalls
    BY <1>0, <1>3, <2>2, FS_CardinalityType DEF Room
  <2>4. QED
    BY <1>1, <1>3, <2>1, <2>2, <2>3 DEF CallsListed
<1>4. ASSUME NEW c \in calls, NEW d, Replace(c, d), Listed(d)' PROVE CallsListed'
  <2>1. available \subseteq available'
    BY <1>4 DEF Replace
  <2> DEFINE rest == calls \ {c}
  <2>2. IsFiniteSet(rest) /\ Cardinality(rest) = Cardinality(calls) - 1 /\ calls' = rest \cup {d}
    BY <1>0, <1>4, FS_RemoveElement DEF Replace
  <2>3. IsFiniteSet(calls') /\ Cardinality(calls') <= Cardinality(rest) + 1
    <3> HIDE DEF rest
    <3>1. IsFiniteSet(rest \cup {d})
      BY <2>2, FS_AddElement
    <3>2. Cardinality(rest) \in Nat
      BY <2>2, FS_CardinalityType
    <3>3. Cardinality(rest \cup {d}) = Cardinality(rest)
          \/ Cardinality(rest \cup {d}) = Cardinality(rest) + 1
      BY <2>2, FS_AddElement
    <3>4. QED
      BY <2>2, <3>1, <3>2, <3>3
  <2>4. Cardinality(calls') \in Nat
    BY <2>3, FS_CardinalityType
  <2>5. QED
    BY <1>0, <1>1, <1>4, <2>1, <2>2, <2>3, <2>4 DEF CallsListed, Replace
<1>5. ASSUME NEW c \in calls, Return(c), available \subseteq available' PROVE CallsListed'
  <2>1. IsFiniteSet(calls') /\ Cardinality(calls') = Cardinality(calls) - 1
    BY <1>0, <1>5, FS_RemoveElement DEF Return
  <2>2. QED
    BY <1>0, <1>1, <1>5, <2>1 DEF CallsListed, Return
<1>6. CASE calls' = {}
  <2>1. IsFiniteSet(calls') /\ Cardinality(calls') = 0
    BY <1>6, FS_EmptySet
  <2>2. QED
    BY <1>6, <2>1 DEF CallsListed
<1>7. QED
  BY <1>2, <1>3, <1>4, <1>5, <1>6 DEF CallStep

-----------------------------------------------------------------------------
(* The steps.                                                               *)

LEMMA PickedWallet ==
  ASSUME Page, selected # NoWallet
  PROVE  /\ Pick(installed, Preferred) \in installed /\ installed # {}
         /\ Pick(installed, Preferred) \in Wallets
<1>1. selected \in installed
  BY DEF Page, SelectionHeld
<1>2. QED
  BY <1>1, PickIsListed DEF Page

LEMMA UserKeepsInv ==
  ASSUME HookInv, User
  PROVE  HookInv'
<1>0. Page /\ CallsListed /\ BusyIsOne
  BY DEF HookInv
<1>1. CASE Load
  <2> DEFINE w == Pick(installed, stored)
  <2>1. IF installed = {} THEN w = NoWallet ELSE w \in installed
    BY <1>0, PickIsListed DEF Page
  <2>2. silent' \in BOOLEAN /\ (silent' => selected' # NoWallet)
    <3>1. silent' = (w # NoWallet /\ ~localhost) /\ selected' = w
      BY <1>1 DEF Load
    <3>2. QED
      BY <3>1, Zenon
  <2>3. Page'
    BY <1>0, <1>1, <2>1, <2>2 DEF Load, Page, SelectionHeld, ShownIsSelected
  <2>4. CallsListed'
    BY <1>0, <1>1, CallStepListed DEF Load, CallStep
  <2>5. calls' = {} /\ connecting' = FALSE
    BY <1>1 DEF Load
  <2>6. BusyIsOne'
    BY <2>5, Zenon DEF BusyIsOne, Busy
  <2>7. QED
    BY <2>3, <2>4, <2>6 DEF HookInv
<1>2. CASE Connect \/ SwitchWallet
  <2> DEFINE w == Pick(installed, Preferred)
  <2>1. /\ w \in installed /\ installed # {} /\ w \in Wallets /\ ~connecting
        /\ UNCHANGED <<localhost, installed, account>> /\ Effects(installed, w)
        /\ connecting' = TRUE
    BY <1>0, <1>2, PickedWallet DEF Connect, SwitchWallet, ConnectButton, KeyButtons
  <2>2. PICK d : /\ Room /\ calls' = calls \cup {d} /\ d.wallet = w
                 /\ d \in Call /\ d.kind \in {"connect", "switch"}
    <3>1. CASE Connect
      <4> DEFINE d == [kind |-> "connect", step |-> "connecting", wallet |-> w]
      <4>1. Room /\ calls' = calls \cup {d}
        BY <3>1 DEF Connect
      <4>2. d \in Call
        BY <2>1 DEF Call
      <4>3. QED
        BY <4>1, <4>2
    <3>2. CASE SwitchWallet
      <4> DEFINE d == [kind |-> "switch", wallet |-> w,
                       step |-> IF account[w] = NoKey THEN "connecting" ELSE "disconnecting"]
      <4>1. Room /\ calls' = calls \cup {d}
        BY <3>2 DEF SwitchWallet
      <4>2. d \in Call
        BY <2>1 DEF Call
      <4>3. QED
        BY <4>1, <4>2
    <3>3. QED
      BY <1>2, <3>1, <3>2
  <2> HIDE DEF w
  <2>3. available' = installed /\ available \subseteq available'
    BY <1>0, <2>1 DEF Effects, Page
  <2>4. Page'
    BY <1>0, <2>1, EffectsPage
  <2>5. CallsListed'
    BY <1>0, <2>1, <2>2, <2>3, CallStepListed DEF CallStep, Listed
  <2>6. Busy' = {d}
    BY <1>0, <2>1, <2>2 DEF BusyIsOne, Busy
  <2>7. QED
    BY <2>1, <2>4, <2>5, <2>6 DEF HookInv, BusyIsOne
<1>3. CASE Disconnect
  <2> DEFINE d == [kind |-> "disconnect", step |-> "disconnecting", wallet |-> selected]
  <2>1. selected \in available /\ selected \in Wallets
    BY <1>0, <1>3 DEF Disconnect, KeyButtons, Page, SelectionHeld
  <2>2. d \in Call
    BY <2>1 DEF Call
  <2>3. Page'
    BY <1>0, <1>3 DEF Disconnect, Page, SelectionHeld, ShownIsSelected
  <2>4. CallsListed'
    BY <1>0, <1>3, <2>1, <2>2, CallStepListed DEF Disconnect, CallStep, Listed
  <2>5. Busy' = Busy /\ UNCHANGED connecting
    BY <1>3 DEF Disconnect, Busy
  <2>6. QED
    BY <1>0, <2>3, <2>4, <2>5 DEF HookInv, BusyIsOne
<1>4. ASSUME NEW w \in Wallets, SelectWallet(w) PROVE HookInv'
  <2>1. w \in available /\ w # selected /\ UNCHANGED <<localhost, installed, account, connecting>>
    BY <1>4 DEF SelectWallet, Offered
  <2>2. CASE account[selected] = NoKey
    <3>1. Selected(w) /\ UNCHANGED calls
      BY <1>4, <2>2 DEF SelectWallet
    <3>2. Page'
      BY <1>0, <2>1, <3>1, SelectedPage DEF Page
    <3>3. CallsListed'
      BY <1>0, <3>1, CallStepListed DEF CallStep, Selected
    <3>4. QED
      BY <1>0, <2>1, <3>1, <3>2, <3>3 DEF HookInv, BusyIsOne, Busy
  <2>3. CASE account[selected] # NoKey
    <3> DEFINE d == [kind |-> "select", step |-> "disconnecting", wallet |-> selected, next |-> w]
    <3>1. /\ Room /\ calls' = calls \cup {d}
          /\ UNCHANGED <<stored, available, selected, shown, silent, strayed>>
      BY <1>4, <2>3 DEF SelectWallet
    <3>2. selected \in available /\ selected \in Wallets
      BY <1>0, <2>1 DEF Page, SelectionHeld
    <3>3. d \in Call
      BY <3>2 DEF Call
    <3>4. Listed(d)'
      BY <2>1, <3>1, <3>2, <3>3 DEF Listed
    <3>5. Page'
      BY <1>0, <2>1, <3>1 DEF Page, SelectionHeld, ShownIsSelected
    <3>6. CallsListed'
      BY <1>0, <3>1, <3>4, CallStepListed DEF CallStep
    <3>7. Busy' = Busy
      BY <3>1 DEF Busy
    <3>8. QED
      BY <1>0, <2>1, <3>5, <3>6, <3>7 DEF HookInv, BusyIsOne
  <2>4. QED
    BY <2>2, <2>3
<1>5. QED
  BY <1>1, <1>2, <1>3, <1>4 DEF User

LEMMA WalletKeepsInv ==
  ASSUME HookInv, Wallet
  PROVE  HookInv'
<1>0. Page /\ CallsListed /\ BusyIsOne
  BY DEF HookInv
<1>1. UNCHANGED <<calls, connecting, available>>
  BY DEF Wallet, SilentlyConnected, Inject, AccountChanged
<1>2. CallsListed' /\ BusyIsOne'
  <2>1. CallsListed'
    BY <1>0, <1>1, CallStepListed DEF CallStep
  <2>2. QED
    BY <1>0, <1>1, <2>1 DEF BusyIsOne, Busy
<1>3. CASE SilentlyConnected
  <2>1. PICK key \in Keys \cup {NoKey} : Emit(selected, key)
    BY <1>3 DEF SilentlyConnected
  <2>2. selected \in Wallets
    BY <1>0, <1>3 DEF SilentlyConnected, Page, SelectionHeld
  <2>3. Page'
    BY <1>0, <1>3, <2>1, <2>2, EmitPage DEF SilentlyConnected
  <2>4. QED
    BY <1>2, <2>3 DEF HookInv
<1>4. ASSUME NEW w \in Wallets, Inject(w) PROVE HookInv'
  <2>1. Page'
    BY <1>0, <1>4 DEF Inject, Page, SelectionHeld, ShownIsSelected
  <2>2. QED
    BY <1>2, <2>1 DEF HookInv
<1>5. ASSUME NEW w \in Wallets, NEW key \in Keys \cup {NoKey}, AccountChanged(w, key) PROVE HookInv'
  <2>1. Page'
    BY <1>0, <1>5, EmitPage DEF AccountChanged, Page
  <2>2. QED
    BY <1>2, <2>1 DEF HookInv
<1>6. QED
  BY <1>3, <1>4, <1>5 DEF Wallet

LEMMA GoesKeepsInv ==
  ASSUME HookInv, NEW c \in calls, Goes(c)
  PROVE  HookInv'
<1>0. Page /\ CallsListed /\ BusyIsOne /\ Listed(c) /\ c \in Call /\ c.wallet \in Wallets
  BY DEF HookInv, CallsListed, Listed, Page
<1>1. CASE Disconnected(c)
  <2>1. PICK done \in BOOLEAN :
          account' = [account EXCEPT ![c.wallet] = IF done THEN NoKey ELSE @]
          /\ CASE c.kind = "switch" ->
                 /\ Replace(c, [c EXCEPT !.step = "pausing"])
                 /\ shown' = NoKey /\ strayed' = FALSE
                 /\ UNCHANGED <<stored, available, selected, silent>>
            [] c.kind = "disconnect" ->
                 /\ Return(c)
                 /\ IF done THEN shown' = NoKey /\ strayed' = FALSE
                    ELSE UNCHANGED <<shown, strayed>>
                 /\ UNCHANGED <<stored, available, selected, silent>>
            [] c.kind = "select" -> Return(c) /\ Selected(c.next)
    BY <1>1 DEF Disconnected
  <2>2. /\ account' \in [Wallets -> Keys \cup {NoKey}]
        /\ \A w \in Wallets : w # c.wallet => account'[w] = account[w]
        /\ ~done => account' = account
        /\ UNCHANGED <<localhost, installed, connecting>> /\ c.step = "disconnecting"
    BY <1>0, <1>1, <2>1 DEF Disconnected, Page
  <2>3. c.kind \in {"switch", "disconnect", "select"}
    BY <1>0, <2>2 DEF Call
  <2>4. CASE c.kind = "switch"
    <3> DEFINE d == [c EXCEPT !.step = "pausing"]
    <3>1. /\ Replace(c, d) /\ shown' = NoKey /\ strayed' = FALSE
          /\ UNCHANGED <<stored, available, selected, silent>>
      BY <2>1, <2>4
    <3>2. d \in Call /\ d.kind = "switch" /\ d.wallet = c.wallet
      BY <1>0, <2>4 DEF Call
    <3> HIDE DEF d
    <3>3. Page'
      BY <1>0, <2>2, <3>1 DEF Page, SelectionHeld, ShownIsSelected
    <3>4. Listed(d)'
      BY <1>0, <3>1, <3>2 DEF Listed
    <3>5. CallsListed'
      BY <1>0, <3>1, <3>4, CallStepListed DEF CallStep
    <3>6. connecting /\ Busy = {c} /\ connecting' = TRUE
      BY <1>0, <2>2, <2>4 DEF BusyIsOne, Busy
    <3>7. Busy' = {d}
      BY <3>1, <3>2, <3>6 DEF Busy, Replace
    <3>8. QED
      BY <3>3, <3>5, <3>6, <3>7 DEF HookInv, BusyIsOne
  <2>5. CASE c.kind = "disconnect"
    <3>1. /\ Return(c) /\ UNCHANGED <<stored, available, selected, silent>>
          /\ IF done THEN shown' = NoKey /\ strayed' = FALSE
             ELSE UNCHANGED <<shown, strayed>>
      BY <2>1, <2>5
    <3>2. Page'
      BY <1>0, <2>2, <3>1 DEF Page, SelectionHeld, ShownIsSelected
    <3>3. CallsListed'
      BY <1>0, <3>1, CallStepListed DEF CallStep
    <3>4. Busy' = Busy
      BY <2>5, <3>1 DEF Busy, Return
    <3>5. QED
      BY <1>0, <2>2, <3>2, <3>3, <3>4 DEF HookInv, BusyIsOne
  <2>6. CASE c.kind = "select"
    <3>1. Return(c) /\ Selected(c.next)
      BY <2>1, <2>6
    <3>2. c.next \in available /\ c.next # c.wallet /\ c.next \in Wallets
      BY <1>0, <2>6 DEF Listed, Page
    <3>3. Page'
      BY <1>0, <2>2, <3>1, <3>2, SelectedPage
    <3>4. CallsListed'
      BY <1>0, <3>1, CallStepListed DEF CallStep, Selected
    <3>5. Busy' = Busy
      BY <2>6, <3>1 DEF Busy, Return
    <3>6. QED
      BY <1>0, <2>2, <3>3, <3>4, <3>5 DEF HookInv, BusyIsOne
  <2>7. QED
    BY <2>3, <2>4, <2>5, <2>6
<1>2. CASE Paused(c)
  <2> DEFINE d == [c EXCEPT !.step = "connecting"]
  <2>1. c.kind = "switch" /\ Replace(c, d)
    BY <1>0, <1>2 DEF Paused, Call
  <2>2. d \in Call /\ d.kind = "switch" /\ d.wallet = c.wallet
    BY <1>0, <2>1 DEF Call
  <2> HIDE DEF d
  <2>3. Page'
    BY <1>0, <1>2 DEF Paused, Page, SelectionHeld, ShownIsSelected
  <2>4. Listed(d)' /\ UNCHANGED available
    BY <1>0, <1>2, <2>2 DEF Paused, Listed
  <2>5. CallsListed'
    BY <1>0, <2>1, <2>4, CallStepListed DEF CallStep
  <2>6. connecting /\ Busy = {c} /\ connecting' = connecting
    BY <1>0, <1>2, <2>1 DEF BusyIsOne, Busy, Paused
  <2>7. Busy' = {d}
    BY <2>1, <2>2, <2>6 DEF Busy, Replace
  <2>8. QED
    BY <1>0, <2>3, <2>5, <2>6, <2>7 DEF HookInv, BusyIsOne
<1>3. CASE Approved(c) \/ Rejected(c)
  <2>1. /\ c.step = "connecting" /\ Return(c) /\ connecting' = FALSE
        /\ UNCHANGED <<localhost, installed, stored, available, selected, silent>>
    BY <1>3 DEF Approved, Rejected
  <2>2. c.kind \in {"connect", "switch"}
    BY <1>0, <2>1 DEF Call
  <2>3. Page'
    <3>1. CASE Approved(c)
      <4>1. PICK key \in Keys : account' = [account EXCEPT ![c.wallet] = key] /\ shown' = key
        BY <3>1 DEF Approved
      <4>2. strayed' \in BOOLEAN /\ (~strayed' => c.wallet = selected)
        <5>1. strayed' = (c.wallet # selected)
          BY <3>1 DEF Approved
        <5>2. QED
          BY <5>1, Zenon
      <4>3. SelectionHeld'
        BY <1>0, <2>1 DEF Page, SelectionHeld
      <4>4. QED
        BY <1>0, <2>1, <4>1, <4>2, <4>3 DEF Page, ShownIsSelected
    <3>2. CASE Rejected(c)
      BY <1>0, <2>1, <3>2 DEF Rejected, Page, SelectionHeld, ShownIsSelected
    <3>3. QED
      BY <1>3, <3>1, <3>2
  <2>4. CallsListed'
    BY <1>0, <2>1, CallStepListed DEF CallStep
  <2>5. Busy = {c}
    BY <1>0, <2>2 DEF BusyIsOne, Busy
  <2>6. Busy' = {}
    BY <2>1, <2>5 DEF Busy, Return
  <2>7. BusyIsOne'
    BY <2>1, <2>6, Zenon DEF BusyIsOne
  <2>8. QED
    BY <2>3, <2>4, <2>7 DEF HookInv
<1>4. QED
  BY <1>1, <1>2, <1>3 DEF Goes

LEMMA HookInvariant == Spec => []HookInv
<1>1. HookInv /\ [Next]_vars => HookInv'
  <2> SUFFICES ASSUME HookInv, [Next]_vars PROVE HookInv'
    OBVIOUS
  <2>1. CASE UNCHANGED vars
    BY <2>1 DEF vars, HookInv, Page, SelectionHeld, ShownIsSelected, CallsListed, Listed,
                BusyIsOne, Busy
  <2>2. QED
    BY <2>1, UserKeepsInv, WalletKeepsInv, GoesKeepsInv DEF Next
<1>2. QED
  BY <1>1, InitHookInv, PTL DEF Spec

-----------------------------------------------------------------------------
(* A wallet is selected exactly while one is listed, it is one of the list,  *)
(* and the stored choice is the same (useSolanaWallet.ts:148-179).           *)
THEOREM SelectionAlwaysHeld == Spec => []SelectionHeld
<1>1. HookInv => SelectionHeld
  BY DEF HookInv, Page
<1>2. QED
  BY <1>1, HookInvariant, PTL

(* The key shown is the one the selected provider signs with, but for a      *)
(* connect that outlives a selection (useSolanaWallet.ts:181-313).           *)
THEOREM ShownAlwaysSelected == Spec => []ShownIsSelected
<1>1. HookInv => ShownIsSelected
  BY DEF HookInv, Page
<1>2. QED
  BY <1>1, HookInvariant, PTL

(* The buttons say CONNECTING exactly while one connect or switch is under   *)
(* way, however many calls overlap (useSolanaWallet.ts:230-285).             *)
THEOREM ConnectingAlwaysBusy == Spec => []ConnectingIsBusy
<1>1. BusyIsOne => ConnectingIsBusy
  <2> SUFFICES ASSUME BusyIsOne PROVE Cardinality(Busy) = IF connecting THEN 1 ELSE 0
    BY DEF ConnectingIsBusy, Busy
  <2>1. CASE connecting
    <3>1. PICK c : Busy = {c}
      BY <2>1 DEF BusyIsOne
    <3>2. QED
      BY <2>1, <3>1, FS_Singleton
  <2>2. CASE ~connecting
    BY <2>2, FS_EmptySet DEF BusyIsOne
  <2>3. QED
    BY <2>1, <2>2
<1>2. QED
  BY <1>1, HookInvariant, PTL DEF HookInv

(* The variables of the hook always have their types, and every call under   *)
(* way is of a listed wallet (useSolanaWallet.ts:206-313).                   *)
THEOREM HookTypeCorrect == Spec => []TypeOK
<1>1. HookInv => TypeOK
  <2> SUFFICES ASSUME Page, CallsListed, connecting \in BOOLEAN PROVE TypeOK
    BY DEF HookInv, BusyIsOne
  <2>1. stored = selected /\ selected \in available \cup {NoWallet}
        /\ stored \in Wallets \cup {NoWallet}
    BY DEF Page, SelectionHeld
  <2>2. calls \in SUBSET Call /\ Cardinality(calls) <= MaxCalls
        /\ \A c \in calls : c.wallet \in available
    BY DEF CallsListed, Listed
  <2>3. QED
    BY <2>1, <2>2 DEF TypeOK, Page
<1>2. QED
  BY <1>1, HookInvariant, PTL

(* While the buttons say CONNECTING, the call they stand for is never        *)
(* replaced, only brought nearer to its end (useSolanaWallet.ts:230-285):    *)
(* three answers at most are missing.  ConnectEnds is this and the fairness  *)
(* of the wallets.                                                           *)
THEOREM ConnectAlwaysAdvances == Spec => ConnectAdvances
<1> DEFINE Goal == connecting /\ connecting' => \A c \in Busy : \E d \in Busy' : d = c \/ Nearer(d, c)
<1>1. CallsListed /\ [Next]_vars => [Goal]_vars
  <2> SUFFICES ASSUME CallsListed, Next, connecting, connecting', NEW c \in Busy
               PROVE  \E d \in Busy' : d = c \/ Nearer(d, c)
    OBVIOUS
  <2>1. ASSUME calls \subseteq calls' PROVE \E d \in Busy' : d = c \/ Nearer(d, c)
    BY <2>1 DEF Busy
  <2>2. CASE User
    <3>1. ~Connect /\ ~SwitchWallet /\ ~Load
      BY DEF Connect, ConnectButton, SwitchWallet, KeyButtons, Load
    <3>2. calls \subseteq calls'
      BY <2>2, <3>1 DEF User, Disconnect, SelectWallet
    <3>3. QED
      BY <2>1, <3>2
  <2>3. CASE Wallet
    <3>1. calls' = calls
      BY <2>3 DEF Wallet, SilentlyConnected, Inject, AccountChanged
    <3>2. QED
      BY <2>1, <3>1
  <2>4. ASSUME NEW other \in calls, Goes(other), other # c
        PROVE  \E d \in Busy' : d = c \/ Nearer(d, c)
    <3>1. c \in calls'
      <4>1. ASSUME Return(other) \/ \E d : Replace(other, d) PROVE c \in calls'
        BY <2>4, <4>1 DEF Busy, Return, Replace
      <4>2. CASE Disconnected(other)
        <5>1. other.kind \in {"switch", "disconnect", "select"}
          BY <4>2 DEF CallsListed, Listed, Call, Disconnected
        <5>2. Return(other) \/ \E d : Replace(other, d)
          BY <4>2, <5>1 DEF Disconnected
        <5>3. QED
          BY <4>1, <5>2
      <4>3. CASE Paused(other)
        BY <4>1, <4>3 DEF Paused
      <4>4. CASE Approved(other) \/ Rejected(other)
        BY <4>1, <4>4 DEF Approved, Rejected
      <4>5. QED
        BY <2>4, <4>2, <4>3, <4>4 DEF Goes
    <3>2. QED
      BY <3>1 DEF Busy
  <2>5. CASE Goes(c)
    <3>1. c \in Call /\ c.kind \in {"connect", "switch"}
      BY DEF CallsListed, Listed, Busy
    <3>2. ~Approved(c) /\ ~Rejected(c)
      BY DEF Approved, Rejected
    <3>3. c.kind = "switch" /\ c.step \in {"disconnecting", "pausing"}
      BY <2>5, <3>1, <3>2 DEF Goes, Disconnected, Paused, Call
    <3> DEFINE d(step) == [c EXCEPT !.step = step]
    <3>4. \A step \in {"pausing", "connecting"} :
            d(step).kind = "switch" /\ d(step).wallet = c.wallet /\ d(step).step = step
      BY <3>1, <3>3 DEF Call
    <3>5. \/ c.step = "disconnecting" /\ calls' = (calls \ {c}) \cup {d("pausing")}
          \/ c.step = "pausing" /\ calls' = (calls \ {c}) \cup {d("connecting")}
      BY <2>5, <3>2, <3>3 DEF Goes, Disconnected, Paused, Replace
    <3> HIDE DEF d
    <3>6. QED
      BY <3>3, <3>4, <3>5 DEF Busy, Nearer, AnswersLeft
  <2>6. QED
    BY <2>2, <2>3, <2>4, <2>5 DEF Next
<1>2. HookInv => CallsListed
  BY DEF HookInv
<1>3. QED
  BY <1>1, <1>2, HookInvariant, PTL DEF Spec, ConnectAdvances
=============================================================================
