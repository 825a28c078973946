------------------------------- MODULE Wallet -------------------------------
(***************************************************************************)
(* The session wallet of the browser: lib/secure-keystore.ts and           *)
(* lib/session-wallet.ts with the components that use them.  The secret    *)
(* key lies in IndexedDB, encrypted under an AES key that lies there too;  *)
(* earlier versions kept it in localStorage, from where it is copied at    *)
(* the first connect and removed after the first signature made with the   *)
(* copy.  Every access to IndexedDB is awaited, may fail, and interleaves  *)
(* with those of the other tabs; a tab may be closed at any of them.       *)
(*                                                                         *)
(* A tab that works is at one access of a chain: a store (wrap, newKey,    *)
(* put) or a read (read, unwrap, renew), and after names the function that *)
(* goes on when the chain has ended.                                       *)
(***************************************************************************)
EXTENDS Integers, FiniteSets

CONSTANTS
    KeyPairs,       \* secret keys of session wallets
    Tabs,
    None,
    External,   \* the account of a wallet extension
    MaxAes,     \* bound on the AES keys ever generated
    MaxFaults   \* bound on failed accesses and closed tabs

ASSUME WalletAssumption ==
    /\ None \notin KeyPairs \cup [key: KeyPairs, under: Nat] /\ External \notin KeyPairs
    /\ MaxAes \in Nat /\ MaxFaults \in Nat

VARIABLES
    aes, payload,       \* the entries aes_wrapping_key and session_wallet
    backup,             \* localStorage kronos_session_wallet
    lastWallet, forced, \* localStorage kronos_last_wallet, _force_disconnect
    email,              \* localStorage kronos_wallet_email
    tab,
    made,               \* AES keys generated
    accounts,           \* keys the server keeps in accounts
    owned,              \* history: keys that have been in this browser
    givenUp,            \* history: keys the user let go or put another above
    faults

stores  == <<aes, payload, backup>>
marks   == <<lastWallet, forced, email>>
past == <<owned, givenUp>>
walletVars == <<stores, marks, tab, made, accounts, past, faults>>

AesKeys == 1 .. MaxAes
Payload == [key: KeyPairs, under: AesKeys]
Resting(shown) ==
    [at |-> "idle", shown |-> shown, key |-> None, aes |-> 0, read |-> None, after |-> "none"]

StoreSteps == {"wrap", "newKey", "put"}
ReadSteps  == {"read", "unwrap", "renew"}
DropSteps  == {"dropKey", "dropPayload"}

(* A browser that an earlier version has left a key in, or none.           *)
WalletInit ==
    /\ aes = 0 /\ payload = None
    /\ backup \in KeyPairs \cup {None}
    /\ lastWallet \in {None, External} /\ forced = FALSE /\ email = FALSE
    /\ tab = [t \in Tabs |-> Resting(None)]
    /\ made = 0 /\ accounts = {}
    /\ owned = {backup} \ {None} /\ givenUp = {}
    /\ faults = 0

WalletTypeOK ==
    /\ aes \in 0 .. MaxAes /\ payload \in Payload \cup {None}
    /\ backup \in KeyPairs \cup {None}
    /\ lastWallet \in {None, External, "session"} /\ forced \in BOOLEAN /\ email \in BOOLEAN
    /\ \A t \in Tabs :
        /\ tab[t].shown \in KeyPairs \cup {None, External}
        /\ tab[t].at \in {"idle", "check", "clear", "register"}
                             \cup StoreSteps \cup ReadSteps \cup DropSteps
        /\ tab[t].at \in StoreSteps \cup DropSteps => tab[t].key \in KeyPairs
    /\ made \in 0 .. MaxAes /\ faults \in 0 .. MaxFaults
    /\ accounts \cup givenUp \subseteq owned

-----------------------------------------------------------------------------
Goes(t, step)  == tab' = [tab EXCEPT ![t] = step]
At(t, label)   == tab[t].at = label
(* exportSecretKey and loadPublicKeyBytes read; saveSessionKeypair saves.  *)
Reads(t, next) == [tab[t] EXCEPT !.at = "read", !.after = next]
Saves(t, k, next) == [tab[t] EXCEPT !.at = "wrap", !.key = k, !.after = next]
Rests(t) == Goes(t, Resting(tab[t].shown))

Readable == IF payload # None /\ payload.under = aes THEN {payload.key} ELSE {}
Held     == Readable \cup ({backup} \ {None})

(* What the browser is taken to hold, and what it gives out for export.    *)
HasSessionWallet == payload # None
SessionPrivateKey(k) == IF k # None THEN k ELSE backup

-----------------------------------------------------------------------------
(* connect: without a key in localStorage the secure store is read; with   *)
(* one, migrateFromLocalStorage copies it unless the store holds a key.    *)
Connecting(t) ==
    IF backup = None THEN Reads(t, "load")
    ELSE [tab[t] EXCEPT !.at = "check", !.key = backup]

Connect(t) ==
    /\ At(t, "idle") /\ tab[t].shown = None
    /\ Goes(t, Connecting(t))
    /\ UNCHANGED <<stores, made, accounts, past>>

(* SessionWalletProvider on a page load: no reconnect after a disconnect;  *)
(* a wallet extension that is installed and was used last comes first.     *)
AutoConnect(t) ==
    /\ At(t, "idle") /\ tab[t].shown = None
    /\ forced' = FALSE
    /\ \/ forced /\ UNCHANGED tab
       \/ ~forced /\ lastWallet = External /\ Goes(t, Resting(External))
       \/ ~forced /\ HasSessionWallet /\ Goes(t, Connecting(t))
    /\ UNCHANGED <<stores, lastWallet, email, made, accounts, past, faults>>

(* handleStartTrading of the landing page looks into localStorage only.    *)
StartTrading(t) ==
    /\ backup # None /\ Connect(t)
    /\ UNCHANGED <<marks, faults>>

(* select of a wallet extension in the wallet picker.                      *)
SelectExternal(t) ==
    /\ At(t, "idle") /\ tab[t].shown = None
    /\ Goes(t, Resting(External)) /\ lastWallet' = External
    /\ UNCHANGED <<stores, forced, email, made, accounts, past, faults>>

HasStoredKey(t) ==
    /\ At(t, "check")
    /\ Goes(t, IF payload # None THEN Reads(t, "load") ELSE Saves(t, tab[t].key, "migrate"))
    /\ UNCHANGED <<stores, marks, made, accounts, past, faults>>

-----------------------------------------------------------------------------
(* storeSecretKey: getOrCreateAESKey, encryptKey, idbPut.                  *)
Generate(t, next) ==
    /\ made < MaxAes /\ made' = made + 1
    /\ Goes(t, [tab[t] EXCEPT !.at = next, !.aes = made + 1])

Wrap(t) ==
    /\ At(t, "wrap")
    /\ \/ aes # 0 /\ Goes(t, [tab[t] EXCEPT !.at = "put", !.aes = aes]) /\ UNCHANGED made
       \/ aes = 0 /\ Generate(t, "newKey")
    /\ UNCHANGED <<stores, marks, accounts, past, faults>>

NewKey(t) ==
    /\ At(t, "newKey") /\ aes' = tab[t].aes
    /\ Goes(t, [tab[t] EXCEPT !.at = "put"])
    /\ UNCHANGED <<payload, backup, marks, made, accounts, owned, givenUp, faults>>

(* What follows a store: the read-back of a migration or a recovery; the   *)
(* second store of a login and the connect after the last; nothing more    *)
(* after the store of a key that was loaded from localStorage.             *)
AfterStore(t) ==
    CASE tab[t].after = "migrate" -> Reads(t, "migrated")
      [] tab[t].after = "recover" -> Reads(t, "recovered")
      [] tab[t].after = "login"   -> Saves(t, tab[t].key, "save")
      [] tab[t].after = "save" /\ tab[t].shown = None -> Connecting(t)
      [] OTHER -> Resting(tab[t].shown)

Put(t) ==
    /\ At(t, "put")
    /\ payload' = [key |-> tab[t].key, under |-> tab[t].aes]
    /\ owned' = owned \cup {tab[t].key}
    /\ givenUp' = (givenUp \cup (owned \ {tab[t].key})) \ {tab[t].key}
    /\ email' = (email \/ tab[t].after = "login")
    /\ Goes(t, AfterStore(t))
    /\ UNCHANGED <<aes, backup, lastWallet, forced, made, accounts, faults>>

-----------------------------------------------------------------------------
Read(t) ==
    /\ At(t, "read") /\ payload # None
    /\ Goes(t, [tab[t] EXCEPT !.at = "unwrap", !.read = payload])
    /\ UNCHANGED <<stores, marks, made, accounts, past, faults>>

(* A key read in a tab that already shows another one can not sign for it: *)
(* partialSign throws.                                                     *)
Signs(t, k) == k = tab[t].shown

(* Mutant: the copy in localStorage is removed whether or not the key      *)
(* signed.                                                                 *)
DropsAlways(t, k) == TRUE

(* confirmMigration follows a signature by signWithStoredKey.              *)
DropsBackup(t, k) == Signs(t, k)

(* The last resort of signTransaction is the key in localStorage; whether  *)
(* it signs or throws, nothing is stored.                                  *)
LegacySign(t) == Rests(t) /\ UNCHANGED backup

(* What follows a read that gave key k, or None if it failed.              *)
Resolve(t, k) ==
    LET after == tab[t].after IN
    \/ /\ after = "migrated"
       /\ Goes(t, Reads(t, "load")) /\ UNCHANGED backup
    \/ /\ after = "load"
       /\ Goes(t, IF k # None THEN Resting(k)
                  ELSE IF backup = None THEN Resting(None)
                  ELSE [Saves(t, backup, "legacy") EXCEPT !.shown = backup])
       /\ UNCHANGED backup
    \/ /\ after = "sign"
       /\ backup' = IF DropsBackup(t, k) THEN None ELSE backup
       /\ Goes(t, IF Signs(t, k) \/ backup = None THEN Resting(tab[t].shown)
                  ELSE [tab[t] EXCEPT !.at = "dropKey", !.key = backup])
    \/ /\ after = "recovered"
       /\ IF k = None THEN LegacySign(t) ELSE Goes(t, Reads(t, "resign")) /\ UNCHANGED backup
    \/ /\ after = "resign" /\ Rests(t) /\ UNCHANGED backup
    \/ /\ after = "export"
       /\ Goes(t, IF k = None /\ backup = None THEN Resting(tab[t].shown)
                  ELSE [tab[t] EXCEPT !.at = "register", !.key = SessionPrivateKey(k)])
       /\ UNCHANGED backup

ReadNothing(t) ==
    /\ At(t, "read") /\ payload = None /\ Resolve(t, None)
    /\ UNCHANGED <<aes, payload, marks, made, accounts, past, faults>>

(* The AES key is read after the payload, and made when there is none: a   *)
(* payload is never readable under a key just made.                        *)
Unwrap(t) ==
    /\ At(t, "unwrap")
    /\ \/ /\ aes # 0
          /\ Resolve(t, IF tab[t].read.under = aes THEN tab[t].read.key ELSE None)
          /\ UNCHANGED made
       \/ aes = 0 /\ Generate(t, "renew") /\ UNCHANGED backup
    /\ UNCHANGED <<aes, payload, marks, accounts, past, faults>>

Renew(t) ==
    /\ At(t, "renew") /\ aes' = tab[t].aes /\ Resolve(t, None)
    /\ UNCHANGED <<payload, marks, made, accounts, owned, givenUp, faults>>

-----------------------------------------------------------------------------
SignTransaction(t) ==
    /\ At(t, "idle") /\ tab[t].shown \in KeyPairs
    /\ Goes(t, Reads(t, "sign"))
    /\ UNCHANGED <<stores, marks, made, accounts, past, faults>>

(* recoverFromLocalStorage: both entries are deleted, the AES key first,   *)
(* and the key of localStorage is stored anew.                             *)
DropKey(t) ==
    /\ At(t, "dropKey") /\ aes' = 0
    /\ givenUp' = givenUp \cup (Readable \ {tab[t].key})
    /\ Goes(t, [tab[t] EXCEPT !.at = "dropPayload"])
    /\ UNCHANGED <<payload, backup, marks, made, accounts, owned, faults>>

DropPayload(t) ==
    /\ At(t, "dropPayload") /\ payload' = None
    /\ givenUp' = givenUp \cup (Readable \ {tab[t].key})
    /\ Goes(t, Saves(t, tab[t].key, "recover"))
    /\ UNCHANGED <<aes, backup, marks, made, accounts, owned, faults>>

-----------------------------------------------------------------------------
(* Keypair.generate.                                                       *)
New(k) == k \notin owned /\ \A t \in Tabs : tab[t].key # k

(* Guest: a new key is stored before anything else is done with it.        *)
CreateGuestWallet(t, k) ==
    /\ At(t, "idle") /\ tab[t].shown = None /\ New(k)
    /\ Goes(t, Saves(t, k, "save"))
    /\ UNCHANGED <<stores, marks, made, accounts, past, faults>>

(* handleLogin of the modal and of the landing page: the server answers    *)
(* with the key of an account, which is stored twice.                      *)
HandleLogin(t, k) ==
    /\ At(t, "idle") /\ tab[t].shown # External /\ k \in accounts
    /\ Goes(t, Saves(t, k, "login"))
    /\ UNCHANGED <<stores, marks, made, accounts, past, faults>>

(* handleSignup of the landing page: the server has the new key first.     *)
LandingSignup(t, k) ==
    /\ At(t, "idle") /\ tab[t].shown = None /\ New(k)
    /\ accounts' = accounts \cup {k} /\ owned' = owned \cup {k}
    /\ \/ Goes(t, Saves(t, k, "save"))
       \/ UNCHANGED tab
    /\ UNCHANGED <<stores, marks, made, givenUp, faults>>

(* handleSignup of the modal exports the key of the browser and sends it;  *)
(* the answer may be an error or not arrive.                               *)
ModalSignup(t) ==
    /\ At(t, "idle") /\ tab[t].shown # External /\ ~email
    /\ Goes(t, Reads(t, "export"))
    /\ UNCHANGED <<stores, marks, made, accounts, past, faults>>

Register(t) ==
    /\ At(t, "register") /\ Rests(t)
    /\ \/ /\ accounts' = accounts \cup {tab[t].key}
          /\ email' \in {email, TRUE}
       \/ UNCHANGED <<accounts, email>>
    /\ UNCHANGED <<stores, lastWallet, forced, made, past, faults>>

(* handleDisconnect; clearStoredKey passes over a failed delete.           *)
Disconnect(t) ==
    /\ At(t, "idle") /\ tab[t].shown # None
    /\ forced' = TRUE /\ lastWallet' = None
    /\ Goes(t, IF tab[t].shown = External THEN Resting(None) ELSE [tab[t] EXCEPT !.at = "clear"])
    /\ UNCHANGED <<stores, email, made, accounts, past, faults>>

ClearSessionWallet(t) ==
    /\ At(t, "clear")
    /\ payload' \in {None, payload} /\ backup' = None /\ email' = FALSE
    /\ givenUp' = owned
    /\ Goes(t, Resting(None))
    /\ UNCHANGED <<aes, lastWallet, forced, made, accounts, owned, faults>>

(* The effect that remembers the wallet connected last.                    *)
SaveLastWallet(t) ==
    /\ tab[t].shown \in KeyPairs /\ lastWallet' = "session" /\ lastWallet # "session"
    /\ UNCHANGED <<stores, forced, email, tab, made, accounts, past, faults>>

-----------------------------------------------------------------------------
Fault == faults < MaxFaults /\ faults' = faults + 1

(* An access to IndexedDB is refused: a read gives nothing, a migration    *)
(* goes on to the load, a recovery to the last resort, the rest gives up.  *)
Reject(t) ==
    /\ Fault
    /\ \/ tab[t].at \in ReadSteps /\ Resolve(t, None)
       \/ /\ At(t, "check")
          /\ Goes(t, Saves(t, tab[t].key, "migrate")) /\ UNCHANGED backup
       \/ /\ tab[t].at \in StoreSteps /\ tab[t].after = "migrate"
          /\ Goes(t, Reads(t, "load")) /\ UNCHANGED backup
       \/ /\ tab[t].at \in DropSteps
              \/ (tab[t].at \in StoreSteps /\ tab[t].after # "migrate")
          /\ Rests(t) /\ UNCHANGED backup
    /\ UNCHANGED <<aes, payload, marks, made, accounts, past>>

Close(t) ==
    /\ tab[t] # Resting(None) /\ Fault
    /\ Goes(t, Resting(None))
    /\ UNCHANGED <<stores, marks, made, accounts, past>>

Step(t) ==
    \/ AutoConnect(t) \/ StartTrading(t) \/ SelectExternal(t) \/ HasStoredKey(t)
    \/ Wrap(t) \/ NewKey(t) \/ Put(t)
    \/ Read(t) \/ ReadNothing(t) \/ Unwrap(t) \/ Renew(t)
    \/ SignTransaction(t) \/ DropKey(t) \/ DropPayload(t)
    \/ \E k \in KeyPairs : CreateGuestWallet(t, k) \/ HandleLogin(t, k) \/ LandingSignup(t, k)
    \/ ModalSignup(t) \/ Register(t)
    \/ Disconnect(t) \/ ClearSessionWallet(t) \/ SaveLastWallet(t)
    \/ Reject(t) \/ Close(t)

WalletNext == \E t \in Tabs : Step(t)

WalletSpec == WalletInit /\ [][WalletNext]_walletVars

-----------------------------------------------------------------------------
(* A key that has been in the browser stays within reach, in IndexedDB, in *)
(* localStorage or in an account, through failed accesses and closed tabs, *)
(* until the user disconnects or stores another key.                       *)
KeysKept == \A k \in owned \ givenUp : k \in Held \cup accounts

(* The same of several tabs, when none of them is at work.  The comments   *)
(* at secure-keystore.ts:228-264 promise it of the migration: the copy in  *)
(* localStorage is kept until it is safe to remove.  Two tabs break it.    *)
KeysKeptByTabs == (\A t \in Tabs : At(t, "idle")) => KeysKept
=============================================================================
