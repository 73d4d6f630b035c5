----------------------------- MODULE TacoClient -----------------------------
(***************************************************************************)
(* src/utils/taco: the TacoClient object (taco-client.ts), and tacoEncrypt *)
(* (taco-encryption.ts) using it.  initialize() has five awaits and writes *)
(* the object's fields between them; other calls of initialize(),          *)
(* disconnect() and encryptions run at each.  The chain, the TACo SDK and  *)
(* the wallet are external: any of their calls may fail.                   *)
(***************************************************************************)
CONSTANTS Call,       \* calls of initialize() and tacoEncrypt()
          Signer,     \* wallets
          NoSigner    \* null / undefined

VARIABLES
  provider, dkgPublicKey, initialized,   \* fields: set or null
  signer,                                \* field: a wallet or null
  initializing,     \* call -> where its initialize() is
  given,            \* call -> the signer it was given
  encrypting,       \* call -> where its tacoEncrypt() is
  overlapped        \* history: disconnect() came while initialize() was in hand

fields == <<provider, dkgPublicKey, initialized, signer>>
calls  == <<initializing, given, encrypting>>
vars   == <<fields, calls, overlapped>>

InHand == {c \in Call : initializing[c] \in {"sdk", "block", "address", "ritual"}}

TypeOK ==
  /\ {provider, dkgPublicKey, initialized, overlapped} \subseteq BOOLEAN
  /\ signer \in Signer \cup {NoSigner}
  /\ initializing \in
       [Call -> {"none", "sdk", "block", "address", "ritual", "done", "failed"}]
  /\ given \in [Call -> Signer \cup {NoSigner}]
  /\ encrypting \in [Call -> {"none", "import", "encrypt", "done", "failed"}]

Init ==
  /\ provider = FALSE /\ dkgPublicKey = FALSE /\ initialized = FALSE
  /\ signer = NoSigner
  /\ initializing = [c \in Call |-> "none"]
  /\ given = [c \in Call |-> NoSigner]
  /\ encrypting = [c \in Call |-> "none"]
  /\ overlapped = FALSE

At(c, stage) == initializing' = [initializing EXCEPT ![c] = stage]

\* initialize(signer): returns at once on an initialised client, whatever it is
\* given.
Initialize(c) ==
  /\ initializing[c] = "none"
  /\ \E s \in Signer \cup {NoSigner} :
        /\ At(c, IF initialized THEN "done" ELSE "sdk")
        /\ given' = [given EXCEPT ![c] = s]
  /\ UNCHANGED <<fields, encrypting, overlapped>>

\* The SDK is initialised and ethers imported: make the provider, probe it.
SdkReady(c) ==
  /\ initializing[c] = "sdk" /\ At(c, "block")
  /\ provider' = TRUE
  /\ UNCHANGED <<dkgPublicKey, initialized, signer, given, encrypting, overlapped>>

\* fetchDkgPublicKey() up to its await.
FetchDkgPublicKey(c) ==
  At(c, IF dkgPublicKey /\ initialized THEN "done"
        ELSE IF provider THEN "ritual" ELSE "failed")

BugBlockArrives(c) ==  \* initialised once the provider answers
  /\ initializing[c] = "block"
  /\ IF given[c] # NoSigner
     THEN signer' = given[c] /\ At(c, "address")
     ELSE FetchDkgPublicKey(c) /\ UNCHANGED signer
  /\ initialized' = TRUE
  /\ UNCHANGED <<provider, dkgPublicKey, given, encrypting, overlapped>>

BlockArrives(c) ==
  /\ initializing[c] = "block"
  /\ IF given[c] # NoSigner
     THEN signer' = given[c] /\ At(c, "address")
     ELSE FetchDkgPublicKey(c) /\ UNCHANGED signer
  /\ UNCHANGED <<provider, dkgPublicKey, initialized, given, encrypting, overlapped>>

AddressArrives(c) ==
  /\ initializing[c] = "address"
  /\ FetchDkgPublicKey(c)
  /\ UNCHANGED <<fields, given, encrypting, overlapped>>

RitualArrives(c) ==
  /\ initializing[c] = "ritual" /\ At(c, "done")
  /\ dkgPublicKey' = TRUE /\ initialized' = TRUE
  /\ UNCHANGED <<provider, signer, given, encrypting, overlapped>>

InitializeFails(c) ==
  /\ c \in InHand /\ At(c, "failed")
  /\ UNCHANGED <<fields, given, encrypting, overlapped>>

Disconnect ==
  /\ provider' = FALSE /\ signer' = NoSigner
  /\ dkgPublicKey' = FALSE /\ initialized' = FALSE
  /\ overlapped' = (overlapped \/ InHand # {})
  /\ UNCHANGED calls

-----------------------------------------------------------------------------
(* tacoEncrypt() without an authSigner of its own *)

EncryptAt(c, stage) == encrypting' = [encrypting EXCEPT ![c] = stage]

\* isInitialized(), getProvider(): either throws.
Encrypt(c) ==
  /\ encrypting[c] = "none"
  /\ EncryptAt(c, IF initialized /\ provider THEN "import" ELSE "failed")
  /\ UNCHANGED <<fields, initializing, given, overlapped>>

\* The signer is read after the imports.
ModulesArrive(c) ==
  /\ encrypting[c] = "import"
  /\ \/ EncryptAt(c, IF signer # NoSigner THEN "encrypt" ELSE "failed")
     \/ EncryptAt(c, "failed")
  /\ UNCHANGED <<fields, initializing, given, overlapped>>

CiphertextArrives(c) ==
  /\ encrypting[c] = "encrypt"
  /\ EncryptAt(c, "done") \/ EncryptAt(c, "failed")
  /\ UNCHANGED <<fields, initializing, given, overlapped>>

Next ==
  \/ Disconnect
  \/ \E c \in Call : \/ Initialize(c) \/ SdkReady(c) \/ BlockArrives(c)
                     \/ AddressArrives(c) \/ RitualArrives(c) \/ InitializeFails(c)
                     \/ Encrypt(c) \/ ModulesArrive(c) \/ CiphertextArrives(c)

Spec == Init /\ [][Next]_vars
-----------------------------------------------------------------------------

\* A client that says it is initialised can be used: it has its provider and the
\* ritual's key, unless disconnect() was called while initialize() was in hand
\* (initialize, fetchDkgPublicKey).
InitializedIsUsable ==
  initialized /\ ~overlapped => provider /\ dkgPublicKey

-----------------------------------------------------------------------------
(* Refuted *)

\* disconnect() leaves a disconnected client.  Not so: an initialize() in hand
\* goes on, and sets initialized on a client without a provider.
InitializedHasProvider == initialized => provider

\* taco-encryption.ts:120, createTacoClient(config, privateKey), then tacoEncrypt():
\* a client initialised with a signer has one.  Not so: createTacoClient() calls
\* initialize() first to get a provider, and the second call, with the signer,
\* returns at once.
GivenSignerIsUsed ==
  (\E c \in Call : initializing[c] = "done" /\ given[c] # NoSigner) /\ initialized
    => signer # NoSigner
=============================================================================
