----------------------------- MODULE SecretStore -----------------------------
(***************************************************************************)
(* The encrypted store of credentials on a Linux host: the first set-up of *)
(* its key, internal/secrets/linux_bootstrap.go, by commands that run      *)
(* beside each other - pairing a chat and saving the key of a search       *)
(* service take no common lock - and the operations of the helper that     *)
(* seals with the key, internal/secrets/encrypted.go.  A process may end   *)
(* after every step.  A person may lose the files of the store, as a       *)
(* backup does not hold them, and may put the key back.                    *)
(*                                                                         *)
(* A definition marked "Variant" is a plausible slip in the one after it.  *)
(***************************************************************************)
EXTENDS Naturals, FiniteSets

CONSTANTS
    SecretUser,     \* the processes that store credentials
    KeyBound,       \* bound on generated keys
    LossBound       \* bound on what a person loses

ASSUME SecretAssumption == {KeyBound, LossBound} \subseteq Nat

VARIABLES
    masterKey,  \* the key in its file; 0
    sealed,     \* the keys that the present ciphertext was sealed with
    saved,      \* is the configuration of the store there
    user,       \* the point each process has reached
    keys,       \* keys generated so far
    losses

secretVars == <<masterKey, sealed, saved, user, keys, losses>>

SecretInit ==
    /\ masterKey = 0 /\ sealed = {} /\ saved = FALSE
    /\ user = [p \in SecretUser |-> "idle"]
    /\ keys = 0 /\ losses = 0

Moves(p, from, to) == user[p] = from /\ user' = [user EXCEPT ![p] = to]

\* The helper and the directory are there with the program; the key may be missing.
ValidStore == masterKey # 0

\* With a saved configuration the store is validated and used, or refused.
FindStore(p) ==
    /\ saved
    /\ \/ ValidStore /\ Moves(p, "idle", "ready")
       \/ ~ValidStore /\ Moves(p, "idle", "idle")
    /\ UNCHANGED <<masterKey, sealed, saved, keys, losses>>

\* A key is made only for a store that holds nothing.
MayGenerateVariant(p) == TRUE

MayGenerate(p) == user[p] = "empty"

\* The directory of the ciphertext is listed, then the key is looked for.
ListEntries(p) ==
    /\ ~saved
    /\ IF sealed = {} THEN Moves(p, "idle", "empty") ELSE Moves(p, "idle", "holding")
    /\ UNCHANGED <<masterKey, sealed, saved, keys, losses>>

LookForKey(p) ==
    /\ user[p] \in {"empty", "holding"}
    /\ user' = [user EXCEPT ![p] = IF masterKey # 0 THEN "load"
                                   ELSE IF MayGenerate(p) THEN "generate" ELSE "idle"]
    /\ UNCHANGED <<masterKey, sealed, saved, keys, losses>>

\* files.Write without replace: of two processes the second finds the key of the first.
KeyWrittenVariant(new) == new

KeyWritten(new) == IF masterKey = 0 THEN new ELSE masterKey

Generate(p) ==
    /\ Moves(p, "generate", "load") /\ keys < KeyBound
    /\ keys' = keys + 1 /\ masterKey' = KeyWritten(keys')
    /\ UNCHANGED <<sealed, saved, losses>>

\* The key is read back before the configuration is published.
Load(p) ==
    /\ IF ValidStore THEN Moves(p, "load", "publish") ELSE Moves(p, "load", "idle")
    /\ UNCHANGED <<masterKey, sealed, saved, keys, losses>>

Publish(p) ==
    /\ Moves(p, "publish", "ready")
    /\ saved' = TRUE
    /\ UNCHANGED <<masterKey, sealed, keys, losses>>

\* EncryptedOperation: the helper reads the key for every operation.
Seal(p) ==
    /\ user[p] = "ready" /\ masterKey # 0
    /\ sealed' = sealed \cup {masterKey}
    /\ UNCHANGED <<masterKey, saved, user, keys, losses>>

\* Deleting needs the key as well; the last entry leaves the store empty.
Erase(p) ==
    /\ user[p] = "ready" /\ masterKey # 0 /\ sealed # {}
    /\ sealed' = {}
    /\ UNCHANGED <<masterKey, saved, user, keys, losses>>

Leave(p) ==
    /\ user[p] # "idle" /\ user' = [user EXCEPT ![p] = "idle"]
    /\ UNCHANGED <<masterKey, sealed, saved, keys, losses>>

\* Files are lost or put back while nobody sets the store up.
AtRest == \A p \in SecretUser : user[p] \in {"idle", "ready"}

Lose ==
    /\ AtRest /\ losses < LossBound /\ losses' = losses + 1
    /\ \/ masterKey' = 0 /\ UNCHANGED <<sealed, saved>>
       \/ saved' = FALSE /\ UNCHANGED <<masterKey, sealed>>
       \/ masterKey' = 0 /\ saved' = FALSE /\ UNCHANGED sealed
       \/ masterKey' = 0 /\ saved' = FALSE /\ sealed' = {}
    /\ UNCHANGED <<user, keys>>

PutBack ==
    /\ AtRest /\ masterKey = 0 /\ sealed # {}
    /\ masterKey' \in sealed
    /\ UNCHANGED <<sealed, saved, user, keys, losses>>

SecretNext ==
    \/ \E p \in SecretUser : \/ FindStore(p) \/ ListEntries(p) \/ LookForKey(p) \/ Generate(p)
                             \/ Load(p) \/ Publish(p) \/ Seal(p) \/ Erase(p) \/ Leave(p)
    \/ Lose \/ PutBack

SecretSpec == SecretInit /\ [][SecretNext]_secretVars

----------------------------------------------------------------------------
(* Properties.                                                             *)

\* Types of the state.
SecretTypeOK ==
    /\ masterKey \in 0..KeyBound /\ sealed \subseteq 1..KeyBound /\ saved \in BOOLEAN
    /\ user \in [SecretUser -> {"idle", "empty", "holding", "generate", "load", "publish", "ready"}]

\* The key in place opens everything that is stored: it is never replaced, nor made anew,
\* while something sealed with another is there.
KeyOpensTheStore == masterKey # 0 => sealed \subseteq {masterKey}
=============================================================================
