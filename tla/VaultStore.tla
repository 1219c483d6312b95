------------------------------ MODULE VaultStore ------------------------------
(* The vault of isshd (crates/vault VaultStore, the vault.* requests): a map of  *)
(* secrets, kept in a file that is encrypted with a passphrase and rewritten as  *)
(* a whole by every change. RuntimeState holds the store under one mutex, so a   *)
(* request is alone with it; what interferes are the file system and the end of  *)
(* the process, which a window that closes kills. Ciphertext is what it decrypts *)
(* to and the passphrase it takes; a secret is the number of bytes it has.       *)
(* Its specification is called VaultSpec, since the proofs extend this module    *)
(* together with SshRuntime.                                                     *)
(* Bound: the largest secret anyone asks to keep, MaxValue.                      *)
EXTENDS Integers, FiniteSets, FiniteSetsExt

CONSTANTS SecretIds, Passphrases,
    MaxValue,        \* bytes of the largest secret that is sent
    MaxSecretBytes,  \* MAX_VAULT_SECRET_BYTES
    MaxSecrets,      \* MAX_VAULT_SECRETS
    MaxFileBytes     \* MAX_VAULT_FILE_BYTES

ASSUME VaultAssumption ==
    /\ {MaxValue, MaxSecretBytes, MaxSecrets, MaxFileBytes} \subseteq Nat
    /\ IsFiniteSet(SecretIds)

VARIABLES
    up,          \* isshd runs
    disk,        \* the vault file
    stored,      \* VaultStore.stored
    passphrase,  \* VaultStore.passphrase
    cached,      \* VaultStore.cached
    writing,     \* std::fs::write has emptied the file and not finished
    changed,     \* the ids that the request under way changes
    acked,       \* value of each id by the last answer about it (history)
    maybe        \* values that a change which did not end well left (history)

vaultVars == <<up, disk, stored, passphrase, cached, writing, changed, acked, maybe>>

None     == 0
Values   == 1..MaxValue
Contents == [SecretIds -> 0..MaxValue]
Empty    == [i \in SecretIds |-> None]
NoFile   == [kind |-> "none"]
Torn     == [kind |-> "torn"]
Vault(secrets, pass) == [kind |-> "vault", secrets |-> secrets, pass |-> pass]
Locked   == [kind |-> "locked"]
Open(value) == [kind |-> "open", value |-> value]

Held(secrets)  == {i \in SecretIds : secrets[i] # None}
Bytes(secrets) == MapThenSumSet(LAMBDA i : secrets[i], SecretIds)
Unlocked == passphrase # Locked /\ cached # Locked

---------------------------------------------------------------------------
\* Mutated form of Persist: the request is answered and nothing written.
PersistNothing(ids) ==
    /\ changed' = ids
    /\ acked' = [i \in SecretIds |-> IF i \in ids THEN cached'.value[i] ELSE acked[i]]
    /\ UNCHANGED <<up, disk, writing, maybe>>

\* The encrypted vault goes to the file: opening it may fail, otherwise it is
\* emptied first. The ids whose value the request changes are in ids.
Persist(ids) ==
    /\ changed' = ids
    /\ \/ disk' = Torn /\ writing' = TRUE /\ UNCHANGED <<acked, maybe>>
       \/ /\ UNCHANGED <<disk, writing, acked>>
          /\ maybe' = [i \in SecretIds |->
                          IF i \in ids THEN maybe[i] \cup {cached'.value[i]} ELSE maybe[i]]
    /\ UNCHANGED up

\* std::fs::write ends: the request is answered with success.
Written ==
    /\ up /\ writing
    /\ disk' = stored
    /\ writing' = FALSE
    /\ acked' = [i \in SecretIds |-> IF i \in changed THEN cached.value[i] ELSE acked[i]]
    /\ maybe' = [i \in SecretIds |-> IF i \in changed THEN {} ELSE maybe[i]]
    /\ UNCHANGED <<up, stored, passphrase, cached, changed>>

\* It fails: the request is answered with an error, memory keeps the change.
WriteFails ==
    /\ up /\ writing
    /\ writing' = FALSE
    /\ maybe' = [i \in SecretIds |->
                    IF i \in changed THEN maybe[i] \cup {cached.value[i]} ELSE maybe[i]]
    /\ UNCHANGED <<up, disk, stored, passphrase, cached, changed, acked>>

Ready == up /\ ~writing

---------------------------------------------------------------------------
\* VaultStore::create, by set_enabled(true): a vault that is there is left alone.
Create(pass) ==
    /\ Ready /\ stored = NoFile
    /\ passphrase' = Open(pass) /\ cached' = Open(Empty)
    /\ stored' = Vault(Empty, pass)
    /\ Persist({})

\* set_enabled(false): no passphrase is asked for, and whether the file could be
\* removed is not looked at.
Disable ==
    /\ Ready
    /\ stored' = NoFile /\ passphrase' = Locked /\ cached' = Locked
    /\ acked' = Empty
    /\ \/ disk' = NoFile /\ maybe' = [i \in SecretIds |-> {}]
       \/ disk' = disk /\ maybe' = [i \in SecretIds |-> maybe[i] \cup ({acked[i]} \ {None})]
    /\ UNCHANGED <<up, writing, changed>>

\* Mutated form of Unlock: any passphrase is taken.
UnlockAnyway(pass) ==
    /\ Ready /\ stored # NoFile
    /\ passphrase' = Open(pass) /\ cached' = Open(stored.secrets)
    /\ UNCHANGED <<up, disk, stored, writing, changed, acked, maybe>>

\* VaultStore::unlock; a wrong passphrase leaves everything as it is.
Unlock(pass) ==
    /\ Ready /\ stored # NoFile /\ stored.pass = pass
    /\ passphrase' = Open(pass) /\ cached' = Open(stored.secrets)
    /\ UNCHANGED <<up, disk, stored, writing, changed, acked, maybe>>

Lock ==
    /\ Ready
    /\ passphrase' = Locked /\ cached' = Locked
    /\ UNCHANGED <<up, disk, stored, writing, changed, acked, maybe>>

\* Mutated form of Full: one too many.
FullPast(secrets) == Cardinality(Held(secrets)) > MaxSecrets

\* The check counts before it looks whether the id is there: a full vault also
\* refuses to change a secret.
Full(secrets) == Cardinality(Held(secrets)) >= MaxSecrets

\* The vault gets other contents in memory, is encrypted again and persisted.
Change(id, value) ==
    /\ cached' = Open([cached.value EXCEPT ![id] = value])
    /\ stored' = Vault(cached'.value, passphrase.value)
    /\ UNCHANGED passphrase
    /\ Persist({id})

PutSecret(id, value) ==
    /\ Ready /\ Unlocked
    /\ value <= MaxSecretBytes
    /\ ~Full(cached.value)
    /\ Change(id, value)

DeleteSecret(id) ==
    /\ Ready /\ Unlocked
    /\ cached.value[id] # None
    /\ Change(id, None)

---------------------------------------------------------------------------
\* isshd ends, or is killed while it writes.
End ==
    /\ up
    /\ up' = FALSE /\ writing' = FALSE
    /\ stored' = NoFile /\ passphrase' = Locked /\ cached' = Locked
    /\ maybe' = IF writing
                THEN [i \in SecretIds |->
                        IF i \in changed THEN maybe[i] \cup {cached.value[i]} ELSE maybe[i]]
                ELSE maybe
    /\ UNCHANGED <<disk, changed, acked>>

\* What VaultStore::open takes. The cap on the file is looked at here and nowhere else.
Readable == disk # Torn /\ (disk # NoFile => Bytes(disk.secrets) <= MaxFileBytes)

\* RuntimeState::open: without a vault that it can read isshd does not start.
Start ==
    /\ ~up /\ Readable
    /\ up' = TRUE /\ stored' = disk
    /\ UNCHANGED <<disk, passphrase, cached, writing, changed, acked, maybe>>

VaultInit ==
    /\ up = TRUE /\ disk = NoFile /\ stored = NoFile
    /\ passphrase = Locked /\ cached = Locked
    /\ writing = FALSE /\ changed = {}
    /\ acked = Empty /\ maybe = [i \in SecretIds |-> {}]

VaultNext ==
    \/ \E pass \in Passphrases : Create(pass) \/ Unlock(pass)
    \/ \E id \in SecretIds : DeleteSecret(id) \/ \E value \in Values : PutSecret(id, value)
    \/ Disable \/ Lock \/ Written \/ WriteFails \/ End \/ Start

VaultSpec == VaultInit /\ [][VaultNext]_vaultVars

---------------------------------------------------------------------------
(* Properties.                                                               *)

\* The type invariant; the vault never holds more secrets than its limit, none of
\* them larger than its limit.
Allowed(s) ==
    (\A i \in SecretIds : s[i] <= MaxSecretBytes) /\ Cardinality(Held(s)) <= MaxSecrets
Kept       == {s \in Contents : Allowed(s)}
VaultType  == {Vault(s, p) : s \in Kept, p \in Passphrases}
VaultTypeOK ==
    /\ up \in BOOLEAN /\ writing \in BOOLEAN
    /\ disk \in {NoFile, Torn} \cup VaultType /\ stored \in {NoFile} \cup VaultType
    /\ passphrase \in {Locked} \cup {Open(p) : p \in Passphrases}
    /\ cached \in {Locked} \cup {Open(s) : s \in Kept}
    /\ changed \subseteq SecretIds /\ acked \in Contents
    /\ maybe \in [SecretIds -> SUBSET (0..MaxValue)]

\* What is shown of an unlocked vault is what its ciphertext decrypts to with the
\* passphrase in memory, also when a write failed in between: locking it and
\* unlocking it again shows the same.
MemoryMatchesStored ==
    (passphrase = Locked) = (cached = Locked)
    /\ (Unlocked => stored = Vault(cached.value, passphrase.value))

\* Every secret has the value of the last answer about it, in memory and in a file
\* that can be read, over locks, ends and starts of isshd; or a value that a change
\* which failed, was cut off, or could not remove the file left behind.
KeepsAcknowledged ==
    \A i \in SecretIds :
        /\ disk = NoFile => acked[i] = None
        /\ disk.kind = "vault" => disk.secrets[i] \in {acked[i]} \cup maybe[i]
        /\ Unlocked /\ ~writing => cached.value[i] \in {acked[i]} \cup maybe[i]

=============================================================================
