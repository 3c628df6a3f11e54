----------------------------- MODULE SecretStore -----------------------------
(***************************************************************************)
(* LocalEncryptedSecretStore: encrypted records in a SQLite database, one  *)
(* master key in a file beside it, and in every process that has the store *)
(* open a copy of that key and a cache of plaintexts.  Each call runs      *)
(* under its process's lock; a write also holds SQLite's writer            *)
(* reservation from its first look at the key to its commit.  The user or  *)
(* another program may lose, damage or put back the key file at any time.  *)
(* Of the copies only this application's are kept: a write of another      *)
(* process reloads its key first, and its reads are not followed.          *)
(*                                                                         *)
(* A record is the key it was encrypted under, its value and its nonce: it *)
(* decrypts under that key and no other.  The digest of an endpoint that   *)
(* names its record is taken to be injective, a fresh random key to be new *)
(* and a fresh nonce to differ from the one of a record still held.        *)
(***************************************************************************)
EXTENDS SettingsStore

CONSTANTS
  App, Other,   \* the application, and a second process of it
  Endpoints,    \* LLM endpoints; each names one record
  MaxKeys,      \* bound: master keys ever generated
  MaxDamage,    \* bound: times the key file is touched from outside
  None,         \* no record, no endpoint
  Failed        \* a read that ends in an error

ASSUME SecretsAssumption ==
  /\ MaxKeys \in Nat /\ MaxDamage \in Nat
  /\ App # Other /\ None \notin {App, Other} \cup Endpoints

VARIABLES
  db,         \* the records
  keyFile,    \* the master key file
  fresh,      \* the next key a generator would produce
  master,     \* the application's copy of the key, its MasterKeyState
  cache,      \* the records whose plaintext the application holds
  writer,     \* who holds the writer reservation, and the key it will use
  damage      \* history: outside changes of the key file

secretVars == <<db, keyFile, fresh, master, cache, writer, damage>>

Keys == 1..MaxKeys
(* A file that is no key: absent or malformed, of a newer format, no file. *)
Missing == 0
Newer == -1
Special == -2
NotKeys == {Missing, Newer, Special}
KeyStates == Keys \cup NotKeys
Secrets == [for : Endpoints, stay : 0..MaxVersion]
Records == [key : Keys, value : Secrets, nonce : {0, 1}]

SecretsTypeOK ==
  /\ db \in [Endpoints -> Records \cup {None}]
  /\ keyFile \in KeyStates /\ fresh \in 1..(MaxKeys + 1)
  /\ master \in KeyStates /\ cache \in [Endpoints -> Records \cup {None}]
  /\ writer \in [by : {App, Other, None}, key : Keys \cup {Missing}] /\ damage \in 0..MaxDamage

Empty == [e \in Endpoints |-> None]
NoWriter == [by |-> None, key |-> Missing]

SecretsInit ==
  /\ db = Empty /\ keyFile = Missing /\ fresh = 1
  /\ master = Missing /\ cache = Empty /\ writer = NoWriter /\ damage = 0

Stored == {e \in Endpoints : db[e] # None}
Opens(key, e) == db[e] # None /\ db[e].key = key
Readable(e) == keyFile \in Keys /\ Opens(keyFile, e)

(* As Verified, but trusting the copy. *)
VerifiedByCopy(copy) == copy \in Keys

(* verify_current_master_key: the copy is a key and the file still has it. *)
Verified(copy) == copy \in Keys /\ copy = keyFile

(* classify_material_error: a key that is gone or malformed and a record   *)
(* that does not decrypt are loss; anything else is only an error.         *)
Loss(e) == keyFile = Missing \/ (keyFile \in Keys /\ ~Opens(keyFile, e))

(* inspect_secret_material, with the key reloaded when it has changed. *)
Material(e) ==
  IF db[e] = None THEN "NotConfigured"
  ELSE IF Readable(e) THEN "Configured"
  ELSE IF Loss(e) THEN "RecoveryRequired" ELSE "error"

StoreMaterial ==
  LET found == {Material(e) : e \in Stored}
  IN  IF found = {} THEN "NotConfigured"
      ELSE IF "error" \in found THEN "error"
      ELSE IF "RecoveryRequired" \in found THEN "RecoveryRequired"
      ELSE "Configured"

ReloadKey(p) == master' = IF p = App THEN keyFile ELSE master
ClearCache(p) == cache' = IF p = App THEN Empty ELSE cache
Forget(e) == cache' = [cache EXCEPT ![e] = None]

(* The lock of the application's store: its write holds it to the commit.  *)
Unlocked == writer.by # App

(* inspect: a record under examination has the key reloaded. *)
Inspect(e, result) ==
  /\ Unlocked
  /\ \/ /\ result = Material(e)
        /\ IF db[e] = None THEN UNCHANGED master ELSE ReloadKey(App)
        /\ CASE result = "NotConfigured" -> Forget(e)
             [] result = "Configured" -> UNCHANGED cache
             [] OTHER -> ClearCache(App)
     \/ result = "error" /\ UNCHANGED master /\ ClearCache(App)
  /\ UNCHANGED <<db, keyFile, fresh, writer, damage>>

InspectStore(result) ==
  /\ Unlocked
  /\ \/ /\ result = StoreMaterial
        /\ IF Stored = {} THEN UNCHANGED master ELSE ReloadKey(App)
        /\ IF result = "Configured" THEN UNCHANGED cache ELSE ClearCache(App)
     \/ result = "error" /\ UNCHANGED master /\ ClearCache(App)
  /\ UNCHANGED <<db, keyFile, fresh, writer, damage>>

(* A cached plaintext serves only while its record is the database's own. *)
CacheHit(e) == cache[e] # None /\ cache[e] = db[e]

(* read: the record first, then the key, then the cache or the decryption. *)
Read(e, result) ==
  /\ Unlocked
  /\ \/ /\ db[e] = None /\ result = None /\ Forget(e) /\ UNCHANGED master
     \/ /\ db[e] # None /\ ~Verified(master)
        /\ result = Failed /\ ClearCache(App) /\ ReloadKey(App)
     \/ /\ db[e] # None /\ Verified(master) /\ CacheHit(e)
        /\ result = cache[e].value /\ UNCHANGED <<master, cache>>
     \/ /\ db[e] # None /\ Verified(master) /\ ~CacheHit(e)
        /\ IF Opens(master, e)
           THEN result = db[e].value /\ cache' = [cache EXCEPT ![e] = db[e]]
           ELSE result = Failed /\ ClearCache(App)
        /\ UNCHANGED master
     \/ result = Failed /\ ClearCache(App) /\ UNCHANGED master
  /\ UNCHANGED <<db, keyFile, fresh, writer, damage>>

(* ensure_master_key_for_write, the key reloaded first: with records in    *)
(* the database only a key that opens every one of them will do; an empty  *)
(* database adopts the key that is there or has one made.                  *)
KeyFits == keyFile \in Keys /\ \A e \in Stored : Opens(keyFile, e)

MayMakeKey == Stored = {} /\ keyFile \in {Missing, Newer}

(* The IMMEDIATE transaction of replace and replace_namespace, up to its   *)
(* key: a key that was made stays when the call fails after it.            *)
BeginWrite(p, result) ==
  /\ writer = NoWriter
  /\ ClearCache(p)
  /\ \/ /\ KeyFits
        /\ result = "ok" /\ writer' = [by |-> p, key |-> keyFile]
        /\ ReloadKey(p) /\ UNCHANGED <<keyFile, fresh>>
     \/ /\ MayMakeKey /\ fresh \in Keys
        /\ keyFile' = fresh /\ fresh' = fresh + 1
        /\ master' = IF p = App THEN fresh ELSE master
        /\ \/ result = "ok" /\ writer' = [by |-> p, key |-> fresh]
           \/ result = "error" /\ UNCHANGED writer
     \/ /\ result = "error" /\ UNCHANGED <<keyFile, fresh, writer>>
        /\ ReloadKey(p) \/ UNCHANGED master
  /\ UNCHANGED <<db, damage>>

(* The only copy of a record that could be taken for the new one is the    *)
(* application's: two nonces tell them apart.                              *)
FreshNonce(e) == IF cache[e] = None THEN 0 ELSE 1 - cache[e].nonce

(* The key is verified once more, the value encrypted under it, the other  *)
(* records of the namespace deleted and the new one committed.             *)
CommitWrite(p, e, value, result) ==
  /\ writer.by = p /\ writer' = NoWriter
  /\ \/ /\ Verified(writer.key) /\ result = "ok"
        /\ LET record == [key |-> writer.key, value |-> value, nonce |-> FreshNonce(e)]
           IN  /\ db' = [Empty EXCEPT ![e] = record]
               /\ cache' = IF p = App THEN [cache EXCEPT ![e] = record] ELSE cache
        /\ UNCHANGED master
     \/ /\ result = "error" /\ UNCHANGED db /\ ClearCache(p)
        /\ IF Verified(writer.key) THEN UNCHANGED master ELSE ReloadKey(p)
  /\ UNCHANGED <<keyFile, fresh, damage>>

(* delete, delete_namespace and the resets: one transaction that looks at  *)
(* the material itself and refuses what it must not destroy.               *)
Remove(p, gone, allowed, result) ==
  /\ writer = NoWriter /\ ClearCache(p)
  /\ ReloadKey(p) \/ UNCHANGED master
  /\ \/ result = "ok" /\ allowed /\ db' = [e \in Endpoints |-> IF e \in gone THEN None ELSE db[e]]
     \/ result = "error" /\ UNCHANGED db
  /\ UNCHANGED <<keyFile, fresh, writer, damage>>

Delete(p, e, result) ==
  Remove(p, {e}, Material(e) \in {"NotConfigured", "Configured"}, result)
DeleteNamespace(p, result) ==
  Remove(p, Endpoints, StoreMaterial \in {"NotConfigured", "Configured"}, result)

(* As ResetUnrecoverable, but on what its caller has seen before. *)
ResetUnchecked(p, result) == Remove(p, Endpoints, TRUE, result)

ResetUnrecoverable(p, result) ==
  Remove(p, Endpoints, StoreMaterial = "RecoveryRequired", result)

(* Somebody outside changes the key file: a loss, a damage, a downgrade, a *)
(* repair from a backup of a key that was in use.                          *)
DamageKeyFile ==
  /\ damage < MaxDamage /\ damage' = damage + 1
  /\ keyFile' \in (NotKeys \cup (1..(fresh - 1))) \ {keyFile}
  /\ UNCHANGED <<db, fresh, master, cache, writer>>

(* The application dies and opens the store again: its open transaction is *)
(* rolled back, its copies are gone, the key is what the file has.         *)
Reopen ==
  /\ master' = keyFile /\ cache' = Empty
  /\ writer' = IF writer.by = App THEN NoWriter ELSE writer
  /\ UNCHANGED <<db, keyFile, fresh, damage>>

=============================================================================
