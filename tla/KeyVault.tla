-------------------------------- MODULE KeyVault --------------------------------
(***************************************************************************)
(* KeyVault (src/security.rs): the keys of providers in one encrypted      *)
(* file.  Every change loads the whole vault, changes the map and writes   *)
(* the file back; several processes may do so without a lock.  The key of  *)
(* the cipher is a file of its own, made by the first process that finds   *)
(* none, or derived from a password and a salt file made the same way.     *)
(* A vault that cannot be read, for whatever reason, is an empty one.      *)
(***************************************************************************)
EXTENDS Naturals, FiniteSets

CONSTANTS
  Processes,   \* processes that open the vault
  Owners,      \* the providers whose keys it holds
  Keys,        \* the keys
  MaxVaultSteps,   \* bound on opens, stores and removals
  Absent, Plain, Torn  \* no file or key; no cipher; a file that was cut

VARIABLES
  vault,       \* the file: under which cipher it was written, and its map
  secret,      \* the key file and the salt file
  handle,      \* handle[p]: the KeyVault of process p
  reported,    \* the keys as store and remove last reported them
  lapsed,      \* the owners whose report a failure or a race has overtaken
  steps        \* how many operations are left

vaultVars == <<vault, secret, handle, reported, lapsed, steps>>

Maps == [Owners -> Keys \cup {Absent}]
Empty == [o \in Owners |-> Absent]
Files == {"vault.key", "vault.salt"}

\* What may be drawn, and the ciphers it gives; the marks are none of them.
Draws == Processes \X (0..MaxVaultSteps)
Ciphers == {Plain} \cup (Files \X (Draws \cup {Torn}))
ASSUME VaultAssumption ==
  /\ MaxVaultSteps \in Nat
  /\ Torn # Absent /\ Torn \notin Ciphers /\ Absent \notin Ciphers
Closed == [step |-> "closed", file |-> "vault.key", cipher |-> Plain, found |-> Absent,
           data |-> Empty, owner |-> Absent, alone |-> TRUE, read |-> TRUE]

VInit ==
  /\ vault = [cipher |-> Absent, map |-> Empty]
  /\ secret = [f \in Files |-> Absent]
  /\ handle = [p \in Processes |-> Closed]
  /\ reported = Empty
  /\ lapsed = {}
  /\ steps = MaxVaultSteps

Operation == steps > 0 /\ steps' = steps - 1
-------------------------------------------------------------------------------
(* KeyVault::new.  With NYQUEST_VAULT_PASSWORD set the cipher comes from    *)
(* the salt, otherwise from the key file.                                   *)

\* What a process finds of the file it takes its key from.
Open(p) ==
  /\ handle[p].step = "closed" /\ Operation
  /\ \E f \in Files :
       handle' = [handle EXCEPT ![p] = [Closed EXCEPT !.step = "init_cipher", !.file = f,
                                                      !.found = secret[f]]]
  /\ UNCHANGED <<vault, secret, reported, lapsed>>

\* A file that exists gives the cipher; a key file that is too short gives none.
CipherFrom(f, found) == IF f = "vault.key" /\ found = Torn THEN Plain ELSE <<f, found>>

UseSecret(p) ==
  /\ handle[p].step = "init_cipher" /\ handle[p].found # Absent
  /\ handle' = [handle EXCEPT ![p].step = "open",
                              ![p].cipher = CipherFrom(handle[p].file, handle[p].found)]
  /\ UNCHANGED <<vault, secret, reported, lapsed, steps>>

\* None was there: random bytes, told apart by who drew them and when, are
\* written over whatever another process has written since.  When they cannot
\* be written a salt is used all the same, a key is not.
Drawn(p) == <<p, steps>>
MakeSecret(p) ==
  LET f == handle[p].file IN
  /\ handle[p].step = "init_cipher" /\ handle[p].found = Absent
  /\ \E written \in BOOLEAN :
       /\ secret' = IF written THEN [secret EXCEPT ![f] = Drawn(p)] ELSE secret
       /\ handle' = [handle EXCEPT ![p].step = "open",
                                   ![p].cipher = IF written \/ f = "vault.salt"
                                                 THEN <<f, Drawn(p)>> ELSE Plain]
  /\ UNCHANGED <<vault, reported, lapsed, steps>>

\* Killed after the file was created and before it was written.
DieMakingSecret(p) ==
  /\ handle[p].step = "init_cipher" /\ handle[p].found = Absent
  /\ secret' = [secret EXCEPT ![handle[p].file] = Torn]
  /\ handle' = [handle EXCEPT ![p] = Closed]
  /\ UNCHANGED <<vault, reported, lapsed, steps>>
-------------------------------------------------------------------------------
(* store, remove. *)

load_none(cipher) == Empty
load_vault(cipher) ==
  IF vault.cipher = cipher THEN vault.map ELSE Empty
Readable(cipher) == vault.cipher \in {Absent, cipher}

\* What the process takes the vault for, and whether it is that: reading the
\* file may fail too.
Loaded(cipher) ==
  {[map |-> load_vault(cipher), read |-> Readable(cipher)], [map |-> Empty, read |-> FALSE]}

Change(p, loaded, owner, key) ==
  handle' = [handle EXCEPT ![p].step = "save", ![p].owner = owner,
                           ![p].data = [loaded.map EXCEPT ![owner] = key],
                           ![p].read = loaded.read, ![p].alone = TRUE]

store(p) ==
  /\ handle[p].step = "open" /\ Operation
  /\ \E o \in Owners, k \in Keys, loaded \in Loaded(handle[p].cipher) :
       Change(p, loaded, o, k)
  /\ UNCHANGED <<vault, secret, reported, lapsed>>

\* Nothing is saved when there is nothing to remove.
remove(p) ==
  /\ handle[p].step = "open" /\ Operation
  /\ \E o \in Owners, loaded \in Loaded(handle[p].cipher) :
       IF loaded.map[o] = Absent THEN UNCHANGED handle
       ELSE Change(p, loaded, o, Absent)
  /\ UNCHANGED <<vault, secret, reported, lapsed>>

OthersOverlap(p) ==
  [q \in Processes |-> IF q = p THEN handle[q] ELSE [handle[q] EXCEPT !.alone = FALSE]]

\* save_vault: fs::write truncates the file ...
TornVault == [cipher |-> Torn, map |-> Empty]
Truncate(p) ==
  /\ handle[p].step = "save"
  /\ vault' = TornVault
  /\ handle' = [OthersOverlap(p) EXCEPT ![p].step = "saving"]
  /\ UNCHANGED <<secret, reported, lapsed, steps>>

\* ... and writes it from the start; over what another process has written
\* meanwhile, the result may not decrypt.  The reports that still hold then are
\* those that held before, if the process had read the vault and was alone at it.
Report(p) == reported' = [reported EXCEPT ![handle[p].owner] = handle[p].data[handle[p].owner]]
Save(p) ==
  LET h == handle[p] IN
  /\ h.step = "saving"
  /\ \/ /\ vault' = [cipher |-> h.cipher, map |-> h.data]
        /\ lapsed' = (IF h.alone /\ h.read THEN lapsed ELSE Owners) \ {h.owner}
     \/ vault.cipher # Torn /\ vault' = TornVault /\ lapsed' = Owners
  /\ handle' = [OthersOverlap(p) EXCEPT ![p].step = "open"]
  /\ Report(p)
  /\ UNCHANGED <<secret, steps>>

\* The map cannot be encrypted or the file not opened, and the vault is as it
\* was; or the write fails after the truncation, and it stays cut.  Either is
\* logged, and store and remove report what they had set out to do.
FailSave(p) ==
  LET h == handle[p] IN
  /\ h.step \in {"save", "saving"}
  /\ IF h.step = "save"
     THEN /\ lapsed' = lapsed \cup {h.owner} /\ vault' = vault
          /\ handle' = [handle EXCEPT ![p].step = "open"]
     ELSE /\ lapsed' = Owners /\ vault' \in {vault, TornVault}
          /\ handle' = [OthersOverlap(p) EXCEPT ![p].step = "open"]
  /\ Report(p)
  /\ UNCHANGED <<secret, steps>>

\* The process ends; a file being written stays cut.
Exit(p) ==
  /\ handle[p].step \in {"open", "save", "saving"}
  /\ handle' = [handle EXCEPT ![p] = Closed]
  /\ lapsed' = IF handle[p].step = "saving" THEN Owners ELSE lapsed
  /\ UNCHANGED <<vault, secret, reported, steps>>

VNext == \E p \in Processes :
  \/ Open(p) \/ UseSecret(p) \/ MakeSecret(p) \/ DieMakingSecret(p)
  \/ store(p) \/ remove(p)
  \/ Truncate(p) \/ Save(p) \/ FailSave(p) \/ Exit(p)

VSpec == VInit /\ [][VNext]_vaultVars
-------------------------------------------------------------------------------
\* What store and remove reported of a provider is what the vault holds while
\* nobody writes it, through any number of changes to other providers' keys and
\* whoever made the key file or left it torn; but for the reports a failure or a
\* race has overtaken: a write that failed (store reports the key all the same)
\* or was cut short by the end of its process, and a save by a process that
\* could not read the vault it replaced, or that overlapped another's.
NoneSaving == \A p \in Processes : handle[p].step # "saving"
ReportedKeysStay ==
  NoneSaving => \A o \in Owners \ lapsed : vault.map[o] = reported[o]
================================================================================
