------------------------------ MODULE Settings ------------------------------
(***************************************************************************)
(* The versioned settings store of the backend                             *)
(* (src/backend/src/settings): the table `settings` with one row per       *)
(* category and key, the table `settings_history`, and the requests of     *)
(* SuperAdmins that read, change and roll back a setting.                  *)
(*                                                                         *)
(* A change or a rollback is one database transaction at READ COMMITTED.   *)
(* Its reads see what is committed when they run and take no lock; its     *)
(* two writes become visible together when it commits.  A transaction is   *)
(* therefore one step per read and one step for writes and commit.         *)
(***************************************************************************)
EXTENDS Naturals, Sequences

CONSTANTS
  Keys,        \* the settings, each a pair of category and key
  Values,      \* what a user can type into the value field
  Requests,    \* the requests in progress at the same time
  Null,        \* SQL's NULL; also the answer of a key that has no row
  MaxHistory   \* bound: no request starts on a key with so many history rows

VARIABLES
  setting,     \* the row of each key, or Null
  history,     \* the history rows of each key in the order of their commits
  req,         \* the state of each request
  was,         \* history variable: every row a key has ever had
  overwrote    \* history variable: the keys of which a change based on an
               \* outdated row has been committed

vars == <<setting, history, req, was, overwrote>>

-----------------------------------------------------------------------------
(* Only 'secret' is treated apart from the other types.                    *)
Types == {"plain", "secret"}

(* EncryptionService.  The ciphertext, the initialisation vector and the   *)
(* tag are written and read together: one column here.                     *)
Encrypt(v) == [sealed |-> v]
Decrypt(c) == c.sealed
Ciphers == {Encrypt(v) : v \in Values}

Row == [type : Types, value : Values \cup {Null},
        cipher : Ciphers \cup {Null}, version : Nat \ {0}]

ASSUME SettingsAssumption ==
  /\ Null \notin Values \cup Ciphers \cup Row
  /\ MaxHistory \in Nat

(* What getPlaintext returns for a row.                                    *)
Plaintext(row) ==
  IF row.type # "secret" THEN row.value
  ELSE IF row.cipher = Null THEN Null ELSE Decrypt(row.cipher)

Idle == [pc |-> "idle"]

Request ==
  {Idle}
  \cup [pc : {"upsert"}, key : Keys, type : Types, value : Values,
        seen : Row \cup {Null}]
  \cup [pc : {"target"}, key : Keys, to : Nat \ {0}, seen : Row]
  \cup [pc : {"restore"}, key : Keys, to : Nat \ {0}, seen : Row,
        target : Row]

Init ==
  /\ setting = [k \in Keys |-> Null]
  /\ history = [k \in Keys |-> <<>>]
  /\ req = [r \in Requests |-> Idle]
  /\ was = [k \in Keys |-> {}]
  /\ overwrote = {}

-----------------------------------------------------------------------------
(* Writes of a transaction and its commit.                                 *)

(* Mutant: the history row takes its columns from the new input.           *)
ReplaceKeepingNew(k, seen, new) ==
  /\ setting' = [setting EXCEPT ![k] = new]
  /\ history' = [history EXCEPT ![k] = Append(@, [new EXCEPT !.version = seen.version])]
  /\ was' = [was EXCEPT ![k] = @ \cup {new}]
  /\ overwrote' = IF setting[k] = seen THEN overwrote ELSE overwrote \cup {k}

(* The row `new` becomes the current one and `seen`, the row the           *)
(* transaction has read, is kept in the history.                           *)
Replace(k, seen, new) ==
  /\ setting' = [setting EXCEPT ![k] = new]
  /\ history' = [history EXCEPT ![k] = Append(@, seen)]
  /\ was' = [was EXCEPT ![k] = @ \cup {new}]
  /\ overwrote' = IF setting[k] = seen THEN overwrote ELSE overwrote \cup {k}

Insert(k, new) ==
  /\ setting' = [setting EXCEPT ![k] = new]
  /\ was' = [was EXCEPT ![k] = @ \cup {new}]
  /\ UNCHANGED <<history, overwrote>>

Finish(r) == req' = [req EXCEPT ![r] = Idle]

-----------------------------------------------------------------------------
(* POST /settings/:category/:key.                                          *)

(* The transaction reads the row of the key.                               *)
StartUpsert(r) ==
  /\ req[r].pc = "idle"
  /\ \E k \in Keys, t \in Types, v \in Values :
       /\ Len(history[k]) < MaxHistory
       /\ req' = [req EXCEPT ![r] = [pc |-> "upsert", key |-> k, type |-> t,
                                     value |-> v, seen |-> setting[k]]]
  /\ UNCHANGED <<setting, history, was, overwrote>>

(* Mutant: `value: isSecret ? undefined : value`.                          *)
UpdatedRowKeepingValue(r) ==
  LET q == req[r] IN
  [type    |-> q.type,
   value   |-> IF q.type = "secret" THEN setting[q.key].value ELSE q.value,
   cipher  |-> IF q.type = "secret" THEN Encrypt(q.value)
               ELSE setting[q.key].cipher,
   version |-> q.seen.version + 1]

(* The columns the update writes.  `encryptedValue: undefined` leaves the  *)
(* column of the row as it is in the database by then.                     *)
UpdatedRow(r) ==
  LET q == req[r] IN
  [type    |-> q.type,
   value   |-> IF q.type = "secret" THEN Null ELSE q.value,
   cipher  |-> IF q.type = "secret" THEN Encrypt(q.value)
               ELSE setting[q.key].cipher,
   version |-> q.seen.version + 1]

UpdateSetting(r) ==
  /\ req[r].pc = "upsert"
  /\ req[r].seen # Null
  /\ Replace(req[r].key, req[r].seen, UpdatedRow(r))
  /\ Finish(r)

(* Mutant: a new setting starts without a version.                         *)
CreatedUnversioned(r) ==
  LET q == req[r] IN
  [type    |-> q.type,
   value   |-> IF q.type = "secret" THEN Null ELSE q.value,
   cipher  |-> IF q.type = "secret" THEN Encrypt(q.value) ELSE Null,
   version |-> 0]

CreatedRow(r) ==
  LET q == req[r] IN
  [type    |-> q.type,
   value   |-> IF q.type = "secret" THEN Null ELSE q.value,
   cipher  |-> IF q.type = "secret" THEN Encrypt(q.value) ELSE Null,
   version |-> 1]

(* The key had no row when the transaction read it.  The unique index on   *)
(* tenant, category and key makes the insert fail if it has one now.       *)
CreateSetting(r) ==
  /\ req[r].pc = "upsert"
  /\ req[r].seen = Null
  /\ setting[req[r].key] = Null
  /\ Insert(req[r].key, CreatedRow(r))
  /\ Finish(r)

-----------------------------------------------------------------------------
(* POST /settings/rollback/:id.  Only a setting that exists has an id.     *)

StartRollback(r) ==
  /\ req[r].pc = "idle"
  /\ \E k \in Keys, v \in 1 .. MaxHistory :
       /\ setting[k] # Null
       /\ Len(history[k]) < MaxHistory
       /\ req' = [req EXCEPT ![r] = [pc |-> "target", key |-> k, to |-> v,
                                     seen |-> setting[k]]]
  /\ UNCHANGED <<setting, history, was, overwrote>>

(* Mutant: the version is not part of the query.                           *)
AllVersions(r) ==
  {history[req[r].key][i] : i \in 1 .. Len(history[req[r].key])}

(* findFirst without an order: any row of that version.                    *)
Candidates(r) ==
  {history[req[r].key][i] :
     i \in {j \in 1 .. Len(history[req[r].key]) :
              history[req[r].key][j].version = req[r].to}}

FindTarget(r) ==
  /\ req[r].pc = "target"
  /\ \E row \in Candidates(r) :
       req' = [req EXCEPT ![r] = [pc |-> "restore", key |-> req[r].key,
                                  to |-> req[r].to, seen |-> req[r].seen,
                                  target |-> row]]
  /\ UNCHANGED <<setting, history, was, overwrote>>

VersionNotFound(r) ==
  /\ req[r].pc = "target"
  /\ Candidates(r) = {}
  /\ Finish(r)
  /\ UNCHANGED <<setting, history, was, overwrote>>

(* Mutant: the version counts on from the row restored.                    *)
RestoredVersion(r) ==
  [req[r].target EXCEPT !.version = req[r].target.version + 1]

(* All columns of the history row, under a version of its own.             *)
RestoredRow(r) ==
  [req[r].target EXCEPT !.version = req[r].seen.version + 1]

Restore(r) ==
  /\ req[r].pc = "restore"
  /\ Replace(req[r].key, req[r].seen, RestoredRow(r))
  /\ Finish(r)

-----------------------------------------------------------------------------
(* GET /settings: one read of what is committed; nothing changes.          *)
ListSettings(r) ==
  /\ req[r].pc = "idle"
  /\ UNCHANGED vars

(* The database is unreachable, the transaction's time is up, the process  *)
(* dies, or the unique index refuses the insert: nothing is committed.     *)
TransactionFails(r) ==
  /\ req[r].pc # "idle"
  /\ Finish(r)
  /\ UNCHANGED <<setting, history, was, overwrote>>

Next ==
  \E r \in Requests :
    \/ StartUpsert(r) \/ UpdateSetting(r) \/ CreateSetting(r)
    \/ StartRollback(r) \/ FindTarget(r) \/ VersionNotFound(r) \/ Restore(r)
    \/ ListSettings(r) \/ TransactionFails(r)

Spec == Init /\ [][Next]_vars

-----------------------------------------------------------------------------
(* Properties.                                                             *)

TypeOK ==
  /\ setting \in [Keys -> Row \cup {Null}]
  /\ history \in [Keys -> Seq(Row)]
  /\ req \in [Requests -> Request]
  /\ was \in [Keys -> SUBSET Row]
  /\ overwrote \in SUBSET Keys

(* A row of type secret has nothing in the readable column and can be      *)
(* decrypted; a row of another type has something there.                   *)
Sealed(row) ==
  IF row.type = "secret" THEN row.value = Null /\ row.cipher # Null
  ELSE row.value # Null

(* A row has no ciphertext but that of a value the setting had as a        *)
(* secret.                                                                 *)
CipherOfSecret(k, row) ==
  row.cipher # Null => \E old \in was[k] : old.type = "secret" /\ old.cipher = row.cipher

(* However a setting was switched between secret and readable types,       *)
(* changed and rolled back: in its row and in the rows of its history, a   *)
(* secret is never readable and can always be decrypted, a readable type   *)
(* has a readable value, and a ciphertext is that of a value which was     *)
(* stored as a secret.  The row of a readable type may hold one: it is     *)
(* left from before (settings.service.ts, upsert and rollback; see         *)
(* CiphertextOnlyOfSecrets).                                               *)
SecretsAreSealed ==
  \A k \in Keys :
    /\ setting[k] # Null => Sealed(setting[k]) /\ CipherOfSecret(k, setting[k])
    /\ \A i \in 1 .. Len(history[k]) :
         Sealed(history[k][i]) /\ CipherOfSecret(k, history[k][i])

(* What schema.prisma says of encryptedValue, encryptionIv and             *)
(* encryptionTag: they are null when the setting is not a secret.          *)
CiphertextOnlyOfSecrets ==
  \A k \in Keys :
    setting[k] # Null /\ setting[k].type # "secret" => setting[k].cipher = Null

(* The history tells nothing that was not so: each of its rows, with its   *)
(* version, was the row of the setting at some time, also when requests    *)
(* overlapped ("Preserve the previous version in history").                *)
HistoryIsGenuine ==
  \A k \in Keys : \A i \in 1 .. Len(history[k]) : history[k][i] \in was[k]

(* As long as no request has committed on top of an outdated row, the      *)
(* history and the current row are the versions 1, 2, 3, ... without a gap *)
(* or a repetition ("One row per change", schema.prisma), so that a        *)
(* rollback finds exactly one row for each earlier version.                *)
SerialHistory ==
  \A k \in Keys \ overwrote :
    /\ setting[k] = Null => history[k] = <<>>
    /\ setting[k] # Null => setting[k].version = Len(history[k]) + 1
    /\ \A i \in 1 .. Len(history[k]) : history[k][i].version = i

(* A rollback brings back what the setting was at the version asked for:   *)
(* its type and its plaintext, never a mixture of two rows.                *)
RollbackRestores ==
  [][\A r \in Requests :
       (req[r].pc = "restore" /\ req'[r].pc = "idle"
          /\ setting'[req[r].key] # setting[req[r].key])
       => \E old \in was[req[r].key] :
            /\ old.version = req[r].to
            /\ old.type = setting'[req[r].key].type
            /\ Plaintext(old) = Plaintext(setting'[req[r].key])]_vars

(* What a request has read was the row of the setting once, and a setting  *)
(* that had a row still has one when the request goes on.                  *)
ReadsAreGenuine ==
  \A r \in Requests :
    LET q == req[r] IN
    /\ q.pc \in {"upsert", "target", "restore"} /\ q.seen # Null =>
         /\ setting[q.key] # Null
         /\ q.seen \in was[q.key]
    /\ q.pc = "restore" => q.target \in was[q.key] /\ q.target.version = q.to

RowsAreSealed ==
  \A k \in Keys :
    /\ \A row \in was[k] : Sealed(row) /\ CipherOfSecret(k, row)
    /\ setting[k] # Null => setting[k] \in was[k]

(* The inductive invariant.                                                *)
IInv ==
  /\ TypeOK
  /\ SecretsAreSealed
  /\ HistoryIsGenuine
  /\ SerialHistory
  /\ ReadsAreGenuine
  /\ RowsAreSealed

=============================================================================
