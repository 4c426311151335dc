--------------------------- MODULE SettingsProofs ---------------------------
(* Proofs about Settings, for every number of settings, values and         *)
(* concurrent requests.                                                    *)
EXTENDS Settings, TLAPS

LEMMA NullFacts ==
  /\ Null \notin Row
  /\ Null \notin Values
  /\ \A v \in Values : Encrypt(v) \in Ciphers /\ Encrypt(v) # Null /\ Decrypt(Encrypt(v)) = v
  BY SettingsAssumption DEF Ciphers, Encrypt, Decrypt

LEMMA InvInit == Init => IInv
<1> SUFFICES ASSUME Init PROVE IInv
  OBVIOUS
<1>1. TypeOK
  BY DEF Init, TypeOK, Request
<1>2. SecretsAreSealed /\ HistoryIsGenuine /\ SerialHistory /\ ReadsAreGenuine /\ RowsAreSealed
  BY DEF Init, SecretsAreSealed, HistoryIsGenuine, SerialHistory, ReadsAreGenuine,
         RowsAreSealed, Idle
<1> QED
  BY <1>1, <1>2 DEF IInv

\* What a request in progress may rely on.
LEMMA RequestFacts ==
  ASSUME IInv, NEW r \in Requests, req[r].pc # "idle"
  PROVE  /\ req[r].pc \in {"upsert", "target", "restore"}
         /\ req[r].key \in Keys
         /\ req[r].seen \in Row \cup {Null}
         /\ req[r].pc = "upsert" => req[r].type \in Types /\ req[r].value \in Values
         /\ req[r].pc \in {"target", "restore"} => req[r].seen # Null /\ req[r].to \in Nat \ {0}
         /\ req[r].seen # Null =>
              /\ setting[req[r].key] # Null
              /\ req[r].seen \in was[req[r].key]
              /\ req[r].seen \in Row
         /\ req[r].pc = "restore" =>
              /\ req[r].target \in Row
              /\ req[r].target \in was[req[r].key]
              /\ req[r].target.version = req[r].to
  BY NullFacts DEF IInv, TypeOK, Request, ReadsAreGenuine, Idle

\* A step of one request that commits nothing.
LEMMA ReadStep ==
  ASSUME IInv, NEW r \in Requests, NEW q \in Request,
         UNCHANGED <<setting, history, was, overwrote>>,
         req' = [req EXCEPT ![r] = q],
         q.pc \in {"upsert", "target", "restore"} /\ q.seen # Null =>
           setting[q.key] # Null /\ q.seen \in was[q.key],
         q.pc = "restore" => q.target \in was[q.key] /\ q.target.version = q.to
  PROVE  IInv'
<1>1. TypeOK'
  BY DEF IInv, TypeOK
<1>2. SecretsAreSealed' /\ HistoryIsGenuine' /\ SerialHistory' /\ RowsAreSealed'
  BY DEF IInv, SecretsAreSealed, HistoryIsGenuine, SerialHistory, RowsAreSealed, CipherOfSecret
<1>3. ReadsAreGenuine'
  BY DEF IInv, TypeOK, ReadsAreGenuine
<1> QED
  BY <1>1, <1>2, <1>3 DEF IInv

LEMMA FinishStep ==
  ASSUME IInv, NEW r \in Requests, UNCHANGED <<setting, history, was, overwrote>>, Finish(r)
  PROVE  IInv'
<1>1. Idle \in Request /\ Idle.pc = "idle"
  BY DEF Request, Idle
<1> QED
  BY <1>1, ReadStep DEF Finish

LEMMA StartUpsertStep ==
  ASSUME IInv, NEW r \in Requests, StartUpsert(r)
  PROVE  IInv'
<1>1. PICK k \in Keys, t \in Types, v \in Values :
        req' = [req EXCEPT ![r] = [pc |-> "upsert", key |-> k, type |-> t,
                                   value |-> v, seen |-> setting[k]]]
  BY DEF StartUpsert
<1> DEFINE q == [pc |-> "upsert", key |-> k, type |-> t, value |-> v, seen |-> setting[k]]
<1>2. q \in Request
  BY DEF IInv, TypeOK, Request
<1>3. setting[k] # Null => setting[k] \in was[k]
  BY DEF IInv, RowsAreSealed
<1> QED
  BY <1>1, <1>2, <1>3, ReadStep DEF StartUpsert

LEMMA StartRollbackStep ==
  ASSUME IInv, NEW r \in Requests, StartRollback(r)
  PROVE  IInv'
<1>1. PICK k \in Keys, v \in 1 .. MaxHistory :
        /\ setting[k] # Null
        /\ req' = [req EXCEPT ![r] = [pc |-> "target", key |-> k, to |-> v,
                                      seen |-> setting[k]]]
  BY DEF StartRollback
<1> DEFINE q == [pc |-> "target", key |-> k, to |-> v, seen |-> setting[k]]
<1>2. q \in Request
  BY <1>1, SettingsAssumption DEF IInv, TypeOK, Request
<1>3. setting[k] \in was[k]
  BY <1>1 DEF IInv, RowsAreSealed
<1> QED
  BY <1>1, <1>2, <1>3, ReadStep DEF StartRollback

LEMMA FindTargetStep ==
  ASSUME IInv, NEW r \in Requests, FindTarget(r)
  PROVE  IInv'
<1> DEFINE o == req[r]
<1>1. o.pc = "target"
  BY DEF FindTarget
<1>2. /\ o.key \in Keys
      /\ o.to \in Nat \ {0}
      /\ o.seen # Null
      /\ setting[o.key] # Null
      /\ o.seen \in was[o.key]
      /\ o.seen \in Row
  BY <1>1, RequestFacts
<1>3. PICK row \in Candidates(r) :
        req' = [req EXCEPT ![r] = [pc |-> "restore", key |-> o.key, to |-> o.to,
                                   seen |-> o.seen, target |-> row]]
  BY DEF FindTarget
<1> DEFINE q == [pc |-> "restore", key |-> o.key, to |-> o.to, seen |-> o.seen, target |-> row]
<1>4. row \in Row /\ row \in was[o.key] /\ row.version = o.to
  BY <1>2 DEF IInv, TypeOK, HistoryIsGenuine, Candidates
<1>5. q \in Request
  BY <1>2, <1>4 DEF Request
<1> QED
  BY <1>2, <1>3, <1>4, <1>5, ReadStep DEF FindTarget

\* A new row of a setting is added to those it has had.
LEMMA RowAdded ==
  ASSUME IInv, NEW k \in Keys, NEW new \in Row, Sealed(new),
         new.type = "secret" \/ CipherOfSecret(k, new),
         setting' = [setting EXCEPT ![k] = new],
         was' = [was EXCEPT ![k] = @ \cup {new}]
  PROVE  /\ RowsAreSealed'
         /\ \A l \in Keys : \A row \in was'[l] : CipherOfSecret(l, row)'
<1>1. /\ setting'[k] = new
      /\ was'[k] = was[k] \cup {new}
      /\ \A l \in Keys \ {k} : setting'[l] = setting[l] /\ was'[l] = was[l]
  BY DEF IInv, TypeOK
<1>2. \A l \in Keys : was[l] \subseteq was'[l]
  BY <1>1
<1>3. ASSUME NEW l \in Keys, NEW row, CipherOfSecret(l, row)
      PROVE  CipherOfSecret(l, row)'
  BY <1>2, <1>3 DEF CipherOfSecret
<1>4. CipherOfSecret(k, new)'
  BY <1>1, <1>3 DEF CipherOfSecret
<1>5. \A l \in Keys : \A row \in was[l] : Sealed(row) /\ CipherOfSecret(l, row)
  BY DEF IInv, RowsAreSealed
<1>6. \A l \in Keys : \A row \in was'[l] : Sealed(row) /\ CipherOfSecret(l, row)'
  BY <1>1, <1>3, <1>4, <1>5
<1>7. \A l \in Keys : setting'[l] # Null => setting'[l] \in was'[l]
  BY <1>1 DEF IInv, RowsAreSealed
<1> QED
  BY <1>6, <1>7 DEF RowsAreSealed

\* A change or a rollback commits a row that is sealed on top of the row it has
\* read.
LEMMA ReplaceStep ==
  ASSUME IInv, NEW r \in Requests, NEW new \in Row, Sealed(new),
         new.type = "secret" \/ CipherOfSecret(req[r].key, new),
         req[r].pc # "idle", req[r].seen # Null,
         new.version = req[r].seen.version + 1,
         Replace(req[r].key, req[r].seen, new),
         Finish(r)
  PROVE  IInv'
<1> DEFINE k == req[r].key
           seen == req[r].seen
<1>1. /\ k \in Keys
      /\ seen \in Row
      /\ seen \in was[k]
      /\ setting[k] # Null
  BY RequestFacts
<1>2. new # Null
  BY NullFacts
<1>3. /\ setting' = [setting EXCEPT ![k] = new]
      /\ history' = [history EXCEPT ![k] = Append(@, seen)]
      /\ was' = [was EXCEPT ![k] = @ \cup {new}]
      /\ overwrote' = IF setting[k] = seen THEN overwrote ELSE overwrote \cup {k}
  BY DEF Replace
<1>4. TypeOK'
  BY <1>1, <1>3 DEF IInv, TypeOK, Finish, Request
<1>5. /\ history[k] \in Seq(Row)
      /\ history'[k] = Append(history[k], seen)
      /\ setting'[k] = new
      /\ was'[k] = was[k] \cup {new}
      /\ \A l \in Keys \ {k} : /\ history'[l] = history[l]
                               /\ setting'[l] = setting[l]
                               /\ was'[l] = was[l]
                               /\ l \in overwrote' <=> l \in overwrote
  BY <1>1, <1>3 DEF IInv, TypeOK
<1>6. /\ Len(history'[k]) = Len(history[k]) + 1
      /\ \A i \in 1 .. Len(history[k]) : history'[k][i] = history[k][i]
      /\ history'[k][Len(history[k]) + 1] = seen
  BY <1>1, <1>5
<1>7. Len(history[k]) \in Nat
  BY <1>5
<1>8. \A i \in 1 .. Len(history'[k]) : i \in 1 .. Len(history[k]) \/ i = Len(history[k]) + 1
  BY <1>6, <1>7
<1>9. RowsAreSealed' /\ (\A l \in Keys : \A row \in was'[l] : CipherOfSecret(l, row)')
  <2> HIDE DEF k
  <2> QED
    BY <1>1, <1>3, RowAdded DEF k
<1>11. HistoryIsGenuine'
  <2>1. \A i \in 1 .. Len(history'[k]) : history'[k][i] \in was'[k]
    BY <1>1, <1>5, <1>6, <1>8 DEF IInv, HistoryIsGenuine
  <2> QED
    BY <1>5, <2>1 DEF IInv, HistoryIsGenuine
<1>10. SecretsAreSealed'
  <2>1. \A l \in Keys : \A row \in was'[l] : Sealed(row) /\ CipherOfSecret(l, row)'
    BY <1>9 DEF RowsAreSealed
  <2>2. \A l \in Keys : setting'[l] # Null => setting'[l] \in was'[l]
    BY <1>9 DEF RowsAreSealed
  <2>3. \A l \in Keys : \A i \in 1 .. Len(history'[l]) : history'[l][i] \in was'[l]
    BY <1>11 DEF HistoryIsGenuine
  <2> QED
    BY <2>1, <2>2, <2>3 DEF SecretsAreSealed
<1>12. SerialHistory'
  <2>1. ASSUME k \notin overwrote'
        PROVE  /\ setting'[k].version = Len(history'[k]) + 1
               /\ \A i \in 1 .. Len(history'[k]) : history'[k][i].version = i
    <3>1. setting[k] = seen /\ k \notin overwrote
      BY <1>3, <2>1
    <3>2. seen.version = Len(history[k]) + 1
      BY <1>1, <3>1 DEF IInv, SerialHistory
    <3>3. \A i \in 1 .. Len(history[k]) : history[k][i].version = i
      BY <1>1, <3>1 DEF IInv, SerialHistory
    <3>4. setting'[k].version = Len(history'[k]) + 1
      BY <1>5, <1>6, <3>2
    <3> QED
      BY <1>6, <1>8, <3>2, <3>3, <3>4
  <2>2. setting'[k] # Null
    BY <1>2, <1>5
  <2>3. ASSUME NEW l \in Keys \ overwrote', l # k
        PROVE  /\ setting'[l] = Null => history'[l] = <<>>
               /\ setting'[l] # Null => setting'[l].version = Len(history'[l]) + 1
               /\ \A i \in 1 .. Len(history'[l]) : history'[l][i].version = i
    BY <1>5, <2>3 DEF IInv, SerialHistory
  <2> QED
    BY <2>1, <2>2, <2>3 DEF SerialHistory
<1>13. ReadsAreGenuine'
  <2>1. \A l \in Keys : /\ setting[l] # Null => setting'[l] # Null
                        /\ was[l] \subseteq was'[l]
    BY <1>2, <1>5
  <2>2. ASSUME NEW p \in Requests, p # r, req[p].pc # "idle"
        PROVE  /\ req'[p] = req[p]
               /\ req[p].key \in Keys
               /\ req[p].seen # Null =>
                    setting[req[p].key] # Null /\ req[p].seen \in was[req[p].key]
               /\ req[p].pc = "restore" =>
                    req[p].target \in was[req[p].key] /\ req[p].target.version = req[p].to
    BY <2>2, RequestFacts DEF IInv, TypeOK, Finish
  <2>3. req'[r].pc = "idle"
    BY DEF IInv, TypeOK, Finish, Idle
  <2>4. \A p \in Requests \ {r} : req'[p] = req[p]
    BY DEF IInv, TypeOK, Finish
  <2> QED
    BY <2>1, <2>2, <2>3, <2>4 DEF ReadsAreGenuine
<1> QED
  BY <1>4, <1>9, <1>10, <1>11, <1>12, <1>13 DEF IInv

LEMMA UpdateStep ==
  ASSUME IInv, NEW r \in Requests, UpdateSetting(r)
  PROVE  IInv'
<1> DEFINE q == req[r]
           new == UpdatedRow(r)
<1>1. q.pc = "upsert" /\ q.seen # Null
  BY DEF UpdateSetting
<1>2. /\ q.key \in Keys
      /\ q.type \in Types
      /\ q.value \in Values
      /\ q.seen \in Row
      /\ setting[q.key] # Null
  BY <1>1, RequestFacts
<1>3. setting[q.key] \in Row
  BY <1>2 DEF IInv, TypeOK
<1>4. setting[q.key].cipher \in Ciphers \cup {Null} /\ q.seen.version \in Nat
  BY <1>2, <1>3 DEF Row
<1>5. new \in Row
  BY <1>2, <1>4, NullFacts DEF UpdatedRow, Row
<1>6. Sealed(new)
  BY <1>2, NullFacts DEF UpdatedRow, Sealed
<1>7. new.version = q.seen.version + 1
  BY DEF UpdatedRow
<1>8. new.type = "secret" \/ CipherOfSecret(q.key, new)
  <2>1. CipherOfSecret(q.key, setting[q.key])
    BY <1>2 DEF IInv, RowsAreSealed
  <2>2. new.type = q.type /\ (q.type # "secret" => new.cipher = setting[q.key].cipher)
    BY DEF UpdatedRow
  <2> QED
    BY <2>1, <2>2 DEF CipherOfSecret
<1> QED
  BY <1>1, <1>5, <1>6, <1>7, <1>8, ReplaceStep DEF UpdateSetting

LEMMA RestoreStep ==
  ASSUME IInv, NEW r \in Requests, Restore(r)
  PROVE  IInv'
<1> DEFINE q == req[r]
           new == RestoredRow(r)
<1>1. q.pc = "restore"
  BY DEF Restore
<1>2. /\ q.key \in Keys
      /\ q.seen # Null
      /\ q.seen \in Row
      /\ q.target \in Row
      /\ q.target \in was[q.key]
  BY <1>1, RequestFacts
<1>3. Sealed(q.target) /\ CipherOfSecret(q.key, q.target)
  BY <1>2 DEF IInv, RowsAreSealed
<1>4. /\ new \in Row
      /\ new.type = q.target.type
      /\ new.value = q.target.value
      /\ new.cipher = q.target.cipher
      /\ new.version = q.seen.version + 1
  BY <1>2 DEF RestoredRow, Row
<1>5. Sealed(new) /\ CipherOfSecret(q.key, new)
  BY <1>3, <1>4 DEF Sealed, CipherOfSecret
<1> QED
  BY <1>1, <1>2, <1>4, <1>5, ReplaceStep DEF Restore

LEMMA CreateStep ==
  ASSUME IInv, NEW r \in Requests, CreateSetting(r)
  PROVE  IInv'
<1> DEFINE q == req[r]
           k == q.key
           new == CreatedRow(r)
<1>1. q.pc = "upsert" /\ setting[k] = Null
  BY DEF CreateSetting
<1>2. k \in Keys /\ q.type \in Types /\ q.value \in Values
  BY <1>1, RequestFacts
<1>3. /\ new \in Row /\ Sealed(new) /\ new.version = 1 /\ new # Null
      /\ new.type = "secret" \/ CipherOfSecret(k, new)
  BY <1>2, NullFacts DEF CreatedRow, Row, Sealed, CipherOfSecret
<1>4. /\ setting' = [setting EXCEPT ![k] = new]
      /\ was' = [was EXCEPT ![k] = @ \cup {new}]
      /\ UNCHANGED <<history, overwrote>>
      /\ Finish(r)
  BY DEF CreateSetting, Insert
<1>5. TypeOK'
  BY <1>2, <1>3, <1>4 DEF IInv, TypeOK, Finish, Request
<1>6. RowsAreSealed' /\ SecretsAreSealed' /\ HistoryIsGenuine'
  <2>1. RowsAreSealed' /\ (\A l \in Keys : \A row \in was'[l] : CipherOfSecret(l, row)')
    <3> HIDE DEF new, k
    <3> QED
      BY <1>2, <1>3, <1>4, RowAdded
  <2>2. HistoryIsGenuine'
    BY <1>2, <1>3, <1>4 DEF IInv, TypeOK, HistoryIsGenuine
  <2>3. \A l \in Keys : \A row \in was'[l] : Sealed(row) /\ CipherOfSecret(l, row)'
    BY <2>1 DEF RowsAreSealed
  <2>4. \A l \in Keys : setting'[l] # Null => setting'[l] \in was'[l]
    BY <2>1 DEF RowsAreSealed
  <2>5. \A l \in Keys : \A i \in 1 .. Len(history'[l]) : history'[l][i] \in was'[l]
    BY <2>2 DEF HistoryIsGenuine
  <2>6. SecretsAreSealed'
    BY <2>3, <2>4, <2>5 DEF SecretsAreSealed
  <2> QED
    BY <2>1, <2>2, <2>6
<1>7. SerialHistory'
  BY <1>1, <1>2, <1>3, <1>4 DEF IInv, TypeOK, SerialHistory
<1>8. ReadsAreGenuine'
  BY <1>2, <1>3, <1>4 DEF IInv, TypeOK, ReadsAreGenuine, Finish, Idle
<1> QED
  BY <1>5, <1>6, <1>7, <1>8 DEF IInv

LEMMA InvStep == IInv /\ [Next]_vars => IInv'
<1> SUFFICES ASSUME IInv, [Next]_vars PROVE IInv'
  OBVIOUS
<1>1. CASE UNCHANGED vars
  <2>1. UNCHANGED <<setting, history, req, was, overwrote>>
    BY <1>1 DEF vars
  <2>2. (TypeOK /\ HistoryIsGenuine /\ SerialHistory /\ ReadsAreGenuine)'
    BY <2>1 DEF IInv, TypeOK, HistoryIsGenuine, SerialHistory, ReadsAreGenuine
  <2>3. (SecretsAreSealed /\ RowsAreSealed)'
    BY <2>1 DEF IInv, SecretsAreSealed, RowsAreSealed, CipherOfSecret
  <2> QED
    BY <2>2, <2>3 DEF IInv
<1>2. ASSUME NEW r \in Requests, ListSettings(r) PROVE IInv'
  BY <1>1, <1>2 DEF ListSettings
<1>3. ASSUME NEW r \in Requests, VersionNotFound(r) \/ TransactionFails(r) PROVE IInv'
  BY <1>3, FinishStep DEF VersionNotFound, TransactionFails
<1> QED
  BY <1>1, <1>2, <1>3, StartUpsertStep, UpdateStep, CreateStep, StartRollbackStep,
     FindTargetStep, RestoreStep
  DEF Next

\* The inductive invariant holds of the settings store.
THEOREM InvCorrect == Spec => []IInv
<1> QED
  BY InvInit, InvStep, PTL DEF Spec

\* No row of `settings` or `settings_history` holds a secret in the readable
\* column, a secret that cannot be decrypted, or a ciphertext that was never
\* that of a secret of this setting (upsert, rollback).
THEOREM SecretsCorrect == Spec => []SecretsAreSealed
<1>1. IInv => SecretsAreSealed
  BY DEF IInv
<1> QED
  BY <1>1, InvCorrect, PTL

\* Every row of the history was the row of its setting, whatever requests overlap.
THEOREM GenuineCorrect == Spec => []HistoryIsGenuine
<1>1. IInv => HistoryIsGenuine
  BY DEF IInv
<1> QED
  BY <1>1, InvCorrect, PTL

\* The versions of a setting count without gap or repetition until a request
\* commits on top of an outdated row.
THEOREM SerialCorrect == Spec => []SerialHistory
<1>1. IInv => SerialHistory
  BY DEF IInv
<1> QED
  BY <1>1, InvCorrect, PTL

\* A rollback restores type and plaintext of a row that had the version asked for.
THEOREM RollbackCorrect == Spec => RollbackRestores
<1> DEFINE Restores(r) ==
             (req[r].pc = "restore" /\ req'[r].pc = "idle"
                /\ setting'[req[r].key] # setting[req[r].key])
             => \E old \in was[req[r].key] :
                  /\ old.version = req[r].to
                  /\ old.type = setting'[req[r].key].type
                  /\ Plaintext(old) = Plaintext(setting'[req[r].key])
           Act == \A r \in Requests : Restores(r)
<1>1. ASSUME IInv, Next PROVE Act
  <2> SUFFICES ASSUME NEW r \in Requests, req[r].pc = "restore", req'[r].pc = "idle",
                      setting'[req[r].key] # setting[req[r].key]
               PROVE  \E old \in was[req[r].key] :
                        /\ old.version = req[r].to
                        /\ old.type = setting'[req[r].key].type
                        /\ Plaintext(old) = Plaintext(setting'[req[r].key])
    OBVIOUS
  <2>1. Restore(r)
    <3>1. PICK p \in Requests :
            \/ StartUpsert(p) \/ UpdateSetting(p) \/ CreateSetting(p)
            \/ StartRollback(p) \/ FindTarget(p) \/ VersionNotFound(p) \/ Restore(p)
            \/ ListSettings(p) \/ TransactionFails(p)
      BY <1>1 DEF Next
    <3>2. CASE p = r
      BY <3>1, <3>2 DEF StartUpsert, UpdateSetting, CreateSetting, StartRollback, FindTarget,
         VersionNotFound, ListSettings, TransactionFails, vars
    <3>3. CASE p # r
      <4>1. req'[r] = req[r]
        BY <1>1, <3>1, <3>3 DEF IInv, TypeOK, StartUpsert, UpdateSetting, CreateSetting,
           StartRollback, FindTarget, VersionNotFound, Restore, ListSettings,
           TransactionFails, Finish, vars
      <4> QED
        BY <4>1
    <3> QED
      BY <3>2, <3>3
  <2> DEFINE t == req[r].target
             k == req[r].key
  <2>2. k \in Keys /\ t \in Row /\ t \in was[k] /\ t.version = req[r].to
    BY <1>1, RequestFacts
  <2>3. setting'[k] = [t EXCEPT !.version = req[r].seen.version + 1]
    BY <1>1, <2>1, <2>2 DEF IInv, TypeOK, Restore, Replace, RestoredRow
  <2>4. /\ setting'[k].type = t.type
        /\ setting'[k].value = t.value
        /\ setting'[k].cipher = t.cipher
    BY <2>2, <2>3 DEF Row
  <2>5. Plaintext(t) = Plaintext(setting'[k])
    BY <2>4 DEF Plaintext
  <2> QED
    BY <2>2, <2>4, <2>5
<1>2. IInv /\ [Next]_vars => [Act]_vars
  BY <1>1
<1>3. [][Act]_vars => RollbackRestores
  BY PTL DEF RollbackRestores
<1> QED
  BY <1>2, <1>3, InvCorrect, PTL DEF Spec

=============================================================================
