------------------------- MODULE LoginHandlerProofs -------------------------
(***************************************************************************)
(* Proofs about LoginHandler, for every set of names, passwords and uuids, *)
(* every case folding and any number of logins.                            *)
(***************************************************************************)
EXTENDS LoginHandler, TLAPS

-----------------------------------------------------------------------------
(* Tables                                                                  *)

\* Entering a value of the right type keeps a table a table.
LEMMA PutTable ==
    ASSUME NEW K, NEW V, NEW f, IsTable(f, K, V), NEW k \in K, NEW v \in V
    PROVE  IsTable(Put(f, k, v), K, V)
BY DEF IsTable, Put

\* So do emplace, whether or not the key is there, and erase.
LEMMA EmplaceTable ==
    ASSUME NEW K, NEW V, NEW f, IsTable(f, K, V), NEW k \in K, NEW v \in V
    PROVE  IsTable(Emplace(f, k, v), K, V)
BY PutTable DEF Emplace

\* What erase() leaves of a table.
LEMMA EraseTable ==
    ASSUME NEW K, NEW V, NEW f, IsTable(f, K, V), NEW k
    PROVE  IsTable(Erase(f, k), K, V)
BY DEF IsTable, Erase

\* And so does changing a value in place.
LEMMA UpdateTable ==
    ASSUME NEW K, NEW V, NEW f, IsTable(f, K, V), NEW k \in DOMAIN f, NEW v \in V
    PROVE  IsTable([f EXCEPT ![k] = v], K, V)
BY DEF IsTable

-----------------------------------------------------------------------------
(* The steps of login(), seen through the account table                    *)

Logins(u) ==
    /\ u \in DOMAIN accountTable
    /\ issued < MaxLogins
    /\ issued' = issued + 1
    /\ accountTable' = TokenStored(u, issued + 1)
    /\ session' = [account |-> u, token |-> issued + 1]
    /\ activeSession' = activeSession \union {issued + 1}
    /\ reply' = Success(u)
    /\ UNCHANGED <<uuidTable, nameToUUID, tombstoned>>

Creates(u, n, p) ==
    /\ Matches(n, p) = {}
    /\ u \notin uuidTable
    /\ accountTable' = Put(accountTable, u, NewAccount(n, p))
    /\ uuidTable' = Register(u)
    /\ nameToUUID' = Put(nameToUUID, n, u)
    /\ reply' = Success(u)
    /\ UNCHANGED <<tombstoned, session, activeSession, issued>>

Deletes(u, n) ==
    /\ u \in DOMAIN accountTable /\ accountTable[u].name = n
    /\ tombstoned' = CopyKept(u)
    /\ accountTable' = [accountTable EXCEPT ![u] = Retire(@)]
    /\ nameToUUID' = Unindexed(n)
    /\ reply' = Success(u)
    /\ UNCHANGED <<uuidTable, session, activeSession, issued>>

\* Every step is a login, a creation, a logout, a deletion, or leaves all but the
\* reply alone.
LEMMA Steps ==
    ASSUME [Next]_vars
    PROVE  \/ \E u \in Uuids \union DOMAIN accountTable : Logins(u)
           \/ \E u \in Uuids, n \in Names, p \in Passwords : Creates(u, n, p)
           \/ \E u \in Uuids : Logout(u)
           \/ \E u \in Uuids, n \in Names : Deletes(u, n)
           \/ RefuseAny
           \/ UNCHANGED vars
BY DEF Next, Login, Create, Delete, Matches, Logins, Creates, Deletes, RefuseAny

-----------------------------------------------------------------------------
(* Type correctness                                                        *)

\* The initial tables are well typed.
LEMMA InitType == Init => TypeOK
<1> SUFFICES ASSUME Init PROVE TypeOK
  OBVIOUS
<1>1. NewAccount(AdminName, AdminPassword) \in Accounts
  BY NamesAssumption, PasswordsAssumption, MaxLoginsAssumption
     DEF NewAccount, Accounts, Tokens, NoToken
<1>2. IsTable(accountTable, Uuids, Accounts) /\ IsTable(tombstoned, Uuids, Accounts)
  BY <1>1, UuidsAssumption DEF Init, IsTable
<1>3. IsTable(nameToUUID, Names, Uuids)
  BY UuidsAssumption, NamesAssumption DEF Init, IsTable
<1> QED
  BY <1>2, <1>3, UuidsAssumption, MaxLoginsAssumption
     DEF Init, TypeOK, NoSession, NoToken, Tokens, Pending

\* Every step keeps the types.
LEMMA TypeStep == ASSUME TypeOK, [Next]_vars PROVE TypeOK'
<1> USE DEF TypeOK
<1>1. ASSUME NEW u \in Uuids \union DOMAIN accountTable, Logins(u) PROVE TypeOK'
  <2>1. u \in Uuids /\ accountTable[u] \in Accounts
    BY <1>1 DEF Logins, IsTable
  <2>2. issued + 1 \in Tokens
    BY <1>1, MaxLoginsAssumption DEF Logins, Tokens
  <2>3. [accountTable[u] EXCEPT !.token = issued + 1] \in Accounts
    BY <2>1, <2>2 DEF Accounts
  <2>4. accountTable' = [accountTable EXCEPT ![u] = [accountTable[u] EXCEPT !.token = issued + 1]]
    BY <1>1 DEF Logins, TokenStored
  <2>5. IsTable(accountTable', Uuids, Accounts)
    BY <1>1, <2>3, <2>4, UpdateTable DEF Logins
  <2> QED
    BY <1>1, <2>1, <2>2, <2>5 DEF Logins, Success
<1>2. ASSUME NEW u \in Uuids, NEW n \in Names, NEW p \in Passwords, Creates(u, n, p)
      PROVE  TypeOK'
  <2>1. NewAccount(n, p) \in Accounts
    BY MaxLoginsAssumption DEF NewAccount, Accounts, Tokens, NoToken
  <2>2. IsTable(accountTable', Uuids, Accounts)
    BY <1>2, <2>1, PutTable DEF Creates
  <2>3. IsTable(nameToUUID', Names, Uuids)
    BY <1>2, PutTable DEF Creates
  <2> QED
    BY <1>2, <2>2, <2>3 DEF Creates, Register, Success
<1>3. ASSUME NEW u \in Uuids, Logout(u) PROVE TypeOK'
  <2>1. NoSession \in [account : Uuids \union {NoAccount}, token : Tokens]
    BY MaxLoginsAssumption DEF NoSession, NoToken, Tokens
  <2>2. session' \in [account : Uuids \union {NoAccount}, token : Tokens]
    BY <1>3, <2>1 DEF Logout
  <2>3. activeSession' \subseteq Tokens
    BY <1>3 DEF Logout
  <2>4. UNCHANGED <<accountTable, uuidTable, nameToUUID, tombstoned, issued>>
    BY <1>3 DEF Logout, tables
  <2>5. reply' \in [status : {"success", "failure", "pending"}, uuid : Uuids \union {NoAccount}]
    BY <1>3 DEF Logout, Success
  <2> QED
    BY <2>2, <2>3, <2>4, <2>5
<1>4. ASSUME NEW u \in Uuids, NEW n \in Names, Deletes(u, n) PROVE TypeOK'
  <2>1. accountTable[u] \in Accounts
    BY <1>4 DEF Deletes, IsTable
  <2>2. Retire(accountTable[u]) \in Accounts
    BY <2>1, PasswordsAssumption DEF Retire, Accounts
  <2>3. accountTable' = [accountTable EXCEPT ![u] = Retire(accountTable[u])]
    BY <1>4 DEF Deletes
  <2>4. IsTable(accountTable', Uuids, Accounts)
    <3>1. IsTable([accountTable EXCEPT ![u] = Retire(accountTable[u])], Uuids, Accounts)
      BY <1>4, <2>2, UpdateTable DEF Deletes
    <3> QED
      BY <2>3, <3>1
  <2>5. IsTable(tombstoned', Uuids, Accounts)
    BY <1>4, <2>1, EmplaceTable DEF Deletes, CopyKept
  <2>6. IsTable(nameToUUID', Names, Uuids)
    BY <1>4, EraseTable DEF Deletes, Unindexed
  <2> QED
    BY <1>4, <2>4, <2>5, <2>6 DEF Deletes, Success
<1>5. CASE RefuseAny
  BY <1>5 DEF RefuseAny, Refuse, Failure, tables
<1>6. CASE UNCHANGED vars
  BY <1>6 DEF vars, tables
<1> QED
  BY <1>1, <1>2, <1>3, <1>4, <1>5, <1>6, Steps

\* The tables keep their types.
THEOREM TypeCorrect == Spec => []TypeOK
<1>1. Init => TypeOK
  BY InitType
<1>2. TypeOK /\ [Next]_vars => TypeOK'
  BY TypeStep
<1> QED
  BY <1>1, <1>2, PTL DEF Spec

-----------------------------------------------------------------------------
(* The tables agree with one another                                       *)

\* A uuid is never handed out twice: every account's uuid is in the table that
\* new ones are checked against.
Registered == DOMAIN accountTable \subseteq uuidTable /\ DOMAIN tombstoned \subseteq uuidTable

Consistent ==
    /\ Registered
    /\ ActiveUnique
    /\ DeletedIsTombstone
    /\ IndexLeadsToActive
    /\ SessionAgrees

\* What a step does to the account table, key by key.
LEMMA AfterLogin ==
    ASSUME TypeOK, NEW u \in DOMAIN accountTable, accountTable' = TokenStored(u, issued + 1)
    PROVE  /\ DOMAIN accountTable' = DOMAIN accountTable
           /\ \A v \in DOMAIN accountTable :
                /\ accountTable'[v].name = accountTable[v].name
                /\ accountTable'[v].password = accountTable[v].password
                /\ accountTable'[v].active = accountTable[v].active
                /\ v # u => accountTable'[v].token = accountTable[v].token
           /\ accountTable'[u].token = issued + 1
<1>1. \A v \in DOMAIN accountTable : accountTable[v] \in Accounts
  BY DEF TypeOK, IsTable
<1> QED
  BY <1>1 DEF TokenStored, TypeOK, IsTable, Accounts

\* A creation adds one account under a new uuid.
LEMMA AfterCreate ==
    ASSUME TypeOK, Registered, NEW u \in Uuids, u \notin uuidTable, NEW n, NEW p,
           accountTable' = Put(accountTable, u, NewAccount(n, p))
    PROVE  /\ u \notin DOMAIN accountTable
           /\ DOMAIN accountTable' = DOMAIN accountTable \union {u}
           /\ \A v \in DOMAIN accountTable : accountTable'[v] = accountTable[v]
           /\ accountTable'[u] = NewAccount(n, p)
BY DEF Registered, Put

\* A deletion changes one account and none of the others.
LEMMA AfterDelete ==
    ASSUME TypeOK, NEW u \in DOMAIN accountTable,
           accountTable' = [accountTable EXCEPT ![u] = Retire(@)]
    PROVE  /\ DOMAIN accountTable' = DOMAIN accountTable
           /\ \A v \in DOMAIN accountTable : v # u => accountTable'[v] = accountTable[v]
           /\ \A v \in DOMAIN accountTable :
                /\ accountTable'[v].name = accountTable[v].name
                /\ accountTable'[v].token = accountTable[v].token
           /\ accountTable'[u].password = Tombstone
           /\ ~accountTable'[u].active
<1>1. accountTable[u] \in Accounts
  BY DEF TypeOK, IsTable
<1>2. accountTable'[u] = Retire(accountTable[u])
  OBVIOUS
<1>3. /\ accountTable'[u].name = accountTable[u].name
      /\ accountTable'[u].token = accountTable[u].token
      /\ accountTable'[u].password = Tombstone
      /\ accountTable'[u].active = FALSE
  BY <1>1, <1>2 DEF Retire, Accounts
<1> QED
  BY <1>3

\* A successful login keeps the tables consistent.
LEMMA LoginConsistent ==
    ASSUME TypeOK, Consistent, NEW u, Logins(u) PROVE Consistent'
<1> USE DEF Consistent, Logins
<1>1. Registered' /\ DeletedIsTombstone'
  BY AfterLogin DEF Registered, DeletedIsTombstone
<1>2. ActiveUnique'
  BY AfterLogin DEF ActiveUnique, SameCredentials
<1>3. IndexLeadsToActive'
  BY AfterLogin DEF IndexLeadsToActive
<1>4. SessionAgrees'
  BY AfterLogin DEF SessionAgrees
<1> QED
  BY <1>1, <1>2, <1>3, <1>4

\* So does the creation of an account: its uuid is fresh, and nobody has its
\* credentials.
LEMMA CreateConsistent ==
    ASSUME TypeOK, Consistent, NEW u \in Uuids, NEW n \in Names, NEW p \in Passwords,
           Creates(u, n, p)
    PROVE  Consistent'
<1> USE DEF Consistent, Creates
<1>1. Registered'
  BY AfterCreate DEF Registered, Register
<1>a. /\ DOMAIN accountTable' = DOMAIN accountTable \union {u}
      /\ u \notin DOMAIN accountTable
      /\ \A v \in DOMAIN accountTable : accountTable'[v] = accountTable[v]
  BY AfterCreate
<1>b. /\ accountTable'[u].name = n
      /\ accountTable'[u].password = p
      /\ accountTable'[u].active = TRUE
  <2>1. accountTable'[u] = NewAccount(n, p)
    BY AfterCreate
  <2> QED
    BY <2>1 DEF NewAccount
<1>2. DeletedIsTombstone'
  BY <1>a, <1>b DEF DeletedIsTombstone
<1>3. ActiveUnique'
  <2>1. \A v \in DOMAIN accountTable : ~SameCredentials(accountTable[v], n, p)
    BY DEF Matches
  <2> QED
    BY <1>a, <1>b, <2>1 DEF ActiveUnique, SameCredentials
<1>4. IndexLeadsToActive'
  <2>1. DOMAIN nameToUUID' = DOMAIN nameToUUID \union {n}
    BY DEF Put
  <2>2. nameToUUID'[n] = u
    BY DEF Put
  <2>3. \A m \in DOMAIN nameToUUID \ {n} : nameToUUID'[m] = nameToUUID[m]
    BY DEF Put
  <2> QED
    BY <1>a, <1>b, <2>1, <2>2, <2>3 DEF IndexLeadsToActive
<1>5. SessionAgrees'
  BY AfterCreate DEF SessionAgrees
<1> QED
  BY <1>1, <1>2, <1>3, <1>4, <1>5

\* And a deletion: what the index loses by name includes what it must lose.
LEMMA DeleteConsistent ==
    ASSUME TypeOK, Consistent, NEW u, NEW n, Deletes(u, n) PROVE Consistent'
<1> USE DEF Consistent, Deletes
<1>1. DOMAIN tombstoned' = DOMAIN tombstoned \union {u}
  BY DEF CopyKept, Emplace, Put
<1>2. Registered'
  BY <1>1, AfterDelete DEF Registered
<1>3. DeletedIsTombstone'
  BY <1>1, AfterDelete DEF DeletedIsTombstone
<1>4. ActiveUnique'
  <2>1. \A v \in DOMAIN accountTable' : accountTable'[v].active =>
          v # u /\ v \in DOMAIN accountTable /\ accountTable'[v] = accountTable[v]
    BY AfterDelete
  <2> QED
    BY <2>1 DEF ActiveUnique, SameCredentials
<1>5. IndexLeadsToActive'
  <2>1. DOMAIN nameToUUID' = DOMAIN nameToUUID \ {n}
    BY DEF Unindexed, Erase
  <2>2. \A m \in DOMAIN nameToUUID' : nameToUUID'[m] = nameToUUID[m] /\ nameToUUID[m] # u
    BY <2>1 DEF Unindexed, Erase, IndexLeadsToActive
  <2> QED
    BY <2>1, <2>2, AfterDelete DEF IndexLeadsToActive
<1>6. SessionAgrees'
  BY AfterDelete DEF SessionAgrees
<1> QED
  BY <1>2, <1>3, <1>4, <1>5, <1>6

\* The tables agree with one another after any sequence of requests.
THEOREM TablesConsistent == Spec => [](TypeOK /\ Consistent)
<1>1. Init => TypeOK /\ Consistent
  <2> SUFFICES ASSUME Init PROVE Consistent
    BY InitType
  <2> USE DEF Init
  <2>1. Registered /\ DeletedIsTombstone /\ IndexLeadsToActive
    BY DEF Registered, DeletedIsTombstone, IndexLeadsToActive, NewAccount
  <2> QED
    BY <2>1 DEF Consistent, ActiveUnique, SessionAgrees, NoSession
<1>2. TypeOK /\ Consistent /\ [Next]_vars => (TypeOK /\ Consistent)'
  <2> SUFFICES ASSUME TypeOK, Consistent, [Next]_vars PROVE Consistent'
    BY TypeStep
  <2>1. ASSUME NEW u \in Uuids, Logout(u) PROVE Consistent'
    BY <2>1 DEF Logout, tables, Consistent, Registered, ActiveUnique, SameCredentials,
                DeletedIsTombstone, IndexLeadsToActive, SessionAgrees, NoSession
  <2>2. CASE RefuseAny \/ UNCHANGED vars
    BY <2>2 DEF RefuseAny, Refuse, vars, tables, Consistent, Registered, ActiveUnique, SameCredentials,
                DeletedIsTombstone, IndexLeadsToActive, SessionAgrees
  <2> QED
    BY <2>1, <2>2, Steps, LoginConsistent, CreateConsistent, DeleteConsistent
<1> QED
  BY <1>1, <1>2, PTL DEF Spec

\* Two active accounts never share credentials.
THEOREM CredentialsUnique == Spec => []ActiveUnique
<1>1. TypeOK /\ Consistent => ActiveUnique
  BY DEF Consistent
<1> QED
  BY <1>1, TablesConsistent, PTL

\* The name index leads only to active accounts of that name.
THEOREM IndexSound == Spec => []IndexLeadsToActive
<1>1. TypeOK /\ Consistent => IndexLeadsToActive
  BY DEF Consistent
<1> QED
  BY <1>1, TablesConsistent, PTL

\* A deleted account has the tombstone for a password, and a copy.
THEOREM DeletedForGood == Spec => []DeletedIsTombstone
<1>1. TypeOK /\ Consistent => DeletedIsTombstone
  BY DEF Consistent
<1> QED
  BY <1>1, TablesConsistent, PTL

\* The session, its account and the active tokens agree.
THEOREM SessionSound == Spec => []SessionAgrees
<1>1. TypeOK /\ Consistent => SessionAgrees
  BY DEF Consistent
<1> QED
  BY <1>1, TablesConsistent, PTL

\* The copies of deleted accounts never change.
THEOREM CopiesNeverChange == Spec => CopiesFrozen
<1> DEFINE Frozen == \A u \in DOMAIN tombstoned :
                       u \in DOMAIN tombstoned' /\ tombstoned'[u] = tombstoned[u]
<1>1. [Next]_vars => [Frozen]_vars
  <2> SUFFICES ASSUME [Next]_vars PROVE Frozen
    OBVIOUS
  <2>1. ASSUME NEW u, NEW n, Deletes(u, n) PROVE Frozen
    BY <2>1 DEF Deletes, CopyKept, Emplace, Put
  <2> QED
    BY <2>1, Steps DEF Logins, Creates, Logout, RefuseAny, Refuse, vars, tables
<1> QED
  BY <1>1, PTL DEF Spec, CopiesFrozen
=============================================================================
