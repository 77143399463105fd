---------------------------- MODULE LoginHandler ----------------------------
(***************************************************************************)
(* login() of src/src/RequestRouter/loginhandler.cpp: the four commands    *)
(* and the global tables they keep (accounts by uuid, the name index, the  *)
(* deleted accounts' copies, the one session pointer, the tokens handed    *)
(* out).  login() runs to its end before the next request; what can go     *)
(* wrong is what a SEQUENCE of requests does to tables that are updated    *)
(* one after the other and searched in different ways.                     *)
(***************************************************************************)
EXTENDS Naturals, FiniteSets

CONSTANTS Names,               \* user names, as typed
          Fold,                \* std::tolower over a name
          Passwords,           \* passwords; "TOMBSTONE" may be typed like any other
          AdminName, AdminPassword,
          Uuids, AdminId, SpareId,  \* the two uuids the table starts with
          NoAccount,           \* a null Account*
          MaxLogins            \* bound: successful logins

Tombstone == "TOMBSTONE"

ASSUME NamesAssumption == AdminName \in Names /\ Fold \in [Names -> Names]
ASSUME PasswordsAssumption == {AdminPassword, Tombstone} \subseteq Passwords
ASSUME UuidsAssumption ==
    /\ AdminId \in Uuids /\ SpareId \in Uuids /\ AdminId # SpareId
    /\ NoAccount \notin Uuids
ASSUME MaxLoginsAssumption == MaxLogins \in Nat

VARIABLES accountTable,    \* uuid -> account
          uuidTable,       \* the uuids ever handed out
          nameToUUID,      \* name, as typed -> uuid
          tombstoned,      \* uuid -> copy of the account, tombstonedAccountsTable
          session,         \* the account pointer and the token of the session
          activeSession,   \* the tokens pushed and not erased
          issued,          \* tokens generated so far; the newest token is its value
          reply            \* status and uuid of the last request, as login() leaves them

tables == <<accountTable, uuidTable, nameToUUID, tombstoned>>
vars   == <<tables, session, activeSession, issued, reply>>

\* Tokens are distinct: each holds a freshly generated uuid.  0 is the empty token.
NoToken  == 0
Tokens   == 0..MaxLogins
Accounts == [name : Names, password : Passwords, token : Tokens, active : BOOLEAN]
NoSession == [account |-> NoAccount, token |-> NoToken]

Success(u) == [status |-> "success", uuid |-> u]
Failure(u) == [status |-> "failure", uuid |-> u]
Pending    == [status |-> "pending", uuid |-> NoAccount]

NewAccount(n, p) == [name |-> n, password |-> p, token |-> NoToken, active |-> TRUE]

\* map[k] = v, map.emplace(k, v) and map.erase(k).
Put(f, k, v) == [x \in DOMAIN f \union {k} |-> IF x = k THEN v ELSE f[x]]
Emplace(f, k, v) == IF k \in DOMAIN f THEN f ELSE Put(f, k, v)
Erase(f, k) == [x \in DOMAIN f \ {k} |-> f[x]]

Init ==
    /\ accountTable = [u \in {AdminId} |-> NewAccount(AdminName, AdminPassword)]
    /\ uuidTable = {AdminId, SpareId}
    /\ nameToUUID = [n \in {AdminName} |-> AdminId]
    /\ tombstoned = accountTable
    /\ session = NoSession
    /\ activeSession = {}
    /\ issued = 0
    /\ reply = Pending

\* operator== of loginCredentials: names without case, passwords exactly.
SameCredentials(a, n, p) == Fold[a.name] = Fold[n] /\ a.password = p

\* Faulty variant: names are compared as they are spelled.
MatchesAsSpelled(n, p) ==
    {u \in DOMAIN accountTable : accountTable[u].name = n /\ accountTable[u].password = p}

\* The accounts find_if may return; the order of an unordered_map is not known.
Matches(n, p) == {u \in DOMAIN accountTable : SameCredentials(accountTable[u], n, p)}

-----------------------------------------------------------------------------
(* login()                                                                 *)

\* Faulty variant: the token is not written to the account.
TokenDropped(u, t) == accountTable

TokenStored(u, t) == [accountTable EXCEPT ![u].token = t]

\* A request that is refused reports so and changes nothing else: its uuid is the
\* one it came with.
Refuse(u) == reply' = Failure(u) /\ UNCHANGED <<tables, session, activeSession, issued>>
RefuseAny == \E u \in Uuids : Refuse(u)

\* LOGIN: an account with these credentials, active or not, gets a new token and
\* becomes the session.
Login(n, p) ==
    \/ Matches(n, p) = {} /\ RefuseAny
    \/ \E u \in Matches(n, p) :
         /\ issued < MaxLogins
         /\ issued' = issued + 1
         /\ accountTable' = TokenStored(u, issued + 1)
         /\ session' = [account |-> u, token |-> issued + 1]
         /\ activeSession' = activeSession \union {issued + 1}
         /\ reply' = Success(u)
         /\ UNCHANGED <<uuidTable, nameToUUID, tombstoned>>

Register(u) == uuidTable \union {u}

\* CREATE: refused only if an account has both the name and the password.  The
\* index is overwritten for a name that is used again.
Create(n, p) ==
    \/ Matches(n, p) # {} /\ RefuseAny
    \/ /\ Matches(n, p) = {}
       /\ \E u \in Uuids \ uuidTable :
            /\ accountTable' = Put(accountTable, u, NewAccount(n, p))
            /\ uuidTable' = Register(u)
            /\ nameToUUID' = Put(nameToUUID, n, u)
            /\ reply' = Success(u)
       /\ UNCHANGED <<tombstoned, session, activeSession, issued>>

\* LOGOUT: ends the session if it is the requester's, and withdraws its token;
\* it succeeds in any case.
Logout(u) ==
    /\ reply' = Success(u)
    /\ \/ /\ session.account = u
          /\ activeSession' = activeSession \ {session.token}
          /\ session' = NoSession
       \/ session.account # u /\ UNCHANGED <<session, activeSession>>
    /\ UNCHANGED <<tables, issued>>

\* Faulty variants: the password is cleared, or it is kept.
RetireCleared(a) == [a EXCEPT !.password = "", !.active = FALSE]
RetireFlagged(a) == [a EXCEPT !.active = FALSE]

Retire(a) == [a EXCEPT !.password = Tombstone, !.active = FALSE]

\* Faulty variant: an older copy is overwritten.
CopyOverwritten(u) == Put(tombstoned, u, accountTable[u])

CopyKept(u) == Emplace(tombstoned, u, accountTable[u])

\* Faulty variant: the index entry stays.
StillIndexed(n) == nameToUUID

Unindexed(n) == Erase(nameToUUID, n)

\* DEL: the requester names the account as it is spelled and answers a prompt; no
\* answer is a no.  A copy is kept, unless there is one; the record stays,
\* unusable; the name leaves the index, whichever account the index has it for.
\* Session and tokens are untouched.
Delete(u, n, confirmed) ==
    LET accepted == u \in DOMAIN accountTable /\ accountTable[u].name = n /\ confirmed IN
    \/ ~accepted /\ Refuse(u)
    \/ /\ accepted
       /\ tombstoned' = CopyKept(u)
       /\ accountTable' = [accountTable EXCEPT ![u] = Retire(@)]
       /\ nameToUUID' = Unindexed(n)
       /\ reply' = Success(u)
       /\ UNCHANGED <<uuidTable, session, activeSession, issued>>

\* The switch over LogCmd, which has these four values and is never cast to another.
Next ==
    \/ \E n \in Names, p \in Passwords : Login(n, p) \/ Create(n, p)
    \/ \E u \in Uuids : Logout(u)
    \/ \E u \in Uuids, n \in Names, confirmed \in BOOLEAN : Delete(u, n, confirmed)

Spec == Init /\ [][Next]_vars

-----------------------------------------------------------------------------
(* Properties                                                              *)

\* A table is a function from part of the keys into the values.
IsTable(f, K, V) ==
    /\ f = [x \in DOMAIN f |-> f[x]]
    /\ DOMAIN f \subseteq K
    /\ \A x \in DOMAIN f : f[x] \in V

\* Every table keeps its type.
TypeOK ==
    /\ IsTable(accountTable, Uuids, Accounts)
    /\ uuidTable \subseteq Uuids
    /\ IsTable(nameToUUID, Names, Uuids)
    /\ IsTable(tombstoned, Uuids, Accounts)
    /\ session \in [account : Uuids \union {NoAccount}, token : Tokens]
    /\ activeSession \subseteq Tokens
    /\ issued \in Tokens
    /\ reply \in [status : {"success", "failure", "pending"},
                 uuid : Uuids \union {NoAccount}]

\* Two active accounts never share credentials, although names repeat, cases are
\* folded, and a deletion gives its account a password that others may have.
ActiveUnique ==
    \A u, v \in DOMAIN accountTable :
      LET a == accountTable[u]  b == accountTable[v] IN
      a.active /\ b.active /\ SameCredentials(a, b.name, b.password) => u = v

\* A deleted account has no password but the tombstone, and its copy is kept: no
\* other password logs in to it.
DeletedIsTombstone ==
    \A u \in DOMAIN accountTable :
      ~accountTable[u].active =>
        accountTable[u].password = Tombstone /\ u \in DOMAIN tombstoned

\* The name index leads only to active accounts of exactly that name, although
\* CREATE overwrites entries and DEL erases them by name and not by account.
IndexLeadsToActive ==
    \A n \in DOMAIN nameToUUID :
      /\ nameToUUID[n] \in DOMAIN accountTable
      /\ accountTable[nameToUUID[n]].name = n
      /\ accountTable[nameToUUID[n]].active

\* The session's pointer never dangles, and account, session and the list of
\* active tokens agree on its token, also after the account was deleted or
\* another one logged in meanwhile.
SessionAgrees ==
    session.account # NoAccount =>
      /\ session.account \in DOMAIN accountTable
      /\ accountTable[session.account].token = session.token
      /\ session.token \in activeSession

\* A copy made by a deletion keeps the credentials of that moment for ever:
\* deleting the account once more does not put the tombstone into it.
CopiesFrozen ==
    [][\A u \in DOMAIN tombstoned :
         u \in DOMAIN tombstoned' /\ tombstoned'[u] = tombstoned[u]]_vars

\* "Account Creation Failed: Username already exists."
\* (src/src/RequestRouter/loginhandler.cpp:140): names of active accounts are
\* unique.
UsernamesUnique ==
    \A u, v \in DOMAIN accountTable :
      LET a == accountTable[u]  b == accountTable[v] IN
      a.active /\ b.active /\ Fold[a.name] = Fold[b.name] => u = v
=============================================================================
