------------------------------ MODULE MockAdr ------------------------------
(***************************************************************************)
(* The resource server, mock-adr-api: the synthetic data that               *)
(* seed/synthetic_data.py generates, the guard and the handlers of its      *)
(* routers, and the headers that the controller's proxy gives it.           *)
(*                                                                          *)
(* _stable_id hashes its parts with uuid5; an id is modelled as the tuple   *)
(* of its prefix and parts, so that two ids are equal when all of these     *)
(* are.  A row keeps what ownership depends on; amounts, names and dates    *)
(* are left out.  The handlers do not await: each is one step.              *)
(***************************************************************************)
EXTENDS Integers

CONSTANTS
  Seeds,        \* values of MOCK_ADR_SEED
  MaxUsers,     \* bound of the model: greatest MOCK_ADR_NUM_USERS
  AccountsPerUser, TransactionsPerAccount,   \* 3 and 200 in the code
  TokenSeed,    \* the seed for which the realm's hard-coded `sub` was computed
  HarnessSeed   \* MOCK_ADR_SEED where the attack suite runs

ASSUME DataAssumption ==
  /\ MaxUsers \in Nat /\ AccountsPerUser \in Nat \ {0}
  /\ TransactionsPerAccount \in Nat

VARIABLES
  users, accounts, transactions, consents,   \* the module-level dictionaries
  first,     \* first key of _USERS in insertion order, NoUser when empty
  made,      \* history: the <<seed, index>> pairs generated so far
  reply      \* the last request's subject, object, status and objects shown

tables == <<users, accounts, transactions, consents, first, made>>
vars   == <<tables, reply>>

-----------------------------------------------------------------------------
(* seed/synthetic_data.py *)

UserId(s, u)     == <<"u", s, u>>
ConnId(s, u)     == <<"conn", s, u>>
AcctId(s, u, a)  == <<"acct", s, u, a>>
TxId(s, u, a, t) == <<"tx", s, u, a, t>>
ConsentId(s, u)  == <<"consent", s, u>>
BolaId(s)        == <<"consent_bola", s>>
NoUser           == <<>>

AcctIdx == 0..(AccountsPerUser - 1)
TxIdx   == 0..(TransactionsPerAccount - 1)

(* The user that an id names, read off the id and not off any table. *)
Owner(id) == UserId(id[2], id[3])

(* A dictionary after the assignments of `new`. *)
Merged(old, new) ==
  [id \in DOMAIN old \cup DOMAIN new |->
     IF id \in DOMAIN new THEN new[id] ELSE old[id]]

NewUsers(s, U) ==
  [id \in {UserId(s, u) : u \in U} |->
     [accounts |-> [a \in AcctIdx |-> AcctId(s, id[3], a)],
      connections |-> {ConnId(s, id[3])}]]

NewAccounts(s, U) ==
  [id \in {AcctId(s, u, a) : u \in U, a \in AcctIdx} |->
     [owner |-> Owner(id),
      transactions |-> {TxId(s, id[3], id[4], t) : t \in TxIdx}]]

NewTransactions(s, U) ==
  [id \in {TxId(s, u, a, t) : u \in U, a \in AcctIdx, t \in TxIdx} |->
     [owner |-> Owner(id), account |-> AcctId(s, id[3], id[4])]]

NewConsents(s, U) ==
  [id \in {ConsentId(s, u) : u \in U} |->
     [user |-> Owner(id), accounts |-> {AcctId(s, id[3], a) : a \in AcctIdx}]]

(* The extra consent belongs to the first user of the dictionary, who need  *)
(* not be of this seed, and covers that user's first account.               *)
BolaConsentOfSeed(s, owner, rows) ==   \* mutant: the account is of this seed
  [id \in {BolaId(s)} |-> [user |-> owner, accounts |-> {AcctId(s, 0, 0)}]]
BolaConsent(s, owner, rows) ==
  [id \in {BolaId(s)} |-> [user |-> owner, accounts |-> {rows[owner].accounts[0]}]]

(* generate() adds to the dictionaries and never clears them.  It runs      *)
(* before requests are served: at start-up, and in the tests before that.   *)
Generate(s, n) ==
  LET U       == 0..(n - 1)
      rows    == Merged(users, NewUsers(s, U))
      default == Merged(consents, NewConsents(s, U))
  IN /\ reply.status = 0
     /\ users' = rows
     /\ accounts' = Merged(accounts, NewAccounts(s, U))
     /\ transactions' = Merged(transactions, NewTransactions(s, U))
     /\ first' = IF first = NoUser /\ n > 0 THEN UserId(s, 0) ELSE first
     /\ consents' = IF n >= 2 THEN Merged(default, BolaConsent(s, first', rows))
                    ELSE default
     /\ made' = made \cup ({s} \X U)
     /\ UNCHANGED reply

-----------------------------------------------------------------------------
(* Requests.  The headers of a request are whether x-zt-validated is the    *)
(* internal secret, and x-zt-user-id.                                       *)

Subjects == {UserId(s, u) : s \in Seeds \cup {TokenSeed}, u \in 0..MaxUsers}
              \cup {NoUser, <<"unknown">>}
Headers  == [validated : BOOLEAN, user : {NoUser, UserId(TokenSeed, 0)}]

(* proxy.forward: the caller's own copies of both headers are dropped.      *)
ForwardedKeeping(headers, sub) ==   \* mutant: defaults only, not overrides
  [validated |-> TRUE, user |-> IF headers.user = NoUser THEN sub ELSE headers.user]
Forwarded(headers, sub) == [validated |-> TRUE, user |-> sub]

Answer(status, shown) == [status |-> status, shown |-> shown]
Ok(shown)    == Answer(200, shown)
Unauthorized == Answer(401, {})
Forbidden    == Answer(403, {})
NotFound     == Answer(404, {})

(* require_zt_controller, a dependency of every handler. *)
Guarded(headers, answer) ==
  IF ~headers.validated THEN Forbidden
  ELSE IF headers.user = NoUser THEN Unauthorized ELSE answer

(* Look-ups of a user's own row, and of a row with an owner. *)
OwnRow(user, shown) == IF user \in DOMAIN users THEN Ok(shown) ELSE NotFound

OwnedRowExisting(table, id, user, shown) ==   \* mutant: no ownership check
  IF id \notin DOMAIN table THEN NotFound ELSE Ok(shown)
OwnedRow(table, id, user, shown) ==
  IF id \notin DOMAIN table THEN NotFound
  ELSE IF table[id].owner # user THEN Forbidden ELSE Ok(shown)

ConsentsFor(user) == {c \in DOMAIN consents : consents[c].user = user}

(* The handlers: what each answers to `user`. *)
list_users(user) == OwnRow(user, {user})

get_user_detail(user, id) ==
  IF id # user THEN Forbidden ELSE OwnRow(user, {user})

get_connections(user, id) ==
  IF id # user THEN Forbidden ELSE OwnRow(user, users[user].connections)

list_accounts(user) ==
  OwnRow(user, {users[user].accounts[a] : a \in AcctIdx})

get_account_detail(user, id) == OwnedRow(accounts, id, user, {id})

list_transactions(user, id) ==
  OwnedRow(accounts, id, user, accounts[id].transactions)

get_transaction_detail(user, id) ==
  OwnedRow(transactions, id, user, {id, transactions[id].account})

list_consents(user) == Ok(UNION {consents[c].accounts : c \in ConsentsFor(user)})

create_consent == Ok({})   \* a stub: nothing is stored

Reply(subject, id, headers, answer) ==
  /\ LET a == Guarded(headers, answer)
     IN reply' = [subject |-> subject, id |-> id, status |-> a.status, shown |-> a.shown]
  /\ UNCHANGED tables

AcctIds == {AcctId(s, u, a) : s \in Seeds \cup {TokenSeed, HarnessSeed},
                              u \in 0..MaxUsers, a \in AcctIdx}
TxIds   == {TxId(s, u, a, t) : s \in Seeds, u \in 0..MaxUsers, a \in AcctIdx, t \in TxIdx}

(* One request for `subject` arrives with these headers. *)
Collections(subject, h) ==
  \/ Reply(subject, NoUser, h, list_users(h.user))
  \/ Reply(subject, NoUser, h, list_accounts(h.user))
  \/ Reply(subject, NoUser, h, list_consents(h.user))
  \/ Reply(subject, NoUser, h, create_consent)

UserObjects(subject, h) ==
  \E id \in Subjects :
    \/ Reply(subject, id, h, get_user_detail(h.user, id))
    \/ Reply(subject, id, h, get_connections(h.user, id))

AccountObjects(subject, h) ==
  \E id \in AcctIds :
    \/ Reply(subject, id, h, get_account_detail(h.user, id))
    \/ Reply(subject, id, h, list_transactions(h.user, id))

TransactionObjects(subject, h) ==
  \E id \in TxIds : Reply(subject, id, h, get_transaction_detail(h.user, id))

Request(subject, h) ==
  \/ Collections(subject, h) \/ UserObjects(subject, h)
  \/ AccountObjects(subject, h) \/ TransactionObjects(subject, h)

(* The controller forwards for the token's subject. *)
ViaController ==
  \E sub \in Subjects, h \in Headers : Request(sub, Forwarded(h, sub))

(* A caller inside the network that does not know the secret. *)
Direct ==
  \E h \in Headers : ~h.validated /\ Request(NoUser, h)

-----------------------------------------------------------------------------
(* One attempt of A5, for the harness identity: the account, or the         *)
(* transactions, of user 1 under the harness's seed (victim_object_ids).    *)
Victim == AcctId(HarnessSeed, 1, 0)
Tester == UserId(TokenSeed, 0)

A5Answers ==
  LET user == Forwarded([validated |-> FALSE, user |-> NoUser], Tester).user
  IN {get_account_detail(user, Victim), list_transactions(user, Victim)}

Init ==
  /\ users = <<>> /\ accounts = <<>> /\ transactions = <<>> /\ consents = <<>>
  /\ first = NoUser /\ made = {}
  /\ reply = [subject |-> NoUser, id |-> NoUser, status |-> 0, shown |-> {}]

Startup == \E s \in Seeds, n \in 0..MaxUsers : Generate(s, n)
Next == Startup \/ ViaController \/ Direct

Spec == Init /\ [][Next]_vars

-----------------------------------------------------------------------------
(* Properties. *)

TypeOK ==
  /\ \A id \in DOMAIN users :
       /\ id \in Subjects
       /\ users[id] \in [accounts : [AcctIdx -> AcctIds], connections : SUBSET {ConnId(id[2], id[3])}]
  /\ \A id \in DOMAIN accounts :
       id \in AcctIds /\ accounts[id] \in [owner : Subjects, transactions : SUBSET TxIds]
  /\ \A id \in DOMAIN transactions :
       id \in TxIds /\ transactions[id] \in [owner : Subjects, account : AcctIds]
  /\ \A c \in DOMAIN consents :
       consents[c] \in [user : Subjects, accounts : SUBSET AcctIds]
  /\ made \subseteq Seeds \X (0..MaxUsers)
  /\ reply.status \in {0, 200, 401, 403, 404}

(* Whatever was generated before, in which order and for which seeds, and   *)
(* whatever trust headers the client sends along, an answer only shows      *)
(* objects of the subject of the token: those whose ids were derived from   *)
(* this user.  A caller that bypasses the controller is shown nothing.      *)
OnlyOwnObjects ==
  \A id \in reply.shown : Owner(id) = reply.subject

(* A generated user reaches every own object: the four dictionaries and the *)
(* lists inside their rows agree, however often they were generated.        *)
ObjectsReachable ==
  \A m \in made :
    LET user == UserId(m[1], m[2])
    IN /\ list_users(user).status = 200
       /\ \A a \in list_accounts(user).shown :
            /\ get_account_detail(user, a).status = 200
            /\ \A t \in list_transactions(user, a).shown :
                 get_transaction_detail(user, t) = Ok({t, a})
       /\ list_consents(user).shown = list_accounts(user).shown

(* A consent covers accounts of the user who gave it, also the extra one    *)
(* for cross-user tests when data of two seeds is in the dictionaries.      *)
ConsentsCoverOwnAccounts ==
  \A c \in DOMAIN consents : \A a \in consents[c].accounts :
    a \in DOMAIN accounts /\ accounts[a].owner = consents[c].user

OwnObjectsReachable == ObjectsReachable /\ ConsentsCoverOwnAccounts

(* Where the harness's seed is the server's, and there are two users, every *)
(* attempt of A5 is refused by the ownership check, for an object that      *)
(* exists; otherwise it is a 404 and no ownership check has run.            *)
A5RefusedByOwnership ==
  \A a \in A5Answers :
    a = IF <<HarnessSeed, 1>> \in made THEN Forbidden ELSE NotFound
=============================================================================
