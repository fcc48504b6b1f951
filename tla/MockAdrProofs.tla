--------------------------- MODULE MockAdrProofs ---------------------------
(***************************************************************************)
(* Proofs about the resource server, for any seeds, any number of users,    *)
(* accounts and transactions, and any order of generations and requests.    *)
(*                                                                          *)
(* The argument: the four dictionaries are a function of what has been      *)
(* generated.  Every row can be computed from its own key, so generating    *)
(* again, or for another seed, never changes what a row says of its owner.  *)
(* The extra consent is the exception: it is checked on its own.            *)
(***************************************************************************)
EXTENDS MockAdr, TLAPS

(* The rows that a key determines. *)
UserRow(id) ==
  [accounts |-> [a \in AcctIdx |-> AcctId(id[2], id[3], a)],
   connections |-> {ConnId(id[2], id[3])}]
AccountRow(id) ==
  [owner |-> Owner(id), transactions |-> {TxId(id[2], id[3], id[4], t) : t \in TxIdx}]
TransactionRow(id) ==
  [owner |-> Owner(id), account |-> AcctId(id[2], id[3], id[4])]
ConsentRow(id) ==
  [user |-> Owner(id), accounts |-> {AcctId(id[2], id[3], a) : a \in AcctIdx}]

(* The keys that the pairs of seed and index in M stand for. *)
UserKeys(M)    == {UserId(m[1], m[2]) : m \in M}
AccountKeys(M) == {AcctId(m[1], m[2], a) : m \in M, a \in AcctIdx}
TxKeys(M)      == {TxId(m[1], m[2], a, t) : m \in M, a \in AcctIdx, t \in TxIdx}
ConsentKeys(M) == {ConsentId(m[1], m[2]) : m \in M}

-----------------------------------------------------------------------------
(* The inductive invariant, in parts. *)

UsersExact ==
  /\ DOMAIN users = UserKeys(made)
  /\ \A id \in DOMAIN users : users[id] = UserRow(id)

AccountsExact ==
  /\ DOMAIN accounts = AccountKeys(made)
  /\ \A id \in DOMAIN accounts : accounts[id] = AccountRow(id)

TransactionsExact ==
  /\ DOMAIN transactions = TxKeys(made)
  /\ \A id \in DOMAIN transactions : transactions[id] = TransactionRow(id)

(* A consent that covers accounts of a user in `rows` only. *)
CoversOwn(consent, rows) ==
  /\ consent = [user |-> consent.user, accounts |-> consent.accounts]
  /\ consent.user \in DOMAIN rows
  /\ \A x \in consent.accounts :
       \E a \in AcctIdx : x = AcctId(consent.user[2], consent.user[3], a)

(* A consent is the one of a generated user, or an extra one that covers an  *)
(* account of a generated user.                                              *)
ConsentsExact ==
  /\ ConsentKeys(made) \subseteq DOMAIN consents
  /\ \A c \in ConsentKeys(made) : consents[c] = ConsentRow(c)
  /\ \A c \in DOMAIN consents : CoversOwn(consents[c], users)

MadeTyped == made \subseteq Seeds \X (0..MaxUsers)

FirstExact == first # NoUser => first \in DOMAIN users

DataInv ==
  /\ UsersExact /\ AccountsExact /\ TransactionsExact
  /\ ConsentsExact /\ FirstExact /\ MadeTyped

-----------------------------------------------------------------------------
(* The operators of the generator. *)

(* The pairs of N are those of M and those of seed s with the indices in U. *)
Adds(N, M, s, U) ==
  /\ M \subseteq N
  /\ \A m \in N : m \in M \/ (m[1] = s /\ m[2] \in U)
  /\ \A u \in U : \E m \in N : m[1] = s /\ m[2] = u

LEMMA AddsPairs ==
  ASSUME NEW M, NEW s, NEW U, NEW N, N = M \cup ({s} \X U)
  PROVE  Adds(N, M, s, U)
<1>1. \A u \in U : <<s, u>> \in N /\ <<s, u>>[1] = s /\ <<s, u>>[2] = u
  OBVIOUS
<1>2. \A m \in N : m \in M \/ (m[1] = s /\ m[2] \in U)
  OBVIOUS
<1> QED
  BY <1>1, <1>2 DEF Adds

(* What the generator adds to each dictionary.  Rows are determined by their *)
(* keys, and the keys are those of the pairs that are added.                 *)
LEMMA UsersAdded ==
  ASSUME NEW M, NEW s, NEW U, NEW N, Adds(N, M, s, U)
  PROVE  /\ \A id \in DOMAIN NewUsers(s, U) : NewUsers(s, U)[id] = UserRow(id)
         /\ \A id : id \in UserKeys(N) <=> id \in UserKeys(M) \cup DOMAIN NewUsers(s, U)
<1>1. ASSUME NEW id \in {UserId(s, u) : u \in U}
      PROVE  NewUsers(s, U)[id] = UserRow(id)
  BY <1>1 DEF NewUsers, UserRow, UserId
<1>2. ASSUME NEW id
      PROVE  id \in DOMAIN NewUsers(s, U) <=> \E u \in U : id = UserId(s, u)
  BY DEF NewUsers
<1>3. ASSUME NEW id
      PROVE  (\E m \in N : id = UserId(m[1], m[2])) <=>
               \/ \E m \in M : id = UserId(m[1], m[2])
               \/ \E u \in U : id = UserId(s, u)
  BY DEF Adds
<1> QED
  BY <1>1, <1>2, <1>3 DEF UserKeys, NewUsers

LEMMA AccountsAdded ==
  ASSUME NEW M, NEW s, NEW U, NEW N, Adds(N, M, s, U)
  PROVE  /\ \A id \in DOMAIN NewAccounts(s, U) : NewAccounts(s, U)[id] = AccountRow(id)
         /\ \A id : id \in AccountKeys(N) <=>
                      id \in AccountKeys(M) \cup DOMAIN NewAccounts(s, U)
<1>1. ASSUME NEW id \in {AcctId(s, u, a) : u \in U, a \in AcctIdx}
      PROVE  NewAccounts(s, U)[id] = AccountRow(id)
  BY <1>1 DEF NewAccounts, AccountRow, AcctId
<1>2. ASSUME NEW id
      PROVE  id \in DOMAIN NewAccounts(s, U) <=>
               \E u \in U, a \in AcctIdx : id = AcctId(s, u, a)
  BY DEF NewAccounts
<1>3. ASSUME NEW id
      PROVE  (\E m \in N, a \in AcctIdx : id = AcctId(m[1], m[2], a)) <=>
               \/ \E m \in M, a \in AcctIdx : id = AcctId(m[1], m[2], a)
               \/ \E u \in U, a \in AcctIdx : id = AcctId(s, u, a)
  BY DEF Adds
<1> QED
  BY <1>1, <1>2, <1>3 DEF AccountKeys, NewAccounts

LEMMA TransactionsAdded ==
  ASSUME NEW M, NEW s, NEW U, NEW N, Adds(N, M, s, U)
  PROVE  /\ \A id \in DOMAIN NewTransactions(s, U) :
              NewTransactions(s, U)[id] = TransactionRow(id)
         /\ \A id : id \in TxKeys(N) <=>
                      id \in TxKeys(M) \cup DOMAIN NewTransactions(s, U)
<1>1. ASSUME NEW id \in {TxId(s, u, a, t) : u \in U, a \in AcctIdx, t \in TxIdx}
      PROVE  NewTransactions(s, U)[id] = TransactionRow(id)
  BY <1>1 DEF NewTransactions, TransactionRow, TxId
<1>2. ASSUME NEW id
      PROVE  id \in DOMAIN NewTransactions(s, U) <=>
               \E u \in U, a \in AcctIdx, t \in TxIdx : id = TxId(s, u, a, t)
  BY DEF NewTransactions
<1>3. ASSUME NEW id
      PROVE  (\E m \in N, a \in AcctIdx, t \in TxIdx : id = TxId(m[1], m[2], a, t)) <=>
               \/ \E m \in M, a \in AcctIdx, t \in TxIdx : id = TxId(m[1], m[2], a, t)
               \/ \E u \in U, a \in AcctIdx, t \in TxIdx : id = TxId(s, u, a, t)
  BY DEF Adds
<1> QED
  BY <1>1, <1>2, <1>3 DEF TxKeys, NewTransactions

LEMMA ConsentsAdded ==
  ASSUME NEW M, NEW s, NEW U, NEW N, Adds(N, M, s, U)
  PROVE  /\ \A id \in DOMAIN NewConsents(s, U) : NewConsents(s, U)[id] = ConsentRow(id)
         /\ \A id : id \in ConsentKeys(N) <=>
                      id \in ConsentKeys(M) \cup DOMAIN NewConsents(s, U)
<1>1. ASSUME NEW id \in {ConsentId(s, u) : u \in U}
      PROVE  NewConsents(s, U)[id] = ConsentRow(id)
  BY <1>1 DEF NewConsents, ConsentRow, ConsentId
<1>2. ASSUME NEW id
      PROVE  id \in DOMAIN NewConsents(s, U) <=> \E u \in U : id = ConsentId(s, u)
  BY DEF NewConsents
<1>3. ASSUME NEW id
      PROVE  (\E m \in N : id = ConsentId(m[1], m[2])) <=>
               \/ \E m \in M : id = ConsentId(m[1], m[2])
               \/ \E u \in U : id = ConsentId(s, u)
  BY DEF Adds
<1> QED
  BY <1>1, <1>2, <1>3 DEF ConsentKeys, NewConsents

-----------------------------------------------------------------------------
(* generate() preserves the invariant.                                       *)

LEMMA ConsentRowCovers ==
  ASSUME NEW M, NEW c \in ConsentKeys(M), NEW rows, DOMAIN rows = UserKeys(M)
  PROVE  CoversOwn(ConsentRow(c), rows)
<1>1. PICK m \in M : c = ConsentId(m[1], m[2])
  BY DEF ConsentKeys
<1>2. Owner(c) = UserId(m[1], m[2]) /\ c[2] = m[1] /\ c[3] = m[2]
  BY <1>1 DEF Owner, ConsentId
<1>3. Owner(c) \in DOMAIN rows /\ Owner(c)[2] = c[2] /\ Owner(c)[3] = c[3]
  BY <1>2 DEF UserKeys, UserId
<1> QED
  BY <1>3 DEF CoversOwn, ConsentRow

(* The extra consent covers an account of the user it belongs to, of         *)
(* whichever seed that user is.                                              *)
LEMMA BolaCovers ==
  ASSUME NEW s, NEW rows, NEW owner \in DOMAIN rows, rows[owner] = UserRow(owner)
  PROVE  CoversOwn(BolaConsent(s, owner, rows)[BolaId(s)], rows)
<1>1. 0 \in AcctIdx
  BY DataAssumption DEF AcctIdx
<1>2. rows[owner].accounts[0] = AcctId(owner[2], owner[3], 0)
  BY <1>1 DEF UserRow
<1>3. BolaConsent(s, owner, rows)[BolaId(s)] =
        [user |-> owner, accounts |-> {rows[owner].accounts[0]}]
  BY DEF BolaConsent
<1> QED
  BY <1>1, <1>2, <1>3 DEF CoversOwn

LEMMA GenerateKeeps ==
  ASSUME DataInv, NEW s \in Seeds, NEW n \in 0..MaxUsers, Generate(s, n)
  PROVE  DataInv'
<1> DEFINE U == 0..(n - 1)
           rows == Merged(users, NewUsers(s, U))
           default == Merged(consents, NewConsents(s, U))
<1>1. /\ users' = rows
      /\ accounts' = Merged(accounts, NewAccounts(s, U))
      /\ transactions' = Merged(transactions, NewTransactions(s, U))
      /\ first' = IF first = NoUser /\ n > 0 THEN UserId(s, 0) ELSE first
      /\ consents' = IF n >= 2 THEN Merged(default, BolaConsent(s, first', rows))
                     ELSE default
      /\ made' = made \cup ({s} \X U)
  BY DEF Generate
<1>2. Adds(made', made, s, U)
  BY <1>1, AddsPairs
<1>3. n > 0 => UserId(s, 0) \in DOMAIN NewUsers(s, U)
  BY DEF NewUsers
<1> HIDE DEF U, rows, default
<1>4. UsersExact'
  <2>1. /\ DOMAIN users' = DOMAIN users \cup DOMAIN NewUsers(s, U)
        /\ \A id \in DOMAIN NewUsers(s, U) : users'[id] = NewUsers(s, U)[id]
        /\ \A id \in DOMAIN users \ DOMAIN NewUsers(s, U) : users'[id] = users[id]
    BY <1>1 DEF Merged, rows
  <2>2. /\ \A id \in DOMAIN NewUsers(s, U) : NewUsers(s, U)[id] = UserRow(id)
        /\ \A id : id \in UserKeys(made') <=> id \in UserKeys(made) \cup DOMAIN NewUsers(s, U)
    BY <1>2, UsersAdded
  <2>3. DOMAIN users' = UserKeys(made')
    BY <2>1, <2>2 DEF DataInv, UsersExact
  <2>4. \A id \in DOMAIN users' : users'[id] = UserRow(id)
    BY <2>1, <2>2 DEF DataInv, UsersExact
  <2> QED
    BY <2>3, <2>4 DEF UsersExact
<1>5. AccountsExact'
  <2>1. /\ DOMAIN accounts' = DOMAIN accounts \cup DOMAIN NewAccounts(s, U)
        /\ \A id \in DOMAIN NewAccounts(s, U) : accounts'[id] = NewAccounts(s, U)[id]
        /\ \A id \in DOMAIN accounts \ DOMAIN NewAccounts(s, U) : accounts'[id] = accounts[id]
    BY <1>1 DEF Merged
  <2>2. /\ \A id \in DOMAIN NewAccounts(s, U) : NewAccounts(s, U)[id] = AccountRow(id)
        /\ \A id : id \in AccountKeys(made') <=> id \in AccountKeys(made) \cup DOMAIN NewAccounts(s, U)
    BY <1>2, AccountsAdded
  <2>3. DOMAIN accounts' = AccountKeys(made')
    BY <2>1, <2>2 DEF DataInv, AccountsExact
  <2>4. \A id \in DOMAIN accounts' : accounts'[id] = AccountRow(id)
    BY <2>1, <2>2 DEF DataInv, AccountsExact
  <2> QED
    BY <2>3, <2>4 DEF AccountsExact
<1>6. TransactionsExact'
  <2>1. /\ DOMAIN transactions' = DOMAIN transactions \cup DOMAIN NewTransactions(s, U)
        /\ \A id \in DOMAIN NewTransactions(s, U) : transactions'[id] = NewTransactions(s, U)[id]
        /\ \A id \in DOMAIN transactions \ DOMAIN NewTransactions(s, U) : transactions'[id] = transactions[id]
    BY <1>1 DEF Merged
  <2>2. /\ \A id \in DOMAIN NewTransactions(s, U) : NewTransactions(s, U)[id] = TransactionRow(id)
        /\ \A id : id \in TxKeys(made') <=> id \in TxKeys(made) \cup DOMAIN NewTransactions(s, U)
    BY <1>2, TransactionsAdded
  <2>3. DOMAIN transactions' = TxKeys(made')
    BY <2>1, <2>2 DEF DataInv, TransactionsExact
  <2>4. \A id \in DOMAIN transactions' : transactions'[id] = TransactionRow(id)
    BY <2>1, <2>2 DEF DataInv, TransactionsExact
  <2> QED
    BY <2>3, <2>4 DEF TransactionsExact
<1>7. FirstExact'
  BY <1>1, <1>3 DEF Merged, DataInv, FirstExact, rows
<1>8. ConsentsExact'
  <2> DEFINE Bola == BolaConsent(s, first', rows)
  <2>1. DOMAIN Bola = {BolaId(s)} /\ BolaId(s) \notin ConsentKeys(made')
    BY DEF BolaConsent, BolaId, ConsentKeys, ConsentId
  <2>2. n >= 2 => first' \in DOMAIN rows /\ rows[first'] = UserRow(first')
    <3>1. n >= 2 => first' # NoUser
      BY <1>1 DEF UserId, NoUser
    <3> QED
      BY <1>1, <1>4, <1>7, <3>1 DEF FirstExact, UsersExact
  <2>3. n >= 2 => CoversOwn(Bola[BolaId(s)], rows)
    BY <2>2, BolaCovers
  <2>4. DOMAIN rows = UserKeys(made')
    BY <1>1, <1>4 DEF UsersExact
  <2> HIDE DEF Bola
  <2>5. /\ DOMAIN default = DOMAIN consents \cup DOMAIN NewConsents(s, U)
        /\ \A c \in ConsentKeys(made') : c \in DOMAIN default /\ default[c] = ConsentRow(c)
    <3>1. DOMAIN default = DOMAIN consents \cup DOMAIN NewConsents(s, U)
      BY DEF Merged, default
    <3>2. ASSUME NEW c \in DOMAIN NewConsents(s, U) PROVE default[c] = ConsentRow(c)
      <4>1. default[c] = NewConsents(s, U)[c]
        BY <3>2 DEF Merged, default
      <4>2. NewConsents(s, U)[c] = ConsentRow(c)
        BY <1>2, <3>2, ConsentsAdded
      <4> QED
        BY <4>1, <4>2
    <3>3. ASSUME NEW c \in DOMAIN consents \ DOMAIN NewConsents(s, U)
          PROVE  default[c] = consents[c]
      BY <3>3 DEF Merged, default
    <3>4. ASSUME NEW c \in ConsentKeys(made'), c \notin DOMAIN NewConsents(s, U)
          PROVE  c \in DOMAIN consents /\ consents[c] = ConsentRow(c)
      <4>1. c \in ConsentKeys(made)
        BY <1>2, <3>4, ConsentsAdded
      <4> QED
        BY <4>1 DEF DataInv, ConsentsExact
    <3> QED
      BY <3>1, <3>2, <3>3, <3>4
  <2>6. ASSUME NEW c \in DOMAIN default PROVE CoversOwn(default[c], rows)
    <3>1. CASE c \in ConsentKeys(made')
      BY <2>4, <2>5, <3>1, ConsentRowCovers
    <3>2. CASE c \notin ConsentKeys(made')
      <4>1. c \in DOMAIN consents /\ default[c] = consents[c]
        <5>1. c \notin DOMAIN NewConsents(s, U)
          BY <1>2, <3>2, ConsentsAdded
        <5> QED
          BY <2>5, <5>1 DEF Merged, default
      <4>2. CoversOwn(consents[c], users)
        BY <4>1 DEF DataInv, ConsentsExact, CoversOwn
      <4>3. DOMAIN users \subseteq DOMAIN rows
        BY DEF Merged, rows
      <4> QED
        BY <4>1, <4>2, <4>3 DEF CoversOwn
    <3> QED
      BY <3>1, <3>2
  <2>7. /\ DOMAIN default \subseteq DOMAIN consents'
        /\ \A c \in ConsentKeys(made') : consents'[c] = default[c]
        /\ \A c \in DOMAIN consents' : CoversOwn(consents'[c], rows)
    <3>1. CASE n >= 2
      <4>1. consents' = Merged(default, Bola)
        BY <1>1, <3>1 DEF Bola
      <4>2. DOMAIN consents' = DOMAIN default \cup {BolaId(s)}
        BY <2>1, <4>1 DEF Merged
      <4>3. /\ consents'[BolaId(s)] = Bola[BolaId(s)]
            /\ \A c \in DOMAIN default : c # BolaId(s) => consents'[c] = default[c]
        BY <2>1, <4>1 DEF Merged
      <4> QED
        BY <2>1, <2>3, <2>5, <2>6, <3>1, <4>2, <4>3
    <3>2. CASE ~(n >= 2)
      BY <1>1, <2>6, <3>2
    <3> QED
      BY <3>1, <3>2
  <2> QED
    BY <1>1, <2>5, <2>7 DEF ConsentsExact, CoversOwn
<1>9. MadeTyped'
  BY <1>1, DataAssumption DEF DataInv, MadeTyped, U
<1> QED
  BY <1>4, <1>5, <1>6, <1>7, <1>8, <1>9 DEF DataInv

LEMMA RequestKeeps ==
  ASSUME DataInv, UNCHANGED tables
  PROVE  DataInv'
BY DEF tables, DataInv, UsersExact, AccountsExact, TransactionsExact, ConsentsExact,
       FirstExact, MadeTyped

(* Every step is a generation or a request; a request reads only.            *)
LEMMA RequestsRead ==
  ASSUME ViaController \/ Direct
  PROVE  UNCHANGED tables
BY DEF ViaController, Direct, Request, Collections, UserObjects, AccountObjects,
       TransactionObjects, Reply

LEMMA DataInvAlways == Spec => []DataInv
<1>1. Init => DataInv
  BY DEF Init, DataInv, UsersExact, AccountsExact, TransactionsExact, ConsentsExact,
         FirstExact, MadeTyped, UserKeys, AccountKeys, TxKeys, ConsentKeys
<1>2. DataInv /\ [Next]_vars => DataInv'
  <2> SUFFICES ASSUME DataInv, [Next]_vars PROVE DataInv'
    OBVIOUS
  <2>1. CASE Startup
    BY <2>1, GenerateKeeps DEF Startup
  <2>2. CASE ViaController \/ Direct
    BY <2>2, RequestsRead, RequestKeeps
  <2>3. CASE UNCHANGED vars
    BY <2>3, RequestKeeps DEF vars
  <2> QED
    BY <2>1, <2>2, <2>3 DEF Next
<1> QED
  BY <1>1, <1>2, PTL DEF Spec

-----------------------------------------------------------------------------
(* Type correctness: a row of a dictionary has the type of its key's row.    *)

LEMMA RowsTyped ==
  ASSUME DataInv
  PROVE  /\ \A id \in DOMAIN users :
              /\ id \in Subjects
              /\ users[id] \in [accounts : [AcctIdx -> AcctIds],
                              connections : SUBSET {ConnId(id[2], id[3])}]
         /\ \A id \in DOMAIN accounts :
              id \in AcctIds /\ accounts[id] \in [owner : Subjects, transactions : SUBSET TxIds]
         /\ \A id \in DOMAIN transactions :
              id \in TxIds /\ transactions[id] \in [owner : Subjects, account : AcctIds]
<1>0. \A m \in made : m[1] \in Seeds /\ m[2] \in 0..MaxUsers
  BY DEF DataInv, MadeTyped
<1>1. ASSUME NEW m \in made
      PROVE  /\ UserId(m[1], m[2]) \in Subjects
             /\ \A a \in AcctIdx : AcctId(m[1], m[2], a) \in AcctIds
             /\ \A a \in AcctIdx, t \in TxIdx : TxId(m[1], m[2], a, t) \in TxIds
  BY <1>0, <1>1 DEF Subjects, AcctIds, TxIds
<1>2. ASSUME NEW id \in DOMAIN users
      PROVE  /\ id \in Subjects
             /\ users[id] \in [accounts : [AcctIdx -> AcctIds],
                             connections : SUBSET {ConnId(id[2], id[3])}]
  <2>1. PICK m \in made : id = UserId(m[1], m[2])
    BY <1>2 DEF DataInv, UsersExact, UserKeys
  <2>2. id[2] = m[1] /\ id[3] = m[2]
    BY <2>1 DEF UserId
  <2> QED
    BY <1>1, <1>2, <2>1, <2>2 DEF DataInv, UsersExact, UserRow
<1>3. ASSUME NEW id \in DOMAIN accounts
      PROVE  id \in AcctIds /\ accounts[id] \in [owner : Subjects, transactions : SUBSET TxIds]
  <2>1. PICK m \in made, a \in AcctIdx : id = AcctId(m[1], m[2], a)
    BY <1>3 DEF DataInv, AccountsExact, AccountKeys
  <2>2. id[2] = m[1] /\ id[3] = m[2] /\ id[4] = a
    BY <2>1 DEF AcctId
  <2>3. Owner(id) \in Subjects
    BY <1>1, <2>2 DEF Owner
  <2> QED
    BY <1>1, <1>3, <2>1, <2>2, <2>3 DEF DataInv, AccountsExact, AccountRow
<1>4. ASSUME NEW id \in DOMAIN transactions
      PROVE  id \in TxIds /\ transactions[id] \in [owner : Subjects, account : AcctIds]
  <2>1. PICK m \in made, a \in AcctIdx, t \in TxIdx : id = TxId(m[1], m[2], a, t)
    BY <1>4 DEF DataInv, TransactionsExact, TxKeys
  <2>2. id[2] = m[1] /\ id[3] = m[2] /\ id[4] = a
    BY <2>1 DEF TxId
  <2>3. Owner(id) \in Subjects
    BY <1>1, <2>2 DEF Owner
  <2> QED
    BY <1>1, <1>4, <2>1, <2>2, <2>3 DEF DataInv, TransactionsExact, TransactionRow
<1> QED
  BY <1>2, <1>3, <1>4

LEMMA ConsentsTyped ==
  ASSUME DataInv, NEW c \in DOMAIN consents
  PROVE  consents[c] \in [user : Subjects, accounts : SUBSET AcctIds]
<1>1. CoversOwn(consents[c], users)
  BY DEF DataInv, ConsentsExact
<1>2. PICK m \in made : consents[c].user = UserId(m[1], m[2])
  BY <1>1 DEF CoversOwn, DataInv, UsersExact, UserKeys
<1>3. m[1] \in Seeds /\ m[2] \in 0..MaxUsers
  BY DEF DataInv, MadeTyped
<1>4. consents[c].user \in Subjects
  BY <1>2, <1>3 DEF Subjects
<1>5. \A a \in AcctIdx : AcctId(m[1], m[2], a) \in AcctIds
  BY <1>3 DEF AcctIds
<1>6. consents[c].user[2] = m[1] /\ consents[c].user[3] = m[2]
  BY <1>2 DEF UserId
<1>7. consents[c].accounts \subseteq AcctIds
  BY <1>1, <1>5, <1>6 DEF CoversOwn
<1> QED
  BY <1>1, <1>4, <1>7 DEF CoversOwn

(* Every answer has one of the four statuses.                                *)
LEMMA Statuses ==
  ASSUME ViaController \/ Direct
  PROVE  reply'.status \in {200, 401, 403, 404}
<1> DEFINE Known(answer) == answer.status \in {200, 401, 403, 404}
<1>1. \A user, shown : Known(OwnRow(user, shown))
  BY DEF OwnRow, Ok, NotFound, Answer
<1>2. \A table, id, user, shown : Known(OwnedRow(table, id, user, shown))
  BY DEF OwnedRow, Ok, NotFound, Forbidden, Answer
<1>3. Known(create_consent) /\ Known(Forbidden) /\ Known(Unauthorized)
  BY DEF create_consent, Ok, Forbidden, Unauthorized, Answer
<1>4. \A user : /\ Known(list_users(user)) /\ Known(list_accounts(user))
                 /\ Known(list_consents(user))
  BY <1>1 DEF list_users, list_accounts, list_consents, Ok, Answer
<1>5. \A user, id :
        /\ Known(get_user_detail(user, id)) /\ Known(get_connections(user, id))
        /\ Known(get_account_detail(user, id)) /\ Known(list_transactions(user, id))
        /\ Known(get_transaction_detail(user, id))
  BY <1>1, <1>2, <1>3
  DEF get_user_detail, get_connections, get_account_detail, list_transactions,
      get_transaction_detail
<1>6. ASSUME NEW subject, NEW id, NEW h, NEW answer, Reply(subject, id, h, answer), Known(answer)
      PROVE  reply'.status \in {200, 401, 403, 404}
  BY <1>3, <1>6 DEF Reply, Guarded
<1>7. ASSUME NEW subject, NEW h, Request(subject, h)
      PROVE  reply'.status \in {200, 401, 403, 404}
  <2> HIDE DEF Known
  <2> QED
    BY <1>3, <1>4, <1>5, <1>6, <1>7
    DEF Request, Collections, UserObjects, AccountObjects, TransactionObjects
<1> QED
  BY <1>7 DEF ViaController, Direct

(* Every row of the four dictionaries has its type, after any generations,   *)
(* and every answer one of the statuses of routers/*.py.                     *)
THEOREM TypeCorrect == Spec => []TypeOK
<1> DEFINE StatusOK == reply.status \in {0, 200, 401, 403, 404}
<1>1. Init => StatusOK
  BY DEF Init
<1>2. StatusOK /\ [Next]_vars => StatusOK'
  BY Statuses DEF Next, Startup, Generate, vars
<1>3. DataInv /\ StatusOK => TypeOK
  BY RowsTyped, ConsentsTyped DEF TypeOK, DataInv, MadeTyped
<1> QED
  BY <1>1, <1>2, <1>3, DataInvAlways, PTL DEF Spec

-----------------------------------------------------------------------------
(* What the handlers show.                                                   *)

(* The id is that of the user, or derived from the user. *)
Own(user, shown) == \A id \in shown : Owner(id) = user

(* Each handler shows a user of the dictionary only own objects.             *)
LEMMA KeysName ==
  ASSUME DataInv
  PROVE  /\ \A id \in DOMAIN users : Owner(id) = id /\ id = UserId(id[2], id[3])
         /\ \A id \in DOMAIN accounts : accounts[id] = AccountRow(id)
         /\ \A id \in DOMAIN transactions : transactions[id] = TransactionRow(id)
BY DEF DataInv, UsersExact, AccountsExact, TransactionsExact, UserKeys, Owner, UserId

LEMMA OwnRowsShown ==
  ASSUME DataInv, NEW user
  PROVE  /\ Own(user, list_users(user).shown)
         /\ Own(user, list_accounts(user).shown)
         /\ \A id : Own(user, get_user_detail(user, id).shown)
         /\ \A id : Own(user, get_connections(user, id).shown)
<1>1. CASE user \in DOMAIN users
  <2>1. Owner(user) = user /\ user = UserId(user[2], user[3]) /\ users[user] = UserRow(user)
    BY <1>1, KeysName DEF DataInv, UsersExact
  <2>2. \A a \in AcctIdx : Owner(users[user].accounts[a]) = user
    BY <2>1 DEF UserRow, AcctId, Owner
  <2>3. \A c \in users[user].connections : Owner(c) = user
    BY <2>1 DEF UserRow, ConnId, Owner
  <2> QED
    BY <1>1, <2>1, <2>2, <2>3
    DEF Own, list_users, list_accounts, get_user_detail, get_connections, OwnRow, Ok,
        Forbidden, Answer
<1>2. CASE user \notin DOMAIN users
  BY <1>2
  DEF Own, list_users, list_accounts, get_user_detail, get_connections, OwnRow, NotFound,
      Forbidden, Answer
<1> QED
  BY <1>1, <1>2

LEMMA OwnedRowsShown ==
  ASSUME DataInv, NEW user, NEW id
  PROVE  /\ Own(user, get_account_detail(user, id).shown)
         /\ Own(user, list_transactions(user, id).shown)
         /\ Own(user, get_transaction_detail(user, id).shown)
<1>1. \A t \in TxIdx : Owner(TxId(id[2], id[3], id[4], t)) = Owner(id)
  BY DEF Owner, TxId
<1>2. Owner(AcctId(id[2], id[3], id[4])) = Owner(id)
  BY DEF Owner, AcctId
<1>3. id \in DOMAIN accounts =>
        /\ accounts[id].owner = Owner(id)
        /\ \A t \in accounts[id].transactions : Owner(t) = Owner(id)
  BY <1>1, KeysName DEF AccountRow
<1>4. id \in DOMAIN transactions =>
        /\ transactions[id].owner = Owner(id)
        /\ Owner(transactions[id].account) = Owner(id)
  BY <1>2, KeysName DEF TransactionRow
<1>5. Own(user, get_account_detail(user, id).shown)
  BY <1>3 DEF Own, get_account_detail, OwnedRow, Ok, NotFound, Forbidden, Answer
<1>6. Own(user, list_transactions(user, id).shown)
  BY <1>3 DEF Own, list_transactions, OwnedRow, Ok, NotFound, Forbidden, Answer
<1>7. Own(user, get_transaction_detail(user, id).shown)
  BY <1>4 DEF Own, get_transaction_detail, OwnedRow, Ok, NotFound, Forbidden, Answer
<1> QED
  BY <1>5, <1>6, <1>7

LEMMA ConsentsShown ==
  ASSUME DataInv, NEW user
  PROVE  Own(user, list_consents(user).shown)
<1> SUFFICES ASSUME NEW c \in DOMAIN consents, consents[c].user = user,
                    NEW x \in consents[c].accounts
             PROVE  Owner(x) = user
  BY DEF Own, list_consents, ConsentsFor, Ok, Answer
<1>1. user \in DOMAIN users
  BY DEF DataInv, ConsentsExact, CoversOwn
<1>2. PICK a \in AcctIdx : x = AcctId(user[2], user[3], a)
  BY DEF DataInv, ConsentsExact, CoversOwn
<1>3. Owner(x) = UserId(user[2], user[3])
  BY <1>2 DEF Owner, AcctId
<1> QED
  BY <1>1, <1>3, KeysName

-----------------------------------------------------------------------------
(* The answer to one request. *)

(* What is sent back is the handler's answer or nothing; a request without   *)
(* the secret gets nothing.                                                  *)
LEMMA Answered ==
  ASSUME NEW subject, NEW id, NEW h, NEW answer, Reply(subject, id, h, answer),
         h.validated => Own(subject, answer.shown)
  PROVE  OnlyOwnObjects'
<1>1. /\ reply'.subject = subject
      /\ reply'.shown = Guarded(h, answer).shown
  BY DEF Reply
<1>2. Own(subject, Guarded(h, answer).shown)
  BY DEF Own, Guarded, Forbidden, Unauthorized, Answer
<1> QED
  BY <1>1, <1>2 DEF Own, OnlyOwnObjects

LEMMA RequestsShowOwn ==
  ASSUME DataInv, NEW subject, NEW h, Request(subject, h),
         h.validated => h.user = subject
  PROVE  OnlyOwnObjects'
<1>1. CASE Collections(subject, h)
  <2>1. Own(h.user, create_consent.shown)
    BY DEF Own, create_consent, Ok, Answer
  <2> QED
    BY <1>1, <2>1, OwnRowsShown, ConsentsShown, Answered DEF Collections
<1>2. CASE UserObjects(subject, h)
  BY <1>2, OwnRowsShown, Answered DEF UserObjects
<1>3. CASE AccountObjects(subject, h)
  BY <1>3, OwnedRowsShown, Answered DEF AccountObjects
<1>4. CASE TransactionObjects(subject, h)
  BY <1>4, OwnedRowsShown, Answered DEF TransactionObjects
<1> QED
  BY <1>1, <1>2, <1>3, <1>4 DEF Request

(* Whatever was generated before, for whichever seeds and users, and         *)
(* whatever trust headers a client sends along, an answer of mock-adr-api    *)
(* shows only objects of the subject the controller forwarded for; a caller  *)
(* without the shared secret is shown nothing (routers/*.py with the guard   *)
(* require_zt_controller, and the header handling of proxy.forward).         *)
THEOREM NothingForeignShown == Spec => []OnlyOwnObjects
<1>1. Init => OnlyOwnObjects
  BY DEF Init, OnlyOwnObjects
<1>2. OnlyOwnObjects /\ DataInv /\ [Next]_vars => OnlyOwnObjects'
  <2> SUFFICES ASSUME OnlyOwnObjects, DataInv, [Next]_vars PROVE OnlyOwnObjects'
    OBVIOUS
  <2>1. CASE Startup
    BY <2>1 DEF Startup, Generate, OnlyOwnObjects
  <2>2. CASE ViaController
    <3>1. PICK sub \in Subjects, h \in Headers : Request(sub, Forwarded(h, sub))
      BY <2>2 DEF ViaController
    <3>2. Forwarded(h, sub).user = sub
      BY DEF Forwarded
    <3> QED
      BY <3>1, <3>2, RequestsShowOwn
  <2>3. CASE Direct
    BY <2>3, RequestsShowOwn DEF Direct
  <2>4. CASE UNCHANGED vars
    BY <2>4 DEF vars, OnlyOwnObjects
  <2> QED
    BY <2>1, <2>2, <2>3, <2>4 DEF Next
<1> QED
  BY <1>1, <1>2, DataInvAlways, PTL DEF Spec

(* Every attempt of A5 meets the ownership check, and is refused by it,      *)
(* exactly when the server generated the user that the harness's seed names  *)
(* as the victim: victim_object_ids of attacks/ against generate().          *)
THEOREM CrossUserRefused == Spec => []A5RefusedByOwnership
<1>1. ASSUME DataInv PROVE A5RefusedByOwnership
  <2>1. Forwarded([validated |-> FALSE, user |-> NoUser], Tester).user = Tester
    BY DEF Forwarded
  <2>2. ASSUME <<HarnessSeed, 1>> \in made PROVE Victim \in DOMAIN accounts
    <3>1. 0 \in AcctIdx
      BY DataAssumption DEF AcctIdx
    <3>2. Victim = AcctId(<<HarnessSeed, 1>>[1], <<HarnessSeed, 1>>[2], 0)
      BY DEF Victim
    <3> QED
      BY <1>1, <2>2, <3>1, <3>2 DEF DataInv, AccountsExact, AccountKeys
  <2>3. ASSUME Victim \in DOMAIN accounts PROVE <<HarnessSeed, 1>> \in made
    <3>1. PICK m \in made, a \in AcctIdx : Victim = AcctId(m[1], m[2], a)
      BY <1>1, <2>3 DEF DataInv, AccountsExact, AccountKeys
    <3>2. m[1] = HarnessSeed /\ m[2] = 1
      BY <3>1 DEF Victim, AcctId
    <3>3. m = <<m[1], m[2]>>
      BY <1>1 DEF DataInv, MadeTyped
    <3> QED
      BY <3>2, <3>3
  <2>4. Victim \in DOMAIN accounts => accounts[Victim].owner # Tester
    <3>1. Owner(Victim) # Tester
      BY DEF Owner, Victim, AcctId, Tester, UserId
    <3> QED
      BY <1>1, <3>1, KeysName DEF AccountRow
  <2> QED
    BY <2>1, <2>2, <2>3, <2>4
    DEF A5RefusedByOwnership, A5Answers, get_account_detail, list_transactions, OwnedRow
<1> QED
  BY <1>1, DataInvAlways, PTL

-----------------------------------------------------------------------------
(* Nothing a generated user owns is out of reach. *)

(* The lists of a generated user, by its seed and index. *)
LEMMA OwnLists ==
  ASSUME DataInv, NEW m \in made, NEW user, user = UserId(m[1], m[2])
  PROVE  /\ user \in DOMAIN users /\ list_users(user).status = 200
         /\ \A a : a \in list_accounts(user).shown <=>
                     \E i \in AcctIdx : a = AcctId(m[1], m[2], i)
<1>1. user \in DOMAIN users /\ users[user] = UserRow(user)
  BY DEF DataInv, UsersExact, UserKeys
<1>2. user[2] = m[1] /\ user[3] = m[2]
  BY DEF UserId
<1>3. \A i \in AcctIdx : users[user].accounts[i] = AcctId(m[1], m[2], i)
  BY <1>1, <1>2 DEF UserRow
<1> QED
  BY <1>1, <1>3 DEF list_users, list_accounts, OwnRow, Ok, Answer

(* An account of a generated user opens, and so do its transactions.         *)
LEMMA AccountsOpen ==
  ASSUME DataInv, NEW m \in made, NEW user, user = UserId(m[1], m[2]),
         NEW i \in AcctIdx, NEW a, a = AcctId(m[1], m[2], i)
  PROVE  /\ get_account_detail(user, a).status = 200
         /\ \A t \in list_transactions(user, a).shown :
              get_transaction_detail(user, t) = Ok({t, a})
<1>1. a \in DOMAIN accounts /\ accounts[a] = AccountRow(a)
  BY DEF DataInv, AccountsExact, AccountKeys
<1>2. Owner(a) = user /\ a[2] = m[1] /\ a[3] = m[2] /\ a[4] = i
  BY DEF Owner, AcctId
<1>3. /\ accounts[a].owner = user
      /\ accounts[a].transactions = {TxId(m[1], m[2], i, t) : t \in TxIdx}
  BY <1>1, <1>2 DEF AccountRow
<1>4. ASSUME NEW k \in TxIdx, NEW t, t = TxId(m[1], m[2], i, k)
      PROVE  get_transaction_detail(user, t) = Ok({t, a})
  <2>1. t \in DOMAIN transactions /\ transactions[t] = TransactionRow(t)
    BY <1>4 DEF DataInv, TransactionsExact, TxKeys
  <2>2. Owner(t) = user /\ AcctId(t[2], t[3], t[4]) = a
    BY <1>4 DEF Owner, TxId, AcctId
  <2>3. transactions[t].owner = user /\ transactions[t].account = a
    BY <2>1, <2>2 DEF TransactionRow
  <2> QED
    BY <2>1, <2>3 DEF get_transaction_detail, OwnedRow
<1>5. get_account_detail(user, a).status = 200
  BY <1>1, <1>3 DEF get_account_detail, OwnedRow, Ok, Answer
<1>6. \A t \in list_transactions(user, a).shown :
        \E k \in TxIdx : t = TxId(m[1], m[2], i, k)
  BY <1>1, <1>3 DEF list_transactions, OwnedRow, Ok, Answer
<1> QED
  BY <1>4, <1>5, <1>6

(* The consents of a generated user cover that user's accounts, all of them  *)
(* and no others.                                                            *)
LEMMA ConsentsAgree ==
  ASSUME DataInv, NEW m \in made, NEW user, user = UserId(m[1], m[2])
  PROVE  \A x : x \in list_consents(user).shown <=>
                   \E i \in AcctIdx : x = AcctId(m[1], m[2], i)
<1> DEFINE c == ConsentId(m[1], m[2])
<1>1. c \in ConsentKeys(made) /\ c \in DOMAIN consents /\ consents[c] = ConsentRow(c)
  BY DEF DataInv, ConsentsExact, ConsentKeys
<1>2. Owner(c) = user /\ c[2] = m[1] /\ c[3] = m[2]
  BY DEF Owner, ConsentId
<1>3. consents[c].user = user
      /\ consents[c].accounts = {AcctId(m[1], m[2], i) : i \in AcctIdx}
  BY <1>1, <1>2 DEF ConsentRow
<1>4. user[2] = m[1] /\ user[3] = m[2]
  BY DEF UserId
<1>5. \A d \in DOMAIN consents : consents[d].user = user =>
        \A x \in consents[d].accounts : \E i \in AcctIdx : x = AcctId(m[1], m[2], i)
  BY <1>4 DEF DataInv, ConsentsExact, CoversOwn
<1>6. \A x : x \in list_consents(user).shown <=>
               \E d \in DOMAIN consents : consents[d].user = user /\ x \in consents[d].accounts
  BY DEF list_consents, ConsentsFor, Ok, Answer
<1> HIDE DEF c
<1> QED
  BY <1>1, <1>3, <1>5, <1>6

(* A user whom generate() made reaches each own account, transaction and     *)
(* consent, and no consent covers an account of another user: the four       *)
(* dictionaries agree, however often and for whatever seeds they were filled *)
(* (seed/synthetic_data.py against the look-ups of routers/*.py).            *)
THEOREM OwnDataReachable == Spec => []OwnObjectsReachable
<1>1. ASSUME DataInv PROVE ObjectsReachable
  <2> SUFFICES ASSUME NEW m \in made
               PROVE  LET user == UserId(m[1], m[2])
                      IN /\ list_users(user).status = 200
                         /\ \A a \in list_accounts(user).shown :
                              /\ get_account_detail(user, a).status = 200
                              /\ \A t \in list_transactions(user, a).shown :
                                   get_transaction_detail(user, t) = Ok({t, a})
                         /\ list_consents(user).shown = list_accounts(user).shown
    BY DEF ObjectsReachable
  <2> DEFINE user == UserId(m[1], m[2])
             seen == list_accounts(user).shown
             consented == list_consents(user).shown
  <2>0. user = UserId(m[1], m[2])
    OBVIOUS
  <2> HIDE DEF user
  <2>1. /\ list_users(user).status = 200
        /\ \A a : a \in list_accounts(user).shown <=>
                    \E i \in AcctIdx : a = AcctId(m[1], m[2], i)
    BY <1>1, <2>0, OwnLists
  <2>2. ASSUME NEW i \in AcctIdx, NEW a, a = AcctId(m[1], m[2], i)
        PROVE  /\ get_account_detail(user, a).status = 200
               /\ \A t \in list_transactions(user, a).shown :
                    get_transaction_detail(user, t) = Ok({t, a})
    BY <1>1, <2>0, <2>2, AccountsOpen
  <2>3. consented = seen
    <3>1. \A x : x \in list_consents(user).shown <=>
                   \E i \in AcctIdx : x = AcctId(m[1], m[2], i)
      BY <1>1, <2>0, ConsentsAgree
    <3>2. \A x : x \in consented <=> x \in seen
      BY <2>1, <3>1
    <3> HIDE DEF seen, consented
    <3> QED
      BY <3>2
  <2> QED
    BY <2>0, <2>1, <2>2, <2>3
<1>2. ASSUME DataInv PROVE ConsentsCoverOwnAccounts
  <2> SUFFICES ASSUME NEW c \in DOMAIN consents, NEW x \in consents[c].accounts
               PROVE  x \in DOMAIN accounts /\ accounts[x].owner = consents[c].user
    BY DEF ConsentsCoverOwnAccounts
  <2>1. consents[c].user \in DOMAIN users
    BY <1>2 DEF DataInv, ConsentsExact, CoversOwn
  <2>2. PICK m \in made : consents[c].user = UserId(m[1], m[2])
    BY <1>2, <2>1 DEF DataInv, UsersExact, UserKeys
  <2>3. PICK a \in AcctIdx : x = AcctId(m[1], m[2], a)
    BY <1>2, <2>2 DEF DataInv, ConsentsExact, CoversOwn, UserId
  <2>4. x \in DOMAIN accounts
    BY <1>2, <2>3 DEF DataInv, AccountsExact, AccountKeys
  <2>5. Owner(x) = consents[c].user
    BY <2>2, <2>3 DEF Owner, AcctId
  <2> QED
    BY <1>2, <2>4, <2>5, KeysName DEF AccountRow
<1> QED
  BY <1>1, <1>2, DataInvAlways, PTL DEF OwnObjectsReachable
=============================================================================
