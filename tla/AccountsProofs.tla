--------------------------- MODULE AccountsProofs ---------------------------
(***************************************************************************)
(* Proofs about Accounts, for any number of calls, emails and identities.  *)
(* The invariant says of every handler what it has learnt and what can     *)
(* have changed since, and of every row which call made it what it is.     *)
(***************************************************************************)
EXTENDS Accounts, TLAPS

\* What the phase of a handler says of its call.
PhaseInv ==
  \A c \in Calls :
    /\ pc[c] = "hashing" => input[c].kind = "register"
    /\ pc[c] \in {"unlinked", "linking", "creating"} =>
         input[c].kind = "google" /\ input[c].valid
    /\ pc[c] = "linking" =>
         /\ found[c] \in Calls /\ users[found[c]] # None
         /\ users[found[c]].email = EmailOf(c)
    /\ pc[c] = "token" => token[c] \in Calls

\* A row was created by the call it is named after, and an identity that is
\* linked to it was vouched for.
RowInv ==
  \A u \in Calls : users[u] # None =>
    /\ pc[u] = "token"
    /\ users[u].email = EmailOf(u)
    /\ users[u].googleId # None => Vouched(users[u].googleId, u)

UniqueInv ==
  \A u, v \in Rows : users[u].googleId # None /\ users[u].googleId = users[v].googleId => u = v

\* An identity that signed in to an account is still linked to it, unless
\* another one took its place.
LinkInv ==
  \A c \in Calls : HasToken(c, "google") =>
    \/ users[token[c]].googleId = input[c].sub
    \/ \E r \in Calls : /\ HasToken(r, "google") /\ input[r].sub # input[c].sub
                        /\ token[r] = token[c]

\* What stands in a handler's way came after it started.
OverlapInv ==
  \A c \in Calls :
    /\ \A d \in saw[c] : pc[d] \in Over
    /\ pc[c] \in {"hashing", "creating"} => \A u \in ByEmail(EmailOf(c)) : u \notin saw[c]
    /\ pc[c] \in {"unlinked", "linking", "creating"} =>
         \A u \in ByGoogleId(input[c].sub) :
           \E d \in Calls \ saw[c] : HasToken(d, "google") /\ input[d].sub = input[c].sub

IInv == /\ AccountsTypeOK /\ PhaseInv /\ RowInv /\ UniqueInv
        /\ TokenIsEarned /\ LinkInv /\ OverlapInv /\ FailureMeansOverlap

Step(c) == \/ Register(c) \/ InsertPassword(c) \/ Login(c)
           \/ Google(c) \/ FindEmail(c) \/ Link(c) \/ Create(c)

-----------------------------------------------------------------------------
(* The actions, unfolded as far as the proofs need them *)

LEMMA RegisterStep ==
  ASSUME NEW c \in Calls, Register(c)
  PROVE  /\ pc[c] = "idle" /\ input[c].kind = "register" /\ UNCHANGED users
         /\ \/ Start(c, "refused", None)
            \/ Start(c, "hashing", None) /\ ByEmail(EmailOf(c)) = {}
  BY DEF Register

\* The two handlers that look an account up and answer at once, or go on.
LEMMA LookUpStep ==
  ASSUME NEW c \in Calls, Login(c) \/ Google(c)
  PROVE  /\ pc[c] = "idle" /\ UNCHANGED users
         /\ \E p \in {"refused", "token", "unlinked"}, u \in Calls \cup {None} :
              /\ Start(c, p, u)
              /\ p = "unlinked" => /\ input[c].kind = "google" /\ input[c].valid
                                   /\ ByGoogleId(input[c].sub) = {}
              /\ p = "token" =>
                   /\ u \in Rows
                   /\ IF input[c].kind = "google"
                      THEN input[c].valid /\ users[u].googleId = input[c].sub
                      ELSE /\ users[u].email = EmailOf(c)
                           /\ users[u].passwordHash = input[c].password
<1>1. CASE Login(c)
  <2> DEFINE match == {u \in ByEmail(EmailOf(c)) : users[u].passwordHash = input[c].password}
  <2>1. /\ pc[c] = "idle" /\ UNCHANGED users
        /\ input[c].kind = "login"
        /\ Start(c, "refused", None) \/ \E u \in match : Start(c, "token", u)
    BY <1>1 DEF Login
  <2>2. CASE Start(c, "refused", None)
    BY <2>1, <2>2, Zenon
  <2>3. CASE \E u \in match : Start(c, "token", u)
    <3>1. PICK u \in match : Start(c, "token", u)
      BY <2>3
    <3>2. /\ u \in Rows /\ u \in Calls /\ users[u].email = EmailOf(c)
          /\ users[u].passwordHash = input[c].password
      BY DEF ByEmail, Rows
    <3>3. input[c].kind # "google"
      BY <2>1
    <3> QED
      BY <2>1, <3>1, <3>2, <3>3, Zenon
  <2> QED
    BY <2>1, <2>2, <2>3
<1>2. CASE Google(c)
  <2> DEFINE match == ByGoogleId(input[c].sub)
  <2>1. /\ pc[c] = "idle" /\ UNCHANGED users
        /\ input[c].kind = "google"
        /\ \/ Start(c, "refused", None)
           \/ input[c].valid /\ match = {} /\ Start(c, "unlinked", None)
           \/ input[c].valid /\ \E u \in match : Start(c, "token", u)
    BY <1>2, Zenon DEF Google
  <2>2. CASE Start(c, "refused", None)
    BY <2>1, <2>2, Zenon
  <2>3. CASE input[c].valid /\ match = {} /\ Start(c, "unlinked", None)
    BY <2>1, <2>3, Zenon
  <2>4. CASE input[c].valid /\ \E u \in match : Start(c, "token", u)
    <3>1. PICK u \in match : Start(c, "token", u)
      BY <2>4
    <3>2. u \in Rows /\ u \in Calls /\ users[u].googleId = input[c].sub
      BY DEF ByGoogleId, Rows
    <3> QED
      BY <2>1, <2>4, <3>1, <3>2, Zenon
  <2> QED
    BY <2>1, <2>2, <2>3, <2>4
<1> QED
  BY <1>1, <1>2

LEMMA FindStep ==
  ASSUME NEW c \in Calls, FindEmail(c)
  PROVE  /\ pc[c] = "unlinked" /\ UNCHANGED <<users, input, token, saw>>
         /\ \/ ByEmail(EmailOf(c)) = {} /\ Go(c, "creating")
            \/ \E u \in Rows :
                 /\ users[u].email = EmailOf(c)
                 /\ pc' = [pc EXCEPT ![c] = "linking"] /\ found' = [found EXCEPT ![c] = u]
<1>1. \A u \in ByEmail(EmailOf(c)) : u \in Rows /\ users[u].email = EmailOf(c)
  BY DEF ByEmail
<1> QED
  BY <1>1, Zenon DEF FindEmail, Go

\* An insert or an update: a token for the row it wrote, or an error.
LEMMA WriteStep ==
  ASSUME AccountsTypeOK, PhaseInv, NEW c \in Calls, InsertPassword(c) \/ Link(c) \/ Create(c)
  PROVE  \/ Go(c, "failed") /\ UNCHANGED users
         \/ /\ InsertPassword(c) /\ Issue(c, c) /\ input[c].kind = "register"
            /\ \E row \in User : /\ users' = [users EXCEPT ![c] = row]
                                 /\ row.email = EmailOf(c) /\ row.googleId = None
                                 /\ row.passwordHash = input[c].password
         \/ /\ Create(c) /\ Issue(c, c) /\ ByGoogleId(input[c].sub) = {}
            /\ \E row \in User : /\ users' = [users EXCEPT ![c] = row]
                                 /\ row.email = EmailOf(c) /\ row.googleId = input[c].sub
         \/ /\ Link(c) /\ found[c] \in Calls /\ Issue(c, found[c])
            /\ ByGoogleId(input[c].sub) \subseteq {found[c]}
            /\ users[found[c]] # None /\ users[found[c]].email = EmailOf(c)
            /\ \E row \in User : /\ users' = [users EXCEPT ![found[c]] = row]
                                 /\ row.email = EmailOf(c) /\ row.googleId = input[c].sub
                                 /\ row.passwordHash = users[found[c]].passwordHash
<1>1. EmailOf(c) \in Emails
  BY NormalAssumption DEF EmailOf, Emails, Input, AccountsTypeOK
<1>2. CASE InsertPassword(c)
  <2> DEFINE row == [email |-> EmailOf(c), passwordHash |-> input[c].password, googleId |-> None]
  <2>1. input[c].kind = "register" /\ input[c].password \in Passwords
    BY <1>2 DEF InsertPassword, PhaseInv, Input, AccountsTypeOK
  <2>2. row \in User
    BY <2>1, <1>1 DEF User
  <2>3. \/ Go(c, "failed") /\ UNCHANGED users
        \/ Issue(c, c) /\ users' = [users EXCEPT ![c] = row]
    BY <1>2 DEF InsertPassword
  <2>4. row.email = EmailOf(c) /\ row.passwordHash = input[c].password /\ row.googleId = None
    OBVIOUS
  <2> HIDE DEF row
  <2> QED
    BY <1>2, <2>1, <2>2, <2>3, <2>4, Zenon
<1>3. CASE Create(c)
  <2> DEFINE row == [email |-> EmailOf(c), passwordHash |-> None, googleId |-> input[c].sub]
  <2>1. input[c].sub \in Subs
    BY <1>3 DEF Create, PhaseInv, Input, AccountsTypeOK
  <2>2. row \in User
    BY <2>1, <1>1 DEF User
  <2>3. \/ Go(c, "failed") /\ UNCHANGED users
        \/ /\ Issue(c, c) /\ users' = [users EXCEPT ![c] = row]
           /\ ByGoogleId(input[c].sub) = {}
    BY <1>3 DEF Create
  <2>4. row.email = EmailOf(c) /\ row.googleId = input[c].sub
    OBVIOUS
  <2> HIDE DEF row
  <2> QED
    BY <1>3, <2>2, <2>3, <2>4, Zenon
<1>4. CASE Link(c)
  <2> DEFINE old == users[found[c]]
             row == [email |-> old.email, passwordHash |-> old.passwordHash,
                     googleId |-> input[c].sub]
  <2>1. /\ input[c].sub \in Subs
        /\ found[c] \in Calls /\ old # None /\ old.email = EmailOf(c)
    BY <1>4 DEF Link, PhaseInv, Input, AccountsTypeOK
  <2>2. old \in User
    BY <2>1 DEF AccountsTypeOK
  <2>3. row \in User /\ [old EXCEPT !.googleId = input[c].sub] = row
    BY <2>1, <2>2 DEF User
  <2>4. \/ Go(c, "failed") /\ UNCHANGED users
        \/ /\ Issue(c, found[c]) /\ ByGoogleId(input[c].sub) \subseteq {found[c]}
           /\ users' = [users EXCEPT ![found[c]] = [old EXCEPT !.googleId = input[c].sub]]
    BY <1>4 DEF Link
  <2>5. /\ row.email = EmailOf(c) /\ row.googleId = input[c].sub
        /\ row.passwordHash = old.passwordHash
    BY <2>1
  <2> HIDE DEF row
  <2> QED
    BY <1>4, <2>1, <2>3, <2>4, <2>5, Zenon
<1> QED
  BY <1>2, <1>3, <1>4

-----------------------------------------------------------------------------
(* What a step leaves alone *)

\* A step is one call's; the others, and the inputs, stay as they are.
LEMMA OthersStay ==
  ASSUME AccountsTypeOK, PhaseInv, NEW c \in Calls, Step(c)
  PROVE  /\ pc[c] \notin Over /\ input' = input
         /\ \A d \in Calls \ {c} : /\ pc'[d] = pc[d] /\ found'[d] = found[d]
                                   /\ token'[d] = token[d] /\ saw'[d] = saw[d]
<1> USE DEF AccountsTypeOK
<1>1. CASE Register(c)
  BY <1>1, RegisterStep DEF Start, Over
<1>2. CASE Login(c) \/ Google(c)
  BY <1>2, LookUpStep DEF Start, Over
<1>3. CASE FindEmail(c)
  BY <1>3, FindStep DEF Go, Over
<1>4. CASE InsertPassword(c) \/ Link(c) \/ Create(c)
  <2>1. pc[c] \notin Over
    BY <1>4 DEF InsertPassword, Link, Create, Over
  <2>2. Go(c, "failed") \/ \E u \in Calls : Issue(c, u)
    BY <1>4, WriteStep
  <2> QED
    BY <2>1, <2>2 DEF Go, Issue
<1> QED
  BY <1>1, <1>2, <1>3, <1>4 DEF Step

\* Rows stay, with their email and password.  A new row, and a row that is
\* linked to another identity, is written by a call that ends with its token.
LEMMA RowsStay ==
  ASSUME AccountsTypeOK, PhaseInv, RowInv, NEW c \in Calls, Step(c)
  PROVE  /\ \A u \in Calls : users[u] # None =>
              /\ users'[u] # None
              /\ users'[u].email = users[u].email
              /\ users'[u].passwordHash = users[u].passwordHash
              /\ users'[u].googleId # users[u].googleId =>
                   /\ pc'[c] = "token" /\ token'[c] = u
                   /\ input[c].kind = "google" /\ input[c].valid
                   /\ users'[u].googleId = input[c].sub
                   /\ users[u].email = EmailOf(c)
         /\ \A u \in Calls : users[u] = None /\ users'[u] # None =>
              /\ u = c /\ pc'[c] = "token" /\ token'[c] = c
              /\ users'[c].email = EmailOf(c)
              /\ users'[c].googleId # None =>
                   /\ users'[c].googleId = input[c].sub
                   /\ input[c].kind = "google" /\ input[c].valid
<1> USE DEF AccountsTypeOK
<1>1. CASE Register(c) \/ Login(c) \/ Google(c) \/ FindEmail(c) \/ UNCHANGED users
  <2>1. users' = users
    BY <1>1, RegisterStep, LookUpStep, FindStep
  <2> QED
    BY <2>1
<1>2. CASE InsertPassword(c) \/ Link(c) \/ Create(c)
  <2>1. (input[c].kind = "google" /\ input[c].valid) \/ InsertPassword(c)
    BY <1>2 DEF Link, Create, PhaseInv
  <2>2. users[c] = None
    BY <1>2, OthersStay DEF RowInv, Over, Step
  <2>3. CASE InsertPassword(c) /\ ~UNCHANGED users
    BY <2>2, <2>3, WriteStep, NoUserAssumption DEF Issue, InsertPassword, Link, Create
  <2>4. CASE Create(c) /\ ~UNCHANGED users
    BY <2>1, <2>2, <2>4, WriteStep, NoUserAssumption DEF Issue, InsertPassword, Link, Create
  <2>5. CASE Link(c) /\ ~UNCHANGED users
    BY <2>1, <2>5, WriteStep, NoUserAssumption DEF Issue, InsertPassword, Link, Create
  <2> QED
    BY <1>1, <1>2, <2>3, <2>4, <2>5
<1> QED
  BY <1>1, <1>2 DEF Step

\* Once over, a call stays as it is, and so does what Google vouched for.
LEMMA OverStays ==
  ASSUME AccountsTypeOK, PhaseInv, RowInv, NEW c \in Calls, Step(c)
  PROVE  /\ \A d \in Calls : pc[d] \in Over => pc'[d] = pc[d] /\ token'[d] = token[d] /\ d # c
         /\ \A d \in Calls, k \in {"google"} : HasToken(d, k) => HasToken(d, k)' /\ d # c
         /\ \A d \in Calls : EmailOf(d)' = EmailOf(d)
         /\ \A g, u : u \in Calls /\ users[u] # None /\ Vouched(g, u) => Vouched(g, u)'
<1>1. \A d \in Calls : pc[d] \in Over => pc'[d] = pc[d] /\ token'[d] = token[d] /\ d # c
  BY OthersStay
<1>2. \A d \in Calls : EmailOf(d)' = EmailOf(d)
  BY OthersStay DEF EmailOf
<1>3. \A d \in Calls, k \in {"google"} : HasToken(d, k) => HasToken(d, k)' /\ d # c
  BY <1>1, OthersStay DEF HasToken, Over
<1>4. ASSUME NEW g, NEW u, u \in Calls /\ users[u] # None /\ Vouched(g, u)
      PROVE  Vouched(g, u)'
  <2>1. PICK d \in Calls : /\ HasToken(d, "google") /\ token[d] = u
                           /\ input[d].sub = g /\ input[d].valid
                           /\ EmailOf(d) = users[u].email
    BY <1>4 DEF Vouched
  <2>2. HasToken(d, "google")' /\ token'[d] = u
    BY <2>1, <1>1, <1>3 DEF HasToken, Over
  <2>3. users'[u].email = users[u].email /\ input' = input /\ EmailOf(d)' = EmailOf(d)
    BY <1>4, <1>2, RowsStay, OthersStay
  <2> QED
    BY <2>1, <2>2, <2>3 DEF Vouched
<1> QED
  BY <1>1, <1>2, <1>3, <1>4

-----------------------------------------------------------------------------
(* The parts of the invariant *)

LEMMA TypeStep ==
  ASSUME AccountsTypeOK, PhaseInv, NEW c \in Calls, Step(c)
  PROVE  AccountsTypeOK'
<1> USE DEF AccountsTypeOK
<1>1. CASE Register(c)
  BY <1>1, RegisterStep DEF Start, Finished, Phases, Over
<1>2. CASE Login(c) \/ Google(c)
  <2>1. PICK p \in {"refused", "token", "unlinked"}, u \in Calls \cup {None} : Start(c, p, u)
    BY <1>2, LookUpStep
  <2>2. Finished \in SUBSET Calls /\ users' = users
    BY <1>2, LookUpStep DEF Finished
  <2> QED
    BY <2>1, <2>2 DEF Start, Phases, Over
<1>3. CASE FindEmail(c)
  BY <1>3, FindStep DEF Go, Rows, Phases
<1>4. CASE InsertPassword(c) \/ Link(c) \/ Create(c)
  <2>1. \/ Go(c, "failed") /\ UNCHANGED users
        \/ \E u \in Calls, row \in User : Issue(c, u) /\ users' = [users EXCEPT ![u] = row]
    BY <1>4, WriteStep
  <2> QED
    BY <2>1 DEF Go, Issue, Over
<1> QED
  BY <1>1, <1>2, <1>3, <1>4 DEF Step

LEMMA PhaseStep ==
  ASSUME AccountsTypeOK, PhaseInv, RowInv, NEW c \in Calls, Step(c)
  PROVE  PhaseInv'
<1>1. /\ pc'[c] = "hashing" => input[c].kind = "register"
      /\ pc'[c] \in {"unlinked", "linking", "creating"} =>
           input[c].kind = "google" /\ input[c].valid
      /\ pc'[c] = "linking" => /\ found'[c] \in Calls /\ users[found'[c]] # None
                               /\ users[found'[c]].email = EmailOf(c)
      /\ pc'[c] = "token" => token'[c] \in Calls
  <2> USE DEF AccountsTypeOK
  <2>1. CASE Register(c)
    BY <2>1, RegisterStep DEF Start
  <2>2. CASE Login(c) \/ Google(c)
    BY <2>2, LookUpStep DEF Start, Rows
  <2>3. CASE FindEmail(c)
    BY <2>3, FindStep DEF Go, Rows, PhaseInv
  <2>4. CASE InsertPassword(c) \/ Link(c) \/ Create(c)
    BY <2>4, WriteStep DEF Go, Issue
  <2> QED
    BY <2>1, <2>2, <2>3, <2>4 DEF Step
<1>2. /\ input' = input
      /\ \A d \in Calls \ {c} : pc'[d] = pc[d] /\ found'[d] = found[d] /\ token'[d] = token[d]
  BY OthersStay
<1>3. \A d \in Calls : EmailOf(d)' = EmailOf(d)
  BY OverStays
<1>4. \A u \in Calls : users[u] # None => users'[u] # None /\ users'[u].email = users[u].email
  BY RowsStay
<1> QED
  BY <1>1, <1>2, <1>3, <1>4 DEF PhaseInv

LEMMA RowStep ==
  ASSUME AccountsTypeOK, PhaseInv, RowInv, NEW c \in Calls, Step(c)
  PROVE  RowInv'
<1> SUFFICES ASSUME NEW u \in Calls, users'[u] # None
             PROVE  /\ pc'[u] = "token"
                    /\ users'[u].email = EmailOf(u)'
                    /\ users'[u].googleId # None => Vouched(users[u].googleId, u)'
  BY DEF RowInv
<1>1. EmailOf(u)' = EmailOf(u) /\ EmailOf(c)' = EmailOf(c) /\ input' = input
  BY OverStays, OthersStay
<1>2. CASE users[u] # None
  <2>1. pc'[u] = "token" /\ users'[u].email = EmailOf(u)'
    BY <1>1, <1>2, OverStays, RowsStay DEF RowInv, Over
  <2>2. CASE users'[u].googleId = users[u].googleId
    BY <1>2, <2>1, <2>2, OverStays DEF RowInv
  <2>3. CASE users'[u].googleId # users[u].googleId
    <3>1. /\ HasToken(c, "google")' /\ token'[c] = u
          /\ input'[c].sub = users'[u].googleId /\ input'[c].valid
          /\ EmailOf(c)' = users'[u].email
      BY <1>1, <1>2, <2>3, RowsStay DEF HasToken
    <3> QED
      BY <2>1, <3>1 DEF Vouched
  <2> QED
    BY <2>2, <2>3
<1>3. CASE users[u] = None
  <2>1. u = c /\ pc'[c] = "token" /\ token'[c] = c /\ users'[c].email = EmailOf(c)'
    BY <1>1, <1>3, RowsStay
  <2>2. ASSUME users'[c].googleId # None PROVE Vouched(users[c].googleId, c)'
    <3>1. /\ HasToken(c, "google")' /\ input'[c].valid
          /\ users'[c].googleId = input'[c].sub
      BY <1>1, <1>3, <2>1, <2>2, RowsStay DEF HasToken
    <3> QED
      BY <2>1, <3>1 DEF Vouched
  <2> QED
    BY <2>1, <2>2
<1> QED
  BY <1>2, <1>3

LEMMA UniqueStep ==
  ASSUME AccountsTypeOK, PhaseInv, UniqueInv, NEW c \in Calls, Step(c)
  PROVE  UniqueInv'
<1> USE DEF AccountsTypeOK
<1>1. CASE UNCHANGED users
  BY <1>1 DEF UniqueInv, Rows
<1>2. CASE \E u \in Calls, row \in User :
             /\ users' = [users EXCEPT ![u] = row]
             /\ row.googleId # None => ByGoogleId(row.googleId) \subseteq {u}
  BY <1>2 DEF UniqueInv, Rows, ByGoogleId
<1>3. CASE InsertPassword(c) \/ Link(c) \/ Create(c)
  <2>1. PICK u \in Calls, row \in User :
          \/ UNCHANGED users
          \/ /\ users' = [users EXCEPT ![u] = row]
             /\ \/ row.googleId = None
                \/ row.googleId = input[c].sub /\ ByGoogleId(input[c].sub) \subseteq {u}
    <3>1. CASE UNCHANGED users
      <4>1. User # {}
        <5>1. EmailOf(c) \in Emails
          BY NormalAssumption DEF EmailOf, Emails, Input
        <5>2. [email |-> EmailOf(c), passwordHash |-> None, googleId |-> None] \in User
          BY <5>1 DEF User
        <5> QED
          BY <5>2
      <4> QED
        BY <3>1, <4>1
    <3>2. CASE ~UNCHANGED users
      <4>1. CASE InsertPassword(c)
        BY <3>2, <4>1, WriteStep DEF InsertPassword, Create, Link
      <4>2. CASE Create(c)
        BY <3>2, <4>2, WriteStep DEF InsertPassword, Create, Link
      <4>3. CASE Link(c)
        BY <3>2, <4>3, WriteStep DEF InsertPassword, Create, Link
      <4> QED
        BY <1>3, <4>1, <4>2, <4>3
    <3> QED
      BY <3>1, <3>2
  <2> QED
    BY <1>1, <1>2, <2>1
<1>4. CASE Register(c) \/ Login(c) \/ Google(c) \/ FindEmail(c)
  BY <1>1, <1>4, RegisterStep, LookUpStep, FindStep
<1> QED
  BY <1>3, <1>4 DEF Step

\* What the token of the call that takes a step is for.
LEMMA OwnToken ==
  ASSUME AccountsTypeOK, PhaseInv, RowInv, NEW c \in Calls, Step(c), pc'[c] = "token"
  PROVE  /\ token'[c] \in Calls /\ users'[token'[c]] # None
         /\ IF input[c].kind = "google"
            THEN /\ users'[token'[c]].googleId = input[c].sub
                 /\ Vouched(input[c].sub, token[c])'
            ELSE /\ users'[token'[c]].email = EmailOf(c)
                 /\ users'[token'[c]].passwordHash = input[c].password
<1> USE DEF AccountsTypeOK
<1>1. CASE Register(c) \/ FindEmail(c)
  BY <1>1, RegisterStep, FindStep DEF Start, Go
<1>2. CASE Login(c) \/ Google(c)
  <2>1. PICK p \in {"refused", "token", "unlinked"}, u \in Calls \cup {None} :
               /\ Start(c, p, u)
               /\ p = "token" =>
                   /\ u \in Rows
                   /\ IF input[c].kind = "google"
                      THEN input[c].valid /\ users[u].googleId = input[c].sub
                      ELSE /\ users[u].email = EmailOf(c)
                           /\ users[u].passwordHash = input[c].password
    BY <1>2, LookUpStep
  <2>2. users' = users /\ p = "token" /\ token'[c] = u
    BY <1>2, <2>1, LookUpStep DEF Start
  <2>3. u \in Calls /\ users[u] # None
    BY <2>1, <2>2 DEF Rows
  <2>4. ASSUME input[c].kind = "google" PROVE Vouched(input[c].sub, u)'
    <3>1. input[c].sub # None
      BY <2>4, NoneAssumption DEF Input
    <3>2. Vouched(input[c].sub, u)
      BY <2>1, <2>2, <2>3, <2>4, <3>1 DEF RowInv
    <3> QED
      BY <2>3, <3>2, OverStays, OthersStay
  <2> QED
    BY <2>1, <2>2, <2>3, <2>4
<1>3. CASE InsertPassword(c)
  BY <1>3, WriteStep, NoUserAssumption DEF Issue, Go, InsertPassword, Link, Create
<1>4. CASE Link(c) \/ Create(c)
  <2>1. PICK u \in Calls, row \in User :
               /\ Issue(c, u) /\ users' = [users EXCEPT ![u] = row]
               /\ row.email = EmailOf(c) /\ row.googleId = input[c].sub
    BY <1>4, WriteStep DEF Go, InsertPassword, Link, Create
  <2>2. input[c].kind = "google" /\ input[c].valid
    BY <1>4 DEF Link, Create, PhaseInv
  <2>3. /\ token'[c] = u /\ users'[u] = row /\ users'[u] # None
        /\ EmailOf(c)' = EmailOf(c) /\ input' = input
    BY <2>1, NoUserAssumption, OverStays DEF Issue
  <2>4. Vouched(input[c].sub, u)'
    BY <2>1, <2>2, <2>3 DEF Vouched, HasToken
  <2> QED
    BY <2>1, <2>2, <2>3, <2>4
<1> QED
  BY <1>1, <1>2, <1>3, <1>4 DEF Step

LEMMA EarnedStep ==
  ASSUME AccountsTypeOK, PhaseInv, RowInv, TokenIsEarned, NEW c \in Calls, Step(c)
  PROVE  TokenIsEarned'
<1> SUFFICES ASSUME NEW d \in Calls, pc'[d] = "token"
             PROVE  /\ users'[token'[d]] # None
                    /\ input'[d].kind # "google" =>
                         /\ users'[token'[d]].email = EmailOf(d)'
                         /\ users'[token'[d]].passwordHash = input'[d].password
                    /\ input'[d].kind = "google" => Vouched(input[d].sub, token[d])'
  BY DEF TokenIsEarned
<1>1. input' = input /\ EmailOf(d)' = EmailOf(d)
  BY OthersStay, OverStays
<1>2. CASE d = c
  BY <1>1, <1>2, OwnToken
<1>3. CASE d # c
  <2> DEFINE u == token[d]
  <2>1. pc[d] = "token" /\ token'[d] = u
    BY <1>3, OthersStay
  <2>2. /\ users[u] # None
        /\ input[d].kind # "google" => /\ users[u].email = EmailOf(d)
                                       /\ users[u].passwordHash = input[d].password
        /\ input[d].kind = "google" => Vouched(input[d].sub, u)
    BY <2>1 DEF TokenIsEarned
  <2>3. u \in Calls
    BY <2>1 DEF PhaseInv
  <2> QED
    BY <1>1, <2>1, <2>2, <2>3, RowsStay, OverStays
<1> QED
  BY <1>2, <1>3
LEMMA LinkStep ==
  ASSUME AccountsTypeOK, PhaseInv, RowInv, TokenIsEarned, LinkInv, NEW c \in Calls, Step(c)
  PROVE  LinkInv'
<1> SUFFICES ASSUME NEW d \in Calls, HasToken(d, "google")'
             PROVE  \/ users'[token'[d]].googleId = input'[d].sub
                    \/ \E r \in Calls : /\ HasToken(r, "google")' /\ input'[r].sub # input'[d].sub
                                        /\ token'[r] = token'[d]
  BY DEF LinkInv
<1>1. input' = input
  BY OthersStay
<1>2. CASE d = c
  BY <1>1, <1>2, OwnToken DEF HasToken
<1>3. CASE d # c
  <2> DEFINE u == token[d]
  <2>1. HasToken(d, "google") /\ token'[d] = u /\ u \in Calls /\ users[u] # None
    BY <1>1, <1>3, OthersStay DEF HasToken, PhaseInv, TokenIsEarned
  <2>2. CASE users[u].googleId = input[d].sub /\ users'[u].googleId = users[u].googleId
    BY <1>1, <2>1, <2>2
  <2>3. CASE users[u].googleId = input[d].sub /\ users'[u].googleId # users[u].googleId
    <3>1. HasToken(c, "google")' /\ input'[c].sub # input'[d].sub /\ token'[c] = token'[d]
      BY <1>1, <2>1, <2>3, RowsStay DEF HasToken
    <3> QED
      BY <3>1
  <2>4. ASSUME NEW r \in Calls, HasToken(r, "google"), input[r].sub # input[d].sub, token[r] = u
        PROVE  HasToken(r, "google")' /\ input'[r].sub # input'[d].sub /\ token'[r] = token'[d]
    BY <1>1, <2>1, <2>4, OverStays DEF HasToken, Over
  <2> QED
    BY <2>1, <2>2, <2>3, <2>4 DEF LinkInv
<1> QED
  BY <1>2, <1>3

\* Who the rows that a handler looks up belong to, after a step of c.
LEMMA LookUpsStay ==
  ASSUME AccountsTypeOK, PhaseInv, RowInv, NEW c \in Calls, Step(c)
  PROVE  /\ \A e : ByEmail(e)' \subseteq ByEmail(e) \cup {c}
         /\ \A g : g # None => \A u \in ByGoogleId(g)' :
              u \in ByGoogleId(g) \/ (HasToken(c, "google")' /\ input[c].sub = g)
<1>1. ASSUME NEW e, NEW u \in ByEmail(e)' PROVE u \in ByEmail(e) \cup {c}
  BY <1>1, RowsStay DEF ByEmail, Rows
<1>2. ASSUME NEW g, g # None, NEW u \in ByGoogleId(g)'
      PROVE  u \in ByGoogleId(g) \/ (HasToken(c, "google")' /\ input[c].sub = g)
  <2>1. u \in Calls /\ users'[u] # None /\ users'[u].googleId = g
    BY <1>2 DEF ByGoogleId, Rows
  <2>2. input' = input
    BY OthersStay
  <2>3. CASE users[u] # None /\ users'[u].googleId = users[u].googleId
    BY <2>1, <2>3 DEF ByGoogleId, Rows
  <2>4. CASE users[u] # None /\ users'[u].googleId # users[u].googleId
    BY <2>1, <2>2, <2>4, RowsStay DEF HasToken
  <2>5. CASE users[u] = None
    BY <1>2, <2>1, <2>2, <2>5, RowsStay DEF HasToken
  <2> QED
    BY <2>3, <2>4, <2>5
<1> QED
  BY <1>1, <1>2

LEMMA OverlapStep ==
  ASSUME AccountsTypeOK, PhaseInv, RowInv, OverlapInv, NEW c \in Calls, Step(c)
  PROVE  OverlapInv'
<1> SUFFICES ASSUME NEW d \in Calls
             PROVE  /\ \A e \in saw'[d] : pc'[e] \in Over
                    /\ pc'[d] \in {"hashing", "creating"} =>
                         \A u \in ByEmail(EmailOf(d))' : u \notin saw'[d]
                    /\ pc'[d] \in {"unlinked", "linking", "creating"} =>
                         \A u \in ByGoogleId(input[d].sub)' : \E r \in Calls \ saw'[d] :
                           HasToken(r, "google")' /\ input'[r].sub = input'[d].sub
  BY DEF OverlapInv
<1>1. /\ input' = input /\ EmailOf(d)' = EmailOf(d)
      /\ pc[c] \notin Over
      /\ \A e \in Calls : pc[e] \in Over => pc'[e] = pc[e]
  BY OthersStay, OverStays
<1>2. CASE d # c
  <2>1. pc'[d] = pc[d] /\ saw'[d] = saw[d] /\ saw[d] \subseteq Calls /\ c \notin saw[d]
    BY <1>1, <1>2, OthersStay DEF OverlapInv, AccountsTypeOK
  <2>2. \A e \in saw'[d] : pc'[e] \in Over
    BY <1>1, <2>1 DEF OverlapInv
  <2>3. ASSUME pc'[d] \in {"hashing", "creating"}
        PROVE  \A u \in ByEmail(EmailOf(d))' : u \notin saw'[d]
    <3>1. ByEmail(EmailOf(d))' \subseteq ByEmail(EmailOf(d)) \cup {c}
      BY <1>1, LookUpsStay
    <3> QED
      BY <2>1, <2>3, <3>1 DEF OverlapInv
  <2>4. ASSUME pc'[d] \in {"unlinked", "linking", "creating"},
               NEW u \in ByGoogleId(input[d].sub)'
        PROVE  \E r \in Calls \ saw'[d] :
                 HasToken(r, "google")' /\ input'[r].sub = input'[d].sub
    <3>1. input[d].sub # None
      BY <2>1, <2>4, NoneAssumption DEF PhaseInv, AccountsTypeOK, Input
    <3>2. CASE u \in ByGoogleId(input[d].sub)
      <4>1. PICK r \in Calls \ saw[d] : HasToken(r, "google") /\ input[r].sub = input[d].sub
        BY <2>1, <2>4, <3>2 DEF OverlapInv
      <4> QED
        BY <1>1, <2>1, <4>1, OverStays
    <3>3. CASE HasToken(c, "google")' /\ input[c].sub = input[d].sub
      BY <1>1, <2>1, <3>3
    <3> QED
      BY <1>1, <3>1, <3>2, <3>3, LookUpsStay
  <2> QED
    BY <2>2, <2>3, <2>4
<1>3. CASE d = c
  <2> USE DEF AccountsTypeOK
  <2>1. CASE Register(c)
    <3>1. /\ saw'[c] = Finished /\ users' = users
          /\ pc'[c] \in {"refused", "hashing"}
          /\ pc'[c] = "hashing" => ByEmail(EmailOf(c)) = {}
      BY <2>1, RegisterStep DEF Start
    <3>2. ByEmail(EmailOf(c))' = ByEmail(EmailOf(c))
      BY <1>1, <1>3, <3>1 DEF ByEmail, Rows
    <3> QED
      BY <1>1, <1>3, <3>1, <3>2 DEF Finished
  <2>2. CASE Login(c) \/ Google(c)
    <3>1. /\ saw'[c] = Finished /\ users' = users
          /\ pc'[c] \in {"refused", "token", "unlinked"}
          /\ pc'[c] = "unlinked" => ByGoogleId(input[c].sub) = {}
      <4>1. PICK p \in {"refused", "token", "unlinked"}, u \in Calls \cup {None} :
              Start(c, p, u) /\ (p = "unlinked" => ByGoogleId(input[c].sub) = {})
        BY <2>2, LookUpStep
      <4>2. users' = users
        BY <2>2, LookUpStep
      <4> QED
        BY <4>1, <4>2 DEF Start
    <3>2. ByGoogleId(input[c].sub)' = ByGoogleId(input[c].sub)
      BY <1>1, <3>1 DEF ByGoogleId, Rows
    <3> QED
      BY <1>1, <1>3, <3>1, <3>2 DEF Finished
  <2>3. CASE FindEmail(c)
    <3>1. /\ pc[c] = "unlinked" /\ users' = users /\ saw' = saw
          /\ pc'[c] \in {"linking", "creating"}
          /\ pc'[c] = "creating" => ByEmail(EmailOf(c)) = {}
      BY <2>3, FindStep DEF Go
    <3>2. /\ ByGoogleId(input[c].sub)' = ByGoogleId(input[c].sub)
          /\ ByEmail(EmailOf(c))' = ByEmail(EmailOf(c))
      BY <1>1, <1>3, <3>1 DEF ByGoogleId, ByEmail, Rows
    <3>3. ASSUME NEW u \in ByGoogleId(input[c].sub)'
          PROVE  \E r \in Calls \ saw'[c] :
                   HasToken(r, "google")' /\ input'[r].sub = input'[c].sub
      <4>1. PICK r \in Calls \ saw[c] : HasToken(r, "google") /\ input[r].sub = input[c].sub
        BY <3>1, <3>2, <3>3 DEF OverlapInv
      <4> QED
        BY <1>1, <3>1, <4>1, OverStays
    <3>4. \A e \in saw'[c] : pc'[e] \in Over
      BY <1>1, <3>1 DEF OverlapInv
    <3> QED
      BY <1>3, <3>1, <3>2, <3>3, <3>4
  <2>4. CASE InsertPassword(c) \/ Link(c) \/ Create(c)
    <3>1. saw' = saw /\ pc'[c] \in {"failed", "token"}
      BY <2>4, WriteStep DEF Go, Issue
    <3>2. \A e \in saw'[c] : pc'[e] \in Over
      BY <1>1, <3>1 DEF OverlapInv
    <3> QED
      BY <1>3, <3>1, <3>2
  <2> QED
    BY <2>1, <2>2, <2>3, <2>4 DEF Step
<1> QED
  BY <1>2, <1>3

LEMMA FailureStep ==
  ASSUME AccountsTypeOK, PhaseInv, RowInv, OverlapInv, FailureMeansOverlap, NEW c \in Calls, Step(c)
  PROVE  FailureMeansOverlap'
<1> SUFFICES ASSUME NEW d \in Calls, pc'[d] = "failed"
             PROVE  \E r \in Calls \ saw'[d] : r # d /\ pc'[r] = "token" /\ Kin(d, r)'
  BY DEF FailureMeansOverlap
<1>1. /\ \A e \in Calls : pc[e] \in Over => pc'[e] = pc[e] /\ e # c
      /\ \A a, b \in Calls : Kin(a, b) => Kin(a, b)'
  BY OthersStay, OverStays DEF Kin
<1>2. CASE d # c
  <2>1. pc[d] = "failed" /\ saw'[d] = saw[d]
    BY <1>2, OthersStay
  <2>2. PICK r \in Calls \ saw[d] : r # d /\ pc[r] = "token" /\ Kin(d, r)
    BY <2>1 DEF FailureMeansOverlap
  <2> QED
    BY <1>1, <2>1, <2>2 DEF Over
<1>3. CASE d = c
  <2>1. \E r \in Calls \ saw[c] : pc[r] = "token" /\ Kin(c, r)
    <3>1. ASSUME pc[c] \in {"hashing", "creating"}, ByEmail(EmailOf(c)) # {}
          PROVE  \E r \in Calls \ saw[c] : pc[r] = "token" /\ Kin(c, r)
      <4>1. PICK r \in Calls : r \in ByEmail(EmailOf(c))
        BY <3>1 DEF ByEmail, Rows
      <4>2. pc[r] = "token" /\ EmailOf(r) = EmailOf(c) /\ r \notin saw[c]
        BY <3>1, <4>1 DEF ByEmail, Rows, RowInv, OverlapInv
      <4> QED
        BY <4>2 DEF Kin
    <3>2. ASSUME pc[c] \in {"linking", "creating"}, ByGoogleId(input[c].sub) # {}
          PROVE  \E r \in Calls \ saw[c] : pc[r] = "token" /\ Kin(c, r)
      <4>1. PICK r \in Calls \ saw[c] : HasToken(r, "google") /\ input[r].sub = input[c].sub
        BY <3>2 DEF OverlapInv
      <4>2. input[c].sub # None
        BY <3>2, NoneAssumption DEF PhaseInv, AccountsTypeOK, Input
      <4> QED
        BY <4>1, <4>2 DEF HasToken, Kin
    <3>3. CASE Register(c) \/ Login(c) \/ Google(c) \/ FindEmail(c)
      <4>1. pc'[c] # "failed"
        <5>1. CASE Register(c)
          BY <5>1, RegisterStep DEF Start, AccountsTypeOK
        <5>2. CASE Login(c) \/ Google(c)
          BY <5>2, LookUpStep DEF Start, AccountsTypeOK
        <5>3. CASE FindEmail(c)
          BY <5>3, FindStep DEF Go, AccountsTypeOK
        <5> QED
          BY <3>3, <5>1, <5>2, <5>3
      <4> QED
        BY <1>3, <4>1
    <3>4. CASE InsertPassword(c)
      BY <1>3, <3>1, <3>4 DEF InsertPassword, Issue, AccountsTypeOK
    <3>5. CASE Link(c)
      BY <1>3, <3>2, <3>5 DEF Link, Issue, AccountsTypeOK
    <3>6. CASE Create(c)
      BY <1>3, <3>1, <3>2, <3>6 DEF Create, Issue, AccountsTypeOK
    <3> QED
      BY <3>3, <3>4, <3>5, <3>6 DEF Step
  <2>2. PICK r \in Calls \ saw[c] : pc[r] = "token" /\ Kin(c, r)
    BY <2>1
  <2>3. saw'[c] = saw[c]
    BY <1>3, RegisterStep, LookUpStep, FindStep, WriteStep DEF Step, Start, Go, Issue, AccountsTypeOK
  <2> QED
    BY <1>1, <1>3, <2>2, <2>3 DEF Over
<1> QED
  BY <1>2, <1>3

-----------------------------------------------------------------------------
(* The theorems *)

LEMMA InitIInv == AccountsInit => IInv
  BY DEF AccountsInit, IInv, AccountsTypeOK, PhaseInv, RowInv, UniqueInv, TokenIsEarned, LinkInv, OverlapInv,
         FailureMeansOverlap, Rows, HasToken, Phases

LEMMA StepIInv == IInv /\ [AccountsNext]_accountVars => IInv'
<1> SUFFICES ASSUME IInv, [AccountsNext]_accountVars PROVE IInv'
  OBVIOUS
<1>1. ASSUME NEW c \in Calls, Step(c) PROVE IInv'
  BY <1>1, TypeStep, PhaseStep, RowStep, UniqueStep, EarnedStep, LinkStep, OverlapStep,
     FailureStep DEF IInv
<1>2. CASE UNCHANGED accountVars
  BY <1>2 DEF accountVars, IInv, AccountsTypeOK, PhaseInv, RowInv, UniqueInv, TokenIsEarned, LinkInv,
              OverlapInv, FailureMeansOverlap, Rows, HasToken, EmailOf, Vouched, ByEmail,
              ByGoogleId, Kin
<1> QED
  BY <1>1, <1>2 DEF AccountsNext, Step

\* Two tokens of one identity for two accounts: in one of them, another
\* identity took its place.
LEMMA LinkedOnce == IInv => SplitOnlyByRelink
<1> SUFFICES ASSUME IInv, NEW c \in Calls, NEW d \in Calls,
                    HasToken(c, "google"), HasToken(d, "google"),
                    input[c].sub = input[d].sub, token[c] # token[d]
             PROVE  \E r \in Calls : /\ HasToken(r, "google") /\ input[r].sub # input[c].sub
                                     /\ token[r] \in {token[c], token[d]}
  BY DEF SplitOnlyByRelink
<1>1. token[c] \in Rows /\ token[d] \in Rows
  BY DEF IInv, PhaseInv, TokenIsEarned, HasToken, Rows
<1>2. input[c].sub # None
  BY NoneAssumption DEF IInv, AccountsTypeOK, HasToken, Input
<1>3. ~(users[token[c]].googleId = input[c].sub /\ users[token[d]].googleId = input[d].sub)
  BY <1>1, <1>2 DEF IInv, UniqueInv
<1> QED
  BY <1>3 DEF IInv, LinkInv

\* Every state a handler, a row or a token can be in is a state of its type:
\* in particular, the table holds only normalized emails.
THEOREM TypeCorrect == AccountsSpec => []AccountsTypeOK
<1>1. IInv => AccountsTypeOK
  BY DEF IInv
<1> QED
  BY <1>1, InitIInv, StepIInv, PTL DEF AccountsSpec

\* No interleaving of registrations and logins gives anyone a token for an
\* account that neither a password nor Google vouched for.
THEOREM TokensAreEarned == AccountsSpec => []TokenIsEarned
<1>1. IInv => TokenIsEarned
  BY DEF IInv
<1> QED
  BY <1>1, InitIInv, StepIInv, PTL DEF AccountsSpec

\* A Google identity reaches one account, unless another identity with the
\* same email replaced it in the account it was linked to.
THEOREM IdentitiesSplitOnlyByRelink == AccountsSpec => []SplitOnlyByRelink
  BY LinkedOnce, InitIInv, StepIInv, PTL DEF AccountsSpec

\* The 500 of a unique column is only ever the end of a race.
THEOREM FailuresAreRaces == AccountsSpec => []FailureMeansOverlap
<1>1. IInv => FailureMeansOverlap
  BY DEF IInv
<1> QED
  BY <1>1, InitIInv, StepIInv, PTL DEF AccountsSpec
=============================================================================
