------------------------------ MODULE Accounts ------------------------------
(***************************************************************************)
(* Accounts: registration, password login and Google login of AuthService, *)
(* any number of them at once, against the unique columns of the users     *)
(* table.  A step is a query with what the handler does up to the next     *)
(* one.  Each call starts with an input of its own and ends with a token,  *)
(* with a refusal (400 or 401), or failed on a unique column (500).        *)
(***************************************************************************)
EXTENDS Naturals, FiniteSets

CONSTANTS Calls, Typed, Passwords, Subs,
          Normal,  \* what normalizeEmail makes of an email as typed
          None     \* null in a column, no row, no token

Emails == {Normal[e] : e \in Typed}

ASSUME NormalAssumption == Normal \in [Typed -> Typed]
ASSUME NormalTwiceAssumption == \A e \in Emails : Normal[e] = e
ASSUME NoneAssumption == None \notin Calls \cup Typed \cup Passwords \cup Subs

\* A user row is named after the call that created it.
User == [email : Emails, passwordHash : Passwords \cup {None}, googleId : Subs \cup {None}]
ASSUME NoUserAssumption == None \notin User

\* `valid`: credentials that pass validateCredentials, or an ID token Google
\* signed for this site, with a verified email.
Input == [kind : {"register", "login"}, email : Typed, password : Passwords,
          sub : {None}, valid : BOOLEAN]
    \cup [kind : {"google"}, email : Typed, password : {None}, sub : Subs, valid : BOOLEAN]

VARIABLES users,  \* the users table
          input,  \* per call of POST /auth/register, /auth/login, /auth/google
          pc, found, token,  \* where it is, the row found by email, the user the token is for
          saw     \* history: the calls that were over before it started

accountVars == <<users, input, pc, found, token, saw>>

Phases == {"idle", "hashing", "unlinked", "linking", "creating"}
Over == {"token", "refused", "failed"}

AccountsInit ==
  /\ users = [u \in Calls |-> None]
  /\ input \in [Calls -> Input]
  /\ pc = [c \in Calls |-> "idle"]
  /\ found = [c \in Calls |-> None]
  /\ token = [c \in Calls |-> None]
  /\ saw = [c \in Calls |-> {}]

EmailOf(c) == Normal[input[c].email]
Rows == {u \in Calls : users[u] # None}
ByEmail(e) == {u \in Rows : users[u].email = e}
ByGoogleId(g) == {u \in Rows : users[u].googleId = g}

\* How a handler goes on: the next query, or the answer.
Go(c, p) == pc' = [pc EXCEPT ![c] = p] /\ UNCHANGED <<input, found, token, saw>>
Issue(c, u) ==
  /\ pc' = [pc EXCEPT ![c] = "token"] /\ token' = [token EXCEPT ![c] = u]
  /\ UNCHANGED <<input, found, saw>>

Finished == {d \in Calls : pc[d] \in Over}
Start(c, p, u) ==
  /\ pc' = [pc EXCEPT ![c] = p] /\ token' = [token EXCEPT ![c] = u]
  /\ saw' = [saw EXCEPT ![c] = Finished]
  /\ UNCHANGED <<input, found>>

-----------------------------------------------------------------------------
RegisterUnchecked(c) ==
  /\ pc[c] = "idle" /\ input[c].kind = "register"
  /\ Start(c, IF input[c].valid THEN "hashing" ELSE "refused", None)
  /\ UNCHANGED users

\* register, up to the password hash.
Register(c) ==
  /\ pc[c] = "idle" /\ input[c].kind = "register"
  /\ Start(c, IF input[c].valid /\ ByEmail(EmailOf(c)) = {} THEN "hashing" ELSE "refused",
           None)
  /\ UNCHANGED users

InsertAsTyped(c) ==
  /\ pc[c] = "hashing"
  /\ IF ByEmail(input[c].email) = {}
     THEN /\ users' = [users EXCEPT ![c] =
               [email |-> input[c].email, passwordHash |-> input[c].password,
                googleId |-> None]]
          /\ Issue(c, c)
     ELSE Go(c, "failed") /\ UNCHANGED users

\* prisma.user.create; the column email is unique.
InsertPassword(c) ==
  /\ pc[c] = "hashing"
  /\ IF ByEmail(EmailOf(c)) = {}
     THEN /\ users' = [users EXCEPT ![c] =
               [email |-> EmailOf(c), passwordHash |-> input[c].password,
                googleId |-> None]]
          /\ Issue(c, c)
     ELSE Go(c, "failed") /\ UNCHANGED users

\* login: no account, no password, a wrong one: all the same.
Login(c) ==
  /\ pc[c] = "idle" /\ input[c].kind = "login"
  /\ LET match == {u \in ByEmail(EmailOf(c)) : users[u].passwordHash = input[c].password}
     IN  \/ match = {} /\ Start(c, "refused", None)
         \/ \E u \in match : Start(c, "token", u)
  /\ UNCHANGED users

GoogleUnverified(c) ==
  /\ pc[c] = "idle" /\ input[c].kind = "google"
  /\ LET match == ByGoogleId(input[c].sub)
     IN  \/ match = {} /\ Start(c, "unlinked", None)
         \/ \E u \in match : Start(c, "token", u)
  /\ UNCHANGED users

\* loginWithGoogle, up to the look-up by googleId.
Google(c) ==
  /\ pc[c] = "idle" /\ input[c].kind = "google"
  /\ LET match == ByGoogleId(input[c].sub)
     IN  \/ ~input[c].valid /\ Start(c, "refused", None)
         \/ input[c].valid /\ match = {} /\ Start(c, "unlinked", None)
         \/ input[c].valid /\ \E u \in match : Start(c, "token", u)
  /\ UNCHANGED users

\* The look-up by email; a row that has a googleId already is taken as well.
FindEmail(c) ==
  /\ pc[c] = "unlinked"
  /\ LET match == ByEmail(EmailOf(c))
     IN  \/ match = {} /\ Go(c, "creating")
         \/ \E u \in match :
              /\ pc' = [pc EXCEPT ![c] = "linking"] /\ found' = [found EXCEPT ![c] = u]
              /\ UNCHANGED <<input, token, saw>>
  /\ UNCHANGED users

\* prisma.user.update; the column googleId is unique.
Link(c) ==
  /\ pc[c] = "linking"
  /\ IF ByGoogleId(input[c].sub) \subseteq {found[c]}
     THEN /\ users' = [users EXCEPT ![found[c]].googleId = input[c].sub]
          /\ Issue(c, found[c])
     ELSE Go(c, "failed") /\ UNCHANGED users

CreateUnlinked(c) ==
  /\ pc[c] = "creating"
  /\ IF ByEmail(EmailOf(c)) = {}
     THEN /\ users' = [users EXCEPT ![c] =
               [email |-> EmailOf(c), passwordHash |-> None, googleId |-> None]]
          /\ Issue(c, c)
     ELSE Go(c, "failed") /\ UNCHANGED users

Create(c) ==
  /\ pc[c] = "creating"
  /\ IF ByEmail(EmailOf(c)) = {} /\ ByGoogleId(input[c].sub) = {}
     THEN /\ users' = [users EXCEPT ![c] =
               [email |-> EmailOf(c), passwordHash |-> None, googleId |-> input[c].sub]]
          /\ Issue(c, c)
     ELSE Go(c, "failed") /\ UNCHANGED users

AccountsNext ==
  \E c \in Calls : \/ Register(c) \/ InsertPassword(c) \/ Login(c)
                   \/ Google(c) \/ FindEmail(c) \/ Link(c) \/ Create(c)

AccountsSpec == AccountsInit /\ [][AccountsNext]_accountVars

-----------------------------------------------------------------------------
AccountsTypeOK ==
  /\ users \in [Calls -> User \cup {None}]
  /\ input \in [Calls -> Input]
  /\ pc \in [Calls -> Phases \cup Over]
  /\ found \in [Calls -> Calls \cup {None}]
  /\ token \in [Calls -> Calls \cup {None}]
  /\ saw \in [Calls -> SUBSET Calls]

HasToken(c, kind) == pc[c] = "token" /\ input[c].kind = kind

(***************************************************************************)
(* A token is for an account its caller has a claim to, whatever other     *)
(* calls did in between: with a password, the account of that email and    *)
(* password; with Google, an account whose email Google has vouched for,   *)
(* in this or in an earlier login of the same Google identity.             *)
(***************************************************************************)
Vouched(g, u) ==
  \E d \in Calls : /\ HasToken(d, "google") /\ token[d] = u
                   /\ input[d].sub = g /\ input[d].valid
                   /\ EmailOf(d) = users[u].email

TokenIsEarned ==
  \A c \in Calls : pc[c] = "token" =>
    LET u == token[c]
    IN  /\ users[u] # None
        /\ input[c].kind # "google" =>
             /\ users[u].email = EmailOf(c)
             /\ users[u].passwordHash = input[c].password
        /\ input[c].kind = "google" => Vouched(input[c].sub, u)

(***************************************************************************)
(* A Google identity always reaches the same account, unless another       *)
(* identity with that account's email has taken its googleId over: the     *)
(* update of loginWithGoogle replaces whatever identity is there.          *)
(***************************************************************************)
SplitOnlyByRelink ==
  \A c, d \in Calls :
    /\ HasToken(c, "google") /\ HasToken(d, "google")
    /\ input[c].sub = input[d].sub /\ token[c] # token[d]
    => \E r \in Calls : /\ HasToken(r, "google")
                        /\ input[r].sub # input[c].sub
                        /\ token[r] \in {token[c], token[d]}

(***************************************************************************)
(* A call fails on a unique column (500) only if it overlapped with a call *)
(* for the same email or the same Google identity.  One call after the     *)
(* other always ends with a token or a refusal that says why.              *)
(***************************************************************************)
Kin(c, d) == EmailOf(c) = EmailOf(d) \/ (input[c].sub = input[d].sub /\ input[c].sub # None)

FailureMeansOverlap ==
  \A c \in Calls : pc[c] = "failed" =>
    \E d \in Calls \ saw[c] : d # c /\ pc[d] = "token" /\ Kin(c, d)
=============================================================================
