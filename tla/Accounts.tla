------------------------------ MODULE Accounts ------------------------------
(***************************************************************************)
(* login-service: Signup, Login, GoogleAuth and RefreshToken against the   *)
(* users and user_identities tables, and the refresh cookie with which the *)
(* api-gateway answers one browser.                                        *)
(*                                                                         *)
(* A handler is split at its statements to the database.  The two tables   *)
(* have UNIQUE (email), UNIQUE (provider, provider_subject) and UNIQUE     *)
(* (user_id, provider); rows are never deleted and an email never changes, *)
(* so a user is named by the email.  Requests that end in an error before  *)
(* they changed anything leave no trace.                                   *)
(***************************************************************************)
EXTENDS Naturals

CONSTANTS
  Emails,
  Subjects,   \* Google accounts (the sub claim)
  MailOf,     \* MailOf[g]: the emails Google may confirm for g over time
  Secrets,    \* passwords
  Requests,   \* handlers that run at the same time
  None,
  MaxFaults   \* bound: database errors and crashes of login-service

ASSUME AccountsAssumption ==
  /\ MailOf \in [Subjects -> SUBSET Emails]
  /\ None \notin Emails \cup Subjects \cup Secrets
  /\ "empty" \notin Secrets
  /\ MaxFaults \in Nat

VARIABLES
  users,     \* users[e]: None, or the row's password hash ("empty" for none)
  identity,  \* identity[e]: the Google subject linked to the user
  req,       \* what each handler is doing
  cookie,    \* the browser's refresh token: its user, or None
  sessions,  \* history: tokens issued, with what they were issued for
  vouched,   \* history: <<g, e>>, Google confirmed e as the email of g
  faults

vars == <<users, identity, req, cookie, sessions, vouched, faults>>

----------------------------------------------------------------------------
(* Data *)

Idle == [pc |-> "idle"]
Signing == [pc : {"create"}, how : {"password"}, key : Secrets, email : Emails]
Linking == [pc : {"byEmail", "create", "link", "reload"}, how : {"google"},
            key : Subjects, email : Emails]
Answering == [pc : {"answer"}, user : Emails]
Refreshing == [pc : {"refresh"}, user : Emails]

Session == [how : {"password"}, key : Secrets, user : Emails]
             \cup [how : {"google"}, key : Subjects, user : Emails]

Answer(r, e) == req' = [req EXCEPT ![r] = [pc |-> "answer", user |-> e]]

\* Tokens are signed for user e, and the response is on its way.
GenerateTokens(r, h, k, e) ==
  /\ sessions' = sessions \cup {[how |-> h, key |-> k, user |-> e]}
  /\ Answer(r, e)

Init ==
  /\ users = [e \in Emails |-> None]
  /\ identity = [e \in Emails |-> None]
  /\ req = [r \in Requests |-> Idle]
  /\ cookie = None
  /\ sessions = {}
  /\ vouched = {}
  /\ faults = 0

----------------------------------------------------------------------------
(* AuthService *)

\* Signup's GetByEmail finds no user; otherwise the email exists already.
Signup(r, e, x) ==
  /\ req[r] = Idle
  /\ users[e] = None
  /\ req' = [req EXCEPT ![r] = [pc |-> "create", how |-> "password",
                                key |-> x, email |-> e]]
  /\ UNCHANGED <<users, identity, cookie, sessions, vouched, faults>>

Hash(q) == IF q.how = "password" THEN q.key ELSE "empty"

\* Mutant of Create: the insert overwrites the row that was there first.
CreateOverwrites(r) ==
  /\ req[r].pc = "create"
  /\ LET q == req[r]
     IN  /\ users' = [users EXCEPT ![q.email] = Hash(q)]
         /\ IF q.how = "password"
              THEN GenerateTokens(r, q.how, q.key, q.email)
              ELSE /\ req' = [req EXCEPT ![r].pc = "link"]
                   /\ UNCHANGED sessions
  /\ UNCHANGED <<identity, cookie, vouched, faults>>

\* INSERT INTO users; another handler may have been first, and then the
\* request fails.  GoogleAuth goes on to link the new row.
Create(r) ==
  /\ req[r].pc = "create"
  /\ LET q == req[r]
     IN  IF users[q.email] # None
           THEN /\ req' = [req EXCEPT ![r] = Idle]
                /\ UNCHANGED <<users, sessions>>
           ELSE /\ users' = [users EXCEPT ![q.email] = Hash(q)]
                /\ IF q.how = "password"
                     THEN GenerateTokens(r, q.how, q.key, q.email)
                     ELSE /\ req' = [req EXCEPT ![r].pc = "link"]
                          /\ UNCHANGED sessions
  /\ UNCHANGED <<identity, cookie, vouched, faults>>

\* CompareHashAndPassword never accepts an empty hash.
Login(r, e, x) ==
  /\ req[r] = Idle
  /\ users[e] = x
  /\ GenerateTokens(r, "password", x, e)
  /\ UNCHANGED <<users, identity, cookie, vouched, faults>>

\* Mutant of GetByGoogleSub: the subject is not compared.
AnyLinked(g) == {e \in Emails : identity[e] # None}

GetByGoogleSub(g) == {e \in Emails : identity[e] = g}

\* Google's tokeninfo answers for a token of g: issued for this client, not
\* expired, and with a verified email, which may change over time.
validateGoogleIDToken(g) == MailOf[g]

\* The id token is valid and confirms e as the email of g.
GoogleAuth(r, g, e) ==
  /\ req[r] = Idle
  /\ vouched' = vouched \cup {<<g, e>>}
  /\ \/ \E u \in GetByGoogleSub(g) : GenerateTokens(r, "google", g, u)
     \/ /\ GetByGoogleSub(g) = {}
        /\ req' = [req EXCEPT ![r] = [pc |-> "byEmail", how |-> "google",
                                      key |-> g, email |-> e]]
        /\ UNCHANGED sessions
  /\ UNCHANGED <<users, identity, cookie, faults>>

\* Mutant of GetByEmail: an existing user is not looked for.
GetByEmailNever(r) ==
  /\ req[r].pc = "byEmail"
  /\ req' = [req EXCEPT ![r].pc = "create"]
  /\ UNCHANGED <<users, identity, cookie, sessions, vouched, faults>>

GetByEmail(r) ==
  /\ req[r].pc = "byEmail"
  /\ req' = [req EXCEPT ![r].pc = IF users[req[r].email] = None
                                    THEN "create" ELSE "link"]
  /\ UNCHANGED <<users, identity, cookie, sessions, vouched, faults>>

\* Mutant of LinkGoogleIdentity: the subject may be linked twice.
LinkTwice(r) ==
  /\ req[r].pc = "link"
  /\ identity' = [identity EXCEPT ![req[r].email] = req[r].key]
  /\ req' = [req EXCEPT ![r].pc = "reload"]
  /\ UNCHANGED <<users, cookie, sessions, vouched, faults>>

\* The upsert replaces the subject of this user; a subject that is linked to
\* another user violates UNIQUE (provider, provider_subject).
LinkGoogleIdentity(r) ==
  /\ req[r].pc = "link"
  /\ IF GetByGoogleSub(req[r].key) \subseteq {req[r].email}
       THEN /\ identity' = [identity EXCEPT ![req[r].email] = req[r].key]
            /\ req' = [req EXCEPT ![r].pc = "reload"]
       ELSE /\ req' = [req EXCEPT ![r] = Idle]
            /\ UNCHANGED identity
  /\ UNCHANGED <<users, cookie, sessions, vouched, faults>>

\* GetByID finds the row, and the tokens are made.
ReloadUser(r) ==
  /\ req[r].pc = "reload"
  /\ GenerateTokens(r, "google", req[r].key, req[r].email)
  /\ UNCHANGED <<users, identity, cookie, vouched, faults>>

\* A statement fails, or the process stops, between any two statements; what
\* was written stays.
RequestFails(r) ==
  /\ faults < MaxFaults
  /\ req[r].pc \in {"byEmail", "create", "link", "reload"}
  /\ req' = [req EXCEPT ![r] = Idle]
  /\ faults' = faults + 1
  /\ UNCHANGED <<users, identity, cookie, sessions, vouched>>

----------------------------------------------------------------------------
(* The cookie *)

\* The response sets the cookie; responses arrive in any order.
SetRefreshCookie(r) ==
  /\ req[r].pc = "answer"
  /\ cookie' = req[r].user
  /\ req' = [req EXCEPT ![r] = Idle]
  /\ UNCHANGED <<users, identity, sessions, vouched, faults>>

\* The browser sends the cookie it has.
HandleRefreshToken(r) ==
  /\ req[r] = Idle
  /\ cookie # None
  /\ req' = [req EXCEPT ![r] = [pc |-> "refresh", user |-> cookie]]
  /\ UNCHANGED <<users, identity, cookie, sessions, vouched, faults>>

\* GetByID of the token's user, which exists.
RefreshToken(r) ==
  /\ req[r].pc = "refresh"
  /\ users[req[r].user] # None
  /\ Answer(r, req[r].user)
  /\ UNCHANGED <<users, identity, cookie, sessions, vouched, faults>>

\* Any error, a failed query too, clears the cookie.
RefreshFails(r) ==
  /\ faults < MaxFaults
  /\ req[r].pc = "refresh"
  /\ cookie' = None
  /\ req' = [req EXCEPT ![r] = Idle]
  /\ faults' = faults + 1
  /\ UNCHANGED <<users, identity, sessions, vouched>>

HandleLogout ==
  /\ cookie # None
  /\ cookie' = None
  /\ UNCHANGED <<users, identity, req, sessions, vouched, faults>>

----------------------------------------------------------------------------

\* What a handler does after it was called.
Handle(r) ==
  \/ Create(r) \/ GetByEmail(r) \/ LinkGoogleIdentity(r) \/ ReloadUser(r)
  \/ RefreshToken(r) \/ SetRefreshCookie(r)

Next ==
  \/ \E r \in Requests :
       \/ \E e \in Emails, x \in Secrets : Signup(r, e, x) \/ Login(r, e, x)
       \/ \E g \in Subjects : \E e \in validateGoogleIDToken(g) :
            GoogleAuth(r, g, e)
       \/ Handle(r) \/ RequestFails(r) \/ RefreshFails(r)
       \/ HandleRefreshToken(r)
  \/ HandleLogout

Spec == Init /\ [][Next]_vars

\* Handlers go on, and somebody who signs in with Google tries again.
Fairness ==
  /\ \A r \in Requests : WF_vars(Handle(r))
  /\ \A g \in Subjects :
       SF_vars(\E r \in Requests, e \in validateGoogleIDToken(g) :
                 <<g, e>> \in vouched /\ GoogleAuth(r, g, e))

FairSpec == Spec /\ Fairness

----------------------------------------------------------------------------
(* Properties *)

\* Every variable has its type.
TypeOK ==
  /\ users \in [Emails -> Secrets \cup {None, "empty"}]
  /\ identity \in [Emails -> Subjects \cup {None}]
  /\ req \in [Requests -> {Idle} \cup Signing \cup Linking \cup Answering
                            \cup Refreshing]
  /\ cookie \in Emails \cup {None}
  /\ sessions \subseteq Session
  /\ vouched \subseteq Subjects \X Emails
  /\ faults \in 0..MaxFaults

\* A signup that was answered with a session keeps its account: whoever races
\* for the email, the password that was accepted is the one the row has.
PasswordIsKept ==
  \A s \in sessions : s.how = "password" => users[s.user] = s.key

\* Nobody is signed in as somebody else: a Google session is for a user whose
\* email Google confirmed for that very subject, also when the user is found by
\* a link made long before; and the cookie, through refreshes and answers that
\* come late, is of a user for whom a session was issued.
SessionIsVouched ==
  /\ \A s \in sessions : s.how = "google" => <<s.key, s.user>> \in vouched
  /\ cookie # None => \E s \in sessions : s.user = cookie

\* One Google account does not end up in two user accounts, not even through
\* concurrent first sign-ins with two emails, unless another subject came with
\* the email of one of them.
SubjectKeepsAccount ==
  \A s, t \in sessions :
    /\ s.how = "google" /\ t.how = "google"
    /\ s.key = t.key
    /\ s.user # t.user
    => \E g \in Subjects \ {s.key} : <<g, s.user>> \in vouched
                                       \/ <<g, t.user>> \in vouched

\* What makes them inductive.  Google confirmed what is linked and what a
\* handler is about to link; a subject is linked to one user; somebody signed
\* in as the user of an answer or a refresh on its way; a subject is still
\* linked to the user it signed in as unless another one came with the email.
LinkIsVouched ==
  /\ \A e \in Emails : identity[e] # None => <<identity[e], e>> \in vouched
  /\ \A d, e \in Emails : identity[d] # None /\ identity[d] = identity[e] => d = e

StillLinked(g, e) ==
  identity[e] = g \/ \E h \in Subjects \ {g} : <<h, e>> \in vouched

RequestIsVouched ==
  \A r \in Requests :
    /\ req[r].pc \in {"byEmail", "create", "link", "reload"}
         /\ req[r].how = "google" => <<req[r].key, req[r].email>> \in vouched
    /\ req[r].pc = "reload" => StillLinked(req[r].key, req[r].email)
    /\ req[r].pc \in {"answer", "refresh"} =>
         \E s \in sessions : s.user = req[r].user

SessionIsLinked ==
  \A s \in sessions : s.how = "google" => StillLinked(s.key, s.user)

IndInv ==
  /\ TypeOK
  /\ PasswordIsKept
  /\ SessionIsVouched
  /\ LinkIsVouched
  /\ RequestIsVouched
  /\ SessionIsLinked

\* A sign-in with Google gets through in the end: a user row that was created
\* and not linked is found by its email and linked the next time.
GoogleGetsIn ==
  \A g \in Subjects :
    (\E e \in Emails : <<g, e>> \in vouched)
      ~> \E s \in sessions : s.how = "google" /\ s.key = g
=============================================================================
