--------------------------- MODULE AccountsProofs ---------------------------
(***************************************************************************)
(* Proofs about Accounts, for any emails, Google subjects, passwords and   *)
(* concurrent requests: who is signed in proved to be that user, and one   *)
(* Google account stays with one user.                                     *)
(***************************************************************************)
EXTENDS Accounts, TLAPS

USE AccountsAssumption

----------------------------------------------------------------------------
(* Types *)

\* What a request holds at each of its steps.
LEMMA RequestType ==
  ASSUME TypeOK, NEW r \in Requests
  PROVE  /\ req[r].pc = "create" => req[r] \in Signing \cup Linking
         /\ req[r].pc \in {"byEmail", "link", "reload"} => req[r] \in Linking
         /\ req[r].pc = "answer" => req[r] \in Answering
         /\ req[r].pc = "refresh" => req[r] \in Refreshing
BY DEF TypeOK, Idle, Signing, Linking, Answering, Refreshing

\* What a session records.
LEMMA SessionType ==
  ASSUME TypeOK, NEW s \in sessions
  PROVE  /\ s.user \in Emails
         /\ s.how = "password" => s.key \in Secrets
         /\ s.how = "google" => s.key \in Subjects
BY DEF TypeOK, Session

LEMMA InitIndInv == Init => IndInv
BY DEF Init, IndInv, TypeOK, PasswordIsKept, SessionIsVouched, LinkIsVouched,
       RequestIsVouched, SessionIsLinked, Idle

----------------------------------------------------------------------------
(* What a step has to show *)

Holds(r) ==
  /\ req[r].pc \in {"byEmail", "create", "link", "reload"}
       /\ req[r].how = "google" => <<req[r].key, req[r].email>> \in vouched
  /\ req[r].pc = "reload" => StillLinked(req[r].key, req[r].email)
  /\ req[r].pc \in {"answer", "refresh"} =>
       \E s \in sessions : s.user = req[r].user

Sound(s) ==
  /\ s.how = "password" => users[s.user] = s.key
  /\ s.how = "google" => <<s.key, s.user>> \in vouched /\ StillLinked(s.key, s.user)

LinksStay ==
  \A g \in Subjects, e \in Emails : StillLinked(g, e) => StillLinked(g, e)'

LEMMA StepIndInv ==
  ASSUME IndInv, TypeOK', LinkIsVouched', LinksStay,
         vouched \subseteq vouched', sessions \subseteq sessions',
         \A e \in Emails : users'[e] = users[e] \/ users[e] = None,
         \A s \in sessions' \ sessions : Sound(s)',
         \A r \in Requests : req'[r] = req[r] \/ Holds(r)',
         cookie' = cookie \/ cookie' = None \/ \E s \in sessions' : s.user = cookie'
  PROVE  IndInv'
<1>0. TypeOK
  BY DEF IndInv
<1>1. \A s \in sessions : Sound(s)'
  <2> SUFFICES ASSUME NEW s \in sessions PROVE Sound(s)'
    OBVIOUS
  <2>1. s.how = "password" => users'[s.user] = s.key
    BY <1>0, SessionType DEF IndInv, PasswordIsKept
  <2>2. s.how = "google" => /\ <<s.key, s.user>> \in vouched'
                            /\ StillLinked(s.key, s.user)'
    BY <1>0, SessionType DEF IndInv, SessionIsVouched, SessionIsLinked, LinksStay
  <2> QED BY <2>1, <2>2 DEF Sound
<1>2. \A s \in sessions' : Sound(s)'
  BY <1>1
<1>3. PasswordIsKept' /\ SessionIsLinked'
  BY <1>2 DEF PasswordIsKept, SessionIsLinked, Sound
<1>4. SessionIsVouched'
  BY <1>2 DEF IndInv, SessionIsVouched, Sound
<1>5. ASSUME NEW r \in Requests, req'[r] = req[r]
      PROVE  Holds(r)'
  <2>1. req[r].pc \in {"byEmail", "create", "link", "reload"}
          /\ req[r].how = "google" => <<req[r].key, req[r].email>> \in vouched'
    BY DEF IndInv, RequestIsVouched
  <2>2. req[r].pc = "reload" => StillLinked(req[r].key, req[r].email)'
    <3> SUFFICES ASSUME req[r].pc = "reload"
                 PROVE  StillLinked(req[r].key, req[r].email)'
      OBVIOUS
    <3>1. req[r].key \in Subjects /\ req[r].email \in Emails
      BY <1>0, RequestType DEF Linking
    <3>2. StillLinked(req[r].key, req[r].email)
      BY DEF IndInv, RequestIsVouched
    <3> QED BY <1>5, <3>1, <3>2 DEF LinksStay, StillLinked
  <2>3. req[r].pc \in {"answer", "refresh"} =>
          \E s \in sessions' : s.user = req[r].user
    BY DEF IndInv, RequestIsVouched
  <2> QED BY <1>5, <2>1, <2>2, <2>3 DEF Holds, StillLinked
<1>6. RequestIsVouched'
  BY <1>5 DEF RequestIsVouched, Holds
<1> QED BY <1>3, <1>4, <1>6 DEF IndInv

\* Links stay when the table does.
LEMMA SameLinks ==
  ASSUME IndInv, identity' = identity, vouched \subseteq vouched'
  PROVE  LinkIsVouched' /\ LinksStay
BY DEF IndInv, LinkIsVouched, LinksStay, StillLinked

\* A step of request r that issues no session.
LEMMA QuietStep ==
  ASSUME IndInv, TypeOK', NEW r \in Requests,
         UNCHANGED <<identity, sessions>>,
         \A e \in Emails : users'[e] = users[e] \/ users[e] = None,
         vouched \subseteq vouched',
         \A q \in Requests \ {r} : req'[q] = req[q],
         Holds(r)',
         cookie' = cookie \/ cookie' = None \/ \E s \in sessions : s.user = cookie'
  PROVE  IndInv'
BY SameLinks, StepIndInv

\* A step of request r that issues a session.
LEMMA TokenStep ==
  ASSUME IndInv, TypeOK', NEW r \in Requests, NEW h, NEW k, NEW e \in Emails,
         GenerateTokens(r, h, k, e),
         UNCHANGED <<identity, cookie>>,
         \A x \in Emails : users'[x] = users[x] \/ users[x] = None,
         vouched \subseteq vouched',
         \/ h = "password" /\ users'[e] = k
         \/ h = "google" /\ <<k, e>> \in vouched' /\ StillLinked(k, e)
  PROVE  IndInv'
<1> DEFINE s == [how |-> h, key |-> k, user |-> e]
<1>0. TypeOK
  BY DEF IndInv
<1>1. /\ sessions' = sessions \cup {s}
      /\ \A q \in Requests \ {r} : req'[q] = req[q]
      /\ req'[r] = [pc |-> "answer", user |-> e]
  BY <1>0 DEF GenerateTokens, Answer, TypeOK
<1>2. LinkIsVouched' /\ LinksStay
  BY SameLinks
<1>3. Sound(s)'
  <2>1. h = "google" => StillLinked(k, e)'
    BY DEF StillLinked
  <2> QED BY <2>1 DEF Sound, StillLinked
<1>4. Holds(r)'
  <2>1. \E x \in sessions' : x.user = e
    <3>1. s \in sessions' /\ s.user = e
      BY <1>1
    <3> HIDE DEF s
    <3> QED BY <3>1
  <2>2. req'[r].pc = "answer" /\ req'[r].user = e
    BY <1>1
  <2> QED BY <2>1, <2>2 DEF Holds
<1> QED BY <1>1, <1>2, <1>3, <1>4, StepIndInv

----------------------------------------------------------------------------
(* The actions *)

LEMMA SignupStep ==
  ASSUME IndInv, NEW r \in Requests, NEW e \in Emails, NEW x \in Secrets,
         Signup(r, e, x)
  PROVE  IndInv'
<1>1. TypeOK'
  BY DEF IndInv, TypeOK, Signup, Signing
<1>2. Holds(r)' /\ \A q \in Requests \ {r} : req'[q] = req[q]
  BY DEF IndInv, TypeOK, Signup, Holds
<1> QED BY <1>1, <1>2, QuietStep DEF Signup

LEMMA LoginStep ==
  ASSUME IndInv, NEW r \in Requests, NEW e \in Emails, NEW x \in Secrets,
         Login(r, e, x)
  PROVE  IndInv'
<1>1. TypeOK'
  BY DEF IndInv, TypeOK, Login, GenerateTokens, Answer, Answering, Session
<1>2. /\ GenerateTokens(r, "password", x, e)
      /\ UNCHANGED <<identity, cookie>>
      /\ users' = users /\ vouched' = vouched /\ users[e] = x
  BY DEF Login
<1> QED BY <1>1, <1>2, TokenStep

LEMMA CreateStep ==
  ASSUME IndInv, NEW r \in Requests, Create(r)
  PROVE  IndInv'
<1> DEFINE e == req[r].email
           k == req[r].key
<1>0. TypeOK /\ req[r] \in Signing \cup Linking /\ req[r].pc = "create"
  BY RequestType DEF IndInv, Create
<1>a. e \in Emails
  BY <1>0 DEF Signing, Linking
<1>1. CASE users[e] # None
  <2>1. /\ req' = [req EXCEPT ![r] = Idle]
        /\ UNCHANGED <<users, identity, cookie, sessions, vouched, faults>>
    BY <1>1 DEF Create
  <2>2. TypeOK'
    BY <1>0, <2>1 DEF TypeOK
  <2>3. Holds(r)' /\ \A q \in Requests \ {r} : req'[q] = req[q]
    BY <1>0, <2>1 DEF TypeOK, Holds, Idle
  <2> QED BY <2>1, <2>2, <2>3, QuietStep
<1>2. CASE users[e] = None /\ req[r] \in Signing
  <2>1. /\ users' = [users EXCEPT ![e] = k]
        /\ GenerateTokens(r, "password", k, e)
        /\ UNCHANGED <<identity, cookie, vouched, faults>>
    BY <1>2 DEF Create, Hash, Signing
  <2>2. k \in Secrets
    BY <1>2 DEF Signing
  <2>3. TypeOK'
    BY <1>0, <1>a, <2>1, <2>2
    DEF TypeOK, GenerateTokens, Answer, Answering, Session
  <2>4. /\ users'[e] = k
        /\ \A x \in Emails : users'[x] = users[x] \/ users[x] = None
    BY <1>0, <1>a, <1>2, <2>1 DEF TypeOK
  <2> HIDE DEF e, k
  <2> QED BY <1>a, <2>1, <2>3, <2>4, TokenStep
<1>3. CASE users[e] = None /\ req[r] \in Linking
  <2>1. /\ users' = [users EXCEPT ![e] = "empty"]
        /\ req' = [req EXCEPT ![r].pc = "link"]
        /\ UNCHANGED <<identity, cookie, sessions, vouched, faults>>
    BY <1>3 DEF Create, Hash, Linking
  <2>2. req'[r] = [pc |-> "link", how |-> "google", key |-> k, email |-> e]
    BY <1>0, <1>3, <2>1 DEF TypeOK, Linking
  <2>3. TypeOK'
    BY <1>0, <1>a, <1>3, <2>1, <2>2 DEF TypeOK, Linking
  <2>4. \A x \in Emails : users'[x] = users[x] \/ users[x] = None
    BY <1>0, <1>3, <2>1 DEF TypeOK
  <2>5. <<k, e>> \in vouched
    BY <1>0, <1>3 DEF IndInv, RequestIsVouched, Linking
  <2>6. Holds(r)' /\ \A q \in Requests \ {r} : req'[q] = req[q]
    BY <1>0, <2>1, <2>2, <2>5 DEF TypeOK, Holds
  <2> QED BY <2>1, <2>3, <2>4, <2>6, QuietStep
<1> QED BY <1>0, <1>1, <1>2, <1>3

LEMMA GoogleAuthStep ==
  ASSUME IndInv, NEW r \in Requests, NEW g \in Subjects, NEW e \in MailOf[g],
         GoogleAuth(r, g, e)
  PROVE  IndInv'
<1>0. TypeOK /\ e \in Emails /\ vouched' = vouched \cup {<<g, e>>}
  BY DEF IndInv, GoogleAuth
<1>1. ASSUME NEW u \in GetByGoogleSub(g), GenerateTokens(r, "google", g, u)
      PROVE  IndInv'
  <2>1. u \in Emails /\ identity[u] = g
    BY DEF GetByGoogleSub
  <2>2. TypeOK'
    BY <1>0, <1>1, <2>1
    DEF TypeOK, GoogleAuth, GenerateTokens, Answer, Answering, Session
  <2>3. <<g, u>> \in vouched' /\ StillLinked(g, u)
    BY <1>0, <2>1 DEF IndInv, LinkIsVouched, StillLinked
  <2> QED BY <1>0, <1>1, <2>1, <2>2, <2>3, TokenStep DEF GoogleAuth
<1>2. CASE /\ req' = [req EXCEPT ![r] = [pc |-> "byEmail", how |-> "google",
                                         key |-> g, email |-> e]]
           /\ UNCHANGED sessions
  <2>1. TypeOK'
    BY <1>0, <1>2 DEF TypeOK, GoogleAuth, Linking
  <2>2. Holds(r)' /\ \A q \in Requests \ {r} : req'[q] = req[q]
    BY <1>0, <1>2 DEF TypeOK, Holds
  <2> QED BY <1>0, <1>2, <2>1, <2>2, QuietStep DEF GoogleAuth
<1> QED BY <1>1, <1>2 DEF GoogleAuth

\* A request of GoogleAuth moves on without a change to the tables.
LEMMA GetByEmailStep ==
  ASSUME IndInv, NEW r \in Requests, GetByEmail(r)
  PROVE  IndInv'
<1>0. TypeOK /\ req[r] \in Linking /\ req[r].pc = "byEmail"
  BY RequestType DEF IndInv, GetByEmail
<1>1. \E p \in {"create", "link"} :
        /\ req' = [req EXCEPT ![r].pc = p]
        /\ req'[r] = [pc |-> p, how |-> "google", key |-> req[r].key,
                      email |-> req[r].email]
  BY <1>0 DEF GetByEmail, TypeOK, Linking
<1>2. TypeOK'
  BY <1>0, <1>1 DEF TypeOK, GetByEmail, Linking
<1>3. <<req[r].key, req[r].email>> \in vouched
  BY <1>0 DEF IndInv, RequestIsVouched, Linking
<1>4. Holds(r)' /\ \A q \in Requests \ {r} : req'[q] = req[q]
  BY <1>0, <1>1, <1>3 DEF TypeOK, Holds, GetByEmail
<1> QED BY <1>2, <1>4, QuietStep DEF GetByEmail

LEMMA LinkStep ==
  ASSUME IndInv, NEW r \in Requests, LinkGoogleIdentity(r)
  PROVE  IndInv'
<1> DEFINE e == req[r].email
           k == req[r].key
<1>0. /\ TypeOK /\ req[r] \in Linking /\ req[r].pc = "link"
      /\ UNCHANGED <<users, cookie, sessions, vouched, faults>>
  BY RequestType DEF IndInv, LinkGoogleIdentity
<1>a. e \in Emails /\ k \in Subjects
  BY <1>0 DEF Linking
<1>b. <<k, e>> \in vouched
  BY <1>0 DEF IndInv, RequestIsVouched, Linking
<1>1. CASE GetByGoogleSub(k) \subseteq {e}
  <2>1. /\ identity' = [identity EXCEPT ![e] = k]
        /\ req' = [req EXCEPT ![r].pc = "reload"]
    BY <1>1 DEF LinkGoogleIdentity
  <2>2. req'[r] = [pc |-> "reload", how |-> "google", key |-> k, email |-> e]
    BY <1>0, <2>1 DEF TypeOK, Linking
  <2>3. TypeOK'
    BY <1>0, <1>a, <2>1, <2>2 DEF TypeOK, Linking
  <2>4. /\ identity'[e] = k
        /\ \A x \in Emails \ {e} : identity'[x] = identity[x] /\ identity[x] # k
    BY <1>0, <1>a, <1>1, <2>1 DEF TypeOK, GetByGoogleSub
  <2> HIDE DEF e, k
  <2>5. LinkIsVouched'
    BY <1>0, <1>b, <2>4 DEF IndInv, LinkIsVouched
  <2>6. LinksStay
    BY <1>0, <1>a, <1>b, <2>4 DEF LinksStay, StillLinked
  <2>7. Holds(r)'
    BY <1>0, <1>b, <2>2, <2>4 DEF Holds, StillLinked
  <2>8. \A q \in Requests \ {r} : req'[q] = req[q]
    BY <1>0, <2>1 DEF TypeOK
  <2> QED BY <1>0, <2>3, <2>5, <2>6, <2>7, <2>8, StepIndInv
<1>2. CASE ~(GetByGoogleSub(k) \subseteq {e})
  <2>1. req' = [req EXCEPT ![r] = Idle] /\ identity' = identity
    BY <1>2 DEF LinkGoogleIdentity
  <2>2. TypeOK'
    BY <1>0, <2>1 DEF TypeOK
  <2>3. Holds(r)' /\ \A q \in Requests \ {r} : req'[q] = req[q]
    BY <1>0, <2>1 DEF TypeOK, Holds, Idle
  <2> QED BY <1>0, <2>1, <2>2, <2>3, QuietStep
<1> QED BY <1>1, <1>2

LEMMA ReloadStep ==
  ASSUME IndInv, NEW r \in Requests, ReloadUser(r)
  PROVE  IndInv'
<1> DEFINE e == req[r].email
           k == req[r].key
<1>0. /\ TypeOK /\ req[r] \in Linking /\ req[r].pc = "reload"
      /\ GenerateTokens(r, "google", k, e)
      /\ UNCHANGED <<users, identity, cookie, vouched, faults>>
  BY RequestType DEF IndInv, ReloadUser
<1>1. e \in Emails /\ k \in Subjects
  BY <1>0 DEF Linking
<1>2. <<k, e>> \in vouched /\ StillLinked(k, e)
  BY <1>0 DEF IndInv, RequestIsVouched, Linking
<1> HIDE DEF e, k
<1>3. TypeOK'
  BY <1>0, <1>1 DEF TypeOK, GenerateTokens, Answer, Answering, Session
<1> QED BY <1>0, <1>1, <1>2, <1>3, TokenStep

\* A request that ends, and at most sets or clears the cookie.
LEMMA EndsStep ==
  ASSUME IndInv, NEW r \in Requests,
         req' = [req EXCEPT ![r] = Idle],
         UNCHANGED <<users, identity, sessions, vouched>>,
         faults' \in 0..MaxFaults,
         cookie' = cookie \/ cookie' = None \/ \E s \in sessions : s.user = cookie'
  PROVE  IndInv'
<1>0. TypeOK
  BY DEF IndInv
<1>1. cookie' \in Emails \cup {None}
  BY <1>0, SessionType DEF TypeOK
<1>2. TypeOK'
  BY <1>0, <1>1 DEF TypeOK
<1>3. Holds(r)' /\ \A q \in Requests \ {r} : req'[q] = req[q]
  BY <1>0 DEF TypeOK, Holds, Idle
<1> QED BY <1>2, <1>3, QuietStep

LEMMA FailsStep ==
  ASSUME IndInv, NEW r \in Requests, RequestFails(r) \/ RefreshFails(r)
  PROVE  IndInv'
<1>1. faults' \in 0..MaxFaults
  BY DEF IndInv, TypeOK, RequestFails, RefreshFails
<1> QED BY <1>1, EndsStep DEF RequestFails, RefreshFails

LEMMA SetRefreshCookieStep ==
  ASSUME IndInv, NEW r \in Requests, SetRefreshCookie(r)
  PROVE  IndInv'
<1>1. \E s \in sessions : s.user = cookie'
  BY DEF IndInv, RequestIsVouched, SetRefreshCookie
<1>2. faults' \in 0..MaxFaults
  BY DEF IndInv, TypeOK, SetRefreshCookie
<1> QED BY <1>1, <1>2, EndsStep DEF SetRefreshCookie

\* A refresh takes the user from the cookie to the next answer.
LEMMA RefreshStep ==
  ASSUME IndInv, NEW r \in Requests, HandleRefreshToken(r) \/ RefreshToken(r)
  PROVE  IndInv'
<1>0. /\ TypeOK
      /\ UNCHANGED <<users, identity, cookie, sessions, vouched, faults>>
  BY DEF IndInv, HandleRefreshToken, RefreshToken
<1>1. PICK p \in {"refresh", "answer"}, e \in Emails :
        /\ req' = [req EXCEPT ![r] = [pc |-> p, user |-> e]]
        /\ \E s \in sessions : s.user = e
  <2>1. CASE HandleRefreshToken(r)
    BY <1>0, <2>1 DEF HandleRefreshToken, IndInv, TypeOK, SessionIsVouched
  <2>2. CASE RefreshToken(r)
    <3>1. req[r].user \in Emails
      BY <1>0, <2>2, RequestType DEF RefreshToken, Refreshing
    <3> QED BY <2>2, <3>1 DEF RefreshToken, Answer, IndInv, RequestIsVouched
  <2> QED BY <2>1, <2>2
<1>2. TypeOK'
  BY <1>0, <1>1 DEF TypeOK, Answering, Refreshing
<1>3. Holds(r)' /\ \A q \in Requests \ {r} : req'[q] = req[q]
  BY <1>0, <1>1 DEF TypeOK, Holds
<1> QED BY <1>0, <1>2, <1>3, QuietStep

LEMMA LogoutStep ==
  ASSUME IndInv, HandleLogout
  PROVE  IndInv'
<1>1. TypeOK'
  BY DEF IndInv, TypeOK, HandleLogout
<1> QED BY <1>1, SameLinks, StepIndInv DEF HandleLogout

----------------------------------------------------------------------------
(* The theorems *)

LEMMA NextIndInv == IndInv /\ [Next]_vars => IndInv'
<1> SUFFICES ASSUME IndInv, [Next]_vars
             PROVE  IndInv'
  OBVIOUS
<1>1. ASSUME NEW r \in Requests, NEW e \in Emails, NEW x \in Secrets,
             Signup(r, e, x) \/ Login(r, e, x)
      PROVE  IndInv'
  BY <1>1, SignupStep, LoginStep
<1>2. ASSUME NEW r \in Requests, NEW g \in Subjects, NEW e \in MailOf[g],
             GoogleAuth(r, g, e)
      PROVE  IndInv'
  BY <1>2, GoogleAuthStep
<1>3. ASSUME NEW r \in Requests, Handle(r)
      PROVE  IndInv'
  BY <1>3, CreateStep, GetByEmailStep, LinkStep, ReloadStep, RefreshStep,
     SetRefreshCookieStep
  DEF Handle
<1>4. ASSUME NEW r \in Requests,
             RequestFails(r) \/ RefreshFails(r) \/ HandleRefreshToken(r)
      PROVE  IndInv'
  BY <1>4, FailsStep, RefreshStep
<1>5. CASE HandleLogout
  BY <1>5, LogoutStep
<1>6. CASE UNCHANGED vars
  BY <1>6 DEF vars, IndInv, TypeOK, PasswordIsKept, SessionIsVouched,
              LinkIsVouched, RequestIsVouched, SessionIsLinked, StillLinked
<1> QED BY <1>1, <1>2, <1>3, <1>4, <1>5, <1>6 DEF Next, validateGoogleIDToken

\* The invariant that the others follow from.
THEOREM IndInvTheorem == Spec => []IndInv
BY InitIndInv, NextIndInv, PTL DEF Spec

\* Every variable of login-service and of the cookie has its type.
THEOREM TypeCorrect == Spec => []TypeOK
<1>1. IndInv => TypeOK
  BY DEF IndInv
<1> QED BY <1>1, IndInvTheorem, PTL

\* However signups, Google sign-ins and failures interleave, the password of a
\* signup or login that was answered is the one its row has.
THEOREM PasswordTheorem == Spec => []PasswordIsKept
<1>1. IndInv => PasswordIsKept
  BY DEF IndInv
<1> QED BY <1>1, IndInvTheorem, PTL

\* Whoever is signed in with Google, by subject, by email or as a new user,
\* is a user whose email was confirmed for that subject; the cookie names a
\* user for whom a session was issued.
THEOREM VouchedTheorem == Spec => []SessionIsVouched
<1>1. IndInv => SessionIsVouched
  BY DEF IndInv
<1> QED BY <1>1, IndInvTheorem, PTL

\* One Google subject signs in as one user, unless another subject came with
\* the email of one of the two: a subject is still linked to the user of each
\* of its sessions, and it is linked to at most one.
THEOREM SubjectTheorem == Spec => []SubjectKeepsAccount
<1>1. ASSUME IndInv PROVE SubjectKeepsAccount
  <2>1. SUFFICES ASSUME NEW s \in sessions, NEW t \in sessions,
                        s.how = "google", t.how = "google",
                        s.key = t.key, s.user # t.user
                 PROVE  \E g \in Subjects \ {s.key} :
                          <<g, s.user>> \in vouched \/ <<g, t.user>> \in vouched
    BY DEF SubjectKeepsAccount
  <2>2. /\ s.user \in Emails /\ t.user \in Emails
        /\ s.key \in Subjects
    BY <2>1, <1>1, SessionType DEF IndInv
  <2>3. StillLinked(s.key, s.user) /\ StillLinked(s.key, t.user)
    BY <2>1, <1>1 DEF IndInv, SessionIsLinked
  <2>4. ~(identity[s.user] = s.key /\ identity[t.user] = s.key)
    BY <2>1, <2>2, <1>1 DEF IndInv, LinkIsVouched
  <2> QED BY <2>3, <2>4 DEF StillLinked
<1> QED BY <1>1, IndInvTheorem, PTL
=============================================================================
