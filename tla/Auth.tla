------------------------------- MODULE Auth -------------------------------
(***************************************************************************)
(* Signing in (AuthService): one-time codes sent by mail, Firebase         *)
(* accounts linked to users, and the sessions and signed tokens that they  *)
(* lead to.  What a request reads is in its task; it writes in a later     *)
(* statement, and a transaction that throws leaves nothing behind.         *)
(***************************************************************************)
EXTENDS Integers, Sequences, FiniteSets

CONSTANTS
  Email, Uid,  \* mail addresses, normalised; Firebase accounts
  User,        \* identities a user row can get
  Req,         \* requests in progress
  Ttl, Cooldown, \* OTP_TTL_SECONDS, OTP_RESEND_COOLDOWN_SECONDS, in units of time
  JwtTtl,      \* AUTH_JWT_TTL_SECONDS, in units of time
  Known,       \* bound: the tables of users there may be at the start
  MaxAttempts, \* OTP_MAX_ATTEMPTS
  MaxNow,      \* bound: the clock
  MaxCalls,    \* bound: requests started
  MaxWrong,    \* bound: wrong codes typed
  None

\* A row of the table of users.
UserRow == [email : Email, uid : Uid \cup {None}]

ASSUME AuthAssumption ==
  /\ {Ttl, JwtTtl, MaxAttempts} \subseteq Nat \ {0}
  /\ {Cooldown, MaxNow, MaxCalls, MaxWrong} \subseteq Nat
  /\ Cooldown < Ttl
  /\ None \notin Email \cup Uid \cup User \cup UserRow
  /\ Known \subseteq [User -> UserRow \cup {None}]

VARIABLES
  user,     \* User: email and firebaseUid, or None
  codes,    \* EmailOtp, in the order of their creation
  sessions, \* Session: whose it is, and the code that it comes from (0: Firebase)
  tokens,   \* signed tokens that were given out: sub, firebaseUid, exp
  now, task, calls,
  wrong,    \* history: wrong codes typed while a code was valid
  links     \* history: which user was linked to which account

vars == <<user, codes, sessions, tokens, now, task, calls, wrong, links>>

\* Tasks note how many requests had been started when theirs began, and with it codes,
\* sessions and links, which also note how many had when it ended.
Begin(r, t) ==
  /\ task[r] = None /\ calls < MaxCalls
  /\ calls' = calls + 1
  /\ task' = [task EXCEPT ![r] = t]

Doing(r, op) == task[r] # None /\ task[r].op = op
Done(r) == task' = [task EXCEPT ![r] = None] /\ UNCHANGED <<calls, now, wrong>>

\* A lost connection, or a unique constraint that decides a race.
Abort(r) ==
  /\ task[r] # None
  /\ Done(r)
  /\ UNCHANGED <<user, codes, sessions, tokens, links>>

-----------------------------------------------------------------------------
(***************************************************************************)
(* One-time codes.                                                         *)
(***************************************************************************)

\* Faulty variant: a code that was used does not count for the cooldown.
RecentUnconsumed(e) ==
  \E i \in DOMAIN codes : /\ codes[i].email = e /\ ~codes[i].consumed
                          /\ codes[i].created >= now - Cooldown

Recent(e) == \E i \in DOMAIN codes : codes[i].email = e /\ codes[i].created >= now - Cooldown

RequestCheck(r, e) ==
  /\ ~Recent(e)
  /\ Begin(r, [op |-> "request", email |-> e, begun |-> calls + 1])
  /\ UNCHANGED <<user, codes, sessions, tokens, now, wrong, links>>

\* The code is stored, then mailed.
RequestCreate(r) ==
  /\ Doing(r, "request")
  /\ codes' = Append(codes, [email |-> task[r].email, created |-> now, until |-> now + Ttl,
                             consumed |-> FALSE, attempts |-> 0,
                             begun |-> task[r].begun, ended |-> calls])
  /\ Done(r)
  /\ UNCHANGED <<user, sessions, tokens, links>>

\* The newest unconsumed code of an address; of two created at once, either.
Latest(e) ==
  LET open == {i \in DOMAIN codes : codes[i].email = e /\ ~codes[i].consumed}
  IN {i \in open : \A j \in open : codes[j].created <= codes[i].created}

Usable(c) == now < c.until /\ c.attempts < MaxAttempts

\* What a transaction that throws leaves of a row it has changed.
Thrown(before, after) == before

\* verifyEmailOtp refuses: the code is expired, has too many attempts, or is another.
VerifyRefused(e) ==
  \E i \in Latest(e) :
    /\ codes' = [codes EXCEPT ![i] =
         Thrown(@, IF Usable(@) THEN [@ EXCEPT !.attempts = @ + 1]
                                ELSE [@ EXCEPT !.consumed = TRUE])]
    /\ wrong' = IF Usable(codes[i]) THEN [wrong EXCEPT ![e] = @ + 1] ELSE wrong
    /\ wrong'[e] <= MaxWrong
    /\ UNCHANGED <<user, sessions, tokens, now, task, calls, links>>

VerifyRead(r, e) ==
  \E i \in Latest(e) :
    /\ Usable(codes[i])
    /\ Begin(r, [op |-> "verify", email |-> e, code |-> i, begun |-> calls + 1])
    /\ UNCHANGED <<user, codes, sessions, tokens, now, wrong, links>>

\* The users with that email or that firebaseUid; NULL is no value.
Holders(field, x) == {u \in User : x # None /\ user[u] # None /\ user[u][field] = x}
Unused == {u \in User : user[u] = None}
Fresh == CHOOSE u \in Unused : TRUE

SessionOf(u, t) ==
  sessions' = sessions \cup {[user |-> u, code |-> t.code, begun |-> t.begun, ended |-> calls]}

\* Faulty variant: the code stays open.
OpenAfterUse(c) == [c EXCEPT !.attempts = @ + 1]

AfterUse(c) == [c EXCEPT !.attempts = @ + 1, !.consumed = TRUE]

\* The user is found or created, the code consumed, the session stored.
VerifyCommit(r) ==
  /\ Doing(r, "verify")
  /\ LET t == task[r]
         known == Holders("email", t.email)
         u == IF known = {} THEN Fresh ELSE CHOOSE x \in known : TRUE
     IN /\ known # {} \/ Unused # {}
        /\ user' = IF known = {} THEN [user EXCEPT ![u] = [email |-> t.email, uid |-> None]]
                                 ELSE user
        /\ codes' = [codes EXCEPT ![t.code] = AfterUse(@)]
        /\ SessionOf(u, t)
  /\ Done(r)
  /\ UNCHANGED <<tokens, links>>

-----------------------------------------------------------------------------
(***************************************************************************)
(* Firebase accounts.                                                      *)
(***************************************************************************)

\* Faulty variant: the account of an address is linked whatever it is linked to.
LinkedAlways(u, uid) == uid

\* The account that a user found by address is linked to: a link that is there stays.
Linked(u, uid) == IF user[u].uid = None THEN uid ELSE None

\* upsertFirebaseUserInTransaction: the row that is found, if any, and the fields that will
\* be written, None where a field is not.
Change(uid, e) ==
  LET same == Holders("uid", uid)
      mail == Holders("email", e)
  IN IF same # {}
       THEN {[user |-> u, email |-> IF user[u].email = e THEN None ELSE e, uid |-> None] :
               u \in same}
     ELSE IF mail # {}
       THEN {[user |-> u, email |-> None, uid |-> Linked(u, uid)] : u \in mail}
     ELSE {[user |-> None, email |-> e, uid |-> uid]}

FirebaseRead(r, uid, e) ==
  /\ \E c \in Change(uid, e) :
       Begin(r, [op |-> "firebase", change |-> c, code |-> 0, begun |-> calls + 1])
  /\ UNCHANGED <<user, codes, sessions, tokens, now, wrong, links>>

\* The UNIQUE constraints on email and firebaseUid.
Free(u, email, uid) ==
  (Holders("email", email) \cup Holders("uid", uid)) \subseteq {u}

LinkOf(u, uid, t) == [user |-> u, uid |-> uid, begun |-> t.begun, ended |-> calls]

\* The UPDATE or the INSERT, and the session.
FirebaseCommit(r) ==
  /\ Doing(r, "firebase")
  /\ LET c == task[r].change
         u == IF c.user = None THEN Fresh ELSE c.user
         kept(x, old) == IF x = None THEN old ELSE x
         row == IF c.user = None THEN [email |-> c.email, uid |-> c.uid]
                ELSE [email |-> kept(c.email, user[u].email), uid |-> kept(c.uid, user[u].uid)]
     IN /\ c.user # None \/ Unused # {}
        /\ Free(u, row.email, row.uid)
        /\ user' = [user EXCEPT ![u] = row]
        /\ SessionOf(u, task[r])
        /\ links' = IF c.uid = None THEN links ELSE links \cup {LinkOf(u, c.uid, task[r])}
  /\ Done(r)
  /\ UNCHANGED <<codes, tokens>>

\* buildJwt.
Sign(u, uid) == tokens' = tokens \cup {[user |-> u, uid |-> uid, until |-> now + JwtTtl]}

\* registerWithFirebaseIdToken: a check, then an INSERT; the answer is a signed token.
RegisterRead(r, uid, e) ==
  /\ Holders("uid", uid) = {} /\ Holders("email", e) = {}
  /\ Begin(r, [op |-> "register", email |-> e, uid |-> uid, begun |-> calls + 1])
  /\ UNCHANGED <<user, codes, sessions, tokens, now, wrong, links>>

RegisterCommit(r) ==
  /\ Doing(r, "register")
  /\ Unused # {} /\ Free(Fresh, task[r].email, task[r].uid)
  /\ user' = [user EXCEPT ![Fresh] = [email |-> task[r].email, uid |-> task[r].uid]]
  /\ links' = links \cup {LinkOf(Fresh, task[r].uid, task[r])}
  /\ Done(r)
  /\ Sign(Fresh, task[r].uid)
  /\ UNCHANGED <<codes, sessions>>

\* loginWithFirebaseJwt finds the user by the account, notes the time of the sign-in in the
\* row, and signs a token.
LoginRead(r, uid) ==
  /\ \E u \in Holders("uid", uid) :
       Begin(r, [op |-> "login", user |-> u, uid |-> uid, begun |-> calls + 1])
  /\ UNCHANGED <<user, codes, sessions, tokens, now, wrong, links>>

LoginCommit(r) ==
  /\ Doing(r, "login")
  /\ Sign(task[r].user, task[r].uid)
  /\ Done(r)
  /\ UNCHANGED <<user, codes, sessions, links>>

\* Faulty variant: the account of the user is not looked at.
AdmitsAnyAccount(t) == now < t.until

\* validateJwtToken, which SessionAuthGuard asks first: the signature and exp are good,
\* and the user is not linked to another account by now.
Admits(t) == now < t.until /\ user[t.user].uid \in {None, t.uid}

Tick ==
  /\ now < MaxNow
  /\ now' = now + 1
  /\ UNCHANGED <<user, codes, sessions, tokens, task, calls, wrong, links>>

Init ==
  /\ user \in Known /\ codes = <<>> /\ sessions = {} /\ tokens = {}
  /\ now = 0 /\ calls = 0
  /\ task = [r \in Req |-> None] /\ links = {} /\ wrong = [e \in Email |-> 0]

Next ==
  \/ \E r \in Req, e \in Email : \/ RequestCheck(r, e) \/ VerifyRead(r, e)
                                 \/ \E uid \in Uid : \/ FirebaseRead(r, uid, e)
                                                     \/ RegisterRead(r, uid, e)
  \/ \E r \in Req : \/ RequestCreate(r) \/ VerifyCommit(r) \/ FirebaseCommit(r)
                    \/ RegisterCommit(r) \/ LoginCommit(r) \/ Abort(r)
                    \/ \E uid \in Uid : LoginRead(r, uid)
  \/ \E e \in Email : VerifyRefused(e)
  \/ Tick

Spec == Init /\ [][Next]_vars

-----------------------------------------------------------------------------
(***************************************************************************)
(* Properties.                                                             *)
(***************************************************************************)

Together(x, y) == x.begun <= y.ended /\ y.begun <= x.ended

\* Two sessions come from one code only when the two verifications overlapped.
CodeReusedOnlyTogether ==
  \A s, t \in sessions : s # t /\ s.code = t.code /\ s.code # 0 => Together(s, t)

\* Two codes are sent to an address within the cooldown only when the two requests
\* overlapped, used codes included.
CodesApartUnlessTogether ==
  \A i, j \in DOMAIN codes :
    /\ i # j /\ codes[i].email = codes[j].email
    /\ codes[j].created \in codes[i].created .. codes[i].created + Cooldown
    => Together(codes[i], codes[j])

\* A user who is linked to a Firebase account is linked to another one only by a sign-in
\* that overlapped the one that made the link, whatever addresses the accounts change to
\* in between (auth.service.ts:537, "Keeping existing mapping.").
LinkReplacedOnlyTogether ==
  \A x, y \in links : x.user = y.user /\ x.uid # y.uid => Together(x, y)

\* A signed token admits its bearer only as the user who is linked to the Firebase account
\* it was signed for, also when sign-ins that overlap link the user to another account
\* while the token is out or being signed.
TokenOfLinkedAccount ==
  \A x \in tokens : Admits(x) => user[x.user].uid = x.uid

\* docs/manual-tests/phase1-auth.md:44, "Submit `POST /auth/verify-otp` with a wrong code;
\* expect `401 Invalid or expired code` and attempt counter increments."
AttemptsCounted ==
  \A e \in Email :
    wrong[e] > 0 => \E i \in DOMAIN codes : codes[i].email = e /\ codes[i].attempts > 0
=============================================================================
