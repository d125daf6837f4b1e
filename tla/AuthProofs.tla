----------------------------- MODULE AuthProofs -----------------------------
(***************************************************************************)
(* Safety of signing in, for every number of addresses, accounts, users    *)
(* and requests.  Three arguments have one shape: a request that is at     *)
(* work began before every code, session or link that it did not see when  *)
(* it looked, ended.                                                       *)
(***************************************************************************)
EXTENDS Auth, TLAPS, SequenceTheorems

USE AuthAssumption

-----------------------------------------------------------------------------
(***************************************************************************)
(* Types.  They include that a row of a user, once there, stays, and that  *)
(* what a request found is there.                                          *)
(***************************************************************************)

CodeRow == [email : Email, created : Nat, until : Nat, consumed : BOOLEAN, attempts : Nat,
            begun : Nat, ended : Nat]
SessionRow == [user : User, code : Nat, begun : Nat, ended : Nat]
TokenRow == [user : User, uid : Uid, until : Nat]
LinkRow == [user : User, uid : Uid, begun : Nat, ended : Nat]
Created == [user : {None}, email : Email, uid : Uid]
Changed == [user : User, email : Email \cup {None}, uid : Uid \cup {None}]
RequestTask == [op : {"request"}, email : Email, begun : Nat]
VerifyTask == [op : {"verify"}, email : Email, code : Nat, begun : Nat]
FirebaseTask == [op : {"firebase"}, change : Created \cup Changed, code : {0}, begun : Nat]
RegisterTask == [op : {"register"}, email : Email, uid : Uid, begun : Nat]
LoginTask == [op : {"login"}, user : User, uid : Uid, begun : Nat]
Task == RequestTask \cup VerifyTask \cup FirebaseTask \cup RegisterTask \cup LoginTask

HasRow(u) == user[u] # None
HasAccount(u) == user[u] # None /\ user[u].uid # None

TypeInv ==
  /\ user \in [User -> UserRow \cup {None}]
  /\ codes \in Seq(CodeRow)
  /\ sessions \subseteq SessionRow /\ tokens \subseteq TokenRow /\ links \subseteq LinkRow
  /\ now \in Nat /\ calls \in Nat
  /\ task \in [Req -> Task \cup {None}]
  /\ \A r \in Req : Doing(r, "firebase") /\ task[r].change.user # None
                      => HasRow(task[r].change.user)
  /\ \A r \in Req : Doing(r, "verify") => task[r].code \in DOMAIN codes

\* A request that is at an operation has the data of that operation.
LEMMA TaskOf ==
  ASSUME TypeInv, NEW r \in Req
  PROVE  /\ Doing(r, "request") => task[r] \in RequestTask
         /\ Doing(r, "verify") => task[r] \in VerifyTask
         /\ Doing(r, "firebase") => task[r] \in FirebaseTask
         /\ Doing(r, "register") => task[r] \in RegisterTask
         /\ Doing(r, "login") => task[r] \in LoginTask
         /\ task[r] # None => task[r].begun \in Nat
  BY DEF TypeInv, Doing, Task, RequestTask, VerifyTask, FirebaseTask, RegisterTask, LoginTask

\* The table has place for another user where some identity is unused.
LEMMA FreshUser ==
  ASSUME Unused # {}
  PROVE  Fresh \in User /\ user[Fresh] = None
  BY DEF Unused, Fresh

\* A refused verification leaves every code as it was: what it counts, it throws away.
LEMMA RefusedKeeps ==
  ASSUME TypeInv, NEW e \in Email, VerifyRefused(e)
  PROVE  codes' = codes
  BY DEF VerifyRefused, Thrown, TypeInv

\* What a request to sign in by Firebase writes: a new row, or one that is there, which
\* keeps the account that it has.
LEMMA FirebaseWrites ==
  ASSUME TypeInv, NEW r \in Req, FirebaseCommit(r)
  PROVE  \E u \in User, row \in UserRow :
           /\ user' = [user EXCEPT ![u] = row]
           /\ ~HasRow(u) \/ u = task[r].change.user
           /\ HasAccount(u) => row.uid # None
           /\ sessions' = sessions \cup
                {[user |-> u, code |-> 0, begun |-> task[r].begun, ended |-> calls]}
           /\ \/ links' = links
              \/ /\ task[r].change.uid # None /\ row.uid # None
                 /\ links' = links \cup {[user |-> u, uid |-> task[r].change.uid,
                                          begun |-> task[r].begun, ended |-> calls]}
  <1> DEFINE c == task[r].change
             u == IF c.user = None THEN Fresh ELSE c.user
             kept(x, old) == IF x = None THEN old ELSE x
             row == IF c.user = None THEN [email |-> c.email, uid |-> c.uid]
                    ELSE [email |-> kept(c.email, user[u].email), uid |-> kept(c.uid, user[u].uid)]
  <1>1. task[r] \in FirebaseTask
    BY TaskOf DEF FirebaseCommit
  <1>2. c \in Created \cup Changed /\ task[r].code = 0
    BY <1>1 DEF FirebaseTask
  <1>3. /\ user' = [user EXCEPT ![u] = row]
        /\ sessions' = sessions \cup
             {[user |-> u, code |-> 0, begun |-> task[r].begun, ended |-> calls]}
        /\ links' = IF c.uid = None THEN links
                    ELSE links \cup {[user |-> u, uid |-> c.uid,
                                      begun |-> task[r].begun, ended |-> calls]}
        /\ c.user # None \/ Unused # {}
    BY <1>2 DEF FirebaseCommit, SessionOf, LinkOf
  <1>4. CASE c.user = None
    <2>1. c.email \in Email /\ c.uid \in Uid
      BY <1>2, <1>4 DEF Created, Changed
    <2>2. u = Fresh /\ u \in User /\ ~HasRow(u)
      BY <1>3, <1>4, FreshUser DEF HasRow
    <2>3. row = [email |-> c.email, uid |-> c.uid]
      BY <1>4
    <2>4. row \in UserRow /\ row.uid # None
      BY <2>1, <2>3 DEF UserRow
    <2> HIDE DEF row, u
    <2>5. QED BY <1>3, <2>2, <2>4
  <1>5. CASE c.user # None
    <2>1. /\ c.user \in User /\ c.email \in Email \cup {None} /\ c.uid \in Uid \cup {None}
      BY <1>2, <1>5 DEF Created, Changed
    <2>2. u = c.user /\ u \in User /\ HasRow(u)
      BY <1>5, <2>1 DEF TypeInv, FirebaseCommit
    <2>3. user[u].email \in Email /\ user[u].uid \in Uid \cup {None}
      BY <2>2 DEF TypeInv, UserRow, HasRow
    <2>4. row = [email |-> kept(c.email, user[u].email), uid |-> kept(c.uid, user[u].uid)]
      BY <1>5
    <2>5. /\ kept(c.email, user[u].email) \in Email
          /\ kept(c.uid, user[u].uid) \in Uid \cup {None}
          /\ HasAccount(u) \/ c.uid # None => kept(c.uid, user[u].uid) # None
      BY <2>1, <2>3 DEF HasAccount
    <2>6. row \in UserRow /\ (HasAccount(u) \/ c.uid # None => row.uid # None)
      BY <2>4, <2>5 DEF UserRow
    <2> HIDE DEF row, u
    <2>7. QED BY <1>3, <2>2, <2>6
  <1>6. QED BY <1>4, <1>5

\* What a registration writes: a new row, its link and its token.
LEMMA RegisterWrites ==
  ASSUME TypeInv, NEW r \in Req, RegisterCommit(r)
  PROVE  \E u \in User, row \in UserRow :
           /\ user' = [user EXCEPT ![u] = row]
           /\ ~HasRow(u) /\ row.uid # None
           /\ task[r].uid \in Uid /\ task[r].begun \in Nat
           /\ links' = links \cup {[user |-> u, uid |-> task[r].uid,
                                    begun |-> task[r].begun, ended |-> calls]}
           /\ tokens' = tokens \cup {[user |-> u, uid |-> task[r].uid, until |-> now + JwtTtl]}
  <1>1. task[r].email \in Email /\ task[r].uid \in Uid /\ task[r].begun \in Nat
    BY TaskOf DEF RegisterCommit, RegisterTask
  <1>2. Fresh \in User /\ ~HasRow(Fresh)
    BY FreshUser DEF RegisterCommit, HasRow
  <1>3. [email |-> task[r].email, uid |-> task[r].uid] \in UserRow
    BY <1>1 DEF UserRow
  <1>4. [email |-> task[r].email, uid |-> task[r].uid].uid # None
    BY <1>1
  <1>5. QED BY <1>1, <1>2, <1>3, <1>4 DEF RegisterCommit, LinkOf, Sign

\* What a verified code writes: a new row without an account, if any, the session, and that
\* the code is consumed.
LEMMA VerifyWrites ==
  ASSUME TypeInv, NEW r \in Req, VerifyCommit(r)
  PROVE  \E u \in User, c \in DOMAIN codes :
           /\ c = task[r].code /\ c # 0 /\ c \in Nat /\ task[r].begun \in Nat
           /\ \/ user' = user
              \/ \E row \in UserRow : ~HasRow(u) /\ user' = [user EXCEPT ![u] = row]
           /\ codes' = [codes EXCEPT ![c] = AfterUse(codes[c])]
           /\ sessions' = sessions \cup
                {[user |-> u, code |-> c, begun |-> task[r].begun, ended |-> calls]}
  <1> DEFINE known == Holders("email", task[r].email)
             u == IF known = {} THEN Fresh ELSE CHOOSE x \in known : TRUE
             row == [email |-> task[r].email, uid |-> None]
  <1>1. /\ task[r].email \in Email /\ task[r].begun \in Nat /\ task[r].code \in Nat
        /\ task[r].code \in DOMAIN codes /\ task[r].code # 0
    <2>1. Doing(r, "verify") /\ task[r] \in VerifyTask
      BY TaskOf DEF VerifyCommit
    <2>2. codes \in Seq(CodeRow) /\ task[r].code \in DOMAIN codes
      BY <2>1 DEF TypeInv
    <2>3. QED BY <2>1, <2>2 DEF VerifyTask
  <1>2. row \in UserRow
    BY <1>1 DEF UserRow
  <1>3. /\ known # {} \/ Unused # {}
        /\ user' = IF known = {} THEN [user EXCEPT ![u] = row] ELSE user
        /\ codes' = [codes EXCEPT ![task[r].code] = AfterUse(codes[task[r].code])]
        /\ sessions' = sessions \cup
             {[user |-> u, code |-> task[r].code, begun |-> task[r].begun, ended |-> calls]}
    BY DEF VerifyCommit, SessionOf
  <1>4. u \in User /\ (known = {} => ~HasRow(u))
    <2>1. known \subseteq User
      BY DEF Holders
    <2>2. CASE known = {}
      BY <1>3, <2>2, FreshUser DEF HasRow
    <2>3. CASE known # {}
      BY <2>1, <2>3
    <2>4. QED BY <2>2, <2>3
  <1> HIDE DEF known, u, row
  <1>5. QED BY <1>1, <1>2, <1>3, <1>4

\* Rows of users stay, and so do the accounts that are linked to them, though not which.
LEMMA RowsStay ==
  ASSUME TypeInv, [Next]_vars
  PROVE  \A u \in User : (HasRow(u) => HasRow(u)') /\ (HasAccount(u) => HasAccount(u)')
  <1>1. user' = user \/ \E r \in Req : VerifyCommit(r) \/ FirebaseCommit(r) \/ RegisterCommit(r)
    BY DEF Next, RequestCheck, RequestCreate, VerifyRead, VerifyRefused, FirebaseRead,
       RegisterRead, LoginRead, LoginCommit, Abort, Tick, vars
  <1>2. CASE user' = user
    BY <1>2 DEF HasRow, HasAccount
  <1>3. ASSUME NEW v \in User, NEW row \in UserRow, user' = [user EXCEPT ![v] = row],
               HasAccount(v) => row.uid # None
        PROVE  \A u \in User : (HasRow(u) => HasRow(u)') /\ (HasAccount(u) => HasAccount(u)')
    BY <1>3 DEF TypeInv, HasRow, HasAccount
  <1>4. ASSUME NEW r \in Req, FirebaseCommit(r)
        PROVE  \E v \in User, row \in UserRow :
                 user' = [user EXCEPT ![v] = row] /\ (HasAccount(v) => row.uid # None)
    BY <1>4, FirebaseWrites
  <1>5. ASSUME NEW r \in Req, RegisterCommit(r)
        PROVE  \E v \in User, row \in UserRow :
                 user' = [user EXCEPT ![v] = row] /\ (HasAccount(v) => row.uid # None)
    BY <1>5, RegisterWrites
  <1>6. ASSUME NEW r \in Req, VerifyCommit(r), user' # user
        PROVE  \E v \in User, row \in UserRow :
                 user' = [user EXCEPT ![v] = row] /\ (HasAccount(v) => row.uid # None)
    <2>1. PICK v \in User, row \in UserRow : ~HasRow(v) /\ user' = [user EXCEPT ![v] = row]
      BY <1>6, VerifyWrites
    <2>2. ~HasAccount(v)
      BY <2>1 DEF HasAccount, HasRow
    <2>3. QED BY <2>1, <2>2
  <1>7. QED BY <1>1, <1>2, <1>3, <1>4, <1>5, <1>6

\* A request begins with the data of its operation.
LEMMA Begins ==
  ASSUME TypeInv, NEW r \in Req
  PROVE  /\ \A e \in Email : RequestCheck(r, e) =>
              \E t \in RequestTask : Begin(r, t) /\ t.email = e /\ t.begun = calls + 1
         /\ \A e \in Email : VerifyRead(r, e) =>
              \E t \in VerifyTask : /\ Begin(r, t) /\ t.code \in Latest(e) /\ t.begun = calls + 1
         /\ \A uid \in Uid, e \in Email : FirebaseRead(r, uid, e) =>
              \E t \in FirebaseTask :
                /\ Begin(r, t) /\ t.change \in Change(uid, e) /\ t.begun = calls + 1
                /\ t.change.user # None => /\ t.change.user \in User /\ HasRow(t.change.user)
                                           /\ t.change.uid # None => ~HasAccount(t.change.user)
         /\ \A uid \in Uid, e \in Email : RegisterRead(r, uid, e) =>
              \E t \in RegisterTask : Begin(r, t) /\ t.begun = calls + 1
         /\ \A uid \in Uid : LoginRead(r, uid) =>
              \E t \in LoginTask : /\ Begin(r, t) /\ t.begun = calls + 1
                                   /\ HasAccount(t.user)
  <1>0. calls + 1 \in Nat
    BY DEF TypeInv
  <1>1. ASSUME NEW e \in Email, RequestCheck(r, e)
        PROVE  \E t \in RequestTask : Begin(r, t) /\ t.email = e /\ t.begun = calls + 1
    <2> DEFINE t == [op |-> "request", email |-> e, begun |-> calls + 1]
    <2>1. t \in RequestTask /\ t.email = e /\ t.begun = calls + 1
      BY <1>0 DEF RequestTask
    <2>2. Begin(r, t)
      BY <1>1 DEF RequestCheck
    <2>3. QED BY <2>1, <2>2
  <1>2. ASSUME NEW e \in Email, VerifyRead(r, e)
        PROVE  \E t \in VerifyTask : Begin(r, t) /\ t.code \in Latest(e) /\ t.begun = calls + 1
    <2>1. PICK i \in Latest(e) :
            Begin(r, [op |-> "verify", email |-> e, code |-> i, begun |-> calls + 1])
      BY <1>2 DEF VerifyRead
    <2> DEFINE t == [op |-> "verify", email |-> e, code |-> i, begun |-> calls + 1]
    <2>2. i \in Nat
      BY DEF Latest, TypeInv
    <2>3. t \in VerifyTask /\ t.code = i /\ t.begun = calls + 1
      BY <1>0, <2>2 DEF VerifyTask
    <2> HIDE DEF t
    <2>4. QED BY <2>1, <2>3 DEF t
  <1>3. ASSUME NEW uid \in Uid, NEW e \in Email, FirebaseRead(r, uid, e)
        PROVE  \E t \in FirebaseTask :
                 /\ Begin(r, t) /\ t.change \in Change(uid, e) /\ t.begun = calls + 1
                 /\ t.change.user # None => /\ t.change.user \in User /\ HasRow(t.change.user)
                                            /\ t.change.uid # None => ~HasAccount(t.change.user)
    <2>1. PICK c \in Change(uid, e) :
            Begin(r, [op |-> "firebase", change |-> c, code |-> 0, begun |-> calls + 1])
      BY <1>3 DEF FirebaseRead
    <2> DEFINE t == [op |-> "firebase", change |-> c, code |-> 0, begun |-> calls + 1]
    <2>2. \/ c \in Created
          \/ /\ c \in Changed /\ HasRow(c.user)
             /\ c.uid # None => ~HasAccount(c.user)
      <3>1. CASE Holders("uid", uid) # {}
        <4>1. PICK u \in Holders("uid", uid) :
                c = [user |-> u, email |-> IF user[u].email = e THEN None ELSE e, uid |-> None]
          BY <3>1 DEF Change
        <4>2. u \in User /\ HasRow(u)
          BY DEF Holders, HasRow
        <4>3. QED BY <4>1, <4>2 DEF Changed
      <3>2. CASE Holders("uid", uid) = {} /\ Holders("email", e) # {}
        <4>1. PICK u \in Holders("email", e) :
                c = [user |-> u, email |-> None, uid |-> Linked(u, uid)]
          BY <3>2 DEF Change
        <4>2. u \in User /\ HasRow(u)
          BY DEF Holders, HasRow
        <4>3. Linked(u, uid) \in Uid \cup {None} /\ (Linked(u, uid) # None => ~HasAccount(u))
          BY DEF Linked, HasAccount
        <4>4. QED BY <4>1, <4>2, <4>3 DEF Changed
      <3>3. CASE Holders("uid", uid) = {} /\ Holders("email", e) = {}
        BY <3>3 DEF Change, Created
      <3>4. QED BY <3>1, <3>2, <3>3
    <2>3. t \in FirebaseTask /\ t.change = c /\ t.begun = calls + 1
      BY <1>0, <2>2 DEF FirebaseTask
    <2>4. c.user # None => /\ c.user \in User /\ HasRow(c.user)
                           /\ c.uid # None => ~HasAccount(c.user)
      BY <2>2 DEF Created, Changed
    <2> HIDE DEF t
    <2>5. QED BY <2>1, <2>3, <2>4 DEF t
  <1>4. ASSUME NEW uid \in Uid, NEW e \in Email, RegisterRead(r, uid, e)
        PROVE  \E t \in RegisterTask : Begin(r, t) /\ t.begun = calls + 1
    <2> DEFINE t == [op |-> "register", email |-> e, uid |-> uid, begun |-> calls + 1]
    <2>1. t \in RegisterTask /\ t.begun = calls + 1
      BY <1>0 DEF RegisterTask
    <2>2. Begin(r, t)
      BY <1>4 DEF RegisterRead
    <2>3. QED BY <2>1, <2>2
  <1>5. ASSUME NEW uid \in Uid, LoginRead(r, uid)
        PROVE  \E t \in LoginTask : Begin(r, t) /\ t.begun = calls + 1 /\ HasAccount(t.user)
    <2>1. PICK u \in Holders("uid", uid) :
            Begin(r, [op |-> "login", user |-> u, uid |-> uid, begun |-> calls + 1])
      BY <1>5 DEF LoginRead
    <2> DEFINE t == [op |-> "login", user |-> u, uid |-> uid, begun |-> calls + 1]
    <2>2. u \in User /\ HasAccount(u)
      BY DEF Holders, HasAccount
    <2>3. t \in LoginTask /\ t.user = u /\ t.begun = calls + 1
      BY <1>0, <2>2 DEF LoginTask
    <2> HIDE DEF t
    <2>4. QED BY <2>1, <2>2, <2>3 DEF t
  <1>6. QED BY <1>1, <1>2, <1>3, <1>4, <1>5

\* What a code that is used, or one that is sent, is.
LEMMA UsedCode ==
  ASSUME NEW c \in CodeRow
  PROVE  /\ AfterUse(c) \in CodeRow /\ AfterUse(c).consumed
         /\ AfterUse(c).email = c.email /\ AfterUse(c).created = c.created
         /\ AfterUse(c).begun = c.begun /\ AfterUse(c).ended = c.ended
  <1>1. c.attempts \in Nat
    BY DEF CodeRow
  <1>2. PICK n \in Nat : n = c.attempts + 1
    BY <1>1
  <1>3. AfterUse(c) = [c EXCEPT !.attempts = n, !.consumed = TRUE]
    BY <1>2 DEF AfterUse
  <1>4. AfterUse(c) \in CodeRow
    BY <1>3 DEF CodeRow
  <1>5. QED BY <1>3, <1>4 DEF CodeRow
LEMMA SentCode ==
  ASSUME TypeInv, NEW r \in Req, RequestCreate(r)
  PROVE  \E c \in CodeRow :
           /\ codes' = Append(codes, c)
           /\ c.email = task[r].email /\ c.created = now /\ c.consumed = FALSE
           /\ c.begun = task[r].begun /\ c.ended = calls
  <1>1. task[r].email \in Email /\ task[r].begun \in Nat
    BY TaskOf DEF RequestCreate, RequestTask
  <1> DEFINE c == [email |-> task[r].email, created |-> now, until |-> now + Ttl,
                   consumed |-> FALSE, attempts |-> 0,
                   begun |-> task[r].begun, ended |-> calls]
  <1>2. c \in CodeRow
    BY <1>1 DEF CodeRow, TypeInv
  <1>3. QED BY <1>2 DEF RequestCreate

\* Steps that write codes leave their number and places.
LEMMA CodesStay ==
  ASSUME TypeInv, [Next]_vars
  PROVE  DOMAIN codes \subseteq DOMAIN codes' /\ codes' \in Seq(CodeRow)
  <1>1. CASE codes' = codes
    BY <1>1 DEF TypeInv
  <1>2. ASSUME NEW r \in Req, RequestCreate(r)
        PROVE  DOMAIN codes \subseteq DOMAIN codes' /\ codes' \in Seq(CodeRow)
    <2>1. PICK c \in CodeRow : codes' = Append(codes, c)
      BY <1>2, SentCode
    <2>2. codes \in Seq(CodeRow)
      BY DEF TypeInv
    <2>3. QED BY <2>1, <2>2, AppendProperties
  <1>3. ASSUME NEW r \in Req, VerifyCommit(r)
        PROVE  DOMAIN codes \subseteq DOMAIN codes' /\ codes' \in Seq(CodeRow)
    <2>1. PICK c \in DOMAIN codes : codes' = [codes EXCEPT ![c] = AfterUse(codes[c])]
      BY <1>3, VerifyWrites
    <2>2. codes \in Seq(CodeRow)
      BY DEF TypeInv
    <2>3. codes[c] \in CodeRow /\ c \in 1 .. Len(codes)
      BY <2>2
    <2>4. QED BY <2>1, <2>2, <2>3, UsedCode, ExceptSeq
  <1>4. codes' = codes \/ \E r \in Req : RequestCreate(r) \/ VerifyCommit(r)
    BY RefusedKeeps DEF Next, RequestCheck, VerifyRead, FirebaseRead, FirebaseCommit,
       RegisterRead, RegisterCommit, LoginRead, LoginCommit, Abort, Tick, vars
  <1>5. QED BY <1>1, <1>2, <1>3, <1>4

\* What a step leaves of the requests at work: they go on with what they had, or end.
LEMMA TasksGoOn ==
  ASSUME TypeInv, [Next]_vars
  PROVE  \/ task' = task /\ calls' = calls
         \/ \E r \in Req : task' = [task EXCEPT ![r] = None] /\ calls' = calls
         \/ \E r \in Req, t \in Task :
              /\ task' = [task EXCEPT ![r] = t] /\ t.begun = calls + 1 /\ calls' = calls + 1
              /\ UNCHANGED <<user, codes, sessions, tokens, links>>
              /\ t.op = "verify" => \E e \in Email : t.code \in Latest(e)
              /\ t.op = "firebase" /\ t.change.user # None =>
                   HasRow(t.change.user) /\ (t.change.uid # None => ~HasAccount(t.change.user))
              /\ t.op = "login" => HasAccount(t.user)
              /\ t.op = "request" => ~Recent(t.email) /\ now' = now
  <1> DEFINE Begun(r, t) ==
        /\ task' = [task EXCEPT ![r] = t] /\ t.begun = calls + 1 /\ calls' = calls + 1
        /\ UNCHANGED <<user, codes, sessions, tokens, links>>
        /\ t.op = "verify" => \E e \in Email : t.code \in Latest(e)
        /\ t.op = "firebase" /\ t.change.user # None =>
             HasRow(t.change.user) /\ (t.change.uid # None => ~HasAccount(t.change.user))
        /\ t.op = "login" => HasAccount(t.user)
        /\ t.op = "request" => ~Recent(t.email) /\ now' = now
  <1>1. ASSUME NEW r \in Req, NEW e \in Email, RequestCheck(r, e)
        PROVE  \E t \in Task : Begun(r, t)
    <2>1. PICK t \in RequestTask : Begin(r, t) /\ t.email = e /\ t.begun = calls + 1
      BY <1>1, Begins
    <2>2. t \in Task /\ t.op = "request"
      BY DEF Task, RequestTask
    <2>3. Begun(r, t)
      BY <1>1, <2>1, <2>2 DEF RequestCheck, Begin
    <2>4. QED BY <2>2, <2>3
  <1>2. ASSUME NEW r \in Req, NEW e \in Email, VerifyRead(r, e)
        PROVE  \E t \in Task : Begun(r, t)
    <2>1. PICK t \in VerifyTask : Begin(r, t) /\ t.code \in Latest(e) /\ t.begun = calls + 1
      BY <1>2, Begins
    <2>2. t \in Task /\ t.op = "verify"
      BY DEF Task, VerifyTask
    <2>3. Begun(r, t)
      BY <1>2, <2>1, <2>2 DEF VerifyRead, Begin
    <2>4. QED BY <2>2, <2>3
  <1>3. ASSUME NEW r \in Req, NEW uid \in Uid, NEW e \in Email, FirebaseRead(r, uid, e)
        PROVE  \E t \in Task : Begun(r, t)
    <2>1. PICK t \in FirebaseTask :
                /\ Begin(r, t) /\ t.begun = calls + 1
                /\ t.change.user # None => /\ HasRow(t.change.user)
                                           /\ t.change.uid # None => ~HasAccount(t.change.user)
      BY <1>3, Begins
    <2>2. t \in Task /\ t.op = "firebase"
      BY DEF Task, FirebaseTask
    <2>3. Begun(r, t)
      BY <1>3, <2>1, <2>2 DEF FirebaseRead, Begin
    <2>4. QED BY <2>2, <2>3
  <1>4. ASSUME NEW r \in Req, NEW uid \in Uid, NEW e \in Email, RegisterRead(r, uid, e)
        PROVE  \E t \in Task : Begun(r, t)
    <2>1. PICK t \in RegisterTask : Begin(r, t) /\ t.begun = calls + 1
      BY <1>4, Begins
    <2>2. t \in Task /\ t.op = "register"
      BY DEF Task, RegisterTask
    <2>3. Begun(r, t)
      BY <1>4, <2>1, <2>2 DEF RegisterRead, Begin
    <2>4. QED BY <2>2, <2>3
  <1>5. ASSUME NEW r \in Req, NEW uid \in Uid, LoginRead(r, uid)
        PROVE  \E t \in Task : Begun(r, t)
    <2>1. PICK t \in LoginTask : Begin(r, t) /\ t.begun = calls + 1 /\ HasAccount(t.user)
      BY <1>5, Begins
    <2>2. t \in Task /\ t.op = "login"
      BY DEF Task, LoginTask
    <2>3. Begun(r, t)
      BY <1>5, <2>1, <2>2 DEF LoginRead, Begin
    <2>4. QED BY <2>2, <2>3
  <1> HIDE DEF Begun
  <1>6. ASSUME NEW r \in Req, \/ RequestCreate(r) \/ VerifyCommit(r) \/ FirebaseCommit(r)
                              \/ RegisterCommit(r) \/ LoginCommit(r) \/ Abort(r)
        PROVE  task' = [task EXCEPT ![r] = None] /\ calls' = calls
    BY <1>6 DEF RequestCreate, VerifyCommit, FirebaseCommit, RegisterCommit, LoginCommit,
       Abort, Done
  <1>7. (\E e \in Email : VerifyRefused(e)) \/ Tick \/ UNCHANGED vars
          => task' = task /\ calls' = calls
    BY DEF VerifyRefused, Tick, vars
  <1>8. \/ task' = task /\ calls' = calls
        \/ \E r \in Req : task' = [task EXCEPT ![r] = None] /\ calls' = calls
        \/ \E r \in Req, t \in Task : Begun(r, t)
    BY <1>1, <1>2, <1>3, <1>4, <1>5, <1>6, <1>7 DEF Next
  <1>9. QED BY <1>8 DEF Begun

LEMMA TablesTyped ==
  ASSUME TypeInv, [Next]_vars
  PROVE  /\ user' \in [User -> UserRow \cup {None}] /\ sessions' \subseteq SessionRow
         /\ tokens' \subseteq TokenRow /\ links' \subseteq LinkRow /\ now' \in Nat
  <1>1. CASE UNCHANGED <<user, sessions, tokens, links>> /\ now' \in {now, now + 1}
    BY <1>1 DEF TypeInv
  <1>2. ASSUME NEW r \in Req, VerifyCommit(r)
        PROVE  /\ user' \in [User -> UserRow \cup {None}] /\ sessions' \subseteq SessionRow
               /\ tokens' \subseteq TokenRow /\ links' \subseteq LinkRow /\ now' \in Nat
    <2>1. UNCHANGED <<tokens, links, now>>
      BY <1>2 DEF VerifyCommit, Done
    <2>2. PICK u \in User, c \in DOMAIN codes :
           /\ c \in Nat /\ task[r].begun \in Nat
           /\ \/ user' = user
              \/ \E row \in UserRow : user' = [user EXCEPT ![u] = row]
           /\ sessions' = sessions \cup
                {[user |-> u, code |-> c, begun |-> task[r].begun, ended |-> calls]}
      BY <1>2, VerifyWrites
    <2>3. user' \in [User -> UserRow \cup {None}]
      BY <2>2 DEF TypeInv
    <2>4. sessions' \subseteq SessionRow
      BY <2>2 DEF TypeInv, SessionRow
    <2>5. QED BY <2>1, <2>3, <2>4 DEF TypeInv
  <1>3. ASSUME NEW r \in Req, FirebaseCommit(r)
        PROVE  /\ user' \in [User -> UserRow \cup {None}] /\ sessions' \subseteq SessionRow
               /\ tokens' \subseteq TokenRow /\ links' \subseteq LinkRow /\ now' \in Nat
    <2>1. UNCHANGED <<tokens, now>>
      BY <1>3 DEF FirebaseCommit, Done
    <2>2. PICK u \in User, row \in UserRow :
           /\ user' = [user EXCEPT ![u] = row]
           /\ sessions' = sessions \cup
                {[user |-> u, code |-> 0, begun |-> task[r].begun, ended |-> calls]}
           /\ \/ links' = links
              \/ /\ task[r].change.uid # None
                 /\ links' = links \cup {[user |-> u, uid |-> task[r].change.uid,
                                          begun |-> task[r].begun, ended |-> calls]}
      BY <1>3, FirebaseWrites
    <2>3. task[r].begun \in Nat /\ (task[r].change.uid # None => task[r].change.uid \in Uid)
      BY <1>3, TaskOf DEF FirebaseCommit, FirebaseTask, Created, Changed
    <2>4. user' \in [User -> UserRow \cup {None}]
      BY <2>2 DEF TypeInv
    <2>5. sessions' \subseteq SessionRow
      BY <2>2, <2>3 DEF TypeInv, SessionRow
    <2>6. links' \subseteq LinkRow
      BY <2>2, <2>3 DEF TypeInv, LinkRow
    <2>7. QED BY <2>1, <2>4, <2>5, <2>6 DEF TypeInv
  <1>4. ASSUME NEW r \in Req, RegisterCommit(r)
        PROVE  /\ user' \in [User -> UserRow \cup {None}] /\ sessions' \subseteq SessionRow
               /\ tokens' \subseteq TokenRow /\ links' \subseteq LinkRow /\ now' \in Nat
    <2>1. UNCHANGED <<sessions, now>>
      BY <1>4 DEF RegisterCommit, Done
    <2>2. PICK u \in User, row \in UserRow :
           /\ user' = [user EXCEPT ![u] = row]
           /\ task[r].uid \in Uid /\ task[r].begun \in Nat
           /\ links' = links \cup {[user |-> u, uid |-> task[r].uid,
                                    begun |-> task[r].begun, ended |-> calls]}
           /\ tokens' = tokens \cup {[user |-> u, uid |-> task[r].uid, until |-> now + JwtTtl]}
      BY <1>4, RegisterWrites
    <2>3. user' \in [User -> UserRow \cup {None}]
      BY <2>2 DEF TypeInv
    <2>4. tokens' \subseteq TokenRow
      BY <2>2 DEF TypeInv, TokenRow
    <2>5. links' \subseteq LinkRow
      BY <2>2 DEF TypeInv, LinkRow
    <2>6. QED BY <2>1, <2>3, <2>4, <2>5 DEF TypeInv
  <1>5. ASSUME NEW r \in Req, LoginCommit(r)
        PROVE  /\ user' \in [User -> UserRow \cup {None}] /\ sessions' \subseteq SessionRow
               /\ tokens' \subseteq TokenRow /\ links' \subseteq LinkRow /\ now' \in Nat
    <2>1. UNCHANGED <<user, sessions, links, now>>
      BY <1>5 DEF LoginCommit, Done
    <2>2. task[r].user \in User /\ task[r].uid \in Uid
      BY <1>5, TaskOf DEF LoginCommit, LoginTask
    <2>3. tokens' \subseteq TokenRow
      BY <1>5, <2>2 DEF LoginCommit, Sign, TypeInv, TokenRow
    <2>4. QED BY <2>1, <2>3 DEF TypeInv
  <1>6. \/ UNCHANGED <<user, sessions, tokens, links>> /\ now' \in {now, now + 1}
        \/ \E r \in Req : \/ VerifyCommit(r) \/ FirebaseCommit(r) \/ RegisterCommit(r)
                          \/ LoginCommit(r)
    BY DEF Next, RequestCheck, RequestCreate, VerifyRead, VerifyRefused, FirebaseRead,
       RegisterRead, LoginRead, Abort, Done, Tick, vars
  <1>7. QED BY <1>1, <1>2, <1>3, <1>4, <1>5, <1>6

LEMMA TypeInvInductive ==
  /\ Init => TypeInv
  /\ TypeInv /\ [Next]_vars => TypeInv'
  <1>1. Init => TypeInv
    BY DEF Init, TypeInv, Doing
  <1>2. ASSUME TypeInv, [Next]_vars
        PROVE  TypeInv'
    <2>1. /\ calls' \in Nat /\ task' \in [Req -> Task \cup {None}]
      BY <1>2, TasksGoOn DEF TypeInv
    <2>2. ASSUME NEW r \in Req, Doing(r, "firebase")', task'[r].change.user # None
          PROVE  user'[task'[r].change.user] # None
      <3>1. PICK u : u = task'[r].change.user
        OBVIOUS
      <3>2. HasRow(u)
        <4>1. CASE task'[r] = task[r]
          <5>1. Doing(r, "firebase") /\ task[r].change.user = u /\ u # None
            BY <2>2, <3>1, <4>1 DEF Doing
          <5>2. \A q \in Req : Doing(q, "firebase") /\ task[q].change.user # None
                              => user[task[q].change.user] # None
            BY <1>2 DEF TypeInv, HasRow
          <5>3. QED BY <5>1, <5>2 DEF HasRow
        <4>2. CASE task'[r] # task[r]
          BY <1>2, <2>2, <3>1, <4>2, TasksGoOn DEF TypeInv, Doing
        <4>3. QED BY <4>1, <4>2
      <3>3. u \in User
        <4>1. task'[r] \in FirebaseTask
          BY <2>1, <2>2 DEF Doing, Task, RequestTask, VerifyTask, FirebaseTask, RegisterTask,
             LoginTask
        <4>2. QED BY <2>2, <3>1, <4>1 DEF FirebaseTask, Created, Changed
      <3>4. HasRow(u)'
        BY <1>2, <3>2, <3>3, RowsStay
      <3>5. QED BY <3>1, <3>4 DEF HasRow
    <2>3. ASSUME NEW r \in Req, Doing(r, "verify")'
          PROVE  task'[r].code \in DOMAIN codes'
      <3>1. CASE task'[r] = task[r]
        BY <1>2, <2>3, <3>1, CodesStay DEF TypeInv, Doing
      <3>2. CASE task'[r] # task[r]
        <4>1. \E e \in Email : task'[r].code \in Latest(e)
          BY <1>2, <2>3, <3>2, TasksGoOn DEF TypeInv, Doing
        <4>2. QED BY <1>2, <4>1, CodesStay DEF Latest
      <3>3. QED BY <3>1, <3>2
    <2>4. \A r \in Req : Doing(r, "firebase")' /\ task'[r].change.user # None
                           => user'[task'[r].change.user] # None
      BY <2>2
    <2>5. QED BY <1>2, <2>1, <2>3, <2>4, TablesTyped, CodesStay DEF TypeInv, HasRow
  <1>3. QED BY <1>1, <1>2

-----------------------------------------------------------------------------
(***************************************************************************)
(* What a step adds to each table: one row at most.                        *)
(***************************************************************************)

LEMMA NewSession ==
  ASSUME TypeInv, [Next]_vars
  PROVE  \/ sessions' = sessions
         \/ \E x \in SessionRow, r \in Req :
              /\ sessions' = sessions \cup {x}
              /\ task[r] # None /\ x.begun = task[r].begun /\ x.ended = calls
              /\ \/ x.code = 0
                 \/ /\ Doing(r, "verify") /\ x.code = task[r].code
                    /\ x.code \in DOMAIN codes /\ codes'[x.code].consumed
  <1>1. ASSUME NEW r \in Req, VerifyCommit(r)
        PROVE  \E x \in SessionRow :
                 /\ sessions' = sessions \cup {x}
                 /\ task[r] # None /\ x.begun = task[r].begun /\ x.ended = calls
                 /\ Doing(r, "verify") /\ x.code = task[r].code
                 /\ x.code \in DOMAIN codes /\ codes'[x.code].consumed
    <2>1. PICK u \in User, c \in DOMAIN codes :
           /\ c = task[r].code /\ c \in Nat /\ task[r].begun \in Nat
           /\ codes' = [codes EXCEPT ![c] = AfterUse(codes[c])]
           /\ sessions' = sessions \cup
                {[user |-> u, code |-> c, begun |-> task[r].begun, ended |-> calls]}
      BY <1>1, VerifyWrites
    <2> DEFINE x == [user |-> u, code |-> c, begun |-> task[r].begun, ended |-> calls]
    <2>2. codes[c] \in CodeRow
      BY DEF TypeInv
    <2>3. codes'[c].consumed
      BY <2>1, <2>2, UsedCode DEF TypeInv
    <2>4. x \in SessionRow
      BY <2>1 DEF SessionRow, TypeInv
    <2>5. Doing(r, "verify") /\ task[r] # None
      BY <1>1 DEF VerifyCommit, Doing
    <2>6. QED BY <2>1, <2>3, <2>4, <2>5
  <1>2. ASSUME NEW r \in Req, FirebaseCommit(r)
        PROVE  \E x \in SessionRow :
                 /\ sessions' = sessions \cup {x}
                 /\ task[r] # None /\ x.begun = task[r].begun /\ x.ended = calls
                 /\ x.code = 0
    <2>1. PICK u \in User :
           sessions' = sessions \cup
                {[user |-> u, code |-> 0, begun |-> task[r].begun, ended |-> calls]}
      BY <1>2, FirebaseWrites
    <2>2. task[r] # None /\ task[r].begun \in Nat
      BY <1>2, TaskOf DEF FirebaseCommit, Doing
    <2>3. [user |-> u, code |-> 0, begun |-> task[r].begun, ended |-> calls] \in SessionRow
      BY <2>2 DEF SessionRow, TypeInv
    <2>4. QED BY <2>1, <2>2, <2>3
  <1>3. sessions' = sessions \/ \E r \in Req : VerifyCommit(r) \/ FirebaseCommit(r)
    BY DEF Next, RequestCheck, RequestCreate, VerifyRead, VerifyRefused, FirebaseRead,
       RegisterRead, RegisterCommit, LoginRead, LoginCommit, Abort, Tick, vars
  <1>4. QED BY <1>1, <1>2, <1>3

LEMMA NewLink ==
  ASSUME TypeInv, [Next]_vars
  PROVE  \/ links' = links
         \/ \E x \in LinkRow, r \in Req :
              /\ links' = links \cup {x} /\ HasAccount(x.user)'
              /\ task[r] # None /\ x.begun = task[r].begun /\ x.ended = calls
              /\ \/ ~HasRow(x.user)
                 \/ /\ Doing(r, "firebase") /\ x.user = task[r].change.user
                    /\ task[r].change.uid # None
  <1>1. ASSUME NEW u \in User, NEW row \in UserRow, row.uid # None,
               user' = [user EXCEPT ![u] = row]
        PROVE  HasAccount(u)'
    BY <1>1 DEF HasAccount, TypeInv
  <1>2. ASSUME NEW r \in Req, FirebaseCommit(r), links' # links
        PROVE  \E x \in LinkRow :
                 /\ links' = links \cup {x} /\ HasAccount(x.user)'
                 /\ task[r] # None /\ x.begun = task[r].begun /\ x.ended = calls
                 /\ \/ ~HasRow(x.user)
                    \/ /\ Doing(r, "firebase") /\ x.user = task[r].change.user
                       /\ task[r].change.uid # None
    <2>1. PICK u \in User, row \in UserRow :
           /\ user' = [user EXCEPT ![u] = row]
           /\ ~HasRow(u) \/ u = task[r].change.user
           /\ task[r].change.uid # None /\ row.uid # None
           /\ links' = links \cup {[user |-> u, uid |-> task[r].change.uid,
                                    begun |-> task[r].begun, ended |-> calls]}
      BY <1>2, FirebaseWrites
    <2>2. /\ task[r] # None /\ Doing(r, "firebase") /\ task[r].begun \in Nat
          /\ task[r].change.uid \in Uid
      BY <1>2, <2>1, TaskOf DEF FirebaseCommit, Doing, FirebaseTask, Created, Changed
    <2> DEFINE x == [user |-> u, uid |-> task[r].change.uid,
                     begun |-> task[r].begun, ended |-> calls]
    <2>3. x \in LinkRow /\ x.user = u
      BY <2>2 DEF LinkRow, TypeInv
    <2>4. HasAccount(u)'
      BY <1>1, <2>1
    <2>5. QED BY <2>1, <2>2, <2>3, <2>4
  <1>3. ASSUME NEW r \in Req, RegisterCommit(r)
        PROVE  \E x \in LinkRow :
                 /\ links' = links \cup {x} /\ HasAccount(x.user)'
                 /\ task[r] # None /\ x.begun = task[r].begun /\ x.ended = calls
                 /\ ~HasRow(x.user)
    <2>1. PICK u \in User, row \in UserRow :
           /\ user' = [user EXCEPT ![u] = row]
           /\ ~HasRow(u) /\ row.uid # None
           /\ task[r].uid \in Uid /\ task[r].begun \in Nat
           /\ links' = links \cup {[user |-> u, uid |-> task[r].uid,
                                    begun |-> task[r].begun, ended |-> calls]}
      BY <1>3, RegisterWrites
    <2> DEFINE x == [user |-> u, uid |-> task[r].uid, begun |-> task[r].begun, ended |-> calls]
    <2>2. x \in LinkRow /\ x.user = u
      BY <2>1 DEF LinkRow, TypeInv
    <2>3. HasAccount(u)' /\ task[r] # None
      BY <1>1, <1>3, <2>1 DEF RegisterCommit, Doing
    <2>4. QED BY <2>1, <2>2, <2>3
  <1>4. links' = links \/ \E r \in Req : RegisterCommit(r) \/ FirebaseCommit(r)
    BY DEF Next, RequestCheck, RequestCreate, VerifyRead, VerifyRefused, VerifyCommit,
       FirebaseRead, RegisterRead, LoginRead, LoginCommit, Abort, Tick, vars
  <1>5. QED BY <1>2, <1>3, <1>4

LEMMA NewToken ==
  ASSUME TypeInv, [Next]_vars
  PROVE  \/ tokens' = tokens
         \/ \E x \in TokenRow, r \in Req :
              /\ tokens' = tokens \cup {x}
              /\ HasAccount(x.user)' \/ (Doing(r, "login") /\ x.user = task[r].user)
  <1>1. ASSUME NEW r \in Req, RegisterCommit(r)
        PROVE  \E x \in TokenRow : tokens' = tokens \cup {x} /\ HasAccount(x.user)'
    <2>1. PICK u \in User, row \in UserRow :
           /\ user' = [user EXCEPT ![u] = row] /\ row.uid # None /\ task[r].uid \in Uid
           /\ tokens' = tokens \cup {[user |-> u, uid |-> task[r].uid, until |-> now + JwtTtl]}
      BY <1>1, RegisterWrites
    <2> DEFINE x == [user |-> u, uid |-> task[r].uid, until |-> now + JwtTtl]
    <2>2. x \in TokenRow /\ x.user = u
      BY <2>1 DEF TokenRow, TypeInv
    <2>3. HasAccount(u)'
      BY <2>1 DEF HasAccount, TypeInv
    <2>4. QED BY <2>1, <2>2, <2>3
  <1>2. ASSUME NEW r \in Req, LoginCommit(r)
        PROVE  \E x \in TokenRow : /\ tokens' = tokens \cup {x}
                                   /\ Doing(r, "login") /\ x.user = task[r].user
    <2>1. task[r].user \in User /\ task[r].uid \in Uid /\ Doing(r, "login")
      BY <1>2, TaskOf DEF LoginCommit, LoginTask
    <2> DEFINE x == [user |-> task[r].user, uid |-> task[r].uid, until |-> now + JwtTtl]
    <2>2. x \in TokenRow /\ x.user = task[r].user
      BY <2>1 DEF TokenRow, TypeInv
    <2>3. tokens' = tokens \cup {x}
      BY <1>2 DEF LoginCommit, Sign
    <2>4. QED BY <2>1, <2>2, <2>3
  <1>3. tokens' = tokens \/ \E r \in Req : RegisterCommit(r) \/ LoginCommit(r)
    BY DEF Next, RequestCheck, RequestCreate, VerifyRead, VerifyRefused, VerifyCommit,
       FirebaseRead, FirebaseCommit, RegisterRead, LoginRead, Abort, Done, Tick, vars
  <1>4. ASSUME NEW r \in Req, RegisterCommit(r) \/ LoginCommit(r)
        PROVE  \E x \in TokenRow :
                 /\ tokens' = tokens \cup {x}
                 /\ HasAccount(x.user)' \/ (Doing(r, "login") /\ x.user = task[r].user)
    <2>1. CASE RegisterCommit(r)
      BY <1>1, <2>1
    <2>2. CASE LoginCommit(r)
      BY <1>2, <2>2
    <2>3. QED BY <1>4, <2>1, <2>2
  <1>5. QED BY <1>3, <1>4

\* Codes keep what they were sent with; the one that is new was asked for by a request.
SameCode(c, d) ==
  /\ c.email = d.email /\ c.created = d.created /\ c.begun = d.begun /\ c.ended = d.ended
  /\ c.consumed => d.consumed
LEMMA NewCode ==
  ASSUME TypeInv, [Next]_vars
  PROVE  /\ \A i \in DOMAIN codes : SameCode(codes[i], codes'[i])
         /\ \/ DOMAIN codes' = DOMAIN codes
            \/ \E r \in Req, c \in CodeRow, n \in Nat :
                 /\ DOMAIN codes' = DOMAIN codes \cup {n} /\ n \notin DOMAIN codes
                 /\ codes'[n] = c /\ Doing(r, "request") /\ now' = now
                 /\ c.email = task[r].email /\ c.created = now
                 /\ c.begun = task[r].begun /\ c.ended = calls
  <1>0. codes \in Seq(CodeRow)
    BY DEF TypeInv
  <1>1. CASE codes' = codes
    BY <1>1 DEF SameCode
  <1>2. ASSUME NEW r \in Req, VerifyCommit(r)
        PROVE  /\ DOMAIN codes' = DOMAIN codes
               /\ \A i \in DOMAIN codes : SameCode(codes[i], codes'[i])
    <2>1. PICK c \in DOMAIN codes : codes' = [codes EXCEPT ![c] = AfterUse(codes[c])]
      BY <1>2, VerifyWrites
    <2>2. codes[c] \in CodeRow
      BY <1>0
    <2>3. SameCode(codes[c], AfterUse(codes[c]))
      BY <2>2, UsedCode DEF SameCode
    <2>4. QED BY <1>0, <2>1, <2>3 DEF SameCode
  <1>3. ASSUME NEW r \in Req, RequestCreate(r)
        PROVE  /\ \A i \in DOMAIN codes : SameCode(codes[i], codes'[i])
               /\ \E c \in CodeRow, n \in Nat :
                 /\ DOMAIN codes' = DOMAIN codes \cup {n} /\ n \notin DOMAIN codes
                 /\ codes'[n] = c /\ Doing(r, "request") /\ now' = now
                 /\ c.email = task[r].email /\ c.created = now
                 /\ c.begun = task[r].begun /\ c.ended = calls
    <2>1. PICK c \in CodeRow : /\ codes' = Append(codes, c)
                               /\ c.email = task[r].email /\ c.created = now
                               /\ c.begun = task[r].begun /\ c.ended = calls
      BY <1>3, SentCode
    <2>2. /\ Len(codes) \in Nat /\ DOMAIN codes = 1 .. Len(codes)
          /\ DOMAIN codes' = 1 .. (Len(codes) + 1) /\ codes'[Len(codes) + 1] = c
          /\ \A i \in DOMAIN codes : codes'[i] = codes[i]
      BY <1>0, <2>1, AppendProperties
    <2>3. PICK n \in Nat : n = Len(codes) + 1
      BY <2>2
    <2>4. DOMAIN codes' = DOMAIN codes \cup {n} /\ n \notin DOMAIN codes
      BY <2>2, <2>3
    <2>5. \A i \in DOMAIN codes : SameCode(codes[i], codes'[i])
      BY <2>2 DEF SameCode
    <2>6. Doing(r, "request") /\ now' = now
      BY <1>3 DEF RequestCreate, Done
    <2>7. QED BY <2>1, <2>2, <2>3, <2>4, <2>5, <2>6
  <1>4. codes' = codes \/ \E r \in Req : RequestCreate(r) \/ VerifyCommit(r)
    BY RefusedKeeps DEF Next, RequestCheck, VerifyRead, FirebaseRead, FirebaseCommit,
       RegisterRead, RegisterCommit, LoginRead, LoginCommit, Abort, Tick, vars
  <1>5. QED BY <1>1, <1>2, <1>3, <1>4

\* The requests at work after a step: they were at work before it, or have just begun.
LEMMA AtWork ==
  ASSUME TypeInv, [Next]_vars, NEW r \in Req, task'[r] # None
  PROVE  \/ task'[r] = task[r] /\ task[r] # None
         \/ /\ task'[r] \in Task /\ task'[r].begun = calls + 1 /\ calls' = calls + 1
            /\ UNCHANGED <<user, codes, sessions, tokens, links>>
            /\ task'[r].op = "verify" => \E e \in Email : task'[r].code \in Latest(e)
            /\ task'[r].op = "firebase" /\ task'[r].change.user # None =>
                 /\ HasRow(task'[r].change.user)
                 /\ task'[r].change.uid # None => ~HasAccount(task'[r].change.user)
            /\ task'[r].op = "login" => HasAccount(task'[r].user)
            /\ task'[r].op = "request" => ~Recent(task'[r].email) /\ now' = now
  <1>1. CASE task'[r] = task[r]
    BY <1>1
  <1>2. CASE task'[r] # task[r]
    BY <1>2, TasksGoOn DEF TypeInv
  <1>3. QED BY <1>1, <1>2

-----------------------------------------------------------------------------
(***************************************************************************)
(* Times, as numbers of requests started: everything began before it       *)
(* ended, and nothing is ahead of now.                                     *)
(***************************************************************************)

TimesInv ==
  /\ \A r \in Req : task[r] # None => task[r].begun <= calls
  /\ \A x \in sessions : x.begun <= x.ended /\ x.ended <= calls
  /\ \A x \in links : x.begun <= x.ended /\ x.ended <= calls
  /\ \A i \in DOMAIN codes : /\ codes[i].begun <= codes[i].ended /\ codes[i].ended <= calls
                             /\ codes[i].created <= now

LEMMA TimesInvInductive ==
  /\ Init => TimesInv
  /\ TypeInv /\ TimesInv /\ [Next]_vars => TimesInv'
  <1>1. Init => TimesInv
    BY DEF Init, TimesInv
  <1>2. ASSUME TypeInv, TimesInv, [Next]_vars
        PROVE  TimesInv'
    <2>0. /\ calls \in Nat /\ calls' \in Nat /\ calls <= calls'
          /\ now \in Nat /\ now' \in Nat /\ now <= now'
      <3>1. calls' = calls \/ calls' = calls + 1
        BY <1>2, TasksGoOn
      <3>2. now' = now \/ now' = now + 1
        BY <1>2 DEF Next, RequestCheck, RequestCreate, VerifyRead, VerifyRefused, VerifyCommit,
           FirebaseRead, FirebaseCommit, RegisterRead, RegisterCommit, LoginRead, LoginCommit,
           Abort, Done, Tick, vars
      <3>3. QED BY <1>2, <3>1, <3>2 DEF TypeInv
    <2>1. ASSUME NEW r \in Req, task'[r] # None
          PROVE  task'[r].begun <= calls'
      <3>1. task'[r] = task[r] /\ task[r] # None => task[r].begun \in Nat /\ task[r].begun <= calls
        BY <1>2, TaskOf DEF TimesInv
      <3>2. QED BY <1>2, <2>0, <2>1, <3>1, AtWork
    <2>2. ASSUME NEW x \in sessions'
          PROVE  x.begun <= x.ended /\ x.ended <= calls'
      <3>1. CASE x \in sessions
        <4>1. x.ended \in Nat
          BY <1>2, <3>1 DEF TypeInv, SessionRow
        <4>2. QED BY <1>2, <2>0, <3>1, <4>1 DEF TimesInv
      <3>2. CASE x \notin sessions
        BY <1>2, <2>0, <2>2, <3>2, NewSession DEF TimesInv
      <3>3. QED BY <3>1, <3>2
    <2>3. ASSUME NEW x \in links'
          PROVE  x.begun <= x.ended /\ x.ended <= calls'
      <3>1. CASE x \in links
        <4>1. x.ended \in Nat
          BY <1>2, <3>1 DEF TypeInv, LinkRow
        <4>2. QED BY <1>2, <2>0, <3>1, <4>1 DEF TimesInv
      <3>2. CASE x \notin links
        BY <1>2, <2>0, <2>3, <3>2, NewLink DEF TimesInv
      <3>3. QED BY <3>1, <3>2
    <2>4. ASSUME NEW i \in DOMAIN codes'
          PROVE  /\ codes'[i].begun <= codes'[i].ended /\ codes'[i].ended <= calls'
                 /\ codes'[i].created <= now'
      <3>1. CASE i \in DOMAIN codes
        <4>1. codes[i] \in CodeRow
          BY <1>2, <3>1 DEF TypeInv
        <4>2. SameCode(codes[i], codes'[i])
          BY <1>2, <3>1, NewCode
        <4>3. /\ codes[i].begun <= codes[i].ended /\ codes[i].ended <= calls
              /\ codes[i].created <= now
          BY <1>2, <3>1 DEF TimesInv
        <4>4. QED BY <2>0, <4>1, <4>2, <4>3 DEF SameCode, CodeRow
      <3>2. CASE i \notin DOMAIN codes
        <4>1. PICK r \in Req, c \in CodeRow, n \in Nat :
                /\ DOMAIN codes' = DOMAIN codes \cup {n}
                /\ codes'[n] = c /\ Doing(r, "request")
                /\ c.created = now /\ c.begun = task[r].begun /\ c.ended = calls
          <5>1. DOMAIN codes' # DOMAIN codes
            BY <2>4, <3>2
          <5>2. QED BY <1>2, <5>1, NewCode
        <4>2. task[r].begun <= calls
          BY <1>2, <4>1 DEF TimesInv, Doing
        <4>3. codes'[i] = c
          BY <2>4, <3>2, <4>1
        <4>4. QED BY <2>0, <4>1, <4>2, <4>3
      <3>3. QED BY <3>1, <3>2
    <2>5. QED BY <2>1, <2>2, <2>3, <2>4 DEF TimesInv
  <1>3. QED BY <1>1, <1>2

-----------------------------------------------------------------------------
(***************************************************************************)
(* Tokens.  A token, or a sign-in that will give one out, is of a user who *)
(* is linked to some account, and users stay linked.                       *)
(***************************************************************************)

TokenInv ==
  /\ \A x \in tokens : HasAccount(x.user)
  /\ \A r \in Req : Doing(r, "login") => HasAccount(task[r].user)

LEMMA TokenInvInductive ==
  /\ Init => TokenInv
  /\ TypeInv /\ TokenInv /\ [Next]_vars => TokenInv'
  <1>1. Init => TokenInv
    BY DEF Init, TokenInv, Doing
  <1>2. ASSUME TypeInv, TokenInv, [Next]_vars, NEW x \in tokens'
        PROVE  HasAccount(x.user)'
    <2>1. PICK u : u = x.user
      OBVIOUS
    <2>2. CASE x \in tokens
      <3>1. HasAccount(u) /\ u \in User
        BY <1>2, <2>1, <2>2 DEF TokenInv, TypeInv, TokenRow
      <3>2. HasAccount(u)'
        BY <1>2, <3>1, RowsStay
      <3>3. QED BY <2>1, <3>2 DEF HasAccount
    <2>3. CASE x \notin tokens
      <3>1. HasAccount(x.user)' \/ \E r \in Req : Doing(r, "login") /\ x.user = task[r].user
        BY <1>2, <2>3, NewToken
      <3>2. ASSUME NEW r \in Req, Doing(r, "login"), x.user = task[r].user
            PROVE  HasAccount(x.user)'
        <4>1. HasAccount(u) /\ u \in User
          BY <1>2, <2>1, <3>2, TaskOf DEF TokenInv, LoginTask
        <4>2. HasAccount(u)'
          BY <1>2, <4>1, RowsStay
        <4>3. QED BY <2>1, <4>2 DEF HasAccount
      <3>3. QED BY <3>1, <3>2
    <2>4. QED BY <2>2, <2>3
  <1>3. ASSUME TypeInv, TokenInv, [Next]_vars, NEW r \in Req, Doing(r, "login")'
        PROVE  user'[task'[r].user] # None /\ user'[task'[r].user].uid # None
    <2>1. PICK u : u = task'[r].user
      OBVIOUS
    <2>2. TypeInv'
      BY <1>3, TypeInvInductive
    <2>3. task'[r] # None /\ task'[r].op = "login" /\ task'[r] \in Task
      BY <1>3, <2>2 DEF Doing, TypeInv
    <2>4. u \in User
      BY <2>1, <2>3 DEF Task, RequestTask, VerifyTask, FirebaseTask, RegisterTask, LoginTask
    <2>5. HasAccount(u)
      <3>1. CASE task'[r] = task[r]
        BY <1>3, <2>1, <2>3, <3>1 DEF TokenInv, Doing, HasAccount
      <3>2. CASE task'[r] # task[r]
        BY <1>3, <2>1, <2>3, <3>2, AtWork
      <3>3. QED BY <3>1, <3>2
    <2>6. HasAccount(u)'
      BY <1>3, <2>4, <2>5, RowsStay
    <2>7. QED BY <2>1, <2>6 DEF HasAccount
  <1>4. QED BY <1>1, <1>2, <1>3 DEF TokenInv, HasAccount

\* A signed token admits its bearer only as the user of the account that it was signed for,
\* however sign-ins, registrations and changes of address overlap.
THEOREM TokensTellTheirAccount == Spec => []TokenOfLinkedAccount
  <1>1. TypeInv /\ TokenInv => TokenOfLinkedAccount
    BY DEF TokenInv, TokenOfLinkedAccount, Admits, HasAccount
  <1>2. QED BY <1>1, TypeInvInductive, TokenInvInductive, PTL DEF Spec

-----------------------------------------------------------------------------
(***************************************************************************)
(* Links.  A sign-in that is to link a user found that user without an     *)
(* account, so each link of the user that there is now was made since.     *)
(***************************************************************************)

LinkInv ==
  /\ \A x \in links : HasAccount(x.user)
  /\ \A x, y \in links : x.user = y.user => Together(x, y)
  /\ \A r \in Req : \A x \in links :
       Doing(r, "firebase") /\ task[r].change.user = x.user /\ task[r].change.uid # None
         => task[r].begun <= x.ended

LEMMA LinkInvInductive ==
  /\ Init => LinkInv
  /\ TypeInv /\ TimesInv /\ LinkInv /\ [Next]_vars => LinkInv'
  <1>1. Init => LinkInv
    BY DEF Init, LinkInv
  <1>2. ASSUME TypeInv, TimesInv, LinkInv, [Next]_vars
        PROVE  LinkInv'
    <2>1. ASSUME NEW x \in links
          PROVE  HasAccount(x.user)'
      <3>1. PICK u \in User : u = x.user
        BY <1>2 DEF TypeInv, LinkRow
      <3>2. HasAccount(u)'
        BY <1>2, <3>1, RowsStay DEF LinkInv
      <3>3. QED BY <3>1, <3>2 DEF HasAccount
    <2>2. CASE links' = links
      <3>1. ASSUME NEW r \in Req, NEW x \in links, Doing(r, "firebase")',
                   task'[r].change.user = x.user, task'[r].change.uid # None
            PROVE  task'[r].begun <= x.ended
        <4>1. task'[r] # None /\ task'[r].op = "firebase"
          BY <3>1 DEF Doing
        <4>2. x.user \in User /\ HasAccount(x.user)
          BY <1>2 DEF TypeInv, LinkRow, LinkInv
        <4>3. task'[r] = task[r]
          BY <1>2, <3>1, <4>1, <4>2, AtWork
        <4>4. Doing(r, "firebase")
          BY <4>1, <4>3 DEF Doing
        <4>5. QED BY <1>2, <3>1, <4>3, <4>4 DEF LinkInv
      <3>2. QED BY <1>2, <2>1, <2>2, <3>1 DEF LinkInv, Together
    <2>3. CASE links' # links
      <3>1. PICK y \in LinkRow, q \in Req :
              /\ links' = links \cup {y} /\ HasAccount(y.user)'
              /\ task[q] # None /\ y.begun = task[q].begun /\ y.ended = calls
              /\ \/ ~HasRow(y.user)
                 \/ /\ Doing(q, "firebase") /\ y.user = task[q].change.user
                    /\ task[q].change.uid # None
        BY <1>2, <2>3, NewLink
      <3>2. /\ calls \in Nat /\ y.begun \in Nat /\ y.begun <= y.ended
        BY <1>2, <3>1 DEF TypeInv, TimesInv, LinkRow
      <3>3. ASSUME NEW x \in links, x.user = y.user
            PROVE  Together(x, y) /\ Together(y, x)
        <4>1. x.begun \in Nat /\ x.ended \in Nat /\ x.begun <= x.ended /\ x.ended <= calls
          BY <1>2 DEF TypeInv, TimesInv, LinkRow
        <4>2. HasRow(y.user)
          BY <1>2, <3>3 DEF LinkInv, HasAccount, HasRow
        <4>3. y.begun <= x.ended
          BY <1>2, <3>1, <3>3, <4>2 DEF LinkInv
        <4>4. QED BY <3>1, <3>2, <4>1, <4>3 DEF Together
      <3>4. ASSUME NEW x \in links', NEW z \in links', x.user = z.user
            PROVE  Together(x, z)
        <4>1. Together(y, y)
          BY <3>2 DEF Together
        <4>2. QED BY <1>2, <3>1, <3>3, <3>4, <4>1 DEF LinkInv
      <3>5. ASSUME NEW r \in Req, NEW x \in links', Doing(r, "firebase")',
                   task'[r].change.user = x.user, task'[r].change.uid # None
            PROVE  task'[r].begun <= x.ended
        <4>1. task'[r] # None /\ task'[r].op = "firebase"
          BY <3>5 DEF Doing
        <4>2. task'[r] = task[r] /\ task[r] # None
          BY <1>2, <2>3, <4>1, AtWork
        <4>3. Doing(r, "firebase")
          BY <4>1, <4>2 DEF Doing
        <4>4. CASE x \in links
          BY <1>2, <3>5, <4>2, <4>3, <4>4 DEF LinkInv
        <4>5. CASE x = y
          BY <1>2, <3>1, <4>2, <4>5 DEF TimesInv
        <4>6. QED BY <3>1, <3>5, <4>4, <4>5
      <3>6. \A x \in links' : HasAccount(x.user)'
        BY <2>1, <3>1
      <3>7. QED BY <3>4, <3>5, <3>6 DEF LinkInv, Together
    <2>4. QED BY <2>2, <2>3
  <1>3. QED BY <1>1, <1>2

\* The account that a user is linked to is replaced only by a sign-in that overlapped the
\* one that made the link.
THEOREM LinksStay == Spec => []LinkReplacedOnlyTogether
  <1>1. LinkInv => LinkReplacedOnlyTogether
    BY DEF LinkInv, LinkReplacedOnlyTogether
  <1>2. QED BY <1>1, TypeInvInductive, TimesInvInductive, LinkInvInductive, PTL DEF Spec

-----------------------------------------------------------------------------
(***************************************************************************)
(* Codes that are used.  A session consumes its code for good, and a       *)
(* verification found its code open, so each session of that code that     *)
(* there is now was stored since.                                          *)
(***************************************************************************)

UsedInv ==
  /\ \A s \in sessions : s.code # 0 => s.code \in DOMAIN codes /\ codes[s.code].consumed
  /\ \A s, t \in sessions : s.code = t.code /\ s.code # 0 => Together(s, t)
  /\ \A r \in Req : \A s \in sessions :
       Doing(r, "verify") /\ task[r].code = s.code => task[r].begun <= s.ended

LEMMA UsedInvInductive ==
  /\ Init => UsedInv
  /\ TypeInv /\ TimesInv /\ UsedInv /\ [Next]_vars => UsedInv'
  <1>1. Init => UsedInv
    BY DEF Init, UsedInv
  <1>2. ASSUME TypeInv, TimesInv, UsedInv, [Next]_vars
        PROVE  UsedInv'
    <2>1. ASSUME NEW i \in DOMAIN codes
          PROVE  i \in DOMAIN codes' /\ (codes[i].consumed => codes'[i].consumed)
      <3>1. SameCode(codes[i], codes'[i])
        BY <1>2, NewCode
      <3>2. QED BY <1>2, <3>1, CodesStay DEF SameCode
    <2>2. CASE sessions' = sessions
      <3>1. ASSUME NEW r \in Req, NEW s \in sessions, Doing(r, "verify")', task'[r].code = s.code
            PROVE  task'[r].begun <= s.ended
        <4>1. task'[r] # None /\ task'[r].op = "verify"
          BY <3>1 DEF Doing
        <4>2. CASE task'[r] = task[r]
          BY <1>2, <3>1, <4>1, <4>2 DEF UsedInv, Doing
        <4>3. CASE task'[r] # task[r]
          <5>1. PICK e \in Email : task'[r].code \in Latest(e)
            BY <1>2, <4>1, <4>3, AtWork
          <5>2. s.code \in DOMAIN codes /\ ~codes[s.code].consumed /\ s.code # 0
            <6>1. s.code \in DOMAIN codes /\ ~codes[s.code].consumed
              BY <3>1, <5>1 DEF Latest
            <6>2. 0 \notin DOMAIN codes
              BY <1>2 DEF TypeInv
            <6>3. QED BY <6>1, <6>2
          <5>3. QED BY <1>2, <5>2 DEF UsedInv
        <4>4. QED BY <4>2, <4>3
      <3>2. \A s \in sessions : s.code # 0 => s.code \in DOMAIN codes' /\ codes'[s.code].consumed
        BY <1>2, <2>1 DEF UsedInv
      <3>3. QED BY <1>2, <2>2, <3>1, <3>2 DEF UsedInv, Together
    <2>3. CASE sessions' # sessions
      <3>1. PICK y \in SessionRow, q \in Req :
              /\ sessions' = sessions \cup {y}
              /\ task[q] # None /\ y.begun = task[q].begun /\ y.ended = calls
              /\ \/ y.code = 0
                 \/ /\ Doing(q, "verify") /\ y.code = task[q].code
                    /\ y.code \in DOMAIN codes /\ codes'[y.code].consumed
        BY <1>2, <2>3, NewSession
      <3>2. /\ calls \in Nat /\ y.begun \in Nat /\ y.begun <= y.ended
        BY <1>2, <3>1 DEF TypeInv, TimesInv, SessionRow
      <3>3. ASSUME NEW x \in sessions, x.code = y.code, y.code # 0
            PROVE  Together(x, y) /\ Together(y, x)
        <4>1. x.begun \in Nat /\ x.ended \in Nat /\ x.begun <= x.ended /\ x.ended <= calls
          BY <1>2 DEF TypeInv, TimesInv, SessionRow
        <4>2. y.begun <= x.ended
          BY <1>2, <3>1, <3>3 DEF UsedInv
        <4>3. QED BY <3>1, <3>2, <4>1, <4>2 DEF Together
      <3>4. ASSUME NEW x \in sessions', NEW z \in sessions', x.code = z.code, x.code # 0
            PROVE  Together(x, z)
        <4>1. Together(y, y)
          BY <3>2 DEF Together
        <4>2. QED BY <1>2, <3>1, <3>3, <3>4, <4>1 DEF UsedInv
      <3>5. ASSUME NEW r \in Req, NEW x \in sessions', Doing(r, "verify")',
                   task'[r].code = x.code
            PROVE  task'[r].begun <= x.ended
        <4>1. task'[r] # None /\ task'[r].op = "verify"
          BY <3>5 DEF Doing
        <4>2. task'[r] = task[r] /\ task[r] # None
          BY <1>2, <2>3, <4>1, AtWork
        <4>3. Doing(r, "verify")
          BY <4>1, <4>2 DEF Doing
        <4>4. CASE x \in sessions
          BY <1>2, <3>5, <4>2, <4>3, <4>4 DEF UsedInv
        <4>5. CASE x = y
          BY <1>2, <3>1, <4>2, <4>5 DEF TimesInv
        <4>6. QED BY <3>1, <3>5, <4>4, <4>5
      <3>6. ASSUME NEW x \in sessions', x.code # 0
            PROVE  x.code \in DOMAIN codes' /\ codes'[x.code].consumed
        <4>1. CASE x \in sessions
          BY <1>2, <2>1, <3>6, <4>1 DEF UsedInv
        <4>2. CASE x = y
          BY <2>1, <3>1, <3>6, <4>2
        <4>3. QED BY <3>1, <3>6, <4>1, <4>2
      <3>7. QED BY <3>4, <3>5, <3>6 DEF UsedInv, Together
    <2>4. QED BY <2>2, <2>3
  <1>3. QED BY <1>1, <1>2

\* A code that was sent signs in once; that it signs in twice takes two verifications that
\* overlap.
THEOREM CodesSignInOnce == Spec => []CodeReusedOnlyTogether
  <1>1. UsedInv => CodeReusedOnlyTogether
    BY DEF UsedInv, CodeReusedOnlyTogether
  <1>2. QED BY <1>1, TypeInvInductive, TimesInvInductive, UsedInvInductive, PTL DEF Spec

-----------------------------------------------------------------------------
(***************************************************************************)
(* Codes that are sent.  A request that is to send a code found none that  *)
(* is recent; a code that is recent by now was stored since.               *)
(***************************************************************************)

CooldownInv ==
  /\ \A i, j \in DOMAIN codes :
       /\ i # j /\ codes[i].email = codes[j].email
       /\ codes[j].created \in codes[i].created .. codes[i].created + Cooldown
       => Together(codes[i], codes[j])
  /\ \A r \in Req : \A i \in DOMAIN codes :
       Doing(r, "request") /\ task[r].email = codes[i].email
         => task[r].begun <= codes[i].ended \/ codes[i].created + Cooldown < now

LEMMA CooldownInvInductive ==
  /\ Init => CooldownInv
  /\ TypeInv /\ TimesInv /\ CooldownInv /\ [Next]_vars => CooldownInv'
  <1>1. Init => CooldownInv
    BY DEF Init, CooldownInv
  <1>2. ASSUME TypeInv, TimesInv, CooldownInv, [Next]_vars
        PROVE  CooldownInv'
    <2>0. /\ calls \in Nat /\ now \in Nat /\ now' \in Nat /\ now <= now' /\ Cooldown \in Nat
      <3>1. now' = now \/ now' = now + 1
        BY <1>2 DEF Next, RequestCheck, RequestCreate, VerifyRead, VerifyRefused, VerifyCommit,
           FirebaseRead, FirebaseCommit, RegisterRead, RegisterCommit, LoginRead, LoginCommit,
           Abort, Done, Tick, vars
      <3>2. QED BY <1>2, <3>1 DEF TypeInv
    <2>1. ASSUME NEW i \in DOMAIN codes
          PROVE  /\ codes[i] \in CodeRow /\ SameCode(codes[i], codes'[i])
                 /\ codes[i].begun <= codes[i].ended /\ codes[i].ended <= calls
                 /\ codes[i].created <= now
      BY <1>2, NewCode DEF TypeInv, TimesInv
    <2>2. ASSUME NEW r \in Req, NEW i \in DOMAIN codes, Doing(r, "request")',
                 task'[r].email = codes'[i].email
          PROVE  task'[r].begun <= codes'[i].ended \/ codes'[i].created + Cooldown < now'
      <3>1. /\ codes'[i].ended = codes[i].ended /\ codes'[i].email = codes[i].email
            /\ codes'[i].created = codes[i].created
            /\ codes[i].ended \in Nat /\ codes[i].created \in Nat
        BY <2>1 DEF SameCode, CodeRow
      <3>2. task'[r] # None /\ task'[r].op = "request"
        BY <2>2 DEF Doing
      <3>3. CASE task'[r] = task[r]
        <4>1. task[r].begun <= codes[i].ended \/ codes[i].created + Cooldown < now
          BY <1>2, <2>2, <3>1, <3>2, <3>3 DEF CooldownInv, Doing
        <4>2. QED BY <2>0, <3>1, <3>3, <4>1
      <3>4. CASE task'[r] # task[r]
        <4>1. ~Recent(task'[r].email)
          BY <1>2, <3>2, <3>4, AtWork
        <4>2. ~(codes[i].created >= now - Cooldown)
          BY <2>2, <3>1, <4>1 DEF Recent
        <4>3. QED BY <2>0, <3>1, <4>2
      <3>5. QED BY <3>3, <3>4
    <2>3. ASSUME NEW i \in DOMAIN codes, NEW j \in DOMAIN codes, i # j,
                 codes'[i].email = codes'[j].email,
                 codes'[j].created \in codes'[i].created .. codes'[i].created + Cooldown
          PROVE  Together(codes'[i], codes'[j])
      BY <1>2, <2>1, <2>3 DEF CooldownInv, SameCode, Together
    <2>4. CASE DOMAIN codes' = DOMAIN codes
      BY <2>2, <2>3, <2>4 DEF CooldownInv, Together
    <2>5. CASE DOMAIN codes' # DOMAIN codes
      <3>1. PICK q \in Req, c \in CodeRow, n \in Nat :
              /\ DOMAIN codes' = DOMAIN codes \cup {n} /\ n \notin DOMAIN codes
              /\ codes'[n] = c /\ Doing(q, "request") /\ now' = now
              /\ c.email = task[q].email /\ c.created = now
              /\ c.begun = task[q].begun /\ c.ended = calls
        BY <1>2, <2>5, NewCode
      <3>2. task[q].begun <= calls /\ c.begun \in Nat
        BY <1>2, <3>1 DEF TimesInv, Doing, CodeRow
      <3>3. ASSUME NEW i \in DOMAIN codes, codes'[i].email = c.email
            PROVE  /\ now \in codes'[i].created .. codes'[i].created + Cooldown
                        => Together(codes'[i], c)
                   /\ codes'[i].created \in now .. now + Cooldown => Together(c, codes'[i])
        <4>1. /\ codes'[i].ended = codes[i].ended /\ codes'[i].email = codes[i].email
              /\ codes'[i].created = codes[i].created /\ codes'[i].begun = codes[i].begun
              /\ codes[i].ended \in Nat /\ codes[i].created \in Nat /\ codes[i].begun \in Nat
              /\ codes[i].begun <= codes[i].ended /\ codes[i].ended <= calls
              /\ codes[i].created <= now
          BY <2>1 DEF SameCode, CodeRow
        <4>2. task[q].begun <= codes[i].ended \/ codes[i].created + Cooldown < now
          BY <1>2, <3>1, <3>3, <4>1 DEF CooldownInv
        <4>3. CASE task[q].begun <= codes[i].ended
          BY <2>0, <3>1, <3>2, <4>1, <4>3 DEF Together
        <4>4. CASE codes[i].created + Cooldown < now
          BY <2>0, <4>1, <4>4
        <4>5. QED BY <4>2, <4>3, <4>4
      <3>4. ASSUME NEW i \in DOMAIN codes', NEW j \in DOMAIN codes', i # j,
                   codes'[i].email = codes'[j].email,
                   codes'[j].created \in codes'[i].created .. codes'[i].created + Cooldown
            PROVE  Together(codes'[i], codes'[j])
        <4>1. CASE i \in DOMAIN codes /\ j \in DOMAIN codes
          BY <2>3, <3>4, <4>1
        <4>2. CASE i \in DOMAIN codes /\ j = n
          BY <3>1, <3>3, <3>4, <4>2
        <4>3. CASE i = n /\ j \in DOMAIN codes
          BY <3>1, <3>3, <3>4, <4>3
        <4>4. QED BY <3>1, <3>4, <4>1, <4>2, <4>3
      <3>5. ASSUME NEW r \in Req, NEW i \in DOMAIN codes', Doing(r, "request")',
                   task'[r].email = codes'[i].email
            PROVE  task'[r].begun <= codes'[i].ended \/ codes'[i].created + Cooldown < now'
        <4>1. CASE i \in DOMAIN codes
          BY <2>2, <3>5, <4>1
        <4>2. CASE i = n
          <5>1. task'[r] # None
            BY <3>5 DEF Doing
          <5>2. task'[r] = task[r] /\ task[r] # None
            BY <1>2, <2>5, <5>1, AtWork
          <5>3. QED BY <1>2, <3>1, <4>2, <5>2 DEF TimesInv
        <4>3. QED BY <3>1, <3>5, <4>1, <4>2
      <3>6. QED BY <3>4, <3>5 DEF CooldownInv, Together
    <2>6. QED BY <2>4, <2>5
  <1>3. QED BY <1>1, <1>2

\* Two codes go to one address within the cooldown only when the requests for them
\* overlapped, whatever became of the first.
THEOREM CodesApart == Spec => []CodesApartUnlessTogether
  <1>1. CooldownInv => CodesApartUnlessTogether
    BY DEF CooldownInv, CodesApartUnlessTogether
  <1>2. QED BY <1>1, TypeInvInductive, TimesInvInductive, CooldownInvInductive, PTL DEF Spec
=============================================================================
