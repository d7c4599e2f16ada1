-------------------------- MODULE CredentialsProofs --------------------------
(* Theorems about Credentials: type correctness and who lifts the duty to
   change a password, for any number of requests at once; the promises of
   Passwords when requests come one at a time. *)
EXTENDS Credentials, TLAPS

-----------------------------------------------------------------------------
(* Type correctness                                                        *)

LEMMA UnknownType == Unknown \in Account
BY CredentialsAssumption DEF Unknown, Account

LEMMA IdleType == Idle \in Request
BY CredentialsAssumption, UnknownType DEF Idle, Request

LEMMA CreatedType ==
  ASSUME NEW s \in {"none", "inactive", "active"}, NEW p \in Own
  PROVE  Created(s, p) \in Account
BY UnknownType DEF Created, Account, Passwords, Unknown

\* An UPDATE of well-formed accounts writes a well-formed account.
LEMMA UpdatedType ==
  ASSUME NEW t \in Request, NEW current \in Account
  PROVE  Updated(current, t) \in Account
<1>1. t.read \in Account /\ t.new \in Passwords \cup {NoPassword}
  BY DEF Request
<1>0. 0 \in 0..(MaxAttempts - 1)
  BY CredentialsAssumption
<1>2. Counted(t.read) \in Account
  <2>1. t.read.count \in 0..(MaxAttempts - 1)
    BY <1>1 DEF Account
  <2>2. CASE t.read.count + 1 >= MaxAttempts
    BY <1>1, <1>0, <2>2 DEF Counted, Account
  <2>3. CASE ~(t.read.count + 1 >= MaxAttempts)
    <3>1. t.read.count + 1 \in 0..(MaxAttempts - 1)
      BY <2>1, <2>3, CredentialsAssumption
    <3>2. QED
      BY <1>1, <2>3, <3>1 DEF Counted, Account
  <2>4. QED
    BY <2>2, <2>3
<1>3. LoggedIn(t.read) \in Account
  BY <1>1, <1>0 DEF LoggedIn, Account
<1>4. Stored(t) \in Account
  BY <1>1 DEF Stored, Account
<1>5. Wanted(t) \in Account
  BY <1>2, <1>3, <1>4 DEF Wanted
<1>6. QED
  BY <1>5 DEF Updated, Dirty, Account

LEMMA BecomesType ==
  ASSUME TypeOK, NEW r \in Reqs, NEW t \in Request, Becomes(r, t),
         UNCHANGED <<account, session, refused>>
  PROVE  TypeOK'
BY DEF TypeOK, Becomes

LEMMA SubmitType ==
  ASSUME TypeOK, NEW r \in Reqs, Submit(r)
  PROVE  TypeOK'
<1>1. ASSUME NEW u \in Users, NEW p \in Passwords, NEW later \in BOOLEAN,
             Login(r, u, p, later)
      PROVE  TypeOK'
  <2>1. [Idle EXCEPT !.pc = "load", !.user = u, !.given = p, !.later = later]
          \in Request
    BY IdleType DEF Request
  <2>2. QED
    BY <1>1, <2>1, BecomesType DEF Login, Begin
<1>2. ASSUME NEW u \in Users, NEW p \in Passwords, NEW q \in Own,
             ChangePassword(r, u, p, q)
      PROVE  TypeOK'
  <2>1. [Idle EXCEPT !.pc = "load", !.op = "change", !.user = u, !.given = p,
                     !.new = q] \in Request
    BY IdleType DEF Request, Passwords
  <2>2. QED
    BY <1>2, <2>1, BecomesType DEF ChangePassword, Begin
<1>3. ASSUME NEW a \in Users, NEW u \in Users, NEW q \in Temporary,
             ResetPassword(r, a, u, q)
      PROVE  TypeOK'
  <2>1. [Idle EXCEPT !.pc = "load", !.op = "reset", !.user = u, !.new = q]
          \in Request
    BY IdleType DEF Request, Passwords
  <2>2. QED
    BY <1>3, <2>1, BecomesType DEF ResetPassword, Begin
<1>4. QED
  BY <1>1, <1>2, <1>3 DEF Submit

LEMMA AdvanceType ==
  ASSUME TypeOK, NEW r \in Reqs, Advance(r)
  PROVE  TypeOK'
<1> DEFINE t == req[r]
<1>t. t \in Request /\ t.user \in Users
  BY DEF TypeOK, Request
<1>account. account[t.user] \in Account
  BY <1>t DEF TypeOK
<1>1. CASE Load(r)
  <2>1. [t EXCEPT !.pc = "write", !.read = account[t.user]] \in Request
    BY <1>t, <1>account DEF Request
  <2>2. QED
    BY <1>1, <2>1, IdleType, BecomesType DEF Load
<1>2. CASE Write(r)
  <2>1. /\ [t EXCEPT !.pc = "raise"] \in Request
        /\ [t EXCEPT !.pc = "commit"] \in Request
    BY <1>t DEF Request
  <2>2. QED
    BY <1>2, <2>1, BecomesType DEF Write
<1>3. CASE Commit(r)
  <2>1. Updated(account[t.user], t) \in Account
    BY <1>t, <1>account, UpdatedType
  <2>2. account' \in [Users -> Account] /\ session' \subseteq Users
    BY <1>3, <1>t, <2>1 DEF Commit, TypeOK
  <2>3. refused' \in [Users -> 0..MaxAttempts]
    <3>1. 0 \in 0..MaxAttempts
      BY CredentialsAssumption
    <3>2. QED
      BY <1>3, <3>1 DEF Commit, TypeOK
  <2>4. req' \in [Reqs -> Request]
    BY <1>3, IdleType DEF Commit, Becomes, TypeOK
  <2>5. QED
    BY <2>2, <2>3, <2>4 DEF TypeOK
<1>4. CASE Raise(r)
  <2>1. refused[t.user] \in 0..MaxAttempts
    BY <1>t DEF TypeOK
  <2>2. (IF refused[t.user] < MaxAttempts THEN refused[t.user] + 1
         ELSE refused[t.user]) \in 0..MaxAttempts
    BY <2>1, CredentialsAssumption
  <2>3. refused' \in [Users -> 0..MaxAttempts]
    BY <1>4, <2>2 DEF Raise, TypeOK
  <2>4. req' \in [Reqs -> Request]
    BY <1>4, IdleType DEF Raise, Becomes, TypeOK
  <2>5. QED
    BY <1>4, <2>3, <2>4 DEF Raise, TypeOK
<1>5. QED
  BY <1>1, <1>2, <1>3, <1>4 DEF Advance

\* The steps around the requests: what they leave of each account.
Around ==
    \/ \E u \in Users :
         \/ \E p \in Own : Register(u, p)
         \/ \E status \in {"inactive", "active"} : SetStatus(u, status)
         \/ EndSession(u)
    \/ RaiseRounds

LEMMA AroundType ==
  ASSUME TypeOK, Around
  PROVE  TypeOK'
<1>1. ASSUME NEW u \in Users, NEW p \in Own, Register(u, p) PROVE TypeOK'
  BY <1>1, CreatedType DEF Register, TypeOK
<1>2. ASSUME NEW u \in Users, NEW s \in {"inactive", "active"}, SetStatus(u, s)
      PROVE  TypeOK'
  <2>1. [account[u] EXCEPT !.status = s] \in Account
    BY DEF TypeOK, Account
  <2>2. account' \in [Users -> Account]
    BY <1>2, <2>1 DEF SetStatus, TypeOK
  <2>3. QED
    BY <1>2, <2>2 DEF SetStatus, TypeOK
<1>3. ASSUME NEW u \in Users, EndSession(u) PROVE TypeOK'
  BY <1>3 DEF EndSession, TypeOK
<1>4. CASE RaiseRounds
  <2>1. \A u \in Users :
          [account[u] EXCEPT !.weak = account[u].status # "none"] \in Account
    BY DEF TypeOK, Account
  <2>2. QED
    BY <1>4, <2>1 DEF RaiseRounds, TypeOK
<1>5. QED
  BY <1>1, <1>2, <1>3, <1>4 DEF Around

LEMMA TypeStep ==
  ASSUME TypeOK, [Next]_vars
  PROVE  TypeOK'
<1>1. CASE UNCHANGED vars
  BY <1>1 DEF TypeOK, vars
<1>2. ASSUME NEW r \in Reqs, Fails(r) PROVE TypeOK'
  BY <1>2, IdleType, BecomesType DEF Fails
<1>3. QED
  BY <1>1, <1>2, SubmitType, AdvanceType, AroundType DEF Next, Around

LEMMA InitType == Init => TypeOK
BY IdleType, UnknownType, CreatedType, CredentialsAssumption
DEF Init, TypeOK

\* Every behaviour is well typed, however many requests run at once.
THEOREM TypeCorrect == Spec => []TypeOK
BY InitType, TypeStep, PTL DEF Spec

-----------------------------------------------------------------------------
(* Any number of requests                                                  *)

\* Nobody owes anything on a name that is free, and it has no password.
Known(row) ==
    /\ row.status = "none" <=> row.pw = NoPassword
    /\ row.status = "none" => ~row.must

\* What request t has established of its account, which is row by now.
Established(t, row) ==
    /\ t.pc # "idle" =>
         /\ t.op = "change" => t.new \in Own
         /\ t.op = "reset" => t.new \in Temporary
    /\ t.pc \in {"write", "commit", "raise"} =>
         /\ row.status # "none" /\ t.read.pw # NoPassword
         /\ t.op = "change" => t.given = t.read.pw /\ t.new # t.given

Sound ==
    /\ TypeOK
    /\ \A u \in Users : Known(account[u])
    /\ \A r \in Reqs : Established(req[r], account[req[r].user])

\* What a request writes into the columns about passwords.
LEMMA WrittenColumns ==
  ASSUME NEW t \in Request, NEW current
  PROVE  LET w == Updated(current, t) IN
         /\ w.status = current.status
         /\ t.op = "login" => w.must = current.must
         /\ t.op = "login" => w.pw \in {current.pw, t.read.pw}
         /\ t.op # "login" => w.pw = t.new
         /\ t.op = "change" => w.must = FALSE \/ w.must = current.must
         /\ t.op = "reset" => w.must = TRUE \/ w.must = current.must
<1>1. t.read \in Account /\ t.op \in {"login", "change", "reset"}
  BY DEF Request
<1>2. CASE t.op = "login"
  <2>1. Wanted(t).must = t.read.must /\ Wanted(t).pw = t.read.pw
    BY <1>1, <1>2 DEF Wanted, Counted, LoggedIn, Account
  <2>2. QED
    BY <1>2, <2>1 DEF Updated, Dirty
<1>3. CASE t.op # "login"
  <2>1. Wanted(t) = Stored(t) /\ SetsHash(t)
    BY <1>3 DEF Wanted, WrongPassword, SetsHash
  <2>2. Wanted(t).pw = t.new /\ Wanted(t).must = (t.op = "reset")
    BY <1>1, <2>1 DEF Stored, Account
  <2>3. QED
    BY <1>1, <1>3, <2>1, <2>2 DEF Updated, Dirty
<1>4. QED
  BY <1>2, <1>3

\* A request that goes on, or begins, while the accounts stay.
LEMMA BecomesSound ==
  ASSUME Sound, TypeOK', NEW r \in Reqs, NEW t, Becomes(r, t),
         Established(t, account[t.user]), UNCHANGED account
  PROVE  Sound'
BY DEF Sound, TypeOK, Becomes

LEMMA IdleEstablished == ASSUME NEW row PROVE Established(Idle, row)
BY DEF Established, Idle

\* Accounts that are known stay known, and keep what requests have established.
LEMMA AccountsSound ==
  ASSUME Sound, TypeOK', \A u \in Users : Known(account'[u]),
         \A u \in Users : account[u].status # "none"
                            => account'[u].status # "none",
         \A r \in Reqs : req'[r] \in {req[r], Idle}
  PROVE  Sound'
<1>1. ASSUME NEW r \in Reqs
      PROVE  Established(req'[r], account'[req'[r].user])
  <2>1. CASE req'[r] = Idle
    BY <2>1, IdleEstablished
  <2>2. CASE req'[r] = req[r]
    <3>1. req[r].user \in Users
      BY DEF Sound, TypeOK, Request
    <3>2. QED
      BY <2>2, <3>1 DEF Sound, Established
  <2>3. QED
    BY <2>1, <2>2
<1>2. QED
  BY <1>1 DEF Sound

LEMMA SubmitSound ==
  ASSUME Sound, TypeOK', NEW r \in Reqs, Submit(r)
  PROVE  Sound'
<1>1. ASSUME NEW u \in Users, NEW p \in Passwords, NEW later \in BOOLEAN,
             Login(r, u, p, later)
      PROVE  Sound'
  BY <1>1, BecomesSound DEF Login, Begin, Idle, Established
<1>2. ASSUME NEW u \in Users, NEW p \in Passwords, NEW q \in Own,
             ChangePassword(r, u, p, q)
      PROVE  Sound'
  BY <1>2, BecomesSound DEF ChangePassword, Begin, Idle, Established
<1>3. ASSUME NEW a \in Users, NEW u \in Users, NEW q \in Temporary,
             ResetPassword(r, a, u, q)
      PROVE  Sound'
  BY <1>3, BecomesSound DEF ResetPassword, Begin, Idle, Established
<1>4. QED
  BY <1>1, <1>2, <1>3 DEF Submit

LEMMA AdvanceSound ==
  ASSUME Sound, TypeOK', NEW r \in Reqs, Advance(r)
  PROVE  Sound'
<1> DEFINE t == req[r]
<1>t. /\ t \in Request /\ t.user \in Users
      /\ account[t.user] \in Account /\ Known(account[t.user])
      /\ Established(t, account[t.user])
  BY DEF Sound, TypeOK, Request
<1>1. CASE Load(r)
  <2> DEFINE read == [t EXCEPT !.pc = "write", !.read = account[t.user]]
  <2>1. ASSUME ~Refused(t, account[t.user])
        PROVE  Established(read, account[read.user])
    <3>1. /\ read.pc = "write" /\ read.op = t.op /\ read.new = t.new
          /\ read.given = t.given /\ read.read = account[t.user]
          /\ read.user = t.user
      BY <1>t DEF Request
    <3>2. t.pc # "idle"
      BY <1>1 DEF Load
    <3> HIDE DEF read
    <3>3. QED
      BY <1>t, <2>1, <3>1, <3>2 DEF Established, Refused, Verified, Known
  <2>2. QED
    BY <1>1, <2>1, IdleEstablished, BecomesSound DEF Load
<1>2. CASE Write(r)
  <2>1. ASSUME NEW pc \in {"raise", "commit"}
        PROVE  LET x == [t EXCEPT !.pc = pc] IN
               Established(x, account[x.user])
    BY <1>t, <1>2 DEF Established, Request, Write
  <2>2. QED
    BY <1>2, <2>1, BecomesSound DEF Write
<1>3. CASE Commit(r)
  <2> DEFINE w == Updated(account[t.user], t)
  <2>1. t.pc = "commit" /\ account' = [account EXCEPT ![t.user] = w]
    BY <1>3 DEF Commit
  <2>2. w.status # "none" /\ Known(w)
    <3>1. /\ w.status = account[t.user].status
          /\ t.op = "login" => w.pw \in {account[t.user].pw, t.read.pw}
          /\ t.op # "login" => w.pw = t.new
      BY <1>t, WrittenColumns
    <3>2. t.op # "login" => t.new # NoPassword
      BY <1>t, <2>1, CredentialsAssumption DEF Established, Request
    <3> HIDE DEF w
    <3>3. QED
      BY <1>t, <2>1, <3>1, <3>2 DEF Established, Known
  <2>3. \A q \in Reqs : req'[q] \in {req[q], Idle}
    BY <1>3 DEF Commit, Becomes, Sound, TypeOK
  <2> HIDE DEF w
  <2>4. \A u \in Users : account'[u] = IF u = t.user THEN w ELSE account[u]
    BY <2>1 DEF Sound, TypeOK
  <2>5. QED
    BY <2>2, <2>3, <2>4, AccountsSound DEF Sound
<1>4. CASE Raise(r)
  BY <1>4, IdleEstablished, BecomesSound DEF Raise
<1>5. QED
  BY <1>1, <1>2, <1>3, <1>4 DEF Advance

LEMMA AroundSound ==
  ASSUME Sound, TypeOK', Around
  PROVE  Sound'
<1>1. ASSUME NEW u \in Users, NEW p \in Own, Register(u, p) PROVE Sound'
  <2>1. Known(Created("inactive", p))
    BY CredentialsAssumption DEF Known, Created, Unknown
  <2>2. Created("inactive", p).status # "none"
    BY DEF Created, Unknown
  <2>3. \A x \in Users : account'[x] = IF x = u THEN Created("inactive", p)
                                       ELSE account[x]
    BY <1>1 DEF Register, Sound, TypeOK
  <2>4. QED
    BY <1>1, <2>1, <2>2, <2>3, AccountsSound DEF Register, Sound
<1>2. ASSUME NEW u \in Users, NEW s \in {"inactive", "active"}, SetStatus(u, s)
      PROVE  Sound'
  <2>1. /\ account'[u].status = s /\ account'[u].pw = account[u].pw
        /\ account'[u].must = account[u].must
        /\ \A x \in Users \ {u} : account'[x] = account[x]
    BY <1>2 DEF SetStatus, Sound, TypeOK, Account
  <2>2. account[u].status # "none"
    BY <1>2 DEF SetStatus
  <2>3. \A x \in Users : Known(account'[x])
    BY <2>1, <2>2 DEF Sound, Known
  <2>4. QED
    BY <1>2, <2>1, <2>3, AccountsSound DEF SetStatus
<1>3. ASSUME NEW u \in Users, EndSession(u) PROVE Sound'
  BY <1>3 DEF EndSession, Sound
<1>4. CASE RaiseRounds
  <2>1. \A x \in Users : /\ account'[x].status = account[x].status
                         /\ account'[x].pw = account[x].pw
                         /\ account'[x].must = account[x].must
    BY <1>4 DEF RaiseRounds, Sound, TypeOK, Account
  <2>2. \A x \in Users : Known(account'[x])
    BY <2>1 DEF Sound, Known
  <2>3. QED
    BY <1>4, <2>1, <2>2, AccountsSound DEF RaiseRounds
<1>5. QED
  BY <1>1, <1>2, <1>3, <1>4 DEF Around

LEMMA SoundStep ==
  ASSUME Sound, [Next]_vars
  PROVE  Sound'
<1>1. TypeOK'
  BY TypeStep DEF Sound
<1>2. CASE UNCHANGED vars
  BY <1>2 DEF Sound, TypeOK, vars
<1>3. ASSUME NEW r \in Reqs, Fails(r) PROVE Sound'
  BY <1>1, <1>3, IdleEstablished, BecomesSound DEF Fails
<1>4. QED
  BY <1>1, <1>2, <1>3, SubmitSound, AdvanceSound, AroundSound DEF Next, Around

LEMMA InitSound == Init => Sound
<1> SUFFICES ASSUME Init PROVE Sound
  OBVIOUS
<1>1. \A u \in Users : Known(account[u])
  <2>1. Known(Unknown)
    BY DEF Known, Unknown
  <2>2. \A p \in Own : Known(Created("active", p))
    BY CredentialsAssumption DEF Known, Created, Unknown
  <2>3. QED
    BY <2>1, <2>2 DEF Init
<1>2. \A r \in Reqs : Established(req[r], account[req[r].user])
  BY IdleEstablished DEF Init
<1>3. QED
  BY <1>1, <1>2, InitType DEF Sound

\* However many requests run, only a change of password by an owner who showed
\* the password the request had read ends the duty to change it.
THEOREM OwnerLiftsTheDuty == Spec => OnlyTheOwnerIsFree
<1> DEFINE Free == \A u \in Users :
         account[u].must /\ ~account'[u].must =>
           \E r \in Reqs : /\ req[r].pc = "commit" /\ req[r].user = u
                           /\ req[r].op = "change"
                           /\ req[r].given = req[r].read.pw
<1>1. ASSUME Sound, Next PROVE Free
  <2> SUFFICES ASSUME NEW u \in Users, account[u].must, ~account'[u].must
               PROVE  \E r \in Reqs : /\ req[r].pc = "commit"
                                      /\ req[r].user = u
                                      /\ req[r].op = "change"
                                      /\ req[r].given = req[r].read.pw
    OBVIOUS
  <2>0. account[u] # account'[u]
    OBVIOUS
  <2>1. CASE Around
    <3>1. ASSUME NEW x \in Users, NEW p \in Own, Register(x, p) PROVE FALSE
      <4>1. x = u
        BY <1>1, <2>0, <3>1 DEF Register, Sound, TypeOK
      <4>2. QED
        BY <1>1, <3>1, <4>1 DEF Register, Sound, Known
    <3>2. ASSUME NEW x \in Users, NEW s, SetStatus(x, s) PROVE FALSE
      BY <1>1, <3>2 DEF SetStatus, Sound, TypeOK, Account
    <3>3. ASSUME NEW x \in Users, EndSession(x) PROVE FALSE
      BY <2>0, <3>3 DEF EndSession
    <3>4. CASE RaiseRounds
      BY <1>1, <3>4 DEF RaiseRounds, Sound, TypeOK, Account
    <3>5. QED
      BY <2>1, <3>1, <3>2, <3>3, <3>4 DEF Around
  <2>2. ASSUME NEW r \in Reqs, Submit(r) \/ Fails(r) PROVE FALSE
    BY <2>0, <2>2 DEF Submit, Fails, Login, ChangePassword, ResetPassword, Begin
  <2>3. ASSUME NEW r \in Reqs, Load(r) \/ Write(r) \/ Raise(r) PROVE FALSE
    BY <2>0, <2>3 DEF Load, Write, Raise
  <2>4. ASSUME NEW r \in Reqs, Commit(r)
        PROVE  /\ req[r].pc = "commit" /\ req[r].user = u
               /\ req[r].op = "change" /\ req[r].given = req[r].read.pw
    <3> DEFINE t == req[r]
               w == Updated(account[u], t)
    <3>1. t \in Request /\ Established(t, account[t.user])
      BY <1>1 DEF Sound, TypeOK
    <3>2. /\ t.pc = "commit"
          /\ account' = [account EXCEPT ![t.user] = Updated(@, t)]
      BY <2>4 DEF Commit
    <3>3. t.user = u /\ account'[u] = w
      BY <1>1, <2>0, <3>2 DEF Sound, TypeOK
    <3>4. /\ t.op = "login" => w.must = account[u].must
          /\ t.op = "reset" => w.must = TRUE \/ w.must = account[u].must
      BY <3>1, WrittenColumns
    <3> HIDE DEF w
    <3>5. t.op = "change"
      BY <3>1, <3>3, <3>4 DEF Request
    <3>6. QED
      BY <3>1, <3>2, <3>3, <3>5 DEF Established
  <2>5. QED
    BY <1>1, <2>1, <2>2, <2>3, <2>4 DEF Next, Advance, Around
<1>2. Sound /\ [Next]_vars => [Free]_vars
  BY <1>1
<1>3. Spec => []Sound
  BY InitSound, SoundStep, PTL DEF Spec
<1>4. QED
  BY <1>2, <1>3, PTL DEF Spec, OnlyTheOwnerIsFree

-----------------------------------------------------------------------------
(* One request at a time                                                   *)

\* The columns about passwords are still as the request has read them, and an
\* administrator who may reset them has asked for it.
AsRead(t) ==
    /\ t.pc \in {"write", "commit", "raise"} =>
         /\ t.read.pw = account[t.user].pw
         /\ t.read.must = account[t.user].must
    /\ t.pc # "idle" /\ t.op = "reset" =>
         \E a \in Admins : account[a].status # "none" /\ ~account[a].must

\* A step that leaves the request alone or ends it, and the columns as they are.
LEMMA AsReadKept ==
  ASSUME Sound, NEW r \in Reqs, AsRead(req[r]), req'[r] \in {req[r], Idle},
         \A u \in Users : /\ account'[u].pw = account[u].pw
                          /\ account'[u].must = account[u].must
                          /\ account[u].status # "none"
                               => account'[u].status # "none"
  PROVE  AsRead(req[r])'
<1>1. req[r].user \in Users
  BY DEF Sound, TypeOK, Request
<1>2. CASE req'[r] = Idle
  BY <1>2 DEF AsRead, Idle
<1>3. CASE req'[r] = req[r]
  BY <1>1, <1>3, CredentialsAssumption DEF AsRead
<1>4. QED
  BY <1>2, <1>3

\* The steps around the requests leave the columns of known accounts.
LEMMA AroundKeeps ==
  ASSUME Sound, Around
  PROVE  /\ UNCHANGED req
         /\ \A u \in Users : account[u].status # "none" =>
              /\ account'[u].pw = account[u].pw
              /\ account'[u].must = account[u].must
              /\ account'[u].status # "none"
<1>1. ASSUME NEW x \in Users, NEW p \in Own, Register(x, p)
      PROVE  \A u \in Users : account[u].status # "none"
                                => account'[u] = account[u]
  BY <1>1 DEF Register, Sound, TypeOK
<1>2. ASSUME NEW x \in Users, NEW s \in {"inactive", "active"}, SetStatus(x, s)
      PROVE  \A u \in Users : /\ account'[u].pw = account[u].pw
                              /\ account'[u].must = account[u].must
                              /\ account[u].status # "none"
                                   => account'[u].status # "none"
  BY <1>2 DEF SetStatus, Sound, TypeOK, Account
<1>3. ASSUME NEW x \in Users, EndSession(x) PROVE UNCHANGED account
  BY <1>3 DEF EndSession
<1>4. ASSUME RaiseRounds
      PROVE  \A u \in Users : /\ account'[u].pw = account[u].pw
                              /\ account'[u].must = account[u].must
                              /\ account'[u].status = account[u].status
  BY <1>4 DEF RaiseRounds, Sound, TypeOK, Account
<1>5. UNCHANGED req
  BY DEF Around, Register, SetStatus, EndSession, RaiseRounds
<1>6. QED
  BY <1>1, <1>2, <1>3, <1>4, <1>5 DEF Around

LEMMA AroundAsRead ==
  ASSUME Sound, NEW r \in Reqs, AsRead(req[r]), Around
  PROVE  AsRead(req[r])'
<1>1. req[r].user \in Users
  BY DEF Sound, TypeOK, Request
<1>2. req[r].pc \in {"write", "commit", "raise"}
        => account[req[r].user].status # "none"
  BY DEF Sound, Established
<1>3. QED
  BY <1>1, <1>2, AroundKeeps, CredentialsAssumption DEF AsRead

LEMMA SubmitAsRead ==
  ASSUME Sound, NEW r \in Reqs, Submit(r)
  PROVE  AsRead(req[r])'
<1>1. ASSUME NEW u \in Users, NEW p \in Passwords, NEW later \in BOOLEAN,
             Login(r, u, p, later)
      PROVE  AsRead(req[r])'
  BY <1>1 DEF Login, Begin, Becomes, Idle, AsRead, Sound, TypeOK
<1>2. ASSUME NEW u \in Users, NEW p \in Passwords, NEW q \in Own,
             ChangePassword(r, u, p, q)
      PROVE  AsRead(req[r])'
  BY <1>2 DEF ChangePassword, Begin, Becomes, Idle, AsRead, Sound, TypeOK
<1>3. ASSUME NEW a \in Users, NEW u \in Users, NEW q \in Temporary,
             ResetPassword(r, a, u, q)
      PROVE  AsRead(req[r])'
  <2>1. /\ a \in Admins /\ account[a].status # "none" /\ ~account[a].must
        /\ UNCHANGED account
    BY <1>3 DEF ResetPassword, MayReset, SignedIn, Begin
  <2>2. req'[r].pc = "load"
    BY <1>3 DEF ResetPassword, Begin, Becomes, Idle, Sound, TypeOK
  <2>3. QED
    BY <2>1, <2>2 DEF AsRead
<1>4. QED
  BY <1>1, <1>2, <1>3 DEF Submit

LEMMA AdvanceAsRead ==
  ASSUME Sound, NEW r \in Reqs, AsRead(req[r]), Advance(r)
  PROVE  AsRead(req[r])'
<1> DEFINE t == req[r]
<1>t. t \in Request /\ req \in [Reqs -> Request]
  BY DEF Sound, TypeOK
<1>1. CASE Load(r)
  <2> DEFINE read == [t EXCEPT !.pc = "write", !.read = account[t.user]]
  <2>1. req'[r] \in {Idle, read} /\ UNCHANGED account /\ t.pc = "load"
    BY <1>1, <1>t DEF Load, Becomes
  <2>2. /\ read.user = t.user /\ read.op = t.op
        /\ read.read = account[t.user]
    BY <1>t DEF Request
  <2> HIDE DEF read
  <2>3. CASE req'[r] = Idle
    BY <2>3 DEF AsRead, Idle
  <2>4. CASE req'[r] = read
    BY <2>1, <2>2, <2>4 DEF AsRead
  <2>5. QED
    BY <2>1, <2>3, <2>4
<1>2. CASE Write(r)
  <2>1. PICK pc \in {"raise", "commit"} : req'[r] = [t EXCEPT !.pc = pc]
    BY <1>2, <1>t DEF Write, Becomes
  <2>2. /\ req'[r].user = t.user /\ req'[r].op = t.op /\ req'[r].read = t.read
        /\ UNCHANGED account /\ t.pc = "write"
    BY <1>2, <1>t, <2>1 DEF Write, Request
  <2>3. QED
    BY <2>2 DEF AsRead
<1>3. CASE Commit(r) \/ Raise(r)
  <2>1. req'[r] = Idle
    BY <1>3, <1>t DEF Commit, Raise, Becomes
  <2>2. QED
    BY <2>1 DEF AsRead, Idle
<1>4. QED
  BY <1>1, <1>2, <1>3 DEF Advance

\* With one request, AsRead is kept.
LEMMA AsReadStep ==
  ASSUME NEW r, Reqs = {r}, Sound, AsRead(req[r]), [Next]_vars
  PROVE  AsRead(req[r])'
<1>1. CASE UNCHANGED vars
  BY <1>1 DEF vars, AsRead
<1>2. CASE Fails(r)
  BY <1>2, AsReadKept DEF Fails, Becomes, Sound, TypeOK
<1>3. QED
  BY <1>1, <1>2, SubmitAsRead, AdvanceAsRead, AroundAsRead DEF Next, Around

LEMMA AloneInvariant ==
  ASSUME NEW r, Reqs = {r}
  PROVE  Spec => [](Sound /\ AsRead(req[r]))
<1>1. Init => AsRead(req[r])
  <2>1. Init => req[r] = Idle
    BY DEF Init
  <2>2. AsRead(Idle)
    BY DEF AsRead, Idle
  <2>3. QED
    BY <2>1, <2>2
<1>2. Sound /\ AsRead(req[r]) /\ [Next]_vars => AsRead(req[r])'
  BY AsReadStep
<1>3. QED
  BY <1>1, <1>2, InitSound, SoundStep, PTL DEF Spec

-----------------------------------------------------------------------------
(* The promises of Passwords                                               *)

\* A step that changes no column about passwords is invisible.
LEMMA Invisible ==
  ASSUME \A u \in Users : /\ account'[u].pw = account[u].pw
                          /\ account'[u].must = account[u].must
  PROVE  UNCHANGED Promise!vars
BY DEF Promise!vars

\* The commit of the only request is a login nobody sees, or an operation of
\* Passwords.
LEMMA CommitKeepsPromise ==
  ASSUME Sound, NEW r \in Reqs, AsRead(req[r]), Commit(r)
  PROVE  [Promise!Next]_(Promise!vars)
<1> DEFINE t == req[r]
           u == t.user
           w == Updated(account[u], t)
           password == [x \in Users |-> account[x].pw]
           mustChange == {x \in Users : account[x].must}
<1>t. /\ t \in Request /\ u \in Users /\ t.read \in Account
      /\ account[u] \in Account /\ Known(account[u])
      /\ Established(t, account[u])
  BY DEF Sound, TypeOK, Request
<1>pc. t.pc = "commit"
  BY DEF Commit
<1>read. t.read.pw = account[u].pw /\ t.read.must = account[u].must
  BY <1>pc DEF AsRead
<1>pw. account[u].pw # NoPassword
  BY <1>t, <1>pc DEF Established, Known
<1>new. \A x \in Users : account'[x] = IF x = u THEN w ELSE account[x]
  BY DEF Commit, Sound, TypeOK
<1>columns. /\ t.op = "login" => w.must = account[u].must
            /\ t.op = "login" => w.pw \in {account[u].pw, t.read.pw}
            /\ t.op # "login" => w.pw = t.new
  BY <1>t, WrittenColumns
<1>must. t.op # "login" => w.must = (t.op = "reset")
  <2>1. ASSUME t.op # "login" PROVE w.must = (t.op = "reset")
    <3>1. Wanted(t).must = (t.op = "reset")
      BY <1>t, <2>1 DEF Wanted, WrongPassword, Stored, Account
    <3>2. QED
      BY <1>read, <3>1 DEF Updated, Dirty
  <2>2. QED
    BY <2>1
<1>1. CASE t.op = "login"
  <2>1. w.must = account[u].must /\ w.pw = account[u].pw
    BY <1>1, <1>columns, <1>read
  <2> HIDE DEF w
  <2>2. \A x \in Users : /\ account'[x].pw = account[x].pw
                         /\ account'[x].must = account[x].must
    BY <1>new, <2>1
  <2>3. QED
    BY <2>2, Invisible
<1>2. ASSUME t.op # "login"
      PROVE  /\ [x \in Users |-> account'[x].pw]
                  = [password EXCEPT ![u] = t.new]
             /\ {x \in Users : account'[x].must}
                  = IF t.op = "reset" THEN mustChange \cup {u}
                    ELSE mustChange \ {u}
  <2> HIDE DEF w
  <2>1. \A x \in Users : account'[x].pw = IF x = u THEN t.new
                                          ELSE account[x].pw
    BY <1>2, <1>new, <1>columns
  <2>2. \A x \in Users : account'[x].must = IF x = u THEN t.op = "reset"
                                            ELSE account[x].must
    BY <1>2, <1>new, <1>must
  <2>3. QED
    BY <2>1, <2>2, <1>t
<1>3. CASE t.op = "change"
  <2>1. t.new \in Own /\ t.new # account[u].pw
    BY <1>3, <1>t, <1>pc, <1>read DEF Established
  <2>2. PICK x \in Users, p \in Own : x = u /\ p = t.new
    BY <1>t, <2>1
  <2>3. Promise!Change(x, p)
    BY <1>2, <1>3, <1>t, <1>pw, <2>1, <2>2 DEF Promise!Change
  <2>4. QED
    BY <2>3 DEF Promise!Next
<1>4. CASE t.op = "reset"
  <2>1. t.new \in Temporary
    BY <1>4, <1>t, <1>pc DEF Established
  <2>2. PICK a \in Admins : account[a].status # "none" /\ ~account[a].must
    BY <1>4, <1>pc DEF AsRead
  <2>3. account[a].pw # NoPassword
    BY <2>2, CredentialsAssumption DEF Sound, Known
  <2>4. PICK x \in Users, p \in Temporary : x = u /\ p = t.new
    BY <1>t, <2>1
  <2>5. Promise!Reset(a, x, p)
    BY <1>2, <1>4, <1>t, <1>pw, <2>2, <2>3, <2>4 DEF Promise!Reset
  <2>6. QED
    BY <2>5 DEF Promise!Next
<1>5. QED
  BY <1>t, <1>1, <1>3, <1>4 DEF Request

LEMMA StepKeepsPromise ==
  ASSUME NEW r, Reqs = {r}, Sound, AsRead(req[r]), [Next]_vars
  PROVE  [Promise!Next]_(Promise!vars)
<1>1. CASE UNCHANGED account
  BY <1>1, Invisible
<1>2. ASSUME NEW u \in Users, NEW p \in Own, Register(u, p) PROVE Promise!Next
  <2>1. account[u].pw = NoPassword /\ ~account[u].must
    BY <1>2 DEF Register, Sound, Known
  <2>2. Created("inactive", p).pw = p /\ Created("inactive", p).must = FALSE
    BY DEF Created, Unknown
  <2>3. \A x \in Users : account'[x] = IF x = u THEN Created("inactive", p)
                                       ELSE account[x]
    BY <1>2 DEF Register, Sound, TypeOK
  <2>4. /\ [x \in Users |-> account'[x].pw]
             = [[x \in Users |-> account[x].pw] EXCEPT ![u] = p]
        /\ {x \in Users : account'[x].must} = {x \in Users : account[x].must}
    BY <2>1, <2>2, <2>3
  <2>5. Promise!Register(u, p)
    BY <2>1, <2>4 DEF Promise!Register
  <2>6. QED
    BY <2>5 DEF Promise!Next
<1>3. ASSUME NEW u \in Users, NEW s \in {"inactive", "active"}, SetStatus(u, s)
      PROVE  UNCHANGED Promise!vars
  <2>1. \A x \in Users : /\ account'[x].pw = account[x].pw
                         /\ account'[x].must = account[x].must
    BY <1>3 DEF SetStatus, Sound, TypeOK, Account
  <2>2. QED
    BY <2>1, Invisible
<1>4. CASE RaiseRounds
  <2>1. \A x \in Users : /\ account'[x].pw = account[x].pw
                         /\ account'[x].must = account[x].must
    BY <1>4 DEF RaiseRounds, Sound, TypeOK, Account
  <2>2. QED
    BY <2>1, Invisible
<1>5. Submit(r) \/ Fails(r) => UNCHANGED account
  BY DEF Submit, Fails, Login, ChangePassword, ResetPassword, Begin
<1>6. Load(r) \/ Write(r) \/ Raise(r) => UNCHANGED account
  BY DEF Load, Write, Raise
<1>7. UNCHANGED vars => UNCHANGED account
  BY DEF vars
<1>8. \A u \in Users : EndSession(u) => UNCHANGED account
  BY DEF EndSession
<1>9. QED
  BY <1>1, <1>2, <1>3, <1>4, <1>5, <1>6, <1>7, <1>8, CommitKeepsPromise
  DEF Next, Advance

\* Requests that come one at a time implement the atomic operations of
\* Passwords: failed logins, new hashes and sessions never touch a password.
THEOREM OneRequestKeepsPromise ==
  ASSUME NEW r, Reqs = {r}
  PROVE  Spec => ImplementsPasswords
<1>1. Init => Promise!Init
  <2> SUFFICES ASSUME Init PROVE Promise!Init
    OBVIOUS
  <2>1. PICK p \in Own :
          account = [u \in Users |-> IF u = Root THEN Created("active", p)
                                     ELSE Unknown]
    BY DEF Init
  <2>2. [u \in Users |-> account[u].pw]
          = [u \in Users |-> IF u = Root THEN p ELSE NoPassword]
    BY <2>1 DEF Created, Unknown
  <2>3. {u \in Users : account[u].must} = {}
    BY <2>1 DEF Created, Unknown
  <2>4. QED
    BY <2>2, <2>3 DEF Promise!Init
<1>2. Sound /\ AsRead(req[r]) /\ [Next]_vars
        => [Promise!Next]_(Promise!vars)
  BY StepKeepsPromise
<1>3. QED
  BY <1>1, <1>2, AloneInvariant, PTL DEF Spec, ImplementsPasswords, Promise!Spec

\* As long as requests come one at a time, whoever has a temporary password has
\* to change it.
THEOREM TemporaryIsTemporary ==
  ASSUME NEW r, Reqs = {r}
  PROVE  Spec => []TemporaryMustChange
<1>1. Init => TemporaryMustChange
  BY CredentialsAssumption DEF Init, TemporaryMustChange, Created, Unknown
<1>2. TemporaryMustChange /\ [Promise!Next]_(Promise!vars)
        => TemporaryMustChange'
  <2> SUFFICES ASSUME TemporaryMustChange, [Promise!Next]_(Promise!vars),
                      NEW x \in Users, account'[x].pw \in Temporary
               PROVE  account'[x].must
    BY DEF TemporaryMustChange
  <2> DEFINE pw == [u \in Users |-> account[u].pw]
             pwNext == [u \in Users |-> account'[u].pw]
             must == {u \in Users : account[u].must}
             mustNext == {u \in Users : account'[u].must}
  <2>0. /\ pwNext[x] \in Temporary
        /\ \A u \in Users : pw[u] \in Temporary => u \in must
    BY DEF TemporaryMustChange
  <2>1. SUFFICES x \in mustNext
    OBVIOUS
  <2>pw. DOMAIN pw = Users
    OBVIOUS
  <2>2. CASE UNCHANGED Promise!vars
    <3>1. pwNext = pw /\ mustNext = must
      BY <2>2 DEF Promise!vars
    <3> HIDE DEF pw, pwNext, must, mustNext
    <3>2. QED
      BY <2>0, <3>1
  <2>3. ASSUME NEW u \in Users, NEW p \in Own,
               Promise!Register(u, p) \/ Promise!Change(u, p)
        PROVE  x \in mustNext
    <3>1. /\ pwNext = [pw EXCEPT ![u] = p]
          /\ mustNext \in {must, must \ {u}}
      BY <2>3 DEF Promise!Register, Promise!Change
    <3> HIDE DEF pw, pwNext, must, mustNext
    <3>2. x # u
      BY <2>0, <2>3, <2>pw, <3>1, CredentialsAssumption
    <3>3. QED
      BY <2>0, <2>pw, <3>1, <3>2
  <2>4. ASSUME NEW a \in Admins, NEW u \in Users, NEW p \in Temporary,
               Promise!Reset(a, u, p)
        PROVE  x \in mustNext
    <3>1. pwNext = [pw EXCEPT ![u] = p] /\ mustNext = must \cup {u}
      BY <2>4 DEF Promise!Reset
    <3> HIDE DEF pw, pwNext, must, mustNext
    <3>2. QED
      BY <2>0, <2>pw, <3>1
  <2>5. QED
    BY <2>2, <2>3, <2>4 DEF Promise!Next
<1>3. Sound /\ AsRead(req[r]) /\ TemporaryMustChange /\ [Next]_vars
        => TemporaryMustChange'
  BY <1>2, StepKeepsPromise
<1>4. QED
  BY <1>1, <1>3, AloneInvariant, PTL DEF Spec
=============================================================================
