----------------------------- MODULE AuthTokens -----------------------------
(***************************************************************************)
(* Users, their keys, and how they log in and out.  A client asks for a    *)
(* challenge, signs it and gets an access token for it; the token is       *)
(* accepted until it expires or its owner logs out.                        *)
(*                                                                         *)
(* Users and keys are in the database, challenges and the marks of revoked *)
(* tokens in Redis, under keys with a time to live; every await of a       *)
(* handler between two accesses is a cut.  Redis and the server share the  *)
(* clock.  Challenges and tokens are drawn at random, hence never again.   *)
(***************************************************************************)
EXTENDS Integers

CONSTANTS
  Users,          \* user ids: uuid4
  Names,          \* user names
  Keys,           \* Ed25519 public keys, one for each signing key
  Challenges,     \* challenges, drawn with token_urlsafe
  Tokens,         \* access tokens, each with a jti of its own
  Requests,       \* requests that can be in progress at the same time
  None,           \* no name, key, challenge, token or row
  Second,         \* ticks of the clock in a second
  ChallengeLife,  \* CHALLENGE_EXPIRE_MINUTES, in ticks
  TokenLife,      \* access_token_expire_minutes, in seconds
  MaxTime         \* bound: the clock stops there

ASSUME NoneIsNothing ==
  None \notin Users \cup Names \cup Keys \cup Challenges \cup Tokens
ASSUME TimesAreNat ==
  Second \in Nat \ {0} /\ ChallengeLife \in Nat /\ TokenLife \in Nat /\ MaxTime \in Nat

VARIABLES
  now,        \* the clock
  users,      \* table users
  stored,     \* stored[n], the Redis key challenge:{n}
  drawn,      \* challenges drawn so far
  tokens,     \* access tokens answered to clients
  markUntil,  \* until when Redis keeps the mark of a revoked token
  request,    \* the requests in progress
  answered,   \* challenges for which a login was answered with a token
  loggedOut,  \* tokens for which a logout was answered
  since       \* since[r], the keys of the name that logs in since r began

vars == <<now, users, stored, drawn, tokens, markUntil, request, answered,
          loggedOut, since>>

----------------------------------------------------------------------------
\* Rows and values, or None.
User == [name : Names, key : Keys]

\* expires is in the value, lapses is the time to live of the key.
Challenge == [challenge : Challenges, expires : Nat, lapses : Nat]

\* exp is in whole seconds.
Token == [user : Users, exp : Nat]

ASSUME NoneIsNoRow == None \notin User \cup Challenge \cup Token

Request ==
  [op   : {"none", "register", "challenge", "login", "logout", "update"},
   step : {"idle", "insert", "store", "purge", "verify", "forget", "issue",
           "check", "work", "mark"},
   name : Names \cup {None},
   key  : Keys \cup {None},  \* key to store, or the key the challenge is signed with
   challenge : Challenges \cup {None},
   token : Tokens \cup {None},
   time : Nat]               \* expires of a challenge, or seconds left to a token

Idle == [op |-> "none", step |-> "idle", name |-> None, key |-> None,
         challenge |-> None, token |-> None, time |-> 0]

Registered == {u \in Users : users[u] # None}

\* get_user_by_name
Named(n) == {u \in Registered : users[u].name = n}

\* GET challenge:{n}
Live(n) == stored[n] # None /\ now < stored[n].lapses

\* python-jose compares whole seconds: a token is accepted up to the end of
\* the second exp.
Decodes(t) == tokens[t] # None /\ now \div Second <= tokens[t].exp

\* is_access_token_revoked
Marked(t) == now < markUntil[t]

\* What get_access_token_user_id accepts.
Accepted(t) == Decodes(t) /\ ~Marked(t)

Begin(r, q) ==
  /\ request[r] = Idle
  /\ request' = [request EXCEPT ![r] = q]
  /\ UNCHANGED <<now, users, stored, drawn, tokens, markUntil, answered, loggedOut>>

At(r, op, step) == request[r].op = op /\ request[r].step = step

Goto(r, step) == request' = [request EXCEPT ![r].step = step]

\* Mutant: the slot keeps what its last request has read.
EndKeepingSlot(r) ==
  /\ request' = [request EXCEPT ![r].op = "none"]
  /\ since' = [since EXCEPT ![r] = {}]

End(r) ==
  /\ request' = [request EXCEPT ![r] = Idle]
  /\ since' = [since EXCEPT ![r] = {}]

----------------------------------------------------------------------------
Init ==
  /\ now = 0
  /\ users = [u \in Users |-> None]
  /\ stored = [n \in Names |-> None]
  /\ drawn = {}
  /\ tokens = [t \in Tokens |-> None]
  /\ markUntil = [t \in Tokens |-> 0]
  /\ request = [r \in Requests |-> Idle]
  /\ answered = {}
  /\ loggedOut = {}
  /\ since = [r \in Requests |-> {}]

(* register: get_users_by_name in the router, then create_user, which looks *)
(* again and inserts.                                                       *)

StartRegister(r, n, k) ==
  /\ Named(n) = {}
  /\ Begin(r, [Idle EXCEPT !.op = "register", !.step = "insert", !.name = n, !.key = k])
  /\ UNCHANGED since

\* Mutant: the column username is not unique and create_user does not look.
NameIsAnything(n) == n \in Names

\* The second look, and the unique column for who inserts between it and the
\* INSERT.
NameIsFree(n) == Named(n) = {}

Register(r, u) ==
  /\ At(r, "register", "insert")
  /\ users[u] = None
  /\ NameIsFree(request[r].name)
  /\ users' = [users EXCEPT ![u] = [name |-> request[r].name, key |-> request[r].key]]
  /\ End(r)
  /\ UNCHANGED <<now, stored, drawn, tokens, markUntil, answered, loggedOut>>

----------------------------------------------------------------------------
(* issue_challenge: expires is computed, then the key is set with its time  *)
(* to live, whatever is there.                                              *)

StartChallenge(r, n, c) ==
  /\ Named(n) # {}
  /\ c \notin drawn
  /\ request[r] = Idle
  /\ drawn' = drawn \cup {c}
  /\ request' = [request EXCEPT ![r] =
                   [Idle EXCEPT !.op = "challenge", !.step = "store", !.name = n,
                                !.challenge = c, !.time = now + ChallengeLife]]
  /\ UNCHANGED <<now, users, stored, tokens, markUntil, answered, loggedOut, since>>

StoreChallenge(r) ==
  /\ At(r, "challenge", "store")
  /\ stored' = [stored EXCEPT ![request[r].name] =
                  [challenge |-> request[r].challenge, expires |-> request[r].time,
                   lapses |-> now + ChallengeLife]]
  /\ End(r)
  /\ UNCHANGED <<now, users, drawn, tokens, markUntil, answered, loggedOut>>

----------------------------------------------------------------------------
(* login *)

\* GET and the check of expires.  k signed the challenge that is read, None
\* if the signature is of something else.
StartLogin(r, n, k) ==
  /\ Live(n)
  /\ Begin(r, [Idle EXCEPT !.op = "login", !.name = n, !.key = k,
                           !.step = IF now > stored[n].expires THEN "purge" ELSE "verify",
                           !.challenge = stored[n].challenge])
  /\ since' = [since EXCEPT ![r] = {users[u].key : u \in Named(n)}]

\* DELETE names the user, not the challenge: it may hit a newer one.
Delete(n) == stored' = [stored EXCEPT ![n] = None]

PurgeChallenge(r) ==
  /\ At(r, "login", "purge")
  /\ Delete(request[r].name)
  /\ End(r)
  /\ UNCHANGED <<now, users, drawn, tokens, markUntil, answered, loggedOut>>

\* Mutant: any key that signed the challenge will do.
SignedBySomebody(r) == request[r].key # None

\* The user's key is read and the signature verified with it.
SignedByUser(r) == \E u \in Named(request[r].name) : users[u].key = request[r].key

VerifyLogin(r) ==
  /\ At(r, "login", "verify")
  /\ SignedByUser(r)
  /\ Goto(r, "forget")
  /\ UNCHANGED <<now, users, stored, drawn, tokens, markUntil, answered, loggedOut, since>>

\* Mutant: the used challenge is left in Redis.
KeepChallenge(r) ==
  /\ At(r, "login", "forget")
  /\ Goto(r, "issue")
  /\ UNCHANGED <<now, users, stored, drawn, tokens, markUntil, answered, loggedOut, since>>

\* "Remove used challenge from Redis", before a token is made.
ForgetChallenge(r) ==
  /\ At(r, "login", "forget")
  /\ Delete(request[r].name)
  /\ Goto(r, "issue")
  /\ UNCHANGED <<now, users, drawn, tokens, markUntil, answered, loggedOut, since>>

IssueToken(r, t) ==
  /\ At(r, "login", "issue")
  /\ tokens[t] = None
  /\ \E u \in Named(request[r].name) :
       tokens' = [tokens EXCEPT ![t] = [user |-> u, exp |-> now \div Second + TokenLife]]
  /\ answered' = answered \cup {request[r].challenge}
  /\ End(r)
  /\ UNCHANGED <<now, users, stored, drawn, markUntil, loggedOut>>

----------------------------------------------------------------------------
(* Requests under a token: get_current_user decodes it, then asks Redis     *)
(* whether it is marked.  The update of a key stands for all that do some   *)
(* work then.                                                               *)

StartAuthorized(r, op, t, k) ==
  /\ (op = "update") <=> (k \in Keys)
  /\ Decodes(t)
  /\ Begin(r, [Idle EXCEPT !.op = op, !.step = "check", !.token = t, !.key = k])
  /\ UNCHANGED since

IsAuthorized(r) ==
  /\ request[r].step = "check"
  /\ ~Marked(request[r].token)
  /\ Goto(r, "work")
  /\ UNCHANGED <<now, users, stored, drawn, tokens, markUntil, answered, loggedOut, since>>

\* UPDATE users and commit.  Logins that have read the old key go on with it.
UpdateKey(r) ==
  LET u == tokens[request[r].token].user
      k == request[r].key IN
  /\ At(r, "update", "work")
  /\ users' = [users EXCEPT ![u].key = k]
  /\ request' = [request EXCEPT ![r] = Idle]
  /\ since' = [p \in Requests |->
                 IF request[p].op = "login" /\ request[p].name = users[u].name
                   THEN since[p] \cup {k} ELSE since[p]]
  /\ UNCHANGED <<now, stored, drawn, tokens, markUntil, answered, loggedOut>>

\* Mutant: the seconds left are rounded down.
FloorSecondsLeft(t) == (tokens[t].exp * Second - now) \div Second

\* math.ceil of the time that is left.
SecondsLeft(t) == -((now - tokens[t].exp * Second) \div Second)

\* revoke_access_token decodes again.  Nothing is written for a token with no
\* second left.
ComputeMark(r) ==
  LET t == request[r].token IN
  /\ At(r, "logout", "work")
  /\ Decodes(t)
  /\ IF SecondsLeft(t) <= 0
       THEN /\ loggedOut' = loggedOut \cup {t}
            /\ End(r)
       ELSE /\ request' = [request EXCEPT ![r].step = "mark", ![r].time = SecondsLeft(t)]
            /\ UNCHANGED <<loggedOut, since>>
  /\ UNCHANGED <<now, users, stored, drawn, tokens, markUntil, answered>>

\* SET with ex
MarkRevoked(r) ==
  LET t == request[r].token IN
  /\ At(r, "logout", "mark")
  /\ markUntil' = [markUntil EXCEPT ![t] = now + request[r].time * Second]
  /\ loggedOut' = loggedOut \cup {t}
  /\ End(r)
  /\ UNCHANGED <<now, users, stored, drawn, tokens, answered>>

----------------------------------------------------------------------------
\* A check fails after the request has begun: the name is taken meanwhile,
\* the signature is wrong, the token is marked or has just expired.
Refused(r) ==
  /\ \/ At(r, "register", "insert") /\ ~NameIsFree(request[r].name)
     \/ At(r, "login", "verify") /\ ~SignedByUser(r)
     \/ request[r].step = "check" /\ Marked(request[r].token)
     \/ At(r, "logout", "work") /\ ~Decodes(request[r].token)
  /\ End(r)
  /\ UNCHANGED <<now, users, stored, drawn, tokens, markUntil, answered, loggedOut>>

\* The process crashes, or Redis or the database cannot be reached.
Drop(r) ==
  /\ request[r] # Idle
  /\ End(r)
  /\ UNCHANGED <<now, users, stored, drawn, tokens, markUntil, answered, loggedOut>>

Tick ==
  /\ now < MaxTime
  /\ now' = now + 1
  /\ UNCHANGED <<users, stored, drawn, tokens, markUntil, request, answered,
                 loggedOut, since>>

StartSome(r) ==
  \/ \E n \in Names, k \in Keys : StartRegister(r, n, k)
  \/ \E n \in Names, c \in Challenges : StartChallenge(r, n, c)
  \/ \E n \in Names, k \in Keys \cup {None} : StartLogin(r, n, k)
  \/ \E op \in {"logout", "update"}, t \in Tokens, k \in Keys \cup {None} :
       StartAuthorized(r, op, t, k)

Continue(r) ==
  \/ \E u \in Users : Register(r, u)
  \/ StoreChallenge(r)
  \/ PurgeChallenge(r)
  \/ VerifyLogin(r)
  \/ ForgetChallenge(r)
  \/ \E t \in Tokens : IssueToken(r, t)
  \/ IsAuthorized(r)
  \/ UpdateKey(r)
  \/ ComputeMark(r)
  \/ MarkRevoked(r)
  \/ Refused(r)

Next ==
  \/ \E r \in Requests : StartSome(r) \/ Continue(r) \/ Drop(r)
  \/ Tick

Spec == Init /\ [][Next]_vars

----------------------------------------------------------------------------
(* Properties *)

\* Every value has its type, what is set was drawn, and a request that has
\* ended leaves nothing in the slot of the next.
TypeOK ==
  /\ now \in 0..MaxTime
  /\ users \in [Users -> User \cup {None}]
  /\ stored \in [Names -> Challenge \cup {None}]
  /\ drawn \subseteq Challenges /\ answered \subseteq drawn
  /\ \A n \in Names : stored[n] # None => stored[n].challenge \in drawn
  /\ tokens \in [Tokens -> Token \cup {None}]
  /\ markUntil \in [Tokens -> Nat]
  /\ loggedOut \subseteq {t \in Tokens : tokens[t] # None}
  /\ request \in [Requests -> Request]
  /\ \A r \in Requests : request[r].op = "none" => request[r] = Idle
  /\ since \in [Requests -> SUBSET Keys]
  /\ \A r \in Requests : request[r].op # "login" => since[r] = {}

\* One user for each name, whoever registers at the same time: a login looks
\* the user up by name and takes whom it finds.
OneUserPerName ==
  \A u, v \in Registered : users[u].name = users[v].name => u = v

\* A challenge that was answered with a token is in Redis no more: one
\* signature opens no second session afterwards, whatever challenges and
\* logins overlap.  (Two logins that overlap may both use one.)
AnsweredIsForgotten ==
  \A n \in Names : stored[n] # None => stored[n].challenge \notin answered

\* A token whose logout was answered is refused until it expires, however
\* long the logout took and whenever within a second it came.
RevokedIsRefused ==
  \A t \in loggedOut : now < tokens[t].exp * Second => ~Accepted(t)

\* A login gets a token only for a signature with a key that was the user's
\* at some time during the login: an update of the key that was answered
\* before leaves the old key useless, whatever challenges were issued for it.
SignedWithCurrentKey ==
  \A r \in Requests :
    request[r].op = "login" /\ request[r].step \in {"forget", "issue"} =>
      request[r].key \in since[r]
=============================================================================
