-------------------------- MODULE AuthTokensProofs --------------------------
(***************************************************************************)
(* Proofs about AuthTokens, for any users, names, keys and overlapping     *)
(* requests, and any length of a second and of the life times.  All rest   *)
(* on one inductive invariant, IInv.                                       *)
(***************************************************************************)
EXTENDS AuthTokens, TLAPS

(* The inductive invariant *)

\* A request is at a step of its operation and knows what it needs there.  Who
\* was once registered stays registered.
StepInv(r) ==
  LET q == request[r] IN
  /\ q.op = "register" => q.step = "insert" /\ q.name \in Names /\ q.key \in Keys
  /\ q.op = "challenge" => q.step = "store"
  /\ q.op = "login" => q.step \in {"purge", "verify", "forget", "issue"}
  /\ q.op \in {"challenge", "login"} =>
       q.name \in Names /\ Named(q.name) # {} /\ q.challenge \in drawn
  /\ q.op \in {"logout", "update"} =>
       /\ q.step \in {"check", "work", "mark"}
       /\ q.token \in Tokens /\ tokens[q.token] # None
  /\ q.op = "update" => q.key \in Keys

TypeInv ==
  /\ TypeOK
  /\ \A n \in Names : stored[n] # None => Named(n) # {}
  /\ \A t \in Tokens : tokens[t] # None => tokens[t].user \in Registered
  /\ \A r \in Requests : StepInv(r)

\* A challenge that a login knows is stored for its name or not at all, and
\* not at all when the login has deleted it.
LoginInv(r) ==
  request[r].op = "login" =>
    \A n \in Names : stored[n] # None /\ stored[n].challenge = request[r].challenge =>
      n = request[r].name /\ request[r].step # "issue"

\* A challenge that is about to be stored is known to nobody else.
StoreInv(r) ==
  request[r].op = "challenge" =>
    /\ request[r].challenge \notin answered
    /\ \A n \in Names : stored[n] # None => stored[n].challenge # request[r].challenge
    /\ \A p \in Requests \ {r} :
         request[p].op \in {"challenge", "login"} =>
           request[p].challenge # request[r].challenge

ChallengeInv ==
  /\ AnsweredIsForgotten
  /\ \A n, m \in Names :
       stored[n] # None /\ stored[m] # None /\ stored[n].challenge = stored[m].challenge
         => n = m
  /\ \A r \in Requests : LoginInv(r) /\ StoreInv(r)

\* A key is current since a login began if it was current then or was set since.
KeyInv(r) ==
  request[r].op = "login" =>
    /\ \A u \in Named(request[r].name) : users[u].key \in since[r]
    /\ request[r].step \in {"forget", "issue"} => request[r].key \in since[r]

\* The mark of a token outlives it, whenever it is set.
Outlives(time, t) == time >= tokens[t].exp * Second

TokenInv ==
  /\ \A t \in loggedOut : Outlives(markUntil[t], t) \/ Outlives(now, t)
  /\ \A r \in Requests :
       At(r, "logout", "mark") => Outlives(now + request[r].time * Second, request[r].token)

IInv ==
  /\ TypeInv
  /\ OneUserPerName
  /\ ChallengeInv
  /\ \A r \in Requests : KeyInv(r)
  /\ TokenInv

LEMMA IdleIsRequest == Idle \in Request /\ Idle.op = "none"
BY DEF Idle, Request

LEMMA IInvInit == Init => IInv
<1> SUFFICES ASSUME Init PROVE IInv
  OBVIOUS
<1>1. TypeInv
  BY IdleIsRequest, TimesAreNat DEF Init, TypeInv, TypeOK, StepInv, Idle
<1>2. OneUserPerName
  BY DEF Init, OneUserPerName, Registered
<1>3. ChallengeInv /\ \A r \in Requests : KeyInv(r)
  BY DEF Init, ChallengeInv, AnsweredIsForgotten, LoginInv, StoreInv, KeyInv, Idle
<1>4. TokenInv
  BY DEF Init, TokenInv, At, Idle
<1> QED BY <1>1, <1>2, <1>3, <1>4 DEF IInv

----------------------------------------------------------------------------
(* Steps that change no more than one request *)

\* Request r becomes q.
Becomes(r, q) ==
  /\ q \in Request
  /\ request' = [request EXCEPT ![r] = q]
  /\ UNCHANGED <<now, users, stored, tokens, markUntil, answered, loggedOut>>

\* What a request keeps when nothing but requests and since change.
LEMMA RequestChanges ==
  ASSUME IInv, NEW r \in Requests, NEW q, Becomes(r, q),
         drawn \subseteq drawn', drawn' \subseteq Challenges,
         q.op = "none" => q = Idle,
         since' \in [Requests -> SUBSET Keys],
         q.op # "login" => since'[r] = {},
         \A p \in Requests \ {r} : since'[p] = since[p],
         StepInv(r)', LoginInv(r)', StoreInv(r)', KeyInv(r)',
         q.op = "challenge" => \A p \in Requests \ {r} :
           request[p].op \in {"challenge", "login"} => request[p].challenge # q.challenge,
         q.op = "login" => \A p \in Requests \ {r} :
           request[p].op = "challenge" => request[p].challenge # q.challenge,
         q.op = "logout" /\ q.step = "mark" => Outlives(now + q.time * Second, q.token)
  PROVE  IInv'
<1> USE DEF Becomes
<1>1. \A p \in Requests : request'[p] = IF p = r THEN q ELSE request[p]
  BY DEF IInv, TypeInv, TypeOK
<1>2. /\ Registered' = Registered
      /\ \A n : Named(n)' = Named(n)
  BY DEF Registered, Named
<1>3. TypeInv'
  <2>1. TypeOK'
    <3>1. request' \in [Requests -> Request]
      BY DEF IInv, TypeInv, TypeOK
    <3>2. \A p \in Requests : request'[p].op = "none" => request'[p] = Idle
      BY <1>1 DEF IInv, TypeInv, TypeOK
    <3>3. \A p \in Requests : request'[p].op # "login" => since'[p] = {}
      BY <1>1 DEF IInv, TypeInv, TypeOK
    <3> QED BY <3>1, <3>2, <3>3 DEF IInv, TypeInv, TypeOK
  <2>2. \A p \in Requests : StepInv(p)'
    <3> SUFFICES ASSUME NEW p \in Requests, p # r PROVE StepInv(p)'
      OBVIOUS
    <3> QED BY <1>1, <1>2 DEF IInv, TypeInv, StepInv
  <2> QED BY <1>2, <2>1, <2>2 DEF IInv, TypeInv
<1>4. OneUserPerName'
  BY <1>2 DEF IInv, OneUserPerName
<1>5. ChallengeInv'
  <2>1. \A p \in Requests : LoginInv(p)'
    BY <1>1 DEF IInv, ChallengeInv, LoginInv
  <2>2. \A p \in Requests : StoreInv(p)'
    <3> SUFFICES ASSUME NEW p \in Requests, p # r PROVE StoreInv(p)'
      OBVIOUS
    <3> QED BY <1>1 DEF IInv, ChallengeInv, StoreInv
  <2> QED BY <2>1, <2>2 DEF IInv, ChallengeInv, AnsweredIsForgotten
<1>6. \A p \in Requests : KeyInv(p)'
  <2> SUFFICES ASSUME NEW p \in Requests, p # r PROVE KeyInv(p)'
    OBVIOUS
  <2> QED BY <1>1, <1>2 DEF IInv, KeyInv
<1>7. TokenInv'
  BY <1>1 DEF IInv, TokenInv, At, Outlives
<1> QED BY <1>3, <1>4, <1>5, <1>6, <1>7 DEF IInv

\* What holds of request and since after the request r has ended.
RequestsOK ==
  /\ request \in [Requests -> Request]
  /\ \A p \in Requests : request[p].op = "none" => request[p] = Idle
  /\ since \in [Requests -> SUBSET Keys]
  /\ \A p \in Requests : request[p].op # "login" => since[p] = {}

LEMMA EndIsOK ==
  ASSUME IInv, NEW r \in Requests, End(r)
  PROVE  /\ RequestsOK'
         /\ request'[r] = Idle
         /\ \A p \in Requests \ {r} : request'[p] = request[p] /\ since'[p] = since[p]
BY IdleIsRequest DEF IInv, TypeInv, TypeOK, RequestsOK, End

LEMMA EndStep ==
  ASSUME IInv, NEW r \in Requests, End(r),
         UNCHANGED <<now, users, stored, drawn, tokens, markUntil, answered, loggedOut>>
  PROVE  IInv'
<1>1. Becomes(r, Idle)
  BY IdleIsRequest DEF Becomes, End
<1>2. since' \in [Requests -> SUBSET Keys] /\ since'[r] = {}
  BY DEF End, IInv, TypeInv, TypeOK
<1>3. \A p \in Requests \ {r} : since'[p] = since[p]
  BY DEF End, IInv, TypeInv, TypeOK
<1>4. StepInv(r)' /\ LoginInv(r)' /\ StoreInv(r)' /\ KeyInv(r)'
  BY EndIsOK DEF StepInv, LoginInv, StoreInv, KeyInv, Idle
<1>5. drawn \subseteq drawn' /\ drawn' \subseteq Challenges
  BY DEF IInv, TypeInv, TypeOK
<1>6. Idle.op = "none" /\ Idle.op # "login" /\ Idle.op # "challenge" /\ Idle.op # "logout"
  BY DEF Idle
<1> QED BY ONLY IInv, <1>1, <1>2, <1>3, <1>4, <1>5, <1>6, RequestChanges

----------------------------------------------------------------------------
(* Requests begin *)

LEMMA StartRegisterStep ==
  ASSUME IInv, NEW r \in Requests, NEW n \in Names, NEW k \in Keys, StartRegister(r, n, k)
  PROVE  IInv'
<1> DEFINE q == [Idle EXCEPT !.op = "register", !.step = "insert", !.name = n, !.key = k]
<1>1. q \in Request /\ q.op = "register" /\ q.step = "insert" /\ q.name = n /\ q.key = k
  BY DEF Idle, Request
<1>2. request[r] = Idle /\ request' = [request EXCEPT ![r] = q]
  BY DEF StartRegister, Begin
<1>3. UNCHANGED <<now, users, stored, drawn, tokens, markUntil, answered, loggedOut, since>>
  BY DEF StartRegister, Begin
<1> HIDE DEF q
<1>4. Becomes(r, q)
  BY <1>1, <1>2, <1>3 DEF Becomes
<1>5. since' \in [Requests -> SUBSET Keys] /\ since'[r] = {}
  BY <1>2, <1>3, IdleIsRequest DEF IInv, TypeInv, TypeOK
<1>6. request'[r] = q
  BY <1>2 DEF IInv, TypeInv, TypeOK
<1>7. StepInv(r)' /\ LoginInv(r)' /\ StoreInv(r)' /\ KeyInv(r)'
  BY <1>1, <1>6 DEF StepInv, LoginInv, StoreInv, KeyInv
<1>8. drawn \subseteq drawn' /\ drawn' \subseteq Challenges
  BY <1>3 DEF IInv, TypeInv, TypeOK
<1>9. \A p \in Requests \ {r} : since'[p] = since[p]
  BY <1>3
<1> QED BY <1>1, <1>4, <1>5, <1>7, <1>8, <1>9, RequestChanges

LEMMA StartChallengeStep ==
  ASSUME IInv, NEW r \in Requests, NEW n \in Names, NEW c \in Challenges,
         StartChallenge(r, n, c)
  PROVE  IInv'
<1> DEFINE q == [Idle EXCEPT !.op = "challenge", !.step = "store", !.name = n,
                             !.challenge = c, !.time = now + ChallengeLife]
<1>1. /\ q \in Request /\ q.op = "challenge" /\ q.step = "store" /\ q.name = n
      /\ q.challenge = c
  <2>1. now + ChallengeLife \in Nat
    BY TimesAreNat DEF IInv, TypeInv, TypeOK
  <2> QED BY <2>1 DEF Idle, Request
<1>2. request[r] = Idle /\ request' = [request EXCEPT ![r] = q]
  BY DEF StartChallenge
<1>3. /\ UNCHANGED <<now, users, stored, tokens, markUntil, answered, loggedOut, since>>
      /\ drawn' = drawn \cup {c} /\ c \notin drawn /\ Named(n) # {}
  BY DEF StartChallenge
<1> HIDE DEF q
<1>4. Becomes(r, q)
  BY <1>1, <1>2, <1>3 DEF Becomes
<1>5. since' \in [Requests -> SUBSET Keys] /\ since'[r] = {}
  BY <1>2, <1>3, IdleIsRequest DEF IInv, TypeInv, TypeOK
<1>6. \A p \in Requests : request'[p] = IF p = r THEN q ELSE request[p]
  BY <1>2 DEF IInv, TypeInv, TypeOK
<1>7. \A p \in Requests \ {r} :
        request[p].op \in {"challenge", "login"} => request[p].challenge # c
  BY <1>3 DEF IInv, TypeInv, StepInv
<1>8. StepInv(r)'
  BY <1>1, <1>3, <1>6 DEF StepInv, Named, Registered
<1>9. LoginInv(r)' /\ KeyInv(r)'
  BY <1>1, <1>6 DEF LoginInv, KeyInv
<1>10. StoreInv(r)'
  BY <1>1, <1>3, <1>6, <1>7 DEF StoreInv, IInv, TypeInv, TypeOK
<1>11. drawn \subseteq drawn' /\ drawn' \subseteq Challenges
  BY <1>3 DEF IInv, TypeInv, TypeOK
<1>12. \A p \in Requests \ {r} : since'[p] = since[p]
  BY <1>3
<1> QED BY <1>1, <1>4, <1>5, <1>7, <1>8, <1>9, <1>10, <1>11, <1>12, RequestChanges

LEMMA StartLoginStep ==
  ASSUME IInv, NEW r \in Requests, NEW n \in Names, NEW k \in Keys \cup {None},
         StartLogin(r, n, k)
  PROVE  IInv'
<1> DEFINE q == [Idle EXCEPT !.op = "login", !.name = n, !.key = k,
                   !.step = IF now > stored[n].expires THEN "purge" ELSE "verify",
                   !.challenge = stored[n].challenge]
<1>1. stored[n] # None /\ stored[n].challenge \in drawn /\ Named(n) # {}
  BY DEF StartLogin, Live, IInv, TypeInv, TypeOK
<1>2. /\ q \in Request /\ q.op = "login" /\ q.step \in {"purge", "verify"} /\ q.name = n
      /\ q.challenge = stored[n].challenge
  BY <1>1 DEF Idle, Request, IInv, TypeInv, TypeOK
<1>3. request[r] = Idle /\ request' = [request EXCEPT ![r] = q]
  BY DEF StartLogin, Begin
<1>4. /\ UNCHANGED <<now, users, stored, drawn, tokens, markUntil, answered, loggedOut>>
      /\ since' = [since EXCEPT ![r] = {users[u].key : u \in Named(n)}]
  BY DEF StartLogin, Begin
<1> HIDE DEF q
<1>5. Becomes(r, q)
  BY <1>2, <1>3, <1>4 DEF Becomes
<1>6. {users[u].key : u \in Named(n)} \subseteq Keys
  BY DEF Named, Registered, User, IInv, TypeInv, TypeOK
<1>7. since' \in [Requests -> SUBSET Keys]
  BY <1>4, <1>6 DEF IInv, TypeInv, TypeOK
<1>8. \A p \in Requests \ {r} : since'[p] = since[p]
  BY <1>4 DEF IInv, TypeInv, TypeOK
<1>9. request'[r] = q /\ since'[r] = {users[u].key : u \in Named(n)}
  BY <1>3, <1>4 DEF IInv, TypeInv, TypeOK
<1>10. StepInv(r)'
  BY <1>1, <1>2, <1>4, <1>9 DEF StepInv, Named, Registered
<1>11. LoginInv(r)'
  BY <1>1, <1>2, <1>4, <1>9 DEF LoginInv, IInv, ChallengeInv
<1>12. StoreInv(r)'
  BY <1>2, <1>9 DEF StoreInv
<1>13. KeyInv(r)'
  BY <1>2, <1>4, <1>9 DEF KeyInv, Named, Registered
<1>14. drawn \subseteq drawn' /\ drawn' \subseteq Challenges
  BY <1>4 DEF IInv, TypeInv, TypeOK
<1>15. \A p \in Requests \ {r} :
         request[p].op = "challenge" => request[p].challenge # q.challenge
  BY <1>1, <1>2 DEF IInv, ChallengeInv, StoreInv
<1> QED BY <1>2, <1>5, <1>7, <1>8, <1>10, <1>11, <1>12, <1>13, <1>14, <1>15, RequestChanges

LEMMA StartAuthorizedStep ==
  ASSUME IInv, NEW r \in Requests, NEW op \in {"logout", "update"}, NEW t \in Tokens,
         NEW k \in Keys \cup {None}, StartAuthorized(r, op, t, k)
  PROVE  IInv'
<1> DEFINE q == [Idle EXCEPT !.op = op, !.step = "check", !.token = t, !.key = k]
<1>1. /\ q \in Request /\ q.op = op /\ q.step = "check" /\ q.token = t /\ q.key = k
  BY DEF Idle, Request
<1>2. request[r] = Idle /\ request' = [request EXCEPT ![r] = q]
  BY DEF StartAuthorized, Begin
<1>3. UNCHANGED <<now, users, stored, drawn, tokens, markUntil, answered, loggedOut, since>>
  BY DEF StartAuthorized, Begin
<1>4. tokens[t] # None /\ (op = "update" => k \in Keys)
  BY DEF StartAuthorized, Decodes
<1> HIDE DEF q
<1>5. Becomes(r, q)
  BY <1>1, <1>2, <1>3 DEF Becomes
<1>6. since' \in [Requests -> SUBSET Keys] /\ since'[r] = {}
  BY <1>2, <1>3, IdleIsRequest DEF IInv, TypeInv, TypeOK
<1>7. request'[r] = q
  BY <1>2 DEF IInv, TypeInv, TypeOK
<1>8. StepInv(r)' /\ LoginInv(r)' /\ StoreInv(r)' /\ KeyInv(r)'
  BY <1>1, <1>3, <1>4, <1>7 DEF StepInv, LoginInv, StoreInv, KeyInv
<1>9. drawn \subseteq drawn' /\ drawn' \subseteq Challenges
  BY <1>3 DEF IInv, TypeInv, TypeOK
<1>10. \A p \in Requests \ {r} : since'[p] = since[p]
  BY <1>3
<1> QED BY <1>1, <1>5, <1>6, <1>8, <1>9, <1>10, RequestChanges

----------------------------------------------------------------------------
(* Steps of a request that goes on *)

LEMMA VerifyLoginStep ==
  ASSUME IInv, NEW r \in Requests, VerifyLogin(r)
  PROVE  IInv'
<1> DEFINE q == [request[r] EXCEPT !.step = "forget"]
<1>1. request[r] \in Request
  BY DEF IInv, TypeInv, TypeOK
<1>2. /\ q \in Request /\ q.op = "login" /\ q.step = "forget"
      /\ q.name = request[r].name /\ q.key = request[r].key
      /\ q.challenge = request[r].challenge
  BY <1>1 DEF Request, VerifyLogin, At
<1>3. request' = [request EXCEPT ![r] = q]
  BY DEF VerifyLogin, Goto
<1>4. UNCHANGED <<now, users, stored, drawn, tokens, markUntil, answered, loggedOut, since>>
  BY DEF VerifyLogin
<1>5. request[r].op = "login" /\ request[r].step = "verify"
  BY DEF VerifyLogin, At
<1>6. \E u \in Named(request[r].name) : users[u].key = request[r].key
  BY DEF VerifyLogin, SignedByUser
<1> HIDE DEF q
<1>7. Becomes(r, q)
  BY <1>2, <1>3, <1>4 DEF Becomes
<1>8. since' \in [Requests -> SUBSET Keys] /\ \A p \in Requests \ {r} : since'[p] = since[p]
  BY <1>4 DEF IInv, TypeInv, TypeOK
<1>9. request'[r] = q
  BY <1>3 DEF IInv, TypeInv, TypeOK
<1>10. StepInv(r)'
  <2>1. StepInv(r)
    BY DEF IInv, TypeInv
  <2> QED BY <2>1, <1>2, <1>4, <1>5, <1>9 DEF StepInv, Named, Registered
<1>11. LoginInv(r)' /\ StoreInv(r)'
  BY <1>2, <1>4, <1>5, <1>9 DEF LoginInv, StoreInv, IInv, ChallengeInv
<1>12. KeyInv(r)'
  BY <1>2, <1>4, <1>5, <1>6, <1>9 DEF KeyInv, Named, Registered, IInv
<1>13. drawn \subseteq drawn' /\ drawn' \subseteq Challenges
  BY <1>4 DEF IInv, TypeInv, TypeOK
<1>14. \A p \in Requests \ {r} :
         request[p].op = "challenge" => request[p].challenge # q.challenge
  BY <1>2, <1>5 DEF IInv, ChallengeInv, StoreInv
<1> QED BY <1>2, <1>7, <1>8, <1>10, <1>11, <1>12, <1>13, <1>14, RequestChanges

LEMMA IsAuthorizedStep ==
  ASSUME IInv, NEW r \in Requests, IsAuthorized(r)
  PROVE  IInv'
<1> DEFINE q == [request[r] EXCEPT !.step = "work"]
<1>1. request[r] \in Request
  BY DEF IInv, TypeInv, TypeOK
<1>2. StepInv(r) /\ request[r].step = "check"
  BY DEF IInv, TypeInv, IsAuthorized
<1>3. request[r].op \in {"logout", "update"}
  BY <1>1, <1>2, IdleIsRequest DEF StepInv, Request, IInv, TypeInv, TypeOK, Idle
<1>4. /\ q \in Request /\ q.op = request[r].op /\ q.step = "work"
      /\ q.key = request[r].key /\ q.token = request[r].token
  BY <1>1 DEF Request
<1>5. request' = [request EXCEPT ![r] = q]
  BY DEF IsAuthorized, Goto
<1>6. UNCHANGED <<now, users, stored, drawn, tokens, markUntil, answered, loggedOut, since>>
  BY DEF IsAuthorized
<1> HIDE DEF q
<1>7. Becomes(r, q)
  BY <1>4, <1>5, <1>6 DEF Becomes
<1>8. /\ since' \in [Requests -> SUBSET Keys]
      /\ \A p \in Requests \ {r} : since'[p] = since[p]
      /\ since'[r] = {}
  BY <1>3, <1>6 DEF IInv, TypeInv, TypeOK
<1>9. request'[r] = q
  BY <1>5 DEF IInv, TypeInv, TypeOK
<1>10. StepInv(r)' /\ LoginInv(r)' /\ StoreInv(r)' /\ KeyInv(r)'
  BY <1>2, <1>3, <1>4, <1>6, <1>9 DEF StepInv, LoginInv, StoreInv, KeyInv
<1>11. drawn \subseteq drawn' /\ drawn' \subseteq Challenges
  BY <1>6 DEF IInv, TypeInv, TypeOK
<1> QED BY <1>3, <1>4, <1>7, <1>8, <1>10, <1>11, RequestChanges

\* Rounding up leaves a mark at least as much time as the token has, and a
\* token with no second left is at its end.
LEMMA RoundsUp ==
  ASSUME IInv, NEW t \in Tokens, tokens[t] # None
  PROVE  /\ SecondsLeft(t) \in Int
         /\ Outlives(now + SecondsLeft(t) * Second, t)
         /\ SecondsLeft(t) <= 0 => Outlives(now, t)
<1>1. tokens[t] \in Token
  BY DEF IInv, TypeInv, TypeOK
<1>2. PICK n \in Int : n = now
  BY DEF IInv, TypeInv, TypeOK
<1>3. PICK x \in Int : x = tokens[t].exp
  BY <1>1 DEF Token
<1>4. PICK s \in Nat \ {0} : s = Second
  BY TimesAreNat
<1>5. PICK d \in Int : d = n - x * s
  OBVIOUS
<1>6. /\ d \div s \in Int
      /\ s * (d \div s) <= d
  BY <1>4, <1>5
<1>7. PICK f \in Int : f = d \div s
  BY <1>6
<1>8. SecondsLeft(t) = -f
  BY <1>2, <1>3, <1>4, <1>5, <1>7 DEF SecondsLeft
<1>9. s * f <= n - x * s
  BY <1>5, <1>6, <1>7
<1>10. n + (-f) * s >= x * s
  <2>1. (-f) * s = -(s * f)
    OBVIOUS
  <2> QED BY <1>9, <2>1
<1>11. -f <= 0 => n >= x * s
  <2> SUFFICES ASSUME -f <= 0 PROVE n >= x * s
    OBVIOUS
  <2>1. f \in Nat
    OBVIOUS
  <2>2. s * f >= 0
    BY <2>1, <1>4
  <2> QED BY <2>2, <1>9
<1> QED BY <1>2, <1>3, <1>4, <1>8, <1>10, <1>11 DEF Outlives

\* Second seconds for each whole number is a natural number of ticks.
LEMMA TicksAreNat ==
  ASSUME NEW n \in Nat
  PROVE  n * Second \in Nat
BY TimesAreNat

LEMMA ComputeMarkStep ==
  ASSUME IInv, NEW r \in Requests, ComputeMark(r)
  PROVE  IInv'
<1> DEFINE t == request[r].token
<1>1. request[r] \in Request /\ StepInv(r) /\ request[r].op = "logout"
  BY DEF IInv, TypeInv, TypeOK, ComputeMark, At
<1>2. t \in Tokens /\ tokens[t] # None
  BY <1>1 DEF StepInv
<1>3. UNCHANGED <<now, users, stored, drawn, tokens, markUntil, answered>>
  BY DEF ComputeMark
<1>4. /\ SecondsLeft(t) \in Int
      /\ Outlives(now + SecondsLeft(t) * Second, t)
      /\ SecondsLeft(t) <= 0 => Outlives(now, t)
  BY <1>2, RoundsUp
<1>5. CASE SecondsLeft(t) <= 0
  <2>1. loggedOut' = loggedOut \cup {t} /\ End(r)
    BY <1>5 DEF ComputeMark
  <2>2. RequestsOK' /\ request'[r] = Idle
        /\ \A p \in Requests \ {r} : request'[p] = request[p] /\ since'[p] = since[p]
    BY <2>1, EndIsOK
  <2>3. /\ Registered' = Registered
        /\ \A n : Named(n)' = Named(n)
    BY <1>3 DEF Registered, Named
  <2>4. TypeOK'
    BY <1>2, <1>3, <2>1, <2>2 DEF RequestsOK, IInv, TypeInv, TypeOK
  <2>5. \A p \in Requests : StepInv(p)'
    <3> SUFFICES ASSUME NEW p \in Requests PROVE StepInv(p)'
      OBVIOUS
    <3>1. CASE p = r
      BY <2>2, <3>1 DEF StepInv, Idle
    <3>2. CASE p # r
      BY <1>3, <2>2, <2>3, <3>2 DEF StepInv, IInv, TypeInv
    <3> QED BY <3>1, <3>2
  <2>6. TypeInv'
    BY <1>3, <2>3, <2>4, <2>5 DEF IInv, TypeInv
  <2>7. OneUserPerName'
    BY <1>3, <2>3 DEF IInv, OneUserPerName
  <2>8. ChallengeInv'
    BY <1>3, <2>2 DEF IInv, ChallengeInv, AnsweredIsForgotten, LoginInv, StoreInv, Idle
  <2>9. \A p \in Requests : KeyInv(p)'
    BY <1>3, <2>2, <2>3 DEF IInv, KeyInv, Idle
  <2>10. TokenInv'
    BY <1>3, <1>4, <1>5, <2>1, <2>2 DEF IInv, TokenInv, Outlives, At, Idle
  <2> QED BY <2>6, <2>7, <2>8, <2>9, <2>10 DEF IInv
<1>6. CASE ~(SecondsLeft(t) <= 0)
  <2> DEFINE q == [request[r] EXCEPT !.step = "mark", !.time = SecondsLeft(t)]
  <2>1. request' = [request EXCEPT ![r] = q] /\ UNCHANGED <<loggedOut, since>>
    BY <1>6 DEF ComputeMark
  <2>2. SecondsLeft(t) \in Nat
    BY <1>4, <1>6
  <2>3. /\ q \in Request /\ q.op = "logout" /\ q.step = "mark"
        /\ q.token = t /\ q.time = SecondsLeft(t)
    BY <1>1, <2>2 DEF Request
  <2> HIDE DEF q
  <2>4. Becomes(r, q)
    BY <1>3, <2>1, <2>3 DEF Becomes
  <2>5. /\ since' \in [Requests -> SUBSET Keys]
        /\ \A p \in Requests \ {r} : since'[p] = since[p]
        /\ since'[r] = {}
    BY <1>1, <2>1 DEF IInv, TypeInv, TypeOK
  <2>6. request'[r] = q
    BY <2>1 DEF IInv, TypeInv, TypeOK
  <2>7. StepInv(r)' /\ LoginInv(r)' /\ StoreInv(r)' /\ KeyInv(r)'
    BY <1>2, <1>3, <2>3, <2>6 DEF StepInv, LoginInv, StoreInv, KeyInv
  <2>8. drawn \subseteq drawn' /\ drawn' \subseteq Challenges
    BY <1>3 DEF IInv, TypeInv, TypeOK
  <2>9. Outlives(now + q.time * Second, q.token)
    BY <1>4, <2>3
  <2> QED BY <2>3, <2>4, <2>5, <2>7, <2>8, <2>9, RequestChanges
<1> QED BY <1>5, <1>6

LEMMA MarkRevokedStep ==
  ASSUME IInv, NEW r \in Requests, MarkRevoked(r)
  PROVE  IInv'
<1> DEFINE t == request[r].token
           mark == now + request[r].time * Second
<1>1. request[r] \in Request /\ StepInv(r) /\ request[r].op = "logout"
  BY DEF IInv, TypeInv, TypeOK, MarkRevoked, At
<1>2. t \in Tokens /\ tokens[t] # None
  BY <1>1 DEF StepInv
<1>3. UNCHANGED <<now, users, stored, drawn, tokens, answered>>
  BY DEF MarkRevoked
<1>4. loggedOut' = loggedOut \cup {t} /\ End(r) /\ markUntil' = [markUntil EXCEPT ![t] = mark]
  BY DEF MarkRevoked
<1>5. mark \in Nat
  <2>1. request[r].time \in Nat /\ now \in Nat
    BY <1>1, TimesAreNat DEF Request, IInv, TypeInv, TypeOK
  <2>2. request[r].time * Second \in Nat
    BY <2>1, TicksAreNat
  <2> QED BY <2>1, <2>2
<1>6. Outlives(mark, t)
  BY DEF MarkRevoked, IInv, TokenInv
<1> HIDE DEF mark
<1>7. RequestsOK' /\ request'[r] = Idle
      /\ \A p \in Requests \ {r} : request'[p] = request[p] /\ since'[p] = since[p]
  BY <1>4, EndIsOK
<1>8. /\ Registered' = Registered
      /\ \A n : Named(n)' = Named(n)
  BY <1>3 DEF Registered, Named
<1>9. TypeInv'
  <2>1. TypeOK'
    BY <1>2, <1>3, <1>4, <1>5, <1>7 DEF RequestsOK, IInv, TypeInv, TypeOK
  <2>2. \A p \in Requests : StepInv(p)'
    <3> SUFFICES ASSUME NEW p \in Requests PROVE StepInv(p)'
      OBVIOUS
    <3>1. CASE p = r
      BY <1>7, <3>1 DEF StepInv, Idle
    <3>2. CASE p # r
      BY <1>3, <1>7, <1>8, <3>2 DEF StepInv, IInv, TypeInv
    <3> QED BY <3>1, <3>2
  <2> QED BY <1>3, <1>8, <2>1, <2>2 DEF IInv, TypeInv
<1>10. OneUserPerName'
  BY <1>3, <1>8 DEF IInv, OneUserPerName
<1>11. ChallengeInv'
  BY <1>3, <1>7 DEF IInv, ChallengeInv, AnsweredIsForgotten, LoginInv, StoreInv, Idle
<1>12. \A p \in Requests : KeyInv(p)'
  BY <1>3, <1>7, <1>8 DEF IInv, KeyInv, Idle
<1>13. TokenInv'
  <2>1. \A x \in loggedOut' : Outlives(markUntil[x], x)' \/ Outlives(now, x)'
    <3> SUFFICES ASSUME NEW x \in loggedOut'
                 PROVE  Outlives(markUntil[x], x)' \/ Outlives(now, x)'
      OBVIOUS
    <3>1. CASE x = t
      BY <1>2, <1>3, <1>4, <1>6, <3>1 DEF Outlives, IInv, TypeInv, TypeOK
    <3>2. CASE x # t
      BY <1>3, <1>4, <3>2 DEF Outlives, IInv, TypeInv, TypeOK, TokenInv
    <3> QED BY <3>1, <3>2
  <2>2. \A p \in Requests :
          (At(p, "logout", "mark") => Outlives(now + request[p].time * Second, request[p].token))'
    BY <1>3, <1>7 DEF IInv, TokenInv, Outlives, At, Idle
  <2> QED BY <2>1, <2>2 DEF TokenInv
<1> QED BY <1>9, <1>10, <1>11, <1>12, <1>13 DEF IInv

LEMMA TickStep ==
  ASSUME IInv, Tick
  PROVE  IInv'
<1> USE DEF Tick
<1>1. /\ Registered' = Registered
      /\ \A n : Named(n)' = Named(n)
  BY DEF Registered, Named
<1>2. TypeInv'
  <2>1. now' \in 0..MaxTime
    BY TimesAreNat DEF IInv, TypeInv, TypeOK
  <2>2. TypeOK'
    BY <2>1 DEF IInv, TypeInv, TypeOK
  <2>3. \A p \in Requests : StepInv(p)'
    BY <1>1 DEF IInv, TypeInv, StepInv
  <2> QED BY <1>1, <2>2, <2>3 DEF IInv, TypeInv
<1>3. OneUserPerName'
  BY <1>1 DEF IInv, OneUserPerName
<1>4. ChallengeInv'
  BY DEF IInv, ChallengeInv, AnsweredIsForgotten, LoginInv, StoreInv
<1>5. \A p \in Requests : KeyInv(p)'
  BY <1>1 DEF IInv, KeyInv
<1>6. TokenInv'
  <2>1. now \in Int /\ now' = now + 1
    BY DEF IInv, TypeInv, TypeOK
  <2>2. \A t \in Tokens : tokens[t] # None => tokens[t].exp * Second \in Nat
    BY TicksAreNat DEF IInv, TypeInv, TypeOK, Token
  <2>3. \A t \in loggedOut : Outlives(markUntil[t], t)' \/ Outlives(now, t)'
    <3> SUFFICES ASSUME NEW t \in loggedOut
                 PROVE  Outlives(markUntil[t], t)' \/ Outlives(now, t)'
      OBVIOUS
    <3>1. tokens[t].exp * Second \in Nat
      BY <2>2 DEF IInv, TypeInv, TypeOK
    <3> HIDE DEF Tick
    <3>2. CASE Outlives(markUntil[t], t)
      BY <3>2 DEF Outlives, Tick
    <3>3. CASE Outlives(now, t)
      <4>1. tokens[t].exp * Second <= now
        BY <3>3 DEF Outlives
      <4>2. tokens[t].exp * Second <= now + 1
        BY <4>1, <3>1, <2>1
      <4> QED BY <4>2, <2>1 DEF Outlives, Tick
    <3> QED BY <3>2, <3>3 DEF IInv, TokenInv
  <2>4. ASSUME NEW p \in Requests, At(p, "logout", "mark")
        PROVE  Outlives(now + request[p].time * Second, request[p].token)'
    <3>1. request[p] \in Request /\ request[p].token \in Tokens /\ tokens[request[p].token] # None
      BY <2>4 DEF At, IInv, TypeInv, TypeOK, StepInv
    <3>2. request[p].time * Second \in Nat
      BY <3>1, TicksAreNat DEF Request
    <3>3. tokens[request[p].token].exp * Second \in Nat
      BY <3>1, <2>2
    <3>4. now + request[p].time * Second >= tokens[request[p].token].exp * Second
      BY <2>4 DEF IInv, TokenInv, Outlives
    <3>5. (now + 1) + request[p].time * Second >= tokens[request[p].token].exp * Second
      BY <2>1, <3>2, <3>3, <3>4
    <3> QED BY <2>1, <3>5 DEF Outlives
  <2> QED BY <2>3, <2>4 DEF TokenInv, At
<1> QED BY <1>2, <1>3, <1>4, <1>5, <1>6 DEF IInv

----------------------------------------------------------------------------
(* Steps that write to the database or to Redis *)

LEMMA RegisterStep ==
  ASSUME IInv, NEW r \in Requests, NEW u \in Users, Register(r, u)
  PROVE  IInv'
<1> DEFINE n == request[r].name
           row == [name |-> n, key |-> request[r].key]
<1>1. n \in Names /\ request[r].key \in Keys
  BY DEF Register, At, IInv, TypeInv, StepInv
<1>2. /\ users[u] = None /\ Named(n) = {} /\ End(r)
      /\ users' = [users EXCEPT ![u] = row]
      /\ UNCHANGED <<now, stored, drawn, tokens, markUntil, answered, loggedOut>>
  BY DEF Register, NameIsFree
<1>3. row \in User /\ row # None /\ row.name = n
  BY <1>1, NoneIsNoRow DEF User
<1> HIDE DEF row
<1>4. users' \in [Users -> User \cup {None}] /\ \A v \in Users : users'[v] = IF v = u THEN row ELSE users[v]
  BY <1>2, <1>3 DEF IInv, TypeInv, TypeOK
<1>5. RequestsOK' /\ request'[r] = Idle
      /\ \A p \in Requests \ {r} : request'[p] = request[p] /\ since'[p] = since[p]
  BY <1>2, EndIsOK
<1>6. Registered' = Registered \cup {u} /\ u \notin Registered
  BY <1>2, <1>3, <1>4 DEF Registered
<1>7. \A m : m # n => Named(m)' = Named(m) /\ \A v \in Named(m) : v # u
  BY <1>3, <1>4, <1>6 DEF Named, Registered
<1>8. \A m : m = n => Named(m)' = {u}
  BY <1>2, <1>3, <1>4, <1>6 DEF Named, Registered
<1>9. TypeInv'
  <2>1. TypeOK'
    BY <1>2, <1>4, <1>5 DEF RequestsOK, IInv, TypeInv, TypeOK
  <2>2. \A p \in Requests : StepInv(p)'
    <3> SUFFICES ASSUME NEW p \in Requests PROVE StepInv(p)'
      OBVIOUS
    <3>1. CASE p = r
      BY <1>5, <3>1 DEF StepInv, Idle
    <3>2. CASE p # r
      BY <1>2, <1>5, <1>7, <1>8, <3>2 DEF StepInv, IInv, TypeInv
    <3> QED BY <3>1, <3>2
  <2> QED BY <1>2, <1>6, <1>7, <1>8, <2>1, <2>2 DEF IInv, TypeInv
<1>10. OneUserPerName'
  BY <1>2, <1>3, <1>4, <1>6 DEF IInv, OneUserPerName, Named, Registered
<1>11. ChallengeInv'
  BY <1>2, <1>5 DEF IInv, ChallengeInv, AnsweredIsForgotten, LoginInv, StoreInv, Idle
<1>12. \A p \in Requests : KeyInv(p)'
  <2> SUFFICES ASSUME NEW p \in Requests, p # r, request[p].op = "login" PROVE KeyInv(p)'
    BY <1>5 DEF KeyInv, Idle
  <2>1. request[p].name # n
    BY <1>2 DEF IInv, TypeInv, StepInv
  <2>2. \A v \in Named(request[p].name) : users'[v] = users[v]
    BY <1>4, <1>7, <2>1 DEF Named, Registered
  <2> QED BY <1>5, <1>7, <2>1, <2>2 DEF IInv, KeyInv
<1>13. TokenInv'
  BY <1>2, <1>5 DEF IInv, TokenInv, Outlives, At, Idle
<1> QED BY <1>9, <1>10, <1>11, <1>12, <1>13 DEF IInv

\* What writing or deleting a challenge leaves as it is.
LEMMA StoredChanges ==
  ASSUME IInv, UNCHANGED <<now, users, drawn, tokens, markUntil, answered, loggedOut>>,
         RequestsOK',
         stored' \in [Names -> Challenge \cup {None}],
         \A n \in Names : stored'[n] # None =>
           stored'[n].challenge \in drawn /\ Named(n) # {},
         \A p \in Requests : StepInv(p)' /\ KeyInv(p)',
         ChallengeInv',
         \A p \in Requests : At(p, "logout", "mark")' =>
           At(p, "logout", "mark") /\ request'[p] = request[p]
  PROVE  IInv'
<1>1. /\ Registered' = Registered
      /\ \A n : Named(n)' = Named(n)
  BY DEF Registered, Named
<1>2. TypeInv'
  BY <1>1 DEF RequestsOK, IInv, TypeInv, TypeOK
<1>3. OneUserPerName'
  BY <1>1 DEF IInv, OneUserPerName
<1>4. TokenInv'
  BY DEF IInv, TokenInv, Outlives, At
<1> QED BY <1>2, <1>3, <1>4 DEF IInv

LEMMA StoreChallengeStep ==
  ASSUME IInv, NEW r \in Requests, StoreChallenge(r)
  PROVE  IInv'
<1> DEFINE n == request[r].name
           c == request[r].challenge
           value == [challenge |-> c, expires |-> request[r].time, lapses |-> now + ChallengeLife]
<1>1. /\ n \in Names /\ c \in drawn /\ Named(n) # {} /\ request[r] \in Request
      /\ request[r].op = "challenge" /\ StoreInv(r)
  BY DEF StoreChallenge, At, IInv, TypeInv, TypeOK, StepInv, ChallengeInv
<1>2. /\ End(r) /\ stored' = [stored EXCEPT ![n] = value]
      /\ UNCHANGED <<now, users, drawn, tokens, markUntil, answered, loggedOut>>
  BY DEF StoreChallenge
<1>3. value \in Challenge /\ value.challenge = c
  <2>1. now + ChallengeLife \in Nat
    BY TimesAreNat DEF IInv, TypeInv, TypeOK
  <2>2. c \in Challenges /\ request[r].time \in Nat
    BY <1>1 DEF IInv, TypeInv, TypeOK, Request
  <2> QED BY <2>1, <2>2 DEF Challenge
<1> HIDE DEF value
<1>4. /\ stored' \in [Names -> Challenge \cup {None}]
      /\ \A m \in Names : stored'[m] = IF m = n THEN value ELSE stored[m]
  BY <1>2, <1>3 DEF IInv, TypeInv, TypeOK
<1>5. RequestsOK' /\ request'[r] = Idle
      /\ \A p \in Requests \ {r} : request'[p] = request[p] /\ since'[p] = since[p]
  BY <1>2, EndIsOK
<1>6. \A m : Named(m)' = Named(m)
  BY <1>2 DEF Registered, Named
<1>7. \A p \in Requests : StepInv(p)' /\ KeyInv(p)'
  <2> SUFFICES ASSUME NEW p \in Requests PROVE StepInv(p)' /\ KeyInv(p)'
    OBVIOUS
  <2>1. CASE p = r
    BY <1>5, <2>1 DEF StepInv, KeyInv, Idle
  <2>2. CASE p # r
    BY <1>2, <1>5, <1>6, <2>2 DEF StepInv, KeyInv, IInv, TypeInv
  <2> QED BY <2>1, <2>2
<1>8. ChallengeInv'
  <2>1. AnsweredIsForgotten'
    BY <1>1, <1>2, <1>3, <1>4 DEF AnsweredIsForgotten, IInv, ChallengeInv, StoreInv
  <2>2. \A m, k \in Names :
          stored'[m] # None /\ stored'[k] # None /\ stored'[m].challenge = stored'[k].challenge
            => m = k
    BY <1>1, <1>3, <1>4 DEF IInv, ChallengeInv, StoreInv
  <2>3. \A p \in Requests : LoginInv(p)' /\ StoreInv(p)'
    <3> SUFFICES ASSUME NEW p \in Requests, p # r PROVE LoginInv(p)' /\ StoreInv(p)'
      BY <1>5 DEF LoginInv, StoreInv, Idle
    <3>1. request'[p] = request[p] /\ LoginInv(p) /\ StoreInv(p)
      BY <1>5 DEF IInv, ChallengeInv
    <3>2. request[p].op \in {"challenge", "login"} => request[p].challenge # c
      BY <1>1 DEF StoreInv
    <3>3. LoginInv(p)'
      BY <1>3, <1>4, <3>1, <3>2 DEF LoginInv
    <3>4. StoreInv(p)'
      <4> SUFFICES ASSUME request[p].op = "challenge"
                   PROVE  StoreInv(p)'
        BY <3>1 DEF StoreInv
      <4>1. \A m \in Names : stored'[m] # None => stored'[m].challenge # request[p].challenge
        BY <1>3, <1>4, <3>1, <3>2 DEF StoreInv
      <4>2. \A o \in Requests \ {p} :
              request'[o].op \in {"challenge", "login"} =>
                request'[o].challenge # request[p].challenge
        BY <1>5, <3>1 DEF StoreInv, Idle
      <4> QED BY <1>2, <3>1, <4>1, <4>2 DEF StoreInv
    <3> QED BY <3>3, <3>4
  <2> QED BY <2>1, <2>2, <2>3 DEF ChallengeInv
<1>9. \A m \in Names : stored'[m] # None => stored'[m].challenge \in drawn /\ Named(m) # {}
  BY <1>1, <1>3, <1>4 DEF IInv, TypeInv, TypeOK
<1>10. \A p \in Requests : At(p, "logout", "mark")' =>
         At(p, "logout", "mark") /\ request'[p] = request[p]
  BY <1>5 DEF At, Idle
<1> QED BY <1>2, <1>4, <1>5, <1>7, <1>8, <1>9, <1>10, StoredChanges

LEMMA PurgeChallengeStep ==
  ASSUME IInv, NEW r \in Requests, PurgeChallenge(r)
  PROVE  IInv'
<1> DEFINE n == request[r].name
<1>1. /\ End(r) /\ stored' = [stored EXCEPT ![n] = None]
      /\ UNCHANGED <<now, users, drawn, tokens, markUntil, answered, loggedOut>>
  BY DEF PurgeChallenge, Delete
<1>2. /\ stored' \in [Names -> Challenge \cup {None}]
      /\ \A m \in Names : stored'[m] = IF m = n THEN None ELSE stored[m]
  BY <1>1 DEF IInv, TypeInv, TypeOK
<1>3. RequestsOK' /\ request'[r] = Idle
      /\ \A p \in Requests \ {r} : request'[p] = request[p] /\ since'[p] = since[p]
  BY <1>1, EndIsOK
<1>4. \A m : Named(m)' = Named(m)
  BY <1>1 DEF Registered, Named
<1>5. \A p \in Requests : StepInv(p)' /\ KeyInv(p)'
  <2> SUFFICES ASSUME NEW p \in Requests PROVE StepInv(p)' /\ KeyInv(p)'
    OBVIOUS
  <2>1. CASE p = r
    BY <1>3, <2>1 DEF StepInv, KeyInv, Idle
  <2>2. CASE p # r
    BY <1>1, <1>3, <1>4, <2>2 DEF StepInv, KeyInv, IInv, TypeInv
  <2> QED BY <2>1, <2>2
<1>6. ChallengeInv'
  BY <1>1, <1>2, <1>3
  DEF IInv, ChallengeInv, AnsweredIsForgotten, LoginInv, StoreInv, Idle
<1>7. \A m \in Names : stored'[m] # None => stored'[m].challenge \in drawn /\ Named(m) # {}
  BY <1>2 DEF IInv, TypeInv, TypeOK
<1>8. \A p \in Requests : At(p, "logout", "mark")' =>
         At(p, "logout", "mark") /\ request'[p] = request[p]
  BY <1>3 DEF At, Idle
<1> QED BY <1>1, <1>2, <1>3, <1>5, <1>6, <1>7, <1>8, StoredChanges

LEMMA ForgetChallengeStep ==
  ASSUME IInv, NEW r \in Requests, ForgetChallenge(r)
  PROVE  IInv'
<1> DEFINE n == request[r].name
           q == [request[r] EXCEPT !.step = "issue"]
<1>1. /\ request' = [request EXCEPT ![r] = q] /\ stored' = [stored EXCEPT ![n] = None]
      /\ UNCHANGED <<now, users, drawn, tokens, markUntil, answered, loggedOut, since>>
      /\ request[r].op = "login" /\ request[r].step = "forget"
  BY DEF ForgetChallenge, Delete, Goto, At
<1>2. /\ stored' \in [Names -> Challenge \cup {None}]
      /\ \A m \in Names : stored'[m] = IF m = n THEN None ELSE stored[m]
  BY <1>1 DEF IInv, TypeInv, TypeOK
<1>3. /\ q \in Request /\ q.op = "login" /\ q.step = "issue" /\ q.name = n
      /\ q.key = request[r].key /\ q.challenge = request[r].challenge
  <2>1. request[r] \in Request
    BY DEF IInv, TypeInv, TypeOK
  <2> QED BY <1>1, <2>1 DEF Request
<1> HIDE DEF q
<1>4. \A p \in Requests : request'[p] = IF p = r THEN q ELSE request[p]
  BY <1>1 DEF IInv, TypeInv, TypeOK
<1>5. RequestsOK'
  <2>1. request' \in [Requests -> Request]
    BY <1>1, <1>3 DEF IInv, TypeInv, TypeOK
  <2> QED BY <1>1, <1>3, <1>4, <2>1 DEF RequestsOK, IInv, TypeInv, TypeOK
<1>6. \A m : Named(m)' = Named(m)
  BY <1>1 DEF Registered, Named
<1>7. \A p \in Requests : StepInv(p)' /\ KeyInv(p)'
  <2> SUFFICES ASSUME NEW p \in Requests PROVE StepInv(p)' /\ KeyInv(p)'
    OBVIOUS
  <2>1. CASE p = r
    <3>1. StepInv(r) /\ KeyInv(r)
      BY DEF IInv, TypeInv
    <3> QED BY <1>1, <1>3, <1>4, <1>6, <2>1, <3>1 DEF StepInv, KeyInv
  <2>2. CASE p # r
    BY <1>1, <1>4, <1>6, <2>2 DEF StepInv, KeyInv, IInv, TypeInv
  <2> QED BY <2>1, <2>2
<1>8. ChallengeInv'
  <2>1. AnsweredIsForgotten'
    BY <1>1, <1>2 DEF AnsweredIsForgotten, IInv, ChallengeInv
  <2>2. \A m, k \in Names :
          stored'[m] # None /\ stored'[k] # None /\ stored'[m].challenge = stored'[k].challenge
            => m = k
    BY <1>2 DEF IInv, ChallengeInv
  <2>3. \A p \in Requests : LoginInv(p)'
    <3> SUFFICES ASSUME NEW p \in Requests PROVE LoginInv(p)'
      OBVIOUS
    <3>1. LoginInv(p)
      BY DEF IInv, ChallengeInv
    <3> QED BY <1>1, <1>2, <1>3, <1>4, <3>1 DEF LoginInv
  <2>4. \A p \in Requests : StoreInv(p)'
    <3> SUFFICES ASSUME NEW p \in Requests PROVE StoreInv(p)'
      OBVIOUS
    <3>1. StoreInv(p)
      BY DEF IInv, ChallengeInv
    <3> QED BY <1>1, <1>2, <1>3, <1>4, <3>1 DEF StoreInv
  <2> QED BY <2>1, <2>2, <2>3, <2>4 DEF ChallengeInv
<1>9. \A m \in Names : stored'[m] # None => stored'[m].challenge \in drawn /\ Named(m) # {}
  BY <1>2 DEF IInv, TypeInv, TypeOK
<1>10. \A p \in Requests : At(p, "logout", "mark")' =>
         At(p, "logout", "mark") /\ request'[p] = request[p]
  BY <1>3, <1>4 DEF At
<1> QED BY <1>1, <1>2, <1>5, <1>7, <1>8, <1>9, <1>10, StoredChanges

LEMMA IssueTokenStep ==
  ASSUME IInv, NEW r \in Requests, NEW t \in Tokens, IssueToken(r, t)
  PROVE  IInv'
<1> DEFINE n == request[r].name
           c == request[r].challenge
<1>1. /\ End(r) /\ answered' = answered \cup {c} /\ tokens[t] = None
      /\ UNCHANGED <<now, users, stored, drawn, markUntil, loggedOut>>
      /\ request[r].op = "login" /\ request[r].step = "issue"
  BY DEF IssueToken, At
<1>2. PICK u \in Named(n) :
        tokens' = [tokens EXCEPT ![t] = [user |-> u, exp |-> now \div Second + TokenLife]]
  BY DEF IssueToken
<1> DEFINE row == [user |-> u, exp |-> now \div Second + TokenLife]
<1>3. row \in Token /\ row # None /\ row.user = u /\ u \in Registered
  <2>1. now \in Nat
    BY TimesAreNat DEF IInv, TypeInv, TypeOK
  <2>2. now \div Second \in Nat
    BY <2>1, TimesAreNat
  <2>3. now \div Second + TokenLife \in Nat
    BY <2>2, TimesAreNat
  <2>4. u \in Users /\ u \in Registered
    BY DEF Named, Registered
  <2> QED BY <2>3, <2>4, NoneIsNoRow DEF Token
<1>4. tokens' = [tokens EXCEPT ![t] = row]
  BY <1>2
<1> HIDE DEF row
<1>5. /\ tokens' \in [Tokens -> Token \cup {None}]
      /\ \A s \in Tokens : tokens'[s] = IF s = t THEN row ELSE tokens[s]
  BY <1>3, <1>4 DEF IInv, TypeInv, TypeOK
<1>6. RequestsOK' /\ request'[r] = Idle
      /\ \A p \in Requests \ {r} : request'[p] = request[p] /\ since'[p] = since[p]
  BY <1>1, EndIsOK
<1>7. /\ Registered' = Registered
      /\ \A m : Named(m)' = Named(m)
  BY <1>1 DEF Registered, Named
<1>8. StepInv(r) /\ LoginInv(r) /\ c \in drawn
  BY <1>1 DEF IInv, TypeInv, StepInv, ChallengeInv
<1>9. t \notin loggedOut
  BY <1>1 DEF IInv, TypeInv, TypeOK
<1>10. \A p \in Requests \ {r} :
         request[p].op \in {"logout", "update"} => request[p].token # t /\ request[p].token \in Tokens
  BY <1>1 DEF IInv, TypeInv, StepInv
<1>11. TypeInv'
  <2>1. TypeOK'
    <3>1. answered' \subseteq drawn'
      BY <1>1, <1>8 DEF IInv, TypeInv, TypeOK
    <3>2. loggedOut' \subseteq {s \in Tokens : tokens'[s] # None}
      BY <1>1, <1>5, <1>9 DEF IInv, TypeInv, TypeOK
    <3> QED BY <1>1, <1>5, <1>6, <3>1, <3>2 DEF RequestsOK, IInv, TypeInv, TypeOK
  <2>2. \A p \in Requests : StepInv(p)'
    <3> SUFFICES ASSUME NEW p \in Requests PROVE StepInv(p)'
      OBVIOUS
    <3>1. CASE p = r
      BY <1>6, <3>1 DEF StepInv, Idle
    <3>2. CASE p # r
      BY <1>1, <1>5, <1>6, <1>7, <1>10, <3>2 DEF StepInv, IInv, TypeInv
    <3> QED BY <3>1, <3>2
  <2>3. \A s \in Tokens : tokens'[s] # None => tokens'[s].user \in Registered
    BY <1>3, <1>5 DEF IInv, TypeInv
  <2> QED BY <1>1, <1>7, <2>1, <2>2, <2>3 DEF IInv, TypeInv
<1>12. OneUserPerName'
  BY <1>1, <1>7 DEF IInv, OneUserPerName
<1>13. ChallengeInv'
  <2>1. AnsweredIsForgotten'
    BY <1>1, <1>8 DEF AnsweredIsForgotten, LoginInv, IInv, ChallengeInv
  <2>2. \A p \in Requests : LoginInv(p)'
    BY <1>1, <1>6 DEF LoginInv, IInv, ChallengeInv, Idle
  <2>3. \A p \in Requests : StoreInv(p)'
    <3> SUFFICES ASSUME NEW p \in Requests, p # r, request[p].op = "challenge"
                 PROVE  StoreInv(p)'
      BY <1>6 DEF StoreInv, Idle
    <3>1. request[p].challenge # c /\ StoreInv(p)
      BY <1>1 DEF StoreInv, IInv, ChallengeInv
    <3>2. request'[p] = request[p]
      BY <1>6
    <3>3. \A o \in Requests \ {p} :
            request'[o].op \in {"challenge", "login"} => request'[o].challenge # request[p].challenge
      BY <1>6, <3>1 DEF StoreInv, Idle
    <3> QED BY <1>1, <3>1, <3>2, <3>3 DEF StoreInv
  <2> QED BY <1>1, <2>1, <2>2, <2>3 DEF ChallengeInv, IInv
<1>14. \A p \in Requests : KeyInv(p)'
  BY <1>1, <1>6, <1>7 DEF IInv, KeyInv, Idle
<1>15. TokenInv'
  <2>1. \A s \in loggedOut : Outlives(markUntil[s], s)' \/ Outlives(now, s)'
    BY <1>1, <1>5, <1>9 DEF IInv, TypeInv, TypeOK, TokenInv, Outlives
  <2>2. ASSUME NEW p \in Requests, At(p, "logout", "mark")'
        PROVE  Outlives(now + request[p].time * Second, request[p].token)'
    <3>1. p # r /\ request'[p] = request[p] /\ request[p].op = "logout"
      BY <1>6, <2>2 DEF At, Idle
    <3>2. At(p, "logout", "mark")
      BY <2>2, <3>1 DEF At
    <3>3. tokens'[request[p].token] = tokens[request[p].token]
      BY <1>5, <1>10, <3>1
    <3> QED BY <1>1, <3>1, <3>2, <3>3 DEF IInv, TokenInv, Outlives
  <2> QED BY <1>1, <2>1, <2>2 DEF TokenInv
<1> QED BY <1>11, <1>12, <1>13, <1>14, <1>15 DEF IInv

LEMMA UpdateKeyStep ==
  ASSUME IInv, NEW r \in Requests, UpdateKey(r)
  PROVE  IInv'
<1>1. /\ request[r] \in Request /\ request[r].op = "update" /\ request[r].key \in Keys
      /\ request[r].token \in Tokens /\ tokens[request[r].token] # None
  BY DEF UpdateKey, At, IInv, TypeInv, TypeOK, StepInv
<1>2. PICK u, k : u = tokens[request[r].token].user /\ k = request[r].key
  OBVIOUS
<1>3. u \in Registered /\ u \in Users /\ users[u] \in User /\ k \in Keys
  BY <1>1, <1>2 DEF IInv, TypeInv, TypeOK, Registered
<1> DEFINE row == [users[u] EXCEPT !.key = k]
<1>4. /\ users' = [users EXCEPT ![u] = row]
      /\ request' = [request EXCEPT ![r] = Idle]
      /\ since' = [p \in Requests |->
                     IF request[p].op = "login" /\ request[p].name = users[u].name
                       THEN since[p] \cup {k} ELSE since[p]]
      /\ UNCHANGED <<now, stored, drawn, tokens, markUntil, answered, loggedOut>>
  BY <1>2 DEF UpdateKey
<1>5. row \in User /\ row # None /\ row.name = users[u].name /\ row.key = k
  BY <1>3, NoneIsNoRow DEF User
<1> HIDE DEF row
<1>6. /\ users' \in [Users -> User \cup {None}]
      /\ \A v \in Users : users'[v] = IF v = u THEN row ELSE users[v]
  BY <1>3, <1>4, <1>5 DEF IInv, TypeInv, TypeOK
<1>7. Registered' = Registered
  BY <1>3, <1>5, <1>6 DEF Registered
<1>8. \A m : Named(m)' = Named(m)
  BY <1>5, <1>6, <1>7 DEF Named, Registered
<1>9. \A p \in Requests : request'[p] = IF p = r THEN Idle ELSE request[p]
  BY <1>4 DEF IInv, TypeInv, TypeOK
<1>10. RequestsOK'
  <2>1. request' \in [Requests -> Request]
    BY <1>4, IdleIsRequest DEF IInv, TypeInv, TypeOK
  <2>2. since' \in [Requests -> SUBSET Keys]
    BY <1>3, <1>4 DEF IInv, TypeInv, TypeOK
  <2>3. \A p \in Requests : request'[p].op # "login" => since'[p] = {}
    BY <1>1, <1>4, <1>9, IdleIsRequest DEF IInv, TypeInv, TypeOK
  <2> QED BY <1>9, <2>1, <2>2, <2>3 DEF RequestsOK, IInv, TypeInv, TypeOK
<1>11. TypeInv'
  <2>1. TypeOK'
    BY <1>4, <1>6, <1>10 DEF RequestsOK, IInv, TypeInv, TypeOK
  <2>2. \A p \in Requests : StepInv(p)'
    <3> SUFFICES ASSUME NEW p \in Requests PROVE StepInv(p)'
      OBVIOUS
    <3>1. CASE p = r
      BY <1>9, <3>1 DEF StepInv, Idle
    <3>2. CASE p # r
      BY <1>4, <1>8, <1>9, <3>2 DEF StepInv, IInv, TypeInv
    <3> QED BY <3>1, <3>2
  <2> QED BY <1>4, <1>7, <1>8, <2>1, <2>2 DEF IInv, TypeInv
<1>12. OneUserPerName'
  <2>1. \A v \in Registered : users'[v].name = users[v].name
    BY <1>5, <1>6 DEF Registered
  <2> QED BY <1>7, <2>1 DEF IInv, OneUserPerName
<1>13. ChallengeInv'
  BY <1>4, <1>9 DEF IInv, ChallengeInv, AnsweredIsForgotten, LoginInv, StoreInv, Idle
<1>14. \A p \in Requests : KeyInv(p)'
  <2> SUFFICES ASSUME NEW p \in Requests, p # r, request[p].op = "login" PROVE KeyInv(p)'
    BY <1>9 DEF KeyInv, Idle
  <2>1. request'[p] = request[p] /\ KeyInv(p)
    BY <1>9 DEF IInv
  <2>2. \A v \in Named(request[p].name) : v \in Users /\ users[v].name = request[p].name
    BY DEF Named, Registered
  <2>3. since[p] \subseteq since'[p]
    BY <1>4
  <2>4. users[u].name = request[p].name => k \in since'[p]
    BY <1>4
  <2>5. \A v \in Named(request[p].name) : users'[v].key \in since'[p]
    BY <1>5, <1>6, <2>1, <2>2, <2>3, <2>4 DEF KeyInv
  <2> QED BY <1>8, <2>1, <2>3, <2>5 DEF KeyInv
<1>15. TokenInv'
  BY <1>4, <1>9 DEF IInv, TokenInv, Outlives, At, Idle
<1> QED BY <1>11, <1>12, <1>13, <1>14, <1>15 DEF IInv

----------------------------------------------------------------------------
(* Every step *)

LEMMA IInvStep == IInv /\ [Next]_vars => IInv'
<1> SUFFICES ASSUME IInv, [Next]_vars PROVE IInv'
  OBVIOUS
<1>1. ASSUME NEW r \in Requests, StartSome(r) PROVE IInv'
  BY <1>1, StartRegisterStep, StartChallengeStep, StartLoginStep, StartAuthorizedStep
  DEF StartSome
<1>2. ASSUME NEW r \in Requests, Continue(r) PROVE IInv'
  <2>1. ASSUME Refused(r) PROVE IInv'
    BY <2>1, EndStep DEF Refused
  <2> QED BY <1>2, <2>1, RegisterStep, StoreChallengeStep, PurgeChallengeStep, VerifyLoginStep,
             ForgetChallengeStep, IssueTokenStep, IsAuthorizedStep, UpdateKeyStep,
             ComputeMarkStep, MarkRevokedStep DEF Continue
<1>3. ASSUME NEW r \in Requests, Drop(r) PROVE IInv'
  BY <1>3, EndStep DEF Drop
<1>4. CASE UNCHANGED vars
  <2>1. /\ Registered' = Registered
        /\ \A n : Named(n)' = Named(n)
    BY <1>4 DEF vars, Registered, Named
  <2>2. TypeInv'
    BY <1>4, <2>1 DEF vars, IInv, TypeInv, TypeOK, StepInv
  <2>3. OneUserPerName' /\ ChallengeInv' /\ TokenInv' /\ \A r \in Requests : KeyInv(r)'
    BY <1>4, <2>1 DEF vars, IInv, OneUserPerName, ChallengeInv, AnsweredIsForgotten, LoginInv,
                      StoreInv, KeyInv, TokenInv, Outlives, At
  <2> QED BY <2>2, <2>3 DEF IInv
<1> QED BY <1>1, <1>2, <1>3, <1>4, TickStep DEF Next

\* The inductive invariant holds of every reachable state.
THEOREM IInvAlways == Spec => []IInv
BY IInvInit, IInvStep, PTL DEF Spec

----------------------------------------------------------------------------
(* What follows *)

\* Users, challenges, tokens, marks and the slots of requests are typed
\* whatever requests of routers/user.py overlap, and a request that has ended, by an
\* answer, an error or a crash, leaves nothing behind for the next.
THEOREM TypeCorrect == Spec => []TypeOK
<1>1. IInv => TypeOK
  BY DEF IInv, TypeInv
<1> QED BY <1>1, IInvAlways, PTL

\* However many clients register a name at once, past the look of the router
\* and of create_user, one of them gets it.
THEOREM OneUserPerNameAlways == Spec => []OneUserPerName
<1>1. IInv => OneUserPerName
  BY DEF IInv
<1> QED BY <1>1, IInvAlways, PTL

\* A challenge for which a token was answered is in Redis no more, for any
\* number of overlapping challenges and logins: issue_challenge may store a
\* new one, and none stores an old one again.
THEOREM AnsweredIsForgottenAlways == Spec => []AnsweredIsForgotten
<1>1. IInv => AnsweredIsForgotten
  BY DEF IInv, ChallengeInv
<1> QED BY <1>1, IInvAlways, PTL

\* A token whose logout was answered is refused up to its exp, whenever within
\* a second the logout computed the seconds left and whenever it set the mark.
THEOREM RevokedIsRefusedAlways == Spec => []RevokedIsRefused
<1>1. IInv => RevokedIsRefused
  <2> SUFFICES ASSUME IInv, NEW t \in loggedOut, now < tokens[t].exp * Second
               PROVE  ~Accepted(t)
    BY DEF RevokedIsRefused
  <2>1. t \in Tokens /\ tokens[t] \in Token
    BY DEF IInv, TypeInv, TypeOK
  <2>2. now \in Int /\ markUntil[t] \in Int
    BY <2>1 DEF IInv, TypeInv, TypeOK
  <2>3. tokens[t].exp * Second \in Int
    BY <2>1, TicksAreNat DEF Token
  <2>4. ~Outlives(now, t)
    BY <2>2, <2>3 DEF Outlives
  <2>5. markUntil[t] >= tokens[t].exp * Second
    BY <2>4 DEF IInv, TokenInv, Outlives
  <2>6. now < markUntil[t]
    BY <2>2, <2>3, <2>5
  <2> QED BY <2>6 DEF Accepted, Marked
<1> QED BY <1>1, IInvAlways, PTL

\* A login that goes on past the signature was signed with a key that was the
\* user's own at some time since the login began, whatever updates of the key
\* come between its reads.
THEOREM SignedWithCurrentKeyAlways == Spec => []SignedWithCurrentKey
<1>1. IInv => SignedWithCurrentKey
  BY DEF IInv, KeyInv, SignedWithCurrentKey
<1> QED BY <1>1, IInvAlways, PTL
=============================================================================
