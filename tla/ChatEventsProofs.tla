-------------------------- MODULE ChatEventsProofs --------------------------
(***************************************************************************)
(* What one more event does to what a log of a chat tells.                 *)
(***************************************************************************)
EXTENDS ChatEvents, TLAPS

\* An event about u settles u's last word.
LEMMA LastWordIsNew ==
  ASSUME NEW l \in Seq(Event), NEW e \in Event, NEW u, NEW K,
         Subject(e) = u, e.kind \in K
  PROVE  LastWord(Append(l, e), u, K)
<1> DEFINE n == Len(l) + 1
<1>1. /\ n \in DOMAIN Append(l, e)
      /\ Append(l, e)[n] = e
      /\ \A j \in DOMAIN Append(l, e) : ~(j > n)
  OBVIOUS
<1> HIDE DEF n
<1> QED BY <1>1 DEF LastWord

\* An event about somebody else leaves u's last word alone.
LEMMA LastWordStays ==
  ASSUME NEW l \in Seq(Event), NEW e \in Event, NEW u, NEW K,
         Subject(e) # u, LastWord(l, u, K)
  PROVE  LastWord(Append(l, e), u, K)
<1>1. PICK i \in DOMAIN l : /\ Subject(l[i]) = u
                            /\ l[i].kind \in K
                            /\ \A j \in DOMAIN l : j > i => Subject(l[j]) # u
  BY DEF LastWord
<1>2. /\ i \in DOMAIN Append(l, e)
      /\ Append(l, e)[i] = l[i]
  BY <1>1
<1>3. ASSUME NEW j \in DOMAIN Append(l, e), j > i
      PROVE  Subject(Append(l, e)[j]) # u
  <2>1. CASE j \in DOMAIN l
    BY <1>1, <1>3, <2>1
  <2>2. CASE j = Len(l) + 1
    BY <2>2
  <2> QED BY <1>3, <2>1, <2>2
<1> QED BY <1>1, <1>2, <1>3 DEF LastWord

\* A user's last word is of one kind only.
LEMMA LastWordIsOne ==
  ASSUME NEW l \in Seq(Event), NEW u, NEW K, NEW L,
         LastWord(l, u, K), LastWord(l, u, L)
  PROVE  K \cap L # {}
<1>1. PICK i \in DOMAIN l : /\ Subject(l[i]) = u
                            /\ l[i].kind \in K
                            /\ \A j \in DOMAIN l : j > i => Subject(l[j]) # u
  BY DEF LastWord
<1>2. PICK k \in DOMAIN l : /\ Subject(l[k]) = u
                            /\ l[k].kind \in L
                            /\ \A j \in DOMAIN l : j > k => Subject(l[j]) # u
  BY DEF LastWord
<1>3. i \in Nat /\ k \in Nat
  OBVIOUS
<1>4. i = k
  BY <1>1, <1>2, <1>3
<1> QED BY <1>1, <1>2, <1>4

\* Who is mentioned after one more event.
LEMMA MentionedAppend ==
  ASSUME NEW l \in Seq(Event), NEW e \in Event, NEW u
  PROVE  Mentioned(Append(l, e), u) <=> Mentioned(l, u) \/ Subject(e) = u
<1>1. ASSUME Mentioned(l, u) PROVE Mentioned(Append(l, e), u)
  <2>1. PICK i \in DOMAIN l : Subject(l[i]) = u
    BY <1>1 DEF Mentioned
  <2>2. i \in DOMAIN Append(l, e) /\ Append(l, e)[i] = l[i]
    OBVIOUS
  <2> QED BY <2>1, <2>2 DEF Mentioned
<1>2. ASSUME Subject(e) = u PROVE Mentioned(Append(l, e), u)
  <2>1. /\ Len(l) + 1 \in DOMAIN Append(l, e)
        /\ Append(l, e)[Len(l) + 1] = e
    OBVIOUS
  <2> QED BY <1>2, <2>1 DEF Mentioned
<1>3. ASSUME Mentioned(Append(l, e), u) PROVE Mentioned(l, u) \/ Subject(e) = u
  <2>1. PICK i \in DOMAIN Append(l, e) : Subject(Append(l, e)[i]) = u
    BY <1>3 DEF Mentioned
  <2>2. CASE i \in DOMAIN l
    BY <2>1, <2>2 DEF Mentioned
  <2>3. CASE i = Len(l) + 1
    BY <2>1, <2>3
  <2> QED BY <2>2, <2>3
<1> QED BY <1>1, <1>2, <1>3

\* A log stays alternating when the new event is not a departure, or is the
\* departure of a user whose last word is an arrival.
LEMMA AlternatesAppend ==
  ASSUME NEW l \in Seq(Event), NEW e \in Event, Alternates(l),
         e.kind \in Departures => LastWord(l, Subject(e), Arrivals)
  PROVE  Alternates(Append(l, e))
<1> DEFINE m == Append(l, e)
<1>1. SUFFICES ASSUME NEW i \in DOMAIN m, NEW j \in DOMAIN m,
                      i < j,
                      m[i].kind \in Departures, m[j].kind \in Departures,
                      Subject(m[i]) = Subject(m[j])
               PROVE  \E k \in DOMAIN m : /\ i < k /\ k < j
                                          /\ m[k].kind \in Arrivals
                                          /\ Subject(m[k]) = Subject(m[i])
  BY DEF Alternates
<1>2. /\ i \in 1..Len(l) /\ m[i] = l[i]
      /\ \A k \in 1..Len(l) : k \in DOMAIN m /\ m[k] = l[k]
      /\ Len(l) \in Nat
  BY <1>1
<1>3. CASE j \in 1..Len(l)
  <2>1. \E k \in 1..Len(l) : /\ i < k /\ k < j
                             /\ l[k].kind \in Arrivals
                             /\ Subject(l[k]) = Subject(l[i])
    <3> HIDE DEF m
    <3> QED BY <1>1, <1>2, <1>3 DEF Alternates
  <2> QED BY <1>2, <2>1
<1>4. CASE j = Len(l) + 1
  <2>1. m[j] = e
    BY <1>4
  <2>2. PICK k \in 1..Len(l) :
           /\ Subject(l[k]) = Subject(e)
           /\ l[k].kind \in Arrivals
           /\ \A n \in 1..Len(l) : n > k => Subject(l[n]) # Subject(e)
    BY <1>1, <2>1 DEF LastWord
  <2>3. i < k
    <3>1. ~(i > k)
      BY <1>1, <1>2, <2>1, <2>2
    <3>2. i # k
      BY <1>1, <1>2, <2>2 DEF Arrivals, Departures
    <3> QED BY <3>1, <3>2, <1>2
  <2>4. k < j
    BY <1>2, <1>4
  <2> QED BY <1>1, <1>2, <2>1, <2>2, <2>3, <2>4
<1> QED BY <1>1, <1>3, <1>4

\* What was said before a position is still said there after one more event.
LEMMA InvitedBeforeAppend ==
  ASSUME NEW l \in Seq(Event), NEW e \in Event, NEW a, NEW u,
         NEW i \in 1..(Len(l) + 1), InvitedBefore(l, i, a, u)
  PROVE  /\ InvitedBefore(Append(l, e), i, a, u)
         /\ InvitedBefore(Append(l, e), Len(Append(l, e)) + 1, a, u)
<1>1. PICK j \in DOMAIN l : /\ j < i
                            /\ l[j].kind \in Arrivals
                            /\ l[j].target = u
                            /\ l[j].actor = a
  BY DEF InvitedBefore
<1>2. /\ j \in DOMAIN Append(l, e)
      /\ Append(l, e)[j] = l[j]
      /\ j < Len(Append(l, e)) + 1
  OBVIOUS
<1> QED BY <1>1, <1>2 DEF InvitedBefore

LEMMA InvitedNow ==
  ASSUME NEW l \in Seq(Event), NEW e \in Event, e.kind \in Arrivals
  PROVE  InvitedBefore(Append(l, e), Len(Append(l, e)) + 1, e.actor, e.target)
<1>1. /\ Len(l) + 1 \in DOMAIN Append(l, e)
      /\ Append(l, e)[Len(l) + 1] = e
      /\ Len(l) + 1 < Len(Append(l, e)) + 1
  OBVIOUS
<1> QED BY <1>1 DEF InvitedBefore
=============================================================================
