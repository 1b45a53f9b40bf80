------------------------ MODULE PatternAlignmentProofs ------------------------
(***************************************************************************)
(* For any number of sections, any points and any number of actions: the   *)
(* process knows every draft, every save settles while the connection      *)
(* holds, and the history of every section walks back to its saved points. *)
(***************************************************************************)
EXTENDS PatternAlignment, SequenceTheorems, WellFoundedInduction, NaturalsInduction, TLAPS

-----------------------------------------------------------------------------
(* Queues.                                                                 *)

IsSeq(q) == \E S : q \in Seq(S)

LEMMA OneMore ==
    ASSUME NEW q, IsSeq(q), NEW m
    PROVE  /\ IsSeq(Append(q, m)) /\ Append(q, m) # <<>>
           /\ Len(Append(q, m)) = Len(q) + 1 /\ Len(q) \in Nat
           /\ \A i \in 1 .. Len(q) : Append(q, m)[i] = q[i]
           /\ Append(q, m)[Len(q) + 1] = m
<1>1. PICK S : q \in Seq(S)
  BY DEF IsSeq
<1>2. q \in Seq(S \cup {m}) /\ m \in S \cup {m}
  BY <1>1
<1> QED
  BY <1>2 DEF IsSeq

LEMMA OneLess ==
    ASSUME NEW q, IsSeq(q), q # <<>>
    PROVE  /\ IsSeq(Tail(q)) /\ Len(q) \in Nat /\ Len(q) >= 1 /\ Head(q) = q[1]
           /\ Len(Tail(q)) = Len(q) - 1
           /\ \A i \in 1 .. Len(q) - 1 : Tail(q)[i] = q[i + 1]
<1>1. PICK S : q \in Seq(S)
  BY DEF IsSeq
<1>2. Len(q) \in Nat /\ Len(q) >= 1 /\ Head(q) = q[1]
  BY <1>1
<1>3. Tail(q) \in Seq(S) /\ Len(Tail(q)) = Len(q) - 1
  BY <1>1
<1>4. \A i \in 1 .. Len(q) - 1 : Tail(q)[i] = q[i + 1]
  BY <1>1
<1> QED
  BY <1>2, <1>3, <1>4 DEF IsSeq

LEMMA LastGone ==
    ASSUME NEW q, IsSeq(q), q # <<>>
    PROVE  /\ IsSeq(SubSeq(q, 1, Len(q) - 1)) /\ Len(q) \in Nat /\ Len(q) >= 1
           /\ Len(SubSeq(q, 1, Len(q) - 1)) = Len(q) - 1
           /\ \A i \in 1 .. Len(q) - 1 : SubSeq(q, 1, Len(q) - 1)[i] = q[i]
<1>1. PICK S : q \in Seq(S)
  BY DEF IsSeq
<1>2. Len(q) \in Nat /\ Len(q) >= 1
  BY <1>1
<1>3. /\ SubSeq(q, 1, Len(q) - 1) \in Seq(S)
      /\ Len(SubSeq(q, 1, Len(q) - 1)) = Len(q) - 1
      /\ \A i \in 1 .. Len(q) - 1 : SubSeq(q, 1, Len(q) - 1)[i] = q[i]
  <2>1. 1 \in Int /\ Len(q) - 1 \in Int /\ \A i \in 1 .. Len(q) - 1 : q[i] \in S
    BY <1>1, <1>2
  <2>2. /\ SubSeq(q, 1, Len(q) - 1) \in Seq(S)
        /\ Len(SubSeq(q, 1, Len(q) - 1)) = IF 1 <= Len(q) - 1 THEN Len(q) - 1 - 1 + 1 ELSE 0
        /\ \A i \in 1 .. Len(q) - 1 - 1 + 1 : SubSeq(q, 1, Len(q) - 1)[i] = q[1 + i - 1]
    BY <2>1, SubSeqProperties
  <2> DEFINE n == Len(q)
  <2>3. n \in Nat /\ n >= 1
    BY <1>2
  <2>4. /\ (IF 1 <= n - 1 THEN n - 1 - 1 + 1 ELSE 0) = n - 1
        /\ n - 1 - 1 + 1 = n - 1 /\ \A i \in 1 .. n - 1 : 1 + i - 1 = i
    <3> HIDE DEF n
    <3> QED
      BY <2>3
  <2> QED
    BY <2>2, <2>4, Zenon
<1> QED
  BY <1>2, <1>3 DEF IsSeq

LEMMA NoneYet ==
    IsSeq(<<>>) /\ Len(<<>>) = 0
<1>1. <<>> \in Seq({})
  OBVIOUS
<1> QED
  BY <1>1 DEF IsSeq

LEMMA Concatenated ==
    ASSUME NEW q, NEW r, IsSeq(q), IsSeq(r)
    PROVE  /\ IsSeq(q \o r) /\ Len(q) \in Nat /\ Len(r) \in Nat
           /\ Len(q \o r) = Len(q) + Len(r)
           /\ \A i \in 1 .. Len(q) : (q \o r)[i] = q[i]
           /\ \A i \in 1 .. Len(r) : (q \o r)[Len(q) + i] = r[i]
           /\ \A i \in 1 .. Len(q) + Len(r) : i > Len(q) => (q \o r)[i] = r[i - Len(q)]
<1>1. PICK S : q \in Seq(S)
  BY DEF IsSeq
<1>2. PICK T : r \in Seq(T)
  BY DEF IsSeq
<1>3. q \in Seq(S \cup T) /\ r \in Seq(S \cup T)
  BY <1>1, <1>2
<1> QED
  BY <1>3 DEF IsSeq

LEMMA LeastOf ==
    ASSUME NEW T, T \subseteq Nat, T # {}
    PROVE  \E x \in T : \A y \in T : ~(y < x)
<1>1. IsWellFoundedOn(OpToRel(<, Nat), Nat)
  BY NatLessThanWellFounded
<1>2. PICK x \in T : \A y \in T : ~(<<y, x>> \in OpToRel(<, Nat))
  BY <1>1, WFMin
<1>3. ASSUME NEW y \in T, y < x
      PROVE  <<y, x>> \in OpToRel(<, Nat)
  <2>1. OpToRel(<, Nat) = {ss \in Nat \X Nat : ss[1] < ss[2]}
    BY Zenon DEF OpToRel
  <2>2. <<y, x>> \in {ss \in Nat \X Nat : ss[1] < ss[2]}
    BY <1>3
  <2> QED
    BY <2>1, <2>2, Zenon
<1> QED
  BY <1>2, <1>3, Zenon
LEMMA LastOf ==
    ASSUME NEW n \in Nat, NEW S, S \subseteq 1 .. n, S # {}
    PROVE  \E i \in S : \A j \in S : j <= i
<1> DEFINE T == {k \in Nat : n - k \in S}
<1>1. T # {}
  <2>1. PICK i : i \in S
    OBVIOUS
  <2>2. n - i \in Nat /\ n - (n - i) = i
    BY <2>1
  <2> QED
    BY <2>1, <2>2
<1>2. T \subseteq Nat
  OBVIOUS
<1>3. PICK k \in T : \A l \in T : ~(l < k)
  BY <1>1, <1>2, LeastOf
<1>4. ASSUME NEW j \in S PROVE j <= n - k
  <2>1. n - j \in Nat /\ n - (n - j) = j
    BY <1>4
  <2>2. n - j \in T
    BY <2>1
  <2> QED
    BY <1>3, <2>1, <2>2
<1> QED
  BY <1>3, <1>4

LEMMA Alone ==
    ASSUME NEW m
    PROVE  IsSeq(<<m>>) /\ Len(<<m>>) = 1 /\ <<m>>[1] = m
<1>1. <<m>> \in Seq({m})
  OBVIOUS
<1> QED
  BY <1>1 DEF IsSeq

-----------------------------------------------------------------------------
(* The messages.                                                           *)

Located == {"select", "select_section", "delete_section", "simplify", "follow_result"}
Message(m) ==
    /\ m.type \in Located => m.position \in Positions
    /\ m.type = "follow" => m.run.position \in Positions
Mail(q) == IsSeq(q) /\ \A i \in 1 .. Len(q) : Message(q[i])

\* m is the last draft state of the first n messages; there is none.
Says(q, n, m) ==
    \E i \in 1 .. n : /\ q[i] = m /\ m.type = "draft_state"
                      /\ \A j \in i + 1 .. n : q[j].type # "draft_state"
Silent(q, n) == \A i \in 1 .. n : q[i].type # "draft_state"

LEMMA KnownSaid ==
    ASSUME NEW q, IsSeq(q), NEW mirror, NEW dirty
    PROVE  Knows(q, mirror, dirty) <=>
             \/ Silent(q, Len(q)) /\ dirty \subseteq mirror
             \/ \E m : Says(q, Len(q), m) /\ dirty \subseteq m.dirty
<1>1. Silent(q, Len(q)) <=> ~Coming(q, {"draft_state"})
  BY DEF Silent, Coming
<1>2. ASSUME NEW m, Says(q, Len(q), m), dirty \subseteq m.dirty
      PROVE  Knows(q, mirror, dirty)
  BY <1>2 DEF Says, Knows
<1>3. ASSUME NEW i \in 1 .. Len(q), q[i].type = "draft_state", dirty \subseteq q[i].dirty,
             \A j \in i + 1 .. Len(q) : q[j].type # "draft_state"
      PROVE  Says(q, Len(q), q[i])
  BY <1>3 DEF Says
<1> QED
  BY <1>1, <1>2, <1>3 DEF Knows

LEMMA SaidOrNot ==
    ASSUME NEW q, IsSeq(q)
    PROVE  Silent(q, Len(q)) \/ \E m : Says(q, Len(q), m)
<1> DEFINE S == {i \in 1 .. Len(q) : q[i].type = "draft_state"}
<1>1. CASE S = {}
  BY <1>1 DEF Silent
<1>2. CASE S # {}
  <2>1. Len(q) \in Nat
    BY OneMore
  <2>2. PICK i \in S : \A j \in S : j <= i
    BY <1>2, <2>1, LastOf
  <2>3. ASSUME NEW j \in i + 1 .. Len(q) PROVE q[j].type # "draft_state"
    BY <2>1, <2>2
  <2>4. Says(q, Len(q), q[i])
    BY <2>2, <2>3 DEF Says
  <2> QED
    BY <2>4
<1> QED
  BY <1>1, <1>2

LEMMA NothingIsKnown ==
    ASSUME NEW q, IsSeq(q), NEW mirror
    PROVE  Knows(q, mirror, {})
BY SaidOrNot, KnownSaid

\* One message more.
LEMMA JoinsOne ==
    ASSUME NEW q, Mail(q), NEW m, Message(m)
    PROVE  /\ Mail(Joined(q, m))
           /\ m.type = "draft_state" => Says(Joined(q, m), Len(Joined(q, m)), m)
           /\ m.type # "draft_state" =>
                /\ Silent(q, Len(q)) => Silent(Joined(q, m), Len(Joined(q, m)))
                /\ \A d : Says(q, Len(q), d) => Says(Joined(q, m), Len(Joined(q, m)), d)
           /\ Coming(q, {"save"}) \/ m.type = "save" => Coming(Joined(q, m), {"save"})
<1> DEFINE n == Len(q)
           r == Joined(q, m)
<1>1. IsSeq(q) /\ n \in Nat
  BY OneMore DEF Mail
<1>2. CASE m.type = "draft_state" /\ q # <<>> /\ q[n].type = "draft_state"
  <2>1. r = [q EXCEPT ![n] = m]
    BY <1>2 DEF Joined
  <2>2. PICK S : q \in Seq(S)
    BY <1>1 DEF IsSeq
  <2>3. n >= 1
    BY <1>2, <2>2
  <2>4. [q EXCEPT ![n] = m] \in Seq(S \cup {m}) /\ Len([q EXCEPT ![n] = m]) = n
    BY <2>2, <2>3
  <2>9. DOMAIN q = 1 .. n /\ n \in 1 .. n
    BY <2>2, <2>3
  <2>10. r[n] = m /\ \A i \in 1 .. n : i # n => r[i] = q[i]
    BY <2>1, <2>9
  <2>5. IsSeq(r) /\ Len(r) = n /\ r[n] = m /\ \A i \in 1 .. n : i # n => r[i] = q[i]
    BY <2>1, <2>4, <2>10 DEF IsSeq
  <2> HIDE DEF r, n
  <2>6. Mail(r)
    BY <2>5 DEF Mail, n
  <2>7. Says(r, Len(r), m)
    BY <1>1, <1>2, <2>3, <2>5 DEF Says
  <2>8. Coming(q, {"save"}) => Coming(r, {"save"})
    BY <1>2, <2>5 DEF Coming, n
  <2> QED
    BY <1>2, <2>6, <2>7, <2>8 DEF r, n
<1>3. CASE ~(m.type = "draft_state" /\ q # <<>> /\ q[n].type = "draft_state")
  <2>1. r = Append(q, m)
    BY <1>3 DEF Joined
  <2>2. IsSeq(r) /\ Len(r) = n + 1 /\ r[n + 1] = m /\ \A i \in 1 .. n : r[i] = q[i]
    BY <1>1, <2>1, OneMore
  <2> HIDE DEF r, n
  <2>3. Mail(r)
    <3> SUFFICES ASSUME NEW i \in 1 .. n + 1 PROVE Message(r[i])
      BY <2>2 DEF Mail
    <3>1. CASE i = n + 1
      BY <2>2, <3>1
    <3>2. CASE i \in 1 .. n
      BY <2>2, <3>2 DEF Mail, n
    <3> QED
      BY <1>1, <3>1, <3>2
  <2>4. m.type = "draft_state" => Says(r, n + 1, m)
    BY <1>1, <2>2 DEF Says
  <2>5. m.type # "draft_state" /\ Silent(q, n) => Silent(r, n + 1)
    BY <1>1, <2>2 DEF Silent
  <2>6. ASSUME NEW d, m.type # "draft_state", Says(q, n, d) PROVE Says(r, n + 1, d)
    <3>1. PICK i \in 1 .. n : q[i] = d /\ d.type = "draft_state"
                              /\ \A j \in i + 1 .. n : q[j].type # "draft_state"
      BY <2>6 DEF Says
    <3>2. ASSUME NEW j \in i + 1 .. n + 1 PROVE r[j].type # "draft_state"
      <4>1. CASE j = n + 1
        BY <2>2, <2>6, <4>1
      <4>2. CASE j \in i + 1 .. n
        BY <1>1, <2>2, <3>1, <4>2
      <4> QED
        BY <1>1, <4>1, <4>2
    <3>3. i \in 1 .. n + 1 /\ r[i] = d
      BY <1>1, <2>2, <3>1
    <3> QED
      BY <3>1, <3>2, <3>3 DEF Says
  <2>7. Coming(q, {"save"}) => Coming(r, {"save"})
    <3> SUFFICES ASSUME NEW i \in 1 .. n, q[i].type = "save" PROVE Coming(r, {"save"})
      BY DEF Coming, n
    <3>1. i \in 1 .. n + 1 /\ r[i].type = "save"
      BY <1>1, <2>2
    <3> QED
      BY <2>2, <3>1 DEF Coming
  <2>8. m.type = "save" => Coming(r, {"save"})
    <3>1. n + 1 \in 1 .. n + 1
      BY <1>1
    <3> QED
      BY <2>2, <3>1 DEF Coming
  <2> QED
    BY <2>2, <2>3, <2>4, <2>5, <2>6, <2>7, <2>8 DEF r, n
<1> QED
  BY <1>2, <1>3

\* What a handler sent, one message after the other.
NextQueue(f, n, q, sent) == IF n = 0 THEN q ELSE Joined(f[n - 1], sent[n])
Glues(f, n, q, sent) == f = [i \in 0 .. n |-> NextQueue(f, i, q, sent)]

LEMMA GluedExists ==
    ASSUME NEW q, NEW sent
    PROVE  \A n \in Nat : \E f : Glues(f, n, q, sent)
<1> DEFINE T == {n \in Nat : ~\E f : Glues(f, n, q, sent)}
<1>1. ASSUME T # {} PROVE FALSE
  <2>1. PICK n \in T : \A k \in T : ~(k < n)
    BY <1>1, LeastOf
  <2>2. n # 0
    <3> DEFINE f == [i \in 0 .. 0 |-> q]
    <3>1. \A i \in 0 .. 0 : NextQueue(f, i, q, sent) = q
      BY DEF NextQueue
    <3> HIDE DEF f
    <3>2. [i \in 0 .. 0 |-> NextQueue(f, i, q, sent)] = [i \in 0 .. 0 |-> q]
      BY <3>1
    <3>3. Glues(f, 0, q, sent)
      BY <3>2 DEF Glues, f
    <3> QED
      BY <3>3
  <2>3. PICK f : Glues(f, n - 1, q, sent)
    <3>1. n - 1 \in Nat /\ n - 1 < n
      BY <2>2
    <3> QED
      BY <2>1, <3>1
  <2> DEFINE g == [i \in 0 .. n |-> NextQueue(f, i, q, sent)]
  <2>4. \A i \in 0 .. n - 1 : f[i] = g[i]
    <3>1. f = [i \in 0 .. n - 1 |-> NextQueue(f, i, q, sent)]
      BY <2>3 DEF Glues
    <3>2. TAKE i \in 0 .. n - 1
    <3>3. i \in 0 .. n
      BY <2>1
    <3>4. g[i] = NextQueue(f, i, q, sent)
      BY <3>3
    <3> HIDE DEF g
    <3> QED
      BY <3>1, <3>4, Zenon
  <2>5. \A i \in 0 .. n : NextQueue(g, i, q, sent) = NextQueue(f, i, q, sent)
    <3> HIDE DEF g
    <3> SUFFICES ASSUME NEW i \in 0 .. n, i # 0
                 PROVE  NextQueue(g, i, q, sent) = NextQueue(f, i, q, sent)
      BY DEF NextQueue
    <3>1. i - 1 \in 0 .. n - 1
      BY <2>1
    <3> QED
      BY <2>4, <3>1 DEF NextQueue
  <2>6. [i \in 0 .. n |-> NextQueue(g, i, q, sent)] = [i \in 0 .. n |-> NextQueue(f, i, q, sent)]
    <3> HIDE DEF g
    <3> QED
      BY <2>5
  <2>7. Glues(g, n, q, sent)
    BY <2>6, Zenon DEF Glues
  <2> HIDE DEF g
  <2> QED
    BY <2>1, <2>7
<1> QED
  BY <1>1

Carries(r, n, q, sent) ==
    /\ Mail(r)
    /\ \A m : Says(sent, n, m) => Says(r, Len(r), m)
    /\ Silent(sent, n) =>
         /\ Silent(q, Len(q)) => Silent(r, Len(r))
         /\ \A m : Says(q, Len(q), m) => Says(r, Len(r), m)
    /\ Coming(q, {"save"}) \/ (\E i \in 1 .. n : sent[i].type = "save") => Coming(r, {"save"})

LEMMA CarriesOne ==
    ASSUME NEW q, NEW sent, Mail(sent), NEW n \in 1 .. Len(sent), NEW r,
           Carries(r, n - 1, q, sent)
    PROVE  Carries(Joined(r, sent[n]), n, q, sent)
<1> DEFINE m == sent[n]
           o == Joined(r, m)
<1>1. Mail(r) /\ Message(m) /\ Len(sent) \in Nat
  BY OneMore DEF Carries, Mail
<1>2. /\ Mail(o)
      /\ m.type = "draft_state" => Says(o, Len(o), m)
      /\ m.type # "draft_state" =>
           /\ Silent(r, Len(r)) => Silent(o, Len(o))
           /\ \A d : Says(r, Len(r), d) => Says(o, Len(o), d)
      /\ Coming(r, {"save"}) \/ m.type = "save" => Coming(o, {"save"})
  BY <1>1, JoinsOne
<1> HIDE DEF o
<1>3. ASSUME NEW d, Says(sent, n, d) PROVE Says(o, Len(o), d)
  <2>1. PICK i \in 1 .. n : sent[i] = d /\ d.type = "draft_state"
                            /\ \A j \in i + 1 .. n : sent[j].type # "draft_state"
    BY <1>3 DEF Says
  <2>2. CASE i = n
    BY <1>2, <2>1, <2>2
  <2>3. CASE i # n
    <3>1. i \in 1 .. n - 1 /\ n \in i + 1 .. n /\ \A j \in i + 1 .. n - 1 : j \in i + 1 .. n
      BY <1>1, <2>3
    <3>2. Says(sent, n - 1, d)
      BY <2>1, <3>1 DEF Says
    <3>3. m.type # "draft_state"
      BY <2>1, <3>1
    <3> QED
      BY <1>2, <3>2, <3>3 DEF Carries
  <2> QED
    BY <2>2, <2>3
<1>4. ASSUME Silent(sent, n)
      PROVE  /\ Silent(q, Len(q)) => Silent(o, Len(o))
             /\ \A d : Says(q, Len(q), d) => Says(o, Len(o), d)
  <2>1. n \in 1 .. n /\ \A j \in 1 .. n - 1 : j \in 1 .. n
    BY <1>1
  <2>2. Silent(sent, n - 1) /\ m.type # "draft_state"
    BY <1>4, <2>1 DEF Silent
  <2> QED
    BY <1>2, <2>2 DEF Carries
<1>5. ASSUME NEW i \in 1 .. n, sent[i].type = "save" PROVE Coming(o, {"save"})
  <2>1. CASE i = n
    BY <1>2, <1>5, <2>1
  <2>2. CASE i # n
    <3>1. i \in 1 .. n - 1
      BY <1>1, <2>2
    <3> QED
      BY <1>2, <1>5, <3>1 DEF Carries
  <2> QED
    BY <2>1, <2>2
<1>6. Coming(q, {"save"}) => Coming(o, {"save"})
  BY <1>2 DEF Carries
<1>7. Carries(o, n, q, sent)
  BY <1>2, <1>3, <1>4, <1>5, <1>6 DEF Carries
<1> QED
  BY <1>7 DEF o

LEMMA GluedCarries ==
    ASSUME NEW q, NEW sent, Mail(q), Mail(sent)
    PROVE  Carries(Glued(q, sent), Len(sent), q, sent)
<1> DEFINE N == Len(sent)
           f == CHOOSE f : f = [n \in 0 .. N |-> IF n = 0 THEN q ELSE Joined(f[n - 1], sent[n])]
<1>1. N \in Nat
  BY OneMore DEF Mail
<1>2. Glued(q, sent) = f[N]
  BY Zenon DEF Glued
<1>3. Glues(f, N, q, sent)
  <2>1. \E h : Glues(h, N, q, sent)
    BY <1>1, GluedExists
  <2> QED
    BY <2>1, Zenon DEF Glues, NextQueue
<1> HIDE DEF f
<1> DEFINE T == {n \in 0 .. N : ~Carries(f[n], n, q, sent)}
<1>4. ASSUME T # {} PROVE FALSE
  <2>0. T \subseteq Nat
    BY <1>1
  <2>1. PICK n \in T : \A k \in T : ~(k < n)
    <3> HIDE DEF T
    <3> QED
      BY <1>4, <2>0, LeastOf
  <2>2. n \in 0 .. N /\ ~Carries(f[n], n, q, sent)
    OBVIOUS
  <2>3. f[n] = NextQueue(f, n, q, sent)
    BY <1>3, <2>2, Zenon DEF Glues
  <2>4. n # 0
    <3>1. \A k \in 1 .. 0 : FALSE
      OBVIOUS
    <3>2. Carries(q, 0, q, sent)
      BY <3>1 DEF Carries, Says, Silent
    <3> QED
      BY <2>2, <2>3, <3>2 DEF NextQueue
  <2>5. n - 1 \in 0 .. N /\ n - 1 < n /\ n \in 1 .. N
    BY <1>1, <2>2, <2>4
  <2>6. Carries(f[n - 1], n - 1, q, sent)
    BY <2>1, <2>5
  <2>7. Carries(Joined(f[n - 1], sent[n]), n, q, sent)
    BY <2>5, <2>6, CarriesOne
  <2> QED
    BY <2>2, <2>3, <2>4, <2>7 DEF NextQueue
<1> QED
  BY <1>1, <1>2, <1>4

\* What the process knows once the events of a handler are on their way.
LEMMA GluedTells ==
    ASSUME NEW q, NEW sent, Mail(q), Mail(sent), NEW mirror, NEW before, NEW dirty,
           Knows(q, mirror, before), Knows(sent, before, dirty)
    PROVE  Knows(Glued(q, sent), mirror, dirty)
<1> DEFINE r == Glued(q, sent)
<1>1. Carries(r, Len(sent), q, sent)
  BY GluedCarries
<1> HIDE DEF r
<1>2. IsSeq(q) /\ IsSeq(sent) /\ IsSeq(r)
  BY <1>1 DEF Mail, Carries
<1>3. CASE Silent(sent, Len(sent)) /\ dirty \subseteq before
  <2>1. CASE Silent(q, Len(q)) /\ before \subseteq mirror
    <3>1. Silent(r, Len(r)) /\ dirty \subseteq mirror
      BY <1>1, <1>3, <2>1 DEF Carries
    <3> QED
      BY <1>2, <3>1, KnownSaid DEF r
  <2>2. ASSUME NEW m, Says(q, Len(q), m), before \subseteq m.dirty
        PROVE  Knows(r, mirror, dirty)
    <3>1. Says(r, Len(r), m) /\ dirty \subseteq m.dirty
      BY <1>1, <1>3, <2>2 DEF Carries
    <3> QED
      BY <1>2, <3>1, KnownSaid
  <2> QED
    BY <1>2, <2>1, <2>2, KnownSaid DEF r
<1>4. ASSUME NEW m, Says(sent, Len(sent), m), dirty \subseteq m.dirty
      PROVE  Knows(r, mirror, dirty)
  <2>1. Says(r, Len(r), m)
    BY <1>1, <1>4 DEF Carries
  <2> QED
    BY <1>2, <1>4, <2>1, KnownSaid
<1> QED
  BY <1>2, <1>3, <1>4, KnownSaid DEF r


-----------------------------------------------------------------------------
(* The history.                                                            *)

LEMMA Turned ==
    ASSUME NEW s, IsSeq(s)
    PROVE  /\ IsSeq(Backwards(s)) /\ Len(Backwards(s)) = Len(s) /\ Len(s) \in Nat
           /\ \A i \in 1 .. Len(s) : Backwards(s)[i] = s[Len(s) + 1 - i]
<1>1. PICK S : s \in Seq(S)
  BY DEF IsSeq
<1>2. Len(s) \in Nat /\ \A i \in 1 .. Len(s) : s[Len(s) + 1 - i] \in S
  BY <1>1
<1>3. Backwards(s) \in Seq(S) /\ Len(Backwards(s)) = Len(s)
  BY <1>2 DEF Backwards
<1> QED
  BY <1>2, <1>3 DEF IsSeq, Backwards

Entries(q) == IsSeq(q) /\ \A i \in 1 .. Len(q) : q[i].position \in Positions

LEMMA HistoryRuns ==
    ASSUME NEW h, Entries(h.undo), Entries(h.redo)
    PROVE  /\ IsSeq(History(h)) /\ Len(h.undo) \in Nat /\ Len(h.redo) \in Nat
           /\ Len(History(h)) = Len(h.undo) + Len(h.redo)
           /\ \A i \in 1 .. Len(h.undo) : History(h)[i] = h.undo[i]
           /\ \A i \in 1 .. Len(History(h)) : i > Len(h.undo) =>
                 History(h)[i] = h.redo[Len(h.undo) + Len(h.redo) + 1 - i]
           /\ \A i \in 1 .. Len(History(h)) : History(h)[i].position \in Positions
<1> DEFINE u == h.undo
           r == h.redo
           b == Backwards(r)
<1>1. /\ IsSeq(u) /\ IsSeq(b) /\ Len(b) = Len(r) /\ Len(r) \in Nat
      /\ \A i \in 1 .. Len(r) : b[i] = r[Len(r) + 1 - i]
  BY Turned DEF Entries
<1>5. History(h) = u \o b
  BY DEF History
<1>6. /\ \A i \in 1 .. Len(u) : u[i].position \in Positions
      /\ \A i \in 1 .. Len(r) : r[i].position \in Positions
  BY DEF Entries
<1> HIDE DEF u, r, b
<1>2. /\ IsSeq(u \o b) /\ Len(u) \in Nat /\ Len(u \o b) = Len(u) + Len(b)
      /\ \A i \in 1 .. Len(u) : (u \o b)[i] = u[i]
      /\ \A i \in 1 .. Len(u) + Len(b) : i > Len(u) => (u \o b)[i] = b[i - Len(u)]
  BY <1>1, Concatenated
<1>3. ASSUME NEW i \in 1 .. Len(u) + Len(r), i > Len(u)
      PROVE  (u \o b)[i] = r[Len(u) + Len(r) + 1 - i] /\ Len(u) + Len(r) + 1 - i \in 1 .. Len(r)
  <2>1. i - Len(u) \in 1 .. Len(r)
    BY <1>1, <1>2, <1>3
  <2>2. Len(r) + 1 - (i - Len(u)) = Len(u) + Len(r) + 1 - i
        /\ Len(u) + Len(r) + 1 - i \in 1 .. Len(r)
    BY <1>1, <1>2, <1>3
  <2> QED
    BY <1>1, <1>2, <1>3, <2>1, <2>2
<1>4. ASSUME NEW i \in 1 .. Len(u) + Len(r) PROVE (u \o b)[i].position \in Positions
  <2>1. CASE i > Len(u)
    BY <1>3, <1>6, <2>1
  <2>2. CASE i \in 1 .. Len(u)
    BY <1>2, <1>6, <2>2
  <2> QED
    BY <1>1, <1>2, <2>1, <2>2
<1> QED
  BY <1>1, <1>2, <1>3, <1>4, <1>5 DEF u, r

\* The points after n entries depend on these entries and the saved points.
LEMMA LeadsAlike ==
    ASSUME NEW h, NEW o, NEW n \in Nat, NEW p, NEW pts, SavedInterior(o, p) = SavedInterior(h, p),
           \A i \in 1 .. n : History(o)[i] = History(h)[i]
    PROVE  LeadsTo(o, n, p, pts) <=> LeadsTo(h, n, p, pts)
<1>1. {i \in 1 .. n : History(o)[i].position = p} = {i \in 1 .. n : History(h)[i].position = p}
  OBVIOUS
<1> QED
  BY <1>1 DEF LeadsTo

\* The last of n entries leads to its points after, or elsewhere.
LEMMA LeadsOneMore ==
    ASSUME NEW h, NEW n \in Nat, n # 0, NEW p, NEW pts
    PROVE  /\ History(h)[n].position = p =>
                (LeadsTo(h, n, p, pts) <=> pts = History(h)[n].after)
           /\ History(h)[n].position # p =>
                (LeadsTo(h, n, p, pts) <=> LeadsTo(h, n - 1, p, pts))
<1> DEFINE own == {i \in 1 .. n : History(h)[i].position = p}
           less == {i \in 1 .. n - 1 : History(h)[i].position = p}
<1>1. CASE History(h)[n].position = p
  <2>1. n \in own /\ \A j \in own : j <= n
    BY <1>1
  <2>2. \A i \in own : (\A j \in own : j <= i) => i = n
    BY <2>1
  <2> HIDE DEF own
  <2>3. LeadsTo(h, n, p, pts) <=> pts = History(h)[n].after
    BY <2>1, <2>2 DEF LeadsTo, own
  <2> QED
    BY <1>1, <2>3
<1>2. CASE History(h)[n].position # p
  <2>1. own = less
    BY <1>2
  <2> QED
    BY <1>2, <2>1 DEF LeadsTo
<1> QED
  BY <1>1, <1>2

\* The same history, read at the same place.
LEMMA WalksAlike ==
    ASSUME NEW h, NEW o, Entries(h.undo), Entries(h.redo), WalksBack(h),
           o.undo = h.undo, o.redo = h.redo,
           \A p \in Positions : SavedInterior(o, p) = SavedInterior(h, p)
                                /\ Effective(o, p) = Effective(h, p)
    PROVE  WalksBack(o)
<1>1. History(o) = History(h)
  BY DEF History
<1>2. \A i \in 1 .. Len(History(h)) : i - 1 \in Nat /\ History(h)[i].position \in Positions
  <2>1. Len(History(h)) \in Nat
    BY HistoryRuns
  <2>2. \A i \in 1 .. Len(History(h)) : i - 1 \in Nat
    BY <2>1
  <2>3. \A i \in 1 .. Len(History(h)) : History(h)[i].position \in Positions
    BY HistoryRuns
  <2> QED
    BY <2>2, <2>3
<1>3. ASSUME NEW i \in 1 .. Len(History(h))
      PROVE  LeadsTo(o, i - 1, History(h)[i].position, History(h)[i].before)
  <2>1. LeadsTo(h, i - 1, History(h)[i].position, History(h)[i].before)
    BY DEF WalksBack
  <2> QED
    BY <1>1, <1>2, <2>1, LeadsAlike
<1>4. ASSUME NEW p \in Positions PROVE LeadsTo(o, Len(o.undo), p, Effective(o, p))
  <2>1. LeadsTo(h, Len(h.undo), p, Effective(h, p)) /\ Len(h.undo) \in Nat
    BY HistoryRuns DEF WalksBack
  <2> QED
    BY <1>1, <2>1, LeadsAlike
<1> QED
  BY <1>1, <1>3, <1>4 DEF WalksBack

\* No history yet, and no drafts.
LEMMA WalksAtFirst ==
    ASSUME NEW h, h.undo = <<>>, h.redo = <<>>,
           \A p \in Positions : Effective(h, p) = SavedInterior(h, p)
    PROVE  WalksBack(h) /\ Entries(h.undo) /\ Entries(h.redo)
<1>1. Entries(<<>>)
  BY NoneYet DEF Entries
<1>2. Len(History(h)) = 0
  <2>1. Len(History(h)) = Len(h.undo) + Len(h.redo)
    BY <1>1, HistoryRuns
  <2> QED
    BY <2>1, NoneYet
<1>3. ASSUME NEW p \in Positions PROVE LeadsTo(h, 0, p, Effective(h, p))
  <2>1. {i \in 1 .. 0 : History(h)[i].position = p} = {}
    OBVIOUS
  <2> QED
    BY <2>1 DEF LeadsTo
<1> QED
  BY <1>1, <1>2, <1>3, NoneYet DEF WalksBack

\* An edit of p is noted, and what was undone goes.
LEMMA WalksOn ==
    ASSUME NEW h, NEW o, Entries(h.undo), Entries(h.redo), WalksBack(h), NEW p \in Positions,
           NEW e, e.position = p, e.before = Effective(h, p), e.after = Effective(o, p),
           o.undo = Append(h.undo, e), o.redo = <<>>,
           \A q \in Positions : /\ SavedInterior(o, q) = SavedInterior(h, q)
                                /\ q # p => Effective(o, q) = Effective(h, q)
    PROVE  WalksBack(o) /\ Entries(o.undo) /\ Entries(o.redo)
<1> DEFINE n == Len(h.undo)
           H == History(h)
           G == History(o)
<1>1. /\ IsSeq(o.undo) /\ Len(o.undo) = n + 1 /\ n \in Nat
      /\ \A i \in 1 .. n : o.undo[i] = h.undo[i]
      /\ o.undo[n + 1] = e
  BY OneMore DEF Entries
<1>2. Entries(o.undo)
  BY <1>1 DEF Entries
<1>3. Entries(o.redo) /\ Len(o.redo) = 0
  BY NoneYet DEF Entries
<1>4. /\ Len(G) = n + 1
      /\ \A i \in 1 .. n + 1 : G[i] = o.undo[i]
  <2>1. /\ Len(G) = Len(o.undo) + Len(o.redo)
        /\ \A i \in 1 .. Len(o.undo) : G[i] = o.undo[i]
    BY <1>2, <1>3, HistoryRuns
  <2> HIDE DEF G, n
  <2> QED
    BY <1>1, <1>3, <2>1
<1>10. /\ Len(H) = n + Len(h.redo) /\ Len(h.redo) \in Nat
       /\ \A i \in 1 .. n : H[i] = h.undo[i]
       /\ \A i \in 1 .. n : h.undo[i].position \in Positions
  BY HistoryRuns DEF Entries
<1> HIDE DEF n, H, G
<1>5. /\ \A i \in 1 .. n : G[i] = H[i] /\ i \in 1 .. Len(H)
      /\ \A i \in 1 .. n : H[i].position \in Positions
  BY <1>1, <1>4, <1>10
<1>6. G[n + 1] = e
  BY <1>1, <1>4
<1>7. ASSUME NEW k \in 0 .. n, NEW q \in Positions, NEW pts, LeadsTo(h, k, q, pts)
      PROVE  LeadsTo(o, k, q, pts)
  <2>1. k \in Nat /\ \A i \in 1 .. k : History(o)[i] = History(h)[i]
    BY <1>1, <1>5 DEF G, H
  <2> QED
    BY <1>7, <2>1, LeadsAlike
<1>8. ASSUME NEW i \in 1 .. n + 1 PROVE LeadsTo(o, i - 1, G[i].position, G[i].before)
  <2>1. CASE i = n + 1
    <3>1. LeadsTo(h, n, p, Effective(h, p))
      BY DEF WalksBack, n
    <3> QED
      BY <1>1, <1>6, <1>7, <2>1, <3>1
  <2>2. CASE i \in 1 .. n
    <3>1. LeadsTo(h, i - 1, H[i].position, H[i].before)
      BY <1>5, <2>2 DEF WalksBack, H
    <3>2. i - 1 \in 0 .. n
      BY <1>1, <2>2
    <3> QED
      BY <1>5, <1>7, <2>2, <3>1, <3>2
  <2> QED
    BY <1>1, <2>1, <2>2
<1>9. ASSUME NEW q \in Positions PROVE LeadsTo(o, n + 1, q, Effective(o, q))
  <2>1. n + 1 \in Nat /\ n + 1 # 0 /\ (n + 1) - 1 = n
    BY <1>1
  <2>2. CASE q = p
    BY <1>6, <2>1, <2>2, LeadsOneMore DEF G
  <2>3. CASE q # p
    <3>1. LeadsTo(h, n, q, Effective(h, q))
      BY DEF WalksBack, n
    <3>2. LeadsTo(o, n, q, Effective(o, q))
      BY <1>1, <1>7, <2>3, <3>1
    <3> QED
      BY <1>6, <2>1, <2>3, <3>2, LeadsOneMore DEF G
  <2> QED
    BY <2>2, <2>3
<1> QED
  BY <1>1, <1>2, <1>3, <1>4, <1>8, <1>9 DEF WalksBack, G


\* The last entry goes back to what may be done again.
LEMMA WalksBackOne ==
    ASSUME NEW h, NEW o, Entries(h.undo), Entries(h.redo), WalksBack(h), h.undo # <<>>,
           NEW e, e = h.undo[Len(h.undo)],
           o.undo = SubSeq(h.undo, 1, Len(h.undo) - 1), o.redo = Append(h.redo, e),
           Effective(o, e.position) = e.before,
           \A q \in Positions : /\ SavedInterior(o, q) = SavedInterior(h, q)
                                /\ q # e.position => Effective(o, q) = Effective(h, q)
    PROVE  WalksBack(o) /\ Entries(o.undo) /\ Entries(o.redo)
<1> DEFINE n == Len(h.undo)
           m == Len(h.redo)
           H == History(h)
           G == History(o)
<1>1. /\ n \in Nat /\ n >= 1
      /\ IsSeq(o.undo) /\ Len(o.undo) = n - 1 /\ \A i \in 1 .. n - 1 : o.undo[i] = h.undo[i]
  BY LastGone DEF Entries
<1>2. /\ IsSeq(o.redo) /\ Len(o.redo) = m + 1 /\ m \in Nat
      /\ \A i \in 1 .. m : o.redo[i] = h.redo[i]
      /\ o.redo[m + 1] = e
  BY OneMore DEF Entries
<1>3. /\ \A i \in 1 .. n : h.undo[i].position \in Positions
      /\ \A i \in 1 .. m : h.redo[i].position \in Positions
  BY DEF Entries
<1>4. /\ Len(H) = n + m
      /\ \A i \in 1 .. n : H[i] = h.undo[i]
      /\ \A i \in 1 .. Len(H) : i > n => H[i] = h.redo[n + m + 1 - i]
  BY HistoryRuns
<1> HIDE DEF n, m, H, G
<1>5. e \in {h.undo[i] : i \in 1 .. n} /\ e.position \in Positions /\ H[n] = e
  BY <1>1, <1>3, <1>4 DEF n
<1>6. Entries(o.undo)
  BY <1>1, <1>3 DEF Entries
<1>7. Entries(o.redo)
  <2> SUFFICES ASSUME NEW i \in 1 .. m + 1 PROVE o.redo[i].position \in Positions
    BY <1>2 DEF Entries
  <2>1. CASE i = m + 1
    BY <1>2, <1>5, <2>1
  <2>2. CASE i \in 1 .. m
    BY <1>2, <1>3, <2>2
  <2> QED
    BY <1>2, <2>1, <2>2
<1>8. /\ Len(G) = n + m
      /\ \A i \in 1 .. n - 1 : G[i] = o.undo[i]
      /\ \A i \in 1 .. Len(G) : i > n - 1 => G[i] = o.redo[n + m + 1 - i]
  <2>1. /\ Len(G) = Len(o.undo) + Len(o.redo)
        /\ \A i \in 1 .. Len(o.undo) : G[i] = o.undo[i]
        /\ \A i \in 1 .. Len(G) : i > Len(o.undo) =>
             G[i] = o.redo[Len(o.undo) + Len(o.redo) + 1 - i]
    BY <1>6, <1>7, HistoryRuns DEF G
  <2>2. Len(o.undo) + Len(o.redo) = n + m
    <3>1. n \in Nat /\ m \in Nat /\ Len(o.undo) = n - 1 /\ Len(o.redo) = m + 1
      BY <1>1, <1>2
    <3>2. (n - 1) + (m + 1) = n + m
      BY <3>1
    <3> QED
      BY <3>1, <3>2, Zenon
  <2>3. Len(o.undo) = n - 1
    BY <1>1
  <2> QED
    BY <2>1, <2>2, <2>3, Zenon
<1>9. ASSUME NEW i \in 1 .. n + m PROVE G[i] = H[i]
  <2>1. CASE i \in 1 .. n - 1
    BY <1>1, <1>4, <1>8, <2>1
  <2>2. CASE i = n
    <3>1. n + m + 1 - i = m + 1 /\ i > n - 1
      BY <1>1, <1>2, <2>2
    <3> QED
      BY <1>2, <1>5, <1>8, <2>2, <3>1
  <2>3. CASE i > n
    <3>1. n + m + 1 - i \in 1 .. m /\ i > n - 1
      BY <1>1, <1>2, <2>3
    <3> QED
      BY <1>2, <1>4, <1>8, <2>3, <3>1
  <2> QED
    BY <1>1, <1>2, <2>1, <2>2, <2>3
<1>10. ASSUME NEW k \in 0 .. n + m, NEW q \in Positions, NEW pts, LeadsTo(h, k, q, pts)
       PROVE  LeadsTo(o, k, q, pts)
  <2>1. k \in Nat /\ \A i \in 1 .. k : History(o)[i] = History(h)[i]
    BY <1>1, <1>2, <1>9 DEF G, H
  <2> QED
    BY <1>10, <2>1, LeadsAlike
<1>11. ASSUME NEW i \in 1 .. n + m
       PROVE  H[i].position \in Positions /\ LeadsTo(h, i - 1, H[i].position, H[i].before)
  <2>1. H[i].position \in Positions
    BY <1>4, HistoryRuns DEF H
  <2> QED
    BY <1>4, <2>1 DEF WalksBack, H
<1>12. ASSUME NEW i \in 1 .. n + m PROVE LeadsTo(o, i - 1, G[i].position, G[i].before)
  <2>1. i - 1 \in 0 .. n + m
    BY <1>1, <1>2
  <2> QED
    BY <1>9, <1>10, <1>11, <2>1
<1>13. ASSUME NEW q \in Positions PROVE LeadsTo(o, n - 1, q, Effective(o, q))
  <2>1. n \in Nat /\ n # 0 /\ n - 1 \in 0 .. n + m /\ n \in 1 .. n + m
    BY <1>1, <1>2
  <2>2. CASE q = e.position
    BY <1>5, <1>10, <1>11, <2>1, <2>2
  <2>3. CASE q # e.position
    <3>1. LeadsTo(h, n, q, Effective(h, q))
      BY DEF WalksBack, n
    <3>2. LeadsTo(h, n - 1, q, Effective(h, q))
      BY <1>5, <2>1, <2>3, <3>1, LeadsOneMore DEF H
    <3> QED
      BY <1>10, <2>1, <2>3, <3>2
  <2> QED
    BY <2>2, <2>3
<1> QED
  BY <1>1, <1>6, <1>7, <1>8, <1>12, <1>13 DEF WalksBack, G

\* And forward again.
LEMMA WalksForward ==
    ASSUME NEW h, NEW o, Entries(h.undo), Entries(h.redo), WalksBack(h), h.redo # <<>>,
           NEW e, e = h.redo[Len(h.redo)],
           o.redo = SubSeq(h.redo, 1, Len(h.redo) - 1), o.undo = Append(h.undo, e),
           Effective(o, e.position) = e.after,
           \A q \in Positions : /\ SavedInterior(o, q) = SavedInterior(h, q)
                                /\ q # e.position => Effective(o, q) = Effective(h, q)
    PROVE  WalksBack(o) /\ Entries(o.undo) /\ Entries(o.redo)
<1> DEFINE n == Len(h.undo)
           m == Len(h.redo)
           H == History(h)
           G == History(o)
<1>1. /\ m \in Nat /\ m >= 1
      /\ IsSeq(o.redo) /\ Len(o.redo) = m - 1 /\ \A i \in 1 .. m - 1 : o.redo[i] = h.redo[i]
  BY LastGone DEF Entries
<1>2. /\ IsSeq(o.undo) /\ Len(o.undo) = n + 1 /\ n \in Nat
      /\ \A i \in 1 .. n : o.undo[i] = h.undo[i]
      /\ o.undo[n + 1] = e
  BY OneMore DEF Entries
<1>3. /\ \A i \in 1 .. n : h.undo[i].position \in Positions
      /\ \A i \in 1 .. m : h.redo[i].position \in Positions
  BY DEF Entries
<1>4. /\ Len(H) = n + m
      /\ \A i \in 1 .. n : H[i] = h.undo[i]
      /\ \A i \in 1 .. Len(H) : i > n => H[i] = h.redo[n + m + 1 - i]
  BY HistoryRuns
<1> HIDE DEF n, m, H, G
<1>5. e.position \in Positions /\ H[n + 1] = e
  <2>0. n \in Nat /\ m \in Nat /\ m >= 1
    BY <1>1, <1>2
  <2>1. n + m + 1 - (n + 1) = m /\ n + 1 > n /\ n + 1 \in 1 .. n + m /\ m \in 1 .. m
    BY <2>0
  <2>2. h.redo[m] = e
    BY DEF m
  <2> QED
    BY <1>3, <1>4, <2>1, <2>2
<1>6. Entries(o.redo)
  BY <1>1, <1>3 DEF Entries
<1>7. Entries(o.undo)
  <2> SUFFICES ASSUME NEW i \in 1 .. n + 1 PROVE o.undo[i].position \in Positions
    BY <1>2 DEF Entries
  <2>1. CASE i = n + 1
    BY <1>2, <1>5, <2>1
  <2>2. CASE i \in 1 .. n
    BY <1>2, <1>3, <2>2
  <2> QED
    BY <1>2, <2>1, <2>2
<1>8. /\ Len(G) = n + m
      /\ \A i \in 1 .. n + 1 : G[i] = o.undo[i]
      /\ \A i \in 1 .. Len(G) : i > n + 1 => G[i] = o.redo[n + m + 1 - i]
  <2>1. /\ Len(G) = Len(o.undo) + Len(o.redo)
        /\ \A i \in 1 .. Len(o.undo) : G[i] = o.undo[i]
        /\ \A i \in 1 .. Len(G) : i > Len(o.undo) =>
             G[i] = o.redo[Len(o.undo) + Len(o.redo) + 1 - i]
    BY <1>6, <1>7, HistoryRuns DEF G
  <2>2. Len(o.undo) + Len(o.redo) = n + m
    <3>1. n \in Nat /\ m \in Nat /\ Len(o.undo) = n + 1 /\ Len(o.redo) = m - 1
      BY <1>1, <1>2
    <3>2. (n + 1) + (m - 1) = n + m
      BY <3>1
    <3> QED
      BY <3>1, <3>2, Zenon
  <2>3. Len(o.undo) = n + 1
    BY <1>2
  <2> QED
    BY <2>1, <2>2, <2>3, Zenon
<1>9. ASSUME NEW i \in 1 .. n + m PROVE G[i] = H[i]
  <2>1. CASE i \in 1 .. n
    BY <1>2, <1>4, <1>8, <2>1
  <2>2. CASE i = n + 1
    <3>1. n + 1 \in 1 .. n + 1
      BY <1>2
    <3> QED
      BY <1>2, <1>5, <1>8, <2>2, <3>1
  <2>3. CASE i > n + 1
    <3>1. n + m + 1 - i \in 1 .. m - 1 /\ i > n
      BY <1>1, <1>2, <2>3
    <3> QED
      BY <1>1, <1>4, <1>8, <2>3, <3>1
  <2> QED
    BY <1>1, <1>2, <2>1, <2>2, <2>3
<1>10. ASSUME NEW k \in 0 .. n + m, NEW q \in Positions, NEW pts, LeadsTo(h, k, q, pts)
       PROVE  LeadsTo(o, k, q, pts)
  <2>1. k \in Nat /\ \A i \in 1 .. k : History(o)[i] = History(h)[i]
    BY <1>1, <1>2, <1>9 DEF G, H
  <2> QED
    BY <1>10, <2>1, LeadsAlike
<1>11. ASSUME NEW i \in 1 .. n + m
       PROVE  H[i].position \in Positions /\ LeadsTo(h, i - 1, H[i].position, H[i].before)
  <2>1. H[i].position \in Positions
    BY <1>4, HistoryRuns DEF H
  <2> QED
    BY <1>4, <2>1 DEF WalksBack, H
<1>12. ASSUME NEW i \in 1 .. n + m PROVE LeadsTo(o, i - 1, G[i].position, G[i].before)
  <2>1. i - 1 \in 0 .. n + m
    BY <1>1, <1>2
  <2> QED
    BY <1>9, <1>10, <1>11, <2>1
<1>13. ASSUME NEW q \in Positions PROVE LeadsTo(o, n + 1, q, Effective(o, q))
  <2>1. /\ n + 1 \in Nat /\ n + 1 # 0 /\ (n + 1) - 1 = n
        /\ n \in 0 .. n + m /\ n + 1 \in 1 .. n + m
    BY <1>1, <1>2
  <2>2. G[n + 1] = e
    BY <1>5, <1>9, <2>1
  <2>3. CASE q = e.position
    BY <2>1, <2>2, <2>3, LeadsOneMore DEF G
  <2>4. CASE q # e.position
    <3>1. LeadsTo(h, n, q, Effective(h, q))
      BY DEF WalksBack, n
    <3>2. LeadsTo(o, n, q, Effective(o, q))
      BY <1>10, <2>1, <2>4, <3>1
    <3> QED
      BY <2>1, <2>2, <2>4, <3>2, LeadsOneMore DEF G
  <2> QED
    BY <2>3, <2>4
<1> QED
  BY <1>2, <1>6, <1>7, <1>8, <1>12, <1>13 DEF WalksBack, G


-----------------------------------------------------------------------------
(* The hook.                                                               *)

HookFields == {"alive", "loaded", "model", "drafts", "undo", "redo", "selected", "mode", "picked",
               "dragWorking", "grip", "box", "pointsOpen", "followPending", "fileLine",
               "savePending", "errorReported", "sent"}

\* A handler that takes h to o writes no field outside of set.
Writes(h, o, set) == HookFields \subseteq DOMAIN o /\ \A f \in HookFields \ set : o[f] = h[f]

\* What is neither a draft nor a matter of the channel.
Chrome == {"selected", "mode", "picked", "dragWorking", "grip", "box", "pointsOpen",
           "followPending", "fileLine", "errorReported"}

Draft(d) == {"op", "points", "revision", "dirty"} \subseteq DOMAIN d
Drafting(h) == DOMAIN h.drafts = Positions /\ \A p \in Positions : Draft(h.drafts[p])

Sound(h) ==
    /\ HookFields \subseteq DOMAIN h
    /\ Drafting(h) /\ h.selected \in Positions
    /\ Entries(h.undo) /\ Entries(h.redo) /\ WalksBack(h)
    /\ Mail(h.sent)

Told(h, known) == Knows(h.sent, known, DirtyPositions(h))

Held(h, o) == o.alive = h.alive /\ o.loaded = h.loaded /\ o.savePending = h.savePending

\* What a handler comes to: between two reports, with no more to tell than before, and with
\* everything told.
Drafts(h, o) == Sound(o) /\ Held(h, o)
Goes(h, o) == Drafts(h, o) /\ \A known : Told(h, known) => Told(o, known)
Speaks(h, o) == Drafts(h, o) /\ \A known : Told(o, known)

LEMMA SameDrafts ==
    ASSUME NEW h, NEW o, Sound(h), HookFields \subseteq DOMAIN o,
           o.drafts = h.drafts, o.model = h.model, o.undo = h.undo, o.redo = h.redo,
           o.selected \in Positions, Mail(o.sent)
    PROVE  /\ Sound(o) /\ DirtyPositions(o) = DirtyPositions(h)
           /\ \A p : Effective(o, p) = Effective(h, p) /\ SavedInterior(o, p) = SavedInterior(h, p)
<1>1. \A p : Effective(o, p) = Effective(h, p) /\ SavedInterior(o, p) = SavedInterior(h, p)
  BY DEF Effective, SavedInterior
<1>2. WalksBack(o)
  BY <1>1, WalksAlike DEF Sound
<1>3. DirtyPositions(o) = DirtyPositions(h)
  BY DEF DirtyPositions
<1> QED
  BY <1>1, <1>2, <1>3 DEF Sound, Drafting

LEMMA ChromeGoes ==
    ASSUME NEW h, NEW o, Sound(h), Writes(h, o, Chrome), o.selected \in Positions
    PROVE  Goes(h, o)
<1>1. /\ o.drafts = h.drafts /\ o.model = h.model /\ o.undo = h.undo /\ o.redo = h.redo
      /\ o.sent = h.sent /\ Held(h, o) /\ HookFields \subseteq DOMAIN o
  BY DEF Writes, HookFields, Chrome, Held
<1>2. Sound(o) /\ DirtyPositions(o) = DirtyPositions(h)
  BY <1>1, SameDrafts DEF Sound
<1> QED
  BY <1>1, <1>2 DEF Goes, Drafts, Told

LEMMA SentOne ==
    ASSUME NEW h, Sound(h), NEW m, Message(m)
    PROVE  /\ Drafts(h, Send(h, m)) /\ Writes(h, Send(h, m), {"sent"})
           /\ DirtyPositions(Send(h, m)) = DirtyPositions(h)
           /\ Send(h, m).sent = Joined(h.sent, m)
<1> DEFINE o == Send(h, m)
<1>1. o = [h EXCEPT !.sent = Joined(h.sent, m)]
  BY DEF Send
<1>2. Writes(h, o, {"sent"}) /\ o.sent = Joined(h.sent, m)
  BY <1>1 DEF Writes, HookFields, Sound
<1> HIDE DEF o
<1>3. Mail(Joined(h.sent, m))
  BY JoinsOne DEF Sound
<1>4. /\ o.drafts = h.drafts /\ o.model = h.model /\ o.undo = h.undo /\ o.redo = h.redo
      /\ o.selected = h.selected /\ Held(h, o) /\ HookFields \subseteq DOMAIN o
  BY <1>2 DEF Writes, HookFields, Held
<1>5. Sound(o) /\ DirtyPositions(o) = DirtyPositions(h)
  BY <1>2, <1>3, <1>4, SameDrafts DEF Sound
<1> QED
  BY <1>2, <1>4, <1>5 DEF Drafts, o

LEMMA SendGoes ==
    ASSUME NEW h, Sound(h), NEW m, Message(m), m.type # "draft_state"
    PROVE  /\ Goes(h, Send(h, m)) /\ Writes(h, Send(h, m), {"sent"})
           /\ m.type = "save" => Coming(Send(h, m).sent, {"save"})
<1> DEFINE o == Send(h, m)
<1>1. /\ Drafts(h, o) /\ Writes(h, o, {"sent"})
      /\ DirtyPositions(o) = DirtyPositions(h) /\ o.sent = Joined(h.sent, m)
  BY SentOne
<1> HIDE DEF o
<1>2. IsSeq(h.sent) /\ IsSeq(o.sent)
  BY <1>1 DEF Drafts, Sound, Mail
<1>3. /\ Silent(h.sent, Len(h.sent)) => Silent(o.sent, Len(o.sent))
      /\ \A d : Says(h.sent, Len(h.sent), d) => Says(o.sent, Len(o.sent), d)
      /\ m.type = "save" => Coming(o.sent, {"save"})
  BY <1>1, JoinsOne DEF Sound
<1>4. ASSUME NEW known, Told(h, known) PROVE Told(o, known)
  BY <1>1, <1>2, <1>3, <1>4, KnownSaid DEF Told
<1> QED
  BY <1>1, <1>3, <1>4 DEF Goes, o

LEMMA PushSpeaks ==
    ASSUME NEW h, Sound(h)
    PROVE  Speaks(h, PushDraftState(h)) /\ Writes(h, PushDraftState(h), {"sent"})
<1> DEFINE m == [type |-> "draft_state", dirty |-> DirtyPositions(h)]
           o == Send(h, m)
<1>1. PushDraftState(h) = o
  BY DEF PushDraftState
<1>2. m.type = "draft_state" /\ m.dirty = DirtyPositions(h) /\ Message(m)
  BY DEF Message, Located
<1> HIDE DEF m
<1>3. /\ Drafts(h, o) /\ Writes(h, o, {"sent"})
      /\ DirtyPositions(o) = DirtyPositions(h) /\ o.sent = Joined(h.sent, m)
  BY <1>2, SentOne
<1> HIDE DEF o
<1>4. IsSeq(o.sent)
  BY <1>3 DEF Drafts, Sound, Mail
<1>5. Says(o.sent, Len(o.sent), m)
  BY <1>2, <1>3, JoinsOne DEF Sound
<1>6. \A known : Told(o, known)
  BY <1>2, <1>3, <1>4, <1>5, KnownSaid DEF Told
<1> QED
  BY <1>1, <1>3, <1>6 DEF Speaks

\* Handlers run one after the other.
LEMMA StaysPut ==
    ASSUME NEW h, Sound(h)
    PROVE  Goes(h, h)
BY DEF Goes, Drafts, Held

LEMMA GoesOn ==
    ASSUME NEW h, NEW x, NEW o
    PROVE  /\ Goes(h, x) /\ Goes(x, o) => Goes(h, o)
           /\ Speaks(h, x) /\ Goes(x, o) => Speaks(h, o)
           /\ Drafts(h, x) /\ Drafts(x, o) => Drafts(h, o)
           /\ Drafts(h, x) /\ Speaks(x, o) => Speaks(h, o)
           /\ Speaks(h, o) => Goes(h, o)
           /\ Goes(h, o) => Drafts(h, o)
BY DEF Goes, Speaks, Drafts, Held

LEMMA RefreshGoes ==
    ASSUME NEW h, Sound(h), NEW p
    PROVE  Goes(h, RefreshSection(h, p)) /\ Writes(h, RefreshSection(h, p), {"picked", "grip"})
<1> DEFINE o == RefreshSection(h, p)
           kept == {i \in h.picked : i <= Len(Effective(h, p))}
<1>1. o = [[h EXCEPT !.picked = kept] EXCEPT !.grip = 0]
  BY DEF RefreshSection, RebuildHandles
<1> HIDE DEF kept
<1>2. Writes(h, o, {"picked", "grip"})
  BY <1>1 DEF Writes, HookFields, Sound
<1> HIDE DEF o
<1>3. Writes(h, o, Chrome) /\ o.selected \in Positions
  BY <1>2 DEF Writes, Chrome, HookFields, Sound
<1> QED
  BY <1>2, <1>3, ChromeGoes DEF o

LEMMA RebuildGoes ==
    ASSUME NEW h, Sound(h)
    PROVE  Goes(h, RebuildHandles(h)) /\ Writes(h, RebuildHandles(h), {"grip"})
<1> DEFINE o == RebuildHandles(h)
<1>1. Writes(h, o, {"grip"})
  BY DEF Writes, HookFields, Sound, RebuildHandles
<1> HIDE DEF o
<1>2. Writes(h, o, Chrome) /\ o.selected \in Positions
  BY <1>1 DEF Writes, Chrome, HookFields, Sound
<1> QED
  BY <1>1, <1>2, ChromeGoes DEF o

LEMMA ModeGoes ==
    ASSUME NEW h, Sound(h), NEW mode
    PROVE  /\ Goes(h, SetMode(h, mode))
           /\ Writes(h, SetMode(h, mode), Chrome \cup {"sent"})
           /\ SetMode(h, mode).pointsOpen = h.pointsOpen
           /\ SetMode(h, mode).selected = h.selected
<1>1. CASE mode = h.mode \/ (mode = "edit" /\ ~Editable(h, h.selected))
  <2>1. SetMode(h, mode) = h
    BY <1>1 DEF SetMode
  <2> QED
    BY <2>1, StaysPut DEF Writes, Sound
<1>2. CASE ~(mode = h.mode \/ (mode = "edit" /\ ~Editable(h, h.selected)))
  <2> DEFINE picked == IF mode = "pan" THEN {} ELSE h.picked
             s == [h EXCEPT !.mode = mode, !.box = FALSE, !.picked = picked]
             r == RebuildHandles(s)
             o == PushDraftState(r)
  <2>1. SetMode(h, mode) = o
    BY <1>2 DEF SetMode
  <2> HIDE DEF picked
  <2>2. Writes(h, s, {"mode", "box", "picked"})
    BY DEF Writes, HookFields, Sound
  <2> HIDE DEF s
  <2>3. Writes(h, s, Chrome) /\ s.selected \in Positions
    BY <2>2 DEF Writes, Chrome, HookFields, Sound
  <2>4. Goes(h, s)
    BY <2>3, ChromeGoes
  <2>5. Goes(s, r) /\ Writes(s, r, {"grip"})
    BY <2>4, RebuildGoes DEF Goes, Drafts
  <2> HIDE DEF r
  <2>6. Speaks(r, o) /\ Writes(r, o, {"sent"})
    BY <2>5, PushSpeaks DEF Goes, Drafts
  <2> HIDE DEF o
  <2>7. Goes(h, o)
    BY <2>4, <2>5, <2>6, GoesOn
  <2>8. Writes(h, o, Chrome \cup {"sent"}) /\ o.pointsOpen = h.pointsOpen /\ o.selected = h.selected
    BY <2>2, <2>5, <2>6 DEF Writes, Chrome, HookFields
  <2> QED
    BY <2>1, <2>7, <2>8
<1> QED
  BY <1>1, <1>2

LEMMA SelectGoes ==
    ASSUME NEW h, Sound(h), NEW p \in Positions
    PROVE  Goes(h, Select(h, p)) /\ Writes(h, Select(h, p), Chrome \cup {"sent"})
<1> DEFINE falls == h.mode = "edit" /\ ~Editable(h, p)
           mode == IF falls THEN "pan" ELSE h.mode
           s == [h EXCEPT !.selected = p, !.picked = {}, !.mode = mode]
           t == IF falls THEN PushDraftState(s) ELSE s
           o == RebuildHandles(t)
<1>1. Select(h, p) = o
  BY DEF Select
<1> HIDE DEF mode, falls
<1>2. Writes(h, s, Chrome) /\ s.selected = p
  BY DEF Writes, HookFields, Sound, Chrome
<1> HIDE DEF s
<1>3. Goes(h, s)
  BY <1>2, ChromeGoes
<1>4. Goes(h, t) /\ Writes(h, t, Chrome \cup {"sent"})
  <2>1. CASE falls
    <3>1. Speaks(s, PushDraftState(s)) /\ Writes(s, PushDraftState(s), {"sent"})
      BY <1>3, PushSpeaks DEF Goes, Drafts
    <3>2. t = PushDraftState(s)
      BY <2>1
    <3> HIDE DEF t
    <3>3. Goes(h, t)
      BY <1>3, <3>1, <3>2, GoesOn
    <3>4. Writes(h, t, Chrome \cup {"sent"})
      BY <1>2, <3>1, <3>2 DEF Writes, Chrome, HookFields
    <3> QED
      BY <3>3, <3>4
  <2>2. CASE ~falls
    BY <1>2, <1>3, <2>2 DEF Writes, Chrome, HookFields
  <2> QED
    BY <2>1, <2>2
<1> HIDE DEF t
<1>5. Goes(t, o) /\ Writes(t, o, {"grip"})
  BY <1>4, RebuildGoes DEF Goes, Drafts
<1> HIDE DEF o
<1>6. Goes(h, o)
  BY <1>4, <1>5, GoesOn
<1>7. Writes(h, o, Chrome \cup {"sent"})
  BY <1>4, <1>5 DEF Writes, Chrome, HookFields
<1> QED
  BY <1>1, <1>6, <1>7


-----------------------------------------------------------------------------
(* Drafts.                                                                 *)

Redrafted(h, p, op, points, dirty) ==
    [DraftOf(h, p) EXCEPT !.op = op, !.points = points, !.dirty = dirty]

LEMMA DraftShape ==
    ASSUME NEW h, Drafting(h), NEW p \in Positions, NEW op, NEW points, NEW dirty
    PROVE  /\ Draft(Redrafted(h, p, op, points, dirty))
           /\ Redrafted(h, p, op, points, dirty).op = op
           /\ Redrafted(h, p, op, points, dirty).points = points
BY DEF Redrafted, DraftOf, NoDraft, Draft, Drafting

\* Section p has been given the draft d, and no other section a new one.
DraftGiven(h, o, p, d) ==
    /\ DOMAIN o.drafts = Positions
    /\ \A q \in Positions : o.drafts[q] = IF q = p THEN d ELSE h.drafts[q]

LEMMA DraftIsThere ==
    ASSUME NEW h, NEW o, Drafting(h), NEW p \in Positions, NEW d, Draft(d), o.model = h.model,
           DraftGiven(h, o, p, d)
    PROVE  /\ Drafting(o)
           /\ \A q \in Positions : SavedInterior(o, q) = SavedInterior(h, q)
           /\ \A q \in Positions : q # p => Effective(o, q) = Effective(h, q)
           /\ Effective(o, p) = IF d.op = "none" THEN SavedInterior(h, p) ELSE d.points
BY DEF Drafting, DraftGiven, Effective, SavedInterior

\* A draft is made and noted.
LEMMA DraftNoted ==
    ASSUME NEW h, Sound(h), NEW p \in Positions, NEW after, NEW op, NEW d, Draft(d),
           after = IF d.op = "none" THEN SavedInterior(h, p) ELSE d.points
    PROVE  Drafts(h, [Noted(h, p, after, op) EXCEPT !.drafts[p] = d])
<1> DEFINE e == [position |-> p, before |-> Effective(h, p), after |-> after,
                 prevOp |-> h.drafts[p].op, nextOp |-> op]
           s == [h EXCEPT !.undo = Append(h.undo, e), !.redo = <<>>]
           o == [s EXCEPT !.drafts[p] = d]
<1>1. Noted(h, p, after, op) = s
  BY DEF Noted
<1>2. e.position = p /\ e.before = Effective(h, p) /\ e.after = after
  OBVIOUS
<1> HIDE DEF e
<1>3. Writes(h, s, {"undo", "redo"}) /\ s.undo = Append(h.undo, e) /\ s.redo = <<>>
  BY DEF Writes, HookFields, Sound
<1>4. o = [s EXCEPT !.drafts = [s.drafts EXCEPT ![p] = d]]
  OBVIOUS
<1> HIDE DEF s
<1>5. Writes(s, o, {"drafts"}) /\ o.drafts = [s.drafts EXCEPT ![p] = d]
  BY <1>3, <1>4 DEF Writes, HookFields
<1> HIDE DEF o
<1>6. /\ o.model = h.model /\ o.selected = h.selected /\ o.sent = h.sent /\ Held(h, o)
      /\ o.undo = Append(h.undo, e) /\ o.redo = <<>> /\ HookFields \subseteq DOMAIN o
      /\ s.drafts = h.drafts
  BY <1>3, <1>5 DEF Writes, HookFields, Held
<1>7. DraftGiven(h, o, p, d)
  BY <1>5, <1>6 DEF Sound, Drafting, DraftGiven
<1>8. /\ Drafting(o) /\ Effective(o, p) = after
      /\ \A q \in Positions : /\ SavedInterior(o, q) = SavedInterior(h, q)
                              /\ q # p => Effective(o, q) = Effective(h, q)
  BY <1>6, <1>7, DraftIsThere DEF Sound
<1>9. WalksBack(o) /\ Entries(o.undo) /\ Entries(o.redo)
  BY <1>2, <1>6, <1>8, WalksOn DEF Sound
<1>10. Drafts(h, o)
  BY <1>6, <1>8, <1>9 DEF Drafts, Sound
<1> QED
  BY <1>1, <1>10 DEF o

LEMMA CommitGoes ==
    ASSUME NEW h, Sound(h), NEW p \in Positions, NEW after
    PROVE  Goes(h, Commit(h, p, after))
<1>1. CASE after = Effective(h, p)
  BY <1>1, StaysPut DEF Commit
<1>2. CASE after # Effective(h, p)
  <2> DEFINE dirty == after # SavedInterior(h, p)
             draft == [DraftOf(h, p) EXCEPT !.op = "set", !.points = after, !.dirty = dirty]
             d == IF dirty THEN draft ELSE NoDraft
             x == [Noted(h, p, after, "set") EXCEPT !.drafts[p] = d]
             y == RefreshSection(x, p)
  <2>1. Commit(h, p, after) = PushDraftState(y)
    BY <1>2 DEF Commit
  <2>2. Draft(draft) /\ draft.op = "set" /\ draft.points = after
    <3>1. draft = Redrafted(h, p, "set", after, dirty)
      BY DEF Redrafted
    <3> HIDE DEF draft, dirty
    <3> QED
      BY <3>1, DraftShape DEF Sound
  <2> HIDE DEF draft
  <2>3. Draft(d) /\ after = IF d.op = "none" THEN SavedInterior(h, p) ELSE d.points
    BY <2>2 DEF NoDraft, Draft
  <2> HIDE DEF d
  <2>4. Drafts(h, x)
    BY <2>3, DraftNoted
  <2> HIDE DEF x
  <2>5. Drafts(h, y)
    BY <2>4, RefreshGoes, GoesOn DEF Drafts
  <2> HIDE DEF y
  <2>6. Speaks(h, PushDraftState(y))
    BY <2>5, PushSpeaks, GoesOn DEF Drafts
  <2> QED
    BY <2>1, <2>6, GoesOn
<1> QED
  BY <1>1, <1>2

LEMMA RecordDrafts ==
    ASSUME NEW h, Sound(h), NEW p \in Positions, NEW after, NEW op, op # "none", NEW forced
    PROVE  Drafts(h, RecordOp(h, p, after, op, forced))
<1> DEFINE dirty == forced \/ after # SavedInterior(h, p)
           d == [DraftOf(h, p) EXCEPT !.op = op, !.points = after, !.dirty = dirty]
           x == [Noted(h, p, after, op) EXCEPT !.drafts[p] = d]
<1>1. RecordOp(h, p, after, op, forced) = RefreshSection(x, p)
  BY DEF RecordOp
<1>2. Draft(d) /\ d.op = op /\ d.points = after
  <2>1. d = Redrafted(h, p, op, after, dirty)
    BY DEF Redrafted
  <2> HIDE DEF d, dirty
  <2> QED
    BY <2>1, DraftShape DEF Sound
<1> HIDE DEF d
<1>3. Drafts(h, x)
  BY <1>2, DraftNoted
<1> HIDE DEF x
<1> QED
  BY <1>1, <1>3, RefreshGoes, GoesOn DEF Drafts

LEMMA ApplySpeaks ==
    ASSUME NEW h, Sound(h), NEW p \in Positions, NEW after, NEW op, op # "none", NEW forced
    PROVE  Speaks(h, ApplyOp(h, p, after, op, forced))
<1>1. Drafts(h, RecordOp(h, p, after, op, forced))
  BY RecordDrafts
<1> QED
  BY <1>1, PushSpeaks, GoesOn DEF ApplyOp, Drafts

\* A snapshot gives a section the points asked for, whatever it was before.
LEMMA SnapshotTaken ==
    ASSUME NEW h, HookFields \subseteq DOMAIN h, Drafting(h), NEW p \in Positions,
           NEW points, NEW op
    PROVE  /\ Writes(h, ApplySnapshot(h, p, points, op), {"drafts", "picked", "grip"})
           /\ Drafting(ApplySnapshot(h, p, points, op))
           /\ Effective(ApplySnapshot(h, p, points, op), p) = points
           /\ \A q \in Positions :
                 /\ SavedInterior(ApplySnapshot(h, p, points, op), q) = SavedInterior(h, q)
                 /\ q # p => Effective(ApplySnapshot(h, p, points, op), q) = Effective(h, q)
<1> DEFINE nextOp == IF op = "none" THEN "set" ELSE op
           differs == points # SavedInterior(h, p)
           dirty == nextOp = "delete" \/ differs
           draft == [DraftOf(h, p) EXCEPT !.op = nextOp, !.points = points, !.dirty = dirty]
           d == IF nextOp = "set" /\ ~differs THEN NoDraft ELSE draft
           s == [h EXCEPT !.drafts[p] = d]
           kept == {i \in s.picked : i <= Len(Effective(s, p))}
           o == [[s EXCEPT !.picked = kept] EXCEPT !.grip = 0]
<1>1. ApplySnapshot(h, p, points, op) = o
  BY DEF ApplySnapshot, RefreshSection, RebuildHandles
<1>2. Draft(draft) /\ draft.op = nextOp /\ draft.points = points
  <2>1. draft = Redrafted(h, p, nextOp, points, dirty)
    BY DEF Redrafted
  <2> HIDE DEF draft, dirty
  <2> QED
    BY <2>1, DraftShape
<1> HIDE DEF draft
<1>3. nextOp # "none"
  OBVIOUS
<1> HIDE DEF nextOp
<1>4. Draft(d) /\ points = IF d.op = "none" THEN SavedInterior(h, p) ELSE d.points
  BY <1>2, <1>3 DEF NoDraft, Draft
<1> HIDE DEF d
<1>5. s = [h EXCEPT !.drafts = [h.drafts EXCEPT ![p] = d]]
  OBVIOUS
<1> HIDE DEF s, kept
<1>6. Writes(h, s, {"drafts"}) /\ s.drafts = [h.drafts EXCEPT ![p] = d]
  BY <1>5 DEF Writes, HookFields
<1>7. Writes(s, o, {"picked", "grip"})
  BY <1>6 DEF Writes, HookFields
<1> HIDE DEF o
<1>8. /\ Writes(h, o, {"drafts", "picked", "grip"}) /\ o.drafts = [h.drafts EXCEPT ![p] = d]
      /\ o.model = h.model
  BY <1>6, <1>7 DEF Writes, HookFields
<1>9. DraftGiven(h, o, p, d)
  BY <1>8 DEF Drafting, DraftGiven
<1>10. /\ Drafting(o) /\ Effective(o, p) = points
       /\ \A q \in Positions : /\ SavedInterior(o, q) = SavedInterior(h, q)
                               /\ q # p => Effective(o, q) = Effective(h, q)
  BY <1>4, <1>8, <1>9, DraftIsThere
<1> QED
  BY <1>1, <1>8, <1>10

LEMMA UndoSpeaks ==
    ASSUME NEW h, Sound(h)
    PROVE  Goes(h, UndoOnce(h))
<1>1. CASE h.undo = <<>>
  BY <1>1, StaysPut DEF UndoOnce
<1>2. CASE h.undo # <<>>
  <2> DEFINE e == h.undo[Len(h.undo)]
             less == SubSeq(h.undo, 1, Len(h.undo) - 1)
             s == [h EXCEPT !.undo = less, !.redo = Append(h.redo, e), !.picked = {}]
             o == ApplySnapshot(s, e.position, e.before, e.prevOp)
  <2>1. UndoOnce(h) = PushDraftState(o)
    BY <1>2 DEF UndoOnce
  <2>2. e.position \in Positions
    <3>1. Len(h.undo) \in 1 .. Len(h.undo)
      BY <1>2, LastGone DEF Sound, Entries
    <3> QED
      BY <3>1 DEF Sound, Entries
  <2> HIDE DEF e, less
  <2>3. /\ Writes(h, s, {"undo", "redo", "picked"})
        /\ s.undo = less /\ s.redo = Append(h.redo, e)
    BY DEF Writes, HookFields, Sound
  <2> HIDE DEF s
  <2>4. /\ HookFields \subseteq DOMAIN s /\ s.drafts = h.drafts /\ s.model = h.model
        /\ s.sent = h.sent /\ s.selected = h.selected /\ Held(h, s)
    BY <2>3 DEF Writes, HookFields, Held
  <2>5. /\ Drafting(s)
        /\ \A q : Effective(s, q) = Effective(h, q) /\ SavedInterior(s, q) = SavedInterior(h, q)
    BY <2>4 DEF Drafting, Sound, Effective, SavedInterior
  <2>6. /\ Writes(s, o, {"drafts", "picked", "grip"}) /\ Drafting(o)
        /\ Effective(o, e.position) = e.before
        /\ \A q \in Positions : /\ SavedInterior(o, q) = SavedInterior(s, q)
                                /\ q # e.position => Effective(o, q) = Effective(s, q)
    BY <2>2, <2>4, <2>5, SnapshotTaken
  <2> HIDE DEF o
  <2>7. /\ o.undo = less /\ o.redo = Append(h.redo, e) /\ HookFields \subseteq DOMAIN o
        /\ o.sent = h.sent /\ o.selected = h.selected /\ Held(h, o)
    BY <2>3, <2>4, <2>6 DEF Writes, HookFields, Held
  <2>8. WalksBack(o) /\ Entries(o.undo) /\ Entries(o.redo)
    BY <1>2, <2>5, <2>6, <2>7, WalksBackOne DEF Sound, e, less
  <2>9. Drafts(h, o)
    BY <2>6, <2>7, <2>8 DEF Drafts, Sound
  <2>10. Speaks(h, PushDraftState(o))
    BY <2>9, PushSpeaks, GoesOn DEF Drafts
  <2> QED
    BY <2>1, <2>10, GoesOn
<1> QED
  BY <1>1, <1>2

LEMMA RedoSpeaks ==
    ASSUME NEW h, Sound(h)
    PROVE  Goes(h, RedoOnce(h))
<1>1. CASE h.redo = <<>>
  BY <1>1, StaysPut DEF RedoOnce
<1>2. CASE h.redo # <<>>
  <2> DEFINE e == h.redo[Len(h.redo)]
             less == SubSeq(h.redo, 1, Len(h.redo) - 1)
             s == [h EXCEPT !.redo = less, !.undo = Append(h.undo, e), !.picked = {}]
             o == ApplySnapshot(s, e.position, e.after, e.nextOp)
  <2>1. RedoOnce(h) = PushDraftState(o)
    BY <1>2 DEF RedoOnce
  <2>2. e.position \in Positions
    <3>1. Len(h.redo) \in 1 .. Len(h.redo)
      BY <1>2, LastGone DEF Sound, Entries
    <3> QED
      BY <3>1 DEF Sound, Entries
  <2> HIDE DEF e, less
  <2>3. /\ Writes(h, s, {"undo", "redo", "picked"})
        /\ s.redo = less /\ s.undo = Append(h.undo, e)
    BY DEF Writes, HookFields, Sound
  <2> HIDE DEF s
  <2>4. /\ HookFields \subseteq DOMAIN s /\ s.drafts = h.drafts /\ s.model = h.model
        /\ s.sent = h.sent /\ s.selected = h.selected /\ Held(h, s)
    BY <2>3 DEF Writes, HookFields, Held
  <2>5. /\ Drafting(s)
        /\ \A q : Effective(s, q) = Effective(h, q) /\ SavedInterior(s, q) = SavedInterior(h, q)
    BY <2>4 DEF Drafting, Sound, Effective, SavedInterior
  <2>6. /\ Writes(s, o, {"drafts", "picked", "grip"}) /\ Drafting(o)
        /\ Effective(o, e.position) = e.after
        /\ \A q \in Positions : /\ SavedInterior(o, q) = SavedInterior(s, q)
                                /\ q # e.position => Effective(o, q) = Effective(s, q)
    BY <2>2, <2>4, <2>5, SnapshotTaken
  <2> HIDE DEF o
  <2>7. /\ o.redo = less /\ o.undo = Append(h.undo, e) /\ HookFields \subseteq DOMAIN o
        /\ o.sent = h.sent /\ o.selected = h.selected /\ Held(h, o)
    BY <2>3, <2>4, <2>6 DEF Writes, HookFields, Held
  <2>8. WalksBack(o) /\ Entries(o.undo) /\ Entries(o.redo)
    BY <1>2, <2>5, <2>6, <2>7, WalksForward DEF Sound, e, less
  <2>9. Drafts(h, o)
    BY <2>6, <2>7, <2>8 DEF Drafts, Sound
  <2>10. Speaks(h, PushDraftState(o))
    BY <2>9, PushSpeaks, GoesOn DEF Drafts
  <2> QED
    BY <2>1, <2>10, GoesOn
<1> QED
  BY <1>1, <1>2


\* The parts of a line, one section after the other.
NextPart(f, n, h, parts, which) ==
    IF n = 0 THEN h
    ELSE IF n \in which THEN RecordOp(f[n - 1], n, parts[n], "set", TRUE) ELSE f[n - 1]
Records(f, n, h, parts, which) == f = [i \in 0 .. n |-> NextPart(f, i, h, parts, which)]

LEMMA RecordedExists ==
    ASSUME NEW h, NEW parts, NEW which
    PROVE  \A n \in Nat : \E f : Records(f, n, h, parts, which)
<1> DEFINE T == {n \in Nat : ~\E f : Records(f, n, h, parts, which)}
<1>1. ASSUME T # {} PROVE FALSE
  <2>1. PICK n \in T : \A k \in T : ~(k < n)
    BY <1>1, LeastOf
  <2>2. n # 0
    <3> DEFINE f == [i \in 0 .. 0 |-> h]
    <3>1. \A i \in 0 .. 0 : NextPart(f, i, h, parts, which) = h
      BY DEF NextPart
    <3> HIDE DEF f
    <3>2. [i \in 0 .. 0 |-> NextPart(f, i, h, parts, which)] = [i \in 0 .. 0 |-> h]
      BY <3>1
    <3>3. Records(f, 0, h, parts, which)
      BY <3>2 DEF Records, f
    <3> QED
      BY <3>3
  <2>3. PICK f : Records(f, n - 1, h, parts, which)
    <3>1. n - 1 \in Nat /\ n - 1 < n
      BY <2>2
    <3> QED
      BY <2>1, <3>1
  <2> DEFINE g == [i \in 0 .. n |-> NextPart(f, i, h, parts, which)]
  <2>4. \A i \in 0 .. n - 1 : f[i] = g[i]
    <3>1. f = [i \in 0 .. n - 1 |-> NextPart(f, i, h, parts, which)]
      BY <2>3 DEF Records
    <3>2. TAKE i \in 0 .. n - 1
    <3>3. i \in 0 .. n
      BY <2>1
    <3>4. g[i] = NextPart(f, i, h, parts, which)
      BY <3>3
    <3> HIDE DEF g
    <3> QED
      BY <3>1, <3>4, Zenon
  <2>5. \A i \in 0 .. n : NextPart(g, i, h, parts, which) = NextPart(f, i, h, parts, which)
    <3> HIDE DEF g
    <3> SUFFICES ASSUME NEW i \in 0 .. n, i # 0
                 PROVE  NextPart(g, i, h, parts, which) = NextPart(f, i, h, parts, which)
      BY DEF NextPart
    <3>1. i - 1 \in 0 .. n - 1
      BY <2>1
    <3> QED
      BY <2>4, <3>1 DEF NextPart
  <2>6. [i \in 0 .. n |-> NextPart(g, i, h, parts, which)]
          = [i \in 0 .. n |-> NextPart(f, i, h, parts, which)]
    <3> HIDE DEF g
    <3> QED
      BY <2>5
  <2>7. Records(g, n, h, parts, which)
    BY <2>6, Zenon DEF Records
  <2> HIDE DEF g
  <2> QED
    BY <2>1, <2>7
<1> QED
  BY <1>1

LEMMA PartsDraft ==
    ASSUME NEW h, Sound(h), NEW parts, NEW which
    PROVE  Drafts(h, RecordParts(h, parts, which))
<1> DEFINE f == CHOOSE f : f = [n \in 0 .. Sections |->
                  IF n = 0 THEN h
                  ELSE IF n \in which THEN RecordOp(f[n - 1], n, parts[n], "set", TRUE)
                  ELSE f[n - 1]]
<1>1. Sections \in Nat
  BY PatternAssumption
<1>2. RecordParts(h, parts, which) = f[Sections]
  BY Zenon DEF RecordParts
<1>3. Records(f, Sections, h, parts, which)
  <2>1. \E g : Records(g, Sections, h, parts, which)
    BY <1>1, RecordedExists
  <2> QED
    BY <2>1, Zenon DEF Records, NextPart
<1> HIDE DEF f
<1> DEFINE T == {n \in 0 .. Sections : ~Drafts(h, f[n])}
<1>4. ASSUME T # {} PROVE FALSE
  <2>0. T \subseteq Nat
    BY <1>1
  <2>1. PICK n \in T : \A k \in T : ~(k < n)
    <3> HIDE DEF T
    <3> QED
      BY <1>4, <2>0, LeastOf
  <2>2. n \in 0 .. Sections /\ ~Drafts(h, f[n])
    OBVIOUS
  <2>3. f[n] = NextPart(f, n, h, parts, which)
    BY <1>3, <2>2, Zenon DEF Records
  <2>4. n # 0
    BY <2>2, <2>3, StaysPut, GoesOn DEF NextPart
  <2>5. n - 1 \in 0 .. Sections /\ n - 1 < n /\ n \in Positions
    BY <1>1, <2>2, <2>4 DEF Positions
  <2>6. Drafts(h, f[n - 1])
    BY <2>1, <2>5
  <2>7. Drafts(h, RecordOp(f[n - 1], n, parts[n], "set", TRUE))
    <3>1. Sound(f[n - 1]) /\ "set" # "none"
      BY <2>6 DEF Drafts
    <3>2. Drafts(f[n - 1], RecordOp(f[n - 1], n, parts[n], "set", TRUE))
      BY <2>5, <3>1, RecordDrafts
    <3> QED
      BY <2>6, <3>2, GoesOn
  <2> QED
    BY <2>2, <2>3, <2>4, <2>6, <2>7 DEF NextPart
<1> QED
  BY <1>1, <1>2, <1>4

\* Parts are drafted, a section is selected and edited, and all of it is told.
LEMMA PartsSpeak ==
    ASSUME NEW h, Sound(h), NEW parts, NEW which, NEW p \in Positions
    PROVE  Speaks(h, PushDraftState(SetMode(Select(RecordParts(h, parts, which), p), "edit")))
<1> DEFINE x == RecordParts(h, parts, which)
           y == Select(x, p)
           z == SetMode(y, "edit")
<1>1. Drafts(h, x)
  BY PartsDraft
<1> HIDE DEF x
<1>2. Drafts(h, y)
  BY <1>1, SelectGoes, GoesOn DEF Drafts
<1> HIDE DEF y
<1>3. Drafts(h, z)
  BY <1>2, ModeGoes, GoesOn DEF Drafts
<1> HIDE DEF z
<1>4. Speaks(h, PushDraftState(z))
  BY <1>3, PushSpeaks, GoesOn DEF Drafts
<1> QED
  BY <1>4 DEF x, y, z

LEMMA SuggestionsGo ==
    ASSUME NEW h, Sound(h), NEW parts
    PROVE  Goes(h, ApplySuggestions(h, parts))
<1> DEFINE routed == {p \in Positions : parts[p] # <<>>}
           first == CHOOSE p \in routed : \A q \in routed : p <= q
<1>1. CASE routed = {}
  BY <1>1, StaysPut DEF ApplySuggestions
<1>2. CASE routed # {}
  <2>1. routed \subseteq Nat
    BY PatternAssumption DEF Positions
  <2>2. PICK p \in routed : \A q \in routed : ~(q < p)
    <3> HIDE DEF routed
    <3> QED
      BY <1>2, <2>1, LeastOf
  <2>3. \E r \in routed : \A q \in routed : r <= q
    BY <2>1, <2>2
  <2>4. first \in Positions
    <3>1. first \in routed
      BY <2>3, Zenon
    <3> QED
      BY <3>1
  <2>5. ApplySuggestions(h, parts)
          = PushDraftState(SetMode(Select(RecordParts(h, parts, routed), first), "edit"))
    BY <1>2 DEF ApplySuggestions
  <2> HIDE DEF routed, first
  <2> QED
    BY <2>4, <2>5, PartsSpeak, GoesOn
<1> QED
  BY <1>1, <1>2

LEMMA ImportSpeaks ==
    ASSUME NEW h, Sound(h)
    PROVE  Speaks(h, DraftImportedLine(h))
<1>1. 1 \in Positions
  BY PatternAssumption DEF Positions
<1> QED
  BY <1>1, PartsSpeak DEF DraftImportedLine

-----------------------------------------------------------------------------
(* The handlers of the events of the server.                               *)

\* A fresh model leaves nothing to tell but what was routed for it.
LEMMA DrawSpeaks ==
    ASSUME NEW h, Sound(h), NEW model, NEW suggestions
    PROVE  Speaks(h, Draw(h, model, suggestions))
<1> DEFINE none == [p \in Positions |-> NoDraft]
           fresh == [h EXCEPT !.model = model, !.drafts = none,
                           !.undo = <<>>, !.redo = <<>>, !.picked = {},
                           !.dragWorking = NoDrag, !.followPending = NoRun, !.pointsOpen = FALSE,
                           !.box = FALSE, !.fileLine = "none", !.mode = "pan"]
           drawn == Select(fresh, h.selected)
           x == ApplySuggestions(drawn, suggestions)
           m == [type |-> "applied"]
<1>1. Draw(h, model, suggestions) = IF suggestions = NoParts THEN drawn ELSE Send(x, m)
  BY DEF Draw
<1> HIDE DEF none
<1>2. /\ HookFields \subseteq DOMAIN fresh /\ fresh.drafts = none
      /\ fresh.undo = <<>> /\ fresh.redo = <<>> /\ fresh.selected = h.selected
      /\ fresh.sent = h.sent /\ Held(h, fresh)
  BY DEF HookFields, Sound, Held
<1> HIDE DEF fresh
<1>3. Drafting(fresh) /\ \A p \in Positions : Effective(fresh, p) = SavedInterior(fresh, p)
  BY <1>2 DEF Drafting, Draft, NoDraft, Effective, none
<1>4. Sound(fresh)
  BY <1>2, <1>3, WalksAtFirst DEF Sound
<1>5. DirtyPositions(fresh) = {}
  BY <1>2 DEF DirtyPositions, none, NoDraft
<1>6. IsSeq(fresh.sent)
  BY <1>4 DEF Sound, Mail
<1>7. Speaks(h, fresh)
  BY <1>2, <1>4, <1>5, <1>6, NothingIsKnown DEF Speaks, Drafts, Told
<1>8. Speaks(h, drawn)
  <2>1. h.selected \in Positions
    BY DEF Sound
  <2> QED
    BY <1>4, <1>7, <2>1, SelectGoes, GoesOn
<1> HIDE DEF drawn
<1>9. Speaks(h, x)
  <2>1. Sound(drawn)
    BY <1>8 DEF Speaks, Drafts
  <2> QED
    BY <1>8, <2>1, SuggestionsGo, GoesOn
<1> HIDE DEF x
<1>10. Speaks(h, Send(x, m))
  <2>1. Sound(x)
    BY <1>9 DEF Speaks, Drafts
  <2>2. Message(m) /\ m.type # "draft_state"
    BY DEF Message, Located
  <2> HIDE DEF m
  <2> QED
    BY <1>9, <2>1, <2>2, SendGoes, GoesOn
<1> QED
  BY <1>1, <1>8, <1>10

LEMMA RebaseSpeaks ==
    ASSUME NEW h, Sound(h), NEW bases
    PROVE  Speaks(h, Rebase(h, bases))
<1> DEFINE d(p) == IF p \in DOMAIN bases /\ h.drafts[p].op # "none"
                   THEN [h.drafts[p] EXCEPT !.revision = bases[p]] ELSE h.drafts[p]
           based == [p \in Positions |-> d(p)]
           o == [h EXCEPT !.drafts = based]
<1>1. Rebase(h, bases) = PushDraftState(o)
  BY DEF Rebase
<1>2. \A p \in Positions : /\ Draft(d(p)) /\ d(p).op = h.drafts[p].op
                           /\ d(p).points = h.drafts[p].points
  BY DEF Sound, Drafting, Draft
<1> HIDE DEF d
<1>3. DOMAIN based = Positions /\ \A p \in Positions : based[p] = d(p)
  OBVIOUS
<1> HIDE DEF based
<1>4. Writes(h, o, {"drafts"}) /\ o.drafts = based
  BY DEF Writes, HookFields, Sound
<1> HIDE DEF o
<1>5. /\ HookFields \subseteq DOMAIN o /\ o.model = h.model /\ o.undo = h.undo /\ o.redo = h.redo
      /\ o.selected = h.selected /\ o.sent = h.sent /\ Held(h, o)
  BY <1>4 DEF Writes, HookFields, Held
<1>6. \A p \in Positions : SavedInterior(o, p) = SavedInterior(h, p)
                           /\ Effective(o, p) = Effective(h, p)
  BY <1>2, <1>3, <1>4, <1>5 DEF SavedInterior, Effective
<1>7. WalksBack(o)
  BY <1>5, <1>6, WalksAlike DEF Sound
<1>8. Drafting(o)
  BY <1>2, <1>3, <1>4 DEF Drafting
<1>9. Drafts(h, o)
  BY <1>5, <1>7, <1>8 DEF Drafts, Sound
<1> QED
  BY <1>1, <1>9, PushSpeaks, GoesOn DEF Drafts

LEMMA FitGoes ==
    ASSUME NEW h, Sound(h), NEW direction
    PROVE  Goes(h, RenderFileLine(h, direction))
<1> DEFINE x == [h EXCEPT !.fileLine = direction]
           m == [type |-> "fit_result", direction |-> direction]
<1>1. RenderFileLine(h, direction) = Send(x, m)
  BY DEF RenderFileLine
<1>2. Writes(h, x, Chrome) /\ x.selected \in Positions
  BY DEF Writes, HookFields, Sound, Chrome
<1> HIDE DEF x
<1>3. Goes(h, x)
  BY <1>2, ChromeGoes
<1>4. Message(m) /\ m.type # "draft_state"
  BY DEF Message, Located
<1> HIDE DEF m
<1> QED
  BY <1>1, <1>3, <1>4, SendGoes, GoesOn DEF Goes, Drafts

LEMMA FileGoes ==
    ASSUME NEW h, Sound(h)
    PROVE  Goes(h, ReverseFileLine(h)) /\ Goes(h, ClearFileLine(h)) /\ Goes(h, DraftFileLine(h))
<1>1. Goes(h, ReverseFileLine(h))
  BY StaysPut, FitGoes DEF ReverseFileLine
<1>2. ASSUME NEW g, Sound(g) PROVE Goes(g, ClearFileLine(g))
  <2> DEFINE x == ClearFileLine(g)
  <2>1. Writes(g, x, Chrome) /\ x.selected \in Positions
    BY <1>2 DEF Writes, HookFields, Sound, Chrome, ClearFileLine
  <2> HIDE DEF x
  <2> QED
    BY <1>2, <2>1, ChromeGoes DEF x
<1>3. Goes(h, DraftFileLine(h))
  <2>1. Speaks(h, DraftImportedLine(h))
    BY ImportSpeaks
  <2>2. Goes(h, ClearFileLine(DraftImportedLine(h)))
    BY <1>2, <2>1, GoesOn DEF Speaks, Drafts
  <2> QED
    BY <2>2, StaysPut DEF DraftFileLine
<1> QED
  BY <1>1, <1>2, <1>3

LEMMA DeleteGoes ==
    ASSUME NEW h, Sound(h), NEW p \in Positions
    PROVE  Goes(h, DeleteSection(h, p))
<1> DEFINE s == ApplyOp(h, p, <<>>, "delete", TRUE)
<1>1. Speaks(h, s)
  BY ApplySpeaks
<1>2. DeleteSection(h, p) \in {h, s, SetMode(s, "pan")}
  BY DEF DeleteSection
<1> HIDE DEF s
<1>3. Goes(h, SetMode(s, "pan"))
  BY <1>1, ModeGoes, GoesOn DEF Speaks, Drafts
<1> QED
  BY <1>1, <1>2, <1>3, StaysPut, GoesOn

LEMMA PickedGoes ==
    ASSUME NEW h, Sound(h), NEW picked
    PROVE  Goes(h, [h EXCEPT !.picked = picked])
<1> DEFINE x == [h EXCEPT !.picked = picked]
<1>1. Writes(h, x, Chrome) /\ x.selected \in Positions
  BY DEF Writes, HookFields, Sound, Chrome
<1> HIDE DEF x
<1> QED
  BY <1>1, ChromeGoes DEF x

LEMMA SimplifyGoes ==
    ASSUME NEW h, Sound(h), NEW p \in Positions, NEW simplified
    PROVE  Goes(h, SimplifySection(h, p, simplified))
<1> DEFINE x == [h EXCEPT !.picked = {}]
<1>1. Goes(h, x)
  BY PickedGoes
<1>2. SimplifySection(h, p, simplified) \in {h, Commit(x, p, simplified)}
  BY DEF SimplifySection
<1> HIDE DEF x
<1> QED
  BY <1>1, <1>2, StaysPut, CommitGoes, GoesOn DEF Goes, Drafts

LEMMA FollowGoes ==
    ASSUME NEW h, Sound(h), NEW m, m.position \in Positions
    PROVE  Goes(h, ApplyFollowResult(h, m))
<1> DEFINE done == [h EXCEPT !.followPending = NoRun]
           next == Splice(Effective(h, m.position), m.start, m.end, m.points)
           s == Commit(done, m.position, next)
           x == [s EXCEPT !.picked = {}]
<1>1. ApplyFollowResult(h, m) \in {h, done, PushDraftState(x), s}
  BY DEF ApplyFollowResult
<1>2. Writes(h, done, Chrome) /\ done.selected \in Positions
  BY DEF Writes, HookFields, Sound, Chrome
<1> HIDE DEF done, next
<1>3. Goes(h, done)
  BY <1>2, ChromeGoes
<1>4. Goes(h, s)
  BY <1>3, CommitGoes, GoesOn DEF Goes, Drafts
<1> HIDE DEF s
<1>5. Goes(h, x)
  BY <1>4, PickedGoes, GoesOn DEF Goes, Drafts
<1> HIDE DEF x
<1>6. Goes(h, PushDraftState(x))
  BY <1>5, PushSpeaks, GoesOn DEF Goes, Drafts
<1> QED
  BY <1>1, <1>3, <1>4, <1>6, StaysPut


\* What no handler but the reception of a load changes.
LEMMA SettleGoes ==
    ASSUME NEW h, Sound(h)
    PROVE  /\ Sound(SettleSave(h)) /\ ~SettleSave(h).savePending
           /\ SettleSave(h).alive = h.alive /\ SettleSave(h).loaded = h.loaded
           /\ \A known : Told(h, known) => Told(SettleSave(h), known)
<1> DEFINE o == SettleSave(h)
<1>1. Writes(h, o, {"savePending"}) /\ ~o.savePending
  BY DEF Writes, HookFields, Sound, SettleSave
<1> HIDE DEF o
<1>2. /\ HookFields \subseteq DOMAIN o /\ o.model = h.model /\ o.drafts = h.drafts
      /\ o.undo = h.undo /\ o.redo = h.redo /\ o.selected = h.selected /\ o.sent = h.sent
      /\ o.alive = h.alive /\ o.loaded = h.loaded
  BY <1>1 DEF Writes, HookFields
<1>3. Sound(o) /\ DirtyPositions(o) = DirtyPositions(h)
  BY <1>2, SameDrafts DEF Sound
<1> QED
  BY <1>1, <1>2, <1>3 DEF Told, o

\* The hook as it mounts, and as it is gone.
LEMMA NewHookIsSound ==
    ASSUME NEW o, o = NewHook \/ o = [NewHook EXCEPT !.alive = FALSE]
    PROVE  Sound(o) /\ o.sent = <<>> /\ ~o.savePending /\ DirtyPositions(o) = {}
<1> DEFINE none == [p \in Positions |-> NoDraft]
<1>1. /\ HookFields \subseteq DOMAIN o /\ o.drafts = none /\ o.undo = <<>> /\ o.redo = <<>>
      /\ o.selected = 1 /\ o.sent = <<>> /\ o.savePending = FALSE
  BY DEF NewHook, HookFields
<1>2. /\ Drafting(o) /\ DirtyPositions(o) = {}
      /\ \A p \in Positions : Effective(o, p) = SavedInterior(o, p)
  BY <1>1 DEF Drafting, Draft, NoDraft, Effective, DirtyPositions
<1>3. WalksBack(o) /\ Entries(o.undo) /\ Entries(o.redo)
  BY <1>1, <1>2, WalksAtFirst
<1>4. 1 \in Positions
  BY PatternAssumption DEF Positions
<1>5. Mail(<<>>)
  BY NoneYet DEF Mail
<1> QED
  BY <1>1, <1>2, <1>3, <1>4, <1>5 DEF Sound

\* The handler of m takes the hook from h to o.
Took(m, h, o) ==
    /\ Sound(o)
    /\ o.alive => m.type # "leave" /\ Told(o, IF m.type = "load" THEN {} ELSE DirtyPositions(h))
    /\ o.alive => h.alive
    /\ o.savePending => h.savePending /\ o.alive /\ o.loaded /\ m.type \notin Releases \cup {"leave"}

LEMMA NothingToTell ==
    ASSUME NEW h, h.sent = <<>>
    PROVE  Told(h, DirtyPositions(h))
<1>1. IsSeq(h.sent) /\ Len(h.sent) = 0
  BY NoneYet
<1>2. Silent(h.sent, Len(h.sent))
  BY <1>1 DEF Silent
<1> QED
  BY <1>1, <1>2, KnownSaid DEF Told

LEMMA GoesTook ==
    ASSUME NEW m, NEW h, Sound(h), h.sent = <<>>, h.savePending => h.alive /\ h.loaded, NEW o,
           m.type \notin Releases \cup {"leave"}, Goes(h, o)
    PROVE  Took(m, h, o)
<1>1. Told(o, DirtyPositions(h))
  BY NothingToTell DEF Goes
<1> QED
  BY <1>1 DEF Took, Goes, Drafts, Held, Releases

LEMMA HandledTook ==
    ASSUME Sound(hook), hook.sent = <<>>, hook.alive, hook.savePending => hook.loaded,
           NEW m, Message(m), NEW h \in Handled(m)
    PROVE  Took(m, hook, h)
<1> DEFINE Always == {"load", "select", "save_settled", "retry_tiles", "leave"}
<1>0. m.type \in Located => m.position \in Positions
  BY DEF Message
<1>1. CASE m.type = "load"
  <2> DEFINE x == [hook EXCEPT !.loaded = TRUE]
             y == Draw(x, m.model, m.bulk)
  <2>1. h = SettleSave(y)
    BY <1>1 DEF Handled
  <2>2. Writes(hook, x, {"loaded"}) /\ x.loaded = TRUE
    BY DEF Writes, HookFields, Sound
  <2> HIDE DEF x
  <2>3. /\ HookFields \subseteq DOMAIN x /\ x.model = hook.model /\ x.drafts = hook.drafts
        /\ x.undo = hook.undo /\ x.redo = hook.redo /\ x.selected = hook.selected
        /\ x.sent = hook.sent /\ x.alive = hook.alive
    BY <2>2 DEF Writes, HookFields
  <2>4. Sound(x)
    BY <2>3, SameDrafts DEF Sound
  <2>5. Speaks(x, y)
    BY <2>4, DrawSpeaks
  <2> HIDE DEF y
  <2>6. Sound(y) /\ Told(y, {}) /\ y.alive = hook.alive
    BY <2>3, <2>5 DEF Speaks, Drafts, Held
  <2>7. Sound(h) /\ Told(h, {}) /\ ~h.savePending /\ h.alive = hook.alive
    BY <2>1, <2>6, SettleGoes
  <2> QED
    BY <1>1, <2>7 DEF Took
<1>2. CASE ~hook.loaded /\ m.type \notin Always
  <2>1. h = hook
    BY <1>2 DEF Handled
  <2> QED
    BY <1>2, <2>1, NothingToTell DEF Took
<1> HIDE DEF Always
<1>3. CASE m.type = "rebase" /\ hook.loaded
  <2> DEFINE x == Rebase(hook, m.bases)
  <2>1. h = SettleSave(x)
    BY <1>3 DEF Handled
  <2>2. Speaks(hook, x)
    BY RebaseSpeaks
  <2> HIDE DEF x
  <2>3. Sound(x) /\ Told(x, DirtyPositions(hook)) /\ x.alive = hook.alive
    BY <2>2 DEF Speaks, Drafts, Held
  <2>4. Sound(h) /\ Told(h, DirtyPositions(hook)) /\ ~h.savePending /\ h.alive = hook.alive
    BY <2>1, <2>3, SettleGoes
  <2> QED
    BY <1>3, <2>4 DEF Took
<1>4. CASE m.type = "save_settled"
  <2>1. h = SettleSave(hook)
    BY <1>4 DEF Handled
  <2>2. /\ Sound(h) /\ Told(h, DirtyPositions(hook)) /\ ~h.savePending
        /\ h.alive = hook.alive
    BY <2>1, SettleGoes, NothingToTell
  <2> QED
    BY <1>4, <2>2 DEF Took
<1>5. CASE m.type = "leave"
  <2>1. h = [NewHook EXCEPT !.alive = FALSE]
    BY <1>5 DEF Handled
  <2>2. Sound(h) /\ ~h.savePending
    BY <2>1, NewHookIsSound
  <2>3. ~h.alive
    BY <2>1 DEF NewHook
  <2> QED
    BY <2>2, <2>3 DEF Took
<1>6. CASE m.type \notin Releases \cup {"leave"} /\ ~(~hook.loaded /\ m.type \notin Always)
  <2> SUFFICES Goes(hook, h)
    BY <1>6, GoesTook
  <2>1. CASE m.type = "select"
    BY <1>0, <2>1, SelectGoes DEF Handled, Located
  <2>2. CASE m.type = "suggestions"
    BY <1>6, <2>2, SuggestionsGo DEF Handled, Always
  <2>3. CASE m.type = "follow_result"
    BY <1>0, <1>6, <2>3, FollowGoes DEF Handled, Located, Always
  <2>4. CASE m.type = "delete_section"
    BY <1>0, <1>6, <2>4, DeleteGoes DEF Handled, Located, Always
  <2>5. CASE m.type = "simplify"
    <3>1. PICK s : h = SimplifySection(hook, m.position, s)
      BY <1>6, <2>5 DEF Handled, Always
    <3> QED
      BY <1>0, <2>5, <3>1, SimplifyGoes DEF Located
  <2>6. CASE m.type = "convert"
    BY <1>6, <2>6, ImportSpeaks, GoesOn DEF Handled, Always
  <2>7. CASE m.type = "file_line"
    <3>1. PICK d : h = RenderFileLine(hook, d)
      BY <1>6, <2>7 DEF Handled, Always
    <3> QED
      BY <3>1, FitGoes
  <2>8. CASE m.type = "reverse_file_line"
    BY <1>6, <2>8, FileGoes DEF Handled, Always
  <2>9. CASE m.type = "file_draft"
    BY <1>6, <2>9, FileGoes DEF Handled, Always
  <2>10. CASE m.type = "clear_file_line"
    BY <1>6, <2>10, FileGoes DEF Handled, Always
  <2>11. CASE m.type = "retry_tiles"
    <3> DEFINE x == [hook EXCEPT !.errorReported = FALSE]
    <3>1. h = x
      BY <2>11 DEF Handled
    <3>2. Writes(hook, x, Chrome) /\ x.selected \in Positions
      BY DEF Writes, HookFields, Sound, Chrome
    <3> HIDE DEF x
    <3> QED
      BY <3>1, <3>2, ChromeGoes
  <2>12. CASE m.type \notin {"select", "suggestions", "follow_result", "delete_section", "simplify",
                             "convert", "file_line", "reverse_file_line", "file_draft",
                             "clear_file_line", "retry_tiles"}
    <3>1. h = hook
      BY <1>6, <2>12 DEF Handled, Releases, Always
    <3> QED
      BY <3>1, StaysPut
  <2> QED
    BY <2>1, <2>2, <2>3, <2>4, <2>5, <2>6, <2>7, <2>8, <2>9, <2>10, <2>11, <2>12
<1> QED
  BY <1>1, <1>2, <1>3, <1>4, <1>5, <1>6 DEF Releases, Always

-----------------------------------------------------------------------------
(* The gestures.                                                           *)

LEMMA PolishGoes ==
    ASSUME NEW h, Sound(h), NEW v, NEW w
    PROVE  /\ Goes(h, [h EXCEPT !.grip = v]) /\ Goes(h, [h EXCEPT !.box = v])
           /\ Goes(h, [h EXCEPT !.dragWorking = v]) /\ Goes(h, [h EXCEPT !.pointsOpen = v])
           /\ Goes(h, [h EXCEPT !.followPending = v]) /\ Goes(h, [h EXCEPT !.errorReported = v])
           /\ Goes(h, [h EXCEPT !.dragWorking = v, !.grip = w])
           /\ Goes(h, [h EXCEPT !.box = v, !.picked = w])
<1> DEFINE Polished(o) == Writes(h, o, Chrome) /\ o.selected \in Positions
<1>1. /\ Polished([h EXCEPT !.grip = v]) /\ Polished([h EXCEPT !.box = v])
      /\ Polished([h EXCEPT !.dragWorking = v]) /\ Polished([h EXCEPT !.pointsOpen = v])
      /\ Polished([h EXCEPT !.followPending = v]) /\ Polished([h EXCEPT !.errorReported = v])
      /\ Polished([h EXCEPT !.dragWorking = v, !.grip = w])
      /\ Polished([h EXCEPT !.box = v, !.picked = w])
  BY DEF Writes, HookFields, Sound, Chrome
<1>2. ASSUME NEW o, Polished(o) PROVE Goes(h, o)
  BY <1>2, ChromeGoes
<1> HIDE DEF Polished
<1> QED
  BY <1>1, <1>2

\* A save is asked for: the drafts stay, and the save is among what is sent.
Asks(h, o) ==
    /\ h.alive /\ h.loaded /\ o.alive = h.alive /\ o.loaded = h.loaded
    /\ Sound(o) /\ (\A known : Told(h, known) => Told(o, known))
    /\ Coming(o.sent, {"save"})

\* A handler of the hook ran outside of an answer of the process.
Moved == \E h : /\ Do(h) /\ UNCHANGED <<srv, down, connected, drops>>
                /\ Goes(hook, h) \/ Asks(hook, h)

LEMMA GestureMoves ==
    ASSUME NEW h, Goes(hook, h) \/ Asks(hook, h), Gesture(h) \/ Ends(h)
    PROVE  Moved
BY DEF Gesture, Ends, InHook, Moved

LEMMA SaveAsks ==
    ASSUME Sound(hook), RequestSave
    PROVE  Moved
<1> DEFINE draft == [p \in DirtyPositions(hook) |-> hook.drafts[p]]
           x == [hook EXCEPT !.savePending = TRUE]
           m == [type |-> "save", draft |-> draft]
           o == Send(x, m)
<1>1. Gesture(o) /\ hook.alive /\ hook.loaded
  BY DEF RequestSave, Gesture, InHook
<1> HIDE DEF draft
<1>2. Writes(hook, x, {"savePending"})
  BY DEF Writes, HookFields, Sound
<1> HIDE DEF x
<1>3. /\ HookFields \subseteq DOMAIN x /\ x.model = hook.model /\ x.drafts = hook.drafts
      /\ x.undo = hook.undo /\ x.redo = hook.redo /\ x.selected = hook.selected
      /\ x.sent = hook.sent /\ x.alive = hook.alive /\ x.loaded = hook.loaded
  BY <1>2 DEF Writes, HookFields
<1>4. Sound(x) /\ DirtyPositions(x) = DirtyPositions(hook)
  BY <1>3, SameDrafts DEF Sound
<1>5. Message(m) /\ m.type = "save"
  BY DEF Message, Located
<1> HIDE DEF m
<1>6. Goes(x, o) /\ Coming(o.sent, {"save"})
  BY <1>4, <1>5, SendGoes
<1> HIDE DEF o
<1>7. Asks(hook, o)
  BY <1>1, <1>3, <1>4, <1>6 DEF Asks, Goes, Drafts, Held, Told
<1> QED
  BY <1>1, <1>7, GestureMoves

LEMMA PickSpeaks ==
    ASSUME NEW h, NEW x, Goes(h, x), NEW picked
    PROVE  Goes(h, PushDraftState([x EXCEPT !.picked = picked]))
<1> DEFINE y == [x EXCEPT !.picked = picked]
<1>1. Goes(x, y)
  BY PickedGoes DEF Goes, Drafts
<1> HIDE DEF y
<1>2. Goes(h, y)
  BY <1>1, GoesOn
<1>3. Goes(h, PushDraftState(y))
  BY <1>2, PushSpeaks, GoesOn DEF Goes, Drafts
<1> QED
  BY <1>3 DEF y

LEMMA UserMoves ==
    ASSUME Sound(hook), UserInHook
    PROVE  Moved
<1> DEFINE here == hook.selected
           some == [hook EXCEPT !.picked = {}]
<1>0. here \in Positions
  BY DEF Sound
<1>a. ASSUME NEW picked PROVE Goes(hook, [hook EXCEPT !.picked = picked])
  BY PickedGoes
<1>b. ASSUME NEW after PROVE Goes(hook, Commit(some, here, after))
  <2>1. Goes(hook, some)
    BY PickedGoes
  <2> HIDE DEF some
  <2>2. Goes(some, Commit(some, here, after))
    BY <1>0, <2>1, CommitGoes DEF Goes, Drafts
  <2> QED
    BY <2>1, <2>2, GoesOn
<1>1. CASE ChooseMode
  BY <1>1, ModeGoes, GestureMoves DEF ChooseMode
<1>2. CASE InsertPoint
  <2>1. PICK at, after : Gesture(PushDraftState([Commit(hook, here, after) EXCEPT !.picked = {at}]))
    BY <1>2 DEF InsertPoint
  <2>2. Goes(hook, Commit(hook, here, after))
    BY <1>0, CommitGoes
  <2> QED
    BY <2>1, <2>2, PickSpeaks, GestureMoves
<1>3. CASE ClickSection
  <2>1. PICK p \in Positions : Gesture(Send(hook, [type |-> "select_section", position |-> p]))
    BY <1>3 DEF ClickSection
  <2> DEFINE m == [type |-> "select_section", position |-> p]
  <2>2. Message(m) /\ m.type # "draft_state"
    BY DEF Message, Located
  <2> HIDE DEF m
  <2>3. Goes(hook, Send(hook, m))
    BY <2>2, SendGoes
  <2> QED
    BY <2>1, <2>3, GestureMoves DEF m
<1>4. CASE MovePoint
  <2>1. PICK after : Gesture(Commit(hook, here, after))
    BY <1>4 DEF MovePoint
  <2> QED
    BY <1>0, <2>1, CommitGoes, GestureMoves
<1>5. CASE DeletePoint
  BY <1>5, <1>b, GestureMoves DEF DeletePoint
<1>6. CASE Grab
  BY <1>6, PolishGoes, GestureMoves DEF Grab
<1>7. CASE OnHandleDrag
  <2>1. PICK v : Ends([hook EXCEPT !.dragWorking = v])
    BY <1>7 DEF OnHandleDrag
  <2> QED
    BY <2>1, PolishGoes, GestureMoves
<1>8. CASE OnHandleDragEnd
  <2> DEFINE let == [hook EXCEPT !.dragWorking = NoDrag, !.grip = 0]
  <2>1. PICK after : Ends(Commit(let, here, after))
    BY <1>8 DEF OnHandleDragEnd
  <2>2. Goes(hook, let)
    BY PolishGoes
  <2> HIDE DEF let
  <2>3. Goes(let, Commit(let, here, after))
    BY <1>0, <2>2, CommitGoes DEF Goes, Drafts
  <2> QED
    BY <2>1, <2>2, <2>3, GoesOn, GestureMoves
<1>9. CASE OnHandleClick
  <2>1. PICK picked : Gesture(PushDraftState([hook EXCEPT !.picked = picked]))
    BY <1>9 DEF OnHandleClick
  <2> QED
    BY <2>1, StaysPut, PickSpeaks, GestureMoves
<1>10. CASE OnListCheck
  <2>1. PICK picked : Gesture(PushDraftState([hook EXCEPT !.picked = picked]))
    BY <1>10 DEF OnListCheck
  <2> QED
    BY <2>1, StaysPut, PickSpeaks, GestureMoves
<1>11. CASE StartBox
  BY <1>11, PolishGoes, GestureMoves DEF StartBox
<1>12. CASE FinishBox
  <2>1. PICK inside : Ends(PushDraftState([hook EXCEPT !.box = FALSE, !.picked = inside]))
    BY <1>12 DEF FinishBox
  <2> DEFINE x == [hook EXCEPT !.box = FALSE, !.picked = inside]
  <2>2. Goes(hook, x)
    BY PolishGoes
  <2> HIDE DEF x
  <2>3. Goes(hook, PushDraftState(x))
    BY <2>2, PushSpeaks, GoesOn DEF Goes, Drafts
  <2> QED
    BY <2>1, <2>3, GestureMoves DEF x
<1>13. CASE DeleteSelected
  BY <1>13, <1>b, GestureMoves DEF DeleteSelected
<1>14. CASE TogglePointList
  <2> DEFINE s == IF hook.pointsOpen THEN hook ELSE SetMode(hook, "edit")
  <2>1. PICK v : Gesture([s EXCEPT !.pointsOpen = v])
    BY <1>14 DEF TogglePointList
  <2>2. Goes(hook, s)
    BY ModeGoes, StaysPut
  <2> HIDE DEF s
  <2>3. Goes(s, [s EXCEPT !.pointsOpen = v])
    BY <2>2, PolishGoes DEF Goes, Drafts
  <2> QED
    BY <2>1, <2>2, <2>3, GoesOn, GestureMoves
<1>15. CASE AddMidpoint
  <2>1. PICK after : Gesture(PushDraftState([Commit(hook, here, after) EXCEPT !.picked = {1}]))
    BY <1>15 DEF AddMidpoint
  <2>2. Goes(hook, Commit(hook, here, after))
    BY <1>0, CommitGoes
  <2> QED
    BY <2>1, <2>2, PickSpeaks, GestureMoves
<1>16. CASE Undo
  BY <1>16, UndoSpeaks, GestureMoves DEF Undo
<1>17. CASE Redo
  BY <1>17, RedoSpeaks, GestureMoves DEF Redo
<1>18. CASE FollowStreets
  <2>1. PICK r, v, from, to :
           Gesture(Send([hook EXCEPT !.followPending = v],
                        [type |-> "follow",
                         run |-> [position |-> here, start |-> r[1], end |-> r[2]],
                         from |-> from, to |-> to]))
    BY <1>18 DEF FollowStreets
  <2> DEFINE x == [hook EXCEPT !.followPending = v]
             m == [type |-> "follow",
                   run |-> [position |-> here, start |-> r[1], end |-> r[2]],
                   from |-> from, to |-> to]
  <2>2. Goes(hook, x)
    BY PolishGoes
  <2>3. Message(m) /\ m.type # "draft_state"
    BY <1>0 DEF Message, Located
  <2>4. Gesture(Send(x, m))
    BY <2>1
  <2> HIDE DEF x, m
  <2>5. Goes(x, Send(x, m))
    BY <2>2, <2>3, SendGoes DEF Goes, Drafts
  <2> QED
    BY <2>2, <2>4, <2>5, GoesOn, GestureMoves
<1>19. CASE DrawManual
  <2>1. PICK p \in Positions :
           Gesture(SetMode(Select(ApplyOp(hook, p, <<>>, "set", TRUE), p), "edit"))
    BY <1>19 DEF DrawManual
  <2> DEFINE x == ApplyOp(hook, p, <<>>, "set", TRUE)
             y == Select(x, p)
             z == SetMode(y, "edit")
  <2>2. Speaks(hook, x)
    <3>1. "set" # "none"
      OBVIOUS
    <3> QED
      BY <3>1, ApplySpeaks
  <2>3. Gesture(z)
    BY <2>1
  <2> HIDE DEF x
  <2>4. Speaks(hook, y)
    BY <2>2, SelectGoes, GoesOn DEF Speaks, Drafts
  <2> HIDE DEF y
  <2>5. Speaks(hook, z)
    BY <2>4, ModeGoes, GoesOn DEF Speaks, Drafts
  <2> HIDE DEF z
  <2> QED
    BY <2>3, <2>5, GoesOn, GestureMoves
<1>20. CASE ClearInterior
  <2>1. PICK p \in Positions : Gesture(Commit(hook, p, <<>>))
    BY <1>20 DEF ClearInterior
  <2> QED
    BY <2>1, CommitGoes, GestureMoves
<1>21. CASE UseShared
  <2>1. PICK p \in Positions : Gesture(ApplyOp(hook, p, Shared[p], "use_shared", FALSE))
    BY <1>21 DEF UseShared
  <2>2. "use_shared" # "none"
    OBVIOUS
  <2>3. Speaks(hook, ApplyOp(hook, p, Shared[p], "use_shared", FALSE))
    BY <2>2, ApplySpeaks
  <2> QED
    BY <2>1, <2>3, GoesOn, GestureMoves
<1>22. CASE RequestSave
  BY <1>22, SaveAsks
<1>23. CASE TileEvent
  <2> DEFINE x == [hook EXCEPT !.errorReported = ~hook.errorReported]
             m == [type |-> IF hook.errorReported THEN "map_ok" ELSE "map_error"]
  <2>1. Do(Send(x, m)) /\ UNCHANGED <<srv, down, connected, drops>>
    BY <1>23 DEF TileEvent
  <2>2. Goes(hook, x)
    BY PolishGoes
  <2>3. Message(m) /\ m.type # "draft_state"
    BY DEF Message, Located
  <2> HIDE DEF x, m
  <2>4. Goes(hook, Send(x, m))
    BY <2>2, <2>3, SendGoes, GoesOn DEF Goes, Drafts
  <2> QED
    BY <2>1, <2>4 DEF Moved
<1> HIDE DEF here, some
<1> QED
  BY <1>1, <1>2, <1>3, <1>4, <1>5, <1>6, <1>7, <1>8, <1>9, <1>10, <1>11, <1>12, <1>13, <1>14,
     <1>15, <1>16, <1>17, <1>18, <1>19, <1>20, <1>21, <1>22, <1>23 DEF UserInHook

-----------------------------------------------------------------------------
(* The state.                                                              *)

Serving(s) ==
    /\ {"mirror", "follow"} \subseteq DOMAIN s
    /\ s.follow # NoFollow => s.follow.position \in Positions

\* The two guards are inductive with what is known of the parts: an idle hook is sound and
\* has nothing left to send, a save is pending only in a hook that has a model, and the
\* connection has held as long as no drop is counted.
PatternIInv ==
    /\ Sound(hook) /\ hook.sent = <<>>
    /\ hook.savePending => hook.alive /\ hook.loaded
    /\ Mail(up) /\ Mail(down) /\ Serving(srv)
    /\ drops \in Nat /\ (drops = 0 => connected)
    /\ GuardKnowsDrafts /\ SaveWillSettle

LEMMA Idle ==
    ASSUME NEW h, Sound(h)
    PROVE  /\ Sound([h EXCEPT !.sent = <<>>]) /\ [h EXCEPT !.sent = <<>>].sent = <<>>
           /\ DirtyPositions([h EXCEPT !.sent = <<>>]) = DirtyPositions(h)
           /\ Held(h, [h EXCEPT !.sent = <<>>])
<1> DEFINE o == [h EXCEPT !.sent = <<>>]
<1>1. Writes(h, o, {"sent"}) /\ o.sent = <<>>
  BY DEF Writes, HookFields, Sound
<1> HIDE DEF o
<1>2. /\ HookFields \subseteq DOMAIN o /\ o.model = h.model /\ o.drafts = h.drafts
      /\ o.undo = h.undo /\ o.redo = h.redo /\ o.selected = h.selected /\ Held(h, o)
  BY <1>1 DEF Writes, HookFields, Held
<1>3. Mail(<<>>)
  BY NoneYet DEF Mail
<1>4. Sound(o) /\ DirtyPositions(o) = DirtyPositions(h)
  BY <1>1, <1>2, <1>3, SameDrafts DEF Sound
<1> QED
  BY <1>1, <1>2, <1>4 DEF o

\* A queue with more behind it, and a queue whose head is taken.
LEMMA ComesStill ==
    ASSUME NEW q, NEW r, IsSeq(q), IsSeq(r), NEW types
    PROVE  Coming(q \o r, types) <=> Coming(q, types) \/ Coming(r, types)
<1>1. /\ IsSeq(q \o r) /\ Len(q) \in Nat /\ Len(r) \in Nat
      /\ Len(q \o r) = Len(q) + Len(r)
      /\ \A i \in 1 .. Len(q) : (q \o r)[i] = q[i]
      /\ \A i \in 1 .. Len(r) : (q \o r)[Len(q) + i] = r[i]
      /\ \A i \in 1 .. Len(q) + Len(r) : i > Len(q) => (q \o r)[i] = r[i - Len(q)]
  BY Concatenated
<1> DEFINE c == q \o r
<1> HIDE DEF c
<1>2. ASSUME NEW i \in 1 .. Len(q), q[i].type \in types PROVE Coming(q \o r, types)
  <2>1. i \in 1 .. Len(q \o r)
    BY <1>1
  <2> QED
    BY <1>1, <1>2, <2>1, Zenon DEF Coming
<1>3. ASSUME NEW i \in 1 .. Len(r), r[i].type \in types PROVE Coming(q \o r, types)
  <2>1. Len(q) + i \in 1 .. Len(q \o r)
    BY <1>1
  <2> QED
    BY <1>1, <1>3, <2>1, Zenon DEF Coming
<1>4. ASSUME NEW i \in 1 .. Len(q) + Len(r), (q \o r)[i].type \in types
      PROVE  Coming(q, types) \/ Coming(r, types)
  <2>1. CASE i \in 1 .. Len(q)
    BY <1>1, <1>4, <2>1, Zenon DEF Coming
  <2>2. CASE i > Len(q)
    <3>1. i - Len(q) \in 1 .. Len(r)
      BY <1>1, <2>2
    <3> QED
      BY <1>1, <1>4, <2>2, <3>1, Zenon DEF Coming
  <2> QED
    BY <1>1, <2>1, <2>2
<1> QED
  BY <1>1, <1>2, <1>3, <1>4 DEF Coming

LEMMA ComesBehind ==
    ASSUME NEW q, IsSeq(q), q # <<>>, NEW types
    PROVE  Coming(q, types) <=> Head(q).type \in types \/ Coming(Tail(q), types)
<1>1. /\ Len(q) \in Nat /\ Len(q) >= 1 /\ Head(q) = q[1] /\ Len(Tail(q)) = Len(q) - 1
      /\ \A i \in 1 .. Len(q) - 1 : Tail(q)[i] = q[i + 1]
  BY OneLess
<1> DEFINE t == Tail(q)
<1> HIDE DEF t
<1>2. ASSUME NEW i \in 1 .. Len(q), q[i].type \in types, i # 1 PROVE Coming(Tail(q), types)
  <2>1. i - 1 \in 1 .. Len(Tail(q)) /\ (i - 1) + 1 = i /\ i - 1 \in 1 .. Len(q) - 1
    BY <1>1, <1>2
  <2> QED
    BY <1>1, <1>2, <2>1, Zenon DEF Coming
<1>3. ASSUME NEW i \in 1 .. Len(q) - 1, Tail(q)[i].type \in types PROVE Coming(q, types)
  <2>1. i + 1 \in 1 .. Len(q)
    BY <1>1
  <2> QED
    BY <1>1, <1>3, <2>1, Zenon DEF Coming
<1>4. 1 \in 1 .. Len(q)
  BY <1>1
<1> QED
  BY <1>1, <1>2, <1>3, <1>4 DEF Coming

LEMMA MailBehind ==
    ASSUME NEW q, Mail(q), q # <<>>
    PROVE  Mail(Tail(q)) /\ Message(Head(q))
<1>1. /\ IsSeq(Tail(q)) /\ Len(q) \in Nat /\ Len(q) >= 1 /\ Head(q) = q[1]
      /\ Len(Tail(q)) = Len(q) - 1 /\ \A i \in 1 .. Len(q) - 1 : Tail(q)[i] = q[i + 1]
  BY OneLess DEF Mail
<1>2. 1 \in 1 .. Len(q) /\ \A i \in 1 .. Len(q) - 1 : i + 1 \in 1 .. Len(q)
  BY <1>1
<1> QED
  BY <1>1, <1>2 DEF Mail

LEMMA MailMore ==
    ASSUME NEW q, NEW r, Mail(q), Mail(r)
    PROVE  Mail(q \o r)
<1>1. /\ IsSeq(q \o r) /\ Len(q) \in Nat /\ Len(r) \in Nat
      /\ Len(q \o r) = Len(q) + Len(r)
      /\ \A i \in 1 .. Len(q) : (q \o r)[i] = q[i]
      /\ \A i \in 1 .. Len(q) + Len(r) : i > Len(q) => (q \o r)[i] = r[i - Len(q)]
  BY Concatenated DEF Mail
<1>2. ASSUME NEW i \in 1 .. Len(q) + Len(r) PROVE Message((q \o r)[i])
  <2>1. CASE i \in 1 .. Len(q)
    BY <1>1, <2>1, Zenon DEF Mail
  <2>2. CASE i > Len(q)
    <3>1. i - Len(q) \in 1 .. Len(r)
      BY <1>1, <2>2
    <3> QED
      BY <1>1, <2>2, <3>1, Zenon DEF Mail
  <2> QED
    BY <1>1, <2>1, <2>2
<1> QED
  BY <1>1, <1>2 DEF Mail

LEMMA MailOne ==
    ASSUME NEW m, Message(m)
    PROVE  Mail(<<m>>) /\ \A types : Coming(<<m>>, types) <=> m.type \in types
BY Alone DEF Mail, Coming

LEMMA MailNone ==
    Mail(<<>>) /\ \A types : ~Coming(<<>>, types)
BY NoneYet DEF Mail, Coming

\* The head of the queue is read.
LEMMA KnowsBehind ==
    ASSUME NEW q, IsSeq(q), q # <<>>, NEW mirror, NEW dirty, Knows(q, mirror, dirty), NEW read,
           read = IF Head(q).type = "draft_state" THEN Head(q).dirty ELSE mirror
    PROVE  Knows(Tail(q), read, dirty)
<1>1. /\ Len(q) \in Nat /\ Len(q) >= 1 /\ Head(q) = q[1] /\ Len(Tail(q)) = Len(q) - 1
      /\ \A i \in 1 .. Len(q) - 1 : Tail(q)[i] = q[i + 1]
  BY OneLess
<1> DEFINE t == Tail(q)
<1>2. t = Tail(q)
  OBVIOUS
<1> HIDE DEF t
<1>3. CASE dirty \subseteq mirror /\ ~Coming(q, {"draft_state"})
  <2>1. Head(q).type # "draft_state" /\ ~Coming(t, {"draft_state"})
    BY <1>2, <1>3, ComesBehind
  <2> QED
    BY <1>2, <1>3, <2>1 DEF Knows
<1>4. ASSUME NEW i \in 1 .. Len(q), q[i].type = "draft_state", dirty \subseteq q[i].dirty,
             \A j \in i + 1 .. Len(q) : q[j].type # "draft_state"
      PROVE  Knows(t, read, dirty)
  <2>1. ASSUME NEW j \in i .. Len(t), j >= 1 PROVE t[j].type # "draft_state"
    <3>1. j + 1 \in i + 1 .. Len(q) /\ j \in 1 .. Len(q) - 1
      BY <1>1, <1>2, <2>1
    <3> QED
      BY <1>1, <1>2, <1>4, <3>1, Zenon
  <2>2. CASE i = 1
    <3>1. ~Coming(t, {"draft_state"})
      BY <2>1, <2>2 DEF Coming
    <3>2. read = q[1].dirty
      BY <1>1, <1>4, <2>2
    <3> QED
      BY <1>4, <2>2, <3>1, <3>2 DEF Knows
  <2>3. CASE i # 1
    <3> DEFINE k == i - 1
    <3>1. k \in 1 .. Len(t) /\ k \in 1 .. Len(q) - 1 /\ k + 1 = i
      BY <1>1, <1>2, <2>3
    <3>2. t[k] = q[i]
      BY <1>1, <1>2, <3>1, Zenon
    <3>3. \A j \in k + 1 .. Len(t) : t[j].type # "draft_state"
      <4>1. \A j \in k + 1 .. Len(t) : j \in i .. Len(t) /\ j >= 1
        BY <1>1, <1>2, <2>3
      <4> QED
        BY <2>1, <4>1
    <3> HIDE DEF k
    <3> QED
      BY <1>4, <3>1, <3>2, <3>3 DEF Knows
  <2> QED
    BY <2>2, <2>3
<1> QED
  BY <1>2, <1>3, <1>4 DEF Knows

\* A click comes behind what the hook told.
LEMMA KnowsStill ==
    ASSUME NEW q, Mail(q), NEW mirror, NEW dirty, Knows(q, mirror, dirty), NEW m,
           m.type # "draft_state", Message(m)
    PROVE  Knows(Append(q, m), mirror, dirty) /\ Mail(Append(q, m))
<1>1. Append(q, m) = Joined(q, m)
  BY DEF Joined
<1>2. Mail(Joined(q, m)) /\ IsSeq(q) /\ IsSeq(Joined(q, m))
  BY JoinsOne DEF Mail
<1>3. /\ Silent(q, Len(q)) => Silent(Joined(q, m), Len(Joined(q, m)))
      /\ \A d : Says(q, Len(q), d) => Says(Joined(q, m), Len(Joined(q, m)), d)
  BY JoinsOne
<1> DEFINE j == Joined(q, m)
<1>4. /\ Mail(j) /\ IsSeq(j) /\ (Silent(q, Len(q)) => Silent(j, Len(j)))
      /\ \A d : Says(q, Len(q), d) => Says(j, Len(j), d)
  BY <1>2, <1>3
<1>5. Append(q, m) = j
  BY <1>1
<1> HIDE DEF j
<1>6. Knows(j, mirror, dirty)
  BY <1>2, <1>4, KnownSaid
<1> QED
  BY <1>4, <1>5, <1>6

-----------------------------------------------------------------------------
(* The steps.                                                              *)

\* A handler of the hook left it as h, and what it sent goes on the channel.
LEMMA DoTells ==
    ASSUME Mail(up), NEW h, Sound(h), Do(h)
    PROVE  /\ Sound(hook') /\ hook'.sent = <<>> /\ Held(h, hook')
           /\ Mail(up')
           /\ Coming(up, {"save"}) => Coming(up', {"save"})
           /\ connected /\ Coming(h.sent, {"save"}) => Coming(up', {"save"})
           /\ \A before, mirror : connected /\ Knows(up, mirror, before) /\ Told(h, before)
                                    => Knows(up', mirror, DirtyPositions(hook'))
<1> DEFINE r == Glued(up, h.sent)
<1>1. hook' = [h EXCEPT !.sent = <<>>] /\ up' = IF connected THEN r ELSE up
  BY DEF Do
<1>2. /\ Sound(hook') /\ hook'.sent = <<>> /\ Held(h, hook')
      /\ DirtyPositions(hook') = DirtyPositions(h)
  BY <1>1, Idle
<1>3. Mail(h.sent)
  BY DEF Sound
<1>4. Carries(r, Len(h.sent), up, h.sent)
  BY <1>3, GluedCarries
<1>5. \A before, mirror : Knows(up, mirror, before) /\ Told(h, before)
                            => Knows(r, mirror, DirtyPositions(h))
  BY <1>3, GluedTells DEF Told
<1> HIDE DEF r
<1> QED
  BY <1>1, <1>2, <1>4, <1>5 DEF Carries, Coming

\* A gesture.
LEMMA MovedKeeps ==
    ASSUME PatternIInv, Moved
    PROVE  PatternIInv'
<1>1. PICK h : /\ Do(h) /\ UNCHANGED <<srv, down, connected, drops>>
               /\ Goes(hook, h) \/ Asks(hook, h)
  BY DEF Moved
<1>2. /\ Sound(h) /\ Told(h, DirtyPositions(hook)) /\ h.alive = hook.alive /\ h.loaded = hook.loaded
      /\ h.savePending = hook.savePending \/ (Coming(h.sent, {"save"}) /\ h.alive /\ h.loaded)
  BY <1>1, NothingToTell DEF Goes, Drafts, Held, Asks, PatternIInv
<1>3. /\ Sound(hook') /\ hook'.sent = <<>> /\ Held(h, hook') /\ Mail(up')
      /\ Coming(up, {"save"}) => Coming(up', {"save"})
      /\ connected /\ Coming(h.sent, {"save"}) => Coming(up', {"save"})
      /\ connected /\ Knows(up, srv.mirror, DirtyPositions(hook))
           => Knows(up', srv.mirror, DirtyPositions(hook'))
  BY <1>1, <1>2, DoTells DEF PatternIInv
<1>4. GuardKnowsDrafts'
  BY <1>1, <1>2, <1>3 DEF GuardKnowsDrafts, PatternIInv, Held
<1>5. SaveWillSettle'
  BY <1>1, <1>2, <1>3 DEF SaveWillSettle, PatternIInv, Held
<1>6. hook'.savePending => hook'.alive /\ hook'.loaded
  BY <1>2, <1>3 DEF Held, PatternIInv
<1> QED
  BY <1>1, <1>3, <1>4, <1>5, <1>6 DEF PatternIInv

\* The hook takes an event.
LEMMA ReceiveKeeps ==
    ASSUME PatternIInv, Receive
    PROVE  PatternIInv'
<1> DEFINE m == Head(down)
<1>1. /\ down # <<>> /\ down' = Tail(down) /\ UNCHANGED <<srv, connected, drops>>
  BY DEF Receive
<1>2. Mail(down') /\ Message(m)
  BY <1>1, MailBehind DEF PatternIInv
<1>3. \A types : Coming(down, types) <=> m.type \in types \/ Coming(down', types)
  BY <1>1, ComesBehind DEF PatternIInv, Mail
<1>4. CASE ~hook.alive
  <2>1. UNCHANGED <<hook, up>>
    BY <1>4 DEF Receive
  <2> QED
    BY <1>1, <1>2, <1>4, <2>1 DEF PatternIInv, GuardKnowsDrafts, SaveWillSettle
<1>5. CASE hook.alive
  <2>1. PICK h \in Handled(m) : Do(h)
    BY <1>5 DEF Receive
  <2>2. Took(m, hook, h)
    BY <1>2, <1>5, <2>1, HandledTook DEF PatternIInv
  <2> HIDE DEF m
  <2>3. /\ Sound(hook') /\ hook'.sent = <<>> /\ Held(h, hook') /\ Mail(up')
        /\ Coming(up, {"save"}) => Coming(up', {"save"})
        /\ \A before : connected /\ Knows(up, srv.mirror, before) /\ Told(h, before)
                         => Knows(up', srv.mirror, DirtyPositions(hook'))
    BY <2>1, <2>2, DoTells DEF PatternIInv, Took
  <2>4. GuardKnowsDrafts'
    <3> SUFFICES ASSUME connected, h.alive, ~Coming(down', {"load", "leave"})
                 PROVE  Knows(up', srv.mirror, DirtyPositions(hook'))
      BY <1>1, <2>3 DEF GuardKnowsDrafts, Held
    <3>1. CASE m.type = "load"
      <4>1. Knows(up, srv.mirror, {}) /\ Told(h, {})
        BY <2>2, <3>1, NothingIsKnown DEF Took, PatternIInv, Mail
      <4> QED
        BY <2>3, <4>1
    <3>2. CASE m.type # "load"
      <4>1. m.type # "leave" /\ Told(h, DirtyPositions(hook))
        BY <2>2, <3>2 DEF Took
      <4>2. ~Coming(down, {"load", "leave"})
        BY <1>3, <3>2, <4>1
      <4>3. Knows(up, srv.mirror, DirtyPositions(hook))
        BY <1>5, <4>2 DEF PatternIInv, GuardKnowsDrafts
      <4> QED
        BY <2>3, <4>1, <4>3
    <3> QED
      BY <3>1, <3>2
  <2>5. SaveWillSettle'
    <3> SUFFICES ASSUME h.savePending, drops = 0
                 PROVE  Coming(up', {"save"}) \/ Coming(down', Releases \cup {"leave"})
      BY <1>1, <2>3 DEF SaveWillSettle, Held
    <3>1. hook.savePending /\ m.type \notin Releases \cup {"leave"}
      BY <2>2 DEF Took
    <3> QED
      BY <1>3, <2>3, <3>1 DEF PatternIInv, SaveWillSettle
  <2>6. hook'.savePending => hook'.alive /\ hook'.loaded
    BY <2>2, <2>3 DEF Took, Held
  <2> QED
    BY <1>1, <1>2, <2>3, <2>4, <2>5, <2>6 DEF PatternIInv
<1> QED
  BY <1>4, <1>5

\* What an answer of the process must come to.
Answers(m, s, pushed) ==
    /\ Serving(s) /\ Mail(pushed)
    /\ \/ Coming(pushed, {"load", "leave"})
       \/ s.mirror = IF m.type = "draft_state" THEN m.dirty ELSE srv.mirror
    /\ m.type = "save" => Coming(pushed, Releases)

LEMMA AnswerKeeps ==
    ASSUME PatternIInv, up # <<>>, NEW s, NEW pushed, Answers(Head(up), s, pushed),
           Answer(s, pushed)
    PROVE  PatternIInv'
<1> DEFINE m == Head(up)
<1>1. /\ srv' = s /\ up' = Tail(up) /\ down' = down \o pushed
      /\ UNCHANGED <<hook, connected, drops>>
  BY DEF Answer
<1>2. Mail(up') /\ Mail(down') /\ Serving(srv')
  BY <1>1, MailBehind, MailMore DEF PatternIInv, Answers
<1>3. \A types : /\ Coming(up, types) <=> m.type \in types \/ Coming(up', types)
                 /\ Coming(down', types) <=> Coming(down, types) \/ Coming(pushed, types)
  BY <1>1, ComesBehind, ComesStill DEF PatternIInv, Answers, Mail
<1>4. GuardKnowsDrafts'
  <2> SUFFICES ASSUME connected, hook.alive, ~Coming(down', {"load", "leave"})
               PROVE  Knows(up', srv'.mirror, DirtyPositions(hook))
    BY <1>1 DEF GuardKnowsDrafts
  <2>1. ~Coming(down, {"load", "leave"}) /\ ~Coming(pushed, {"load", "leave"})
    BY <1>3
  <2>2. Knows(up, srv.mirror, DirtyPositions(hook))
    BY <2>1 DEF PatternIInv, GuardKnowsDrafts
  <2>3. srv'.mirror = IF m.type = "draft_state" THEN m.dirty ELSE srv.mirror
    BY <1>1, <2>1 DEF Answers
  <2> QED
    BY <1>1, <2>2, <2>3, KnowsBehind DEF PatternIInv, Mail
<1>5. SaveWillSettle'
  <2> SUFFICES ASSUME hook.savePending, drops = 0
               PROVE  Coming(up', {"save"}) \/ Coming(down', Releases \cup {"leave"})
    BY <1>1 DEF SaveWillSettle
  <2>1. Coming(up, {"save"}) \/ Coming(down, Releases \cup {"leave"})
    BY DEF PatternIInv, SaveWillSettle
  <2>2. CASE m.type = "save"
    <3>1. Coming(pushed, Releases \cup {"leave"})
      BY <2>2 DEF Answers, Coming
    <3> QED
      BY <1>3, <3>1
  <2>3. CASE m.type # "save"
    BY <1>3, <2>1, <2>3
  <2> QED
    BY <2>2, <2>3
<1> QED
  BY <1>1, <1>2, <1>4, <1>5 DEF PatternIInv

\* The answers that leave the mirror alone, and push nothing or one event.
LEMMA Silently ==
    ASSUME PatternIInv, up # <<>>, Head(up).type \notin {"draft_state", "save"}, NEW s, Serving(s),
           s.mirror = srv.mirror, Answer(s, <<>>)
    PROVE  PatternIInv'
BY MailNone, AnswerKeeps DEF Answers

LEMMA Quietly ==
    ASSUME PatternIInv, up # <<>>, Head(up).type # "draft_state", NEW s, Serving(s),
           s.mirror = srv.mirror, NEW m, Message(m), Head(up).type = "save" => m.type \in Releases,
           Answer(s, <<m>>)
    PROVE  PatternIInv'
<1>1. Answers(Head(up), s, <<m>>)
  BY MailOne DEF Answers
<1> QED
  BY <1>1, AnswerKeeps

LEMMA SettledIsMail ==
    /\ Settled = <<[type |-> "save_settled"]>> /\ Message([type |-> "save_settled"])
    /\ [type |-> "save_settled"].type \in Releases
BY DEF Settled, Message, Located, Releases

\* A fresh model drops the drafts, whatever the process knew of them.
LEMMA LoadKeeps ==
    ASSUME PatternIInv, up # <<>>, NEW s, Serving(s), NEW model, NEW bulk,
           Answer(s, Load(model, bulk))
    PROVE  PatternIInv'
<1> DEFINE m == [type |-> "load", model |-> model, bulk |-> bulk]
<1>1. Load(model, bulk) = <<m>> /\ Message(m) /\ m.type = "load"
  BY DEF Load, Message, Located
<1> HIDE DEF m
<1>2. Answers(Head(up), s, <<m>>)
  BY <1>1, MailOne DEF Answers, Releases
<1> QED
  BY <1>1, <1>2, AnswerKeeps

\* The assigns of the process one field at a time.
LEMMA AssignsServe ==
    ASSUME Serving(srv), NEW v
    PROVE  /\ Serving([srv EXCEPT !.pending = v]) /\ [srv EXCEPT !.pending = v].mirror = srv.mirror
           /\ Serving([srv EXCEPT !.generating = v]) /\ [srv EXCEPT !.generating = v].mirror = srv.mirror
           /\ Serving([srv EXCEPT !.bulk = v]) /\ [srv EXCEPT !.bulk = v].mirror = srv.mirror
           /\ Serving([srv EXCEPT !.fit = v]) /\ [srv EXCEPT !.fit = v].mirror = srv.mirror
           /\ Serving([srv EXCEPT !.mapError = v]) /\ [srv EXCEPT !.mapError = v].mirror = srv.mirror
           /\ Serving([srv EXCEPT !.mirror = v]) /\ [srv EXCEPT !.mirror = v].mirror = v
           /\ v.position \in Positions => Serving([srv EXCEPT !.follow = v])
           /\ Serving([srv EXCEPT !.follow = NoFollow])
           /\ [srv EXCEPT !.follow = v].mirror = srv.mirror
BY DEF Serving

LEMMA SaveKeeps ==
    ASSUME PatternIInv, up # <<>>, Head(up).type # "draft_state", NEW draft, ApplySave(draft)
    PROVE  PatternIInv'
<1>1. ASSUME NEW v, Answer([srv EXCEPT !.pending = v], Settled) PROVE PatternIInv'
  BY <1>1, AssignsServe, Quietly, SettledIsMail DEF PatternIInv
<1>2. ASSUME NEW model, Answer([srv EXCEPT !.pending = NoPending, !.mirror = {}, !.model = model],
                               Load(model, NoParts))
      PROVE  PatternIInv'
  <2>1. Serving([srv EXCEPT !.pending = NoPending, !.mirror = {}, !.model = model])
    BY DEF Serving, PatternIInv
  <2> QED
    BY <1>2, <2>1, LoadKeeps
<1> QED
  BY <1>1, <1>2 DEF ApplySave

LEMMA PlainKeeps ==
    ASSUME PatternIInv, up # <<>>, Plain(Head(up)),
           Head(up).type \notin {"save", "confirm_save", "keep_local", "reload", "generate", "follow"}
    PROVE  PatternIInv'
<1> DEFINE m == Head(up)
<1>1. Serving(srv) /\ Message(m)
  BY MailBehind DEF PatternIInv
<1>2. \A p : /\ Message([type |-> "file_draft", position |-> 0])
             /\ Message([type |-> "leave", position |-> 0])
             /\ p \in Positions => Message([type |-> "select", position |-> p])
  BY DEF Message, Located
<1>3. CASE m.type = "ready" \/ m.type = "discard"
  BY <1>1, <1>3, LoadKeeps DEF Plain
<1>4. CASE m.type = "draft_state"
  <2>1. Answer([srv EXCEPT !.mirror = m.dirty], <<>>)
    BY <1>4 DEF Plain
  <2>2. Answers(m, [srv EXCEPT !.mirror = m.dirty], <<>>)
    BY <1>1, <1>4, AssignsServe, MailNone DEF Answers
  <2> QED
    BY <2>1, <2>2, AnswerKeeps
<1>5. CASE m.type \in {"applied", "fit_result", "map_error", "map_ok", "cancel_generation"}
  <2>1. ASSUME NEW s, Answer(s, <<>>), Serving(s), s.mirror = srv.mirror PROVE PatternIInv'
    BY <1>5, <2>1, Silently
  <2>2. CASE m.type = "applied"
    BY <1>1, <2>1, <2>2, AssignsServe DEF Plain
  <2>3. CASE m.type = "fit_result"
    BY <1>1, <2>1, <2>3, AssignsServe DEF Plain
  <2>4. CASE m.type = "map_error" \/ m.type = "map_ok"
    BY <1>1, <2>1, <2>4, AssignsServe DEF Plain
  <2>5. CASE m.type = "cancel_generation"
    BY <1>1, <2>1, <2>5, AssignsServe DEF Plain
  <2> QED
    BY <1>5, <2>2, <2>3, <2>4, <2>5
<1>6. CASE m.type = "cancel_save"
  <2>1. Answer([srv EXCEPT !.pending = NoPending], Settled)
    BY <1>6 DEF Plain
  <2> QED
    BY <1>1, <1>6, <2>1, AssignsServe, Quietly, SettledIsMail
<1>7. CASE m.type = "select_section"
  <2>1. Answer(srv, <<[type |-> "select", position |-> m.position]>>)
    BY <1>7 DEF Plain, Push
  <2>2. Message([type |-> "select", position |-> m.position])
    BY <1>1, <1>2, <1>7 DEF Message, Located
  <2> QED
    BY <1>1, <1>7, <2>1, <2>2, Quietly
<1>8. CASE m.type = "file_draft" \/ m.type = "leave"
  <2>1. \/ Answer(srv, <<>>)
        \/ Answer(srv, <<[type |-> "file_draft", position |-> 0]>>)
        \/ Answer(srv, <<[type |-> "leave", position |-> 0]>>)
    BY <1>8 DEF Plain, Push
  <2> QED
    BY <1>1, <1>2, <1>8, <2>1, Quietly, Silently
<1>9. CASE m.type \notin {"ready", "discard", "draft_state", "applied", "fit_result", "map_error",
                          "map_ok", "cancel_generation", "cancel_save", "select_section",
                          "file_draft", "leave"}
  <2>1. Answer(srv, <<m>>)
    BY <1>9 DEF Plain
  <2> QED
    BY <1>1, <1>9, <2>1, Quietly
<1> QED
  BY <1>3, <1>4, <1>5, <1>6, <1>7, <1>8, <1>9

LEMMA ServeKeeps ==
    ASSUME PatternIInv, Serve
    PROVE  PatternIInv'
<1> DEFINE m == Head(up)
<1>1. up # <<>>
  BY DEF Serve
<1>2. Serving(srv) /\ Message(m)
  BY <1>1, MailBehind DEF PatternIInv
<1>3. CASE m.type = "save"
  <2>1. SaveRequested(m)
    BY <1>3 DEF Serve
  <2>2. ASSUME NEW s, Serving(s), s.mirror = srv.mirror, Answer(s, Settled) PROVE PatternIInv'
    BY <1>1, <1>3, <2>2, Quietly, SettledIsMail
  <2>3. ASSUME ApplySave(m.draft) PROVE PatternIInv'
    BY <1>1, <1>3, <2>3, SaveKeeps
  <2> QED
    BY <1>2, <2>1, <2>2, <2>3, AssignsServe DEF SaveRequested
<1>4. CASE m.type = "confirm_save"
  <2>1. ConfirmSave
    BY <1>4 DEF Serve
  <2>2. ASSUME Answer(srv, Settled) PROVE PatternIInv'
    BY <1>1, <1>2, <1>4, <2>2, Quietly, SettledIsMail
  <2>3. ASSUME ApplySave(srv.pending.draft) PROVE PatternIInv'
    BY <1>1, <1>4, <2>3, SaveKeeps
  <2> QED
    BY <2>1, <2>2, <2>3 DEF ConfirmSave
<1>5. CASE m.type = "keep_local"
  <2>1. KeepLocal
    BY <1>5 DEF Serve
  <2>2. ASSUME Answer(srv, Settled) PROVE PatternIInv'
    BY <1>1, <1>2, <1>5, <2>2, Quietly, SettledIsMail
  <2>3. ASSUME NEW bases,
               Answer([srv EXCEPT !.pending = NoPending], <<[type |-> "rebase", bases |-> bases]>>)
        PROVE  PatternIInv'
    <3>1. Message([type |-> "rebase", bases |-> bases])
      BY DEF Message, Located
    <3> QED
      BY <1>1, <1>2, <1>5, <2>3, <3>1, AssignsServe, Quietly
  <2> QED
    BY <2>1, <2>2, <2>3 DEF KeepLocal
<1>6. CASE m.type = "reload"
  <2>1. Answer([srv EXCEPT !.pending = NoPending, !.model = db], Load(db, NoParts))
    BY <1>6 DEF Serve, ReloadModel
  <2>2. Serving([srv EXCEPT !.pending = NoPending, !.model = db])
    BY <1>2 DEF Serving
  <2> QED
    BY <1>1, <2>1, <2>2, LoadKeeps
<1>7. CASE m.type = "generate"
  <2>1. PICK v : Answer([srv EXCEPT !.generating = v], <<>>)
    BY <1>7 DEF Serve, Generate
  <2> QED
    BY <1>1, <1>2, <1>7, <2>1, AssignsServe, Silently
<1>8. CASE m.type = "follow"
  <2> DEFINE v == [position |-> m.run.position, start |-> m.run.start,
                   end |-> m.run.end, from |-> m.from, to |-> m.to]
  <2>1. Answer(srv, <<>>) \/ Answer([srv EXCEPT !.follow = v], <<>>)
    BY <1>8 DEF Serve, StartFollow
  <2>2. v.position \in Positions
    BY <1>2, <1>8 DEF Message
  <2> HIDE DEF v
  <2>3. Serving([srv EXCEPT !.follow = v]) /\ [srv EXCEPT !.follow = v].mirror = srv.mirror
    BY <1>2, <2>2, AssignsServe
  <2>4. ASSUME NEW s, Answer(s, <<>>), Serving(s), s.mirror = srv.mirror PROVE PatternIInv'
    BY <1>1, <1>8, <2>4, Silently
  <2> QED
    BY <1>2, <2>1, <2>3, <2>4
<1>9. CASE m.type \notin {"save", "confirm_save", "keep_local", "reload", "generate", "follow"}
  <2>1. Plain(m)
    BY <1>9 DEF Serve
  <2> QED
    BY <1>1, <1>9, <2>1, PlainKeeps
<1> QED
  BY <1>3, <1>4, <1>5, <1>6, <1>7, <1>8, <1>9

\* The router answers.
LEMMA ResultKeeps ==
    ASSUME PatternIInv, GenerationResult \/ FollowResult
    PROVE  PatternIInv'
<1>1. UNCHANGED <<hook, up, connected, drops>>
  BY DEF GenerationResult, FollowResult
<1>2. Serving(srv') /\ srv'.mirror = srv.mirror
  BY AssignsServe DEF GenerationResult, FollowResult, PatternIInv
<1>3. down' = down \/ \E m : down' = Append(down, m) /\ Message(m)
  <2>1. CASE GenerationResult
    <3>1. down' = down \/ \E found : down' = Append(down, [type |-> "suggestions", parts |-> found])
      BY <2>1 DEF GenerationResult
    <3>2. \A found : Message([type |-> "suggestions", parts |-> found])
      BY DEF Message, Located
    <3> QED
      BY <3>1, <3>2
  <2>2. CASE FollowResult
    <3>1. \/ down' = down
          \/ \E points : down' = Append(down,
                [type |-> "follow_result", position |-> srv.follow.position,
                 start |-> srv.follow.start, end |-> srv.follow.end, points |-> points,
                 from |-> srv.follow.from, to |-> srv.follow.to])
      BY <2>2 DEF FollowResult
    <3>2. srv.follow.position \in Positions
      BY <2>2 DEF FollowResult, PatternIInv, Serving
    <3> DEFINE result(points) ==
                [type |-> "follow_result", position |-> srv.follow.position,
                 start |-> srv.follow.start, end |-> srv.follow.end, points |-> points,
                 from |-> srv.follow.from, to |-> srv.follow.to]
    <3>3. \A points : Message(result(points))
      BY <3>2 DEF Message, Located
    <3>4. down' = down \/ \E points : down' = Append(down, result(points))
      BY <3>1
    <3> HIDE DEF result
    <3> QED
      BY <3>3, <3>4
  <2> QED
    BY <2>1, <2>2
<1>4. Mail(down') /\ \A types : Coming(down, types) => Coming(down', types)
  <2>1. CASE down' = down
    BY <2>1 DEF PatternIInv, Coming
  <2>2. ASSUME NEW m, down' = Append(down, m), Message(m)
        PROVE  Mail(down') /\ \A types : Coming(down, types) => Coming(down', types)
    <3>1. PICK S : down \in Seq(S)
      BY DEF PatternIInv, Mail, IsSeq
    <3>2. down \in Seq(S \cup {m}) /\ m \in S \cup {m}
      BY <3>1
    <3>3. down' = down \o <<m>>
      BY <2>2, <3>2
    <3>4. Mail(<<m>>)
      BY <2>2, MailOne
    <3> QED
      BY <3>3, <3>4, MailMore, ComesStill DEF PatternIInv, Mail
  <2> QED
    BY <1>3, <2>1, <2>2
<1> QED
  BY <1>1, <1>2, <1>4 DEF PatternIInv, GuardKnowsDrafts, SaveWillSettle

LEMMA ClickKeeps ==
    ASSUME PatternIInv, NEW m, Message(m), m.type # "draft_state", Click(m)
    PROVE  PatternIInv'
<1>1. up' = Append(up, m) /\ UNCHANGED <<hook, srv, down, connected, drops>>
  BY DEF Click
<1>2. \A dirty : Knows(up, srv.mirror, dirty) => Knows(up', srv.mirror, dirty)
  BY <1>1, KnowsStill DEF PatternIInv
<1>3. Mail(up') /\ (Coming(up, {"save"}) => Coming(up', {"save"}))
  <2>1. Append(up, m) = Joined(up, m)
    BY DEF Joined
  <2> QED
    BY <1>1, <2>1, JoinsOne DEF PatternIInv
<1> QED
  BY <1>1, <1>2, <1>3 DEF PatternIInv, GuardKnowsDrafts, SaveWillSettle

LEMMA ClicksKeep ==
    ASSUME PatternIInv, ClickDialog \/ ClickTool
    PROVE  PatternIInv'
<1>1. ASSUME NEW t, t \notin Located \cup {"draft_state", "follow"}, Click([type |-> t])
      PROVE  PatternIInv'
  <2> DEFINE m == [type |-> t]
  <2>1. Message(m) /\ m.type # "draft_state"
    BY <1>1 DEF Message
  <2>2. Click(m)
    BY <1>1
  <2> HIDE DEF m
  <2> QED
    BY <2>1, <2>2, ClickKeeps
<1>2. ASSUME NEW t \in {"delete_section", "simplify"}, NEW p \in Positions,
             Click([type |-> t, position |-> p])
      PROVE  PatternIInv'
  <2> DEFINE m == [type |-> t, position |-> p]
  <2>1. Message(m) /\ m.type # "draft_state"
    BY DEF Message
  <2>2. Click(m)
    BY <1>2
  <2> HIDE DEF m
  <2> QED
    BY <2>1, <2>2, ClickKeeps
<1>3. CASE ClickDialog
  <2>1. PICK t \in {"confirm_save", "cancel_save", "keep_local", "reload"} : Click([type |-> t])
    BY <1>3 DEF ClickDialog
  <2> QED
    BY <1>1, <2>1 DEF Located
<1>4. CASE ClickTool
  <2>1. \/ \E t \in {"generate", "convert", "file_line", "reverse_file_line", "file_draft",
                     "clear_file_line", "leave", "cancel_generation", "discard", "retry_tiles"} :
              Click([type |-> t])
        \/ \E t \in {"delete_section", "simplify"}, p \in Positions :
              Click([type |-> t, position |-> p])
    BY <1>4 DEF ClickTool
  <2> QED
    BY <1>1, <1>2, <2>1 DEF Located
<1> QED
  BY <1>3, <1>4

\* A new hook drafts nothing.
LEMMA ReturnKeeps ==
    ASSUME PatternIInv, Return
    PROVE  PatternIInv'
<1> DEFINE m == [type |-> "ready"]
           h == Send(NewHook, m)
<1>1. /\ connected /\ Do(h) /\ UNCHANGED <<down, connected, drops>>
      /\ srv' = [NewServer(db, srv.bulk) EXCEPT !.mirror = srv.mirror]
  BY DEF Return
<1>2. Sound(NewHook) /\ ~NewHook.savePending /\ DirtyPositions(NewHook) = {}
  BY NewHookIsSound
<1>3. Message(m)
  BY DEF Message, Located
<1> HIDE DEF m
<1>4. Drafts(NewHook, h) /\ DirtyPositions(h) = {}
  BY <1>2, <1>3, SentOne
<1> HIDE DEF h
<1>5. /\ Sound(hook') /\ hook'.sent = <<>> /\ Held(h, hook') /\ Mail(up')
      /\ DirtyPositions(hook') = {}
  <2>1. hook' = [h EXCEPT !.sent = <<>>]
    BY <1>1 DEF Do
  <2> QED
    BY <1>1, <1>4, <2>1, DoTells, Idle DEF PatternIInv, Drafts
<1>6. ~hook'.savePending
  BY <1>2, <1>4, <1>5 DEF Drafts, Held
<1>7. Serving(srv')
  BY <1>1 DEF Serving, NewServer
<1>8. GuardKnowsDrafts'
  BY <1>5, NothingIsKnown DEF GuardKnowsDrafts, Mail
<1> QED
  BY <1>1, <1>5, <1>6, <1>7, <1>8 DEF PatternIInv, SaveWillSettle

LEMMA DropKeeps ==
    ASSUME PatternIInv, Drop
    PROVE  PatternIInv'
<1>1. /\ drops' = drops + 1 /\ ~connected' /\ up' = <<>> /\ down' = <<>> /\ UNCHANGED hook
      /\ srv' = NewServer(db, NoParts)
  BY DEF Drop
<1>2. Serving(srv')
  BY <1>1 DEF Serving, NewServer
<1>3. drops' \in Nat /\ drops' # 0
  BY <1>1 DEF PatternIInv
<1> QED
  BY <1>1, <1>2, <1>3, MailNone DEF PatternIInv, GuardKnowsDrafts, SaveWillSettle

\* The hook tells the new process what it drafts; a save before the drop is not claimed.
LEMMA ReconnectKeeps ==
    ASSUME PatternIInv, Reconnected
    PROVE  PatternIInv'
<1> DEFINE m == [type |-> "draft_state", dirty |-> DirtyPositions(hook)]
<1>1. /\ ~connected /\ connected' /\ UNCHANGED <<hook, down, drops>>
      /\ srv' = NewServer(db, NoParts)
      /\ up' = IF hook.alive THEN <<m>> ELSE <<>>
  BY DEF Reconnected
<1>2. Serving(srv')
  BY <1>1 DEF Serving, NewServer
<1>3. Message(m) /\ m.type = "draft_state" /\ m.dirty = DirtyPositions(hook)
  BY DEF Message, Located
<1> HIDE DEF m
<1>4. Mail(up')
  BY <1>1, <1>3, MailOne, MailNone
<1>5. Knows(<<m>>, srv'.mirror, DirtyPositions(hook))
  <2>1. Len(<<m>>) = 1 /\ <<m>>[1] = m
    BY Alone
  <2>2. 1 \in 1 .. 1 /\ \A j \in 1 + 1 .. 1 : FALSE
    OBVIOUS
  <2> QED
    BY <1>3, <2>1, <2>2 DEF Knows
<1>6. GuardKnowsDrafts'
  BY <1>1, <1>5 DEF GuardKnowsDrafts
<1>7. drops # 0
  BY <1>1 DEF PatternIInv
<1> QED
  BY <1>1, <1>2, <1>4, <1>6, <1>7 DEF PatternIInv, SaveWillSettle

LEMMA PatternInit ==
    ASSUME Init
    PROVE  PatternIInv
<1> DEFINE m == [type |-> "ready"]
<1>1. hook = NewHook
  BY DEF Init
<1>2. /\ Sound(hook) /\ hook.sent = <<>> /\ ~hook.savePending /\ DirtyPositions(hook) = {}
  BY <1>1, NewHookIsSound
<1>3. Message(m)
  BY DEF Message, Located
<1> HIDE DEF m
<1>4. up = <<m>> /\ down = <<>> /\ connected /\ drops = 0
  BY DEF Init, m
<1>5. Mail(up) /\ Mail(down)
  BY <1>3, <1>4, MailOne, MailNone
<1>6. Serving(srv)
  BY DEF Init, NewServer, Serving
<1>7. GuardKnowsDrafts
  BY <1>2, <1>5, NothingIsKnown DEF GuardKnowsDrafts, Mail
<1> QED
  BY <1>2, <1>4, <1>5, <1>6, <1>7 DEF PatternIInv, SaveWillSettle

LEMMA PatternNext ==
    ASSUME PatternIInv, [Next]_vars
    PROVE  PatternIInv'
<1>1. CASE UserInHook
  BY <1>1, UserMoves, MovedKeeps DEF PatternIInv
<1>2. CASE ClickDialog \/ ClickTool
  BY <1>2, ClicksKeep
<1>3. CASE Serve
  BY <1>3, ServeKeeps
<1>4. CASE GenerationResult \/ FollowResult
  BY <1>4, ResultKeeps
<1>5. CASE Receive
  BY <1>5, ReceiveKeeps
<1>6. CASE Return
  BY <1>6, ReturnKeeps
<1>7. CASE Drop
  BY <1>7, DropKeeps
<1>8. CASE Reconnected
  BY <1>8, ReconnectKeeps
<1>9. CASE OtherSave \/ UNCHANGED vars
  <2>1. UNCHANGED <<hook, srv, up, down, connected, drops>>
    BY <1>9 DEF OtherSave, vars
  <2> QED
    BY <2>1 DEF PatternIInv, GuardKnowsDrafts, SaveWillSettle
<1> QED
  BY <1>1, <1>2, <1>3, <1>4, <1>5, <1>6, <1>7, <1>8, <1>9 DEF Next

\* Whatever the hook drafts, sends and receives, the parts stay sound.
THEOREM PatternInductive == Spec => []PatternIInv
<1> QED
  BY PatternInit, PatternNext, PTL DEF Spec

\* A leave is refused for every draft: the process mirrors it, or is about to read of it before
\* it reads any later click (pushDraftState and handle_event "leave").
THEOREM DraftsAreGuarded == Spec => []GuardKnowsDrafts
<1>1. PatternIInv => GuardKnowsDrafts
  BY DEF PatternIInv
<1> QED
  BY <1>1, PatternInductive, PTL

\* Each of the ways the process takes a save answers it, so that the save button of the hook
\* comes back (handle_event "save", apply_save and settleSave).
THEOREM SavesSettle == Spec => []SaveWillSettle
<1>1. PatternIInv => SaveWillSettle
  BY DEF PatternIInv
<1> QED
  BY <1>1, PatternInductive, PTL

\* Undo and redo walk one chain of every section from its saved points, whatever gestures,
\* routed legs, imports and loads came between (commit, recordOp and applySnapshot).
THEOREM UndosWalkBack == Spec => []UndoWalksBack
<1>1. PatternIInv => UndoWalksBack
  BY DEF PatternIInv, Sound, UndoWalksBack
<1> QED
  BY <1>1, PatternInductive, PTL

=============================================================================
