------------------------ MODULE CatalogSync_proofs -------------------------
(***************************************************************************)
(* Proofs about CatalogSync for all principals, groups, users and bounds.  *)
(***************************************************************************)
EXTENDS CatalogSync, SequenceTheorems, TLAPS

Names == {Principals[i][1] : i \in 1..Len(Principals)}
StepSet == [op : Ops, of : {"none"} \cup Names \cup GroupNames,
            left : SUBSET (Relations \cup Users)]

\* The steps that are left are steps.
TypeInv == TypeOK /\ todo \in Seq(StepSet)

\* What is read and what is left to write has been asked for: a grant is one
\* of the principal's or the group's, a member has been one.
PrincipalSound(s) ==
    \E i \in 1..Len(Principals) :
        s.of = Principals[i][1] /\ s.left \subseteq Principals[i][2]
GroupSound(s) ==
    \E i \in 1..Len(AccessGroups) :
        s.of = AccessGroups[i][1] /\ s.left \subseteq AccessGroups[i][2]
MemberSound(b, s) == s.of \in GroupNames /\ s.left \subseteq Humans(b[s.of])
Sound(b, s) ==
    /\ s.op = "principal" => PrincipalSound(s)
    /\ s.op = "members" => s.of \in GroupNames
    /\ s.op \in {"role", "create", "grant"} => GroupSound(s)
    /\ s.op \in {"assign", "tuple"} => MemberSound(b, s)
ReadSound ==
    \A g \in GroupNames : /\ members[g] \subseteq been[g]
                          /\ Imported[g] \subseteq been[g]
                          /\ read[g] \subseteq Humans(been[g])
StepsSound == \A k \in 1..Len(todo) : Sound(been, todo[k])

\* A pass that is under way is about a warehouse.
ReqGiven == todo # << >> => req \in Warehouses
TypedInv == TypeInv /\ ReadSound /\ StepsSound /\ ReqGiven

\* Grants and members of a role follow the step that found the role, and
\* whatever has the id in hand has the name of the group.
Placed ==
    \A k \in 1..Len(todo) :
        /\ todo[k].op = "grant" => k = 1
        /\ todo[k].op = "assign" =>
              \/ k = 1
              \/ k = 2 /\ todo[1].op = "grant" /\ todo[1].of = todo[2].of
IdsNamed ==
    \A i, j \in 1..Len(roles) :
        roles[i].id = roles[j].id => roles[i].name = roles[j].name
InHand ==
    todo # << >> /\ todo[1].op \in {"grant", "assign"} =>
        \A i \in 1..Len(roles) :
            roles[i].id = roleID => roles[i].name = todo[1].of

AccessInv ==
    /\ TypedInv
    /\ Placed /\ IdsNamed /\ InHand
    /\ OnlyMembersGranted /\ RolesNotMixed

\* Everything that WarehouseReady vouches for is done or is still a step of
\* the pass.
Last(op) == todo # << >> /\ todo[Len(todo)].op = op
Ordered ==
    /\ \A k \in 1..Len(todo) : todo[k].op \in {"plan", "done"} => k = Len(todo)
    /\ \A k \in 1..Len(todo) : todo[k].op = "members" => Last("plan")
Pending(op, g, x) ==
    \E k \in 1..Len(todo) : /\ todo[k].op = op /\ todo[k].of = g
                            /\ x \in todo[k].left
RolePending(i) ==
    \E k \in 1..Len(todo) : /\ todo[k].op \in {"role", "create"}
                            /\ todo[k].of = AccessGroups[i][1]
                            /\ todo[k].left = AccessGroups[i][2]
RoleServed(i, id) ==
    /\ \A x \in AccessGroups[i][2] :
          \/ <<id, Right(x, req)>> \in roleGrants
          \/ roleID = id /\ Pending("grant", AccessGroups[i][1], x)
    /\ \A u \in read[AccessGroups[i][1]] :
          \/ <<id, u>> \in assigned
          \/ roleID = id /\ Pending("assign", AccessGroups[i][1], u)
Underway ==
    /\ fga = store
    /\ Last("plan") \/ (owner = "operator" /\ req \in warehouses)
    /\ \A i \in 1..Len(Principals) : \A x \in Principals[i][2] :
          \/ <<Principals[i][1], x>> \in grants
          \/ Pending("principal", Principals[i][1], x)
    /\ \A i \in 1..Len(AccessGroups) :
          \/ Last("plan") \/ RolePending(i)
          \/ \E r \in RolesNamed(AccessGroups[i][1]) : RoleServed(i, r.id)
    /\ \A g \in GroupNames : \A u \in read[g] :
          \/ Last("plan") \/ fga = 0
          \/ <<u, g>> \in tuples \/ Pending("tuple", g, u)

ReadyInv ==
    /\ Ordered
    /\ losses = 0 /\ todo # << >> => Underway
    /\ ReadyComplete

-----------------------------------------------------------------------------
(***************************************************************************)
(* Sequences: taking the first element away, and putting others there.     *)
(***************************************************************************)

\* The elements of a sequence, the first one in particular.
LEMMA SeqLen ==
    ASSUME NEW S, NEW s \in Seq(S)
    PROVE  /\ Len(s) \in Nat
           /\ s # << >> => Len(s) # 0 /\ 1 \in 1..Len(s) /\ Len(s) \in 1..Len(s)
                           /\ Head(s) = s[1] /\ Head(s) \in S
           /\ s = << >> => Len(s) = 0
           /\ \A k \in 1..Len(s) : s[k] \in S /\ s # << >>
<1>1. Len(s) \in Nat /\ (s = << >> <=> Len(s) = 0)
  BY EmptySeq
<1>2. \A k \in 1..Len(s) : s[k] \in S
  BY ElementOfSeq
<1>3. s # << >> => 1 \in 1..Len(s) /\ Len(s) \in 1..Len(s)
  BY <1>1
<1>4. s # << >> => Head(s) = s[1]
  BY <1>3
<1>5. \A k \in 1..Len(s) : Len(s) # 0
  BY <1>1
<1> QED
  BY <1>1, <1>2, <1>3, <1>4, <1>5

\* Taking the first element away moves the others up.
LEMMA PopSeq ==
    ASSUME NEW S, NEW s \in Seq(S), s # << >>
    PROVE  /\ Tail(s) \in Seq(S) /\ Len(Tail(s)) = Len(s) - 1
           /\ \A k \in 1..Len(Tail(s)) :
                 k + 1 \in 2..Len(s) /\ Tail(s)[k] = s[k + 1]
           /\ \A k \in 2..Len(s) :
                 k - 1 \in 1..Len(Tail(s)) /\ Tail(s)[k - 1] = s[k]
<1> DEFINE t == Tail(s)
           n == Len(s)
<1>1. t \in Seq(S) /\ Len(t) = n - 1 /\ \A k \in 1..Len(t) : t[k] = s[k + 1]
  BY HeadTailProperties
<1>2. n \in Nat
  BY SeqLen
<1> HIDE DEF t, n
<1>3. \A k \in 1..Len(t) : k + 1 \in 2..n
  BY <1>1, <1>2
<1>4. ASSUME NEW k \in 2..n PROVE k - 1 \in 1..Len(t) /\ t[k - 1] = s[k]
  <2>1. k - 1 \in 1..Len(t) /\ (k - 1) + 1 = k
    BY <1>1, <1>2
  <2> QED
    BY <1>1, <2>1
<1> QED
  BY <1>1, <1>3, <1>4 DEF t, n

HeadNow(S, s, a, t) ==
    /\ t \in Seq(S) /\ Len(t) = Len(s) /\ t # << >>
    /\ t[1] = a
    /\ \A k \in 2..Len(s) : t[k] = s[k]

\* One step takes the place of the first.
LEMMA PushOne ==
    ASSUME NEW S, NEW s \in Seq(S), s # << >>, NEW a \in S,
           NEW t, t = <<a>> \o Tail(s)
    PROVE  HeadNow(S, s, a, t)
<1> DEFINE u == Tail(s)
           n == Len(s)
<1>1. u \in Seq(S) /\ Len(u) = n - 1 /\ \A k \in 1..Len(u) : u[k] = s[k + 1]
  BY HeadTailProperties
<1>2. n \in Nat /\ n # 0
  BY SeqLen
<1>3. <<a>> \in Seq(S) /\ Len(<<a>>) = 1 /\ <<a>>[1] = a
  OBVIOUS
<1> HIDE DEF u, n
<1>4. /\ t \in Seq(S) /\ Len(t) = 1 + Len(u)
      /\ \A i \in 1..(1 + Len(u)) : t[i] = IF i <= 1 THEN <<a>>[i] ELSE u[i - 1]
  <2>1. t = <<a>> \o u
    BY DEF u
  <2> QED
    BY <1>1, <1>3, <2>1, ConcatProperties
<1>5. Len(t) = n /\ 1 \in 1..(1 + Len(u))
  BY <1>1, <1>2, <1>4
<1>6. t[1] = a
  BY <1>3, <1>4, <1>5
<1>7. ASSUME NEW k \in 2..n PROVE t[k] = s[k]
  <2>1. k \in 1..(1 + Len(u)) /\ ~(k <= 1) /\ k - 1 \in 1..Len(u)
        /\ (k - 1) + 1 = k
    BY <1>1, <1>2
  <2> QED
    BY <1>1, <1>4, <2>1
<1>8. t # << >>
  BY <1>2, <1>5, SeqLen
<1> QED
  BY <1>4, <1>5, <1>6, <1>7, <1>8 DEF n, HeadNow

HeadsNow(S, s, a, b, t) ==
    /\ t \in Seq(S) /\ Len(t) = Len(s) + 1 /\ t # << >>
    /\ t[1] = a /\ t[2] = b
    /\ \A k \in 2..Len(s) : k + 1 \in 3..Len(t) /\ t[k + 1] = s[k]
    /\ \A k \in 3..Len(t) : k - 1 \in 2..Len(s) /\ t[k] = s[k - 1]

\* Two steps take the place of the first, the others move down.
LEMMA PushTwo ==
    ASSUME NEW S, NEW s \in Seq(S), s # << >>, NEW a \in S, NEW b \in S,
           NEW t, t = <<a, b>> \o Tail(s)
    PROVE  HeadsNow(S, s, a, b, t)
<1> DEFINE u == Tail(s)
           n == Len(s)
<1>1. u \in Seq(S) /\ Len(u) = n - 1 /\ \A k \in 1..Len(u) : u[k] = s[k + 1]
  BY HeadTailProperties
<1>2. n \in Nat /\ n # 0
  BY SeqLen
<1>3. /\ <<a, b>> \in Seq(S) /\ Len(<<a, b>>) = 2
      /\ <<a, b>>[1] = a /\ <<a, b>>[2] = b
  OBVIOUS
<1> HIDE DEF u, n
<1>4. /\ t \in Seq(S) /\ Len(t) = 2 + Len(u)
      /\ \A i \in 1..(2 + Len(u)) :
            t[i] = IF i <= 2 THEN <<a, b>>[i] ELSE u[i - 2]
  <2>1. t = <<a, b>> \o u
    BY DEF u
  <2> QED
    BY <1>1, <1>3, <2>1, ConcatProperties
<1>5. Len(t) = n + 1 /\ 1 \in 1..(2 + Len(u)) /\ 2 \in 1..(2 + Len(u))
  BY <1>1, <1>2, <1>4
<1>6. t[1] = a /\ t[2] = b
  BY <1>3, <1>4, <1>5
<1>7. ASSUME NEW k \in 3..Len(t) PROVE k - 1 \in 2..n /\ t[k] = s[k - 1]
  <2>1. k \in 1..(2 + Len(u)) /\ ~(k <= 2) /\ k - 2 \in 1..Len(u)
        /\ (k - 2) + 1 = k - 1 /\ k - 1 \in 2..n
    BY <1>1, <1>2, <1>5
  <2> QED
    BY <1>1, <1>4, <2>1
<1>8. ASSUME NEW k \in 2..n PROVE k + 1 \in 3..Len(t) /\ t[k + 1] = s[k]
  <2>1. k + 1 \in 3..Len(t) /\ (k + 1) - 1 = k
    BY <1>2, <1>5
  <2> QED
    BY <1>7, <2>1
<1>9. t # << >>
  BY <1>2, <1>5, SeqLen
<1> QED
  BY <1>4, <1>5, <1>6, <1>7, <1>8, <1>9 DEF n, HeadsNow

\* A list that an element is put into at some place.
WithElement(S, s, a, t) ==
    /\ t \in Seq(S)
    /\ \A k \in 1..Len(t) : t[k] = a \/ \E j \in 1..Len(s) : t[k] = s[j]
    /\ \A j \in 1..Len(s) : \E k \in 1..Len(t) : t[k] = s[j]
    /\ \E k \in 1..Len(t) : t[k] = a

\* A role is listed somewhere among the others.
LEMMA InsertSeq ==
    ASSUME NEW S, NEW s \in Seq(S), NEW a \in S, NEW i \in 1..(Len(s) + 1)
    PROVE  \A t : t = SubSeq(s, 1, i - 1) \o <<a>> \o SubSeq(s, i, Len(s)) =>
              WithElement(S, s, a, t)
<1>0. SUFFICES
         ASSUME NEW t,
                t = SubSeq(s, 1, i - 1) \o <<a>> \o SubSeq(s, i, Len(s))
         PROVE  WithElement(S, s, a, t)
  OBVIOUS
<1> DEFINE n == Len(s)
           u == SubSeq(s, 1, i - 1)
           v == SubSeq(s, i, n)
           w == u \o <<a>>
<1>1. n \in Nat /\ \A k \in 1..n : s[k] \in S
  BY SeqLen
<1>2. /\ i \in Nat /\ 1 <= i /\ i <= n + 1
      /\ i - 1 \in Int /\ n \in Int /\ i \in Int
  BY <1>1
<1>3. (\A k \in 1..(i - 1) : s[k] \in S) /\ (\A k \in i..n : s[k] \in S)
  BY <1>1, <1>2
<1>4. /\ u \in Seq(S)
      /\ Len(u) = IF 1 <= i - 1 THEN (i - 1) - 1 + 1 ELSE 0
      /\ \A k \in 1..((i - 1) - 1 + 1) : u[k] = s[1 + k - 1]
  BY <1>2, <1>3, SubSeqProperties
<1>5. /\ v \in Seq(S)
      /\ Len(v) = IF i <= n THEN n - i + 1 ELSE 0
      /\ \A k \in 1..(n - i + 1) : v[k] = s[i + k - 1]
  BY <1>1, <1>2, <1>3, SubSeqProperties
<1>6. <<a>> \in Seq(S) /\ Len(<<a>>) = 1 /\ <<a>>[1] = a
  OBVIOUS
<1> HIDE DEF n, u, v
<1>7. /\ w \in Seq(S) /\ Len(w) = Len(u) + 1
      /\ \A k \in 1..(Len(u) + 1) : w[k] = IF k <= Len(u) THEN u[k]
                                                           ELSE <<a>>[k - Len(u)]
  BY <1>4, <1>6, ConcatProperties
<1> HIDE DEF w
<1>8. /\ t \in Seq(S) /\ Len(t) = Len(w) + Len(v)
      /\ \A k \in 1..(Len(w) + Len(v)) :
            t[k] = IF k <= Len(w) THEN w[k] ELSE v[k - Len(w)]
  <2>1. t = w \o v
    BY <1>0 DEF w, u, v, n
  <2> QED
    BY <1>5, <1>7, <2>1, ConcatProperties
<1>9. Len(u) = i - 1 /\ Len(v) = n - i + 1 /\ Len(w) = i /\ Len(t) = n + 1
  BY <1>1, <1>2, <1>4, <1>5, <1>7, <1>8
<1>10. ASSUME NEW k \in 1..(i - 1) PROVE k \in 1..n /\ t[k] = s[k]
  <2>1. /\ k \in 1..n /\ k \in 1..(Len(w) + Len(v)) /\ k <= Len(w)
        /\ k \in 1..(Len(u) + 1) /\ k <= Len(u) /\ 1 + k - 1 = k
        /\ k \in 1..((i - 1) - 1 + 1)
    BY <1>1, <1>2, <1>9
  <2> QED
    BY <1>4, <1>7, <1>8, <2>1
<1>11. t[i] = a /\ i \in 1..Len(t)
  <2>1. /\ i \in 1..(Len(w) + Len(v)) /\ i <= Len(w) /\ i \in 1..(Len(u) + 1)
        /\ ~(i <= Len(u)) /\ i - Len(u) = 1 /\ i \in 1..Len(t)
    BY <1>1, <1>2, <1>9
  <2> QED
    BY <1>6, <1>7, <1>8, <2>1
<1>12. ASSUME NEW k \in (i + 1)..(n + 1)
       PROVE  k - 1 \in 1..n /\ t[k] = s[k - 1]
  <2>1. /\ k - 1 \in 1..n /\ k \in 1..(Len(w) + Len(v)) /\ ~(k <= Len(w))
        /\ k - Len(w) \in 1..(n - i + 1) /\ i + (k - Len(w)) - 1 = k - 1
    BY <1>1, <1>2, <1>9
  <2> QED
    BY <1>5, <1>8, <2>1
<1>13. ASSUME NEW k \in 1..Len(t)
       PROVE  t[k] = a \/ \E j \in 1..n : t[k] = s[j]
  <2>1. k \in 1..(i - 1) \/ k = i \/ k \in (i + 1)..(n + 1)
    BY <1>1, <1>2, <1>9
  <2> QED
    BY <1>10, <1>11, <1>12, <2>1
<1>14. ASSUME NEW j \in 1..n PROVE \E k \in 1..Len(t) : t[k] = s[j]
  <2>1. CASE j \in 1..(i - 1)
    <3>1. j \in 1..Len(t)
      BY <1>1, <1>2, <1>9, <2>1
    <3> QED
      BY <1>10, <2>1, <3>1
  <2>2. CASE j \notin 1..(i - 1)
    <3>1. j + 1 \in (i + 1)..(n + 1) /\ (j + 1) - 1 = j /\ j + 1 \in 1..Len(t)
      BY <1>1, <1>2, <1>9, <2>2
    <3> QED
      BY <1>12, <3>1
  <2> QED
    BY <2>1, <2>2
<1> QED
  BY <1>8, <1>11, <1>13, <1>14 DEF n, WithElement

\* A list that an element is taken out of.
WithoutElement(S, s, i, t) ==
    /\ t \in Seq(S)
    /\ \A k \in 1..Len(t) : \E j \in 1..Len(s) : t[k] = s[j]
    /\ \A j \in 1..Len(s) : j # i => \E k \in 1..Len(t) : t[k] = s[j]

\* A role is taken from the list.
LEMMA RemoveSeq ==
    ASSUME NEW S, NEW s \in Seq(S), NEW i \in 1..Len(s)
    PROVE  \A t : t = SubSeq(s, 1, i - 1) \o SubSeq(s, i + 1, Len(s)) =>
              WithoutElement(S, s, i, t)
<1>0. SUFFICES
         ASSUME NEW t, t = SubSeq(s, 1, i - 1) \o SubSeq(s, i + 1, Len(s))
         PROVE  WithoutElement(S, s, i, t)
  OBVIOUS
<1> DEFINE n == Len(s)
           u == SubSeq(s, 1, i - 1)
           v == SubSeq(s, i + 1, n)
<1>1. n \in Nat /\ \A k \in 1..n : s[k] \in S
  BY SeqLen
<1>2. /\ i \in Nat /\ 1 <= i /\ i <= n
      /\ i - 1 \in Int /\ n \in Int /\ i + 1 \in Int
  BY <1>1
<1>3. /\ \A k \in 1..(i - 1) : s[k] \in S
      /\ \A k \in (i + 1)..n : s[k] \in S
  BY <1>1, <1>2
<1>4. /\ u \in Seq(S)
      /\ Len(u) = IF 1 <= i - 1 THEN (i - 1) - 1 + 1 ELSE 0
      /\ \A k \in 1..((i - 1) - 1 + 1) : u[k] = s[1 + k - 1]
  BY <1>2, <1>3, SubSeqProperties
<1>5. /\ v \in Seq(S)
      /\ Len(v) = IF i + 1 <= n THEN n - (i + 1) + 1 ELSE 0
      /\ \A k \in 1..(n - (i + 1) + 1) : v[k] = s[(i + 1) + k - 1]
  BY <1>1, <1>2, <1>3, SubSeqProperties
<1> HIDE DEF n, u, v
<1>6. /\ t \in Seq(S) /\ Len(t) = Len(u) + Len(v)
      /\ \A k \in 1..(Len(u) + Len(v)) :
            t[k] = IF k <= Len(u) THEN u[k] ELSE v[k - Len(u)]
  <2>1. t = u \o v
    BY <1>0 DEF u, v, n
  <2> QED
    BY <1>4, <1>5, <2>1, ConcatProperties
<1>7. Len(u) = i - 1 /\ Len(v) = n - i /\ Len(t) = n - 1
  BY <1>1, <1>2, <1>4, <1>5, <1>6
<1>8. ASSUME NEW k \in 1..(i - 1) PROVE k \in 1..n /\ t[k] = s[k]
  <2>1. /\ k \in 1..n /\ k \in 1..(Len(u) + Len(v)) /\ k <= Len(u)
        /\ 1 + k - 1 = k /\ k \in 1..((i - 1) - 1 + 1)
    BY <1>1, <1>2, <1>7
  <2> QED
    BY <1>4, <1>6, <2>1
<1>9. ASSUME NEW k \in i..(n - 1) PROVE k + 1 \in 1..n /\ t[k] = s[k + 1]
  <2>1. /\ k + 1 \in 1..n /\ k \in 1..(Len(u) + Len(v)) /\ ~(k <= Len(u))
        /\ k - Len(u) \in 1..(n - (i + 1) + 1)
        /\ (i + 1) + (k - Len(u)) - 1 = k + 1
    BY <1>1, <1>2, <1>7
  <2> QED
    BY <1>5, <1>6, <2>1
<1>10. ASSUME NEW k \in 1..Len(t) PROVE \E j \in 1..n : t[k] = s[j]
  <2>1. k \in 1..(i - 1) \/ k \in i..(n - 1)
    BY <1>1, <1>2, <1>7
  <2> QED
    BY <1>8, <1>9, <2>1
<1>11. ASSUME NEW j \in 1..n, j # i PROVE \E k \in 1..Len(t) : t[k] = s[j]
  <2>1. CASE j \in 1..(i - 1)
    <3>1. j \in 1..Len(t)
      BY <1>1, <1>2, <1>7, <2>1
    <3> QED
      BY <1>8, <2>1, <3>1
  <2>2. CASE j \notin 1..(i - 1)
    <3>1. j - 1 \in i..(n - 1) /\ (j - 1) + 1 = j /\ j - 1 \in 1..Len(t)
      BY <1>1, <1>2, <1>7, <1>11, <2>2
    <3> QED
      BY <1>9, <3>1
  <2> QED
    BY <2>1, <2>2
<1> QED
  BY <1>6, <1>10, <1>11 DEF n, WithoutElement

\* The elements of a concatenation are those of its parts.
LEMMA ConcatElements ==
    ASSUME NEW S, NEW s \in Seq(S), NEW t \in Seq(S)
    PROVE  /\ s \o t \in Seq(S) /\ Len(s \o t) = Len(s) + Len(t)
           /\ \A k \in 1..Len(s \o t) :
                 \/ k \in 1..Len(s) /\ (s \o t)[k] = s[k]
                 \/ k - Len(s) \in 1..Len(t) /\ (s \o t)[k] = t[k - Len(s)]
           /\ \A k \in 1..Len(s) :
                 k \in 1..Len(s \o t) /\ (s \o t)[k] = s[k]
           /\ \A k \in 1..Len(t) : /\ Len(s) + k \in 1..Len(s \o t)
                                   /\ (s \o t)[Len(s) + k] = t[k]
<1> DEFINE u == s \o t
           m == Len(s)
           n == Len(t)
<1>1. m \in Nat /\ n \in Nat
  BY SeqLen
<1>2. /\ u \in Seq(S) /\ Len(u) = m + n
      /\ \A k \in 1..(m + n) : u[k] = IF k <= m THEN s[k] ELSE t[k - m]
  BY ConcatProperties
<1> HIDE DEF u, m, n
<1>3. ASSUME NEW k \in 1..Len(u)
      PROVE  (k \in 1..m /\ u[k] = s[k]) \/ (k - m \in 1..n /\ u[k] = t[k - m])
  <2>1. /\ k \in 1..(m + n)
        /\ (k <= m /\ k \in 1..m) \/ (~(k <= m) /\ k - m \in 1..n)
    BY <1>1, <1>2
  <2> QED
    BY <1>2, <2>1
<1>4. ASSUME NEW k \in 1..m PROVE k \in 1..Len(u) /\ u[k] = s[k]
  <2>1. k \in 1..(m + n) /\ k <= m
    BY <1>1
  <2> QED
    BY <1>2, <2>1
<1>5. ASSUME NEW k \in 1..n PROVE m + k \in 1..Len(u) /\ u[m + k] = t[k]
  <2>1. m + k \in 1..(m + n) /\ ~(m + k <= m) /\ (m + k) - m = k
    BY <1>1
  <2> QED
    BY <1>2, <2>1
<1> QED
  BY <1>2, <1>3, <1>4, <1>5 DEF u, m, n

Elems(s) == {s[k] : k \in 1..Len(s)}

\* The elements of two lists after one another.
LEMMA ConcatElems ==
    ASSUME NEW S, NEW s \in Seq(S), NEW t \in Seq(S)
    PROVE  s \o t \in Seq(S) /\ Elems(s \o t) = Elems(s) \cup Elems(t)
<1> DEFINE u == s \o t
<1>1. /\ u \in Seq(S)
      /\ \A k \in 1..Len(u) :
            \/ k \in 1..Len(s) /\ u[k] = s[k]
            \/ k - Len(s) \in 1..Len(t) /\ u[k] = t[k - Len(s)]
      /\ \A k \in 1..Len(s) : k \in 1..Len(u) /\ u[k] = s[k]
      /\ \A k \in 1..Len(t) : /\ Len(s) + k \in 1..Len(u)
                              /\ u[Len(s) + k] = t[k]
  BY ConcatElements
<1> HIDE DEF u
<1>2. Elems(u) \subseteq Elems(s) \cup Elems(t)
  BY <1>1 DEF Elems
<1>3. Elems(s) \subseteq Elems(u)
  BY <1>1 DEF Elems
<1>4. Elems(t) \subseteq Elems(u)
  BY <1>1 DEF Elems
<1>5. u \in Seq(S) /\ Elems(u) = Elems(s) \cup Elems(t)
  BY <1>1, <1>2, <1>3, <1>4
<1> QED
  BY <1>5 DEF u

\* A list of one.
LEMMA OneElem ==
    ASSUME NEW S, NEW a \in S
    PROVE  <<a>> \in Seq(S) /\ Elems(<<a>>) = {a}
<1> DEFINE t == <<a>>
<1>1. t \in Seq(S) /\ Len(t) = 1 /\ t[1] = a
  OBVIOUS
<1> HIDE DEF t
<1>2. 1 \in 1..Len(t) /\ \A k \in 1..Len(t) : k = 1
  <2>1. Len(t) = 1
    BY <1>1
  <2> QED
    BY <2>1
<1>3. Elems(t) = {a}
  BY <1>1, <1>2 DEF Elems
<1> QED
  BY <1>1, <1>3 DEF t

\* A list that ends with a single step.
LEMMA ConcatLast ==
    ASSUME NEW S, NEW s \in Seq(S), NEW t \in Seq(S)
    PROVE  Len(t) = 1 =>
              /\ s \o t \in Seq(S) /\ s \o t # << >>
              /\ (s \o t)[Len(s \o t)] = t[1]
              /\ \A k \in 1..Len(s \o t) :
                    k = Len(s \o t) \/ (s \o t)[k] \in Elems(s)
<1> DEFINE u == s \o t
           m == Len(s)
<1>1. /\ u \in Seq(S) /\ Len(u) = m + Len(t)
      /\ \A k \in 1..Len(u) :
            \/ k \in 1..m /\ u[k] = s[k]
            \/ k - m \in 1..Len(t) /\ u[k] = t[k - m]
      /\ \A k \in 1..Len(t) : u[m + k] = t[k]
  BY ConcatElements
<1>2. m \in Nat
  BY SeqLen
<1>3. \A k \in 1..m : s[k] \in Elems(s)
  BY DEF Elems
<1> HIDE DEF u, m
<1> SUFFICES ASSUME Len(t) = 1
             PROVE  /\ u \in Seq(S) /\ u # << >> /\ u[Len(u)] = t[1]
                    /\ \A k \in 1..Len(u) : k = Len(u) \/ u[k] \in Elems(s)
  BY DEF u
<1>4. Len(u) = m + 1 /\ m + 1 # 0 /\ 1 \in 1..Len(t)
  BY <1>1, <1>2
<1>5. \A k \in 1..Len(u) : k - m \in 1..Len(t) => k = Len(u)
  BY <1>2, <1>4
<1>6. u # << >>
  BY <1>1, <1>4, SeqLen
<1>7. u[Len(u)] = t[1]
  BY <1>1, <1>4
<1>8. \A k \in 1..Len(u) : k = Len(u) \/ u[k] \in Elems(s)
  BY <1>1, <1>3, <1>5
<1> QED
  BY <1>1, <1>6, <1>7, <1>8

\* The elements of a list are what it has at its places.
LEMMA ElemAt ==
    ASSUME NEW s
    PROVE  /\ \A k \in 1..Len(s) : s[k] \in Elems(s)
           /\ \A x \in Elems(s) : \E k \in 1..Len(s) : s[k] = x
BY DEF Elems

-----------------------------------------------------------------------------
(***************************************************************************)
(* The configuration and the steps of a pass.                              *)
(***************************************************************************)

\* What CatalogConstants says of defaultAccessGroups and catalogPrincipals.
LEMMA GroupFacts ==
    /\ Len(AccessGroups) \in Nat /\ Len(Principals) \in Nat
    /\ \A i \in 1..Len(AccessGroups) : /\ AccessGroups[i][1] \in GroupNames
                                       /\ AccessGroups[i][2] \subseteq Relations
    /\ \A i \in 1..Len(Principals) : /\ Principals[i][1] \in Names
                                     /\ Principals[i][2] \subseteq Relations
    /\ \A g \in GroupNames :
          \E i \in 1..Len(AccessGroups) : g = AccessGroups[i][1]
    /\ \A i, j \in 1..Len(AccessGroups) :
          AccessGroups[i][1] = AccessGroups[j][1] => i = j
<1>1. Len(AccessGroups) \in Nat /\ Len(Principals) \in Nat
  BY CatalogConstants, SeqLen
<1>2. \A i, j \in 1..Len(AccessGroups) :
         AccessGroups[i][1] = AccessGroups[j][1] => i = j
  BY CatalogConstants
<1> QED
  BY <1>1, <1>2 DEF GroupNames, Names, Relations

\* A step has the parts that it is made from.
LEMMA StepFields ==
    \A op, g, l : /\ Step(op, g, l).op = op
                  /\ Step(op, g, l).of = g
                  /\ Step(op, g, l).left = l
BY DEF Step

\* What the pass plans are steps.
LEMMA StepMade ==
    ASSUME NEW op \in Ops, NEW g \in {"none"} \cup Names \cup GroupNames,
           NEW l \in SUBSET (Relations \cup Users)
    PROVE  Step(op, g, l) \in StepSet
BY DEF Step, StepSet

\* The steps of a fresh pass: each principal has its step, and planning the
\* access is the last one.
LEMMA OpeningSteps ==
    /\ Opening \in Seq(StepSet) /\ Opening # << >>
    /\ Opening[Len(Opening)].op = "plan"
    /\ \A k \in 1..Len(Opening) :
          \/ Opening[k].op \in {"bootstrap", "warehouse"}
          \/ Opening[k].op = "plan" /\ k = Len(Opening)
          \/ Opening[k].op = "members" /\ Opening[k].of \in GroupNames
          \/ /\ Opening[k].op = "principal"
             /\ \E i \in 1..Len(Principals) :
                   /\ Opening[k].of = Principals[i][1]
                   /\ Opening[k].left = Principals[i][2]
    /\ \A i \in 1..Len(Principals) : \E k \in 1..Len(Opening) :
          /\ Opening[k].op = "principal" /\ Opening[k].of = Principals[i][1]
          /\ Opening[k].left = Principals[i][2]
<1> DEFINE boot == Step("bootstrap", "none", {})
           house == Step("warehouse", "none", {})
           plan == Step("plan", "none", {})
           P == PrincipalSteps
           M == [i \in 1..Len(AccessGroups) |->
                    Step("members", AccessGroups[i][1], {})]
           B == <<boot>>
           H == <<house>>
           AP == B \o P
           APW == AP \o H
           X == APW \o M
<1>1. boot \in StepSet /\ house \in StepSet /\ plan \in StepSet
  BY StepMade DEF Ops
<1>2. boot.op = "bootstrap" /\ house.op = "warehouse" /\ plan.op = "plan"
  BY StepFields
<1>3. \A i \in 1..Len(Principals) :
         Step("principal", Principals[i][1], Principals[i][2]) \in StepSet
  BY GroupFacts, StepMade DEF Ops
<1>4. \A i \in 1..Len(AccessGroups) :
         Step("members", AccessGroups[i][1], {}) \in StepSet
  BY GroupFacts, StepMade DEF Ops
<1>5. /\ P \in Seq(StepSet) /\ Len(P) = Len(Principals)
      /\ \A i \in 1..Len(Principals) :
            P[i] = Step("principal", Principals[i][1], Principals[i][2])
  BY <1>3, GroupFacts, IsASeq DEF PrincipalSteps
<1>6. /\ M \in Seq(StepSet) /\ Len(M) = Len(AccessGroups)
      /\ \A i \in 1..Len(AccessGroups) :
            M[i] = Step("members", AccessGroups[i][1], {})
  BY <1>4, GroupFacts, IsASeq
<1>7. Opening = X \o <<plan>>
  BY DEF Opening
<1>8. \A i \in 1..Len(Principals) : /\ P[i].op = "principal"
                                    /\ P[i].of = Principals[i][1]
                                    /\ P[i].left = Principals[i][2]
  BY <1>5, StepFields
<1>9. \A i \in 1..Len(AccessGroups) :
         M[i].op = "members" /\ M[i].of \in GroupNames
  BY <1>6, StepFields, GroupFacts
<1>10. \A x \in Elems(P) : /\ x.op = "principal"
                           /\ \E i \in 1..Len(Principals) :
                                 /\ x.of = Principals[i][1]
                                 /\ x.left = Principals[i][2]
  <2> HIDE DEF P
  <2> QED
    BY <1>5, <1>8 DEF Elems
<1>11. \A x \in Elems(M) : x.op = "members" /\ x.of \in GroupNames
  <2> HIDE DEF M
  <2> QED
    BY <1>6, <1>9 DEF Elems
<1>12. \A i \in 1..Len(Principals) : P[i] \in Elems(P)
  <2> HIDE DEF P
  <2> QED
    BY <1>5 DEF Elems
<1> HIDE DEF boot, house, plan, P, M
<1>13. AP \in Seq(StepSet) /\ Elems(AP) = {boot} \cup Elems(P)
  <2>1. B \in Seq(StepSet) /\ Elems(B) = {boot}
    BY <1>1, OneElem
  <2> HIDE DEF B
  <2> QED
    BY <1>5, <2>1, ConcatElems
<1> HIDE DEF AP
<1>14. APW \in Seq(StepSet) /\ Elems(APW) = Elems(AP) \cup {house}
  <2>1. H \in Seq(StepSet) /\ Elems(H) = {house}
    BY <1>1, OneElem
  <2> HIDE DEF H
  <2> QED
    BY <1>13, <2>1, ConcatElems
<1> HIDE DEF APW
<1>15. X \in Seq(StepSet) /\ Elems(X) = Elems(APW) \cup Elems(M)
  BY <1>6, <1>14, ConcatElems
<1> HIDE DEF X
<1>16. /\ Opening \in Seq(StepSet) /\ Opening # << >>
       /\ Opening[Len(Opening)] = plan
       /\ \A k \in 1..Len(Opening) : k = Len(Opening) \/ Opening[k] \in Elems(X)
       /\ Elems(Opening) = Elems(X) \cup {plan}
  <2> DEFINE Q == <<plan>>
             Z == X \o Q
  <2>1. Q \in Seq(StepSet) /\ Len(Q) = 1 /\ Q[1] = plan
    BY <1>1
  <2>2. Elems(Q) = {plan}
    BY <1>1, OneElem
  <2>3. Opening = Z
    BY <1>7
  <2> HIDE DEF Q
  <2>4. /\ Z \in Seq(StepSet) /\ Z # << >> /\ Z[Len(Z)] = Q[1]
        /\ \A k \in 1..Len(Z) : k = Len(Z) \/ Z[k] \in Elems(X)
    BY <1>15, <2>1, ConcatLast
  <2>5. Elems(Z) = Elems(X) \cup Elems(Q)
    BY <1>15, <2>1, ConcatElems
  <2> HIDE DEF Z
  <2> QED
    BY <2>1, <2>2, <2>3, <2>4, <2>5, Zenon
<1>17. Elems(X) = {boot} \cup Elems(P) \cup {house} \cup Elems(M)
  BY <1>13, <1>14, <1>15
<1>18. ASSUME NEW k \in 1..Len(Opening)
       PROVE  \/ Opening[k].op \in {"bootstrap", "warehouse"}
              \/ Opening[k].op = "plan" /\ k = Len(Opening)
              \/ Opening[k].op = "members" /\ Opening[k].of \in GroupNames
              \/ /\ Opening[k].op = "principal"
                 /\ \E i \in 1..Len(Principals) :
                       /\ Opening[k].of = Principals[i][1]
                       /\ Opening[k].left = Principals[i][2]
  <2>1. CASE k = Len(Opening)
    BY <1>2, <1>16, <2>1
  <2>2. CASE Opening[k] \in Elems(X)
    <3>1. CASE Opening[k] = boot \/ Opening[k] = house
      BY <1>2, <3>1
    <3>2. CASE Opening[k] \in Elems(P)
      BY <1>10, <3>2
    <3>3. CASE Opening[k] \in Elems(M)
      BY <1>11, <3>3
    <3> QED
      BY <1>17, <2>2, <3>1, <3>2, <3>3
  <2> QED
    BY <1>16, <2>1, <2>2
<1>19. ASSUME NEW i \in 1..Len(Principals)
       PROVE  \E k \in 1..Len(Opening) :
                 /\ Opening[k].op = "principal"
                 /\ Opening[k].of = Principals[i][1]
                 /\ Opening[k].left = Principals[i][2]
  <2>1. P[i] \in Elems(Opening)
    BY <1>12, <1>16, <1>17
  <2>2. PICK k \in 1..Len(Opening) : Opening[k] = P[i]
    BY <2>1, ElemAt
  <2> QED
    BY <1>8, <2>2
<1> QED
  BY <1>2, <1>16, <1>18, <1>19

\* The steps that follow the plan: every group has its role, and its tuples
\* if there is a store.
Planned == RoleSteps \o TupleSteps \o <<Step("done", "none", {})>>

\* PlanAccess plans a role for each group and, if there is a store, the tuples
\* of each group's members as they were read.
LEMMA PlannedSteps ==
    ASSUME read \in [GroupNames -> SUBSET Users]
    PROVE  /\ Planned \in Seq(StepSet) /\ Planned # << >>
           /\ Planned[Len(Planned)].op = "done"
           /\ \A k \in 1..Len(Planned) :
                 \/ Planned[k].op = "done" /\ k = Len(Planned)
                 \/ /\ Planned[k].op = "role"
                    /\ \E i \in 1..Len(AccessGroups) :
                          /\ Planned[k].of = AccessGroups[i][1]
                          /\ Planned[k].left = AccessGroups[i][2]
                 \/ /\ Planned[k].op = "tuple" /\ Planned[k].of \in GroupNames
                    /\ Planned[k].left = read[Planned[k].of]
           /\ \A i \in 1..Len(AccessGroups) : \E k \in 1..Len(Planned) :
                 /\ Planned[k].op = "role"
                 /\ Planned[k].of = AccessGroups[i][1]
                 /\ Planned[k].left = AccessGroups[i][2]
           /\ fga # 0 => \A g \in GroupNames : \E k \in 1..Len(Planned) :
                 /\ Planned[k].op = "tuple" /\ Planned[k].of = g
                 /\ Planned[k].left = read[g]
<1> DEFINE R == RoleSteps
           T == TupleSteps
           done == Step("done", "none", {})
           X == R \o T
<1>1. done \in StepSet /\ done.op = "done"
  BY StepMade, StepFields DEF Ops
<1>2. \A i \in 1..Len(AccessGroups) :
         Step("role", AccessGroups[i][1], AccessGroups[i][2]) \in StepSet
  <2>1. "role" \in Ops
    BY DEF Ops
  <2>2. \A i \in 1..Len(AccessGroups) :
           /\ AccessGroups[i][1] \in {"none"} \cup Names \cup GroupNames
           /\ AccessGroups[i][2] \in SUBSET (Relations \cup Users)
    BY GroupFacts, Zenon
  <2> QED
    BY <2>1, <2>2, StepMade, Zenon
<1>3. \A i \in 1..Len(AccessGroups) :
         Step("tuple", AccessGroups[i][1], read[AccessGroups[i][1]]) \in StepSet
  BY GroupFacts, StepMade, ZenonT(30) DEF Ops
<1>4. /\ R \in Seq(StepSet) /\ Len(R) = Len(AccessGroups)
      /\ \A i \in 1..Len(AccessGroups) :
            R[i] = Step("role", AccessGroups[i][1], AccessGroups[i][2])
  BY <1>2, GroupFacts, IsASeq DEF RoleSteps
<1>5. /\ T \in Seq(StepSet)
      /\ fga # 0 => Len(T) = Len(AccessGroups)
      /\ \A i \in 1..Len(T) :
            /\ i \in 1..Len(AccessGroups)
            /\ T[i] = Step("tuple", AccessGroups[i][1], read[AccessGroups[i][1]])
  <2>1. CASE fga = 0
    <3>1. T = << >>
      BY <2>1 DEF TupleSteps
    <3>2. Len(T) = 0 /\ T \in Seq(StepSet)
      BY <3>1
    <3>3. \A i \in 1..Len(T) : FALSE
      BY <3>2
    <3> QED
      BY <2>1, <3>2, <3>3
  <2>2. CASE fga # 0
    BY <1>3, <2>2, GroupFacts, IsASeq DEF TupleSteps
  <2> QED
    BY <2>1, <2>2
<1>6. Planned = X \o <<done>>
  BY DEF Planned
<1>7. \A i \in 1..Len(AccessGroups) : /\ R[i].op = "role"
                                      /\ R[i].of = AccessGroups[i][1]
                                      /\ R[i].left = AccessGroups[i][2]
  BY <1>4, StepFields
<1>8. \A i \in 1..Len(T) : /\ T[i].op = "tuple" /\ T[i].of = AccessGroups[i][1]
                           /\ T[i].of \in GroupNames /\ T[i].left = read[T[i].of]
  BY <1>5, StepFields, GroupFacts
<1> HIDE DEF R, T, done
<1>9. \A x \in Elems(R) : /\ x.op = "role"
                          /\ \E i \in 1..Len(AccessGroups) :
                                /\ x.of = AccessGroups[i][1]
                                /\ x.left = AccessGroups[i][2]
  BY <1>4, <1>7 DEF Elems
<1>10. \A x \in Elems(T) : /\ x.op = "tuple" /\ x.of \in GroupNames
                           /\ x.left = read[x.of]
  BY <1>8 DEF Elems
<1>11. /\ \A i \in 1..Len(AccessGroups) : R[i] \in Elems(R)
       /\ \A i \in 1..Len(T) : T[i] \in Elems(T)
  BY <1>4 DEF Elems
<1>12. X \in Seq(StepSet) /\ Elems(X) = Elems(R) \cup Elems(T)
  BY <1>4, <1>5, ConcatElems
<1> HIDE DEF X
<1>13. /\ Planned \in Seq(StepSet) /\ Planned # << >>
       /\ Planned[Len(Planned)] = done
       /\ \A k \in 1..Len(Planned) : k = Len(Planned) \/ Planned[k] \in Elems(X)
       /\ Elems(Planned) = Elems(X) \cup {done}
  <2> DEFINE Q == <<done>>
             Z == X \o Q
  <2>1. Q \in Seq(StepSet) /\ Len(Q) = 1 /\ Q[1] = done
    BY <1>1
  <2>2. Elems(Q) = {done}
    BY <1>1, OneElem
  <2>3. Planned = Z
    BY <1>6
  <2> HIDE DEF Q
  <2>4. /\ Z \in Seq(StepSet) /\ Z # << >> /\ Z[Len(Z)] = Q[1]
        /\ \A k \in 1..Len(Z) : k = Len(Z) \/ Z[k] \in Elems(X)
    BY <1>12, <2>1, ConcatLast
  <2>5. Elems(Z) = Elems(X) \cup Elems(Q)
    BY <1>12, <2>1, ConcatElems
  <2> HIDE DEF Z
  <2> QED
    BY <2>1, <2>2, <2>3, <2>4, <2>5, Zenon
<1>14. ASSUME NEW k \in 1..Len(Planned)
       PROVE  \/ Planned[k].op = "done" /\ k = Len(Planned)
              \/ /\ Planned[k].op = "role"
                 /\ \E i \in 1..Len(AccessGroups) :
                       /\ Planned[k].of = AccessGroups[i][1]
                       /\ Planned[k].left = AccessGroups[i][2]
              \/ /\ Planned[k].op = "tuple" /\ Planned[k].of \in GroupNames
                 /\ Planned[k].left = read[Planned[k].of]
  <2>1. CASE k = Len(Planned)
    BY <1>1, <1>13, <2>1
  <2>2. CASE Planned[k] \in Elems(R)
    BY <1>9, <2>2
  <2>3. CASE Planned[k] \in Elems(T)
    BY <1>10, <2>3
  <2> QED
    BY <1>12, <1>13, <2>1, <2>2, <2>3
<1>15. ASSUME NEW i \in 1..Len(AccessGroups)
       PROVE  \E k \in 1..Len(Planned) :
                 /\ Planned[k].op = "role"
                 /\ Planned[k].of = AccessGroups[i][1]
                 /\ Planned[k].left = AccessGroups[i][2]
  <2>1. R[i] \in Elems(Planned)
    BY <1>11, <1>12, <1>13
  <2>2. PICK k \in 1..Len(Planned) : Planned[k] = R[i]
    BY <2>1, ElemAt
  <2> QED
    BY <1>7, <2>2
<1>16. ASSUME fga # 0, NEW g \in GroupNames
       PROVE  \E k \in 1..Len(Planned) :
                 /\ Planned[k].op = "tuple" /\ Planned[k].of = g
                 /\ Planned[k].left = read[g]
  <2>1. PICK i \in 1..Len(AccessGroups) : g = AccessGroups[i][1]
    BY GroupFacts
  <2>2. i \in 1..Len(T)
    BY <1>5, <1>16
  <2>3. T[i] \in Elems(Planned)
    BY <1>11, <1>12, <1>13, <2>2
  <2>4. PICK k \in 1..Len(Planned) : Planned[k] = T[i]
    BY <2>3, ElemAt
  <2> QED
    BY <1>8, <2>1, <2>2, <2>4
<1> QED
  BY <1>1, <1>13, <1>14, <1>15, <1>16

-----------------------------------------------------------------------------
(***************************************************************************)
(* What a step of the system does to the roles, the pass and the status.   *)
(***************************************************************************)

\* The step that the pass is at.
LEMMA HeadFacts ==
    ASSUME TypeInv, StepsSound, todo # << >>
    PROVE  /\ Head(todo) = todo[1] /\ Head(todo) \in StepSet
           /\ Head(todo).op \in Ops
           /\ Head(todo).of \in {"none"} \cup Names \cup GroupNames
           /\ Head(todo).left \subseteq Relations \cup Users
           /\ 1 \in 1..Len(todo) /\ Sound(been, Head(todo))
<1>1. todo \in Seq(StepSet)
  BY DEF TypeInv
<1>2. /\ Head(todo) = todo[1] /\ Head(todo) \in StepSet
      /\ 1 \in 1..Len(todo)
  BY <1>1, SeqLen
<1>3. Sound(been, todo[1])
  BY <1>2 DEF StepsSound
<1>4. \A h \in StepSet : /\ h.op \in Ops
                         /\ h.of \in {"none"} \cup Names \cup GroupNames
                         /\ h.left \subseteq Relations \cup Users
  BY DEF StepSet
<1>5. Sound(been, Head(todo))
  BY <1>2, <1>3, Zenon
<1> QED
  BY <1>2, <1>4, <1>5

\* A role that is looked for or made is a group's.
LEMMA RoleOf ==
    ASSUME TypeInv, StepsSound, todo # << >>
    PROVE  /\ Head(todo).op \in {"role", "create", "grant", "assign", "tuple",
                                 "members"} =>
                 Head(todo).of \in GroupNames
           /\ Head(todo).op \in {"role", "create", "grant"} =>
                 GroupSound(Head(todo))
           /\ Head(todo).op \in {"assign", "tuple"} => MemberSound(been, Head(todo))
           /\ Head(todo).op = "principal" => PrincipalSound(Head(todo))
<1>1. Sound(been, Head(todo))
  BY HeadFacts
<1>2. \A h : GroupSound(h) => h.of \in GroupNames
  BY DEF GroupSound, GroupNames
<1>3. \A h : MemberSound(been, h) => h.of \in GroupNames
  BY DEF MemberSound
<1> QED
  BY <1>1, <1>2, <1>3 DEF Sound

\* What can happen to the roles: one is added, gets a grant or a member that
\* the pass is at, or is deleted.
RoleAdded ==
    /\ \E i \in 1..(Len(roles) + 1) : \E g \in GroupNames \cup {"other"} :
          AddRoleAt(i, g)
    /\ UNCHANGED <<roleGrants, assigned>>
RoleGranted == At("grant") /\ \E x \in Head(todo).left : RoleGrantEffect(x)
RoleAssigned == At("assign") /\ \E x \in Head(todo).left : AssignEffect(x)
RoleRemoved ==
    /\ losses' = losses + 1 /\ UNCHANGED made
    /\ \E i \in 1..Len(roles) : RemoveRoleAt(i)
RolesChange ==
    \/ UNCHANGED access
    \/ RoleAdded \/ RoleGranted \/ RoleAssigned \/ RoleRemoved

\* ensureRole's create adds one role, of the group's name and with a new id.
LEMMA Created ==
    ASSUME TypeInv, StepsSound, At("create"), CreateRoleEffect
    PROVE  RoleAdded
<1>1. Of \in GroupNames
  BY RoleOf DEF At, Of
<1> QED
  BY <1>1, Zenon DEF RoleAdded, CreateRoleEffect

\* How any step changes LakeKeeper's roles: one is added, one is removed with
\* what it carried, or the role in hand gets a grant or a member.
LEMMA RolesChanged ==
    ASSUME TypeInv, StepsSound, [Next]_vars
    PROVE  RolesChange
<1>0. SUFFICES ASSUME ~UNCHANGED access, Next
               PROVE  RoleAdded \/ RoleGranted \/ RoleAssigned \/ RoleRemoved
  BY DEF RolesChange, vars, access
<1>1. CASE CreateRole
  <2>1. At("create") /\ CreateRoleEffect
    BY <1>0, <1>1, Zenon DEF CreateRole, lakekeeper
  <2> QED
    BY <2>1, Created
<1>2. CASE GrantRoleAccess
  BY <1>2, Zenon DEF GrantRoleAccess, RoleGranted
<1>3. CASE AssignMember
  BY <1>3, Zenon DEF AssignMember, RoleAssigned
<1>4. CASE LoseAnswer
  <2>1. CASE At("create") /\ CreateRoleEffect
    BY <2>1, Created
  <2>2. CASE At("grant") /\ \E x \in Head(todo).left : RoleGrantEffect(x)
    BY <2>2, Zenon DEF RoleGranted
  <2>3. CASE At("assign") /\ \E x \in Head(todo).left : AssignEffect(x)
    BY <2>3, Zenon DEF RoleAssigned
  <2> QED
    BY <1>0, <1>4, <2>1, <2>2, <2>3, Zenon
    DEF LoseAnswer, BootstrapEffect, GrantEffect, WarehouseEffect,
        TupleEffect, lakekeeper
<1>5. CASE DeleteRole
  BY <1>5, Zenon DEF DeleteRole, RoleRemoved, Loss
<1>6. CASE OtherRole
  BY <1>6, Zenon DEF OtherRole, RoleAdded
<1>7. CASE Work /\ ~CreateRole /\ ~GrantRoleAccess /\ ~AssignMember
  BY <1>0, <1>7, Zenon
  DEF Work, Begin, Bootstrap, BootstrapEffect, EnsureGrants, GrantEffect,
      EnsureWarehouse, WarehouseEffect, ReadMembers, PlanAccess, EndLoop,
      FindRole, WriteTuple, TupleEffect, Finish, Refused, lakekeeper
<1>8. CASE \/ WarehouseConflict \/ Fail \/ EditWarehouse \/ Join \/ Leave
           \/ RecreateKeycloak \/ ReplaceStore \/ BootstrapByUser
  BY <1>0, <1>8, Zenon
  DEF WarehouseConflict, Fail, EditWarehouse, Join, Leave, Move,
      RecreateKeycloak, ReplaceStore, BootstrapByUser, lakekeeper
<1> QED
  BY <1>0, <1>1, <1>2, <1>3, <1>4, <1>5, <1>6, <1>7, <1>8, Zenon DEF Next

\* What can happen to the pass.
Begun ==
    /\ todo = << >> /\ todo' = Opening /\ req' = want /\ fga' = store
    /\ read' = [g \in GroupNames |-> {}] /\ roleID' = 0
Popped ==
    /\ todo # << >> /\ todo' = Tail(todo) /\ UNCHANGED pass
    /\ \/ At("bootstrap") /\ owner' # "nobody"
       \/ At("warehouse")
       \/ Head(todo).op \in Loops /\ Head(todo).left = {}
MembersRead ==
    /\ At("members") /\ todo' = Tail(todo) /\ UNCHANGED <<req, fga, roleID>>
    /\ read' = [read EXCEPT ![Of] = PrincipalsOf(members[Of])]
Written(x) ==
    /\ todo # << >> /\ Head(todo).op \in Loops /\ Done(x) /\ UNCHANGED pass
    /\ At("principal") => <<Of, x>> \in grants'
    /\ At("grant") => <<roleID, Right(x, req)>> \in roleGrants'
    /\ At("assign") => <<roleID, x>> \in assigned'
    /\ At("tuple") => <<x, Of>> \in tuples'
AccessPlanned ==
    /\ At("plan") /\ Allowed /\ req \in warehouses
    /\ todo' = Planned \o Tail(todo) /\ UNCHANGED pass
RoleMissing ==
    /\ At("role") /\ UNCHANGED pass
    /\ Then(<<Step("create", Of, Head(todo).left)>>)
RoleFound ==
    /\ At("role") \/ At("create")
    /\ UNCHANGED <<req, fga, read>>
    /\ \E i \in 1..Len(roles') : roles'[i].name = Of /\ UseRole(roles'[i].id)
PassChange ==
    \/ UNCHANGED <<todo, pass>>
    \/ todo' = << >> /\ UNCHANGED pass
    \/ Begun \/ Popped \/ MembersRead
    \/ \E x \in Head(todo).left : Written(x)
    \/ AccessPlanned \/ RoleMissing \/ RoleFound

\* A pass is at one call.
LEMMA OneOp ==
    ASSUME NEW op, At(op)
    PROVE  /\ todo # << >> /\ Head(todo).op = op
           /\ \A other : other # op => ~At(other)
BY Zenon DEF At

\* The list of roles after one has been added, and after one has gone.
RoleType(n) == [name : GroupNames \cup {"other"}, id : 1..n]

\* Ids in use have been given out; the next one is new.
LEMMA RoleTypes ==
    ASSUME TypeInv
    PROVE  /\ made \in Nat /\ roles \in Seq(RoleType(made))
           /\ roles \in Seq(RoleType(made + 1))
           /\ \A k \in 1..Len(roles) :
                 /\ roles[k].id \in 1..made /\ roles[k].id # made + 1
                 /\ roles[k].name \in GroupNames \cup {"other"}
<1>1. made \in Nat /\ roles \in Seq(RoleType(made))
  BY DEF TypeInv, TypeOK, RoleType
<1>2. \A k \in 1..Len(roles) : roles[k] \in RoleType(made)
  BY <1>1, SeqLen
<1>3. \A k \in 1..Len(roles) :
         /\ roles[k].id \in 1..made
         /\ roles[k].name \in GroupNames \cup {"other"}
  BY <1>2 DEF RoleType
<1>4. \A n \in 1..made : n # made + 1 /\ n \in 1..(made + 1)
  BY <1>1
<1>5. \A r \in RoleType(made) : r \in RoleType(made + 1)
  BY <1>4 DEF RoleType
<1>6. roles \in Seq(RoleType(made + 1))
  <2> DEFINE A == RoleType(made)
             B == RoleType(made + 1)
  <2>1. roles \in Seq(A) /\ A \subseteq B
    BY <1>1, <1>5
  <2> HIDE DEF A, B
  <2>2. roles \in Seq(B)
    BY <2>1
  <2> QED
    BY <2>2 DEF B
<1> QED
  BY <1>1, <1>3, <1>4, <1>6

\* A role that is made is listed, and so are all others.
LEMMA RoleInserted ==
    ASSUME TypeInv, NEW g \in GroupNames \cup {"other"},
           NEW i \in 1..(Len(roles) + 1), AddRoleAt(i, g)
    PROVE  /\ made' = made + 1 /\ roles' \in Seq(RoleType(made'))
           /\ \A k \in 1..Len(roles') :
                 \/ roles'[k].name = g /\ roles'[k].id = made'
                 \/ \E j \in 1..Len(roles) : roles'[k] = roles[j]
           /\ \A j \in 1..Len(roles) : \E k \in 1..Len(roles') :
                 roles'[k] = roles[j]
           /\ \E k \in 1..Len(roles') :
                 roles'[k].name = g /\ roles'[k].id = made'
<1> DEFINE a == [name |-> g, id |-> made + 1]
           B == RoleType(made + 1)
<1>1. made \in Nat /\ roles \in Seq(B)
  BY RoleTypes
<1>2. made + 1 \in 1..(made + 1)
  BY <1>1
<1>3. a \in B /\ a.name = g /\ a.id = made + 1
  BY <1>2 DEF RoleType
<1>4. made' = made + 1
  BY DEF AddRoleAt
<1>5. roles' = SubSeq(roles, 1, i - 1) \o <<a>> \o SubSeq(roles, i, Len(roles))
  BY DEF AddRoleAt
<1> HIDE DEF a, B
<1>6. WithElement(B, roles, a, roles')
  BY <1>1, <1>3, <1>5, InsertSeq, Zenon
<1>7. roles' \in Seq(RoleType(made'))
  BY <1>4, <1>6, Zenon DEF B, WithElement
<1> QED
  BY <1>3, <1>4, <1>6, <1>7, Zenon DEF WithElement

\* All but the deleted role stay listed.
LEMMA RoleTaken ==
    ASSUME TypeInv, NEW i \in 1..Len(roles), RemoveRoleAt(i)
    PROVE  /\ roles' \in Seq(RoleType(made))
           /\ \A k \in 1..Len(roles') : \E j \in 1..Len(roles) :
                 roles'[k] = roles[j]
           /\ \A j \in 1..Len(roles) :
                 j # i => \E k \in 1..Len(roles') : roles'[k] = roles[j]
<1>1. roles \in Seq(RoleType(made))
  BY RoleTypes
<1>2. roles' = SubSeq(roles, 1, i - 1) \o SubSeq(roles, i + 1, Len(roles))
  BY DEF RemoveRoleAt
<1>3. WithoutElement(RoleType(made), roles, i, roles')
  BY <1>1, <1>2, RemoveSeq, Zenon
<1> QED
  BY <1>3, Zenon DEF WithoutElement

\* How any step changes the running pass: it begins, ends, stays, goes on with
\* the rest, plans the access groups, or works at the step it is at.
LEMMA PassChanged ==
    ASSUME TypeInv, StepsSound, [Next]_vars
    PROVE  PassChange
<1>0. SUFFICES ASSUME ~UNCHANGED <<todo, pass>>, Next
               PROVE  PassChange
  BY DEF PassChange, vars, pass
<1>1. CASE Begin
  BY <1>1, Zenon DEF Begin, PassChange, Begun
<1>2. CASE Bootstrap
  <2>1. At("bootstrap") /\ todo # << >> /\ todo' = Tail(todo) /\ UNCHANGED pass
    BY <1>2, Zenon DEF Bootstrap, At
  <2>2. owner' # "nobody"
    BY <1>2 DEF Bootstrap, BootstrapEffect
  <2> QED
    BY <2>1, <2>2, Zenon DEF PassChange, Popped
<1>3. CASE EnsureGrants
  <2>1. PICK x \in Head(todo).left : GrantEffect(x) /\ Done(x)
    BY <1>3, Zenon DEF EnsureGrants
  <2>2. At("principal") /\ UNCHANGED pass
    BY <1>3, Zenon DEF EnsureGrants
  <2>3. <<Of, x>> \in grants'
    BY <2>1, Zenon DEF GrantEffect
  <2>4. Written(x)
    BY <2>1, <2>2, <2>3, OneOp DEF Written, Loops
  <2> QED
    BY <2>4 DEF PassChange
<1>4. CASE EnsureWarehouse \/ WarehouseConflict
  <2>1. At("warehouse") /\ todo # << >> /\ todo' = Tail(todo) /\ UNCHANGED pass
    BY <1>4, Zenon DEF EnsureWarehouse, WarehouseConflict, At
  <2> QED
    BY <2>1, Zenon DEF PassChange, Popped
<1>5. CASE ReadMembers
  BY <1>5, Zenon DEF ReadMembers, PassChange, MembersRead
<1>6. CASE PlanAccess
  BY <1>6, Zenon DEF PlanAccess, PassChange, AccessPlanned, Then, Planned
<1>7. CASE EndLoop
  BY <1>7, Zenon DEF EndLoop, PassChange, Popped
<1>8. CASE FindRole
  <2>0. /\ At("role") /\ UNCHANGED <<req, fga, read>>
        /\ roles' = roles
    BY <1>8, Zenon DEF FindRole, lakekeeper, access
  <2>1. CASE \E i \in 1..Len(roles) :
                FoundOnPage(Of, i) /\ UseRole(roles[i].id)
    <3>1. \E i \in 1..Len(roles') :
             roles'[i].name = Of /\ UseRole(roles'[i].id)
      BY <2>0, <2>1, Zenon DEF FoundOnPage, Listed
    <3> QED
      BY <2>0, <3>1, Zenon DEF PassChange, RoleFound
  <2>2. CASE /\ Then(<<Step("create", Of, Head(todo).left)>>)
             /\ UNCHANGED roleID
    BY <2>0, <2>2, Zenon DEF PassChange, RoleMissing, pass
  <2> QED
    BY <1>8, <2>1, <2>2, Zenon DEF FindRole
<1>9. CASE CreateRole
  <2>0. At("create") /\ UNCHANGED <<req, fga, read>>
    BY <1>9, Zenon DEF CreateRole
  <2>1. CASE CreateRoleEffect /\ UseRole(made')
    <3>1. Of \in GroupNames
      BY <2>0, RoleOf DEF At, Of
    <3>2. PICK i \in 1..(Len(roles) + 1) : AddRoleAt(i, Of)
      BY <2>1, Zenon DEF CreateRoleEffect
    <3>3. \E k \in 1..Len(roles') :
             roles'[k].name = Of /\ roles'[k].id = made'
      BY <3>1, <3>2, RoleInserted, Zenon
    <3> QED
      BY <2>0, <2>1, <3>3, Zenon DEF PassChange, RoleFound
  <2>2. CASE /\ roles' = roles
             /\ \E i \in 1..Len(roles) :
                   FoundOnPage(Of, i) /\ UseRole(roles[i].id)
    <3>1. \E i \in 1..Len(roles') :
             roles'[i].name = Of /\ UseRole(roles'[i].id)
      BY <2>2, Zenon DEF FoundOnPage, Listed
    <3> QED
      BY <2>0, <3>1, Zenon DEF PassChange, RoleFound
  <2>3. CASE todo' = << >> /\ UNCHANGED roleID
    BY <2>0, <2>3, Zenon DEF PassChange, pass
  <2> QED
    BY <1>9, <2>1, <2>2, <2>3, Zenon DEF CreateRole, lakekeeper, access
<1>10. CASE GrantRoleAccess
  <2>1. PICK x \in Head(todo).left : RoleGrantEffect(x) /\ Done(x)
    BY <1>10, Zenon DEF GrantRoleAccess
  <2>2. At("grant") /\ UNCHANGED pass
    BY <1>10, Zenon DEF GrantRoleAccess
  <2>3. <<roleID, Right(x, req)>> \in roleGrants'
    BY <2>1, Zenon DEF RoleGrantEffect
  <2>4. Written(x)
    BY <2>1, <2>2, <2>3, OneOp DEF Written, Loops
  <2> QED
    BY <2>4 DEF PassChange
<1>11. CASE AssignMember
  <2>1. PICK x \in Head(todo).left : AssignEffect(x) /\ Done(x)
    BY <1>11, Zenon DEF AssignMember
  <2>2. At("assign") /\ UNCHANGED pass
    BY <1>11, Zenon DEF AssignMember
  <2>3. <<roleID, x>> \in assigned'
    BY <2>1, Zenon DEF AssignEffect
  <2>4. Written(x)
    BY <2>1, <2>2, <2>3, OneOp DEF Written, Loops
  <2> QED
    BY <2>4 DEF PassChange
<1>12. CASE WriteTuple
  <2>1. PICK x \in Head(todo).left : TupleEffect(x) /\ Done(x)
    BY <1>12, Zenon DEF WriteTuple
  <2>2. At("tuple") /\ UNCHANGED pass
    BY <1>12, Zenon DEF WriteTuple
  <2>3. <<x, Of>> \in tuples'
    BY <2>1, Zenon DEF TupleEffect
  <2>4. Written(x)
    BY <2>1, <2>2, <2>3, OneOp DEF Written, Loops
  <2> QED
    BY <2>4 DEF PassChange
<1>13. CASE Finish \/ Refused \/ Fail \/ LoseAnswer
  BY <1>13, Zenon DEF Finish, Refused, Fail, LoseAnswer, PassChange
<1>14. CASE EditWarehouse \/ Join \/ Leave \/ RecreateKeycloak \/ DeleteRole
            \/ ReplaceStore \/ OtherRole \/ BootstrapByUser
  BY <1>0, <1>14, Zenon
  DEF EditWarehouse, Join, Leave, Move, RecreateKeycloak, DeleteRole,
      ReplaceStore, OtherRole, BootstrapByUser, Operator
<1> QED
  BY <1>0, <1>1, <1>2, <1>3, <1>4, <1>5, <1>6, <1>7, <1>8, <1>9, <1>10, <1>11,
     <1>12, <1>13, <1>14, Zenon DEF Next, Work

-----------------------------------------------------------------------------
(***************************************************************************)
(* Types: the steps that are left and what the pass has read are sound.    *)
(***************************************************************************)

\* The work of a pass leaves the spec, Keycloak and the budgets alone, and
\* the rest of the system leaves most of them alone.
LEMMA OutsideChanged ==
    ASSUME [Next]_vars
    PROVE  /\ UNCHANGED spec \/ EditWarehouse
           /\ UNCHANGED keycloak \/ Join \/ Leave \/ RecreateKeycloak
           /\ UNCHANGED budget \/ Fault \/ Loss
<1>1. CASE Work
  <2>1. Outside
    BY <1>1, Zenon
    DEF Work, Begin, Bootstrap, EnsureGrants, EnsureWarehouse, ReadMembers,
        PlanAccess, EndLoop, FindRole, CreateRole, GrantRoleAccess,
        AssignMember, WriteTuple, Finish, Refused
  <2> QED
    BY <2>1, Zenon DEF Outside
<1>2. CASE WarehouseConflict \/ Fail \/ LoseAnswer
  BY <1>2, Zenon DEF WarehouseConflict, Fail, LoseAnswer
<1>3. CASE EditWarehouse
  BY <1>3, Zenon DEF EditWarehouse
<1>4. CASE Join \/ Leave
  BY <1>4, Zenon DEF Join, Leave, Move
<1>5. CASE RecreateKeycloak \/ DeleteRole \/ ReplaceStore
  BY <1>5, Zenon DEF RecreateKeycloak, DeleteRole, ReplaceStore
<1>6. CASE OtherRole \/ BootstrapByUser
  BY <1>6, Zenon DEF OtherRole, BootstrapByUser
<1>7. CASE UNCHANGED vars
  BY <1>7, Zenon DEF vars, spec, keycloak, budget
<1> QED
  BY <1>1, <1>2, <1>3, <1>4, <1>5, <1>6, <1>7, Zenon DEF Next

\* Who has been a member stays so.
LEMMA KeycloakTypes ==
    ASSUME TypedInv, [Next]_vars
    PROVE  /\ want' \in Warehouses /\ edits' \in 0..MaxEdits
           /\ members' \in [GroupNames -> SUBSET Users]
           /\ been' \in [GroupNames -> SUBSET Users]
           /\ moves' \in 0..MaxMoves
           /\ faults' \in 0..MaxFaults /\ losses' \in 0..MaxLosses
           /\ losses' = losses \/ losses' = losses + 1
           /\ \A g \in GroupNames : /\ been[g] \subseteq been'[g]
                                    /\ members'[g] \subseteq been'[g]
                                    /\ Imported[g] \subseteq been'[g]
<1>1. /\ want \in Warehouses /\ edits \in 0..MaxEdits
      /\ members \in [GroupNames -> SUBSET Users]
      /\ been \in [GroupNames -> SUBSET Users]
      /\ moves \in 0..MaxMoves
      /\ faults \in 0..MaxFaults /\ losses \in 0..MaxLosses
  BY DEF TypedInv, TypeInv, TypeOK
<1>2. \A g \in GroupNames : members[g] \subseteq been[g] /\ Imported[g] \subseteq been[g]
  BY DEF TypedInv, ReadSound
<1>3. want' \in Warehouses /\ edits' \in 0..MaxEdits
  <2>1. CASE UNCHANGED spec
    BY <1>1, <2>1 DEF spec
  <2>2. CASE EditWarehouse
    BY <1>1, <2>2, CatalogConstants DEF EditWarehouse
  <2> QED
    BY <2>1, <2>2, OutsideChanged
<1>4. /\ faults' \in 0..MaxFaults /\ losses' \in 0..MaxLosses
      /\ losses' = losses \/ losses' = losses + 1
  <2>1. CASE UNCHANGED budget
    BY <1>1, <2>1 DEF budget
  <2>2. CASE Fault
    BY <1>1, <2>2, CatalogConstants DEF Fault
  <2>3. CASE Loss
    BY <1>1, <2>3, CatalogConstants DEF Loss
  <2> QED
    BY <2>1, <2>2, <2>3, OutsideChanged
<1>5. /\ members' \in [GroupNames -> SUBSET Users]
      /\ been' \in [GroupNames -> SUBSET Users]
      /\ moves' \in 0..MaxMoves
      /\ \A g \in GroupNames : /\ been[g] \subseteq been'[g]
                               /\ members'[g] \subseteq been'[g]
                               /\ Imported[g] \subseteq been'[g]
  <2>1. CASE UNCHANGED keycloak
    <3>1. members' = members /\ been' = been /\ moves' = moves
      BY <2>1 DEF keycloak
    <3> QED
      BY <1>1, <1>2, <3>1, Zenon
  <2>2. CASE Join \/ Leave
    <3>1. PICK g \in GroupNames, us \in SUBSET Users : Move(g, us)
      <4>1. CASE Join
        BY <1>1, <4>1 DEF Join
      <4>2. CASE Leave
        BY <1>1, <4>2 DEF Leave
      <4> QED
        BY <2>2, <4>1, <4>2
    <3>2. moves' \in 0..MaxMoves
      BY <1>1, <3>1, CatalogConstants DEF Move
    <3>3. /\ members' = [members EXCEPT ![g] = us]
          /\ been' = [been EXCEPT ![g] = been[g] \cup us]
      BY <3>1 DEF Move
    <3>4. /\ members' \in [GroupNames -> SUBSET Users]
          /\ been' \in [GroupNames -> SUBSET Users]
      BY <1>1, <3>3
    <3>5. \A h \in GroupNames :
             /\ members'[h] = IF h = g THEN us ELSE members[h]
             /\ been'[h] = IF h = g THEN been[g] \cup us ELSE been[h]
      BY <1>1, <3>3
    <3>6. \A h \in GroupNames : /\ been[h] \subseteq been'[h]
                                /\ members'[h] \subseteq been'[h]
                                /\ Imported[h] \subseteq been'[h]
      BY <1>2, <3>5
    <3> QED
      BY <3>2, <3>4, <3>6
  <2>3. CASE RecreateKeycloak
    <3>1. members' = Imported /\ been' = been /\ moves' = moves
      BY <2>3 DEF RecreateKeycloak
    <3>2. Imported \in [GroupNames -> SUBSET Users]
      BY CatalogConstants
    <3> QED
      BY <1>1, <1>2, <3>1, <3>2, Zenon
  <2> QED
    BY <2>1, <2>2, <2>3, OutsideChanged
<1> QED
  BY <1>3, <1>4, <1>5

\* What is left of a step is what it is about.
LEMMA LeftTypes ==
    ASSUME TypedInv, todo # << >>
    PROVE  /\ Head(todo).op \in {"role", "create", "grant"} =>
                 Head(todo).left \subseteq Relations
           /\ Head(todo).op = "principal" =>
                 Head(todo).of \in Names /\ Head(todo).left \subseteq Relations
           /\ Head(todo).op \in {"assign", "tuple"} =>
                 /\ Head(todo).left \subseteq Users
                 /\ Head(todo).left \subseteq Humans(been[Head(todo).of])
<1>1. TypeInv /\ StepsSound /\ been \in [GroupNames -> SUBSET Users]
  BY DEF TypedInv, TypeInv, TypeOK
<1>2. \A h : GroupSound(h) => h.left \subseteq Relations
  BY GroupFacts, Zenon DEF GroupSound
<1>3. \A h : PrincipalSound(h) => h.of \in Names /\ h.left \subseteq Relations
  BY GroupFacts, Zenon DEF PrincipalSound
<1>4. \A h : MemberSound(been, h) => /\ h.left \subseteq Users
                               /\ h.left \subseteq Humans(been[h.of])
  BY <1>1 DEF MemberSound, Humans
<1> QED
  BY <1>1, <1>2, <1>3, <1>4, RoleOf, Zenon

\* Grants and assignments are those of roles that exist.
LEMMA RolesTyped ==
    ASSUME TypedInv, [Next]_vars
    PROVE  /\ made' \in Nat /\ made <= made'
           /\ roles' \in Seq(RoleType(made'))
           /\ roleGrants' \subseteq RoleIDs' \X Rights
           /\ assigned' \subseteq RoleIDs' \X Users
<1>0. TypeInv /\ StepsSound
  BY DEF TypedInv
<1>1. /\ made \in Nat /\ roles \in Seq(RoleType(made))
      /\ roleGrants \subseteq RoleIDs \X Rights
      /\ assigned \subseteq RoleIDs \X Users
  BY <1>0 DEF TypeInv, TypeOK, RoleType
<1>2. CASE UNCHANGED access
  <2>1. made' = made /\ roles' = roles /\ roleGrants' = roleGrants
        /\ assigned' = assigned
    BY <1>2 DEF access
  <2>2. RoleIDs' = RoleIDs
    BY <2>1 DEF RoleIDs
  <2>3. made <= made
    BY <1>1
  <2> QED
    BY <1>1, <2>1, <2>2, <2>3, Zenon
<1>3. CASE RoleAdded
  <2>1. PICK i \in 1..(Len(roles) + 1), g \in GroupNames \cup {"other"} :
           AddRoleAt(i, g)
    BY <1>3, Zenon DEF RoleAdded
  <2>2. /\ made' = made + 1 /\ roles' \in Seq(RoleType(made'))
        /\ \A j \in 1..Len(roles) : \E k \in 1..Len(roles') :
              roles'[k] = roles[j]
    BY <1>0, <2>1, RoleInserted, Zenon
  <2>3. RoleIDs \subseteq RoleIDs'
    BY <2>2, Zenon DEF RoleIDs
  <2>4. roleGrants' = roleGrants /\ assigned' = assigned
    BY <1>3, Zenon DEF RoleAdded
  <2>5. made' \in Nat /\ made <= made'
    BY <1>1, <2>2
  <2>6. roleGrants' \subseteq RoleIDs' \X Rights
        /\ assigned' \subseteq RoleIDs' \X Users
    BY <1>1, <2>3, <2>4
  <2> QED
    BY <2>2, <2>5, <2>6
<1>4. CASE RoleGranted
  <2>1. PICK x \in Head(todo).left : RoleGrantEffect(x)
    BY <1>4, Zenon DEF RoleGranted
  <2>2. Right(x, req) \in Rights
    <3>1. x \in Relations
      BY <1>4, <2>1, LeftTypes DEF RoleGranted, At
    <3>2. req \in Warehouses \cup {None}
      BY <1>0 DEF TypeInv, TypeOK
    <3> QED
      BY <3>1, <3>2 DEF Right, Rights
  <2>3. /\ roleID \in RoleIDs
        /\ roleGrants' = roleGrants \cup {<<roleID, Right(x, req)>>}
        /\ roles' = roles /\ made' = made /\ assigned' = assigned
    BY <2>1, Zenon DEF RoleGrantEffect
  <2>4. RoleIDs' = RoleIDs
    BY <2>3, Zenon DEF RoleIDs
  <2>5. made <= made
    BY <1>1
  <2>6. roleGrants' \subseteq RoleIDs \X Rights
    BY <1>1, <2>2, <2>3
  <2> QED
    BY <1>1, <2>3, <2>4, <2>5, <2>6, Zenon
<1>5. CASE RoleAssigned
  <2>1. PICK x \in Head(todo).left : AssignEffect(x)
    BY <1>5, Zenon DEF RoleAssigned
  <2>2. x \in Users
    BY <1>5, <2>1, LeftTypes DEF RoleAssigned, At
  <2>3. /\ roleID \in RoleIDs /\ assigned' = assigned \cup {<<roleID, x>>}
        /\ roles' = roles /\ made' = made /\ roleGrants' = roleGrants
    BY <2>1, Zenon DEF AssignEffect
  <2>4. RoleIDs' = RoleIDs
    BY <2>3, Zenon DEF RoleIDs
  <2>5. made <= made
    BY <1>1
  <2>6. assigned' \subseteq RoleIDs \X Users
    BY <1>1, <2>2, <2>3
  <2> QED
    BY <1>1, <2>3, <2>4, <2>5, <2>6, Zenon
<1>6. CASE RoleRemoved
  <2>1. PICK i \in 1..Len(roles) : RemoveRoleAt(i)
    BY <1>6, Zenon DEF RoleRemoved
  <2>2. /\ roles' \in Seq(RoleType(made))
        /\ \A j \in 1..Len(roles) :
              j # i => \E k \in 1..Len(roles') : roles'[k] = roles[j]
    BY <1>0, <2>1, RoleTaken, Zenon
  <2>3. made' = made
    BY <1>6, Zenon DEF RoleRemoved
  <2>4. \A d \in RoleIDs : d # roles[i].id => d \in RoleIDs'
    BY <2>2, Zenon DEF RoleIDs
  <2>5. /\ roleGrants' = {q \in roleGrants : q[1] # roles[i].id}
        /\ assigned' = {q \in assigned : q[1] # roles[i].id}
    BY <2>1, Zenon DEF RemoveRoleAt
  <2>6. roleGrants' \subseteq RoleIDs' \X Rights
        /\ assigned' \subseteq RoleIDs' \X Users
    BY <1>1, <2>4, <2>5
  <2>7. made <= made
    BY <1>1
  <2> QED
    BY <1>1, <2>2, <2>3, <2>6, <2>7, Zenon
<1> QED
  BY <1>0, <1>2, <1>3, <1>4, <1>5, <1>6, RolesChanged, Zenon DEF RolesChange

\* The other stores: what is written has been asked for.
GrantsChange ==
    \/ UNCHANGED grants
    \/ At("principal") /\ \E x \in Head(todo).left :
          grants' = grants \cup {<<Of, x>>}
TuplesChange ==
    \/ UNCHANGED <<store, tuples>>
    \/ /\ At("tuple") /\ store' = store
       /\ \E x \in Head(todo).left : tuples' = tuples \cup {<<x, Of>>}
    \/ /\ losses' = losses + 1 /\ store # 0 /\ store' = store + 1
       /\ tuples' = {}
OwnerChange ==
    \/ UNCHANGED owner
    \/ owner = "nobody" /\ owner' \in {"operator", "user"}
HousesChange ==
    \/ UNCHANGED warehouses
    \/ At("warehouse") /\ warehouses' = warehouses \cup {req}

\* How any step changes LakeKeeper's grants, owner and warehouses, and
\* OpenFGA's tuples: what the operator writes is what its step was for.
LEMMA StoresChanged ==
    ASSUME [Next]_vars
    PROVE  GrantsChange /\ TuplesChange /\ OwnerChange /\ HousesChange
<1>1. CASE Bootstrap
  BY <1>1, Zenon
  DEF Bootstrap, BootstrapEffect, openfga, GrantsChange, TuplesChange,
      OwnerChange, HousesChange
<1>2. CASE EnsureGrants
  BY <1>2, Zenon
  DEF EnsureGrants, GrantEffect, openfga, GrantsChange, TuplesChange,
      OwnerChange, HousesChange
<1>3. CASE EnsureWarehouse
  BY <1>3, Zenon
  DEF EnsureWarehouse, WarehouseEffect, lakekeeper, openfga, GrantsChange,
      TuplesChange, OwnerChange, HousesChange
<1>4. CASE CreateRole
  BY <1>4, Zenon
  DEF CreateRole, CreateRoleEffect, lakekeeper, openfga, GrantsChange,
      TuplesChange, OwnerChange, HousesChange
<1>5. CASE GrantRoleAccess
  BY <1>5, Zenon
  DEF GrantRoleAccess, RoleGrantEffect, openfga, GrantsChange, TuplesChange,
      OwnerChange, HousesChange
<1>6. CASE AssignMember
  BY <1>6, Zenon
  DEF AssignMember, AssignEffect, openfga, GrantsChange, TuplesChange,
      OwnerChange, HousesChange
<1>7. CASE WriteTuple
  BY <1>7, Zenon
  DEF WriteTuple, TupleEffect, lakekeeper, GrantsChange, TuplesChange,
      OwnerChange, HousesChange
<1>8. CASE Begin \/ ReadMembers \/ PlanAccess \/ EndLoop \/ FindRole
           \/ Finish \/ Refused \/ Fail \/ EditWarehouse \/ Join \/ Leave
           \/ RecreateKeycloak \/ WarehouseConflict
  <2>1. UNCHANGED <<lakekeeper, openfga>>
    BY <1>8, Zenon
    DEF Begin, ReadMembers, PlanAccess, EndLoop, FindRole, Finish, Refused,
        Fail, EditWarehouse, Join, Leave, Move, RecreateKeycloak,
        WarehouseConflict
  <2> QED
    BY <2>1, Zenon
    DEF lakekeeper, openfga, GrantsChange, TuplesChange, OwnerChange,
        HousesChange
<1>9. CASE LoseAnswer
  <2>1. CASE BootstrapEffect
    BY <2>1, Zenon
    DEF BootstrapEffect, openfga, GrantsChange, TuplesChange, OwnerChange,
        HousesChange
  <2>2. CASE At("principal") /\ \E x \in Head(todo).left : GrantEffect(x)
    BY <2>2, Zenon
    DEF GrantEffect, openfga, GrantsChange, TuplesChange, OwnerChange,
        HousesChange
  <2>3. CASE At("warehouse") /\ WarehouseEffect
    BY <2>3, Zenon
    DEF WarehouseEffect, openfga, GrantsChange, TuplesChange, OwnerChange,
        HousesChange
  <2>4. CASE CreateRoleEffect
    BY <2>4, Zenon
    DEF CreateRoleEffect, openfga, GrantsChange, TuplesChange, OwnerChange,
        HousesChange
  <2>5. CASE \E x \in Head(todo).left : RoleGrantEffect(x)
    BY <2>5, Zenon
    DEF RoleGrantEffect, openfga, GrantsChange, TuplesChange, OwnerChange,
        HousesChange
  <2>6. CASE \E x \in Head(todo).left : AssignEffect(x)
    BY <2>6, Zenon
    DEF AssignEffect, openfga, GrantsChange, TuplesChange, OwnerChange,
        HousesChange
  <2>7. CASE At("tuple") /\ \E x \in Head(todo).left : TupleEffect(x)
    BY <2>7, Zenon
    DEF TupleEffect, lakekeeper, GrantsChange, TuplesChange, OwnerChange,
        HousesChange
  <2> QED
    BY <1>9, <2>1, <2>2, <2>3, <2>4, <2>5, <2>6, <2>7, Zenon DEF LoseAnswer
<1>10. CASE DeleteRole \/ OtherRole \/ BootstrapByUser
  BY <1>10, Zenon
  DEF DeleteRole, OtherRole, BootstrapByUser, openfga, GrantsChange,
      TuplesChange, OwnerChange, HousesChange
<1>11. CASE ReplaceStore
  BY <1>11, Zenon
  DEF ReplaceStore, Loss, lakekeeper, GrantsChange, TuplesChange, OwnerChange,
      HousesChange
<1>12. CASE UNCHANGED vars
  BY <1>12, Zenon
  DEF vars, GrantsChange, TuplesChange, OwnerChange, HousesChange
<1> QED
  BY <1>1, <1>2, <1>3, <1>4, <1>5, <1>6, <1>7, <1>8, <1>9, <1>10, <1>11,
     <1>12, Zenon DEF Next, Work

\* What LakeKeeper and OpenFGA have stays well-typed.
LEMMA StoresTyped ==
    ASSUME TypedInv, [Next]_vars
    PROVE  /\ owner' \in {"nobody", "operator", "user"}
           /\ grants' \subseteq Names \X Relations
           /\ warehouses' \subseteq Warehouses
           /\ store' \in Nat /\ tuples' \subseteq Users \X GroupNames
<1>0. TypeInv /\ StepsSound
  BY DEF TypedInv
<1>1. /\ owner \in {"nobody", "operator", "user"}
      /\ grants \subseteq Names \X Relations
      /\ warehouses \subseteq Warehouses
      /\ store \in Nat /\ tuples \subseteq Users \X GroupNames
  BY <1>0 DEF TypeInv, TypeOK, Names
<1>2. GrantsChange /\ TuplesChange /\ OwnerChange /\ HousesChange
  BY StoresChanged
<1>3. owner' \in {"nobody", "operator", "user"}
  BY <1>1, <1>2 DEF OwnerChange
<1>4. grants' \subseteq Names \X Relations
  <2>1. CASE UNCHANGED grants
    BY <1>1, <2>1
  <2>2. CASE At("principal") /\ \E x \in Head(todo).left :
                grants' = grants \cup {<<Of, x>>}
    <3>1. Of \in Names /\ Head(todo).left \subseteq Relations
      BY <2>2, LeftTypes DEF At, Of
    <3>2. PICK x \in Head(todo).left : grants' = grants \cup {<<Of, x>>}
      BY <2>2
    <3>3. <<Of, x>> \in Names \X Relations
      BY <3>1, <3>2
    <3> QED
      BY <1>1, <3>2, <3>3
  <2> QED
    BY <1>2, <2>1, <2>2 DEF GrantsChange
<1>5. warehouses' \subseteq Warehouses
  <2>1. At("warehouse") => req \in Warehouses
    BY DEF At, TypedInv, ReqGiven
  <2> QED
    BY <1>1, <1>2, <2>1 DEF HousesChange
<1>6. store' \in Nat /\ tuples' \subseteq Users \X GroupNames
  <2>1. CASE UNCHANGED <<store, tuples>>
    BY <1>1, <2>1
  <2>2. CASE /\ At("tuple") /\ store' = store
             /\ \E x \in Head(todo).left : tuples' = tuples \cup {<<x, Of>>}
    <3>1. Head(todo).left \subseteq Users
      BY <2>2, LeftTypes DEF At
    <3>2. Of \in GroupNames
      BY <1>0, <2>2, RoleOf DEF At, Of
    <3>3. PICK x \in Head(todo).left : tuples' = tuples \cup {<<x, Of>>}
      BY <2>2
    <3>4. <<x, Of>> \in Users \X GroupNames
      BY <3>1, <3>2, <3>3
    <3> QED
      BY <1>1, <2>2, <3>3, <3>4
  <2>3. CASE store' = store + 1 /\ tuples' = {}
    BY <1>1, <2>3
  <2> QED
    BY <1>2, <2>1, <2>2, <2>3 DEF TuplesChange
<1> QED
  BY <1>3, <1>4, <1>5, <1>6

\* The steps that a sound list of steps turns into are sound.
AllSound(s) == s \in Seq(StepSet) /\ \A k \in 1..Len(s) : Sound(been, s[k])

\* A step that was right stays right: who has been a member has been one.
LEMMA SoundGrows ==
    ASSUME TypedInv, [Next]_vars, NEW s, Sound(been, s)
    PROVE  Sound(been', s)
<1>1. \A g \in GroupNames : been[g] \subseteq been'[g]
  BY KeycloakTypes
<1>2. MemberSound(been, s) => MemberSound(been', s)
  BY <1>1 DEF MemberSound, Humans
<1> QED
  BY <1>2, Zenon DEF Sound, PrincipalSound, GroupSound

\* reconcileWarehouse begins with the principals' own relations.
LEMMA OpeningSound == AllSound(Opening)
<1>1. ASSUME NEW k \in 1..Len(Opening) PROVE Sound(been, Opening[k])
  <2>1. CASE Opening[k].op \in {"bootstrap", "warehouse", "plan"}
    BY <2>1 DEF Sound
  <2>2. CASE Opening[k].op = "members" /\ Opening[k].of \in GroupNames
    BY <2>2 DEF Sound
  <2>3. CASE /\ Opening[k].op = "principal"
             /\ \E i \in 1..Len(Principals) :
                   /\ Opening[k].of = Principals[i][1]
                   /\ Opening[k].left = Principals[i][2]
    <3>1. PrincipalSound(Opening[k])
      BY <2>3, Zenon DEF PrincipalSound
    <3> QED
      BY <2>3, <3>1 DEF Sound
  <2> QED
    BY <2>1, <2>2, <2>3, OpeningSteps
<1> QED
  BY <1>1, OpeningSteps DEF AllSound

\* EnsureAccessRoles is given the groups' relations and the members read.
LEMMA PlannedSound ==
    ASSUME TypedInv
    PROVE  AllSound(Planned)
<1>1. /\ read \in [GroupNames -> SUBSET Users]
      /\ \A g \in GroupNames : read[g] \subseteq Humans(been[g])
  BY DEF TypedInv, TypeInv, TypeOK, ReadSound
<1>2. ASSUME NEW k \in 1..Len(Planned) PROVE Sound(been, Planned[k])
  <2>1. CASE Planned[k].op = "done"
    BY <2>1 DEF Sound
  <2>2. CASE /\ Planned[k].op = "role"
             /\ \E i \in 1..Len(AccessGroups) :
                   /\ Planned[k].of = AccessGroups[i][1]
                   /\ Planned[k].left = AccessGroups[i][2]
    <3>1. GroupSound(Planned[k])
      BY <2>2, Zenon DEF GroupSound
    <3> QED
      BY <2>2, <3>1 DEF Sound
  <2>3. CASE /\ Planned[k].op = "tuple" /\ Planned[k].of \in GroupNames
             /\ Planned[k].left = read[Planned[k].of]
    <3>1. MemberSound(been, Planned[k])
      BY <1>1, <2>3, Zenon DEF MemberSound
    <3> QED
      BY <2>3, <3>1 DEF Sound
  <2> QED
    BY <1>1, <2>1, <2>2, <2>3, PlannedSteps
<1> QED
  BY <1>1, <1>2, PlannedSteps DEF AllSound

\* The step of a loop that has done x.
LEMMA DoneStep ==
    ASSUME TypedInv, todo # << >>, NEW x
    PROVE  LET a == Step(Head(todo).op, Of, Head(todo).left \ {x})
           IN  /\ a \in StepSet /\ Sound(been, a)
               /\ a.op = Head(todo).op /\ a.of = Head(todo).of
               /\ a.left = Head(todo).left \ {x}
<1> DEFINE h == Head(todo)
           a == Step(h.op, h.of, h.left \ {x})
<1>0. TypeInv /\ StepsSound
  BY DEF TypedInv
<1>1. /\ h.op \in Ops /\ h.of \in {"none"} \cup Names \cup GroupNames
      /\ h.left \subseteq Relations \cup Users /\ Sound(been, h)
  BY <1>0, HeadFacts
<1> HIDE DEF h
<1>2. h.left \ {x} \in SUBSET (Relations \cup Users)
  BY <1>1
<1>3. a \in StepSet
  BY <1>1, <1>2, StepMade, Zenon
<1>4. a.op = h.op /\ a.of = h.of /\ a.left = h.left \ {x}
  BY StepFields
<1> HIDE DEF a
<1>5. Sound(been, a)
  <2>1. PrincipalSound(h) => PrincipalSound(a)
    BY <1>4 DEF PrincipalSound
  <2>2. GroupSound(h) => GroupSound(a)
    BY <1>4 DEF GroupSound
  <2>3. MemberSound(been, h) => MemberSound(been, a)
    BY <1>4 DEF MemberSound
  <2> QED
    BY <1>1, <1>4, <2>1, <2>2, <2>3 DEF Sound
<1> QED
  BY <1>3, <1>4, <1>5 DEF a, h, Of

\* The steps for a role that is known, or has to be made.
LEMMA RoleStepsMade ==
    ASSUME TypedInv, At("role") \/ At("create")
    PROVE  /\ Step("grant", Of, Head(todo).left) \in StepSet
           /\ Step("assign", Of, read[Of]) \in StepSet
           /\ Step("create", Of, Head(todo).left) \in StepSet
           /\ Sound(been, Step("grant", Of, Head(todo).left))
           /\ Sound(been, Step("assign", Of, read[Of]))
           /\ Sound(been, Step("create", Of, Head(todo).left))
<1> DEFINE g == Of
           l == Head(todo).left
           grant == Step("grant", g, l)
           assign == Step("assign", g, read[g])
           create == Step("create", g, l)
<1>0. TypeInv /\ StepsSound /\ todo # << >>
  BY DEF TypedInv, At
<1>1. g \in GroupNames /\ GroupSound(Head(todo))
  BY <1>0, RoleOf DEF At, Of
<1>2. l \in SUBSET (Relations \cup Users)
  BY <1>0, HeadFacts
<1>3. read[g] \subseteq Humans(been[g]) /\ read[g] \in SUBSET (Relations \cup Users)
  <2>1. /\ read \in [GroupNames -> SUBSET Users]
        /\ \A e \in GroupNames : read[e] \subseteq Humans(been[e])
    BY DEF TypedInv, TypeInv, TypeOK, ReadSound
  <2> QED
    BY <1>1, <2>1
<1>4. PICK i \in 1..Len(AccessGroups) :
         g = AccessGroups[i][1] /\ l \subseteq AccessGroups[i][2]
  BY <1>1 DEF GroupSound, Of
<1> HIDE DEF g, l
<1>5. grant \in StepSet /\ assign \in StepSet /\ create \in StepSet
  <2>1. "grant" \in Ops /\ "assign" \in Ops /\ "create" \in Ops
    BY DEF Ops
  <2>2. g \in {"none"} \cup Names \cup GroupNames
    BY <1>1
  <2> QED
    BY <1>2, <1>3, <2>1, <2>2, StepMade, Zenon
<1>6. /\ grant.op = "grant" /\ grant.of = g /\ grant.left = l
      /\ assign.op = "assign" /\ assign.of = g /\ assign.left = read[g]
      /\ create.op = "create" /\ create.of = g /\ create.left = l
  BY StepFields
<1> HIDE DEF grant, assign, create
<1>7. GroupSound(grant) /\ GroupSound(create)
  BY <1>4, <1>6, Zenon DEF GroupSound
<1>8. MemberSound(been, assign)
  BY <1>1, <1>3, <1>6, Zenon DEF MemberSound
<1>9. Sound(been, grant) /\ Sound(been, assign) /\ Sound(been, create)
  BY <1>6, <1>7, <1>8 DEF Sound
<1> QED
  BY <1>5, <1>9 DEF grant, assign, create, g, l

\* Working at a step never adds to what it is for.
LEMMA PassSound ==
    ASSUME TypedInv, PassChange
    PROVE  AllSound(todo')
<1>1. todo \in Seq(StepSet) /\ \A k \in 1..Len(todo) : Sound(been, todo[k])
  BY DEF TypedInv, TypeInv, StepsSound
<1>2. CASE UNCHANGED <<todo, pass>>
  BY <1>1, <1>2, Zenon DEF AllSound
<1>3. CASE todo' = << >>
  BY <1>3 DEF AllSound
<1>4. CASE Begun
  BY <1>4, OpeningSound, Zenon DEF Begun
<1>5. CASE Popped \/ MembersRead
  <2>1. todo # << >> /\ todo' = Tail(todo)
    BY <1>5 DEF Popped, MembersRead, At
  <2>2. /\ Tail(todo) \in Seq(StepSet)
        /\ \A k \in 1..Len(Tail(todo)) :
              k + 1 \in 2..Len(todo) /\ Tail(todo)[k] = todo[k + 1]
    BY <1>1, <2>1, PopSeq
  <2>3. \A k \in 2..Len(todo) : k \in 1..Len(todo)
    OBVIOUS
  <2> QED
    BY <1>1, <2>1, <2>2, <2>3, Zenon DEF AllSound
<1>6. CASE \E x \in Head(todo).left : Written(x)
  <2>1. PICK x \in Head(todo).left : Written(x)
    BY <1>6
  <2> DEFINE a == Step(Head(todo).op, Of, Head(todo).left \ {x})
  <2>2. todo # << >> /\ todo' = <<a>> \o Tail(todo)
    BY <2>1, Zenon DEF Written, Done, Then
  <2>3. a \in StepSet /\ Sound(been, a)
    BY <2>2, DoneStep
  <2> HIDE DEF a
  <2>4. /\ todo' \in Seq(StepSet) /\ Len(todo') = Len(todo) /\ todo'[1] = a
        /\ \A k \in 2..Len(todo) : todo'[k] = todo[k]
    <3>1. HeadNow(StepSet, todo, a, todo')
      BY <1>1, <2>2, <2>3, PushOne, Zenon
    <3> QED
      BY <3>1, Zenon DEF HeadNow
  <2>5. \A k \in 1..Len(todo) : k = 1 \/ k \in 2..Len(todo)
    BY <1>1, SeqLen
  <2> QED
    BY <1>1, <2>3, <2>4, <2>5, Zenon DEF AllSound
<1>7. CASE AccessPlanned
  <2>1. /\ Tail(todo) \in Seq(StepSet)
        /\ \A k \in 1..Len(Tail(todo)) :
              k + 1 \in 2..Len(todo) /\ Tail(todo)[k] = todo[k + 1]
    BY <1>1, <1>7, PopSeq DEF AccessPlanned, At
  <2>2. \A k \in 2..Len(todo) : k \in 1..Len(todo)
    OBVIOUS
  <2> DEFINE u == Tail(todo)
             w == Planned \o u
  <2>3. u \in Seq(StepSet) /\ \A e \in Elems(u) : Sound(been, e)
    BY <1>1, <2>1, <2>2, Zenon DEF Elems
  <2>4. Planned \in Seq(StepSet) /\ \A e \in Elems(Planned) : Sound(been, e)
    BY PlannedSound, Zenon DEF AllSound, Elems
  <2>5. todo' = w
    BY <1>7, Zenon DEF AccessPlanned
  <2> HIDE DEF u
  <2>6. w \in Seq(StepSet) /\ Elems(w) = Elems(Planned) \cup Elems(u)
    BY <2>3, <2>4, ConcatElems
  <2> HIDE DEF w
  <2>7. \A k \in 1..Len(w) : w[k] \in Elems(w)
    BY ElemAt
  <2> QED
    BY <2>3, <2>4, <2>5, <2>6, <2>7, Zenon DEF AllSound
<1>8. CASE RoleMissing
  <2> DEFINE a == Step("create", Of, Head(todo).left)
  <2>1. todo # << >> /\ todo' = <<a>> \o Tail(todo) /\ At("role")
    BY <1>8, Zenon DEF RoleMissing, Then, At
  <2>2. a \in StepSet /\ Sound(been, a)
    BY <2>1, RoleStepsMade
  <2> HIDE DEF a
  <2>3. /\ todo' \in Seq(StepSet) /\ Len(todo') = Len(todo) /\ todo'[1] = a
        /\ \A k \in 2..Len(todo) : todo'[k] = todo[k]
    <3>1. HeadNow(StepSet, todo, a, todo')
      BY <1>1, <2>1, <2>2, PushOne, Zenon
    <3> QED
      BY <3>1, Zenon DEF HeadNow
  <2>4. \A k \in 1..Len(todo) : k = 1 \/ k \in 2..Len(todo)
    BY <1>1, SeqLen
  <2> QED
    BY <1>1, <2>2, <2>3, <2>4, Zenon DEF AllSound
<1>9. CASE RoleFound
  <2> DEFINE a == Step("grant", Of, Head(todo).left)
             b == Step("assign", Of, read[Of])
  <2>1. /\ todo # << >> /\ todo' = <<a, b>> \o Tail(todo)
        /\ At("role") \/ At("create")
    BY <1>9, Zenon DEF RoleFound, UseRole, Then, At
  <2>2. /\ a \in StepSet /\ Sound(been, a)
        /\ b \in StepSet /\ Sound(been, b)
    BY <2>1, RoleStepsMade
  <2> HIDE DEF a, b
  <2>3. /\ todo' \in Seq(StepSet) /\ Len(todo') = Len(todo) + 1
        /\ todo'[1] = a /\ todo'[2] = b
        /\ \A k \in 3..Len(todo') : k - 1 \in 2..Len(todo) /\ todo'[k] = todo[k - 1]
    <3>1. HeadsNow(StepSet, todo, a, b, todo')
      BY <1>1, <2>1, <2>2, PushTwo, Zenon
    <3> QED
      BY <3>1, Zenon DEF HeadsNow
  <2>4. \A k \in 1..Len(todo') : k = 1 \/ k = 2 \/ k \in 3..Len(todo')
    BY <2>3, SeqLen
  <2>5. \A k \in 2..Len(todo) : k \in 1..Len(todo)
    OBVIOUS
  <2> QED
    BY <1>1, <2>2, <2>3, <2>4, <2>5, Zenon DEF AllSound
<1> QED
  BY <1>2, <1>3, <1>4, <1>5, <1>6, <1>7, <1>8, <1>9, Zenon DEF PassChange

\* What a pass has read are members that are no service accounts.
LEMMA PassTyped ==
    ASSUME TypedInv, [Next]_vars
    PROVE  /\ req' \in Warehouses \cup {None} /\ fga' \in Nat
           /\ read' \in [GroupNames -> SUBSET Users]
           /\ roleID' \in 0..made'
           /\ \A g \in GroupNames : read'[g] \subseteq Humans(been'[g])
           /\ todo' # << >> => req' \in Warehouses
<1>0. TypeInv /\ StepsSound /\ ReadSound /\ ReqGiven
  BY DEF TypedInv
<1>1. /\ want \in Warehouses /\ store \in Nat
      /\ members \in [GroupNames -> SUBSET Users]
      /\ been \in [GroupNames -> SUBSET Users]
      /\ req \in Warehouses \cup {None} /\ fga \in Nat
      /\ read \in [GroupNames -> SUBSET Users]
      /\ made \in Nat /\ roleID \in 0..made
  BY <1>0 DEF TypeInv, TypeOK
<1>2. \A g \in GroupNames : /\ members[g] \subseteq been[g]
                            /\ read[g] \subseteq Humans(been[g])
  BY <1>0 DEF ReadSound
<1>3. made' \in Nat /\ made <= made' /\ roles' \in Seq(RoleType(made'))
  BY RolesTyped
<1>4. roleID \in 0..made' /\ 0 \in 0..made'
  BY <1>1, <1>3
<1>5. \A g \in GroupNames : Humans(been[g]) \subseteq Humans(been'[g])
  <2>1. \A g \in GroupNames : been[g] \subseteq been'[g]
    BY KeycloakTypes
  <2> QED
    BY <2>1 DEF Humans
<1>6. PassChange
  BY <1>0, PassChanged
<1>7. CASE UNCHANGED pass /\ (todo # << >> \/ todo' = << >>)
  <2>1. req' = req /\ fga' = fga /\ read' = read /\ roleID' = roleID
    BY <1>7 DEF pass
  <2>2. \A g \in GroupNames : read[g] \subseteq Humans(been'[g])
    BY <1>2, <1>5
  <2>3. todo' # << >> => req \in Warehouses
    BY <1>0, <1>7 DEF ReqGiven
  <2> QED
    BY <1>1, <1>4, <2>1, <2>2, <2>3, Zenon
<1>8. CASE Begun
  <2>1. req' = want /\ fga' = store /\ roleID' = 0
        /\ read' = [g \in GroupNames |-> {}]
    BY <1>8 DEF Begun
  <2>2. read' \in [GroupNames -> SUBSET Users]
        /\ \A g \in GroupNames : read'[g] = {}
    BY <2>1
  <2> QED
    BY <1>1, <1>4, <2>1, <2>2
<1>9. CASE MembersRead
  <2>1. todo # << >> /\ Of \in GroupNames
    BY <1>0, <1>9, RoleOf DEF MembersRead, At, Of
  <2>2. /\ req' = req /\ fga' = fga /\ roleID' = roleID
        /\ read' = [read EXCEPT ![Of] = PrincipalsOf(members[Of])]
    BY <1>9 DEF MembersRead
  <2>3. \A us : PrincipalsOf(us) \subseteq Humans(us)
    BY DEF PrincipalsOf, Humans
  <2>4. /\ PrincipalsOf(members[Of]) \subseteq Humans(been[Of])
        /\ PrincipalsOf(members[Of]) \in SUBSET Users
    BY <1>1, <1>2, <2>1, <2>3 DEF Humans
  <2>5. read' \in [GroupNames -> SUBSET Users]
    BY <1>1, <2>2, <2>4
  <2>6. \A g \in GroupNames :
           read'[g] = IF g = Of THEN PrincipalsOf(members[Of]) ELSE read[g]
    BY <1>1, <2>2
  <2>7. \A g \in GroupNames : read'[g] \subseteq Humans(been[g])
    BY <1>2, <2>4, <2>6
  <2>8. \A g \in GroupNames : read'[g] \subseteq Humans(been'[g])
    BY <1>5, <2>7
  <2>9. req' \in Warehouses
    BY <1>0, <2>1, <2>2 DEF ReqGiven
  <2> QED
    BY <1>1, <1>4, <2>2, <2>5, <2>8, <2>9
<1>10. CASE RoleFound
  <2>1. req' = req /\ fga' = fga /\ read' = read
    BY <1>10 DEF RoleFound
  <2>2. PICK i \in 1..Len(roles') : roleID' = roles'[i].id
    BY <1>10, Zenon DEF RoleFound, UseRole
  <2>3. roles'[i] \in RoleType(made')
    BY <1>3, SeqLen
  <2>4. roles'[i].id \in 1..made'
    BY <2>3 DEF RoleType
  <2>5. roleID' \in 0..made'
    BY <1>3, <2>2, <2>4
  <2>6. req \in Warehouses
    BY <1>0, <1>10 DEF RoleFound, At, ReqGiven
  <2>7. \A g \in GroupNames : read[g] \subseteq Humans(been'[g])
    BY <1>2, <1>5
  <2> QED
    BY <1>1, <2>1, <2>5, <2>6, <2>7, Zenon
<1>11. CASE UNCHANGED <<todo, pass>>
  <2>1. req' = req /\ fga' = fga /\ read' = read /\ roleID' = roleID
        /\ todo' = todo
    BY <1>11 DEF pass
  <2>2. \A g \in GroupNames : read[g] \subseteq Humans(been'[g])
    BY <1>2, <1>5
  <2> QED
    BY <1>0, <1>1, <1>4, <2>1, <2>2, Zenon DEF ReqGiven
<1>12. \/ UNCHANGED pass /\ (todo # << >> \/ todo' = << >>)
       \/ Begun \/ MembersRead \/ RoleFound \/ UNCHANGED <<todo, pass>>
  BY <1>6, Zenon
  DEF PassChange, Popped, Written, AccessPlanned, RoleMissing, At
<1> QED
  BY <1>7, <1>8, <1>9, <1>10, <1>11, <1>12

\* WarehouseReady is withdrawn, kept, or given at the end of a pass.
StatusChange ==
    \/ UNCHANGED status
    \/ ready' = None
    \/ /\ At("done") /\ ready' = req /\ vouched' = read /\ todo' = << >>
       /\ UNCHANGED <<lakekeeper, openfga, budget>>

\* WarehouseReady is set only by a pass that is done, for what it has read.
LEMMA StatusChanged ==
    ASSUME [Next]_vars
    PROVE  StatusChange /\ (vouched' = vouched \/ vouched' = read)
<1>1. CASE Finish
  BY <1>1, Zenon DEF Finish, StatusChange, Outside
<1>2. CASE CreateRole \/ Refused \/ Fail \/ LoseAnswer
  BY <1>2, Zenon
  DEF CreateRole, Refused, Fail, LoseAnswer, StatusChange, status
<1>3. CASE Work /\ ~Finish /\ ~CreateRole /\ ~Refused
  BY <1>3, Zenon
  DEF Work, Begin, Bootstrap, EnsureGrants, EnsureWarehouse, ReadMembers,
      PlanAccess, EndLoop, FindRole, GrantRoleAccess, AssignMember,
      WriteTuple, StatusChange, status
<1>4. CASE EditWarehouse \/ Join \/ Leave \/ RecreateKeycloak \/ DeleteRole
           \/ ReplaceStore \/ OtherRole \/ BootstrapByUser \/ WarehouseConflict
  BY <1>4, Zenon
  DEF EditWarehouse, Join, Leave, Move, RecreateKeycloak, DeleteRole,
      ReplaceStore, OtherRole, BootstrapByUser, WarehouseConflict, Operator,
      StatusChange, status
<1>5. CASE UNCHANGED vars
  BY <1>5, Zenon DEF vars, StatusChange, status
<1> QED
  BY <1>1, <1>2, <1>3, <1>4, <1>5, Zenon DEF Next

\* A fresh LakeKeeper and Keycloak are well-typed.
LEMMA TypedInit == Init => TypedInv
<1> SUFFICES ASSUME Init PROVE TypedInv
  OBVIOUS
<1>1. todo = << >> /\ todo \in Seq(StepSet) /\ Len(todo) = 0
  BY DEF Init
<1>2. \A k \in 1..Len(todo) : FALSE
  BY <1>1
<1>3. /\ Imported \in [GroupNames -> SUBSET Users]
      /\ \A g \in GroupNames : Imported[g] \subseteq Humans(Imported[g])
  BY CatalogConstants DEF Humans
<1>4. roles \in Seq([name : GroupNames \cup {"other"}, id : 1..made])
  BY DEF Init
<1>5. TypeOK
  BY <1>2, <1>3, <1>4, CatalogConstants DEF Init, TypeOK
<1>6. ReadSound
  BY <1>3 DEF Init, ReadSound
<1> QED
  BY <1>1, <1>2, <1>5, <1>6 DEF TypedInv, TypeInv, StepsSound, ReqGiven

\* TypedInv is inductive.
LEMMA TypedStep == TypedInv /\ [Next]_vars => TypedInv'
<1> SUFFICES ASSUME TypedInv, [Next]_vars PROVE TypedInv'
  OBVIOUS
<1>0. TypeInv /\ StepsSound
  BY DEF TypedInv
<1>1. AllSound(todo')
  BY <1>0, PassChanged, PassSound
<1>2. StepsSound'
  <2>1. \A s : Sound(been, s) => Sound(been', s)
    BY SoundGrows
  <2> QED
    BY <1>1, <2>1, Zenon DEF AllSound, StepsSound
<1>3. todo' \in Seq(StepSet)
  BY <1>1 DEF AllSound
<1>4. \A i \in 1..Len(todo') : todo'[i].op \in Ops
  <2>1. \A i \in 1..Len(todo') : todo'[i] \in StepSet
    BY <1>3, SeqLen
  <2> QED
    BY <2>1 DEF StepSet
<1>5. /\ ready' \in Warehouses \cup {None}
      /\ vouched' \in [GroupNames -> SUBSET Users]
  <2>1. /\ ready \in Warehouses \cup {None}
        /\ req \in Warehouses \cup {None}
        /\ vouched \in [GroupNames -> SUBSET Users]
        /\ read \in [GroupNames -> SUBSET Users]
    BY <1>0 DEF TypeInv, TypeOK
  <2>2. ready' = ready \/ ready' = None \/ ready' = req
    BY StatusChanged, Zenon DEF StatusChange, status
  <2> QED
    BY <2>1, <2>2, StatusChanged
<1>6. TypeOK'
  BY <1>4, <1>5, KeycloakTypes, RolesTyped, StoresTyped, PassTyped
  DEF TypeOK, RoleType, Names
<1>7. ReadSound'
  BY KeycloakTypes, PassTyped DEF ReadSound
<1>8. ReqGiven'
  BY PassTyped DEF ReqGiven
<1> QED
  BY <1>2, <1>3, <1>6, <1>7, <1>8 DEF TypedInv, TypeInv

\* The types of CatalogSync hold for all principals, groups and users: a role
\* that a grant or a member refers to exists, and no grant is invented.
THEOREM TypesHold == Spec => []TypeOK
<1>1. TypedInv => TypeOK
  BY DEF TypedInv, TypeInv
<1> QED
  BY <1>1, TypedInit, TypedStep, PTL DEF Spec

-----------------------------------------------------------------------------
(***************************************************************************)
(* Access: roles and tuples go to members, and roles are not mixed up.     *)
(***************************************************************************)

\* A role with an id that was known before the step was there before it, and
\* grants and members are added to the role in hand only.
LEMMA KnownRoles ==
    ASSUME TypedInv, [Next]_vars
    PROVE  /\ \A k \in 1..Len(roles') : roles'[k].id \in 0..made =>
                 \E j \in 1..Len(roles) : roles'[k] = roles[j]
           /\ \A q \in assigned' :
                 \/ q \in assigned
                 \/ /\ At("assign") /\ roles' = roles
                    /\ \E x \in Head(todo).left : q = <<roleID, x>>
           /\ \A q \in roleGrants' :
                 \/ q \in roleGrants
                 \/ /\ At("grant") /\ roles' = roles
                    /\ \E x \in Head(todo).left :
                          q = <<roleID, Right(x, req)>>
<1>0. TypeInv /\ StepsSound
  BY DEF TypedInv
<1>1. CASE UNCHANGED access
  BY <1>1, Zenon DEF access
<1>2. CASE RoleAdded
  <2>1. PICK i \in 1..(Len(roles) + 1), g \in GroupNames \cup {"other"} :
           AddRoleAt(i, g)
    BY <1>2, Zenon DEF RoleAdded
  <2>2. /\ made' = made + 1
        /\ \A k \in 1..Len(roles') :
              \/ roles'[k].id = made'
              \/ \E j \in 1..Len(roles) : roles'[k] = roles[j]
    BY <1>0, <2>1, RoleInserted, Zenon
  <2>3. made + 1 \notin 0..made
    BY <1>0, RoleTypes
  <2>4. roleGrants' = roleGrants /\ assigned' = assigned
    BY <1>2, Zenon DEF RoleAdded
  <2> QED
    BY <2>2, <2>3, <2>4, Zenon
<1>3. CASE RoleGranted
  <2>1. PICK x \in Head(todo).left : RoleGrantEffect(x)
    BY <1>3, Zenon DEF RoleGranted
  <2>2. /\ At("grant")
        /\ roleGrants' = roleGrants \cup {<<roleID, Right(x, req)>>}
        /\ roles' = roles /\ made' = made /\ assigned' = assigned
    BY <1>3, <2>1, Zenon DEF RoleGrantEffect, RoleGranted
  <2> QED
    BY <2>2, Zenon
<1>4. CASE RoleAssigned
  <2>1. PICK x \in Head(todo).left : AssignEffect(x)
    BY <1>4, Zenon DEF RoleAssigned
  <2>2. /\ At("assign") /\ assigned' = assigned \cup {<<roleID, x>>}
        /\ roles' = roles /\ made' = made /\ roleGrants' = roleGrants
    BY <1>4, <2>1, Zenon DEF AssignEffect, RoleAssigned
  <2> QED
    BY <2>2, Zenon
<1>5. CASE RoleRemoved
  <2>1. PICK i \in 1..Len(roles) : RemoveRoleAt(i)
    BY <1>5, Zenon DEF RoleRemoved
  <2>2. \A k \in 1..Len(roles') : \E j \in 1..Len(roles) :
           roles'[k] = roles[j]
    BY <1>0, <2>1, RoleTaken, Zenon
  <2>3. roleGrants' \subseteq roleGrants /\ assigned' \subseteq assigned
    BY <2>1, Zenon DEF RemoveRoleAt
  <2> QED
    BY <2>2, <2>3, Zenon
<1> QED
  BY <1>0, <1>1, <1>2, <1>3, <1>4, <1>5, RolesChanged, Zenon DEF RolesChange

\* No two roles of different names share an id.
LEMMA IdsStep ==
    ASSUME AccessInv, [Next]_vars
    PROVE  IdsNamed'
<1>0. TypedInv /\ TypeInv /\ StepsSound /\ IdsNamed
  BY DEF AccessInv, TypedInv
<1>1. CASE RoleAdded
  <2>1. PICK i \in 1..(Len(roles) + 1), g \in GroupNames \cup {"other"} :
           AddRoleAt(i, g)
    BY <1>1, Zenon DEF RoleAdded
  <2>2. /\ made' = made + 1
        /\ \A k \in 1..Len(roles') :
              \/ roles'[k].name = g /\ roles'[k].id = made'
              \/ \E j \in 1..Len(roles) : roles'[k] = roles[j]
    BY <1>0, <2>1, RoleInserted, Zenon
  <2>3. \A k \in 1..Len(roles) : roles[k].id # made + 1
    BY <1>0, RoleTypes
  <2>4. ASSUME NEW k \in 1..Len(roles'), NEW m \in 1..Len(roles'),
               roles'[k].id = roles'[m].id
        PROVE  roles'[k].name = roles'[m].name
    <3>1. CASE roles'[k].id = made'
      BY <2>2, <2>3, <2>4, <3>1, Zenon
    <3>2. CASE roles'[k].id # made'
      <4>1. PICK j \in 1..Len(roles) : roles'[k] = roles[j]
        BY <2>2, <3>2, Zenon
      <4>2. PICK n \in 1..Len(roles) : roles'[m] = roles[n]
        BY <2>2, <2>4, <3>2, Zenon
      <4>3. roles[j].name = roles[n].name
        BY <1>0, <2>4, <4>1, <4>2, Zenon DEF IdsNamed
      <4> QED
        BY <4>1, <4>2, <4>3, Zenon
    <3> QED
      BY <3>1, <3>2
  <2> QED
    BY <2>4, Zenon DEF IdsNamed
<1>2. CASE ~RoleAdded
  <2>1. \A k \in 1..Len(roles') : \E j \in 1..Len(roles) : roles'[k] = roles[j]
    <3>1. CASE roles' = roles
      BY <3>1, Zenon
    <3>2. CASE RoleRemoved
      <4>1. PICK i \in 1..Len(roles) : RemoveRoleAt(i)
        BY <3>2, Zenon DEF RoleRemoved
      <4> QED
        BY <1>0, <4>1, RoleTaken, Zenon
    <3> QED
      BY <1>0, <1>2, <3>1, <3>2, RolesChanged, Zenon
      DEF RolesChange, access, RoleGranted, RoleGrantEffect, RoleAssigned,
          AssignEffect
  <2>2. ASSUME NEW k \in 1..Len(roles'), NEW m \in 1..Len(roles'),
               roles'[k].id = roles'[m].id
        PROVE  roles'[k].name = roles'[m].name
    <3>1. PICK j \in 1..Len(roles) : roles'[k] = roles[j]
      BY <2>1, Zenon
    <3>2. PICK n \in 1..Len(roles) : roles'[m] = roles[n]
      BY <2>1, Zenon
    <3>3. roles[j].name = roles[n].name
      BY <1>0, <2>2, <3>1, <3>2, Zenon DEF IdsNamed
    <3> QED
      BY <3>1, <3>2, <3>3, Zenon
  <2> QED
    BY <2>2, Zenon DEF IdsNamed
<1> QED
  BY <1>1, <1>2

\* Grants stay at the head of the list, and members behind them.
Clear(s) == s.op \notin {"grant", "assign"}

\* A role's grants and members come right after the role was found or made,
\* with no other role in between.
LEMMA PlacedStep ==
    ASSUME AccessInv, PassChange
    PROVE  Placed'
<1>0. TypedInv /\ Placed /\ todo \in Seq(StepSet)
  BY DEF AccessInv, TypedInv, TypeInv
<1>1. \A k \in 2..Len(todo) :
         /\ todo[k].op # "grant"
         /\ todo[k].op = "assign" =>
               k = 2 /\ todo[1].op = "grant" /\ todo[1].of = todo[2].of
  <2>1. \A k \in 2..Len(todo) : k \in 1..Len(todo) /\ k # 1
    OBVIOUS
  <2> QED
    BY <1>0, <2>1, Zenon DEF Placed
<1>2. todo # << >> => Head(todo) = todo[1]
  BY <1>0, SeqLen
<1>3. ASSUME todo # << >>, Clear(Head(todo))
      PROVE  \A k \in 2..Len(todo) : Clear(todo[k])
  BY <1>1, <1>2, <1>3 DEF Clear
<1>4. ASSUME NEW s, \A k \in 1..Len(s) : Clear(s[k]), todo' = s
      PROVE  Placed'
  BY <1>4 DEF Clear, Placed
<1>5. CASE UNCHANGED <<todo, pass>>
  BY <1>0, <1>5, Zenon DEF Placed
<1>6. CASE todo' = << >>
  <2>1. \A k \in 1..Len(todo') : FALSE
    BY <1>6
  <2> QED
    BY <2>1, Zenon DEF Placed
<1>7. CASE Begun
  <2>1. \A k \in 1..Len(Opening) : Clear(Opening[k])
    BY OpeningSteps DEF Clear
  <2> QED
    BY <1>4, <1>7, <2>1, Zenon DEF Begun
<1>8. CASE Popped \/ MembersRead
  <2>1. todo # << >> /\ todo' = Tail(todo)
    BY <1>8 DEF Popped, MembersRead, At
  <2>2. \A k \in 1..Len(Tail(todo)) :
              k + 1 \in 2..Len(todo) /\ Tail(todo)[k] = todo[k + 1]
    BY <1>0, <2>1, PopSeq
  <2>3. \A k \in 1..Len(todo') :
           k + 1 \in 2..Len(todo) /\ todo'[k] = todo[k + 1]
    BY <2>1, <2>2, Zenon
  <2>4. ASSUME NEW k \in 1..Len(todo')
        PROVE  /\ todo'[k].op # "grant"
               /\ todo'[k].op = "assign" => k = 1
    <3>1. \A n \in Nat : n + 1 = 2 => n = 1
      OBVIOUS
    <3> QED
      BY <1>1, <2>3, <3>1
  <2> QED
    BY <2>4, Zenon DEF Placed
<1>9. CASE \E x \in Head(todo).left : Written(x)
  <2>1. PICK x \in Head(todo).left : Written(x)
    BY <1>9
  <2> DEFINE a == Step(Head(todo).op, Of, Head(todo).left \ {x})
  <2>2. todo # << >> /\ todo' = <<a>> \o Tail(todo)
    BY <2>1, Zenon DEF Written, Done, Then
  <2>3. /\ a \in StepSet
        /\ a.op = Head(todo).op /\ a.of = Head(todo).of
    BY <1>0, <2>2, DoneStep
  <2> HIDE DEF a
  <2>4. HeadNow(StepSet, todo, a, todo')
    BY <1>0, <2>2, <2>3, PushOne, Zenon
  <2>5. /\ Len(todo') = Len(todo) /\ todo'[1].op = todo[1].op
        /\ todo'[1].of = todo[1].of
        /\ \A k \in 2..Len(todo) : todo'[k] = todo[k]
    BY <1>2, <2>2, <2>3, <2>4, Zenon DEF HeadNow
  <2>6. /\ \A k \in 1..Len(todo) : k = 1 \/ k \in 2..Len(todo)
        /\ 2 \in 1..Len(todo) => 2 \in 2..Len(todo)
    BY <1>0, SeqLen
  <2>7. ASSUME NEW k \in 1..Len(todo')
        PROVE  /\ todo'[k].op = "grant" => k = 1
               /\ todo'[k].op = "assign" =>
                     k = 1 \/ (k = 2 /\ todo'[1].op = "grant"
                                     /\ todo'[1].of = todo'[2].of)
    BY <1>1, <2>5, <2>6, Zenon
  <2> QED
    BY <2>7, Zenon DEF Placed
<1>10. CASE AccessPlanned
  <2>1. todo # << >> /\ Clear(Head(todo))
    BY <1>10 DEF AccessPlanned, At, Clear
  <2>2. /\ Tail(todo) \in Seq(StepSet)
        /\ \A k \in 1..Len(Tail(todo)) :
              k + 1 \in 2..Len(todo) /\ Tail(todo)[k] = todo[k + 1]
    BY <1>0, <2>1, PopSeq
  <2> DEFINE u == Tail(todo)
             w == Planned \o u
  <2>3. u \in Seq(StepSet) /\ \A e \in Elems(u) : Clear(e)
    BY <1>3, <2>1, <2>2, Zenon DEF Elems
  <2>4. Planned \in Seq(StepSet) /\ \A e \in Elems(Planned) : Clear(e)
    <3>1. read \in [GroupNames -> SUBSET Users]
      BY <1>0 DEF TypedInv, TypeInv, TypeOK
    <3>2. Planned \in Seq(StepSet) /\ \A k \in 1..Len(Planned) : Clear(Planned[k])
      BY <3>1, PlannedSteps DEF Clear
    <3> QED
      BY <3>2, Zenon DEF Elems
  <2>5. todo' = w
    BY <1>10, Zenon DEF AccessPlanned
  <2> HIDE DEF u
  <2>6. Elems(w) = Elems(Planned) \cup Elems(u)
    BY <2>3, <2>4, ConcatElems
  <2> HIDE DEF w
  <2>7. \A k \in 1..Len(w) : w[k] \in Elems(w)
    BY ElemAt
  <2>8. \A k \in 1..Len(w) : Clear(w[k])
    BY <2>3, <2>4, <2>6, <2>7, Zenon
  <2> QED
    BY <1>4, <2>5, <2>8, Zenon
<1>11. CASE RoleMissing
  <2> DEFINE a == Step("create", Of, Head(todo).left)
  <2>1. todo # << >> /\ todo' = <<a>> \o Tail(todo) /\ At("role")
    BY <1>11, Zenon DEF RoleMissing, Then, At
  <2>2. a \in StepSet /\ a.op = "create"
    BY <1>0, <2>1, RoleStepsMade, StepFields
  <2> HIDE DEF a
  <2>3. HeadNow(StepSet, todo, a, todo')
    BY <1>0, <2>1, <2>2, PushOne, Zenon
  <2>4. Len(todo') = Len(todo) /\ todo'[1] = a
        /\ \A k \in 2..Len(todo) : todo'[k] = todo[k]
    BY <2>3, Zenon DEF HeadNow
  <2>5. Clear(a) /\ Clear(Head(todo))
    BY <2>1, <2>2 DEF Clear, At
  <2>6. \A k \in 1..Len(todo) : k = 1 \/ k \in 2..Len(todo)
    BY <1>0, SeqLen
  <2>7. \A k \in 1..Len(todo') : Clear(todo'[k])
    BY <1>3, <2>1, <2>4, <2>5, <2>6, Zenon
  <2> QED
    BY <2>7 DEF Clear, Placed
<1>12. CASE RoleFound
  <2> DEFINE a == Step("grant", Of, Head(todo).left)
             b == Step("assign", Of, read[Of])
  <2>1. /\ todo # << >> /\ todo' = <<a, b>> \o Tail(todo)
        /\ At("role") \/ At("create")
    BY <1>12, Zenon DEF RoleFound, UseRole, Then, At
  <2>2. /\ a \in StepSet /\ b \in StepSet
        /\ a.op = "grant" /\ b.op = "assign" /\ a.of = b.of
    BY <1>0, <2>1, RoleStepsMade, StepFields
  <2> HIDE DEF a, b
  <2>3. HeadsNow(StepSet, todo, a, b, todo')
    BY <1>0, <2>1, <2>2, PushTwo, Zenon
  <2>4. /\ todo' \in Seq(StepSet)
        /\ todo'[1] = a /\ todo'[2] = b
        /\ \A k \in 3..Len(todo') : k - 1 \in 2..Len(todo) /\ todo'[k] = todo[k - 1]
    BY <2>3, Zenon DEF HeadsNow
  <2>5. \A k \in 1..Len(todo') : k = 1 \/ k = 2 \/ k \in 3..Len(todo')
    BY <2>4, SeqLen
  <2>6. Clear(Head(todo))
    BY <2>1 DEF Clear, At
  <2>7. \A k \in 3..Len(todo') : Clear(todo'[k])
    BY <1>3, <2>1, <2>4, <2>6, Zenon
  <2>8. ASSUME NEW k \in 1..Len(todo')
        PROVE  /\ todo'[k].op = "grant" => k = 1
               /\ todo'[k].op = "assign" =>
                     k = 1 \/ (k = 2 /\ todo'[1].op = "grant"
                                     /\ todo'[1].of = todo'[2].of)
    BY <2>2, <2>4, <2>5, <2>7 DEF Clear
  <2> QED
    BY <2>8, Zenon DEF Placed
<1> QED
  BY <1>5, <1>6, <1>7, <1>8, <1>9, <1>10, <1>11, <1>12, Zenon DEF PassChange

\* The id in hand belongs to no role of another name: of the roles of the
\* list after the step, those with the id are found, made or known.
LEMMA InHandStep ==
    ASSUME AccessInv, [Next]_vars
    PROVE  InHand'
<1>0. /\ TypedInv /\ TypeInv /\ StepsSound /\ InHand /\ Placed
      /\ todo \in Seq(StepSet) /\ roleID \in 0..made
  BY DEF AccessInv, TypedInv, TypeInv, TypeOK
<1>1. PassChange /\ IdsNamed' /\ Placed'
  BY <1>0, PassChanged, IdsStep, PlacedStep
<1>2. \A k \in 1..Len(roles') : roles'[k].id = roleID =>
         \E j \in 1..Len(roles) : roles'[k] = roles[j]
  BY <1>0, KnownRoles, Zenon
<1>3. ASSUME roleID' = roleID, todo # << >>,
             todo[1].op \in {"grant", "assign"}, todo[1].of = todo'[1].of
      PROVE  InHand'
  BY <1>0, <1>2, <1>3, Zenon DEF InHand
<1>4. todo # << >> => Head(todo) = todo[1]
  BY <1>0, SeqLen
<1>5. CASE UNCHANGED <<todo, pass>>
  <2>1. todo' = todo /\ roleID' = roleID
    BY <1>5 DEF pass
  <2> QED
    BY <1>0, <1>2, <2>1, Zenon DEF InHand
<1>6. CASE todo' = << >>
  BY <1>6, Zenon DEF InHand
<1>7. CASE todo' # << >> /\ Clear(todo'[1])
  BY <1>7 DEF InHand, Clear
<1>8. CASE Begun
  <2>1. Clear(Opening[1])
    <3>1. 1 \in 1..Len(Opening)
      BY OpeningSteps, SeqLen
    <3> QED
      BY <3>1, OpeningSteps DEF Clear
  <2> QED
    BY <1>8, <2>1, OpeningSteps DEF Begun, InHand, Clear
<1>9. CASE Popped \/ MembersRead
  <2>1. todo # << >> /\ todo' = Tail(todo) /\ roleID' = roleID
    BY <1>9 DEF Popped, MembersRead, At, pass
  <2>2. /\ Tail(todo) \in Seq(StepSet)
        /\ \A k \in 1..Len(Tail(todo)) :
              k + 1 \in 2..Len(todo) /\ Tail(todo)[k] = todo[k + 1]
    BY <1>0, <2>1, PopSeq
  <2>3. CASE todo' # << >> /\ ~Clear(todo'[1])
    <3>1. 1 \in 1..Len(Tail(todo))
      BY <2>1, <2>2, <2>3, SeqLen
    <3>2. 1 + 1 = 2
      OBVIOUS
    <3>3. 2 \in 2..Len(todo) /\ todo'[1] = todo[2]
      BY <2>1, <2>2, <3>1, <3>2, Zenon
    <3>4. 2 \in 1..Len(todo) /\ 2 # 1
      BY <3>3
    <3>5. todo[2].op \in {"grant", "assign"}
      BY <2>3, <3>3 DEF Clear
    <3>6. todo[1].op = "grant" /\ todo[1].of = todo[2].of
      BY <1>0, <3>4, <3>5 DEF Placed
    <3> QED
      BY <1>3, <2>1, <3>3, <3>6
  <2> QED
    BY <1>6, <1>7, <2>3
<1>10. CASE \E x \in Head(todo).left : Written(x)
  <2>1. PICK x \in Head(todo).left : Written(x)
    BY <1>10
  <2> DEFINE a == Step(Head(todo).op, Of, Head(todo).left \ {x})
  <2>2. todo # << >> /\ todo' = <<a>> \o Tail(todo) /\ roleID' = roleID
    BY <2>1, Zenon DEF Written, Done, Then, pass
  <2>3. /\ a \in StepSet
        /\ a.op = Head(todo).op /\ a.of = Head(todo).of
    BY <1>0, <2>2, DoneStep
  <2> HIDE DEF a
  <2>4. HeadNow(StepSet, todo, a, todo')
    BY <1>0, <2>2, <2>3, PushOne, Zenon
  <2>5. /\ todo'[1].op = todo[1].op /\ todo'[1].of = todo[1].of
        /\ todo' # << >>
    BY <1>4, <2>2, <2>3, <2>4, Zenon DEF HeadNow
  <2> QED
    BY <1>3, <1>7, <2>2, <2>5 DEF Clear
<1>11. CASE AccessPlanned
  <2>1. read \in [GroupNames -> SUBSET Users] /\ Tail(todo) \in Seq(StepSet)
    BY <1>0, <1>11, PopSeq DEF TypeInv, TypeOK, AccessPlanned, At
  <2> DEFINE u == Tail(todo)
             w == Planned \o u
  <2>2. /\ Planned \in Seq(StepSet) /\ 1 \in 1..Len(Planned)
        /\ Clear(Planned[1])
    <3>1. 1 \in 1..Len(Planned)
      BY <2>1, PlannedSteps, SeqLen
    <3> QED
      BY <2>1, <3>1, PlannedSteps DEF Clear
  <2>3. u \in Seq(StepSet)
    BY <2>1
  <2>4. todo' = w
    BY <1>11, Zenon DEF AccessPlanned
  <2> HIDE DEF u
  <2>5. w \in Seq(StepSet) /\ 1 \in 1..Len(w) /\ w[1] = Planned[1]
    BY <2>2, <2>3, ConcatElements
  <2> HIDE DEF w
  <2>6. w # << >>
    BY <2>5, SeqLen
  <2> QED
    BY <1>7, <2>2, <2>4, <2>5, <2>6
<1>12. CASE RoleMissing
  <2> DEFINE a == Step("create", Of, Head(todo).left)
  <2>1. todo # << >> /\ todo' = <<a>> \o Tail(todo) /\ At("role")
    BY <1>12, Zenon DEF RoleMissing, Then, At
  <2>2. a \in StepSet /\ a.op = "create"
    BY <1>0, <2>1, RoleStepsMade, StepFields
  <2> HIDE DEF a
  <2>3. HeadNow(StepSet, todo, a, todo')
    BY <1>0, <2>1, <2>2, PushOne, Zenon
  <2>4. todo' # << >> /\ todo'[1] = a
    BY <2>3, Zenon DEF HeadNow
  <2> QED
    BY <1>7, <2>2, <2>4 DEF Clear
<1>13. CASE RoleFound
  <2> DEFINE a == Step("grant", Of, Head(todo).left)
             b == Step("assign", Of, read[Of])
  <2>1. /\ todo # << >> /\ todo' = <<a, b>> \o Tail(todo)
        /\ At("role") \/ At("create")
    BY <1>13, Zenon DEF RoleFound, UseRole, Then, At
  <2>2. a \in StepSet /\ b \in StepSet /\ a.of = Of
    BY <1>0, <2>1, RoleStepsMade, StepFields
  <2> HIDE DEF a, b
  <2>3. HeadsNow(StepSet, todo, a, b, todo')
    BY <1>0, <2>1, <2>2, PushTwo, Zenon
  <2>4. todo'[1].of = Of
    BY <2>2, <2>3, Zenon DEF HeadsNow
  <2>5. PICK i \in 1..Len(roles') :
           roles'[i].name = Of /\ roleID' = roles'[i].id
    BY <1>13, Zenon DEF RoleFound, UseRole
  <2>6. \A k \in 1..Len(roles') : roles'[k].id = roleID' => roles'[k].name = Of
    BY <1>1, <2>5, Zenon DEF IdsNamed
  <2> QED
    BY <2>4, <2>6, Zenon DEF InHand
<1> QED
  BY <1>1, <1>5, <1>6, <1>8, <1>9, <1>10, <1>11, <1>12, <1>13, Zenon
  DEF PassChange

\* The members of a role and of a tuple have been members of the group.
LEMMA MembersStep ==
    ASSUME AccessInv, [Next]_vars
    PROVE  OnlyMembersGranted'
<1>0. TypedInv /\ TypeInv /\ StepsSound /\ InHand /\ OnlyMembersGranted
  BY DEF AccessInv, TypedInv
<1>1. \A g \in GroupNames : Humans(been[g]) \subseteq Humans(been'[g])
  <2>1. \A g \in GroupNames : been[g] \subseteq been'[g]
    BY <1>0, KeycloakTypes
  <2> QED
    BY <2>1 DEF Humans
<1>2. ASSUME NEW g \in GroupNames, NEW u \in Users,
             NEW k \in 1..Len(roles'), roles'[k].name = g,
             <<roles'[k].id, u>> \in assigned'
      PROVE  u \in Humans(been'[g])
  <2>1. CASE <<roles'[k].id, u>> \in assigned
    <3>1. roles'[k].id \in RoleIDs
      BY <1>0, <2>1 DEF TypeInv, TypeOK
    <3>2. roles'[k].id \in 0..made
      <4>1. PICK n \in 1..Len(roles) : roles'[k].id = roles[n].id
        BY <3>1, Zenon DEF RoleIDs
      <4>2. roles[n].id \in 1..made
        BY <1>0, RoleTypes
      <4> QED
        BY <4>1, <4>2
    <3>3. PICK j \in 1..Len(roles) : roles'[k] = roles[j]
      BY <1>0, <3>2, KnownRoles, Zenon
    <3>4. u \in Assignees(g)
      BY <1>2, <2>1, <3>3, Zenon DEF Assignees, RolesNamed
    <3> QED
      BY <1>0, <1>1, <3>4, Zenon DEF OnlyMembersGranted
  <2>2. CASE <<roles'[k].id, u>> \notin assigned
    <3>1. /\ At("assign") /\ roles' = roles
          /\ \E x \in Head(todo).left : <<roles'[k].id, u>> = <<roleID, x>>
      BY <1>0, <1>2, <2>2, KnownRoles, Zenon
    <3>2. roles[k].id = roleID /\ u \in Head(todo).left /\ roles[k].name = g
      BY <1>2, <3>1
    <3>3. todo # << >> /\ Head(todo) = todo[1] /\ Head(todo).op = "assign"
      BY <1>0, <3>1, HeadFacts DEF At
    <3>4. g = Head(todo).of
      BY <1>0, <1>2, <3>1, <3>2, <3>3 DEF InHand
    <3>5. u \in Humans(been[g])
      BY <1>0, <3>2, <3>3, <3>4, LeftTypes
    <3> QED
      BY <1>1, <3>5, Zenon
  <2> QED
    BY <2>1, <2>2
<1>3. ASSUME NEW g \in GroupNames, NEW u \in Users, <<u, g>> \in tuples'
      PROVE  u \in Humans(been'[g])
  <2>1. CASE <<u, g>> \in tuples
    BY <1>0, <1>1, <2>1, Zenon DEF OnlyMembersGranted, Granted
  <2>2. CASE <<u, g>> \notin tuples
    <3>1. At("tuple") /\ \E x \in Head(todo).left : <<u, g>> = <<x, Of>>
      <4>1. TuplesChange
        BY StoresChanged
      <4>2. tuples' # tuples /\ tuples' # {}
        BY <1>3, <2>2
      <4>3. PICK x \in Head(todo).left : tuples' = tuples \cup {<<x, Of>>}
        BY <4>1, <4>2, Zenon DEF TuplesChange
      <4>4. At("tuple")
        BY <4>1, <4>2, Zenon DEF TuplesChange
      <4> QED
        BY <1>3, <2>2, <4>3, <4>4, Zenon
    <3>2. /\ u \in Head(todo).left /\ g = Head(todo).of
          /\ todo # << >> /\ Head(todo).op = "tuple"
      BY <3>1 DEF At, Of
    <3>3. u \in Humans(been[g])
      BY <1>0, <3>2, LeftTypes
    <3> QED
      BY <1>1, <3>3, Zenon
  <2> QED
    BY <2>1, <2>2
<1> QED
  BY <1>2, <1>3, Zenon DEF OnlyMembersGranted, Assignees, RolesNamed, Granted

\* The grants of a role are those of its group.
LEMMA MixedStep ==
    ASSUME AccessInv, [Next]_vars
    PROVE  RolesNotMixed'
<1>0. TypedInv /\ TypeInv /\ StepsSound /\ InHand /\ RolesNotMixed
  BY DEF AccessInv, TypedInv
<1>1. ASSUME NEW i \in 1..Len(AccessGroups), NEW k \in 1..Len(roles'),
             roles'[k].name = AccessGroups[i][1],
             NEW q \in roleGrants', q[1] = roles'[k].id
      PROVE  q[2][1] \in AccessGroups[i][2]
  <2>1. CASE q \in roleGrants
    <3>1. roles'[k].id \in RoleIDs
      BY <1>0, <1>1, <2>1 DEF TypeInv, TypeOK
    <3>2. roles'[k].id \in 0..made
      <4>1. PICK n \in 1..Len(roles) : roles'[k].id = roles[n].id
        BY <3>1, Zenon DEF RoleIDs
      <4>2. roles[n].id \in 1..made
        BY <1>0, RoleTypes
      <4> QED
        BY <4>1, <4>2
    <3>3. PICK j \in 1..Len(roles) : roles'[k] = roles[j]
      BY <1>0, <3>2, KnownRoles, Zenon
    <3> QED
      BY <1>0, <1>1, <2>1, <3>3, Zenon DEF RolesNotMixed
  <2>2. CASE q \notin roleGrants
    <3>1. /\ At("grant") /\ roles' = roles
          /\ \E x \in Head(todo).left : q = <<roleID, Right(x, req)>>
      BY <1>0, <1>1, <2>2, KnownRoles, Zenon
    <3>2. PICK x \in Head(todo).left : q = <<roleID, Right(x, req)>>
      BY <3>1
    <3>3. q[1] = roleID /\ q[2][1] = x
      <4>1. q[1] = roleID /\ q[2] = Right(x, req)
        BY <3>2
      <4> QED
        BY <4>1 DEF Right
    <3>4. roles[k].id = roleID /\ roles[k].name = AccessGroups[i][1]
      BY <1>1, <3>1, <3>3, Zenon
    <3>5. todo # << >> /\ Head(todo) = todo[1] /\ Head(todo).op = "grant"
      BY <1>0, <3>1, HeadFacts DEF At
    <3>6. AccessGroups[i][1] = Head(todo).of
      BY <1>0, <1>1, <3>1, <3>4, <3>5 DEF InHand
    <3>7. GroupSound(Head(todo))
      BY <1>0, <3>5, RoleOf
    <3>8. PICK j \in 1..Len(AccessGroups) :
             /\ Head(todo).of = AccessGroups[j][1]
             /\ Head(todo).left \subseteq AccessGroups[j][2]
      BY <3>7, Zenon DEF GroupSound
    <3>9. i = j
      BY <3>6, <3>8, GroupFacts, Zenon
    <3> QED
      BY <3>2, <3>3, <3>8, <3>9, Zenon
  <2> QED
    BY <2>1, <2>2
<1> QED
  BY <1>1, Zenon DEF RolesNotMixed

\* Nobody has access to begin with.
LEMMA AccessInit == Init => AccessInv
<1> SUFFICES ASSUME Init PROVE AccessInv
  OBVIOUS
<1>1. \A k \in 1..Len(todo) : FALSE
  BY DEF Init
<1>2. \A k \in 1..Len(roles) : FALSE
  BY DEF Init
<1>3. OnlyMembersGranted
  BY DEF Init, OnlyMembersGranted, Assignees, Granted
<1>4. RolesNotMixed
  BY <1>2, Zenon DEF RolesNotMixed
<1> QED
  BY <1>1, <1>2, <1>3, <1>4, TypedInit, Zenon
  DEF AccessInv, Placed, IdsNamed, InHand, Init

\* AccessInv is inductive: the id in hand is that of a role of the group's name,
\* and a member is written for the group it was read from.
LEMMA AccessStep == AccessInv /\ [Next]_vars => AccessInv'
<1> SUFFICES ASSUME AccessInv, [Next]_vars PROVE AccessInv'
  OBVIOUS
<1>1. TypedInv /\ TypeInv /\ StepsSound
  BY DEF AccessInv, TypedInv
<1>2. TypedInv'
  BY <1>1, TypedStep
<1>3. Placed'
  BY <1>1, PassChanged, PlacedStep
<1> QED
  BY <1>2, <1>3, IdsStep, InHandStep, MembersStep, MixedStep DEF AccessInv

\* However many passes read, found, made and lost roles, and whoever joined,
\* left or deleted roles meanwhile, the sync gives a role or a tuple only to
\* people that have been members of the group, and never to a service account.
THEOREM OnlyMembersGetAccess == Spec => []OnlyMembersGranted
<1>1. AccessInv => OnlyMembersGranted
  BY DEF AccessInv
<1> QED
  BY <1>1, AccessInit, AccessStep, PTL DEF Spec

\* findRoleID, ensureRole and the grants that follow never put a group's
\* relations on the role of another name.
THEOREM NoRoleMixed == Spec => []RolesNotMixed
<1>1. AccessInv => RolesNotMixed
  BY DEF AccessInv
<1> QED
  BY <1>1, AccessInit, AccessStep, PTL DEF Spec

-----------------------------------------------------------------------------
(***************************************************************************)
(* Readiness: what is not done yet is still a step of the pass.            *)
(***************************************************************************)

\* Unless something is lost outside the operator, what is there stays.
LEMMA NothingLost ==
    ASSUME TypedInv, [Next]_vars, losses' = losses
    PROVE  /\ owner = "operator" => owner' = "operator"
           /\ warehouses \subseteq warehouses' /\ grants \subseteq grants'
           /\ store' = store /\ tuples \subseteq tuples'
           /\ roleGrants \subseteq roleGrants' /\ assigned \subseteq assigned'
           /\ \A g : \A r \in RolesNamed(g) : r \in RolesNamed(g)'
<1>0. TypeInv /\ StepsSound
  BY DEF TypedInv
<1>1. losses' # losses + 1
  <2>1. losses \in Nat
    BY <1>0, CatalogConstants DEF TypeInv, TypeOK
  <2> QED
    BY <2>1
<1>2. GrantsChange /\ TuplesChange /\ OwnerChange /\ HousesChange
  BY StoresChanged
<1>3. owner = "operator" => owner' = "operator"
  BY <1>2 DEF OwnerChange
<1>4. warehouses \subseteq warehouses' /\ grants \subseteq grants'
  BY <1>2, Zenon DEF HousesChange, GrantsChange
<1>5. store' = store /\ tuples \subseteq tuples'
  BY <1>1, <1>2, Zenon DEF TuplesChange
<1>6. CASE RoleAdded
  <2>1. PICK i \in 1..(Len(roles) + 1), e \in GroupNames \cup {"other"} :
           AddRoleAt(i, e)
    BY <1>6, Zenon DEF RoleAdded
  <2>2. \A j \in 1..Len(roles) : \E k \in 1..Len(roles') :
           roles'[k] = roles[j]
    BY <1>0, <2>1, RoleInserted, Zenon
  <2>3. roleGrants' = roleGrants /\ assigned' = assigned
    BY <1>6, Zenon DEF RoleAdded
  <2>4. \A g : \A r \in RolesNamed(g) : r \in RolesNamed(g)'
    BY <2>2, Zenon DEF RolesNamed
  <2> QED
    BY <1>3, <1>4, <1>5, <2>3, <2>4, Zenon
<1>7. CASE ~RoleAdded
  <2>1. RolesChange
    BY <1>0, RolesChanged
  <2>2. ~RoleRemoved
    BY <1>1 DEF RoleRemoved
  <2>3. /\ roleGrants \subseteq roleGrants' /\ assigned \subseteq assigned'
        /\ roles' = roles
    BY <1>7, <2>1, <2>2, Zenon
    DEF RolesChange, access, RoleGranted, RoleGrantEffect, RoleAssigned,
        AssignEffect
  <2>4. \A g : \A r \in RolesNamed(g) : r \in RolesNamed(g)'
    BY <2>3, Zenon DEF RolesNamed
  <2> QED
    BY <1>3, <1>4, <1>5, <2>3, <2>4, Zenon
<1> QED
  BY <1>6, <1>7

\* Steps change the head of the list and keep the rest, d places further.
Fresh == {"principal", "grant", "assign", "tuple", "create"}
TailKept(d) ==
    /\ todo # << >>
    /\ Len(todo') = Len(todo) + d
    /\ \A k \in 2..Len(todo) : k + d \in 1..Len(todo') /\ todo'[k + d] = todo[k]
    /\ \A k \in 1..Len(todo') :
          \/ todo'[k].op \in Fresh
          \/ k - d \in 2..Len(todo) /\ todo'[k] = todo[k - d]
HeadChange ==
    \/ Popped \/ MembersRead \/ RoleMissing \/ RoleFound
    \/ \E x \in Head(todo).left : Written(x)

\* A finished call leaves the rest of the pass as it was.
LEMMA HeadPopped ==
    ASSUME TypedInv, Popped \/ MembersRead
    PROVE  TailKept(-1)
<1>0. todo \in Seq(StepSet)
  BY DEF TypedInv, TypeInv
<1>1. todo # << >> /\ todo' = Tail(todo)
  BY DEF Popped, MembersRead, At
<1>2. /\ Tail(todo) \in Seq(StepSet) /\ Len(Tail(todo)) = Len(todo) - 1
      /\ \A k \in 1..Len(Tail(todo)) :
            k + 1 \in 2..Len(todo) /\ Tail(todo)[k] = todo[k + 1]
      /\ \A k \in 2..Len(todo) :
            k - 1 \in 1..Len(Tail(todo)) /\ Tail(todo)[k - 1] = todo[k]
  BY <1>0, <1>1, PopSeq
<1> DEFINE t == Tail(todo)
<1>3. todo' = t
  BY <1>1
<1>4. /\ Len(t) = Len(todo) - 1
      /\ \A k \in 1..Len(t) : k + 1 \in 2..Len(todo) /\ t[k] = todo[k + 1]
      /\ \A k \in 2..Len(todo) : k - 1 \in 1..Len(t) /\ t[k - 1] = todo[k]
  BY <1>2
<1>5. Len(todo) \in Nat /\ Len(t) \in Nat
  BY <1>0, <1>2, SeqLen
<1> HIDE DEF t
<1>6. Len(t) = Len(todo) + -1
  BY <1>4, <1>5
<1>7. /\ \A k \in 2..Len(todo) : k + -1 = k - 1
      /\ \A k \in 1..Len(t) : k - -1 = k + 1
  BY <1>5
<1>8. \A k \in 2..Len(todo) : k + -1 \in 1..Len(t) /\ t[k + -1] = todo[k]
  BY <1>4, <1>7
<1>9. \A k \in 1..Len(t) : k - -1 \in 2..Len(todo) /\ t[k] = todo[k - -1]
  BY <1>4, <1>7
<1> QED
  BY <1>1, <1>3, <1>6, <1>8, <1>9, Zenon DEF TailKept

\* One call in place of another leaves the rest of the pass as it was.
LEMMA HeadReplaced ==
    ASSUME TypedInv, todo # << >>, NEW a, HeadNow(StepSet, todo, a, todo'),
           a.op \in Fresh
    PROVE  TailKept(0)
<1>0. todo \in Seq(StepSet) /\ Len(todo) \in Nat
  BY SeqLen DEF TypedInv, TypeInv
<1>1. /\ Len(todo') = Len(todo) /\ todo'[1] = a
      /\ \A k \in 2..Len(todo) : todo'[k] = todo[k]
  BY Zenon DEF HeadNow
<1>2. Len(todo) = Len(todo) + 0
  BY <1>0
<1>3. \A k \in 2..Len(todo) : k + 0 = k /\ k + 0 \in 1..Len(todo)
  BY <1>0
<1>4. \A k \in 1..Len(todo) : k = 1 \/ (k - 0 = k /\ k - 0 \in 2..Len(todo))
  BY <1>0
<1>5. \A k \in 2..Len(todo) : k + 0 \in 1..Len(todo') /\ todo'[k + 0] = todo[k]
  BY <1>1, <1>3, Zenon
<1>6. \A k \in 1..Len(todo') : \/ todo'[k].op \in Fresh
                               \/ /\ k - 0 \in 2..Len(todo)
                                  /\ todo'[k] = todo[k - 0]
  BY <1>1, <1>4, Zenon
<1>7. Len(todo') = Len(todo) + 0
  BY <1>1, <1>2, Zenon
<1> QED
  BY <1>5, <1>6, <1>7, Zenon DEF TailKept

\* Two calls in place of one leave the rest of the pass as it was.
LEMMA HeadDoubled ==
    ASSUME TypedInv, todo # << >>, NEW a, NEW b,
           HeadsNow(StepSet, todo, a, b, todo'), a.op \in Fresh, b.op \in Fresh
    PROVE  TailKept(1)
<1>0. todo \in Seq(StepSet) /\ Len(todo) \in Nat
  BY SeqLen DEF TypedInv, TypeInv
<1>1. /\ Len(todo') = Len(todo) + 1 /\ todo'[1] = a /\ todo'[2] = b
      /\ \A k \in 2..Len(todo) :
            k + 1 \in 3..Len(todo') /\ todo'[k + 1] = todo[k]
      /\ \A k \in 3..Len(todo') :
            k - 1 \in 2..Len(todo) /\ todo'[k] = todo[k - 1]
  BY Zenon DEF HeadsNow
<1>2. \A k \in 3..Len(todo') : k \in 1..Len(todo')
  OBVIOUS
<1>3. \A k \in 1..Len(todo') : k = 1 \/ k = 2 \/ k \in 3..Len(todo')
  <2>1. Len(todo') \in Nat
    BY <1>0, <1>1
  <2> QED
    BY <2>1
<1>4. \A k \in 2..Len(todo) : k + 1 \in 1..Len(todo') /\ todo'[k + 1] = todo[k]
  BY <1>1, <1>2, Zenon
<1>5. \A k \in 1..Len(todo') : \/ todo'[k].op \in Fresh
                               \/ /\ k - 1 \in 2..Len(todo)
                                  /\ todo'[k] = todo[k - 1]
  BY <1>1, <1>3, Zenon
<1> QED
  BY <1>1, <1>4, <1>5, Zenon DEF TailKept

\* What the head turns into.
LEMMA HeadWritten ==
    ASSUME TypedInv, NEW x, Written(x)
    PROVE  /\ TailKept(0) /\ todo' # << >> /\ 1 \in 1..Len(todo')
           /\ todo'[1].op = todo[1].op /\ todo'[1].of = todo[1].of
           /\ todo'[1].left = todo[1].left \ {x}
<1> DEFINE a == Step(Head(todo).op, Of, Head(todo).left \ {x})
<1>0. todo \in Seq(StepSet)
  BY DEF TypedInv, TypeInv
<1>1. /\ todo # << >> /\ todo' = <<a>> \o Tail(todo)
      /\ Head(todo).op \in Loops
  BY Zenon DEF Written, Done, Then
<1>2. /\ a \in StepSet /\ a.op = Head(todo).op /\ a.of = Head(todo).of
      /\ a.left = Head(todo).left \ {x}
  BY <1>1, DoneStep
<1> HIDE DEF a
<1>3. Head(todo) = todo[1]
  BY <1>0, <1>1, SeqLen
<1>4. HeadNow(StepSet, todo, a, todo')
  BY <1>0, <1>1, <1>2, PushOne, Zenon
<1>5. a.op \in Fresh
  BY <1>1, <1>2 DEF Fresh, Loops
<1>6. TailKept(0)
  BY <1>1, <1>4, <1>5, HeadReplaced, Zenon
<1>7. todo' # << >> /\ todo'[1] = a /\ todo' \in Seq(StepSet)
  BY <1>4, Zenon DEF HeadNow
<1>8. 1 \in 1..Len(todo')
  BY <1>7, SeqLen
<1> QED
  BY <1>2, <1>3, <1>6, <1>7, <1>8, Zenon

\* A role that is not listed is to be created for the same relations.
LEMMA HeadMissing ==
    ASSUME TypedInv, RoleMissing
    PROVE  /\ TailKept(0) /\ todo' # << >> /\ 1 \in 1..Len(todo')
           /\ todo[1].op = "role" /\ todo'[1].op = "create"
           /\ todo'[1].of = todo[1].of /\ todo'[1].left = todo[1].left
<1> DEFINE a == Step("create", Of, Head(todo).left)
<1>0. todo \in Seq(StepSet)
  BY DEF TypedInv, TypeInv
<1>1. /\ todo # << >> /\ todo' = <<a>> \o Tail(todo) /\ At("role")
      /\ Head(todo).op = "role"
  BY Zenon DEF RoleMissing, Then, At
<1>2. /\ a \in StepSet /\ a.op = "create" /\ a.of = Head(todo).of
      /\ a.left = Head(todo).left
  BY <1>1, RoleStepsMade, StepFields DEF Of
<1> HIDE DEF a
<1>3. Head(todo) = todo[1]
  BY <1>0, <1>1, SeqLen
<1>4. HeadNow(StepSet, todo, a, todo')
  BY <1>0, <1>1, <1>2, PushOne, Zenon
<1>5. a.op \in Fresh
  BY <1>2 DEF Fresh
<1>6. TailKept(0)
  BY <1>1, <1>4, <1>5, HeadReplaced, Zenon
<1>7. todo' # << >> /\ todo'[1] = a /\ todo' \in Seq(StepSet)
  BY <1>4, Zenon DEF HeadNow
<1>8. 1 \in 1..Len(todo')
  BY <1>7, SeqLen
<1> QED
  BY <1>1, <1>2, <1>3, <1>6, <1>7, <1>8, Zenon

\* A role that was found or made is to get its grants and the members read.
LEMMA HeadFound ==
    ASSUME TypedInv, RoleFound
    PROVE  /\ TailKept(1) /\ todo' # << >>
           /\ todo[1].op \in {"role", "create"}
           /\ 1 \in 1..Len(todo') /\ 2 \in 1..Len(todo')
           /\ todo'[1].op = "grant" /\ todo'[2].op = "assign"
           /\ todo'[1].of = todo[1].of /\ todo'[2].of = todo[1].of
           /\ todo'[1].left = todo[1].left
           /\ todo'[2].left = read[todo[1].of]
           /\ \E i \in 1..Len(roles') :
                 roles'[i].name = todo[1].of /\ roleID' = roles'[i].id
<1> DEFINE a == Step("grant", Of, Head(todo).left)
           b == Step("assign", Of, read[Of])
<1>0. todo \in Seq(StepSet)
  BY DEF TypedInv, TypeInv
<1>1. /\ todo # << >> /\ todo' = <<a, b>> \o Tail(todo)
      /\ At("role") \/ At("create")
      /\ \E i \in 1..Len(roles') : roles'[i].name = Of /\ roleID' = roles'[i].id
  BY Zenon DEF RoleFound, UseRole, Then, At
<1>2. /\ a \in StepSet /\ b \in StepSet /\ a.op = "grant" /\ b.op = "assign"
      /\ a.of = Of /\ b.of = Of /\ a.left = Head(todo).left /\ b.left = read[Of]
  BY <1>1, RoleStepsMade, StepFields
<1> HIDE DEF a, b
<1>3. Head(todo) = todo[1] /\ Of = todo[1].of
  BY <1>0, <1>1, SeqLen DEF Of
<1>4. HeadsNow(StepSet, todo, a, b, todo')
  BY <1>0, <1>1, <1>2, PushTwo, Zenon
<1>5. a.op \in Fresh /\ b.op \in Fresh
  BY <1>2 DEF Fresh
<1>6. TailKept(1)
  BY <1>1, <1>4, <1>5, HeadDoubled, Zenon
<1>7. /\ todo' # << >> /\ todo'[1] = a /\ todo'[2] = b
      /\ Len(todo') = Len(todo) + 1
  BY <1>4, Zenon DEF HeadsNow
<1>8. 1 \in 1..Len(todo') /\ 2 \in 1..Len(todo')
  <2>1. Len(todo) \in Nat /\ Len(todo) # 0
    BY <1>0, <1>1, SeqLen
  <2> QED
    BY <1>7, <2>1
<1>9. todo[1].op \in {"role", "create"}
  BY <1>1, <1>3 DEF At
<1> QED
  BY <1>1, <1>2, <1>3, <1>6, <1>7, <1>8, <1>9, Zenon

\* Working at the first call never touches the calls after it.
LEMMA HeadKept ==
    ASSUME TypedInv, HeadChange
    PROVE  /\ TailKept(-1) \/ TailKept(0) \/ TailKept(1)
           /\ todo # << >> /\ todo[1].op \notin {"plan", "done"}
<1>0. todo \in Seq(StepSet)
  BY DEF TypedInv, TypeInv
<1>1. TailKept(-1) \/ TailKept(0) \/ TailKept(1)
  BY HeadPopped, HeadWritten, HeadMissing, HeadFound, Zenon DEF HeadChange
<1>2. todo # << >> /\ Head(todo) = todo[1]
  BY <1>0, <1>1, SeqLen DEF TailKept
<1>3. Head(todo).op \notin {"plan", "done"}
  BY DEF HeadChange, Popped, MembersRead, RoleMissing, RoleFound, Written, At,
         Loops
<1> QED
  BY <1>1, <1>2, <1>3, Zenon

\* The plan stays at the end of the list, and the members before it.
LEMMA TailOrdered ==
    ASSUME Len(todo) \in Nat, todo' \in Seq(StepSet), NEW d \in {-1, 0, 1},
           TailKept(d), Ordered, todo[1].op # "plan"
    PROVE  Ordered' /\ (Last("plan") => Last("plan")')
<1> DEFINE n == Len(todo)
           m == Len(todo')
<1>1. n \in Nat /\ d \in Int /\ m = n + d
  BY DEF TailKept
<1>2. /\ \A k \in 2..n : k + d \in 1..m /\ todo'[k + d] = todo[k]
      /\ \A k \in 1..m : \/ todo'[k].op \in Fresh
                         \/ k - d \in 2..n /\ todo'[k] = todo[k - d]
      /\ todo # << >>
  BY Zenon DEF TailKept
<1>3. /\ \A k \in 1..n : todo[k].op \in {"plan", "done"} => k = n
      /\ \A k \in 1..n : todo[k].op = "members" => Last("plan")
  BY Zenon DEF Ordered
<1>4. \A op \in Fresh : op \notin {"plan", "done", "members"}
  BY DEF Fresh
<1> HIDE DEF n, m
<1>5. \A k \in 1..m : k - d = n => k = m
  BY <1>1
<1>6. /\ \A k \in 2..n : k \in 1..n
      /\ \A k \in 1..n : k = 1 \/ k \in 2..n
      /\ n + d \in 1..m => m # 0
  BY <1>1
<1>7. ASSUME Last("plan") PROVE Last("plan")'
  <2>1. todo[n].op = "plan" /\ n # 1
    BY <1>7 DEF Last, n
  <2>2. n \in 2..n
    <3>1. n # 0
      <4>1. n \in 1..n \/ n = 0
        BY <1>1
      <4>2. CASE n = 0
        BY <1>2, <1>7, <4>2 DEF Last, TailKept, n, m
      <4> QED
        BY <4>1, <4>2, <1>1
    <3> QED
      BY <1>1, <2>1, <3>1
  <2>3. n + d \in 1..m /\ todo'[n + d] = todo[n]
    BY <1>2, <2>2
  <2>4. todo'[m].op = "plan" /\ m # 0
    BY <1>1, <1>6, <2>1, <2>3
  <2>5. todo' # << >>
    BY <2>4, SeqLen DEF m
  <2> QED
    BY <2>4, <2>5 DEF Last, m
<1>8. ASSUME NEW k \in 1..m, todo'[k].op \in {"plan", "done"} PROVE k = m
  <2>1. k - d \in 2..n /\ todo'[k] = todo[k - d]
    BY <1>2, <1>4, <1>8, Zenon
  <2>2. k - d = n
    BY <1>3, <1>6, <1>8, <2>1, Zenon
  <2> QED
    BY <1>5, <2>2
<1>9. ASSUME NEW k \in 1..m, todo'[k].op = "members" PROVE Last("plan")'
  <2>1. k - d \in 2..n /\ todo'[k] = todo[k - d]
    BY <1>2, <1>4, <1>9, Zenon
  <2>2. Last("plan")
    BY <1>3, <1>6, <1>9, <2>1, Zenon
  <2> QED
    BY <1>7, <2>2
<1> QED
  BY <1>7, <1>8, <1>9, Zenon DEF Ordered, m

\* After the plan there is nothing but what it has planned.
LEMMA PlanAlone ==
    ASSUME TypedInv, Ordered, AccessPlanned
    PROVE  /\ todo' = Planned /\ todo[1].op = "plan" /\ Len(todo) = 1
<1>0. todo \in Seq(StepSet) /\ read \in [GroupNames -> SUBSET Users]
  BY DEF TypedInv, TypeInv, TypeOK
<1>1. /\ todo # << >> /\ Head(todo).op = "plan"
      /\ todo' = Planned \o Tail(todo)
  BY Zenon DEF AccessPlanned, At
<1>2. todo[1].op = "plan" /\ 1 \in 1..Len(todo)
  BY <1>0, <1>1, SeqLen
<1>3. Len(todo) = 1
  BY <1>2, Zenon DEF Ordered
<1>4. Tail(todo) \in Seq(StepSet) /\ Len(Tail(todo)) = 0
  <2>1. Tail(todo) \in Seq(StepSet) /\ Len(Tail(todo)) = Len(todo) - 1
    BY <1>0, <1>1, PopSeq
  <2> QED
    BY <1>3, <2>1
<1>5. Tail(todo) = << >>
  BY <1>4, EmptySeq
<1>6. Planned \o << >> = Planned
  BY <1>0, PlannedSteps, ConcatEmptySeq
<1> QED
  BY <1>1, <1>2, <1>3, <1>5, <1>6, Zenon

\* The plan comes after all members are read, the end after everything else.
LEMMA OrderedStep ==
    ASSUME AccessInv, Ordered, [Next]_vars
    PROVE  /\ Ordered'
           /\ Last("plan") /\ todo' # << >> => Last("plan")' \/ AccessPlanned
           /\ Begun => Last("plan")'
<1>0. TypedInv /\ TypeInv /\ StepsSound /\ todo \in Seq(StepSet)
  BY DEF AccessInv, TypedInv, TypeInv
<1>1. PassChange
  BY <1>0, PassChanged
<1>2. todo' \in Seq(StepSet)
  BY <1>0, TypedStep DEF TypedInv, TypeInv
<1>3. CASE UNCHANGED <<todo, pass>> /\ ~Begun
  BY <1>3, Zenon DEF Ordered, Last
<1>4. CASE todo' = << >> /\ ~Begun
  <2>1. \A k \in 1..Len(todo') : FALSE
    BY <1>4
  <2> QED
    BY <1>4, <2>1, Zenon DEF Ordered
<1>5. CASE Begun
  <2>1. todo' = Opening /\ todo = << >>
    BY <1>5 DEF Begun
  <2>2. Last("plan")'
    BY <2>1, OpeningSteps, Zenon DEF Last
  <2>3. \A k \in 1..Len(Opening) :
           Opening[k].op \in {"plan", "done"} => k = Len(Opening)
    BY OpeningSteps
  <2> QED
    BY <2>1, <2>2, <2>3, Zenon DEF Ordered, Last
<1>6. CASE HeadChange
  <2>1. Len(todo) \in Nat
    BY <1>0, SeqLen
  <2>2. PICK d \in {-1, 0, 1} : TailKept(d)
    BY <1>0, <1>6, HeadKept
  <2>3. todo[1].op # "plan" /\ todo # << >>
    BY <1>0, <1>6, HeadKept
  <2>4. Ordered' /\ (Last("plan") => Last("plan")')
    BY <1>2, <2>1, <2>2, <2>3, TailOrdered
  <2>5. ~Begun
    BY <2>3 DEF Begun
  <2> QED
    BY <2>4, <2>5
<1>7. CASE AccessPlanned
  <2>1. todo' = Planned
    BY <1>0, <1>7, PlanAlone
  <2>2. read \in [GroupNames -> SUBSET Users]
    BY <1>0 DEF TypeInv, TypeOK
  <2>3. \A k \in 1..Len(Planned) :
           /\ Planned[k].op \in {"plan", "done"} => k = Len(Planned)
           /\ Planned[k].op # "members"
    BY <2>2, PlannedSteps
  <2>4. ~Begun
    BY <1>7 DEF Begun, AccessPlanned, At
  <2> QED
    BY <1>7, <2>1, <2>3, <2>4, Zenon DEF Ordered
<1> QED
  BY <1>1, <1>3, <1>4, <1>5, <1>6, <1>7, Zenon DEF PassChange, HeadChange

\* A relation or a member that a loop has still to write stays to be
\* written, or is written.
LEMMA PendingKept ==
    ASSUME AccessInv, Ordered, [Next]_vars, todo' # << >>,
           NEW op \in Loops, NEW g, NEW x, Pending(op, g, x)
    PROVE  \/ Pending(op, g, x)'
           \/ todo[1].op = op /\ todo[1].of = g /\ Written(x)
<1>0. TypedInv /\ TypeInv /\ StepsSound /\ todo \in Seq(StepSet)
  BY DEF AccessInv, TypedInv, TypeInv
<1>1. PassChange
  BY <1>0, PassChanged
<1>2. PICK k \in 1..Len(todo) : /\ todo[k].op = op /\ todo[k].of = g
                                /\ x \in todo[k].left
  BY Zenon DEF Pending
<1>3. k = 1 \/ k \in 2..Len(todo)
  BY <1>0, SeqLen
<1>4. todo # << >> /\ Head(todo) = todo[1]
  BY <1>0, <1>2, SeqLen
<1>5. CASE UNCHANGED <<todo, pass>>
  BY <1>2, <1>5, Zenon DEF Pending
<1>6. CASE Begun
  BY <1>4, <1>6 DEF Begun
<1>7. CASE AccessPlanned
  <2>1. todo[1].op = "plan" /\ Len(todo) = 1
    BY <1>0, <1>7, PlanAlone
  <2>2. k = 1
    BY <2>1
  <2> QED
    BY <1>2, <2>1, <2>2 DEF Loops
<1>8. CASE HeadChange /\ k \in 2..Len(todo)
  <2>1. PICK d \in {-1, 0, 1} : TailKept(d)
    BY <1>0, <1>8, HeadKept
  <2>2. k + d \in 1..Len(todo') /\ todo'[k + d] = todo[k]
    BY <1>8, <2>1, Zenon DEF TailKept
  <2> QED
    BY <1>2, <2>2, Zenon DEF Pending
<1>9. CASE HeadChange /\ k = 1
  <2>1. todo[1].op \in Loops /\ x \in Head(todo).left
    BY <1>2, <1>4, <1>9
  <2>2. PICK y \in Head(todo).left : Written(y)
    <3>1. ~Popped
      BY <2>1, <1>4 DEF Popped, At, Loops
    <3>2. ~MembersRead /\ ~RoleMissing /\ ~RoleFound
      BY <2>1, <1>4 DEF MembersRead, RoleMissing, RoleFound, At, Loops
    <3> QED
      BY <1>9, <3>1, <3>2, Zenon DEF HeadChange
  <2>3. CASE y = x
    BY <1>2, <1>9, <2>2, <2>3, Zenon
  <2>4. CASE y # x
    <3>1. /\ 1 \in 1..Len(todo')
          /\ todo'[1].op = todo[1].op /\ todo'[1].of = todo[1].of
          /\ todo'[1].left = todo[1].left \ {y}
      BY <1>0, <2>2, HeadWritten, Zenon
    <3>2. x \in todo'[1].left
      BY <1>4, <2>1, <2>4, <3>1
    <3> QED
      BY <1>2, <1>9, <3>1, <3>2, Zenon DEF Pending
  <2> QED
    BY <2>3, <2>4
<1> QED
  BY <1>1, <1>3, <1>5, <1>6, <1>7, <1>8, <1>9, Zenon DEF PassChange, HeadChange

\* Nothing but the grants and the members of the role in hand is to be
\* written for a role.
LEMMA HandPending ==
    ASSUME AccessInv, NEW op \in {"grant", "assign"}, NEW g, NEW x,
           Pending(op, g, x)
    PROVE  todo # << >> /\ todo[1].op \in {"grant", "assign"}
<1>1. todo \in Seq(StepSet) /\ Placed
  BY DEF AccessInv, TypedInv, TypeInv
<1>2. PICK k \in 1..Len(todo) : todo[k].op = op
  BY Zenon DEF Pending
<1>3. todo # << >>
  BY <1>1, <1>2, SeqLen
<1> QED
  BY <1>1, <1>2, <1>3 DEF Placed

\* A role that was served stays so while its list is worked off.
LEMMA ServedKept ==
    ASSUME AccessInv, Ordered, [Next]_vars, todo' # << >>, losses' = losses,
           read' = read, NEW i \in 1..Len(AccessGroups), NEW id,
           todo # << >>, RoleServed(i, id)
    PROVE  RoleServed(i, id)'
<1>0. TypedInv /\ TypeInv /\ StepsSound /\ todo \in Seq(StepSet)
  BY DEF AccessInv, TypedInv, TypeInv
<1>1. roleGrants \subseteq roleGrants' /\ assigned \subseteq assigned'
  BY <1>0, NothingLost
<1>2. Head(todo) = todo[1]
  BY <1>0, SeqLen
<1>3. ASSUME todo[1].op \in {"grant", "assign"} PROVE roleID' = roleID
  <2>1. PassChange
    BY <1>0, PassChanged
  <2>2. ~RoleFound /\ ~Begun
    BY <1>2, <1>3 DEF RoleFound, At, Begun
  <2> QED
    BY <2>1, <2>2, Zenon
    DEF PassChange, Popped, MembersRead, Written, AccessPlanned, RoleMissing,
        pass
<1>4. "grant" \in Loops /\ "assign" \in Loops
  BY DEF Loops
<1>7. req' = req
  <2>1. PassChange
    BY <1>0, PassChanged
  <2>2. ~Begun
    BY DEF Begun
  <2> QED
    BY <2>1, <2>2, Zenon
    DEF PassChange, Popped, MembersRead, Written, AccessPlanned, RoleMissing,
        RoleFound, pass
<1> DEFINE g == AccessGroups[i][1]
<1> HIDE DEF g
<1>5. ASSUME NEW x \in AccessGroups[i][2]
      PROVE  \/ <<id, Right(x, req')>> \in roleGrants'
             \/ roleID' = id /\ Pending("grant", g, x)'
  <2>1. CASE <<id, Right(x, req)>> \in roleGrants
    BY <1>1, <1>7, <2>1
  <2>2. CASE roleID = id /\ Pending("grant", g, x)
    <3>1. roleID' = roleID
      BY <1>3, <2>2, HandPending
    <3>2. CASE Pending("grant", g, x)'
      BY <2>2, <3>1, <3>2
    <3>3. CASE todo[1].op = "grant" /\ Written(x)
      BY <1>2, <1>7, <2>2, <3>3 DEF Written, At
    <3> QED
      BY <1>4, <2>2, <3>2, <3>3, PendingKept
  <2> QED
    BY <2>1, <2>2, Zenon DEF RoleServed, g
<1>6. ASSUME NEW u \in read[g]
      PROVE  <<id, u>> \in assigned' \/ (roleID' = id /\ Pending("assign", g, u)')
  <2>1. CASE <<id, u>> \in assigned
    BY <1>1, <2>1
  <2>2. CASE roleID = id /\ Pending("assign", g, u)
    <3>1. roleID' = roleID
      BY <1>3, <2>2, HandPending
    <3>2. CASE Pending("assign", g, u)'
      BY <2>2, <3>1, <3>2
    <3>3. CASE todo[1].op = "assign" /\ Written(u)
      BY <1>2, <2>2, <3>3 DEF Written, At
    <3> QED
      BY <1>4, <2>2, <3>2, <3>3, PendingKept
  <2> QED
    BY <1>6, <2>1, <2>2, Zenon DEF RoleServed, g
<1> QED
  BY <1>5, <1>6, Zenon DEF RoleServed, g

\* A role that was to be looked for still is, or is in hand.
LEMMA RolePendingKept ==
    ASSUME AccessInv, Ordered, [Next]_vars, todo' # << >>, read' = read,
           NEW i \in 1..Len(AccessGroups), RolePending(i)
    PROVE  \/ RolePending(i)'
           \/ \E r \in RolesNamed(AccessGroups[i][1])' : RoleServed(i, r.id)'
<1>0. TypedInv /\ TypeInv /\ StepsSound /\ todo \in Seq(StepSet)
  BY DEF AccessInv, TypedInv, TypeInv
<1>1. PassChange
  BY <1>0, PassChanged
<1>2. PICK k \in 1..Len(todo) : /\ todo[k].op \in {"role", "create"}
                                /\ todo[k].of = AccessGroups[i][1]
                                /\ todo[k].left = AccessGroups[i][2]
  BY Zenon DEF RolePending
<1>3. k = 1 \/ k \in 2..Len(todo)
  BY <1>0, SeqLen
<1>4. todo # << >> /\ Head(todo) = todo[1]
  BY <1>0, <1>2, SeqLen
<1>5. CASE UNCHANGED <<todo, pass>>
  BY <1>2, <1>5, Zenon DEF RolePending
<1>6. CASE Begun
  BY <1>4, <1>6 DEF Begun
<1>7. CASE AccessPlanned
  <2>1. todo[1].op = "plan" /\ Len(todo) = 1
    BY <1>0, <1>7, PlanAlone
  <2>2. k = 1
    BY <2>1
  <2> QED
    BY <1>2, <2>1, <2>2
<1>8. CASE HeadChange /\ k \in 2..Len(todo)
  <2>1. PICK d \in {-1, 0, 1} : TailKept(d)
    BY <1>0, <1>8, HeadKept
  <2>2. k + d \in 1..Len(todo') /\ todo'[k + d] = todo[k]
    BY <1>8, <2>1, Zenon DEF TailKept
  <2> QED
    BY <1>2, <2>2, Zenon DEF RolePending
<1>9. CASE RoleMissing /\ k = 1
  <2>1. /\ 1 \in 1..Len(todo') /\ todo'[1].op = "create"
        /\ todo'[1].of = todo[1].of /\ todo'[1].left = todo[1].left
    BY <1>0, <1>9, HeadMissing, Zenon
  <2>2. /\ todo'[1].op \in {"role", "create"}
        /\ todo'[1].of = AccessGroups[i][1]
        /\ todo'[1].left = AccessGroups[i][2]
    BY <1>2, <1>9, <2>1
  <2> QED
    BY <2>1, <2>2, Zenon DEF RolePending
<1>10. CASE RoleFound /\ k = 1
  <2> DEFINE g == AccessGroups[i][1]
  <2>0. todo[1].of = g /\ todo[1].left = AccessGroups[i][2]
    BY <1>2, <1>10
  <2> HIDE DEF g
  <2>1. /\ 1 \in 1..Len(todo') /\ 2 \in 1..Len(todo')
        /\ todo'[1].op = "grant" /\ todo'[2].op = "assign"
        /\ todo'[1].of = g /\ todo'[2].of = g
        /\ todo'[1].left = AccessGroups[i][2]
        /\ todo'[2].left = read[g]
        /\ \E j \in 1..Len(roles') : roles'[j].name = g /\ roleID' = roles'[j].id
    BY <1>0, <1>10, <2>0, HeadFound, Zenon
  <2>2. PICK j \in 1..Len(roles') : roles'[j].name = g /\ roleID' = roles'[j].id
    BY <2>1
  <2>3. PICK r : r = roles'[j]
    OBVIOUS
  <2>4. r \in RolesNamed(g)' /\ roleID' = r.id
    BY <2>2, <2>3, Zenon DEF RolesNamed
  <2>5. \A x \in AccessGroups[i][2] : Pending("grant", g, x)'
    BY <2>1, Zenon DEF Pending
  <2>6. \A u \in read'[g] : Pending("assign", g, u)'
    BY <2>1, Zenon DEF Pending
  <2>7. RoleServed(i, r.id)'
    BY <2>4, <2>5, <2>6, Zenon DEF RoleServed, g
  <2> QED
    BY <2>4, <2>7, Zenon DEF g
<1>11. CASE k = 1 /\ (Popped \/ MembersRead \/ \E x \in Head(todo).left : Written(x))
  <2>1. Head(todo).op \in {"role", "create"}
    BY <1>2, <1>4, <1>11
  <2> QED
    BY <1>11, <2>1 DEF Popped, MembersRead, Written, At, Loops
<1> QED
  BY <1>1, <1>3, <1>5, <1>6, <1>7, <1>8, <1>9, <1>10, <1>11, Zenon
  DEF PassChange, HeadChange

\* Everything the pass stands for is done or pending again after a step.
LEMMA UnderwayStep ==
    ASSUME AccessInv, Ordered, [Next]_vars, losses' = losses,
           todo # << >> => Underway, todo' # << >>
    PROVE  Underway'
<1>0. TypedInv /\ TypeInv /\ StepsSound /\ todo \in Seq(StepSet)
      /\ read \in [GroupNames -> SUBSET Users]
  BY DEF AccessInv, TypedInv, TypeInv, TypeOK
<1>1. PassChange
  BY <1>0, PassChanged
<1>2. /\ owner = "operator" => owner' = "operator"
      /\ warehouses \subseteq warehouses' /\ grants \subseteq grants'
      /\ store' = store /\ tuples \subseteq tuples'
      /\ \A g : \A r \in RolesNamed(g) : r \in RolesNamed(g)'
  BY <1>0, NothingLost
<1>3. CASE Begun
  <2>1. Last("plan")'
    BY <1>3, OrderedStep
  <2>2. todo' = Opening /\ fga' = store
    BY <1>3 DEF Begun
  <2>3. ASSUME NEW i \in 1..Len(Principals), NEW x \in Principals[i][2]
        PROVE  Pending("principal", Principals[i][1], x)'
    BY <2>2, OpeningSteps, Zenon DEF Pending
  <2> QED
    BY <1>2, <2>1, <2>2, <2>3, Zenon DEF Underway
<1>4. CASE ~Begun
  <2>1. todo # << >>
    BY <1>1, <1>4, Zenon
    DEF PassChange, Popped, MembersRead, Written, AccessPlanned, RoleMissing,
        RoleFound, At
  <2>2. Underway /\ Head(todo) = todo[1]
    BY <1>0, <2>1, SeqLen
  <2>3. req' = req /\ fga' = fga
    BY <1>1, <1>4, Zenon
    DEF PassChange, Popped, MembersRead, Written, AccessPlanned, RoleMissing,
        RoleFound, pass
  <2>4. read' = read \/ Last("plan")'
    <3>1. CASE MembersRead
      <4>1. todo[1].op = "members" /\ 1 \in 1..Len(todo)
        BY <1>0, <2>2, <3>1, SeqLen DEF MembersRead, At
      <4>2. Last("plan") /\ ~AccessPlanned
        BY <2>2, <4>1 DEF Ordered, AccessPlanned, At
      <4> QED
        BY <4>2, OrderedStep
    <3>2. CASE ~MembersRead
      BY <1>1, <1>4, <3>2, Zenon
      DEF PassChange, Popped, Written, AccessPlanned, RoleMissing, RoleFound,
          pass
    <3> QED
      BY <3>1, <3>2
  <2>5. AccessPlanned => /\ owner = "operator" /\ req \in warehouses
                         /\ read' = read /\ todo' = Planned
    BY <1>0, PlanAlone DEF AccessPlanned, Allowed, pass
  <2>6. "principal" \in Loops /\ "tuple" \in Loops
    BY DEF Loops
  <2>7. fga' = store'
    BY <1>2, <2>2, <2>3 DEF Underway
  <2>8. Last("plan")' \/ (owner' = "operator" /\ req' \in warehouses')
    <3>1. CASE Last("plan")
      BY <1>2, <2>3, <2>5, <3>1, OrderedStep
    <3>2. CASE owner = "operator" /\ req \in warehouses
      BY <1>2, <2>3, <3>2
    <3> QED
      BY <2>2, <3>1, <3>2 DEF Underway
  <2>9. ASSUME NEW i \in 1..Len(Principals), NEW x \in Principals[i][2]
        PROVE  \/ <<Principals[i][1], x>> \in grants'
               \/ Pending("principal", Principals[i][1], x)'
    <3> DEFINE p == Principals[i][1]
    <3>1. <<p, x>> \in grants \/ Pending("principal", p, x)
      BY <2>2, Zenon DEF Underway
    <3> HIDE DEF p
    <3>2. CASE <<p, x>> \in grants
      BY <1>2, <3>2 DEF p
    <3>3. CASE Pending("principal", p, x)
      <4>1. CASE todo[1].op = "principal" /\ todo[1].of = p /\ Written(x)
        BY <2>1, <2>2, <4>1, Zenon DEF Written, At, Of, p
      <4> QED
        BY <2>6, <3>3, <4>1, PendingKept DEF p
    <3> QED
      BY <3>1, <3>2, <3>3
  <2>10. ASSUME NEW i \in 1..Len(AccessGroups)
         PROVE  \/ Last("plan")' \/ RolePending(i)'
                \/ \E r \in RolesNamed(AccessGroups[i][1])' :
                      RoleServed(i, r.id)'
    <3>1. CASE AccessPlanned
      <4>1. RolePending(i)'
        <5>1. PICK k \in 1..Len(Planned) :
                 /\ Planned[k].op = "role"
                 /\ Planned[k].of = AccessGroups[i][1]
                 /\ Planned[k].left = AccessGroups[i][2]
          BY <1>0, PlannedSteps
        <5>2. Planned[k].op \in {"role", "create"}
          BY <5>1
        <5> QED
          BY <2>5, <3>1, <5>1, <5>2, Zenon DEF RolePending
      <4> QED
        BY <4>1
    <3>2. CASE Last("plan") /\ ~AccessPlanned
      BY <3>2, OrderedStep
    <3>3. CASE ~Last("plan") /\ read' = read /\ RolePending(i)
      BY <3>3, RolePendingKept
    <3>4. CASE /\ ~Last("plan") /\ read' = read
               /\ \E r \in RolesNamed(AccessGroups[i][1]) : RoleServed(i, r.id)
      <4>1. PICK r \in RolesNamed(AccessGroups[i][1]) : RoleServed(i, r.id)
        BY <3>4
      <4>2. RoleServed(i, r.id)'
        BY <2>1, <3>4, <4>1, ServedKept
      <4>3. r \in RolesNamed(AccessGroups[i][1])'
        BY <1>2, Zenon
      <4> QED
        BY <4>2, <4>3
    <3>5. Last("plan") \/ RolePending(i)
             \/ \E r \in RolesNamed(AccessGroups[i][1]) : RoleServed(i, r.id)
      BY <2>2, Zenon DEF Underway
    <3> QED
      BY <2>4, <3>1, <3>2, <3>3, <3>4, <3>5, Zenon
  <2>11. ASSUME NEW g \in GroupNames, NEW u \in read'[g]
         PROVE  \/ Last("plan")' \/ fga' = 0 \/ <<u, g>> \in tuples'
                \/ Pending("tuple", g, u)'
    <3>1. CASE AccessPlanned
      <4>1. CASE fga = 0
        BY <2>3, <4>1
      <4>2. CASE fga # 0
        <5>1. PICK k \in 1..Len(Planned) :
                 /\ Planned[k].op = "tuple" /\ Planned[k].of = g
                 /\ Planned[k].left = read[g]
          BY <1>0, <4>2, PlannedSteps
        <5>2. u \in read[g]
          BY <2>5, <3>1
        <5>3. Pending("tuple", g, u)'
          BY <2>5, <3>1, <5>1, <5>2, Zenon DEF Pending
        <5> QED
          BY <5>3
      <4> QED
        BY <4>1, <4>2
    <3>2. CASE Last("plan") /\ ~AccessPlanned
      BY <3>2, OrderedStep
    <3>3. CASE ~Last("plan") /\ read' = read /\ ~AccessPlanned
      <4>1. fga = 0 \/ <<u, g>> \in tuples \/ Pending("tuple", g, u)
        BY <2>2, <3>3, Zenon DEF Underway
      <4>2. CASE Pending("tuple", g, u)
        <5>1. CASE todo[1].op = "tuple" /\ todo[1].of = g /\ Written(u)
          BY <2>1, <2>2, <5>1, Zenon DEF Written, At, Of
        <5> QED
          BY <2>6, <4>2, <5>1, PendingKept
      <4> QED
        BY <1>2, <2>3, <4>1, <4>2
    <3> QED
      BY <2>4, <3>1, <3>2, <3>3, Zenon
  <2> QED
    BY <2>7, <2>8, <2>9, <2>10, <2>11, Zenon DEF Underway
<1> QED
  BY <1>3, <1>4

\* A pass at its last step has done everything.
LEMMA LastStep ==
    ASSUME AccessInv, Ordered, Underway, At("done")
    PROVE  /\ owner = "operator" /\ req \in warehouses
           /\ \A i \in 1..Len(Principals) : \A x \in Principals[i][2] :
                 <<Principals[i][1], x>> \in grants
           /\ \A i \in 1..Len(AccessGroups) :
                 \E r \in RolesNamed(AccessGroups[i][1]) :
                    /\ \A x \in AccessGroups[i][2] :
                          <<r.id, Right(x, req)>> \in roleGrants
                    /\ \A u \in read[AccessGroups[i][1]] :
                          <<r.id, u>> \in assigned
           /\ store # 0 => \A g \in GroupNames : \A u \in read[g] :
                 <<u, g>> \in tuples
<1>1. todo # << >> /\ todo[1].op = "done" /\ 1 \in 1..Len(todo)
  <2>1. todo \in Seq(StepSet)
    BY DEF AccessInv, TypedInv, TypeInv
  <2> QED
    BY <2>1, SeqLen DEF At
<1>2. Len(todo) = 1
  BY <1>1, Zenon DEF Ordered
<1>3. \A k \in 1..Len(todo) : todo[k].op = "done"
  <2>1. \A k \in 1..1 : k = 1
    OBVIOUS
  <2> QED
    BY <1>1, <1>2, <2>1, Zenon
<1>4. ~Last("plan")
  BY <1>1, <1>2 DEF Last
<1>5. \A op, g, x : op # "done" => ~Pending(op, g, x)
  BY <1>3, Zenon DEF Pending
<1>6. \A i : ~RolePending(i)
  BY <1>3 DEF RolePending
<1>7. \A g, x : /\ ~Pending("principal", g, x) /\ ~Pending("grant", g, x)
                /\ ~Pending("assign", g, x) /\ ~Pending("tuple", g, x)
  BY <1>5
<1>8. owner = "operator" /\ req \in warehouses /\ fga = store
  BY <1>4, Zenon DEF Underway
<1>9. \A i \in 1..Len(Principals) : \A x \in Principals[i][2] :
         <<Principals[i][1], x>> \in grants
  BY <1>7, Zenon DEF Underway
<1>10. ASSUME NEW i \in 1..Len(AccessGroups)
       PROVE  \E r \in RolesNamed(AccessGroups[i][1]) :
                 /\ \A x \in AccessGroups[i][2] :
                       <<r.id, Right(x, req)>> \in roleGrants
                 /\ \A u \in read[AccessGroups[i][1]] : <<r.id, u>> \in assigned
  <2>1. PICK r \in RolesNamed(AccessGroups[i][1]) : RoleServed(i, r.id)
    BY <1>4, <1>6, Zenon DEF Underway
  <2> QED
    BY <1>7, <2>1, Zenon DEF RoleServed
<1>11. ASSUME store # 0, NEW g \in GroupNames, NEW u \in read[g]
       PROVE  <<u, g>> \in tuples
  BY <1>4, <1>7, <1>8, <1>11, Zenon DEF Underway
<1> QED
  BY <1>8, <1>9, <1>10, <1>11, Zenon

\* What WarehouseReady stands for, in terms of its elements.
Complete(name, seen) ==
    /\ owner = "operator" /\ name \in warehouses
    /\ \A i \in 1..Len(Principals) : \A x \in Principals[i][2] :
          <<Principals[i][1], x>> \in grants
    /\ \A i \in 1..Len(AccessGroups) :
          \E r \in RolesNamed(AccessGroups[i][1]) :
             /\ \A x \in AccessGroups[i][2] :
                   <<r.id, Right(x, name)>> \in roleGrants
             /\ \A u \in seen[AccessGroups[i][1]] : <<r.id, u>> \in assigned
    /\ store # 0 => \A g \in GroupNames : \A u \in seen[g] : <<u, g>> \in tuples

CompleteNow == losses = 0 /\ ready # None => Complete(ready, vouched)

\* ReadyComplete read element by element.
LEMMA CompleteMeans == TypeOK => (ReadyComplete <=> CompleteNow)
<1> SUFFICES ASSUME vouched \in [GroupNames -> SUBSET Users]
             PROVE  ReadyComplete <=> CompleteNow
  BY DEF TypeOK
<1>1. \A a, S, T : {a} \X S \subseteq T <=> \A x \in S : <<a, x>> \in T
  OBVIOUS
<1>2. \A g \in GroupNames :
         vouched[g] \subseteq Granted(g) <=> \A u \in vouched[g] : <<u, g>> \in tuples
  BY DEF Granted
<1>3. \A i \in 1..Len(Principals) :
         {Principals[i][1]} \X Principals[i][2] \subseteq grants <=>
            \A x \in Principals[i][2] : <<Principals[i][1], x>> \in grants
  BY <1>1
<1>4. \A i \in 1..Len(AccessGroups) : \A r :
         {r.id} \X vouched[AccessGroups[i][1]] \subseteq assigned <=>
            \A u \in vouched[AccessGroups[i][1]] : <<r.id, u>> \in assigned
  BY <1>1
<1>5. ASSUME NEW i \in 1..Len(AccessGroups)
      PROVE  (\E r \in RolesNamed(AccessGroups[i][1]) :
                 /\ \A x \in AccessGroups[i][2] :
                       <<r.id, Right(x, ready)>> \in roleGrants
                 /\ {r.id} \X vouched[AccessGroups[i][1]] \subseteq assigned)
             <=>
             (\E r \in RolesNamed(AccessGroups[i][1]) :
                 /\ \A x \in AccessGroups[i][2] :
                       <<r.id, Right(x, ready)>> \in roleGrants
                 /\ \A u \in vouched[AccessGroups[i][1]] :
                       <<r.id, u>> \in assigned)
  BY <1>4, Zenon
<1> QED
  BY <1>2, <1>3, <1>5, Zenon DEF ReadyComplete, CompleteNow, Complete

\* ReadyInv is inductive: a call leaves the pass only with its effect in place,
\* and without losses nothing that is in place goes away.
LEMMA ReadyStep ==
    ASSUME AccessInv, ReadyInv, [Next]_vars
    PROVE  ReadyInv'
<1>0. TypedInv /\ TypeInv /\ Ordered /\ ReadyComplete
  BY DEF AccessInv, TypedInv, ReadyInv
<1>1. losses \in Nat
  BY <1>0, CatalogConstants DEF TypeInv, TypeOK
<1>2. Ordered'
  BY <1>0, OrderedStep
<1>3. losses' = losses \/ losses' = losses + 1
  BY <1>0, KeycloakTypes
<1>4. losses' = 0 => losses = 0 /\ losses' = losses
  BY <1>1, <1>3
<1>5. losses = 0 /\ todo # << >> => Underway
  BY DEF ReadyInv
<1>6. losses' = 0 /\ todo' # << >> => Underway'
  BY <1>0, <1>4, <1>5, UnderwayStep
<1>7. ASSUME losses' = 0, ready' # None
      PROVE  Complete(ready, vouched)'
  <2>1. losses' = losses /\ losses = 0
    BY <1>4, <1>7
  <2>2. CASE ready' = ready /\ vouched' = vouched
    <3>1. Complete(ready, vouched)
      <4>1. CompleteNow
        BY <1>0, CompleteMeans DEF TypeInv
      <4> QED
        BY <1>7, <2>1, <2>2, <4>1 DEF CompleteNow
    <3>2. /\ owner = "operator" => owner' = "operator"
          /\ warehouses \subseteq warehouses' /\ grants \subseteq grants'
          /\ store' = store /\ tuples \subseteq tuples'
          /\ roleGrants \subseteq roleGrants' /\ assigned \subseteq assigned'
          /\ \A g : \A r \in RolesNamed(g) : r \in RolesNamed(g)'
      BY <1>0, <2>1, NothingLost
    <3>3. ASSUME NEW i \in 1..Len(AccessGroups)
          PROVE  \E r \in RolesNamed(AccessGroups[i][1])' :
                    /\ \A x \in AccessGroups[i][2] :
                          <<r.id, Right(x, ready')>> \in roleGrants'
                    /\ \A u \in vouched'[AccessGroups[i][1]] :
                          <<r.id, u>> \in assigned'
      <4>1. PICK r \in RolesNamed(AccessGroups[i][1]) :
               /\ \A x \in AccessGroups[i][2] :
                     <<r.id, Right(x, ready)>> \in roleGrants
               /\ \A u \in vouched[AccessGroups[i][1]] : <<r.id, u>> \in assigned
        BY <3>1, Zenon DEF Complete
      <4>2. r \in RolesNamed(AccessGroups[i][1])'
        BY <3>2, Zenon
      <4> QED
        BY <2>2, <3>2, <4>1, <4>2, Zenon
    <3>4. /\ owner' = "operator" /\ ready' \in warehouses'
          /\ \A i \in 1..Len(Principals) : \A x \in Principals[i][2] :
                <<Principals[i][1], x>> \in grants'
          /\ store' # 0 => \A g \in GroupNames : \A u \in vouched'[g] :
                <<u, g>> \in tuples'
      BY <2>2, <3>1, <3>2, Zenon DEF Complete
    <3> QED
      BY <3>3, <3>4, Zenon DEF Complete
  <2>3. CASE /\ At("done") /\ ready' = req /\ vouched' = read
             /\ UNCHANGED <<lakekeeper, openfga, budget>>
    <3>1. Underway
      BY <1>5, <2>1, <2>3 DEF At
    <3>2. Complete(req, read)
      BY <1>0, <2>3, <3>1, LastStep, Zenon DEF Complete
    <3>3. /\ owner' = owner /\ grants' = grants /\ warehouses' = warehouses
          /\ roles' = roles /\ roleGrants' = roleGrants
          /\ assigned' = assigned /\ store' = store /\ tuples' = tuples
      BY <2>3, Zenon DEF lakekeeper, access, openfga
    <3>4. \A g : RolesNamed(g)' = RolesNamed(g)
      BY <3>3, Zenon DEF RolesNamed
    <3> QED
      BY <2>3, <3>2, <3>3, <3>4, Zenon DEF Complete
  <2> QED
    BY <1>7, <2>2, <2>3, StatusChanged, Zenon DEF StatusChange, status
<1>8. ReadyComplete'
  <2>1. TypeOK' => (ReadyComplete' <=> CompleteNow')
    BY CompleteMeans, PTL
  <2>2. TypeOK'
    BY <1>0, TypedStep DEF TypedInv, TypeInv
  <2>3. CompleteNow'
    BY <1>7 DEF CompleteNow
  <2> QED
    BY <2>1, <2>2, <2>3
<1> QED
  BY <1>2, <1>6, <1>8 DEF ReadyInv

\* Nothing is claimed to begin with.
LEMMA ReadyInit == Init => ReadyInv
<1> SUFFICES ASSUME Init PROVE ReadyInv
  OBVIOUS
<1>1. todo = << >> /\ ready = None
  BY DEF Init
<1>2. \A k \in 1..Len(todo) : FALSE
  BY <1>1
<1> QED
  BY <1>1, <1>2, Zenon DEF ReadyInv, Ordered, ReadyComplete

\* WarehouseReady=True is never claimed early: whatever failed or lost its
\* answer in this and in earlier passes, when the condition is True the
\* operator owns LakeKeeper, and the principals, the warehouse, the roles with
\* their rights on that very warehouse (a renamed one too), their members and
\* their tuples are all there, unless something has been lost outside the
\* operator.
THEOREM ReadyMeansComplete == Spec => []ReadyComplete
<1>1. Init => AccessInv /\ ReadyInv
  BY AccessInit, ReadyInit
<1>2. AccessInv /\ ReadyInv /\ [Next]_vars => (AccessInv /\ ReadyInv)'
  BY AccessStep, ReadyStep
<1>3. ReadyInv => ReadyComplete
  BY DEF ReadyInv
<1> QED
  BY <1>1, <1>2, <1>3, PTL DEF Spec

=============================================================================
