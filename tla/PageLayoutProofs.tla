-------------------------- MODULE PageLayoutProofs --------------------------
(***************************************************************************)
(* What the page makes of its store, whatever that holds: the rows of the  *)
(* messages (PageChat) and the lists of channels and members (PageLists).  *)
(* Both are what recursive functions compute, so the proofs are inductions *)
(* along a log and along a tree, over sets of numbers (SetInduction).      *)
(***************************************************************************)
EXTENDS PageChat, PageLists, FiniteSetTheorems, SequenceTheorems, NaturalsInduction,
        WellFoundedInduction, TLAPS

------------------------------------------------------------------------------
(* Sequences *)

\* Induction over the numbers, for a set of them.
LEMMA SetInduction ==
  ASSUME NEW T \in SUBSET Nat, 0 \in T, \A n \in T : n + 1 \in T
  PROVE  T = Nat
<1> DEFINE R == OpToRel(<, Nat)
           U == Nat \ T
<1>1. \A j, k \in Nat : j < k => <<j, k>> \in R
  BY Zenon DEF OpToRel
<1>2. IsWellFoundedOn(R, Nat)
  BY NatLessThanWellFounded
<1> HIDE DEF R
<1>3. SUFFICES ASSUME U # {} PROVE FALSE
  OBVIOUS
<1>4. PICK i \in U : \A j \in U : ~(<<j, i>> \in R)
  BY <1>2, <1>3, WFMin
<1>5. i \in Nat /\ i # 0 /\ i \notin T
  BY <1>4
<1>6. i - 1 \in Nat /\ i - 1 < i /\ (i - 1) + 1 = i
  BY <1>5
<1>7. i - 1 \in U
  BY <1>5, <1>6
<1> QED
  BY <1>1, <1>4, <1>5, <1>6, <1>7, Zenon

\* The recursive function behind FlattenSeq exists and has sequences for values,
LEMMA FlattenExists ==
  ASSUME NEW R, NEW ss \in Seq(Seq(R)), Len(ss) # 0
  PROVE  \E f \in [1..Len(ss) -> Seq(R)] :
           \A i \in 1..Len(ss) : f[i] = IF i = 1 THEN ss[i] ELSE f[i - 1] \o ss[i]
<1> DEFINE Good(n, f) ==
             \A i \in 1..(n + 1) : f[i] = IF i = 1 THEN ss[i] ELSE f[i - 1] \o ss[i]
           T == {n \in Nat : n + 1 <= Len(ss) => \E f \in [1..(n + 1) -> Seq(R)] : Good(n, f)}
<1>1. Len(ss) \in Nat /\ \A i \in 1..Len(ss) : ss[i] \in Seq(R)
  OBVIOUS
<1>2. 0 \in T
  <2> DEFINE f == [i \in 1..1 |-> ss[1]]
  <2>1. f \in [1..(0 + 1) -> Seq(R)] /\ Good(0, f)
    BY <1>1
  <2> QED
    BY <2>1
<1>3. ASSUME NEW n \in T PROVE n + 1 \in T
  <2>1. SUFFICES ASSUME n + 1 + 1 <= Len(ss)
                 PROVE  \E g \in [1..(n + 1 + 1) -> Seq(R)] : Good(n + 1, g)
    <3> HIDE DEF Good
    <3> QED
      BY <1>3
  <2>2. n \in Nat /\ n + 1 <= Len(ss)
    BY <1>1, <1>3, <2>1
  <2>3. PICK f \in [1..(n + 1) -> Seq(R)] : Good(n, f)
    BY <1>3, <2>2
  <2> DEFINE g == [i \in 1..(n + 1 + 1) |-> IF i = n + 1 + 1 THEN f[n + 1] \o ss[i] ELSE f[i]]
  <2>4. g \in [1..(n + 1 + 1) -> Seq(R)]
    <3>1. ASSUME NEW i \in 1..(n + 1 + 1)
          PROVE (IF i = n + 1 + 1 THEN f[n + 1] \o ss[i] ELSE f[i]) \in Seq(R)
      <4>1. CASE i = n + 1 + 1
        <5>1. f[n + 1] \in Seq(R) /\ ss[i] \in Seq(R)
          BY <1>1, <2>1, <2>2, <2>3, <4>1
        <5> QED
          BY <4>1, <5>1, ConcatProperties
      <4>2. CASE i # n + 1 + 1
        <5>1. i \in 1..(n + 1)
          BY <2>2, <4>2
        <5> QED
          BY <2>3, <4>2, <5>1
      <4> QED
        BY <4>1, <4>2
    <3> QED
      BY <3>1
  <2>5. Good(n + 1, g)
    <3>1. ASSUME NEW i \in 1..(n + 1 + 1)
          PROVE g[i] = IF i = 1 THEN ss[i] ELSE g[i - 1] \o ss[i]
      <4>1. CASE i = n + 1 + 1
        <5>1. i # 1 /\ i - 1 = n + 1 /\ i - 1 \in 1..(n + 1 + 1) /\ i - 1 # n + 1 + 1
          BY <2>2, <4>1
        <5>2. g[i - 1] = f[n + 1] /\ g[i] = f[n + 1] \o ss[i]
          BY <4>1, <5>1
        <5> QED
          BY <5>1, <5>2
      <4>2. CASE i # n + 1 + 1
        <5>1. i \in 1..(n + 1) /\ (i # 1 => i - 1 \in 1..(n + 1 + 1) /\ i - 1 # n + 1 + 1)
          BY <2>2, <4>2
        <5>2. g[i] = f[i] /\ (i # 1 => g[i - 1] = f[i - 1])
          BY <4>2, <5>1
        <5>3. f[i] = IF i = 1 THEN ss[i] ELSE f[i - 1] \o ss[i]
          BY <2>3, <5>1
        <5> HIDE DEF g
        <5> QED
          BY <5>2, <5>3
      <4> QED
        BY <4>1, <4>2
    <3> QED
      BY <3>1
  <2> QED
    BY <2>4, <2>5
<1>4. T = Nat
  <2> HIDE DEF T
  <2>1. T \in SUBSET Nat
    BY DEF T
  <2> QED
    BY <1>2, <1>3, <2>1, SetInduction
<1>5. Len(ss) - 1 \in Nat /\ (Len(ss) - 1) + 1 = Len(ss)
  BY <1>1
<1>6. \E f \in [1..((Len(ss) - 1) + 1) -> Seq(R)] : Good(Len(ss) - 1, f)
  <2> HIDE DEF Good
  <2>1. Len(ss) - 1 \in T /\ (Len(ss) - 1) + 1 <= Len(ss)
    <3> HIDE DEF T
    <3> QED
      BY <1>1, <1>4, <1>5
  <2> QED
    BY <2>1
<1> QED
  BY <1>5, <1>6

\* and is the only one.
LEMMA FlattenIs ==
  ASSUME NEW R, NEW ss \in Seq(Seq(R)), Len(ss) # 0, NEW f \in [1..Len(ss) -> Seq(R)],
         \A i \in 1..Len(ss) : f[i] = IF i = 1 THEN ss[i] ELSE f[i - 1] \o ss[i]
  PROVE  FlattenSeq(ss) = f[Len(ss)]
<1> DEFINE g == CHOOSE g : g = [i \in 1..Len(ss) |-> IF i = 1 THEN ss[i] ELSE g[i - 1] \o ss[i]]
<1>1. FlattenSeq(ss) = g[Len(ss)]
  BY DEF FlattenSeq
<1> DEFINE h == [i \in 1..Len(ss) |-> IF i = 1 THEN ss[i] ELSE f[i - 1] \o ss[i]]
<1>2. f = h
  OBVIOUS
<1>3. g = [i \in 1..Len(ss) |-> IF i = 1 THEN ss[i] ELSE g[i - 1] \o ss[i]]
  <2>1. \E k : k = [i \in 1..Len(ss) |-> IF i = 1 THEN ss[i] ELSE k[i - 1] \o ss[i]]
    BY <1>2
  <2> QED
    BY <2>1
<1> HIDE DEF g, h
<1> DEFINE T == {n \in Nat : n + 1 <= Len(ss) => g[n + 1] = f[n + 1]}
<1>4. Len(ss) \in Nat
  OBVIOUS
<1>5. \A i \in 1..Len(ss) : g[i] = IF i = 1 THEN ss[i] ELSE g[i - 1] \o ss[i]
  BY <1>3
<1>6. 0 \in T
  <2>1. 1 <= Len(ss) => g[1] = f[1]
    <3>1. SUFFICES ASSUME 1 <= Len(ss) PROVE g[1] = f[1]
      OBVIOUS
    <3>2. 1 \in 1..Len(ss)
      BY <1>4, <3>1
    <3> QED
      BY <1>5, <3>2
  <2> QED
    BY <2>1
<1>7. ASSUME NEW n \in T PROVE n + 1 \in T
  <2>1. SUFFICES ASSUME n + 1 + 1 <= Len(ss) PROVE g[n + 1 + 1] = f[n + 1 + 1]
    BY <1>7
  <2>2. n \in Nat /\ n + 1 <= Len(ss) /\ g[n + 1] = f[n + 1]
    BY <1>4, <1>7, <2>1
  <2>3. PICK m \in 1..Len(ss) : m = n + 1 + 1 /\ m # 1 /\ m - 1 = n + 1
    BY <1>4, <2>1, <2>2
  <2>4. g[m] = g[m - 1] \o ss[m] /\ f[m] = f[m - 1] \o ss[m] /\ g[m - 1] = f[m - 1]
    BY <1>5, <2>2, <2>3
  <2> QED
    BY <2>3, <2>4
<1>8. T = Nat
  <2> HIDE DEF T
  <2>1. T \in SUBSET Nat
    BY DEF T
  <2> QED
    BY <1>6, <1>7, <2>1, SetInduction
<1>9. Len(ss) - 1 \in T /\ (Len(ss) - 1) + 1 = Len(ss)
  <2>1. Len(ss) - 1 \in Nat /\ (Len(ss) - 1) + 1 = Len(ss)
    BY <1>4
  <2> HIDE DEF T
  <2> QED
    BY <1>8, <2>1
<1>10. g[Len(ss)] = f[Len(ss)]
  BY <1>4, <1>9
<1> QED
  BY <1>1, <1>10

\* Flattening: nothing, one sequence more, and the last one extended.
LEMMA FlattenAppend ==
  ASSUME NEW R, NEW ss \in Seq(Seq(R)), NEW x \in Seq(R)
  PROVE  /\ FlattenSeq(<<>>) = <<>> /\ FlattenSeq(ss) \in Seq(R)
         /\ FlattenSeq(Append(ss, x)) = FlattenSeq(ss) \o x
<1>1. FlattenSeq(<<>>) = <<>>
  BY DEF FlattenSeq
<1> DEFINE tt == Append(ss, x)
<1>2. /\ Len(ss) \in Nat /\ tt \in Seq(Seq(R)) /\ Len(tt) = Len(ss) + 1
      /\ \A i \in 1..Len(ss) : tt[i] = ss[i]
      /\ tt[Len(ss) + 1] = x
  OBVIOUS
<1> HIDE DEF tt
<1>3. CASE Len(ss) = 0
  <2>1. ss = <<>>
    BY <1>3
  <2>2. PICK f \in [1..Len(tt) -> Seq(R)] :
          \A i \in 1..Len(tt) : f[i] = IF i = 1 THEN tt[i] ELSE f[i - 1] \o tt[i]
    BY <1>2, <1>3, FlattenExists
  <2>3. FlattenSeq(tt) = f[Len(tt)]
    <3>1. Len(tt) # 0
      BY <1>2, <1>3
    <3> QED
      BY <1>2, <2>2, <3>1, FlattenIs
  <2>4. f[1] = x /\ Len(tt) = 1
    BY <1>2, <1>3, <2>2
  <2>5. <<>> \o x = x /\ <<>> \in Seq(R)
    BY ConcatEmptySeq
  <2>6. FlattenSeq(ss) = <<>>
    BY <1>1, <2>1
  <2>7. FlattenSeq(tt) = x
    BY <2>3, <2>4
  <2> QED
    BY <1>1, <2>5, <2>6, <2>7 DEF tt
<1>4. CASE Len(ss) # 0
  <2>1. PICK f \in [1..Len(ss) -> Seq(R)] :
          \A i \in 1..Len(ss) : f[i] = IF i = 1 THEN ss[i] ELSE f[i - 1] \o ss[i]
    BY <1>4, FlattenExists
  <2>2. FlattenSeq(ss) = f[Len(ss)] /\ f[Len(ss)] \in Seq(R)
    <3>1. Len(ss) \in 1..Len(ss)
      BY <1>2, <1>4
    <3> QED
      BY <1>4, <2>1, <3>1, FlattenIs
  <2> DEFINE y == f[Len(ss)] \o x
             h == [i \in 1..Len(tt) |-> IF i = Len(tt) THEN y ELSE f[i]]
  <2>3. y \in Seq(R)
    BY <2>2, ConcatProperties
  <2> HIDE DEF y
  <2>4. h \in [1..Len(tt) -> Seq(R)]
    <3>1. ASSUME NEW i \in 1..Len(tt), i # Len(tt) PROVE f[i] \in Seq(R)
      <4>1. i \in 1..Len(ss)
        BY <1>2, <3>1
      <4> QED
        BY <2>1, <4>1
    <3> QED
      BY <2>3, <3>1
  <2>5. ASSUME NEW i \in 1..Len(tt)
        PROVE  h[i] = IF i = 1 THEN tt[i] ELSE h[i - 1] \o tt[i]
    <3>1. CASE i = Len(tt)
      <4>1. i # 1 /\ i - 1 = Len(ss) /\ i - 1 \in 1..Len(tt) /\ i - 1 # Len(tt)
        BY <1>2, <1>4, <3>1
      <4>2. h[i] = y /\ h[i - 1] = f[Len(ss)] /\ tt[i] = x
        BY <1>2, <3>1, <4>1
      <4> QED
        BY <4>1, <4>2 DEF y
    <3>2. CASE i # Len(tt)
      <4>1. i \in 1..Len(ss) /\ (i # 1 => i - 1 \in 1..Len(tt) /\ i - 1 # Len(tt))
        BY <1>2, <3>2
      <4>2. h[i] = f[i] /\ tt[i] = ss[i] /\ (i # 1 => h[i - 1] = f[i - 1])
        BY <1>2, <3>2, <4>1
      <4>3. f[i] = IF i = 1 THEN ss[i] ELSE f[i - 1] \o ss[i]
        BY <2>1, <4>1
      <4> HIDE DEF h
      <4> QED
        BY <4>2, <4>3
    <3> QED
      BY <3>1, <3>2
  <2>6. h[Len(tt)] = y /\ Len(tt) # 0
    BY <1>2
  <2> HIDE DEF h
  <2>7. FlattenSeq(tt) = h[Len(tt)]
    BY <1>2, <2>4, <2>5, <2>6, FlattenIs
  <2> QED
    BY <1>1, <2>2, <2>6, <2>7 DEF y, tt
<1> QED
  BY <1>3, <1>4

\* The last element of a sequence is replaced.
LEMMA LastReplaced ==
  ASSUME NEW S, NEW a \in Seq(S), NEW l \in S, NEW m \in S
  PROVE  /\ Len(Append(a, l)) = Len(a) + 1 /\ Append(a, l)[Len(a) + 1] = l
         /\ [Append(a, l) EXCEPT ![Len(a) + 1] = m] = Append(a, m)
<1> DEFINE b == [Append(a, l) EXCEPT ![Len(a) + 1] = m]
           c == Append(a, m)
<1>1. Len(a) \in Nat
  OBVIOUS
<1>2. /\ Append(a, l) \in Seq(S) /\ Len(Append(a, l)) = Len(a) + 1
      /\ \A i \in 1..Len(a) : Append(a, l)[i] = a[i]
      /\ Append(a, l)[Len(a) + 1] = l
  BY AppendProperties
<1>3. /\ c \in Seq(S) /\ Len(c) = Len(a) + 1
      /\ \A i \in 1..Len(a) : c[i] = a[i]
      /\ c[Len(a) + 1] = m
  BY AppendProperties
<1>4. b \in Seq(S) /\ Len(b) = Len(a) + 1
  BY <1>2
<1>5. ASSUME NEW i \in 1..(Len(a) + 1) PROVE b[i] = c[i]
  <2>1. CASE i = Len(a) + 1
    BY <1>2, <1>3, <2>1
  <2>2. CASE i # Len(a) + 1
    <3>1. i \in 1..Len(a)
      BY <1>1, <2>2
    <3>2. b[i] = Append(a, l)[i]
      <4> DEFINE d == Append(a, l)
                 n == Len(a) + 1
      <4>1. d \in Seq(S) /\ i \in 1..Len(d)
        BY <1>1, <1>2, <3>1
      <4> HIDE DEF d, n
      <4>2. i \in DOMAIN d /\ i # n
        BY <2>2, <4>1 DEF n
      <4>3. [d EXCEPT ![n] = m][i] = d[i]
        BY <4>2
      <4> QED
        BY <4>3 DEF d, n
    <3> QED
      BY <1>2, <1>3, <3>1, <3>2
  <2> QED
    BY <2>1, <2>2
<1> HIDE DEF b, c
<1>6. b = c
  BY <1>3, <1>4, <1>5
<1> QED
  BY <1>2, <1>6 DEF b, c

\* A message of the log.
Message == {m \in [sender : Senders \cup {System}, time : Stamps, blank : BOOLEAN] :
              m.blank => m.sender = System}

\* A section of the log: a day's divider, a system message or a group,
Section == {sec \in [kind : {"day", "system", "group"}, day : Nat, messages : Seq(Message)] :
              sec.kind # "day" => sec.messages # <<>>}

\* and a row of it.
IsDay(r) == "day" \in DOMAIN r
IsText(r) == "message" \in DOMAIN r
Divider(d) == [day |-> d]
Text(m, b) == [message |-> m, meta |-> b]
Row == {Divider(d) : d \in Nat} \cup {Text(m, b) : m \in Message, b \in BOOLEAN}

RowsOf(secs) == FlattenSeq([i \in DOMAIN secs |-> SectionRows(secs[i])])

\* A divider and the row of a message are different things.
LEMMA RowKinds ==
  /\ \A d \in Nat : /\ Divider(d) \in Row /\ Divider(d).day = d
                    /\ IsDay(Divider(d)) /\ ~IsText(Divider(d))
  /\ \A m \in Message, b \in BOOLEAN : /\ Text(m, b) \in Row
                                      /\ IsText(Text(m, b)) /\ ~IsDay(Text(m, b))
                                      /\ Text(m, b).message = m /\ Text(m, b).meta = b
<1>1. \A d \in Nat : Divider(d) \in Row
  BY DEF Row
<1>2. \A m \in Message, b \in BOOLEAN : Text(m, b) \in Row
  BY DEF Row
<1> QED
  BY <1>1, <1>2 DEF IsDay, IsText, Divider, Text

\* What a section shows.
LEMMA SectionShows ==
  ASSUME NEW sec \in Section
  PROVE  /\ SectionRows(sec) \in Seq(Row)
         /\ sec.kind = "day" => SectionRows(sec) = <<Divider(sec.day)>>
         /\ sec.kind = "system" /\ Len(sec.messages) = 1 =>
              SectionRows(sec) = (IF sec.messages[1].blank THEN <<>>
                                  ELSE <<Text(sec.messages[1], FALSE)>>)
         /\ sec.kind = "group" /\ Len(sec.messages) = 1 =>
              SectionRows(sec) = <<Text(sec.messages[1], TRUE)>>
<1>1. /\ sec.kind \in {"day", "system", "group"} /\ sec.day \in Nat
      /\ sec.messages \in Seq(Message) /\ (sec.kind # "day" => sec.messages # <<>>)
  BY DEF Section
<1> DEFINE ms == sec.messages
           rs == [i \in DOMAIN ms |-> Text(ms[i], sec.kind = "group" /\ i = 1)]
<1>2. CASE sec.kind = "day"
  <2>1. SectionRows(sec) = <<Divider(sec.day)>>
    BY <1>2 DEF SectionRows, Divider
  <2>2. Divider(sec.day) \in Row
    BY <1>1 DEF Row
  <2> QED
    BY <1>2, <2>1, <2>2
<1>3. CASE sec.kind # "day"
  <2>1. SectionRows(sec) = IF sec.kind = "system" /\ ms[1].blank THEN <<>> ELSE rs
    BY <1>3 DEF SectionRows, Text
  <2>2. /\ Len(ms) \in Nat /\ DOMAIN ms = 1..Len(ms) /\ Len(ms) # 0
        /\ \A i \in DOMAIN ms : ms[i] \in Message
    BY <1>1, <1>3
  <2> HIDE DEF ms
  <2>3. rs \in Seq(Row) /\ Len(rs) = Len(ms)
    <3>1. ASSUME NEW i \in DOMAIN ms PROVE rs[i] \in Row
      <4>1. PICK b \in BOOLEAN : b = (sec.kind = "group" /\ i = 1)
        OBVIOUS
      <4>2. rs[i] = Text(ms[i], b)
        BY <4>1
      <4> QED
        BY <2>2, <4>2 DEF Row
    <3>2. rs \in [1..Len(ms) -> Row]
      BY <2>2, <3>1
    <3> QED
      BY <2>2, <3>2
  <2>4. Len(ms) = 1 => rs = <<Text(ms[1], sec.kind = "group")>>
    <3>1. SUFFICES ASSUME Len(ms) = 1 PROVE rs = <<Text(ms[1], sec.kind = "group")>>
      OBVIOUS
    <3>2. rs[1] = Text(ms[1], sec.kind = "group")
      <4>1. 1 \in DOMAIN ms
        BY <2>2, <3>1
      <4> QED
        BY <4>1
    <3> HIDE DEF rs
    <3> QED
      BY <2>3, <3>1, <3>2
  <2> HIDE DEF rs
  <2>5. SectionRows(sec) \in Seq(Row)
    BY <2>1, <2>3
  <2>6. sec.kind = "system" /\ Len(ms) = 1 =>
          SectionRows(sec) = (IF ms[1].blank THEN <<>> ELSE <<Text(ms[1], FALSE)>>)
    <3>1. SUFFICES ASSUME sec.kind = "system", Len(ms) = 1
                   PROVE  SectionRows(sec) = (IF ms[1].blank THEN <<>> ELSE <<Text(ms[1], FALSE)>>)
      OBVIOUS
    <3>2. (sec.kind = "group") = FALSE
      BY <3>1
    <3>3. rs = <<Text(ms[1], FALSE)>>
      BY <2>4, <3>1, <3>2
    <3> QED
      BY <2>1, <3>1, <3>3
  <2>7. sec.kind = "group" /\ Len(ms) = 1 => SectionRows(sec) = <<Text(ms[1], TRUE)>>
    <3>1. SUFFICES ASSUME sec.kind = "group", Len(ms) = 1
                   PROVE  SectionRows(sec) = <<Text(ms[1], TRUE)>>
      OBVIOUS
    <3>2. (sec.kind = "group") = TRUE /\ sec.kind # "system"
      BY <3>1
    <3>3. rs = <<Text(ms[1], TRUE)>>
      BY <2>4, <3>1, <3>2
    <3> QED
      BY <2>1, <3>2, <3>3
  <2> QED
    BY <1>3, <2>5, <2>6, <2>7 DEF ms
<1> QED
  BY <1>2, <1>3

\* The rows of sections: none, one section more, and a message more in the last.
LEMMA RowsAppend ==
  ASSUME NEW secs \in Seq(Section), NEW sec \in Section
  PROVE  /\ RowsOf(<<>>) = <<>> /\ RowsOf(secs) \in Seq(Row)
         /\ RowsOf(Append(secs, sec)) = RowsOf(secs) \o SectionRows(sec)
<1> DEFINE f == [i \in DOMAIN secs |-> SectionRows(secs[i])]
           g == [i \in DOMAIN Append(secs, sec) |-> SectionRows(Append(secs, sec)[i])]
<1>1. /\ Len(secs) \in Nat /\ DOMAIN secs = 1..Len(secs)
      /\ \A i \in 1..Len(secs) : secs[i] \in Section
  OBVIOUS
<1>2. /\ Append(secs, sec) \in Seq(Section) /\ Len(Append(secs, sec)) = Len(secs) + 1
      /\ \A i \in 1..Len(secs) : Append(secs, sec)[i] = secs[i]
      /\ Append(secs, sec)[Len(secs) + 1] = sec
  BY AppendProperties
<1>3. f \in Seq(Seq(Row)) /\ Len(f) = Len(secs)
  <2>1. f \in [1..Len(secs) -> Seq(Row)]
    BY <1>1, SectionShows
  <2> QED
    BY <1>1, <2>1
<1>4. SectionRows(sec) \in Seq(Row)
  BY SectionShows
<1>5. g = Append(f, SectionRows(sec))
  <2>1. /\ Append(f, SectionRows(sec)) \in Seq(Seq(Row))
        /\ Len(Append(f, SectionRows(sec))) = Len(secs) + 1
        /\ \A i \in 1..Len(secs) : Append(f, SectionRows(sec))[i] = f[i]
        /\ Append(f, SectionRows(sec))[Len(secs) + 1] = SectionRows(sec)
    BY <1>3, <1>4, AppendProperties
  <2>2. DOMAIN Append(secs, sec) = 1..(Len(secs) + 1)
    BY <1>2
  <2>3. ASSUME NEW i \in 1..(Len(secs) + 1) PROVE g[i] = Append(f, SectionRows(sec))[i]
    <3>1. CASE i = Len(secs) + 1
      BY <1>2, <2>1, <2>2, <3>1
    <3>2. CASE i # Len(secs) + 1
      <4>1. i \in 1..Len(secs)
        BY <1>1, <3>2
      <4> QED
        BY <1>1, <1>2, <2>1, <2>2, <4>1
    <3> QED
      BY <3>1, <3>2
  <2>4. g = [i \in 1..(Len(secs) + 1) |-> g[i]]
    BY <2>2
  <2> DEFINE h == Append(f, SectionRows(sec))
  <2>5. h = [i \in 1..(Len(secs) + 1) |-> h[i]]
    <3> HIDE DEF f
    <3>1. h \in Seq(Seq(Row)) /\ Len(h) = Len(secs) + 1
      BY <2>1
    <3> HIDE DEF h
    <3> QED
      BY <3>1
  <2> HIDE DEF f, g
  <2> QED
    BY <2>3, <2>4, <2>5
<1>6. RowsOf(Append(secs, sec)) = FlattenSeq(g) /\ RowsOf(secs) = FlattenSeq(f)
  BY DEF RowsOf
<1>7. RowsOf(<<>>) = FlattenSeq(<<>>)
  BY DEF RowsOf
<1> HIDE DEF f, g
<1> QED
  BY <1>3, <1>4, <1>5, <1>6, <1>7, FlattenAppend

\* The row that a message more in the last group adds.
LEMMA RowsExtended ==
  ASSUME NEW secs \in Seq(Section), NEW sec \in Section, sec.kind = "group", NEW m \in Message
  PROVE  /\ [sec EXCEPT !.messages = Append(@, m)] \in Section
         /\ RowsOf(Append(secs, [sec EXCEPT !.messages = Append(@, m)]))
              = Append(RowsOf(Append(secs, sec)), Text(m, FALSE))
<1> DEFINE ms == sec.messages
           ns == Append(ms, m)
           more == [sec EXCEPT !.messages = ns]
           Lines(q) == [i \in DOMAIN q |-> Text(q[i], i = 1)]
           t == Text(m, FALSE)
<1>1. /\ sec.day \in Nat /\ ms \in Seq(Message) /\ ms # <<>>
      /\ sec \in [kind : {"day", "system", "group"}, day : Nat, messages : Seq(Message)]
  BY DEF Section
<1>2. /\ ns \in Seq(Message) /\ Len(ns) = Len(ms) + 1 /\ Len(ms) \in Nat /\ Len(ms) # 0
      /\ \A i \in 1..Len(ms) : ns[i] = ms[i]
      /\ ns[Len(ms) + 1] = m /\ ns # <<>>
  BY <1>1, AppendProperties
<1> HIDE DEF ms, ns
<1>3. more \in Section /\ more.kind = "group" /\ more.messages = ns
  BY <1>1, <1>2 DEF Section
<1> HIDE DEF more
<1>4. SectionRows(sec) = Lines(ms) /\ SectionRows(more) = Lines(ns)
  <2>1. ASSUME NEW q \in Section, q.kind = "group" PROVE SectionRows(q) = Lines(q.messages)
    <3>1. SectionRows(q) = [i \in DOMAIN q.messages |->
                             Text(q.messages[i], q.kind = "group" /\ i = 1)]
      BY <2>1 DEF SectionRows, Text
    <3>2. \A i : (q.kind = "group" /\ i = 1) = (i = 1)
      BY <2>1
    <3> QED
      BY <3>1, <3>2
  <2> QED
    BY <1>3, <2>1 DEF ms
<1>5. Lines(ms) \in Seq(Row) /\ t \in Row
  <2>1. SectionRows(sec) \in Seq(Row)
    BY SectionShows
  <2>2. t \in Row
    <3>1. FALSE \in BOOLEAN
      OBVIOUS
    <3> QED
      BY <3>1, RowKinds
  <2> QED
    BY <1>4, <2>1, <2>2
<1> HIDE DEF t
<1>6. Lines(ns) = Append(Lines(ms), t)
  <2> DEFINE a == Lines(ms)
             b == Lines(ns)
             c == Append(a, t)
  <2>1. DOMAIN ms = 1..Len(ms) /\ DOMAIN ns = 1..(Len(ms) + 1)
    BY <1>1, <1>2 DEF ms
  <2>2. Len(a) = Len(ms)
    BY <1>2, <2>1
  <2>3. /\ c \in Seq(Row) /\ Len(c) = Len(ms) + 1
        /\ \A i \in 1..Len(ms) : c[i] = a[i]
        /\ c[Len(ms) + 1] = t
    <3> HIDE DEF a
    <3>1. a \in Seq(Row)
      BY <1>5 DEF a
    <3>2. t \in Row
      BY <1>5
    <3> QED
      BY <2>2, <3>1, <3>2, AppendProperties
  <2>4. ASSUME NEW i \in 1..(Len(ms) + 1) PROVE b[i] = c[i]
    <3>1. CASE i = Len(ms) + 1
      <4>1. (i = 1) = FALSE
        BY <1>2, <3>1
      <4>2. b[i] = Text(m, i = 1)
        BY <1>2, <2>1, <3>1
      <4> QED
        BY <2>3, <3>1, <4>1, <4>2 DEF t
    <3>2. CASE i # Len(ms) + 1
      <4>1. i \in 1..Len(ms)
        BY <1>2, <3>2
      <4>2. c[i] = a[i]
        BY <2>3, <4>1
      <4> HIDE DEF c
      <4> QED
        BY <1>2, <2>1, <4>1, <4>2
    <3> QED
      BY <3>1, <3>2
  <2>5. b \in Seq(Row) /\ Len(b) = Len(ms) + 1
    <3>1. b \in Seq(Row)
      BY <1>3, <1>4, SectionShows
    <3> QED
      BY <1>2, <2>1, <3>1
  <2> HIDE DEF b, c
  <2>6. b = c
    BY <2>3, <2>4, <2>5
  <2> QED
    BY <2>6 DEF b, c
<1> DEFINE u == RowsOf(secs)
           l == Lines(ms)
<1>7. /\ u \in Seq(Row) /\ RowsOf(Append(secs, sec)) = u \o l
      /\ RowsOf(Append(secs, more)) = u \o Append(l, t)
  <2>1. /\ u \in Seq(Row) /\ RowsOf(Append(secs, sec)) = u \o SectionRows(sec)
        /\ RowsOf(Append(secs, more)) = u \o SectionRows(more)
    BY <1>3, RowsAppend
  <2> QED
    BY <1>4, <1>6, <2>1
<1> HIDE DEF l, u
<1>8. l \in Seq(Row)
  BY <1>5 DEF l
<1>9. u \o Append(l, t) = Append(u \o l, t)
  <2>1. Append(l, t) = l \o <<t>> /\ <<t>> \in Seq(Row)
    BY <1>5, <1>8, AppendIsConcat
  <2>2. (u \o l) \o <<t>> = u \o (l \o <<t>>)
    BY <1>7, <1>8, <2>1, ConcatAssociative
  <2>3. u \o l \in Seq(Row)
    BY <1>7, <1>8, ConcatProperties
  <2>4. Append(u \o l, t) = (u \o l) \o <<t>>
    BY <1>5, <2>3, AppendIsConcat
  <2> QED
    BY <2>1, <2>2, <2>4
<1> QED
  BY <1>3, <1>7, <1>9 DEF more, ns, ms, t

\* Row r stands under the divider of day d.
Under(rows, r, d) ==
  \E k \in 1..r : rows[k] = Divider(d) /\ \A e \in (k + 1)..r : ~IsDay(rows[e])

Follows(a, b) ==
  /\ a.sender = b.sender /\ a.time \div Day = b.time \div Day
  /\ b.time - a.time \in 0..Window

\* Among the first i messages of s, those that have something to show, and the
\* rows of messages.
Texts(s, i) == {k \in 1..i : ~s[k].blank}
TextRows(rows) == {r \in 1..Len(rows) : IsText(rows[r])}

\* The row of the k-th message of s is right.
RowIsRight(s, k, rows, r) ==
  /\ rows[r].message = s[k]
  /\ s[k].sender # System => rows[r].meta = ~(k > 1 /\ Follows(s[k - 1], s[k]))
  /\ Under(rows, r, s[k].time \div Day)

\* The first i messages have their rows.
Shows(s, i, rows) ==
  \E row \in [Texts(s, i) -> TextRows(rows)] :
    /\ \A r \in TextRows(rows) : \E k \in Texts(s, i) : row[k] = r
    /\ \A j, k \in Texts(s, i) : j < k => row[j] < row[k]
    /\ \A k \in Texts(s, i) : RowIsRight(s, k, rows, row[k])

\* A row more leaves the others as they were.
LEMMA RowAdded ==
  ASSUME NEW rows \in Seq(Row), NEW x \in Row
  PROVE  /\ Append(rows, x) \in Seq(Row) /\ Len(Append(rows, x)) = Len(rows) + 1
         /\ Append(rows, x)[Len(rows) + 1] = x
         /\ \A r \in 1..Len(rows) : Append(rows, x)[r] = rows[r]
         /\ \A d : \A r \in 1..Len(rows) : Under(rows, r, d) => Under(Append(rows, x), r, d)
         /\ \A s, k, r : r \in 1..Len(rows) /\ RowIsRight(s, k, rows, r)
                         => RowIsRight(s, k, Append(rows, x), r)
         /\ IsText(x) => TextRows(Append(rows, x)) = TextRows(rows) \cup {Len(rows) + 1}
         /\ ~IsText(x) => TextRows(Append(rows, x)) = TextRows(rows)
<1> DEFINE more == Append(rows, x)
<1>1. /\ more \in Seq(Row) /\ Len(more) = Len(rows) + 1 /\ more[Len(rows) + 1] = x
      /\ \A r \in 1..Len(rows) : more[r] = rows[r]
      /\ Len(rows) \in Nat
  BY AppendProperties
<1> HIDE DEF more
<1>2. ASSUME NEW r \in 1..Len(rows), NEW d, Under(rows, r, d) PROVE Under(more, r, d)
  <2>1. PICK k \in 1..r : rows[k] = Divider(d) /\ \A e \in (k + 1)..r : ~IsDay(rows[e])
    BY <1>2 DEF Under
  <2>2. k \in 1..Len(rows) /\ (k + 1)..r \subseteq 1..Len(rows)
    BY <1>1, <2>1
  <2>3. more[k] = Divider(d) /\ \A e \in (k + 1)..r : ~IsDay(more[e])
    BY <1>1, <2>1, <2>2
  <2> QED
    BY <2>3 DEF Under
<1>3. ASSUME NEW s, NEW k, NEW r \in 1..Len(rows), RowIsRight(s, k, rows, r)
      PROVE  RowIsRight(s, k, more, r)
  BY <1>1, <1>2, <1>3 DEF RowIsRight
<1>4. 1..Len(more) = 1..Len(rows) \cup {Len(rows) + 1}
  BY <1>1
<1>5. IsText(x) => TextRows(more) = TextRows(rows) \cup {Len(rows) + 1}
  BY <1>1, <1>4 DEF TextRows
<1>6. ~IsText(x) => TextRows(more) = TextRows(rows)
  BY <1>1, <1>4 DEF TextRows
<1> QED
  BY <1>1, <1>2, <1>3, <1>5, <1>6 DEF more

\* A divider shows nothing new,
LEMMA DividerShowsNothing ==
  ASSUME NEW s, NEW i \in Nat, NEW rows \in Seq(Row), Shows(s, i, rows), NEW d \in Nat
  PROVE  Shows(s, i, Append(rows, Divider(d))) /\ Under(Append(rows, Divider(d)), Len(rows) + 1, d)
<1> DEFINE x == Divider(d)
           more == Append(rows, x)
<1>1. x \in Row /\ ~IsText(x) /\ IsDay(x)
  BY RowKinds
<1> HIDE DEF x
<1>2. /\ more[Len(rows) + 1] = x /\ TextRows(more) = TextRows(rows)
      /\ \A k, r : r \in 1..Len(rows) /\ RowIsRight(s, k, rows, r) => RowIsRight(s, k, more, r)
  BY <1>1, RowAdded
<1> HIDE DEF more
<1>3. PICK row \in [Texts(s, i) -> TextRows(rows)] :
        /\ \A r \in TextRows(rows) : \E k \in Texts(s, i) : row[k] = r
        /\ \A j, k \in Texts(s, i) : j < k => row[j] < row[k]
        /\ \A k \in Texts(s, i) : RowIsRight(s, k, rows, row[k])
  BY DEF Shows
<1>4. \A k \in Texts(s, i) : row[k] \in 1..Len(rows)
  BY <1>3 DEF TextRows
<1>5. Shows(s, i, more)
  BY <1>2, <1>3, <1>4 DEF Shows
<1>6. Under(more, Len(rows) + 1, d)
  <2>1. Len(rows) + 1 \in 1..(Len(rows) + 1) /\ (Len(rows) + 1 + 1)..(Len(rows) + 1) = {}
    OBVIOUS
  <2> QED
    BY <1>2, <2>1 DEF Under, x
<1> QED
  BY <1>5, <1>6 DEF more, x

\* nor does a message without text;
LEMMA BlankShowsNothing ==
  ASSUME NEW s, NEW i \in Nat, NEW rows, Shows(s, i, rows), s[i + 1].blank
  PROVE  Shows(s, i + 1, rows)
<1>1. 1..(i + 1) = 1..i \cup {i + 1}
  OBVIOUS
<1>2. Texts(s, i + 1) = Texts(s, i)
  BY <1>1 DEF Texts
<1> QED
  BY <1>2 DEF Shows

\* one with text has its row below the others.
LEMMA TextShown ==
  ASSUME NEW s, NEW i \in Nat, NEW rows \in Seq(Row), Shows(s, i, rows),
         s[i + 1] \in Message, ~s[i + 1].blank,
         NEW n, n = Len(rows), n # 0, Under(rows, n, s[i + 1].time \div Day),
         NEW b \in BOOLEAN,
         s[i + 1].sender # System => b = ~(i + 1 > 1 /\ Follows(s[i], s[i + 1]))
  PROVE  /\ Shows(s, i + 1, Append(rows, Text(s[i + 1], b)))
         /\ Under(Append(rows, Text(s[i + 1], b)), n + 1, s[i + 1].time \div Day)
<1> DEFINE m == s[i + 1]
           x == Text(m, b)
           more == Append(rows, x)
           day == s[i + 1].time \div Day
<1>1. x \in Row /\ IsText(x) /\ ~IsDay(x) /\ x.message = m /\ x.meta = b
  BY RowKinds
<1> HIDE DEF x, day
<1>2. /\ more[n + 1] = x /\ TextRows(more) = TextRows(rows) \cup {n + 1}
      /\ \A r \in 1..n : more[r] = rows[r]
      /\ \A k, r : r \in 1..n /\ RowIsRight(s, k, rows, r) => RowIsRight(s, k, more, r)
      /\ n \in Nat
  BY <1>1, RowAdded
<1> HIDE DEF more
<1>3. Under(more, n + 1, day)
  <2>1. PICK k \in 1..n : rows[k] = Divider(day) /\ \A e \in (k + 1)..n : ~IsDay(rows[e])
    BY DEF Under, day
  <2>2. k \in 1..(n + 1) /\ more[k] = Divider(day)
    BY <1>2, <2>1
  <2>3. ASSUME NEW e \in (k + 1)..(n + 1) PROVE ~IsDay(more[e])
    <3>1. CASE e = n + 1
      BY <1>1, <1>2, <3>1
    <3>2. CASE e # n + 1
      <4>1. e \in (k + 1)..n /\ e \in 1..n
        BY <1>2, <2>3, <3>2
      <4> QED
        BY <1>2, <2>1, <4>1
    <3> QED
      BY <3>1, <3>2
  <2> QED
    BY <2>2, <2>3 DEF Under
<1>4. RowIsRight(s, i + 1, more, n + 1)
  <2>1. (i + 1) - 1 = i
    OBVIOUS
  <2> QED
    BY <1>1, <1>2, <1>3, <2>1 DEF RowIsRight, day, m
<1>5. PICK row \in [Texts(s, i) -> TextRows(rows)] :
        /\ \A r \in TextRows(rows) : \E k \in Texts(s, i) : row[k] = r
        /\ \A j, k \in Texts(s, i) : j < k => row[j] < row[k]
        /\ \A k \in Texts(s, i) : RowIsRight(s, k, rows, row[k])
  BY DEF Shows
<1>6. Texts(s, i + 1) = Texts(s, i) \cup {i + 1} /\ i + 1 \notin Texts(s, i)
      /\ \A k \in Texts(s, i) : k \in 1..i
  <2>1. 1..(i + 1) = 1..i \cup {i + 1} /\ i + 1 \notin 1..i
    OBVIOUS
  <2> QED
    BY <2>1 DEF Texts
<1> DEFINE new == [k \in Texts(s, i + 1) |-> IF k = i + 1 THEN n + 1 ELSE row[k]]
<1>7. /\ new[i + 1] = n + 1
      /\ \A k \in Texts(s, i) : new[k] = row[k] /\ row[k] \in TextRows(rows) /\ row[k] \in 1..n
      /\ new \in [Texts(s, i + 1) -> TextRows(more)]
  <2>1. \A k \in Texts(s, i) : row[k] \in TextRows(rows) /\ row[k] \in 1..n
    BY <1>5 DEF TextRows
  <2>2. \A k \in Texts(s, i + 1) :
          (IF k = i + 1 THEN n + 1 ELSE row[k]) \in TextRows(more)
    BY <1>2, <1>6, <2>1
  <2> QED
    BY <1>6, <2>1, <2>2
<1> HIDE DEF new
<1>8. ASSUME NEW r \in TextRows(more) PROVE \E k \in Texts(s, i + 1) : new[k] = r
  BY <1>2, <1>5, <1>6, <1>7
<1>9. ASSUME NEW j \in Texts(s, i + 1), NEW k \in Texts(s, i + 1), j < k
      PROVE  new[j] < new[k]
  <2>1. j \in Texts(s, i)
    BY <1>6, <1>9
  <2>2. CASE k = i + 1
    BY <1>2, <1>7, <2>1, <2>2
  <2>3. CASE k # i + 1
    BY <1>5, <1>6, <1>7, <1>9, <2>1, <2>3
  <2> QED
    BY <2>2, <2>3
<1>10. ASSUME NEW k \in Texts(s, i + 1) PROVE RowIsRight(s, k, more, new[k])
  BY <1>2, <1>4, <1>5, <1>6, <1>7
<1>11. Shows(s, i + 1, more)
  BY <1>7, <1>8, <1>9, <1>10 DEF Shows
<1> QED
  BY <1>3, <1>11 DEF more, x, day

Accs == [sections : Seq(Section), day : Int, open : BOOLEAN, last : Nat]

\* The last section is a group of u's.
EndsInGroupOf(secs, u) ==
  \E a \in Seq(Section), sec \in Section :
    secs = Append(a, sec) /\ sec.kind = "group" /\ sec.messages[1].sender = u

\* The first i messages are laid out, down to a row under the divider of d.
LaidUpTo(s, i, secs, d) ==
  LET rows == RowsOf(secs)
  IN Shows(s, i, rows) /\ \E n \in Nat \ {0} : n = Len(rows) /\ Under(rows, n, d)

\* An open group is of the message before, on its day; and it is open if that is a user's.
OpenOf(s, i, acc) ==
  /\ acc.open => /\ acc.last = s[i].time /\ i # 0
                 /\ EndsInGroupOf(acc.sections, s[i].sender)
  /\ acc.open <=> i # 0 /\ s[i].sender # System /\ s[i].time \div Day = acc.day

\* The loop after i turns,
Laid(s, i, acc) ==
  /\ acc \in Accs
  /\ i = 0 => acc = NoSections
  /\ i # 0 => LaidUpTo(s, i, acc.sections, acc.day) /\ acc.day = s[i].time \div Day
  /\ OpenOf(s, i, acc)

\* and within the next one, once the day is right.
Dated(s, i, acc) ==
  /\ acc \in Accs /\ LaidUpTo(s, i, acc.sections, acc.day)
  /\ acc.day = s[i + 1].time \div Day
  /\ OpenOf(s, i, acc)

\* A time has its day,
LEMMA DayIsNat ==
  ASSUME NEW t \in Nat PROVE t \div Day \in Nat
BY ChatAssumption

\* and so has a message.
LEMMA MessageParts ==
  ASSUME NEW m \in Message
  PROVE  /\ m.time \in Nat /\ m.time \div Day \in Nat
         /\ m.blank \in BOOLEAN /\ (m.blank => m.sender = System)
<1>1. m.time \in Nat /\ m.blank \in BOOLEAN /\ (m.blank => m.sender = System)
  BY ChatAssumption DEF Message
<1> QED
  BY <1>1, DayIsNat

\* Where nothing is laid out nothing is shown.
LEMMA NothingShown ==
  ASSUME NEW s PROVE Shows(s, 0, <<>>)
<1>1. Texts(s, 0) = {} /\ TextRows(<<>>) = {}
  BY DEF Texts, TextRows
<1> DEFINE row == [k \in {} |-> 0]
<1>2. row \in [{} -> {}]
  OBVIOUS
<1> QED
  BY <1>1, <1>2 DEF Shows

\* What a section with the message m alone is.
LEMMA NewSection ==
  ASSUME NEW m \in Message, NEW k \in {"system", "group"}, NEW d \in Nat
  PROVE  LET sec == [kind |-> k, day |-> d, messages |-> <<m>>]
         IN /\ sec \in Section /\ sec.kind = k /\ Len(sec.messages) = 1
            /\ sec.messages[1] = m
  BY DEF Section

\* An accumulator with some of its fields changed.
LEMMA AccChanged ==
  ASSUME NEW S, NEW D, NEW B, NEW L, NEW acc \in [sections : S, day : D, open : B, last : L],
         NEW secs \in S, NEW d \in D, NEW b \in B, NEW l \in L
  PROVE  /\ LET new == [acc EXCEPT !.day = d, !.open = b, !.sections = secs]
            IN /\ new \in [sections : S, day : D, open : B, last : L]
               /\ new.day = d /\ new.open = b /\ new.sections = secs
         /\ LET new == [acc EXCEPT !.open = b, !.sections = secs]
            IN /\ new \in [sections : S, day : D, open : B, last : L]
               /\ new.day = acc.day /\ new.open = b /\ new.sections = secs
         /\ LET new == [acc EXCEPT !.open = b, !.last = l, !.sections = secs]
            IN /\ new \in [sections : S, day : D, open : B, last : L]
               /\ new.day = acc.day /\ new.open = b /\ new.last = l /\ new.sections = secs
         /\ LET new == [acc EXCEPT !.last = l, !.sections = secs]
            IN /\ new \in [sections : S, day : D, open : B, last : L]
               /\ new.day = acc.day /\ new.open = acc.open /\ new.last = l /\ new.sections = secs
<1>1. acc \in [sections : S, day : D, open : B, last : L]
  OBVIOUS
<1>2. LET new == [acc EXCEPT !.day = d, !.open = b, !.sections = secs]
      IN /\ new \in [sections : S, day : D, open : B, last : L]
         /\ new.day = d /\ new.open = b /\ new.sections = secs
  BY <1>1
<1>3. LET new == [acc EXCEPT !.open = b, !.sections = secs]
      IN /\ new \in [sections : S, day : D, open : B, last : L]
         /\ new.day = acc.day /\ new.open = b /\ new.sections = secs
  BY <1>1
<1>4. LET new == [acc EXCEPT !.open = b, !.last = l, !.sections = secs]
      IN /\ new \in [sections : S, day : D, open : B, last : L]
         /\ new.day = acc.day /\ new.open = b /\ new.last = l /\ new.sections = secs
  BY <1>1
<1>5. LET new == [acc EXCEPT !.last = l, !.sections = secs]
      IN /\ new \in [sections : S, day : D, open : B, last : L]
         /\ new.day = acc.day /\ new.open = acc.open /\ new.last = l /\ new.sections = secs
  BY <1>1
<1> QED
  BY <1>2, <1>3, <1>4, <1>5

\* The first half of a turn: a divider where the day is another.
LEMMA DayIsDated ==
  ASSUME NEW s \in Seq(Message), NEW i \in Nat, i + 1 \in 1..Len(s), NEW acc, Laid(s, i, acc)
  PROVE  LET day == localDayKey(s[i + 1].time)
         IN Dated(s, i, IF day = acc.day THEN acc
                        ELSE [acc EXCEPT !.day = day, !.open = FALSE,
                          !.sections = Append(@, [kind |-> "day", day |-> day, messages |-> <<>>])])
<1> DEFINE day == s[i + 1].time \div Day
           sec == [kind |-> "day", day |-> day, messages |-> <<>>]
           new == [acc EXCEPT !.day = day, !.open = FALSE, !.sections = Append(acc.sections, sec)]
<1>1. s[i + 1] \in Message /\ day \in Nat
  BY MessageParts
<1>2. localDayKey(s[i + 1].time) = day
  BY DEF localDayKey
<1> HIDE DEF day
<1>3. acc \in Accs /\ acc.sections \in Seq(Section)
  BY DEF Laid, Accs
<1>4. CASE day = acc.day
  <2>1. i # 0
    <3>1. NoSections.day = -1
      BY DEF NoSections
    <3> QED
      BY <1>1, <1>4, <3>1 DEF Laid
  <2> QED
    BY <1>2, <1>4, <2>1 DEF Laid, Dated, day
<1>5. CASE day # acc.day
  <2>1. sec \in Section /\ sec.kind = "day" /\ sec.day = day
    BY <1>1 DEF Section
  <2>2. SectionRows(sec) = <<Divider(day)>>
    BY <2>1 DEF SectionRows, Divider
  <2>3. new \in Accs /\ new.day = day /\ new.open = FALSE /\ new.sections = Append(acc.sections, sec)
    <3> HIDE DEF sec
    <3>1. Append(acc.sections, sec) \in Seq(Section)
      BY <1>3, <2>1
    <3>2. PICK secs \in Seq(Section) : secs = Append(acc.sections, sec)
      BY <3>1
    <3>3. acc \in [sections : Seq(Section), day : Int, open : BOOLEAN, last : Nat]
      BY <1>3 DEF Accs
    <3>4. day \in Int /\ FALSE \in BOOLEAN /\ acc.last \in Nat
      BY <1>1, <3>3
    <3>5. /\ [acc EXCEPT !.day = day, !.open = FALSE, !.sections = secs]
                \in [sections : Seq(Section), day : Int, open : BOOLEAN, last : Nat]
          /\ [acc EXCEPT !.day = day, !.open = FALSE, !.sections = secs].day = day
          /\ [acc EXCEPT !.day = day, !.open = FALSE, !.sections = secs].open = FALSE
          /\ [acc EXCEPT !.day = day, !.open = FALSE, !.sections = secs].sections = secs
      BY <3>3, <3>4, AccChanged
    <3> QED
      BY <3>2, <3>5 DEF Accs
  <2>4. Shows(s, i, RowsOf(acc.sections)) /\ RowsOf(acc.sections) \in Seq(Row)
    <3>1. CASE i = 0
      <4>1. RowsOf(acc.sections) = <<>>
        BY <3>1, RowsAppend, <2>1, <1>3 DEF Laid, NoSections
      <4> QED
        BY <1>3, <2>1, <3>1, <4>1, NothingShown, RowsAppend
    <3>2. CASE i # 0
      BY <1>3, <2>1, <3>2, RowsAppend DEF Laid, LaidUpTo
    <3> QED
      BY <3>1, <3>2
  <2>5. RowsOf(new.sections) = Append(RowsOf(acc.sections), Divider(day))
    <3> HIDE DEF sec, new
    <3>1. RowsOf(new.sections) = RowsOf(acc.sections) \o <<Divider(day)>>
      BY <1>3, <2>1, <2>2, <2>3, RowsAppend
    <3>2. Divider(day) \in Row
      BY <1>1, RowKinds
    <3> QED
      BY <2>4, <3>1, <3>2, AppendIsConcat
  <2>6. LaidUpTo(s, i, new.sections, day)
    <3> DEFINE rows == RowsOf(acc.sections)
               more == Append(rows, Divider(day))
    <3>1. Shows(s, i, more) /\ Under(more, Len(rows) + 1, day)
      BY <1>1, <2>4, DividerShowsNothing
    <3>2. Divider(day) \in Row
      BY <1>1, RowKinds
    <3>3. PICK n \in Nat : n = Len(rows)
      BY <2>4
    <3>4. n + 1 = Len(more) /\ n + 1 \in Nat \ {0}
      BY <2>4, <3>2, <3>3, RowAdded
    <3> HIDE DEF rows, more, new
    <3> QED
      BY <2>5, <3>1, <3>3, <3>4 DEF LaidUpTo, rows, more
  <2>7. ~(i # 0 /\ s[i].sender # System /\ s[i].time \div Day = new.day)
    BY <1>5, <2>3 DEF Laid
  <2>8. Dated(s, i, new)
    <3> HIDE DEF new
    <3> QED
      BY <2>3, <2>6, <2>7 DEF Dated, OpenOf, day
  <2> QED
    BY <1>2, <1>5, <2>8
<1> QED
  BY <1>4, <1>5

\* Whether a message of a user joins the open group is whether it follows the one before.
LEMMA SameGroupFollows ==
  ASSUME NEW s \in Seq(Message), NEW i \in Nat, i + 1 \in 1..Len(s), NEW acc, Dated(s, i, acc),
         s[i + 1].sender # System
  PROVE  SameGroup(acc, s[i + 1]) <=> i + 1 > 1 /\ Follows(s[i], s[i + 1])
<1> DEFINE m == s[i + 1]
<1>1. /\ m \in Message /\ m.time \in Nat /\ acc.day = m.time \div Day /\ OpenOf(s, i, acc)
      /\ i # 0 => s[i] \in Message /\ s[i].time \in Nat
  <2>1. i # 0 => i \in 1..Len(s)
    OBVIOUS
  <2> QED
    BY <2>1, MessageParts DEF Dated
<1>2. CASE acc.open
  <2>1. /\ acc.last = s[i].time /\ i # 0 /\ s[i].sender # System
        /\ s[i].time \div Day = acc.day
    BY <1>1, <1>2 DEF OpenOf
  <2>2. PICK a \in Seq(Section), sec \in Section :
          acc.sections = Append(a, sec) /\ sec.kind = "group" /\ sec.messages[1].sender = s[i].sender
    BY <1>1, <1>2 DEF OpenOf, EndsInGroupOf
  <2>3. Last(acc.sections) = sec
    BY <2>2, AppendProperties DEF Last
  <2>4. Last(acc.sections).messages[1].sender = s[i].sender
    BY <2>2, <2>3
  <2>5. m.time >= s[i].time /\ m.time - s[i].time <= Window <=> m.time - s[i].time \in 0..Window
    <3>1. Window \in Nat /\ m.time \in Nat /\ s[i].time \in Nat
      BY <1>1, <2>1, ChatAssumption
    <3> HIDE DEF m
    <3> QED
      BY <3>1
  <2>6. s[i].time \div Day = m.time \div Day
    BY <1>1, <2>1
  <2> QED
    BY <1>2, <2>1, <2>4, <2>5, <2>6 DEF SameGroup, Follows
<1>3. CASE ~acc.open
  <2>1. ~(i # 0 /\ s[i].sender # System /\ s[i].time \div Day = acc.day)
    BY <1>1, <1>3 DEF OpenOf
  <2>2. ~SameGroup(acc, m)
    BY <1>3 DEF SameGroup
  <2>3. ~(i + 1 > 1 /\ Follows(s[i], m))
    BY <1>1, <2>1 DEF Follows
  <2> QED
    BY <2>2, <2>3
<1> QED
  BY <1>2, <1>3

\* A message with a section of its own.
LEMMA SectionAdded ==
  ASSUME NEW s \in Seq(Message), NEW i \in Nat, i + 1 \in 1..Len(s), NEW acc, Dated(s, i, acc),
         NEW k \in {"system", "group"}, k = "group" <=> s[i + 1].sender # System,
         k = "group" => ~SameGroup(acc, s[i + 1])
  PROVE  LET sec == [kind |-> k, day |-> localDayKey(s[i + 1].time), messages |-> <<s[i + 1]>>]
         IN /\ sec \in Section /\ sec.kind = k /\ sec.messages[1] = s[i + 1]
            /\ LaidUpTo(s, i + 1, Append(acc.sections, sec), acc.day)
<1> DEFINE m == s[i + 1]
           d == localDayKey(m.time)
           sec == [kind |-> k, day |-> d, messages |-> <<m>>]
           rows == RowsOf(acc.sections)
           more == RowsOf(Append(acc.sections, sec))
<1>1. /\ m \in Message /\ m.time \in Nat /\ d \in Nat /\ acc.day = d /\ d = m.time \div Day
      /\ m.blank \in BOOLEAN /\ (m.blank => m.sender = System)
  BY MessageParts DEF localDayKey, Dated
<1>2. /\ sec \in Section /\ sec.kind = k /\ Len(sec.messages) = 1 /\ sec.messages[1] = m
  <2> HIDE DEF m, d
  <2> QED
    BY <1>1, NewSection
<1>3. acc.sections \in Seq(Section) /\ LaidUpTo(s, i, acc.sections, d)
  BY <1>1 DEF Dated, Accs
<1> HIDE DEF m, d, sec
<1>4. rows \in Seq(Row) /\ more = rows \o SectionRows(sec)
  BY <1>2, <1>3, RowsAppend
<1>5. PICK n \in Nat \ {0} : n = Len(rows) /\ Under(rows, n, d)
  BY <1>3 DEF LaidUpTo
<1>6. Shows(s, i, rows)
  BY <1>3 DEF LaidUpTo
<1> HIDE DEF rows, more
<1>7. CASE m.blank
  <2>1. k = "system"
    BY <1>1, <1>7 DEF m
  <2>2. SectionRows(sec) = <<>>
    BY <1>2, <1>7, <2>1, SectionShows
  <2>3. more = rows
    BY <1>4, <2>2
  <2>4. Shows(s, i + 1, rows)
    BY <1>6, <1>7, BlankShowsNothing DEF m
  <2> QED
    BY <1>1, <1>2, <1>5, <2>3, <2>4 DEF LaidUpTo, rows, more, sec, m, d
<1>8. CASE ~m.blank
  <2>1. PICK b \in BOOLEAN : b = (k = "group")
    OBVIOUS
  <2>2. SectionRows(sec) = <<Text(m, b)>>
    BY <1>2, <1>8, <2>1, SectionShows
  <2>3. Text(m, b) \in Row
    BY <1>1, RowKinds
  <2>4. more = Append(rows, Text(m, b))
    BY <1>4, <2>2, <2>3, AppendIsConcat
  <2>5. m.sender # System => b = ~(i + 1 > 1 /\ Follows(s[i], m))
    BY <2>1, SameGroupFollows DEF m
  <2>6. Shows(s, i + 1, more) /\ Under(more, n + 1, d)
    BY <1>1, <1>4, <1>5, <1>6, <1>8, <2>4, <2>5, TextShown DEF m
  <2>7. n + 1 = Len(more) /\ n + 1 \in Nat \ {0}
    BY <1>4, <1>5, <2>3, <2>4, RowAdded
  <2> QED
    BY <1>1, <1>2, <2>6, <2>7 DEF LaidUpTo, more, sec, m, d
<1> QED
  BY <1>1, <1>7, <1>8

\* The loop's turn, once the day is right: a section of its own,
LEMMA OwnSectionLaid ==
  ASSUME NEW s \in Seq(Message), NEW i \in Nat, i + 1 \in 1..Len(s), NEW acc, Dated(s, i, acc),
         NEW k \in {"system", "group"}, k = "group" <=> s[i + 1].sender # System,
         k = "group" => ~SameGroup(acc, s[i + 1]),
         NEW secs, secs = Append(acc.sections, [kind |-> k, day |-> localDayKey(s[i + 1].time),
                                                messages |-> <<s[i + 1]>>]),
         NEW new \in Accs, new.day = acc.day, new.sections = secs,
         new.open <=> k = "group", new.open => new.last = s[i + 1].time
  PROVE  Laid(s, i + 1, new)
<1> DEFINE sec == [kind |-> k, day |-> localDayKey(s[i + 1].time), messages |-> <<s[i + 1]>>]
<1>1. /\ sec \in Section /\ sec.kind = k /\ sec.messages[1] = s[i + 1]
      /\ LaidUpTo(s, i + 1, secs, acc.day)
  BY SectionAdded
<1>2. acc.sections \in Seq(Section) /\ acc.day = s[i + 1].time \div Day
  BY DEF Dated, Accs
<1>3. i + 1 # 0
  OBVIOUS
<1> HIDE DEF sec
<1>4. new.open => EndsInGroupOf(new.sections, s[i + 1].sender)
  BY <1>1, <1>2 DEF EndsInGroupOf, sec
<1> QED
  BY <1>1, <1>2, <1>3, <1>4 DEF Laid, OpenOf

\* or a place in the open group.
LEMMA SameGroupLaid ==
  ASSUME NEW s \in Seq(Message), NEW i \in Nat, i + 1 \in 1..Len(s), NEW acc, Dated(s, i, acc),
         s[i + 1].sender # System, SameGroup(acc, s[i + 1]),
         NEW a \in Seq(Section), NEW sec \in Section, acc.sections = Append(a, sec),
         sec.kind = "group", sec.messages[1].sender = s[i].sender,
         NEW secs, secs = Append(a, [sec EXCEPT !.messages = Append(@, s[i + 1])]),
         NEW new \in Accs, new.day = acc.day, new.sections = secs,
         new.open, new.last = s[i + 1].time
  PROVE  Laid(s, i + 1, new)
<1> DEFINE m == s[i + 1]
           more == [sec EXCEPT !.messages = Append(@, m)]
           rows == RowsOf(acc.sections)
<1>1. /\ m \in Message /\ m.time \in Nat /\ ~m.blank
      /\ acc.day = m.time \div Day /\ LaidUpTo(s, i, acc.sections, acc.day)
  BY MessageParts DEF Dated
<1>2. more \in Section /\ RowsOf(secs) = Append(rows, Text(m, FALSE))
  <2> HIDE DEF m
  <2> QED
    BY <1>1, RowsExtended DEF m
<1>3. rows \in Seq(Row) /\ Text(m, FALSE) \in Row
  <2>1. FALSE \in BOOLEAN
    OBVIOUS
  <2> QED
    BY <1>1, <2>1, RowsAppend, RowKinds DEF Dated, Accs
<1> HIDE DEF rows
<1>4. PICK n \in Nat \ {0} : n = Len(rows) /\ Under(rows, n, acc.day)
  BY <1>1 DEF LaidUpTo, rows
<1>5. Shows(s, i, rows)
  BY <1>1 DEF LaidUpTo, rows
<1>6. PICK b \in BOOLEAN : b = FALSE
  OBVIOUS
<1>7. i + 1 > 1 /\ Follows(s[i], s[i + 1])
  BY SameGroupFollows
<1> DEFINE t == Text(m, FALSE)
<1>8. Shows(s, i + 1, Append(rows, t)) /\ Under(Append(rows, t), n + 1, acc.day)
  <2>1. s[i + 1].sender # System => b = ~(i + 1 > 1 /\ Follows(s[i], s[i + 1]))
    BY <1>6, <1>7
  <2> QED
    BY <1>1, <1>3, <1>4, <1>5, <1>6, <2>1, TextShown
<1>9. n + 1 = Len(Append(rows, t)) /\ n + 1 \in Nat \ {0}
  BY <1>3, <1>4, RowAdded
<1>10. LaidUpTo(s, i + 1, secs, acc.day)
  <2> HIDE DEF t
  <2> QED
    BY <1>2, <1>8, <1>9 DEF LaidUpTo, t
<1>11. more.kind = "group" /\ more.messages[1].sender = m.sender
  <2>1. sec.messages \in Seq(Message) /\ sec.messages # <<>>
    BY DEF Section
  <2>2. Append(sec.messages, m)[1] = sec.messages[1]
    BY <1>1, <2>1
  <2>3. more.kind = "group" /\ more.messages = Append(sec.messages, m)
    BY DEF Section
  <2>4. s[i].sender = m.sender
    BY <1>7 DEF Follows
  <2> QED
    BY <2>2, <2>3, <2>4
<1>12. EndsInGroupOf(secs, m.sender)
  <2> HIDE DEF more
  <2> QED
    BY <1>2, <1>11 DEF EndsInGroupOf, more
<1>13. i + 1 # 0
  OBVIOUS
<1> HIDE DEF more
<1> QED
  BY <1>1, <1>10, <1>12, <1>13 DEF Laid, OpenOf, m

\* A turn of the loop.
LEMMA TurnKeepsLaid ==
  ASSUME NEW s \in Seq(Message), NEW i \in Nat, i + 1 \in 1..Len(s), NEW acc0, Laid(s, i, acc0)
  PROVE  Laid(s, i + 1, Grouped(acc0, s[i + 1]))
<1> DEFINE m == s[i + 1]
           day == localDayKey(m.time)
           acc == IF day = acc0.day THEN acc0
                  ELSE [acc0 EXCEPT !.day = day, !.open = FALSE,
                     !.sections = Append(@, [kind |-> "day", day |-> day, messages |-> <<>>])]
           Alone(k) == Append(acc.sections, [kind |-> k, day |-> day, messages |-> <<m>>])
           sys == [acc EXCEPT !.open = FALSE, !.sections = Alone("system")]
           same == [acc EXCEPT !.last = m.time,
                      !.sections[Len(acc.sections)].messages = Append(@, m)]
           new == [acc EXCEPT !.open = TRUE, !.last = m.time, !.sections = Alone("group")]
<1>1. Grouped(acc0, m) = IF m.sender = System THEN sys
                         ELSE IF SameGroup(acc, m) THEN same ELSE new
  BY DEF Grouped
<1>2. Dated(s, i, acc)
  BY DayIsDated
<1> HIDE DEF acc
<1>3. /\ acc \in [sections : Seq(Section), day : Int, open : BOOLEAN, last : Nat]
      /\ acc.sections \in Seq(Section) /\ m \in Message /\ m.time \in Nat
      /\ m.time \div Day \in Nat /\ OpenOf(s, i, acc)
      /\ FALSE \in BOOLEAN /\ TRUE \in BOOLEAN
  BY <1>2, MessageParts DEF Dated, Accs
<1>4. \A k \in {"system", "group"} : Alone(k) \in Seq(Section)
  <2>1. ASSUME NEW k \in {"system", "group"}
        PROVE [kind |-> k, day |-> day, messages |-> <<m>>] \in Section
    BY <1>3, NewSection DEF localDayKey
  <2> QED
    BY <1>3, <2>1
<1> HIDE DEF m
<1>5. CASE m.sender = System
  <2> DEFINE secs == Alone("system")
  <2>1. secs \in Seq(Section)
    BY <1>4
  <2> HIDE DEF secs
  <2>2. /\ [acc EXCEPT !.open = FALSE, !.sections = secs]
             \in [sections : Seq(Section), day : Int, open : BOOLEAN, last : Nat]
        /\ [acc EXCEPT !.open = FALSE, !.sections = secs].day = acc.day
        /\ [acc EXCEPT !.open = FALSE, !.sections = secs].open = FALSE
        /\ [acc EXCEPT !.open = FALSE, !.sections = secs].sections = secs
    <3>1. acc.day \in Int /\ acc.last \in Nat
      BY <1>3
    <3> QED
      BY <1>3, <2>1, <3>1, AccChanged
  <2>3. sys = [acc EXCEPT !.open = FALSE, !.sections = secs]
    BY DEF secs
  <2> HIDE DEF sys
  <2>4. /\ sys \in Accs /\ sys.day = acc.day /\ sys.open = FALSE /\ sys.sections = Alone("system")
    BY <2>2, <2>3 DEF Accs, secs
  <2>5. "system" \in {"system", "group"} /\ "system" # "group"
    OBVIOUS
  <2>6. Laid(s, i + 1, sys)
    BY <1>2, <1>5, <2>4, <2>5, OwnSectionLaid DEF m
  <2> QED
    BY <1>1, <1>5, <2>6 DEF m
<1>6. CASE m.sender # System /\ ~SameGroup(acc, m)
  <2> DEFINE secs == Alone("group")
  <2>1. secs \in Seq(Section)
    BY <1>4
  <2> HIDE DEF secs
  <2>2. /\ [acc EXCEPT !.open = TRUE, !.last = m.time, !.sections = secs]
             \in [sections : Seq(Section), day : Int, open : BOOLEAN, last : Nat]
        /\ [acc EXCEPT !.open = TRUE, !.last = m.time, !.sections = secs].day = acc.day
        /\ [acc EXCEPT !.open = TRUE, !.last = m.time, !.sections = secs].open = TRUE
        /\ [acc EXCEPT !.open = TRUE, !.last = m.time, !.sections = secs].last = m.time
        /\ [acc EXCEPT !.open = TRUE, !.last = m.time, !.sections = secs].sections = secs
    <3>1. acc.day \in Int
      BY <1>3
    <3> QED
      BY <1>3, <2>1, <3>1, AccChanged
  <2>3. new = [acc EXCEPT !.open = TRUE, !.last = m.time, !.sections = secs]
    BY DEF secs
  <2> HIDE DEF new
  <2>4. /\ new \in Accs /\ new.day = acc.day /\ new.open = TRUE /\ new.last = m.time
        /\ new.sections = Alone("group")
    BY <2>2, <2>3 DEF Accs, secs
  <2>5. "group" \in {"system", "group"}
    OBVIOUS
  <2>6. Laid(s, i + 1, new)
    BY <1>2, <1>6, <2>4, <2>5, OwnSectionLaid DEF m
  <2> QED
    BY <1>1, <1>6, <2>6 DEF m
<1>7. CASE m.sender # System /\ SameGroup(acc, m)
  <2>1. PICK a \in Seq(Section), sec \in Section :
          /\ acc.sections = Append(a, sec) /\ sec.kind = "group"
          /\ sec.messages[1].sender = s[i].sender
    BY <1>3, <1>7 DEF SameGroup, OpenOf, EndsInGroupOf
  <2> DEFINE more == [sec EXCEPT !.messages = Append(@, m)]
             secs == Append(a, more)
             L == Len(acc.sections)
  <2>2. more \in Section
    BY <1>3, <2>1, RowsExtended
  <2>3. secs \in Seq(Section)
    BY <2>1, <2>2
  <2>4. acc.sections[L] = sec /\ [acc.sections EXCEPT ![L] = more] = secs
    <3> HIDE DEF more
    <3> QED
      BY <2>1, <2>2, LastReplaced
  <2>5. same = [acc EXCEPT !.last = m.time, !.sections = secs]
    <3>1. same = [acc EXCEPT !.last = m.time, !.sections = [acc.sections EXCEPT ![L] =
             [acc.sections[L] EXCEPT !.messages = Append(acc.sections[L].messages, m)]]]
      OBVIOUS
    <3>2. [acc.sections[L] EXCEPT !.messages = Append(acc.sections[L].messages, m)] = more
      BY <2>4
    <3> HIDE DEF same, L, more, secs
    <3> QED
      BY <2>4, <3>1, <3>2
  <2> HIDE DEF secs
  <2>6. /\ [acc EXCEPT !.last = m.time, !.sections = secs]
             \in [sections : Seq(Section), day : Int, open : BOOLEAN, last : Nat]
        /\ [acc EXCEPT !.last = m.time, !.sections = secs].day = acc.day
        /\ [acc EXCEPT !.last = m.time, !.sections = secs].open = acc.open
        /\ [acc EXCEPT !.last = m.time, !.sections = secs].last = m.time
        /\ [acc EXCEPT !.last = m.time, !.sections = secs].sections = secs
    <3>1. acc.day \in Int /\ acc.open \in BOOLEAN
      BY <1>3
    <3> QED
      BY <1>3, <2>3, <3>1, AccChanged
  <2> HIDE DEF same
  <2>7. /\ same \in Accs /\ same.day = acc.day /\ same.open = acc.open /\ same.last = m.time
        /\ same.sections = secs
    BY <2>5, <2>6 DEF Accs
  <2>8. acc.open
    BY <1>7 DEF SameGroup
  <2>9. Laid(s, i + 1, same)
    BY <1>2, <1>7, <2>1, <2>7, <2>8, SameGroupLaid DEF m, secs
  <2> QED
    BY <1>1, <1>7, <2>9 DEF m
<1> QED
  BY <1>5, <1>6, <1>7

\* Before the first turn.
LEMMA NothingLaid ==
  ASSUME NEW s PROVE Laid(s, 0, NoSections)
<1>1. NoSections \in Accs /\ NoSections.open = FALSE /\ NoSections.sections = <<>>
  <2>1. FALSE \in BOOLEAN /\ -1 \in Int /\ 0 \in Nat /\ <<>> \in Seq(Section)
    OBVIOUS
  <2> QED
    BY <2>1 DEF NoSections, Accs
<1> QED
  BY <1>1 DEF Laid, OpenOf

\* The loop of groupMessages lays out the messages of s.
LEMMA GroupedIsLaid ==
  ASSUME NEW s \in Seq(Message)
  PROVE  \E acc \in Accs : Laid(s, Len(s), acc) /\ groupMessages(s) = acc.sections
<1> DEFINE D == 0..Len(s)
           Turn(f, i) == IF i = 0 THEN NoSections ELSE Grouped(f[i - 1], s[i])
           Good(f, n) == f = [i \in 0..n |-> f[i]] /\ \A i \in 0..n : f[i] = Turn(f, i) /\ Laid(s, i, f[i])
           T == {n \in Nat : n <= Len(s) => \E f : Good(f, n)}
<1>1. Len(s) \in Nat
  OBVIOUS
<1>2. 0 \in T
  <2> DEFINE f == [i \in 0..0 |-> NoSections]
  <2>1. Good(f, 0)
    <3>1. f[0] = NoSections /\ f = [i \in 0..0 |-> f[i]] /\ \A i \in 0..0 : i = 0
      OBVIOUS
    <3> HIDE DEF f
    <3> QED
      BY <3>1, NothingLaid
  <2> QED
    BY <2>1
<1>3. ASSUME NEW n \in T PROVE n + 1 \in T
  <2>1. SUFFICES ASSUME n + 1 <= Len(s) PROVE \E g : Good(g, n + 1)
    <3> HIDE DEF Good
    <3> QED
      BY <1>3
  <2>2. n \in Nat /\ n <= Len(s) /\ n + 1 \in 1..Len(s)
    BY <1>1, <1>3, <2>1
  <2>3. PICK f : Good(f, n)
    <3> HIDE DEF Good
    <3> QED
      BY <1>3, <2>2
  <2> DEFINE g == [i \in 0..(n + 1) |-> IF i = n + 1 THEN Grouped(f[n], s[n + 1]) ELSE f[i]]
  <2>4. Laid(s, n, f[n])
    BY <2>2, <2>3
  <2>5. Laid(s, n + 1, Grouped(f[n], s[n + 1]))
    BY <2>2, <2>4, TurnKeepsLaid
  <2>6. /\ g = [i \in 0..(n + 1) |-> g[i]] /\ g[n + 1] = Grouped(f[n], s[n + 1])
        /\ \A i \in 0..n : g[i] = f[i]
    <3>1. \A i \in 0..n : i \in 0..(n + 1) /\ i # n + 1
      BY <2>2
    <3>2. n + 1 \in 0..(n + 1)
      BY <2>2
    <3> QED
      BY <3>1, <3>2
  <2> HIDE DEF g
  <2>7. ASSUME NEW i \in 0..(n + 1) PROVE g[i] = Turn(g, i) /\ Laid(s, i, g[i])
    <3>1. CASE i = n + 1
      <4>1. i # 0 /\ i - 1 = n /\ n \in 0..n
        BY <2>2, <3>1
      <4>2. g[i - 1] = f[n]
        BY <2>6, <4>1
      <4> QED
        BY <2>5, <2>6, <3>1, <4>1, <4>2
    <3>2. CASE i # n + 1
      <4>1. i \in 0..n /\ (i # 0 => i - 1 \in 0..n)
        BY <2>2, <3>2
      <4>2. g[i] = f[i] /\ (i # 0 => g[i - 1] = f[i - 1])
        BY <2>6, <4>1
      <4> QED
        BY <2>3, <4>1, <4>2
    <3> QED
      BY <3>1, <3>2
  <2> QED
    BY <2>6, <2>7
<1>4. T = Nat
  <2> HIDE DEF T
  <2>1. T \in SUBSET Nat
    BY DEF T
  <2> QED
    BY <1>2, <1>3, <2>1, SetInduction
<1>5. PICK f : Good(f, Len(s))
  <2> HIDE DEF Good
  <2>1. Len(s) \in T
    BY <1>1, <1>4
  <2> QED
    BY <1>1, <2>1
<1>6. f = [i \in D |-> Turn(f, i)]
  <2>1. f = [i \in D |-> f[i]]
    BY <1>5
  <2> QED
    BY <1>5, <2>1
<1> DEFINE h == CHOOSE g : g = [i \in D |-> Turn(g, i)]
<1>7. h = [i \in D |-> Turn(h, i)]
  BY <1>6
<1>8. groupMessages(s) = h[Len(s)].sections
  BY DEF groupMessages
<1> HIDE DEF h
<1>9. \A i \in D : Laid(s, i, h[i])
  <2> DEFINE U == {n \in Nat : n <= Len(s) => Laid(s, n, h[n])}
  <2>1. \A i \in D : h[i] = Turn(h, i)
    BY <1>7
  <2>2. 0 \in U
    <3>1. h[0] = NoSections
      BY <1>1, <2>1
    <3> QED
      BY <3>1, NothingLaid
  <2>3. ASSUME NEW n \in U PROVE n + 1 \in U
    <3>1. SUFFICES ASSUME n + 1 <= Len(s) PROVE Laid(s, n + 1, h[n + 1])
      BY <2>3
    <3>2. n \in Nat /\ n <= Len(s) /\ n + 1 \in 1..Len(s) /\ n + 1 \in D /\ n + 1 # 0
          /\ (n + 1) - 1 = n
      BY <1>1, <2>3, <3>1
    <3>3. h[n + 1] = Grouped(h[n], s[n + 1])
      BY <2>1, <3>2
    <3>4. Laid(s, n, h[n])
      BY <2>3, <3>2
    <3> QED
      BY <3>2, <3>3, <3>4, TurnKeepsLaid
  <2>4. U = Nat
    <3> HIDE DEF U
    <3>1. U \in SUBSET Nat
      BY DEF U
    <3> QED
      BY <2>2, <2>3, <3>1, SetInduction
  <2>5. \A i \in D : i \in Nat /\ i <= Len(s)
    BY <1>1
  <2> QED
    BY <2>4, <2>5
<1>10. Len(s) \in D
  BY <1>1
<1>11. h[Len(s)] \in Accs
  BY <1>9, <1>10 DEF Laid
<1> QED
  BY <1>8, <1>9, <1>10, <1>11

\* The last divider at or above a row is the one it stands under.
LEMMA LastDivider ==
  ASSUME NEW rows, NEW r \in Nat, NEW d, Under(rows, r, d)
  PROVE  LET Days == {k \in 1..r : "day" \in DOMAIN rows[k]}
         IN Days # {} /\ rows[Max(Days)].day = d
<1> DEFINE Days == {k \in 1..r : "day" \in DOMAIN rows[k]}
<1>1. PICK k \in 1..r : rows[k] = Divider(d) /\ \A e \in (k + 1)..r : ~IsDay(rows[e])
  BY DEF Under
<1>2. k \in Days /\ rows[k].day = d
  BY <1>1 DEF Divider
<1>3. \A e \in Days : e <= k
  <2>1. SUFFICES ASSUME NEW e \in Days, ~(e <= k) PROVE FALSE
    OBVIOUS
  <2>2. e \in (k + 1)..r
    BY <2>1
  <2> QED
    BY <1>1, <2>1, <2>2 DEF IsDay
<1>4. \A e \in Days : e \in Nat
  OBVIOUS
<1> HIDE DEF Days
<1>5. Max(Days) = k
  <2>1. k \in Days /\ \A e \in Days : k >= e
    BY <1>2, <1>3, <1>4
  <2>2. Max(Days) \in Days /\ Max(Days) >= k
    BY <2>1, Zenon DEF Max
  <2>3. Max(Days) \in Nat /\ k \in Nat /\ k >= Max(Days)
    BY <1>4, <2>1, <2>2
  <2> QED
    BY <2>2, <2>3
<1> QED
  BY <1>2, <1>5 DEF Days

\* What the layout shows is what the property asks for.
LEMMA LayoutIsRight ==
  ASSUME log \in Seq(Message)
  PROVE  MessagesAreShown
<1> DEFINE n == Len(log)
           rows == MessageRows(log)
           texts == {i \in DOMAIN log : ~log[i].blank}
           shown == {r \in DOMAIN rows : "message" \in DOMAIN rows[r]}
           Days(r) == {d \in 1..r : "day" \in DOMAIN rows[d]}
           Continues(a, b) == /\ a.sender = b.sender /\ a.time \div Day = b.time \div Day
                              /\ b.time - a.time \in 0..Window
           Right(row, i) ==
             /\ rows[row[i]].message = log[i]
             /\ log[i].sender # System =>
                  rows[row[i]].meta = ~(i > 1 /\ Continues(log[i - 1], log[i]))
             /\ Days(row[i]) # {}
             /\ rows[Max(Days(row[i]))].day = log[i].time \div Day
<1>1. PICK acc \in Accs : Laid(log, n, acc) /\ groupMessages(log) = acc.sections
  BY GroupedIsLaid
<1>2. rows = RowsOf(acc.sections)
  BY <1>1 DEF MessageRows, RowsOf
<1>3. rows \in Seq(Row) /\ Shows(log, n, rows)
  <2>1. acc.sections \in Seq(Section)
    BY DEF Accs
  <2>2. [kind |-> "day", day |-> 0, messages |-> <<>>] \in Section
    BY DEF Section
  <2>3. RowsOf(<<>>) = <<>> /\ RowsOf(acc.sections) \in Seq(Row)
    BY <2>1, <2>2, RowsAppend
  <2>4. CASE n = 0
    <3>1. acc.sections = <<>>
      BY <1>1, <2>4 DEF Laid, NoSections
    <3>2. rows = <<>>
      BY <1>2, <2>3, <3>1
    <3> HIDE DEF rows, n
    <3> QED
      BY <1>2, <2>3, <2>4, <3>2, NothingShown
  <2>5. CASE n # 0
    <3> HIDE DEF rows, n
    <3> QED
      BY <1>1, <1>2, <2>3, <2>5 DEF Laid, LaidUpTo
  <2> QED
    BY <2>4, <2>5
<1> HIDE DEF rows
<1>4. texts = Texts(log, n) /\ shown = TextRows(rows)
  <2>1. DOMAIN log = 1..n /\ DOMAIN rows = 1..Len(rows)
    BY <1>3
  <2> QED
    BY <2>1 DEF Texts, TextRows, IsText
<1>5. PICK row \in [Texts(log, n) -> TextRows(rows)] :
        /\ \A r \in TextRows(rows) : \E k \in Texts(log, n) : row[k] = r
        /\ \A j, k \in Texts(log, n) : j < k => row[j] < row[k]
        /\ \A k \in Texts(log, n) : RowIsRight(log, k, rows, row[k])
  BY <1>3 DEF Shows
<1>6. row \in Surjection(texts, shown)
  BY <1>4, <1>5 DEF Surjection
<1>7. ASSUME NEW i \in texts PROVE Right(row, i)
  <2>1. RowIsRight(log, i, rows, row[i]) /\ row[i] \in TextRows(rows)
    BY <1>4, <1>5
  <2>2. row[i] \in Nat
    BY <2>1 DEF TextRows
  <2>3. Under(rows, row[i], log[i].time \div Day)
    BY <2>1 DEF RowIsRight
  <2>4. Days(row[i]) # {} /\ rows[Max(Days(row[i]))].day = log[i].time \div Day
    BY <2>2, <2>3, LastDivider
  <2>5. Follows(log[i - 1], log[i]) <=> Continues(log[i - 1], log[i])
    BY DEF Follows
  <2> HIDE DEF Days
  <2> QED
    BY <2>1, <2>4, <2>5 DEF RowIsRight
<1>8. \A i, j \in texts : i < j => row[i] < row[j]
  BY <1>4, <1>5
<1> HIDE DEF texts, shown, Right
<1>9. \E w \in Surjection(texts, shown) :
        /\ \A i, j \in texts : i < j => w[i] < w[j]
        /\ \A i \in texts : Right(w, i)
  BY <1>6, <1>7, <1>8
<1> QED
  BY <1>9, Zenon DEF MessagesAreShown, texts, shown, Right, rows

------------------------------------------------------------------------------
(* Sequences that list a set *)

\* The sequence s has every element of S once, and no others.
Enumerates(s, S) ==
  /\ s \in Seq(S)
  /\ \A x \in S : \E i \in 1..Len(s) : s[i] = x
  /\ \A i, j \in 1..Len(s) : s[i] = s[j] => i = j

\* Sequences of nothing, of one thing,
LEMMA OneEnumerated ==
  /\ Enumerates(<<>>, {})
  /\ \A x : Enumerates(<<x>>, {x})
<1>1. Enumerates(<<>>, {})
  BY DEF Enumerates
<1>2. ASSUME NEW x PROVE Enumerates(<<x>>, {x})
  <2>1. <<x>> \in Seq({x}) /\ Len(<<x>>) = 1 /\ <<x>>[1] = x /\ 1..1 = {1}
    OBVIOUS
  <2> QED
    BY <2>1 DEF Enumerates
<1> QED
  BY <1>1, <1>2

\* and one after the other.
LEMMA BothEnumerated ==
  ASSUME NEW s, NEW S, NEW t, NEW T, Enumerates(s, S), Enumerates(t, T), S \cap T = {}
  PROVE  Enumerates(s \o t, S \cup T)
<1> DEFINE u == s \o t
           U == S \cup T
<1>1. s \in Seq(U) /\ t \in Seq(U)
  <2>1. s \in Seq(S) /\ t \in Seq(T)
    BY DEF Enumerates
  <2> QED
    BY <2>1
<1>2. PICK m \in Nat : m = Len(s)
  BY <1>1
<1>3. PICK n \in Nat : n = Len(t)
  BY <1>1
<1>4. /\ u \in Seq(U) /\ Len(u) = m + n
      /\ \A i \in 1..(m + n) : u[i] = IF i <= m THEN s[i] ELSE t[i - m]
  BY <1>1, <1>2, <1>3
<1> HIDE DEF u
<1>5. /\ \A i \in 1..m : i \in 1..(m + n) /\ u[i] = s[i] /\ s[i] \in S
      /\ \A i \in 1..n : m + i \in 1..(m + n) /\ u[m + i] = t[i] /\ t[i] \in T
      /\ \A i \in 1..(m + n) : i \in 1..m \/ (i - m \in 1..n /\ i = m + (i - m))
  <2>1. s \in Seq(S) /\ t \in Seq(T)
    BY DEF Enumerates
  <2>2. /\ \A i \in 1..m : i \in 1..(m + n) /\ i <= m
        /\ \A i \in 1..n : m + i \in 1..(m + n) /\ ~(m + i <= m) /\ (m + i) - m = i
        /\ \A i \in 1..(m + n) : i \in 1..m \/ (i - m \in 1..n /\ i = m + (i - m))
    OBVIOUS
  <2>3. /\ \A i \in 1..m : s[i] \in S
        /\ \A i \in 1..n : t[i] \in T
    BY <1>2, <1>3, <2>1
  <2> QED
    BY <1>4, <2>2, <2>3
<1>6. ASSUME NEW x \in U PROVE \E i \in 1..(m + n) : u[i] = x
  <2>1. CASE x \in S
    <3>1. PICK i \in 1..m : s[i] = x
      BY <1>2, <2>1 DEF Enumerates
    <3> QED
      BY <1>5, <3>1
  <2>2. CASE x \in T
    <3>1. PICK i \in 1..n : t[i] = x
      BY <1>3, <2>2 DEF Enumerates
    <3> QED
      BY <1>5, <3>1
  <2> QED
    BY <2>1, <2>2
<1>7. ASSUME NEW i \in 1..(m + n), NEW j \in 1..(m + n), u[i] = u[j] PROVE i = j
  <2>1. /\ \A a, b \in 1..m : s[a] = s[b] => a = b
        /\ \A a, b \in 1..n : t[a] = t[b] => a = b
    BY <1>2, <1>3 DEF Enumerates
  <2>2. CASE i \in 1..m /\ j \in 1..m
    BY <1>5, <1>7, <2>1, <2>2
  <2>3. CASE i \in 1..m /\ j - m \in 1..n /\ j = m + (j - m)
    <3>1. u[i] \in S /\ u[j] \in T
      BY <1>5, <2>3
    <3> QED
      BY <1>7, <3>1
  <2>4. CASE j \in 1..m /\ i - m \in 1..n /\ i = m + (i - m)
    <3>1. u[j] \in S /\ u[i] \in T
      BY <1>5, <2>4
    <3> QED
      BY <1>7, <3>1
  <2>5. CASE i - m \in 1..n /\ i = m + (i - m) /\ j - m \in 1..n /\ j = m + (j - m)
    <3>1. PICK a \in 1..n : i = m + a
      BY <2>5
    <3>2. PICK b \in 1..n : j = m + b
      BY <2>5
    <3>3. t[a] = t[b]
      BY <1>5, <1>7, <3>1, <3>2
    <3> QED
      BY <2>1, <3>1, <3>2, <3>3
  <2> QED
    BY <1>5, <2>2, <2>3, <2>4, <2>5
<1> QED
  BY <1>4, <1>6, <1>7 DEF Enumerates, u

\* What enumerates something enumerates nothing else, and has its length.
LEMMA Enumerated ==
  ASSUME NEW s, NEW S, Enumerates(s, S)
  PROVE  /\ Len(s) \in Nat /\ DOMAIN s = 1..Len(s) /\ \A i \in 1..Len(s) : s[i] \in S
         /\ S = {} <=> s = <<>>
<1>1. s \in Seq(S) /\ Len(s) \in Nat /\ DOMAIN s = 1..Len(s) /\ \A i \in 1..Len(s) : s[i] \in S
  BY DEF Enumerates
<1>2. S = {} => s = <<>>
  BY <1>1
<1>3. s = <<>> => S = {}
  BY DEF Enumerates
<1> QED
  BY <1>1, <1>2, <1>3

\* The sequences f[x] of the elements x of q, one after the other.
LEMMA AllEnumerated ==
  ASSUME NEW q, NEW Q, Enumerates(q, Q), NEW f, NEW A,
         \A x \in Q : Enumerates(f[x], A[x]),
         \A x, y \in Q : x # y => A[x] \cap A[y] = {}
  PROVE  Enumerates(FlattenSeq([i \in DOMAIN q |-> f[q[i]]]), UNION {A[x] : x \in Q})
<1> DEFINE R == UNION {A[x] : x \in Q}
           part(n) == [i \in 1..n |-> f[q[i]]]
           Of(n) == UNION {A[q[i]] : i \in 1..n}
           T == {n \in Nat : n <= Len(q) => part(n) \in Seq(Seq(R))
                                            /\ Enumerates(FlattenSeq(part(n)), Of(n))}
<1>1. /\ Len(q) \in Nat /\ DOMAIN q = 1..Len(q) /\ \A i \in 1..Len(q) : q[i] \in Q
      /\ \A i, j \in 1..Len(q) : q[i] = q[j] => i = j
      /\ \A x \in Q : \E i \in 1..Len(q) : q[i] = x
  BY Enumerated DEF Enumerates
<1>2. \A x \in Q : f[x] \in Seq(R)
  <2>1. SUFFICES ASSUME NEW x \in Q PROVE f[x] \in Seq(R)
    OBVIOUS
  <2>2. f[x] \in Seq(A[x]) /\ A[x] \subseteq R
    BY DEF Enumerates
  <2> HIDE DEF R
  <2> QED
    BY <2>2
<1> HIDE DEF R
<1>3. 0 \in T
  <2>1. part(0) = <<>> /\ Of(0) = {}
    OBVIOUS
  <2>2. <<>> \in Seq(Seq(R))
    OBVIOUS
  <2>3. FlattenSeq(<<>>) = <<>>
    <3>1. <<>> \in Seq(R)
      OBVIOUS
    <3> QED
      BY <2>2, <3>1, FlattenAppend
  <2> HIDE DEF part, Of
  <2> QED
    BY <2>1, <2>2, <2>3, OneEnumerated
<1>4. ASSUME NEW n \in T PROVE n + 1 \in T
  <2>1. SUFFICES ASSUME n + 1 <= Len(q)
                 PROVE  part(n + 1) \in Seq(Seq(R))
                        /\ Enumerates(FlattenSeq(part(n + 1)), Of(n + 1))
    <3> HIDE DEF part, Of
    <3> QED
      BY <1>4
  <2>2. n \in Nat /\ n <= Len(q) /\ n + 1 \in 1..Len(q) /\ 1..n \subseteq 1..Len(q)
    BY <1>1, <1>4, <2>1
  <2>3. part(n) \in Seq(Seq(R)) /\ Enumerates(FlattenSeq(part(n)), Of(n))
    <3> HIDE DEF part, Of
    <3> QED
      BY <1>4, <2>2
  <2> DEFINE x == q[n + 1]
  <2>4. x \in Q /\ f[x] \in Seq(R) /\ Enumerates(f[x], A[x])
    BY <1>1, <1>2, <2>2
  <2>5. Of(n + 1) = Of(n) \cup A[x]
    <3>1. 1..(n + 1) = 1..n \cup {n + 1}
      BY <2>2
    <3> QED
      BY <3>1
  <2>6. Of(n) \cap A[x] = {}
    <3>1. ASSUME NEW i \in 1..n PROVE A[q[i]] \cap A[x] = {}
      <4>1. q[i] \in Q /\ q[i] # x
        BY <1>1, <2>2
      <4> QED
        BY <2>4, <4>1
    <3> QED
      BY <3>1
  <2>7. part(n + 1) = Append(part(n), f[x])
    <3>1. Len(part(n)) = n /\ \A i \in 1..n : part(n)[i] = f[q[i]]
      BY <2>2
    <3> DEFINE a == part(n)
               b == Append(a, f[x])
               c == part(n + 1)
    <3>2. b \in Seq(Seq(R)) /\ Len(b) = n + 1 /\ b[n + 1] = f[x] /\ \A i \in 1..n : b[i] = a[i]
      <4> HIDE DEF a, x
      <4>1. a \in Seq(Seq(R)) /\ Len(a) = n
        BY <2>3, <3>1 DEF a
      <4> QED
        BY <2>4, <4>1, AppendProperties
    <3>3. ASSUME NEW i \in 1..(n + 1) PROVE c[i] = b[i]
      <4>1. CASE i = n + 1
        BY <3>2, <4>1
      <4>2. CASE i # n + 1
        <5>1. i \in 1..n
          BY <2>2, <4>2
        <5> QED
          BY <3>1, <3>2, <5>1
      <4> QED
        BY <4>1, <4>2
    <3>4. DOMAIN c = 1..(n + 1) /\ c = [i \in 1..(n + 1) |-> c[i]]
      OBVIOUS
    <3> HIDE DEF b, c
    <3>5. b = [i \in 1..(n + 1) |-> b[i]]
      BY <3>2
    <3>6. c = b
      BY <3>3, <3>4, <3>5
    <3> QED
      BY <3>6 DEF b, c
  <2> HIDE DEF x, part, Of
  <2>8. Append(part(n), f[x]) \in Seq(Seq(R))
    BY <2>3, <2>4
  <2>9. FlattenSeq(part(n + 1)) = FlattenSeq(part(n)) \o f[x]
    BY <2>3, <2>4, <2>7, FlattenAppend
  <2>10. Enumerates(FlattenSeq(part(n)) \o f[x], Of(n) \cup A[x])
    BY <2>3, <2>4, <2>6, BothEnumerated
  <2> QED
    BY <2>5, <2>7, <2>8, <2>9, <2>10
<1>5. T = Nat
  <2> HIDE DEF T
  <2>1. T \in SUBSET Nat
    BY DEF T
  <2> QED
    BY <1>3, <1>4, <2>1, SetInduction
<1>6. Enumerates(FlattenSeq(part(Len(q))), Of(Len(q)))
  <2> HIDE DEF part, Of
  <2> QED
    BY <1>1, <1>5
<1>7. Of(Len(q)) = R
  <2>1. \A i \in 1..Len(q) : A[q[i]] \subseteq R
    BY <1>1 DEF R
  <2>2. \A x \in Q : A[x] \subseteq Of(Len(q))
    BY <1>1
  <2> QED
    BY <2>1, <2>2 DEF R
<1>8. part(Len(q)) = [i \in DOMAIN q |-> f[q[i]]]
  BY <1>1
<1> HIDE DEF part, Of
<1> QED
  BY <1>6, <1>7, <1>8 DEF R

\* A function on 1..n is a sequence.
LEMMA FunctionIsSequence ==
  ASSUME NEW n \in Nat, NEW S, NEW s \in [1..n -> S]
  PROVE  s \in Seq(S) /\ Len(s) = n
OBVIOUS

\* A finite set in an order by keys.
LEMMA OrderEnumerated ==
  ASSUME NEW S, IsFiniteSet(S), NEW key \in [S -> Nat],
         \A x, y \in S : key[x] = key[y] => x = y,
         NEW s, DOMAIN s = 1..Cardinality(S), s = [i \in DOMAIN s |-> s[i]],
         \A i \in 1..Cardinality(S), x \in S :
           Cardinality({y \in S : key[y] < key[x]}) = i - 1 =>
             s[i] \in S /\ Cardinality({y \in S : key[y] < key[s[i]]}) = i - 1
  PROVE  Enumerates(s, S)
<1> DEFINE below(x) == {y \in S : key[y] < key[x]}
           rank == [x \in S |-> Cardinality(below(x))]
<1>1. PICK n \in Nat : n = Cardinality(S)
  BY FS_CardinalityType
<1>2. ASSUME NEW x \in S
      PROVE  IsFiniteSet(below(x)) /\ Cardinality(below(x)) \in 0..(n - 1)
  <2>1. below(x) \subseteq S \ {x}
    <3>1. ~(key[x] < key[x])
      OBVIOUS
    <3> QED
      BY <3>1
  <2>2. IsFiniteSet(S \ {x}) /\ Cardinality(S \ {x}) = n - 1
    BY <1>1, FS_RemoveElement
  <2> HIDE DEF below
  <2>3. IsFiniteSet(below(x)) /\ Cardinality(below(x)) <= n - 1
    BY <2>1, <2>2, FS_Subset
  <2>4. Cardinality(below(x)) \in Nat
    BY <2>3, FS_CardinalityType
  <2> QED
    BY <1>1, <2>3, <2>4
<1>3. ASSUME NEW x \in S, NEW y \in S, key[x] < key[y]
      PROVE  Cardinality(below(x)) < Cardinality(below(y))
  <2>1. below(x) \subseteq below(y)
    <3>1. \A z \in S : key[z] < key[x] => key[z] < key[y]
      BY <1>3
    <3> QED
      BY <3>1
  <2>2. x \in below(y) /\ x \notin below(x)
    BY <1>3
  <2> HIDE DEF below
  <2>3. /\ IsFiniteSet(below(y)) /\ Cardinality(below(y)) \in Int
        /\ Cardinality(below(x)) \in Int
    BY <1>1, <1>2
  <2>4. Cardinality(below(x)) <= Cardinality(below(y))
        /\ Cardinality(below(x)) # Cardinality(below(y))
    BY <2>1, <2>2, <2>3, FS_Subset
  <2> QED
    BY <2>3, <2>4
<1> HIDE DEF below
<1>4. \A x, y \in S : Cardinality(below(x)) = Cardinality(below(y)) => x = y
  <2>1. SUFFICES ASSUME NEW x \in S, NEW y \in S, Cardinality(below(x)) = Cardinality(below(y)),
                        x # y
                 PROVE  FALSE
    OBVIOUS
  <2>2. key[x] < key[y] \/ key[y] < key[x]
    <3>1. key[x] \in Nat /\ key[y] \in Nat /\ key[x] # key[y]
      BY <2>1
    <3> QED
      BY <3>1
  <2>3. Cardinality(below(x)) \in Int
    BY <1>1, <1>2
  <2> QED
    BY <1>3, <2>1, <2>2, <2>3
<1>5. rank \in Injection(S, 0..(n - 1))
  <2>1. rank \in [S -> 0..(n - 1)]
    BY <1>2
  <2> QED
    BY <1>4, <2>1 DEF Injection, IsInjective
<1>6. IsFiniteSet(0..(n - 1)) /\ Cardinality(0..(n - 1)) = n
  <2>1. 0 \in Int /\ n - 1 \in Int
    BY <1>1
  <2>2. IsFiniteSet(0..(n - 1)) /\ Cardinality(0..(n - 1)) = IF 0 > n - 1 THEN 0 ELSE (n - 1) - 0 + 1
    BY <2>1, FS_Interval
  <2> QED
    BY <1>1, <2>2
<1>7. \A k \in 0..(n - 1) : \E x \in S : Cardinality(below(x)) = k
  <2>1. rank \in Surjection(S, 0..(n - 1))
    <3> HIDE DEF rank
    <3> QED
      BY <1>1, <1>5, <1>6, FS_Injection
  <2> QED
    BY <2>1 DEF Surjection
<1>8. ASSUME NEW i \in 1..n PROVE s[i] \in S /\ Cardinality(below(s[i])) = i - 1
  <2>1. \E x \in S : Cardinality(below(x)) = i - 1
    <3>1. i - 1 \in 0..(n - 1)
      BY <1>1
    <3> QED
      BY <1>7, <3>1
  <2>2. \A x \in S : Cardinality(below(x)) = i - 1 =>
                       s[i] \in S /\ Cardinality(below(s[i])) = i - 1
    BY <1>1 DEF below
  <2> QED
    BY <2>1, <2>2
<1>9. s \in Seq(S) /\ Len(s) = n
  <2>1. DOMAIN s = 1..n /\ s = [i \in 1..n |-> s[i]]
    BY <1>1
  <2>2. s \in [1..n -> S]
    BY <1>8, <2>1
  <2>3. n \in Nat
    BY <1>1
  <2> QED
    BY <2>2, <2>3, FunctionIsSequence, Zenon
<1>10. ASSUME NEW x \in S PROVE \E i \in 1..Len(s) : s[i] = x
  <2>1. PICK k \in 0..(n - 1) : k = Cardinality(below(x))
    BY <1>2
  <2>2. k + 1 \in 1..n /\ (k + 1) - 1 = k
    BY <1>1
  <2>3. s[k + 1] \in S /\ Cardinality(below(s[k + 1])) = k
    BY <1>8, <2>2
  <2>4. s[k + 1] = x
    BY <1>4, <2>1, <2>3
  <2> QED
    BY <1>9, <2>2, <2>4
<1>11. ASSUME NEW i \in 1..Len(s), NEW j \in 1..Len(s), s[i] = s[j] PROVE i = j
  <2>1. i - 1 = j - 1
    BY <1>8, <1>9, <1>11
  <2> QED
    BY <1>1, <1>9, <2>1
<1> QED
  BY <1>9, <1>10, <1>11 DEF Enumerates

\* And so the model's orders: by any keys,
LEMMA InOrderEnumerates ==
  ASSUME NEW S, IsFiniteSet(S), NEW key \in [S -> Nat],
         \A x, y \in S : key[x] = key[y] => x = y
  PROVE  Enumerates(InOrder(S, key), S)
<1> DEFINE s == InOrder(S, key)
           n == Cardinality(S)
           Is(x, i) == Cardinality({y \in S : key[y] < key[x]}) = i - 1
<1>1. s = [i \in 1..n |-> CHOOSE x \in S : Is(x, i)]
  BY DEF InOrder
<1> HIDE DEF s, n, Is
<1>2. DOMAIN s = 1..n /\ s = [i \in DOMAIN s |-> s[i]]
  BY <1>1
<1>3. ASSUME NEW i \in 1..n, NEW x \in S, Is(x, i) PROVE s[i] \in S /\ Is(s[i], i)
  <2>1. s[i] = CHOOSE y \in S : Is(y, i)
    BY <1>1
  <2> QED
    BY <1>3, <2>1
<1> QED
  BY <1>2, <1>3, OrderEnumerated DEF n, s, Is

\* buildChannelTree's,
LEMMA SortedEnumerates ==
  ASSUME NEW S \in SUBSET Nat, IsFiniteSet(S)
  PROVE  Enumerates(Sorted(S), S)
<1> DEFINE key == [x \in S |-> x]
<1>1. key \in [S -> Nat] /\ \A x, y \in S : key[x] = key[y] => x = y
  OBVIOUS
<1>2. Sorted(S) = InOrder(S, key)
  BY DEF Sorted
<1> HIDE DEF key
<1> QED
  BY <1>1, <1>2, InOrderEnumerates

\* and the member list's.
Ranked(S) == InOrder(S, [u \in S |-> IF u = Myself THEN 0 ELSE u + 1])

\* The member list's order has each of its users once.
LEMMA RankedEnumerates ==
  ASSUME NEW S \in SUBSET People
  PROVE  Enumerates(Ranked(S), S)
<1> DEFINE key == [u \in S |-> IF u = Myself THEN 0 ELSE u + 1]
<1>1. S \in SUBSET Nat /\ IsFiniteSet(S)
  BY ListsAssumption, FS_Subset
<1>2. \A u \in S : u \in Nat /\ (IF u = Myself THEN 0 ELSE u + 1) \in Nat
  BY <1>1
<1>3. key \in [S -> Nat] /\ \A x, y \in S : key[x] = key[y] => x = y
  BY <1>2
<1>4. Ranked(S) = InOrder(S, key)
  BY DEF Ranked
<1> HIDE DEF key
<1> QED
  BY <1>1, <1>3, <1>4, InOrderEnumerates

------------------------------------------------------------------------------
(* The channels as trees *)

\* The store's channels are trees, with a depth for each, of which n is the greatest;
TreeOf(depth, n) ==
  /\ tree \in [Chans -> Chans \cup {NoParent, Unknown}]
  /\ n \in Nat /\ depth \in [Chans -> 0..n]
  /\ \A c \in Chans : tree[c] \in Chans => depth[tree[c]] < depth[c]

\* What is true of a channel if it is of its parent is true of all;
LEMMA DownTheTree ==
  ASSUME NEW depth, NEW n, TreeOf(depth, n), NEW P \in SUBSET Known,
         \A c \in Known : (tree[c] \in Known => tree[c] \in P) => c \in P
  PROVE  P = Known
<1> DEFINE T == {m \in Nat : \A c \in Known : depth[c] < m => c \in P}
<1>1. \A c \in Known : c \in Chans /\ depth[c] \in Nat
  BY DEF TreeOf, Known
<1>2. 0 \in T
  BY <1>1
<1>3. ASSUME NEW m \in T PROVE m + 1 \in T
  <2>1. SUFFICES ASSUME NEW c \in Known, depth[c] < m + 1 PROVE c \in P
    OBVIOUS
  <2>2. ASSUME tree[c] \in Known PROVE tree[c] \in P
    <3>1. depth[tree[c]] < depth[c]
      BY <1>1, <2>2 DEF TreeOf
    <3>2. depth[tree[c]] < m
      BY <1>1, <2>1, <2>2, <3>1
    <3> QED
      BY <1>3, <2>2, <3>2
  <2> QED
    BY <2>2
<1>4. T = Nat
  <2> HIDE DEF T
  <2>1. T \in SUBSET Nat
    BY DEF T
  <2> QED
    BY <1>2, <1>3, <2>1, SetInduction
<1>5. ASSUME NEW c \in Known PROVE c \in P
  <2>1. depth[c] + 1 \in T /\ depth[c] < depth[c] + 1
    <3> HIDE DEF T
    <3> QED
      BY <1>1, <1>4
  <2> QED
    BY <2>1
<1> QED
  BY <1>5

\* and what is true of a channel if it is of its children.
LEMMA UpTheTree ==
  ASSUME NEW depth, NEW n, TreeOf(depth, n), NEW P \in SUBSET Known,
         \A d \in Known : (\A c \in Known : tree[c] = d => c \in P) => d \in P
  PROVE  P = Known
<1> DEFINE T == {m \in Nat : \A c \in Known : n - depth[c] < m => c \in P}
<1>1. n \in Nat /\ \A c \in Known : c \in Chans /\ depth[c] \in 0..n /\ n - depth[c] \in Nat
  <2>1. n \in Nat /\ \A c \in Known : c \in Chans /\ depth[c] \in 0..n
    BY DEF TreeOf, Known
  <2> QED
    BY <2>1
<1>2. 0 \in T
  BY <1>1
<1>3. ASSUME NEW m \in T PROVE m + 1 \in T
  <2>1. SUFFICES ASSUME NEW d \in Known, n - depth[d] < m + 1 PROVE d \in P
    OBVIOUS
  <2>2. ASSUME NEW c \in Known, tree[c] = d PROVE c \in P
    <3>1. depth[d] < depth[c]
      BY <1>1, <2>2 DEF TreeOf
    <3>2. n - depth[c] < m
      BY <1>1, <2>1, <3>1
    <3> QED
      BY <1>3, <3>2
  <2> QED
    BY <2>2
<1>4. T = Nat
  <2> HIDE DEF T
  <2>1. T \in SUBSET Nat
    BY DEF T
  <2> QED
    BY <1>2, <1>3, <2>1, SetInduction
<1>5. ASSUME NEW c \in Known PROVE c \in P
  <2> DEFINE h == n - depth[c]
  <2>1. h \in Nat
    BY <1>1
  <2>2. h + 1 \in T /\ h < h + 1
    <3> HIDE DEF T, h
    <3> QED
      BY <1>4, <2>1
  <2> QED
    BY <2>2
<1> QED
  BY <1>5

\* The channels above one: its parent, and those above that.
LEMMA AboveIs ==
  ASSUME NEW depth, NEW n, TreeOf(depth, n)
  PROVE  \A c \in Known : Above(c) = IF tree[c] \in Known THEN {tree[c]} \cup Above(tree[c]) ELSE {}
<1> DEFINE Up(f, d) == IF tree[d] \in Known THEN {tree[d]} \cup f[tree[d]] ELSE {}
           Good(f, m) == f = [d \in Known |-> f[d]] /\ \A d \in Known : depth[d] < m => f[d] = Up(f, d)
           T == {m \in Nat : \E f : Good(f, m)}
<1>1. n \in Nat /\ \A c \in Known : c \in Chans /\ depth[c] \in Nat /\ depth[c] < n + 1
  <2>1. n \in Nat /\ \A c \in Known : c \in Chans /\ depth[c] \in 0..n
    BY DEF TreeOf, Known
  <2> QED
    BY <2>1
<1>2. 0 \in T
  <2> DEFINE f == [d \in Known |-> {}]
  <2>1. Good(f, 0)
    BY <1>1
  <2> HIDE DEF Good
  <2> QED
    BY <2>1
<1>3. ASSUME NEW m \in T PROVE m + 1 \in T
  <2>1. m \in Nat /\ \E f : Good(f, m)
    <3> HIDE DEF Good
    <3> QED
      BY <1>3
  <2>2. PICK f : Good(f, m)
    BY <2>1
  <2> DEFINE g == [d \in Known |-> IF depth[d] < m THEN f[d] ELSE Up(f, d)]
  <2>3. \A d \in Known : g[d] = Up(f, d) /\ (depth[d] < m => g[d] = f[d])
    BY <2>2
  <2>4. ASSUME NEW d \in Known, depth[d] < m + 1 PROVE g[d] = Up(g, d)
    <3>1. ASSUME tree[d] \in Known PROVE g[tree[d]] = f[tree[d]]
      <4>1. depth[tree[d]] < depth[d]
        BY <1>1, <3>1 DEF TreeOf
      <4>2. depth[tree[d]] < m
        BY <1>1, <2>1, <2>4, <3>1, <4>1
      <4> QED
        BY <2>3, <3>1, <4>2
    <3> QED
      BY <2>3, <3>1
  <2>5. Good(g, m + 1)
    <3>1. g = [d \in Known |-> g[d]]
      OBVIOUS
    <3> HIDE DEF g
    <3> QED
      BY <2>4, <3>1
  <2> HIDE DEF Good
  <2> QED
    BY <2>1, <2>5
<1>4. T = Nat
  <2> HIDE DEF T
  <2>1. T \in SUBSET Nat
    BY DEF T
  <2> QED
    BY <1>2, <1>3, <2>1, SetInduction
<1>5. PICK f : Good(f, n + 1)
  <2> HIDE DEF Good
  <2> QED
    BY <1>1, <1>4
<1>6. f = [d \in Known |-> Up(f, d)]
  <2>1. f = [d \in Known |-> f[d]]
    BY <1>5
  <2> QED
    BY <1>1, <1>5, <2>1
<1> DEFINE h == CHOOSE g : g = [d \in Known |-> Up(g, d)]
<1>7. h = [d \in Known |-> Up(h, d)]
  BY <1>6
<1>8. \A c : Above(c) = h[c]
  BY DEF Above
<1> HIDE DEF h
<1> QED
  BY <1>7, <1>8

\* The type of a depth.
LEMMA DepthsAreNumbers ==
  ASSUME NEW depth, NEW n, TreeOf(depth, n), NEW c \in Known
  PROVE  c \in Chans /\ depth[c] \in Nat
BY DEF TreeOf, Known

\* What is above is known, and less deep; what is above that is above too.
LEMMA AboveIsLessDeep ==
  ASSUME NEW depth, NEW n, TreeOf(depth, n)
  PROVE  \A c \in Known : \A a \in Above(c) : a \in Known /\ depth[a] < depth[c]
<1> DEFINE P == {c \in Known : \A a \in Above(c) : a \in Known /\ depth[a] < depth[c]}
<1>1. \A c \in Known : c \in Chans /\ depth[c] \in Nat
  BY DEF TreeOf, Known
<1>2. ASSUME NEW c \in Known, tree[c] \in Known => tree[c] \in P PROVE c \in P
  <2>1. CASE tree[c] \in Known
    <3>1. Above(c) = {tree[c]} \cup Above(tree[c])
      BY <2>1, AboveIs
    <3>2. depth[tree[c]] < depth[c]
      BY <1>1, <2>1 DEF TreeOf
    <3> QED
      BY <1>1, <1>2, <2>1, <3>1, <3>2
  <2>2. CASE tree[c] \notin Known
    <3>1. Above(c) = {}
      BY <2>2, AboveIs
    <3> QED
      BY <3>1
  <2> QED
    BY <2>1, <2>2
<1>3. P = Known
  <2> HIDE DEF P
  <2>1. P \in SUBSET Known
    BY DEF P
  <2> QED
    BY <1>2, <2>1, DownTheTree
<1> QED
  BY <1>3

\* What is above a channel above this one is above this one.
LEMMA AboveIsTransitive ==
  ASSUME NEW depth, NEW n, TreeOf(depth, n)
  PROVE  \A c \in Known : \A a \in Above(c) : Above(a) \subseteq Above(c)
<1> DEFINE P == {c \in Known : \A a \in Above(c) : Above(a) \subseteq Above(c)}
<1>1. ASSUME NEW c \in Known, tree[c] \in Known => tree[c] \in P PROVE c \in P
  <2>1. CASE tree[c] \in Known
    <3>1. Above(c) = {tree[c]} \cup Above(tree[c])
      BY <2>1, AboveIs
    <3> QED
      BY <1>1, <2>1, <3>1
  <2>2. CASE tree[c] \notin Known
    <3>1. Above(c) = {}
      BY <2>2, AboveIs
    <3> QED
      BY <3>1
  <2> QED
    BY <2>1, <2>2
<1>2. P = Known
  <2> HIDE DEF P
  <2>1. P \in SUBSET Known
    BY DEF P
  <2> QED
    BY <1>1, <2>1, DownTheTree
<1> QED
  BY <1>2

\* c is d, or below it.
InTreeOf(c, d) == c = d \/ d \in Above(c)

\* Of two channels with c in their trees one is in the tree of the other.
LEMMA AboveIsChain ==
  ASSUME NEW depth, NEW n, TreeOf(depth, n)
  PROVE  \A c \in Known : \A a, b : InTreeOf(c, a) /\ InTreeOf(c, b) =>
           InTreeOf(a, b) \/ InTreeOf(b, a)
<1> DEFINE P == {c \in Known : \A a, b : InTreeOf(c, a) /\ InTreeOf(c, b) =>
                                 InTreeOf(a, b) \/ InTreeOf(b, a)}
<1>1. ASSUME NEW c \in Known, tree[c] \in Known => tree[c] \in P PROVE c \in P
  <2>1. SUFFICES ASSUME NEW a, NEW b, InTreeOf(c, a), InTreeOf(c, b)
                 PROVE  InTreeOf(a, b) \/ InTreeOf(b, a)
    OBVIOUS
  <2>2. CASE a = c \/ b = c
    BY <2>1, <2>2 DEF InTreeOf
  <2>3. CASE a # c /\ b # c
    <3>1. a \in Above(c) /\ b \in Above(c)
      BY <2>1, <2>3 DEF InTreeOf
    <3>2. tree[c] \in Known /\ Above(c) = {tree[c]} \cup Above(tree[c])
      BY <3>1, AboveIs
    <3>3. InTreeOf(tree[c], a) /\ InTreeOf(tree[c], b)
      BY <3>1, <3>2 DEF InTreeOf
    <3> QED
      BY <1>1, <3>2, <3>3
  <2> QED
    BY <2>2, <2>3
<1>2. P = Known
  <2> HIDE DEF P
  <2>1. P \in SUBSET Known
    BY DEF P
  <2> QED
    BY <1>1, <2>1, DownTheTree
<1> QED
  BY <1>2

\* What is below a channel is in the tree of one of its children, and everything in
\* that of a root.
LEMMA BelowIsBelowChild ==
  ASSUME NEW depth, NEW n, TreeOf(depth, n)
  PROVE  \A c \in Known : \A d \in Above(c) :
           \E e \in Known : tree[e] = d /\ InTreeOf(c, e)
<1> DEFINE P == {c \in Known : \A d \in Above(c) : \E e \in Known : tree[e] = d /\ InTreeOf(c, e)}
<1>1. ASSUME NEW c \in Known, tree[c] \in Known => tree[c] \in P PROVE c \in P
  <2>1. SUFFICES ASSUME NEW d \in Above(c) PROVE \E e \in Known : tree[e] = d /\ InTreeOf(c, e)
    OBVIOUS
  <2>2. tree[c] \in Known /\ Above(c) = {tree[c]} \cup Above(tree[c])
    BY <2>1, AboveIs
  <2>3. CASE d = tree[c]
    BY <2>3 DEF InTreeOf
  <2>4. CASE d \in Above(tree[c])
    <3>1. PICK e \in Known : tree[e] = d /\ InTreeOf(tree[c], e)
      BY <1>1, <2>2, <2>4
    <3> QED
      BY <2>2, <3>1 DEF InTreeOf
  <2> QED
    BY <2>2, <2>3, <2>4
<1>2. P = Known
  <2> HIDE DEF P
  <2>1. P \in SUBSET Known
    BY DEF P
  <2> QED
    BY <1>1, <2>1, DownTheTree
<1> QED
  BY <1>2

\* The roots have no parent that is known; each channel is in the tree of one.
LEMMA RootsAre ==
  ASSUME NEW depth, NEW n, TreeOf(depth, n)
  PROVE  /\ Roots = {r \in Known : tree[r] \notin Known}
         /\ \A r \in Roots : Above(r) = {}
         /\ \A c \in Known : \E r \in Roots : InTreeOf(c, r)
<1>1. Roots = {r \in Known : tree[r] \notin Known}
  <2>1. \A c \in Known : ~(c < 0)
    BY ListsAssumption DEF Known
  <2> QED
    BY <2>1 DEF Roots
<1>2. \A r \in Roots : Above(r) = {}
  BY <1>1, AboveIs
<1> DEFINE P == {c \in Known : \E r \in Roots : InTreeOf(c, r)}
<1>3. ASSUME NEW c \in Known, tree[c] \in Known => tree[c] \in P PROVE c \in P
  <2>1. CASE tree[c] \in Known
    <3>1. PICK r \in Roots : InTreeOf(tree[c], r)
      BY <1>3, <2>1
    <3>2. Above(c) = {tree[c]} \cup Above(tree[c])
      BY <2>1, AboveIs
    <3> QED
      BY <3>1, <3>2 DEF InTreeOf
  <2>2. CASE tree[c] \notin Known
    BY <1>1, <2>2 DEF InTreeOf
  <2> QED
    BY <2>1, <2>2
<1>4. P = Known
  <2> HIDE DEF P
  <2>1. P \in SUBSET Known
    BY DEF P
  <2> QED
    BY <1>3, <2>1, DownTheTree
<1> QED
  BY <1>1, <1>2, <1>4

\* The channels in the tree of d that can be reached from d without passing one of Z.
Reached(d, Z) ==
  {c \in Known : InTreeOf(c, d) /\ \A e \in Above(c) : InTreeOf(e, d) => e \notin Z}

\* From a channel: itself and, unless it stops there, what its children see;
LEMMA ReachedIs ==
  ASSUME NEW depth, NEW n, TreeOf(depth, n), NEW d \in Known, NEW Z
  PROVE  Reached(d, Z) = {d} \cup (IF d \in Z THEN {}
                                ELSE UNION {Reached(e, Z) : e \in {x \in Known : tree[x] = d}})
<1>1. d \in Reached(d, Z)
  <2>1. ASSUME NEW e \in Above(d) PROVE ~InTreeOf(e, d)
    <3>1. e \in Known /\ depth[e] < depth[d] /\ depth[e] \in Nat /\ depth[d] \in Nat
      BY AboveIsLessDeep, DepthsAreNumbers
    <3>2. e # d
      BY <3>1
    <3>3. d \notin Above(e)
      <4>1. d \in Above(e) => depth[d] < depth[e]
        BY <3>1, AboveIsLessDeep
      <4> QED
        BY <3>1, <4>1
    <3> QED
      BY <3>2, <3>3 DEF InTreeOf
  <2> QED
    BY <2>1 DEF Reached, InTreeOf
<1>2. ASSUME NEW c \in Reached(d, Z), c # d
      PROVE  d \notin Z /\ \E e \in Known : tree[e] = d /\ c \in Reached(e, Z)
  <2>1. c \in Known /\ d \in Above(c) /\ InTreeOf(d, d)
    BY <1>2 DEF Reached, InTreeOf
  <2>2. d \notin Z
    BY <2>1 DEF Reached
  <2>3. PICK e \in Known : tree[e] = d /\ InTreeOf(c, e)
    BY <2>1, BelowIsBelowChild
  <2>4. \A x \in Above(c) : InTreeOf(x, e) => InTreeOf(x, d)
    <3>1. SUFFICES ASSUME NEW x \in Above(c), InTreeOf(x, e) PROVE InTreeOf(x, d)
      OBVIOUS
    <3>2. d \in Above(e) /\ x \in Known
      BY <2>1, <2>3, AboveIs, AboveIsLessDeep
    <3> QED
      BY <3>1, <3>2, AboveIsTransitive DEF InTreeOf
  <2> QED
    BY <2>1, <2>2, <2>3, <2>4 DEF Reached
<1>3. ASSUME NEW e \in Known, tree[e] = d, d \notin Z, NEW c \in Reached(e, Z) PROVE c \in Reached(d, Z)
  <2>1. c \in Known /\ InTreeOf(c, e) /\ d \in Above(e) /\ Above(e) = {d} \cup Above(d)
    BY <1>3, AboveIs DEF Reached
  <2>2. d \in Above(c)
    BY <2>1, AboveIsTransitive DEF InTreeOf
  <2>3. ASSUME NEW x \in Above(c), InTreeOf(x, d) PROVE x \notin Z
    <3>1. x \in Known
      BY <2>1, AboveIsLessDeep
    <3>2. InTreeOf(c, x)
      BY DEF InTreeOf
    <3>3. CASE InTreeOf(x, e)
      BY <2>3, <3>3 DEF Reached
    <3>4. CASE InTreeOf(e, x) /\ ~InTreeOf(x, e)
      <4>1. x = d \/ x \in Above(d)
        BY <2>1, <3>4 DEF InTreeOf
      <4>2. x \in Above(d) => ~InTreeOf(x, d)
        <5>1. SUFFICES ASSUME x \in Above(d) PROVE x # d /\ d \notin Above(x)
          BY DEF InTreeOf
        <5>2. depth[x] < depth[d] /\ depth[x] \in Nat /\ depth[d] \in Nat
          BY <3>1, <5>1, AboveIsLessDeep, DepthsAreNumbers
        <5>3. d \in Above(x) => depth[d] < depth[x]
          BY <3>1, AboveIsLessDeep
        <5> QED
          BY <5>2, <5>3
      <4> QED
        BY <1>3, <2>3, <4>1, <4>2
    <3> QED
      BY <2>1, <3>2, <3>3, <3>4, AboveIsChain
  <2> QED
    BY <2>1, <2>2, <2>3 DEF Reached, InTreeOf
<1> QED
  BY <1>1, <1>2, <1>3

\* which is never the same for two children of one channel, or for two roots.
LEMMA ReachedApart ==
  ASSUME NEW depth, NEW n, TreeOf(depth, n), NEW Z, NEW x \in Known, NEW y \in Known, x # y,
         tree[x] = tree[y] \/ (tree[x] \notin Known /\ tree[y] \notin Known)
  PROVE  Reached(x, Z) \cap Reached(y, Z) = {}
<1>1. SUFFICES ASSUME NEW c \in Known, InTreeOf(c, x), InTreeOf(c, y) PROVE FALSE
  BY DEF Reached
<1>2. x \in Above(y) \/ y \in Above(x)
  BY <1>1, AboveIsChain DEF InTreeOf
<1>3. ASSUME NEW a \in Known, NEW b \in Known, a \in Above(b),
             tree[a] = tree[b] \/ (tree[a] \notin Known /\ tree[b] \notin Known)
      PROVE  FALSE
  <2>1. tree[b] \in Known /\ Above(b) = {tree[b]} \cup Above(tree[b])
    BY <1>3, AboveIs
  <2>2. tree[a] = tree[b]
    BY <1>3, <2>1
  <2>3. depth[tree[a]] < depth[a] /\ depth[a] \in Nat /\ depth[tree[a]] \in Nat
    BY <2>1, <2>2 DEF TreeOf, Known
  <2>4. a = tree[a] \/ depth[a] < depth[tree[a]]
    BY <1>3, <2>1, <2>2, AboveIsLessDeep
  <2> QED
    BY <2>3, <2>4
<1> QED
  BY <1>2, <1>3

\* The roots together reach whatever has none of Z above it.
LEMMA RootsReach ==
  ASSUME NEW depth, NEW n, TreeOf(depth, n), NEW Z
  PROVE  UNION {Reached(r, Z) : r \in Roots} = {c \in Known : Above(c) \cap Z = {}}
<1>1. ASSUME NEW c \in Known, NEW r \in Roots, InTreeOf(c, r), NEW e \in Above(c)
      PROVE  InTreeOf(e, r)
  <2>1. InTreeOf(c, e) /\ Above(r) = {}
    BY RootsAre DEF InTreeOf
  <2> QED
    BY <1>1, <2>1, AboveIsChain DEF InTreeOf
<1>2. ASSUME NEW r \in Roots, NEW c \in Reached(r, Z) PROVE c \in Known /\ Above(c) \cap Z = {}
  BY <1>1 DEF Reached
<1>3. ASSUME NEW c \in Known, Above(c) \cap Z = {} PROVE \E r \in Roots : c \in Reached(r, Z)
  BY <1>3, RootsAre DEF Reached
<1> QED
  BY <1>2, <1>3

------------------------------------------------------------------------------
(* Walks down the tree *)

\* The children of a channel.
LEMMA ChildrenEnumerate ==
  ASSUME NEW depth, NEW n, TreeOf(depth, n), NEW d \in Known
  PROVE  Enumerates(Children(d), {e \in Known : tree[e] = d})
<1> DEFINE S == {e \in Known : tree[e] = d}
<1>1. {e \in Known \ Roots : tree[e] = d} = S
  BY RootsAre
<1>2. S \subseteq Chans /\ S \in SUBSET Nat
  BY ListsAssumption DEF Known
<1>3. IsFiniteSet(S)
  <2> HIDE DEF S
  <2> QED
    BY <1>2, ListsAssumption, FS_Subset
<1>4. Children(d) = Sorted(S)
  BY <1>1 DEF Children
<1> HIDE DEF S
<1>5. Enumerates(Sorted(S), S)
  BY <1>2, <1>3, SortedEnumerates
<1> QED
  BY <1>4, <1>5 DEF S

\* The roots.
LEMMA RootsEnumerated ==
  Enumerates(Sorted(Roots), Roots) /\ IsFiniteSet(Roots)
<1>1. Roots \subseteq Chans /\ Roots \in SUBSET Nat
  BY ListsAssumption DEF Roots, Known
<1>2. IsFiniteSet(Roots)
  BY <1>1, ListsAssumption, FS_Subset
<1> QED
  BY <1>1, <1>2, SortedEnumerates

\* f is a walk down the tree, which shows a row for each channel it comes to and goes on
\* to its children unless it is one of Z.
Visited(f, d, row, Z) ==
  <<row[d]>> \o (IF d \in Z THEN <<>>
                 ELSE FlattenSeq([i \in DOMAIN Children(d) |-> f[Children(d)[i]]]))

Walk(f, row, Z) == f = [d \in Known |-> Visited(f, d, row, Z)]

\* There is such a walk;
LEMMA WalkExists ==
  ASSUME NEW depth, NEW n, TreeOf(depth, n), NEW row, NEW Z
  PROVE  \E f : Walk(f, row, Z)
<1> DEFINE Height(d) == n - depth[d]
           Good(f, m) == /\ f = [d \in Known |-> f[d]]
                         /\ \A d \in Known : Height(d) < m => f[d] = Visited(f, d, row, Z)
           T == {m \in Nat : \E f : Good(f, m)}
<1>1. n \in Nat /\ \A d \in Known : Height(d) \in Nat /\ Height(d) < n + 1
  <2>1. n \in Nat /\ \A c \in Known : c \in Chans /\ depth[c] \in 0..n
    BY DEF TreeOf, Known
  <2> QED
    BY <2>1
<1>2. \A d, e \in Known : tree[e] = d => Height(e) < Height(d)
  <2>1. SUFFICES ASSUME NEW d \in Known, NEW e \in Known, tree[e] = d PROVE Height(e) < Height(d)
    OBVIOUS
  <2>2. n \in Nat /\ depth[d] \in Nat /\ depth[e] \in Nat /\ depth[d] < depth[e]
    BY <1>1, <2>1, DepthsAreNumbers DEF TreeOf
  <2> QED
    BY <2>2
<1> HIDE DEF Height
<1>3. 0 \in T
  <2> DEFINE f == [d \in Known |-> <<>>]
  <2>1. f = [d \in Known |-> f[d]]
    OBVIOUS
  <2> HIDE DEF f
  <2>2. \A d \in Known : ~(Height(d) < 0)
    BY <1>1
  <2>3. Good(f, 0)
    BY <2>1, <2>2
  <2> HIDE DEF Good
  <2> QED
    BY <2>3
<1>4. ASSUME NEW m \in T PROVE m + 1 \in T
  <2>1. m \in Nat /\ \E f : Good(f, m)
    <3> HIDE DEF Good
    <3> QED
      BY <1>4
  <2>2. PICK f : Good(f, m)
    BY <2>1
  <2> DEFINE g == [d \in Known |-> IF Height(d) < m THEN f[d] ELSE Visited(f, d, row, Z)]
  <2>3. \A d \in Known : g[d] = Visited(f, d, row, Z) /\ (Height(d) < m => g[d] = f[d])
    BY <2>2
  <2>4. ASSUME NEW d \in Known, Height(d) < m + 1
        PROVE  Visited(g, d, row, Z) = Visited(f, d, row, Z)
    <3> DEFINE q == Children(d)
    <3>1. \A i \in DOMAIN q : q[i] \in Known /\ tree[q[i]] = d
      <4> DEFINE Q == {e \in Known : tree[e] = d}
      <4>1. Enumerates(q, Q)
        BY ChildrenEnumerate
      <4> HIDE DEF q, Q
      <4>2. \A i \in DOMAIN q : q[i] \in Q
        BY <4>1, Enumerated
      <4> QED
        BY <4>2 DEF Q
    <3> HIDE DEF q
    <3>2. \A i \in DOMAIN q : g[q[i]] = f[q[i]]
      <4>1. \A i \in DOMAIN q : Height(q[i]) < m
        <5>1. SUFFICES ASSUME NEW i \in DOMAIN q PROVE Height(q[i]) < m
          OBVIOUS
        <5>2. /\ Height(q[i]) \in Nat /\ Height(d) \in Nat /\ m \in Nat
              /\ Height(q[i]) < Height(d) /\ Height(d) < m + 1
          BY <1>1, <1>2, <2>1, <2>4, <3>1
        <5> QED
          BY <5>2
      <4> HIDE DEF g
      <4> QED
        BY <2>3, <3>1, <4>1
    <3> HIDE DEF g
    <3>3. [i \in DOMAIN q |-> g[q[i]]] = [i \in DOMAIN q |-> f[q[i]]]
      BY <3>2
    <3> QED
      BY <3>3 DEF Visited, q
  <2>5. g = [d \in Known |-> g[d]]
    OBVIOUS
  <2> HIDE DEF g
  <2>6. Good(g, m + 1)
    BY <2>3, <2>4, <2>5
  <2> HIDE DEF Good
  <2> QED
    BY <2>1, <2>6
<1>5. T = Nat
  <2> HIDE DEF T
  <2>1. T \in SUBSET Nat
    BY DEF T
  <2> QED
    BY <1>3, <1>4, <2>1, SetInduction
<1>6. PICK f : Good(f, n + 1)
  <2> HIDE DEF Good
  <2> QED
    BY <1>1, <1>5
<1>7. \A d \in Known : f[d] = Visited(f, d, row, Z)
  BY <1>1, <1>6
<1>8. f = [d \in Known |-> f[d]]
  BY <1>6
<1> QED
  BY <1>7, <1>8 DEF Walk

\* Where what is listed of the children of d is what each reaches, what is listed of d is
\* what it reaches, once each;
LEMMA VisitEnumerates ==
  ASSUME NEW depth, NEW n, TreeOf(depth, n), NEW row, NEW Z, NEW f, NEW d \in Known,
         \A x, y \in Known : row[x] = row[y] => x = y,
         \A e \in Known : tree[e] = d => Enumerates(f[e], {row[c] : c \in Reached(e, Z)})
  PROVE  Enumerates(Visited(f, d, row, Z), {row[c] : c \in Reached(d, Z)})
<1> DEFINE Rows(x) == {row[c] : c \in Reached(x, Z)}
           v == Visited(f, d, row, Z)
           Q == {e \in Known : tree[e] = d}
           q == Children(d)
           A == [e \in Q |-> Rows(e)]
           U == UNION {A[e] : e \in Q}
           t == FlattenSeq([i \in DOMAIN q |-> f[q[i]]])
<1>1. Enumerates(q, Q)
  BY ChildrenEnumerate
<1>2. \A e \in Q : Enumerates(f[e], A[e])
  OBVIOUS
<1>3. \A x, y \in Q : x # y => A[x] \cap A[y] = {}
  <2>1. SUFFICES ASSUME NEW x \in Q, NEW y \in Q, x # y PROVE Rows(x) \cap Rows(y) = {}
    <3> HIDE DEF Rows
    <3> QED
      BY <2>1
  <2>2. Reached(x, Z) \cap Reached(y, Z) = {}
    BY <2>1, ReachedApart
  <2>3. Reached(x, Z) \subseteq Known /\ Reached(y, Z) \subseteq Known
    BY DEF Reached
  <2> QED
    BY <2>2, <2>3
<1>4. Enumerates(t, U)
  <2> HIDE DEF q, Q, A
  <2> QED
    BY <1>1, <1>2, <1>3, AllEnumerated
<1>5. Reached(d, Z) = {d} \cup (IF d \in Z THEN {} ELSE UNION {Reached(e, Z) : e \in Q})
  BY ReachedIs
<1>6. U = UNION {Rows(e) : e \in Q}
  <2> HIDE DEF Rows, Q
  <2> QED
    OBVIOUS
<1>7. v = <<row[d]>> \o (IF d \in Z THEN <<>> ELSE t)
  BY DEF Visited
<1>8. SUFFICES Enumerates(v, Rows(d))
  OBVIOUS
<1> HIDE DEF t, q, A, U, v
<1>9. CASE d \in Z
  <2>1. v = <<row[d]>> \o <<>> /\ Rows(d) = {row[d]}
    BY <1>5, <1>7, <1>9
  <2>2. <<row[d]>> \o <<>> = <<row[d]>>
    BY OneEnumerated
  <2>3. Enumerates(v, Rows(d))
    BY <2>1, <2>2, OneEnumerated
  <2> QED
    BY <2>3
<1>10. CASE d \notin Z
  <2>1. Rows(d) = {row[d]} \cup U
    BY <1>5, <1>6, <1>10
  <2>2. {row[d]} \cap U = {}
    <3>1. SUFFICES ASSUME NEW e \in Q, NEW c \in Reached(e, Z), row[c] = row[d] PROVE FALSE
      BY <1>6
    <3>2. c = d /\ InTreeOf(c, e)
      BY <3>1 DEF Reached
    <3>3. Above(e) = {d} \cup Above(d) /\ e \in Known
      BY AboveIs
    <3>4. depth[d] < depth[e] /\ depth[d] \in Nat /\ depth[e] \in Nat
      BY <3>3, AboveIsLessDeep, DepthsAreNumbers
    <3>5. e # d /\ e \notin Above(d)
      <4>1. e \in Above(d) => depth[e] < depth[d]
        BY AboveIsLessDeep
      <4> QED
        BY <3>4, <4>1
    <3> QED
      BY <3>2, <3>5 DEF InTreeOf
  <2>3. Enumerates(<<row[d]>>, {row[d]})
    BY OneEnumerated
  <2>4. Enumerates(<<row[d]>> \o t, {row[d]} \cup U)
    BY <1>4, <2>2, <2>3, BothEnumerated
  <2> HIDE DEF Rows
  <2> QED
    BY <1>7, <1>10, <2>1, <2>4
<1> QED
  BY <1>9, <1>10

\* and so for a walk.
LEMMA WalkEnumerates ==
  ASSUME NEW depth, NEW n, TreeOf(depth, n), NEW row, NEW Z, NEW f, Walk(f, row, Z),
         \A c, d \in Known : row[c] = row[d] => c = d
  PROVE  \A d \in Known : Enumerates(f[d], {row[c] : c \in Reached(d, Z)})
<1> DEFINE P == {d \in Known : Enumerates(f[d], {row[c] : c \in Reached(d, Z)})}
<1>1. \A d \in Known : f[d] = Visited(f, d, row, Z)
  BY DEF Walk
<1>2. ASSUME NEW d \in Known, \A c \in Known : tree[c] = d => c \in P PROVE d \in P
  <2>1. \A e \in Known : tree[e] = d => Enumerates(f[e], {row[c] : c \in Reached(e, Z)})
    BY <1>2
  <2>2. Enumerates(Visited(f, d, row, Z), {row[c] : c \in Reached(d, Z)})
    BY <2>1, VisitEnumerates
  <2> QED
    BY <1>1, <2>2
<1>3. P = Known
  <2> HIDE DEF P
  <2>1. P \in SUBSET Known
    BY DEF P
  <2> QED
    BY <1>2, <2>1, UpTheTree
<1> QED
  BY <1>3

\* The depths of Murmur's channels.
LEMMA TreesHaveDepths ==
  ASSUME tree \in [Chans -> Chans \cup {NoParent, Unknown}], Acyclic(tree)
  PROVE  \E depth, n : TreeOf(depth, n)
<1> DEFINE n == Cardinality(Chans)
<1>1. n \in Nat
  BY ListsAssumption, FS_CardinalityType
<1>2. PICK depth \in [Chans -> 1..n] :
        \A c \in Chans : tree[c] \in Chans => depth[tree[c]] < depth[c]
  BY DEF Acyclic
<1> HIDE DEF n
<1>3. depth \in [Chans -> 0..n]
  <2>1. \A c \in Chans : depth[c] \in 0..n
    BY <1>1
  <2> QED
    BY <2>1
<1> QED
  BY <1>1, <1>2, <1>3 DEF TreeOf

\* What is listed of all roots, one after the other, is what no one of Z is above.
LEMMA RootsEnumerate ==
  ASSUME NEW depth, NEW n, TreeOf(depth, n), NEW row, NEW Z, NEW f,
         \A x, y \in Known : row[x] = row[y] => x = y,
         \A r \in Roots : Enumerates(f[r], {row[c] : c \in Reached(r, Z)})
  PROVE  Enumerates(FlattenSeq([i \in DOMAIN Sorted(Roots) |-> f[Sorted(Roots)[i]]]),
                    {row[c] : c \in {x \in Known : Above(x) \cap Z = {}}})
<1> DEFINE q == Sorted(Roots)
           A == [r \in Roots |-> {row[c] : c \in Reached(r, Z)}]
           t == FlattenSeq([i \in DOMAIN q |-> f[q[i]]])
<1>1. Enumerates(q, Roots)
  BY RootsEnumerated
<1>2. \A r \in Roots : Enumerates(f[r], A[r])
  OBVIOUS
<1>3. \A x, y \in Roots : x # y => A[x] \cap A[y] = {}
  <2>1. SUFFICES ASSUME NEW x \in Roots, NEW y \in Roots, x # y,
                        NEW a \in Reached(x, Z), NEW b \in Reached(y, Z), row[a] = row[b]
                 PROVE  FALSE
    OBVIOUS
  <2>2. x \in Known /\ y \in Known /\ tree[x] \notin Known /\ tree[y] \notin Known
    BY RootsAre
  <2>3. Reached(x, Z) \cap Reached(y, Z) = {}
    BY <2>1, <2>2, ReachedApart
  <2>4. a \in Known /\ b \in Known
    BY DEF Reached
  <2> QED
    BY <2>1, <2>3, <2>4
<1>4. Enumerates(t, UNION {A[r] : r \in Roots})
  <2> HIDE DEF q, A
  <2> QED
    BY <1>1, <1>2, <1>3, AllEnumerated
<1>5. UNION {A[r] : r \in Roots} = {row[c] : c \in {x \in Known : Above(x) \cap Z = {}}}
  <2> DEFINE S(r) == Reached(r, Z)
             V == {x \in Known : Above(x) \cap Z = {}}
  <2>1. UNION {S(r) : r \in Roots} = V
    BY RootsReach
  <2> HIDE DEF S, V
  <2>2. UNION {{row[c] : c \in S(r)} : r \in Roots} = {row[c] : c \in V}
    <3>1. ASSUME NEW c \in V PROVE \E r \in Roots : c \in S(r)
      BY <2>1
    <3>2. ASSUME NEW r \in Roots, NEW c \in S(r) PROVE c \in V
      BY <2>1
    <3> QED
      BY <3>1, <3>2
  <2>3. \A r \in Roots : A[r] = {row[c] : c \in S(r)}
    BY DEF S
  <2>4. {A[r] : r \in Roots} = {{row[c] : c \in S(r)} : r \in Roots}
    <3> HIDE DEF A
    <3> QED
      BY <2>3
  <2> QED
    BY <2>2, <2>4 DEF V
<1> QED
  BY <1>4, <1>5

\* buildChannelTree orders all channels.
LEMMA OrderedEnumerates ==
  ASSUME NEW depth, NEW n, TreeOf(depth, n)
  PROVE  Enumerates(Ordered, Known)
<1> DEFINE Z == {}
           row == [c \in Known |-> c]
           Is(v) == v = [c \in Known |-> <<c>> \o FlattenSeq([i \in DOMAIN Children(c) |-> v[Children(c)[i]]])]
           visit == CHOOSE v : Is(v)
           all == FlattenSeq([i \in DOMAIN Sorted(Roots) |-> visit[Sorted(Roots)[i]]])
<1>1. \A v : Is(v) <=> Walk(v, row, Z)
  <2>1. ASSUME NEW v, NEW c \in Known
        PROVE  Visited(v, c, row, Z) = <<c>> \o FlattenSeq([i \in DOMAIN Children(c) |-> v[Children(c)[i]]])
    BY DEF Visited
  <2> QED
    BY <2>1 DEF Walk
<1>2. Ordered = all
  BY DEF Ordered
<1> HIDE DEF Is
<1>3. Is(visit)
  BY <1>1, WalkExists
<1> HIDE DEF visit
<1>4. Walk(visit, row, Z)
  BY <1>1, <1>3
<1>5. \A x, y \in Known : row[x] = row[y] => x = y
  OBVIOUS
<1> HIDE DEF row, Z
<1>6. \A d \in Known : Enumerates(visit[d], {row[c] : c \in Reached(d, Z)})
  BY <1>4, <1>5, WalkEnumerates
<1>7. Enumerates(all, {row[c] : c \in {x \in Known : Above(x) \cap Z = {}}})
  <2>1. \A r \in Roots : r \in Known
    BY DEF Roots
  <2>2. \A r \in Roots : Enumerates(visit[r], {row[c] : c \in Reached(r, Z)})
    BY <1>6, <2>1
  <2> QED
    BY <1>5, <2>2, RootsEnumerate
<1>8. {row[c] : c \in {x \in Known : Above(x) \cap Z = {}}} = Known
  BY DEF row, Z
<1> QED
  BY <1>2, <1>7, <1>8

------------------------------------------------------------------------------
(* The sidebar *)

\* The sidebar's row of a channel.
SidebarRow(d) ==
  [channel |-> d, users |-> IF d \in collapsed THEN {} ELSE {VoiceUserRow(u) : u \in Occupants(d)}]

sidebarRows == [d \in Known |-> SidebarRow(d)]

\* No two channels have the same row.
LEMMA SidebarRowsAre ==
  /\ \A d \in Known : sidebarRows[d] = SidebarRow(d) /\ sidebarRows[d].channel = d
  /\ \A x, y \in Known : sidebarRows[x] = sidebarRows[y] => x = y
<1>1. \A d \in Known : sidebarRows[d] = SidebarRow(d)
  BY DEF sidebarRows
<1>2. \A d : SidebarRow(d).channel = d
  BY DEF SidebarRow
<1> QED
  BY <1>1, <1>2

\* The loop of ChannelNode(c, renderChildren).
Node(v, c, renderChildren) ==
  v = [d \in Known |->
        <<[channel |-> d, users |-> IF d \in collapsed THEN {}
                                    ELSE {VoiceUserRow(u) : u \in Occupants(d)}]>>
        \o (IF d \in collapsed \/ (d = c /\ ~renderChildren) THEN <<>>
            ELSE FlattenSeq([i \in DOMAIN Children(d) |-> v[Children(d)[i]]]))]

\* It is a walk, that stops where a channel is folded, and at c if c stands alone.
LEMMA NodeWalks ==
  /\ \A v, c : Node(v, c, TRUE) <=> Walk(v, sidebarRows, collapsed)
  /\ \A v, c : Node(v, c, FALSE) <=> Walk(v, sidebarRows, collapsed \cup {c})
<1>1. ASSUME NEW v, NEW c, NEW d \in Known
      PROVE  Visited(v, d, sidebarRows, collapsed) =
               <<SidebarRow(d)>>
               \o (IF d \in collapsed \/ (d = c /\ ~TRUE) THEN <<>>
                   ELSE FlattenSeq([i \in DOMAIN Children(d) |-> v[Children(d)[i]]]))
  <2>1. sidebarRows[d] = SidebarRow(d)
    BY SidebarRowsAre
  <2> QED
    BY <2>1 DEF Visited
<1>2. ASSUME NEW v, NEW c, NEW d \in Known
      PROVE  Visited(v, d, sidebarRows, collapsed \cup {c}) =
               <<SidebarRow(d)>>
               \o (IF d \in collapsed \/ (d = c /\ ~FALSE) THEN <<>>
                   ELSE FlattenSeq([i \in DOMAIN Children(d) |-> v[Children(d)[i]]]))
  <2>1. sidebarRows[d] = SidebarRow(d)
    BY SidebarRowsAre
  <2>2. d \in collapsed \cup {c} <=> d \in collapsed \/ (d = c /\ ~FALSE)
    OBVIOUS
  <2> QED
    BY <2>1, <2>2 DEF Visited
<1> DEFINE Next(v, d, c, deep) ==
             <<SidebarRow(d)>>
             \o (IF d \in collapsed \/ (d = c /\ ~deep) THEN <<>>
                 ELSE FlattenSeq([i \in DOMAIN Children(d) |-> v[Children(d)[i]]]))
<1>3. ASSUME NEW v, NEW c, NEW deep
      PROVE  Node(v, c, deep) <=> v = [d \in Known |-> Next(v, d, c, deep)]
  BY DEF Node, SidebarRow
<1>4. ASSUME NEW v, NEW c
      PROVE  Node(v, c, TRUE) <=> Walk(v, sidebarRows, collapsed)
  <2>1. \A d \in Known : Visited(v, d, sidebarRows, collapsed) = Next(v, d, c, TRUE)
    BY <1>1
  <2> HIDE DEF Next
  <2> QED
    BY <1>3, <2>1 DEF Walk
<1>5. ASSUME NEW v, NEW c
      PROVE  Node(v, c, FALSE) <=> Walk(v, sidebarRows, collapsed \cup {c})
  <2>1. \A d \in Known : Visited(v, d, sidebarRows, collapsed \cup {c}) = Next(v, d, c, FALSE)
    BY <1>2
  <2> HIDE DEF Next
  <2> QED
    BY <1>3, <2>1 DEF Walk
<1> QED
  BY <1>4, <1>5

\* A channel's part of the sidebar is what it reaches without passing a folded one,
LEMMA ChannelNodeEnumerates ==
  ASSUME NEW depth, NEW n, TreeOf(depth, n), NEW c \in Known
  PROVE  /\ Enumerates(ChannelNode(c, TRUE), {sidebarRows[x] : x \in Reached(c, collapsed)})
         /\ ChannelNode(c, FALSE) = <<sidebarRows[c]>>
<1> DEFINE open == CHOOSE v : Node(v, c, TRUE)
           row == CHOOSE v : Node(v, c, FALSE)
<1>1. ChannelNode(c, TRUE) = open[c] /\ ChannelNode(c, FALSE) = row[c]
  BY DEF ChannelNode, Node
<1>2. Node(open, c, TRUE) /\ Node(row, c, FALSE)
  BY NodeWalks, WalkExists
<1> HIDE DEF open, row
<1>3. Walk(open, sidebarRows, collapsed) /\ Walk(row, sidebarRows, collapsed \cup {c})
  BY <1>2, NodeWalks
<1>4. Enumerates(open[c], {sidebarRows[x] : x \in Reached(c, collapsed)})
  BY <1>3, SidebarRowsAre, WalkEnumerates
<1>5. row[c] = <<sidebarRows[c]>> \o <<>>
  BY <1>3 DEF Walk, Visited
<1>6. <<sidebarRows[c]>> \o <<>> = <<sidebarRows[c]>>
  BY OneEnumerated
<1> QED
  BY <1>1, <1>4, <1>5, <1>6

\* and the sidebar is every channel with none above it folded.
LEMMA SidebarEnumerates ==
  ASSUME NEW depth, NEW n, TreeOf(depth, n)
  PROVE  Enumerates(ChannelSidebar, {sidebarRows[c] : c \in {x \in Known : ~Hidden(x)}})
<1> DEFINE f == [x \in Known |-> ChannelNode(x, TRUE)]
           Z == collapsed
           V == {x \in Known : Above(x) \cap Z = {}}
           nodes(s) == FlattenSeq([i \in DOMAIN s |-> ChannelNode(s[i], TRUE)])
<1>1. {x \in Known : ~Hidden(x)} = V
  BY DEF Hidden
<1>2. \A d \in Known : Enumerates(f[d], {sidebarRows[c] : c \in Reached(d, collapsed)})
  BY ChannelNodeEnumerates
<1>3. \A r \in Roots : r \in Known
  BY DEF Roots
<1>4. ASSUME NEW q, NEW Q \in SUBSET Known, Enumerates(q, Q)
      PROVE  nodes(q) = FlattenSeq([i \in DOMAIN q |-> f[q[i]]])
  <2>1. \A i \in DOMAIN q : q[i] \in Known
    BY <1>4, Enumerated
  <2>2. [i \in DOMAIN q |-> f[q[i]]] = [i \in DOMAIN q |-> ChannelNode(q[i], TRUE)]
    BY <2>1
  <2> HIDE DEF f
  <2> QED
    BY <2>2
<1>5. CASE ~Single
  <2>1. ChannelSidebar = nodes(Sorted(Roots))
    BY <1>5 DEF ChannelSidebar
  <2>2. Roots \in SUBSET Known /\ Enumerates(Sorted(Roots), Roots)
    BY <1>3, RootsEnumerated
  <2> HIDE DEF f, nodes, Z
  <2>3. ChannelSidebar = FlattenSeq([i \in DOMAIN Sorted(Roots) |-> f[Sorted(Roots)[i]]])
    BY <1>4, <2>1, <2>2
  <2> DEFINE row == sidebarRows
  <2>4. \A r \in Roots : Enumerates(f[r], {row[c] : c \in Reached(r, Z)})
    BY <1>2, <1>3 DEF Z
  <2>5. \A x, y \in Known : row[x] = row[y] => x = y
    BY SidebarRowsAre
  <2>6. Enumerates(FlattenSeq([i \in DOMAIN Sorted(Roots) |-> f[Sorted(Roots)[i]]]),
                   {row[c] : c \in V})
    <3> HIDE DEF row
    <3> QED
      BY <2>4, <2>5, RootsEnumerate
  <2> QED
    BY <1>1, <2>3, <2>6
<1>6. CASE Single
  <2> DEFINE root == CHOOSE r \in Roots : TRUE
             Q == {e \in Known : tree[e] = root}
             rest == FlattenSeq([i \in DOMAIN Children(root) |-> f[Children(root)[i]]])
  <2>1. PICK r : Roots = {r}
    <3>1. Cardinality(Roots) = 1
      BY <1>6 DEF Single
    <3> QED
      BY <3>1, RootsEnumerated, FS_Singleton
  <2>2. root = r /\ root \in Known /\ Roots = {root}
    BY <1>3, <2>1
  <2>3. ChannelSidebar = ChannelNode(root, FALSE)
                         \o (IF root \in collapsed THEN <<>> ELSE nodes(Children(root)))
    BY <1>6 DEF ChannelSidebar
  <2> HIDE DEF root
  <2>4. Enumerates(Children(root), Q)
    BY <2>2, ChildrenEnumerate
  <2>5. nodes(Children(root)) = rest
    <3>1. Q \in SUBSET Known
      OBVIOUS
    <3> HIDE DEF nodes, f, Q
    <3> QED
      BY <1>4, <2>4, <3>1
  <2>6. ChannelNode(root, FALSE) = <<sidebarRows[root]>>
    BY <2>2, ChannelNodeEnumerates
  <2>7. ChannelSidebar = Visited(f, root, sidebarRows, collapsed)
    <3> HIDE DEF nodes, f
    <3> QED
      BY <2>3, <2>5, <2>6 DEF Visited
  <2>8. Enumerates(ChannelSidebar, {sidebarRows[c] : c \in Reached(root, collapsed)})
    <3> HIDE DEF f
    <3>1. \A e \in Known : tree[e] = root => Enumerates(f[e], {sidebarRows[c] : c \in Reached(e, collapsed)})
      BY <1>2
    <3>2. Enumerates(Visited(f, root, sidebarRows, collapsed), {sidebarRows[c] : c \in Reached(root, collapsed)})
      BY <2>2, <3>1, SidebarRowsAre, VisitEnumerates
    <3> QED
      BY <2>7, <3>2
  <2>9. Reached(root, collapsed) = V
    <3>1. UNION {Reached(x, collapsed) : x \in Roots} = V
      BY RootsReach
    <3>2. UNION {Reached(x, collapsed) : x \in {root}} = Reached(root, collapsed)
      OBVIOUS
    <3> QED
      BY <2>2, <3>1, <3>2
  <2> QED
    BY <1>1, <2>8, <2>9
<1> QED
  BY <1>5, <1>6

\* A channel is in the sidebar once, or not at all if one above it is folded,
LEMMA SidebarHasEachOnce ==
  ASSUME NEW depth, NEW n, TreeOf(depth, n), NEW c \in Known
  PROVE  /\ Times(ChannelSidebar, LAMBDA r : r.channel = c) = IF Hidden(c) THEN 0 ELSE 1
         /\ ~Hidden(c) => SidebarRow(c) \in Range(ChannelSidebar)
<1> DEFINE s == ChannelSidebar
           H == {x \in Known : ~Hidden(x)}
           S == {sidebarRows[x] : x \in H}
           at == {i \in DOMAIN s : s[i].channel = c}
<1>1. Enumerates(s, S)
  BY SidebarEnumerates
<1>2. /\ DOMAIN s = 1..Len(s)
      /\ \A i \in DOMAIN s : \E x \in H : s[i] = sidebarRows[x]
      /\ \A x \in H : \E i \in DOMAIN s : s[i] = sidebarRows[x]
      /\ \A i, j \in DOMAIN s : s[i] = s[j] => i = j
  <2> HIDE DEF s, H
  <2>1. DOMAIN s = 1..Len(s) /\ \A i \in DOMAIN s : s[i] \in S
    <3> HIDE DEF S
    <3> QED
      BY <1>1, Enumerated
  <2>2. \A x \in H : sidebarRows[x] \in S
    OBVIOUS
  <2>3. \A x \in S : \E i \in 1..Len(s) : s[i] = x
    <3> HIDE DEF S
    <3> QED
      BY <1>1 DEF Enumerates
  <2>4. \A i, j \in 1..Len(s) : s[i] = s[j] => i = j
    BY <1>1 DEF Enumerates
  <2> QED
    BY <2>1, <2>2, <2>3, <2>4
<1>3. Times(s, LAMBDA r : r.channel = c) = Cardinality(at)
  BY DEF Times
<1>4. \A x \in H : x \in Known /\ sidebarRows[x].channel = x
  BY SidebarRowsAre
<1> HIDE DEF s
<1>5. CASE Hidden(c)
  <2>1. at = {}
    BY <1>2, <1>4, <1>5
  <2> QED
    BY <1>3, <1>5, <2>1, FS_EmptySet DEF s
<1>6. CASE ~Hidden(c)
  <2>1. c \in H
    BY <1>6
  <2>2. PICK i \in DOMAIN s : s[i] = sidebarRows[c]
    BY <1>2, <2>1
  <2>3. at = {i}
    <3> HIDE DEF H
    <3>1. \A j \in DOMAIN s : s[j].channel = c => j = i
      BY <1>2, <1>4, <2>2
    <3>2. s[i].channel = c
      BY <1>4, <2>1, <2>2
    <3> QED
      BY <3>1, <3>2
  <2>4. Cardinality(at) = 1
    <3> HIDE DEF at
    <3> QED
      BY <2>3, FS_Singleton
  <2>5. SidebarRow(c) \in Range(s)
    BY <2>2, SidebarRowsAre DEF Range
  <2> QED
    BY <1>3, <1>6, <2>4, <2>5 DEF s
<1> QED
  BY <1>5, <1>6

\* and its row has its users unless it is folded itself.
LEMMA SidebarRowHasUsers ==
  ASSUME NEW c \in Known, c \notin collapsed
  PROVE  SidebarRow(c).channel = c /\ {w.user : w \in SidebarRow(c).users} = Occupants(c)
<1>1. SidebarRow(c).channel = c /\ SidebarRow(c).users = {VoiceUserRow(u) : u \in Occupants(c)}
  BY DEF SidebarRow
<1>2. \A u : VoiceUserRow(u).user = u
  BY DEF VoiceUserRow
<1>3. {w.user : w \in {VoiceUserRow(u) : u \in Occupants(c)}} = Occupants(c)
  BY <1>2
<1> QED
  BY <1>1, <1>3

\* The members of a channel are those in it that the search lets through.
LEMMA MembersAre ==
  ASSUME NEW c
  PROVE  /\ MembersOf(c) = <<>> <=> Occupants(c) \cap found = {}
         /\ \A u : (\E i \in DOMAIN MembersOf(c) : MembersOf(c)[i].user = u)
                   <=> u \in Occupants(c) \cap found
<1> DEFINE S == Occupants(c) \cap found
           us == Ranked(S)
           m == [i \in DOMAIN us |-> MemberRow(us[i])]
<1>1. MembersOf(c) = m
  BY DEF MembersOf, Ranked
<1>2. S \in SUBSET People
  BY DEF Occupants, Present
<1> HIDE DEF S
<1>3. Enumerates(us, S)
  BY <1>2, RankedEnumerates
<1> HIDE DEF us
<1>4. /\ DOMAIN us = 1..Len(us) /\ Len(us) \in Nat /\ \A i \in DOMAIN us : us[i] \in S
      /\ S = {} <=> us = <<>>
  BY <1>3, Enumerated
<1>5. \A u \in S : \E i \in DOMAIN us : us[i] = u
  BY <1>3, <1>4 DEF Enumerates
<1>6. \A u : MemberRow(u).user = u
  BY DEF MemberRow
<1>7. \A i \in DOMAIN us : m[i].user = us[i]
  BY <1>6
<1>8. DOMAIN m = DOMAIN us
  OBVIOUS
<1>9. m = <<>> <=> us = <<>>
  <2>1. us \in Seq(S)
    BY <1>3 DEF Enumerates
  <2>2. m \in Seq({MemberRow(u) : u \in S})
    <3> DEFINE R == {MemberRow(u) : u \in S}
    <3>1. \A i \in 1..Len(us) : MemberRow(us[i]) \in R
      BY <1>4
    <3>2. m = [i \in 1..Len(us) |-> MemberRow(us[i])]
      BY <1>4
    <3> HIDE DEF R, m
    <3>3. m \in [1..Len(us) -> R]
      BY <3>1, <3>2
    <3> QED
      BY <1>4, <3>3, FunctionIsSequence DEF R
  <2>3. Len(m) = Len(us)
    BY <1>4, <1>8, <2>2
  <2> HIDE DEF m
  <2> QED
    BY <2>1, <2>2, <2>3
<1> HIDE DEF m
<1>10. \A u : (\E i \in DOMAIN m : m[i].user = u) <=> u \in S
  BY <1>4, <1>5, <1>7, <1>8
<1> QED
  BY <1>1, <1>4, <1>9, <1>10 DEF S

------------------------------------------------------------------------------
(* The member list *)

\* The channels of users that the page does not know.
Strays == {place[u] : u \in Present} \ Known

Placed == place \in [People -> Chans \cup {Unknown}]

\* They are listed once too.
LEMMA StraysEnumerated ==
  ASSUME Placed
  PROVE  Enumerates(Sorted(Strays), Strays)
<1>1. Strays \subseteq Chans /\ Strays \in SUBSET Nat
  BY ListsAssumption DEF Strays, Present, Placed
<1>2. IsFiniteSet(Strays)
  BY <1>1, ListsAssumption, FS_Subset
<1> QED
  BY <1>1, <1>2, SortedEnumerates

\* The group of a channel, and what the member list shows of it.
GroupOf(c) == [channel |-> c, members |-> MembersOf(c)]

Peopled == {c \in Known \cup Strays : MembersOf(c) # <<>>}

\* The member list has the group of every channel with members once.
LEMMA MemberListEnumerates ==
  ASSUME NEW depth, NEW n, TreeOf(depth, n), Placed
  PROVE  Enumerates(MemberList, {GroupOf(c) : c \in Peopled})
<1> DEFINE all == Ordered \o Sorted(Strays)
           C == Known \cup Strays
           Group(c) == IF MembersOf(c) = <<>> THEN <<>>
                       ELSE <<[channel |-> c, members |-> MembersOf(c)]>>
           f == [c \in C |-> Group(c)]
           A == [c \in C |-> IF MembersOf(c) = <<>> THEN {} ELSE {GroupOf(c)}]
<1>1. Enumerates(all, C)
  <2>1. Known \cap Strays = {}
    BY DEF Strays
  <2> QED
    BY <2>1, StraysEnumerated, OrderedEnumerates, BothEnumerated
<1>2. MemberList = FlattenSeq([i \in DOMAIN all |-> Group(all[i])])
  BY DEF MemberList, Strays
<1> HIDE DEF all, C
<1>3. \A i \in DOMAIN all : all[i] \in C
  BY <1>1, Enumerated
<1>4. [i \in DOMAIN all |-> Group(all[i])] = [i \in DOMAIN all |-> f[all[i]]]
  <2>1. \A i \in DOMAIN all : Group(all[i]) = f[all[i]]
    BY <1>3
  <2> HIDE DEF f, Group
  <2> QED
    BY <2>1
<1>5. \A c \in C : Enumerates(f[c], A[c])
  <2>1. SUFFICES ASSUME NEW c \in C PROVE Enumerates(f[c], A[c])
    OBVIOUS
  <2>2. CASE MembersOf(c) = <<>>
    <3>1. f[c] = <<>> /\ A[c] = {}
      BY <2>2
    <3> HIDE DEF f, A
    <3> QED
      BY <3>1, OneEnumerated
  <2>3. CASE MembersOf(c) # <<>>
    <3>1. f[c] = <<GroupOf(c)>> /\ A[c] = {GroupOf(c)}
      BY <2>3 DEF GroupOf
    <3> HIDE DEF f, A
    <3> QED
      BY <3>1, OneEnumerated
  <2> QED
    BY <2>2, <2>3
<1>6. \A x, y \in C : x # y => A[x] \cap A[y] = {}
  <2>1. \A x, y : GroupOf(x) = GroupOf(y) => x = y
    <3>1. \A x : GroupOf(x).channel = x
      BY DEF GroupOf
    <3> QED
      BY <3>1
  <2> QED
    BY <2>1
<1>7. Enumerates(MemberList, UNION {A[c] : c \in C})
  <2> HIDE DEF f, A, Group
  <2>1. Enumerates(FlattenSeq([i \in DOMAIN all |-> f[all[i]]]), UNION {A[c] : c \in C})
    BY <1>1, <1>5, <1>6, AllEnumerated
  <2> QED
    BY <1>2, <1>4, <2>1
<1>8. UNION {A[c] : c \in C} = {GroupOf(c) : c \in Peopled}
  <2>1. \A c \in C : A[c] = IF c \in Peopled THEN {GroupOf(c)} ELSE {}
    BY DEF Peopled, C
  <2>2. \A c \in Peopled : c \in C
    BY DEF Peopled, C
  <2> HIDE DEF A
  <2> QED
    BY <2>1, <2>2
<1> QED
  BY <1>7, <1>8

\* Whom the search lets through is in the member list once, in the group of the channel
\* the store has for that user.
LEMMA MemberListHasEachOnce ==
  ASSUME NEW depth, NEW n, TreeOf(depth, n), Placed, NEW u \in Present \cap found
  PROVE  /\ Times(MemberList, LAMBDA g : \E i \in DOMAIN g.members : g.members[i].user = u) = 1
         /\ \E g \in Range(MemberList) : g.channel = place[u]
<1> DEFINE s == MemberList
           S == {GroupOf(c) : c \in Peopled}
           Has(g) == \E i \in DOMAIN g.members : g.members[i].user = u
           at == {i \in DOMAIN s : Has(s[i])}
           h == place[u]
<1>1. /\ DOMAIN s = 1..Len(s)
      /\ \A i \in DOMAIN s : \E x \in Peopled : s[i] = GroupOf(x)
      /\ \A x \in Peopled : \E i \in DOMAIN s : s[i] = GroupOf(x)
      /\ \A i, j \in DOMAIN s : s[i] = s[j] => i = j
  <2>1. Enumerates(s, S)
    BY MemberListEnumerates
  <2> HIDE DEF s
  <2>2. DOMAIN s = 1..Len(s) /\ \A i \in DOMAIN s : s[i] \in S
    <3> HIDE DEF S
    <3> QED
      BY <2>1, Enumerated
  <2>3. \A x \in Peopled : GroupOf(x) \in S
    OBVIOUS
  <2>4. \A x \in S : \E i \in 1..Len(s) : s[i] = x
    <3> HIDE DEF S
    <3> QED
      BY <2>1 DEF Enumerates
  <2>5. \A i, j \in 1..Len(s) : s[i] = s[j] => i = j
    BY <2>1 DEF Enumerates
  <2> QED
    BY <2>2, <2>3, <2>4, <2>5
<1>2. Times(s, LAMBDA g : \E i \in DOMAIN g.members : g.members[i].user = u) = Cardinality(at)
  BY DEF Times
<1>3. \A c : GroupOf(c).channel = c /\ GroupOf(c).members = MembersOf(c)
  BY DEF GroupOf
<1>4. \A c : Has(GroupOf(c)) <=> u \in Occupants(c) \cap found
  BY <1>3, MembersAre
<1>5. \A c : u \in Occupants(c) \cap found <=> c = h
  BY DEF Occupants
<1>6. h \in Peopled
  <2>1. h \in Known \cup Strays
    BY DEF Strays
  <2>2. MembersOf(h) # <<>>
    BY <1>5, MembersAre
  <2> QED
    BY <2>1, <2>2 DEF Peopled
<1> HIDE DEF s, Has, h
<1>7. PICK k \in DOMAIN s : s[k] = GroupOf(h)
  BY <1>1, <1>6
<1>8. at = {k}
  <2>1. \A j \in DOMAIN s : Has(s[j]) => j = k
    BY <1>1, <1>4, <1>5, <1>7
  <2>2. Has(s[k])
    BY <1>4, <1>5, <1>7
  <2> QED
    BY <2>1, <2>2
<1>9. Cardinality(at) = 1
  <2> HIDE DEF at
  <2> QED
    BY <1>8, FS_Singleton
<1>10. s[k] \in Range(s) /\ s[k].channel = h
  BY <1>3, <1>7 DEF Range
<1> QED
  BY <1>2, <1>9, <1>10 DEF s, h

------------------------------------------------------------------------------
(* The lists *)

\* Whoever is played is marked as locally muted in neither list.
LEMMA PlayedIsNotMarked ==
  ASSUME NEW u \in RemoteAudio
  PROVE  VoiceUserRow(u).locallyMuted = FALSE /\ MemberRow(u).status # "locallyMuted"
<1>1. u \notin marks.localMuted
  BY DEF RemoteAudio
<1>2. VoiceUserRow(u).locallyMuted = FALSE
  <2>1. VoiceUserRow(u).locallyMuted = (u \in marks.localMuted)
    BY DEF VoiceUserRow
  <2>2. (u \in marks.localMuted) = FALSE
    BY <1>1
  <2> QED
    BY <2>1, <2>2, Zenon
<1>3. MemberRow(u).status =
        CASE u \in marks.talking    -> "talking"
          [] u \in marks.localMuted -> "locallyMuted"
          [] u \in marks.deafened   -> "deafened"
          [] u \in marks.muted      -> "silenced"
          [] OTHER                  -> "online"
  BY DEF MemberRow
<1>4. MemberRow(u).status \in {"talking", "deafened", "silenced", "online"}
  BY <1>1, <1>3
<1> QED
  BY <1>2, <1>4

\* The store's channels are trees, and users in some channel: the lists change neither.
StoreInv ==
  /\ tree \in [Chans -> Chans \cup {NoParent, Unknown}]
  /\ Acyclic(tree)
  /\ Placed

\* Then the lists are right.
LEMMA ListsAreRight ==
  ASSUME StoreInv
  PROVE  EveryoneIsListed
<1>1. PICK depth, n : TreeOf(depth, n)
  BY TreesHaveDepths DEF StoreInv
<1> DEFINE Listed(u) ==
             /\ Times(MemberList, LAMBDA g : \E i \in DOMAIN g.members : g.members[i].user = u) = 1
             /\ \E g \in Range(MemberList) : g.channel = place[u]
           Shown(c) ==
             /\ Times(ChannelSidebar, LAMBDA r : r.channel = c) = (IF Hidden(c) THEN 0 ELSE 1)
             /\ c \notin collapsed /\ ~Hidden(c) =>
                  \E r \in Range(ChannelSidebar) :
                     r.channel = c /\ {w.user : w \in r.users} = Occupants(c)
<1>2. ASSUME NEW u \in Present \cap found PROVE Listed(u)
  BY <1>1, MemberListHasEachOnce DEF StoreInv
<1>3. ASSUME NEW c \in Known PROVE Shown(c)
  <2>1. /\ Times(ChannelSidebar, LAMBDA r : r.channel = c) = IF Hidden(c) THEN 0 ELSE 1
        /\ ~Hidden(c) => SidebarRow(c) \in Range(ChannelSidebar)
    BY <1>1, SidebarHasEachOnce
  <2>2. c \notin collapsed => SidebarRow(c).channel = c /\ {w.user : w \in SidebarRow(c).users} = Occupants(c)
    BY SidebarRowHasUsers
  <2> QED
    BY <2>1, <2>2
<1>4. \A u \in RemoteAudio : VoiceUserRow(u).locallyMuted = FALSE /\ MemberRow(u).status # "locallyMuted"
  BY PlayedIsNotMarked
<1>5. EveryoneIsListed <=>
        /\ \A u \in Present \cap found : Listed(u)
        /\ \A c \in Known : Shown(c)
        /\ \A u \in RemoteAudio : VoiceUserRow(u).locallyMuted = FALSE /\ MemberRow(u).status # "locallyMuted"
  BY DEF EveryoneIsListed
<1> HIDE DEF Listed, Shown
<1> QED
  BY <1>2, <1>3, <1>4, <1>5

\* The store is so at first,
LEMMA ListsInitStore ==
  ListsInit => StoreInv
BY DEF ListsInit, StoreInv, Placed

\* and after every step.
LEMMA ListsNextStore ==
  StoreInv /\ [ListsNext]_listVars => StoreInv'
<1>1. [ListsNext]_listVars => UNCHANGED <<tree, place>>
  BY DEF ListsNext, ToggleCollapse, Search, UserContextMenu, Marked, Mark, listVars
<1> QED
  BY <1>1 DEF StoreInv, Placed, Acyclic

\* Whatever the store has of the channels and users, and whatever is folded, searched for and
\* marked: the member list and the sidebar have everyone they should, once, and nobody is
\* played that they mark as muted (buildChannelTree, ChannelSidebar, MemberList, RemoteAudio).
THEOREM EveryoneGetsListed ==
  ListsSpec => []EveryoneIsListed
<1>1. StoreInv => EveryoneIsListed
  BY ListsAreRight
<1> QED
  BY <1>1, ListsInitStore, ListsNextStore, PTL DEF ListsSpec

\* Whoever folds, searches and marks: the lists' state keeps its types.
THEOREM ListsTypeCorrect ==
  ListsSpec => []ListsTypeOK
<1>1. ListsInit => ListsTypeOK
  BY DEF ListsInit, ListsTypeOK
<1>2. ListsTypeOK /\ [ListsNext]_listVars => ListsTypeOK'
  <2> SUFFICES ASSUME ListsTypeOK, [ListsNext]_listVars PROVE ListsTypeOK'
    OBVIOUS
  <2>1. ASSUME NEW c \in Chans, ToggleCollapse(c) PROVE ListsTypeOK'
    BY <2>1 DEF ToggleCollapse, Toggled, ListsTypeOK
  <2>2. CASE Search
    BY <2>2 DEF Search, ListsTypeOK
  <2>3. ASSUME NEW u \in People, NEW kind \in DOMAIN marks, Mark(kind, u) PROVE ListsTypeOK'
    <3>1. Toggled(marks[kind], u) \in SUBSET People
      BY DEF Toggled, ListsTypeOK
    <3> QED
      BY <2>3, <3>1 DEF Mark, ListsTypeOK
  <2>4. ASSUME NEW u \in People, UserContextMenu(u) \/ Marked(u) PROVE ListsTypeOK'
    <3>1. {"localMuted", "zero", "talking", "muted", "deafened"} \subseteq DOMAIN marks
      BY DEF ListsTypeOK
    <3> QED
      BY <2>3, <2>4, <3>1 DEF UserContextMenu, Marked
  <2>5. CASE UNCHANGED listVars
    BY <2>5 DEF listVars, ListsTypeOK
  <2> QED
    BY <2>1, <2>2, <2>4, <2>5 DEF ListsNext
<1> QED
  BY <1>1, <1>2, PTL DEF ListsSpec
=============================================================================
