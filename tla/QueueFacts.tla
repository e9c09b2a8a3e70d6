------------------------------ MODULE QueueFacts ------------------------------
(***************************************************************************)
(* The tasks of the firmware tell each other of a change by posting it to  *)
(* a queue: the controller's reports to the stack, the adapter events to   *)
(* app_core.  A queue with two kinds of messages, "now so" and "no longer  *)
(* so", is right about a fact when its reader, having taken everything,    *)
(* believes what is true.  Tells states that of a queue at any time, and   *)
(* the lemmas say that it survives what tasks do with queues.              *)
(***************************************************************************)
EXTENDS Sequences, Naturals, SequenceTheorems, TLAPS

\* A message of the set M is in the queue q.
Pending(q, M) == \E i \in DOMAIN q : q[i] \in M

\* Every message of the set M in q is followed by one of the set A.
Answered(q, M, A) ==
    \A i \in DOMAIN q : q[i] \in M => \E j \in DOMAIN q : j > i /\ q[j] \in A

\* The queue takes a reader who believes `was` of the fact to believe `is` of
\* it, the messages Yes saying that it is so and the messages No that it is not.
Tells(q, Yes, No, was, is) ==
    /\ is  => Answered(q, No, Yes) /\ (was \/ Pending(q, Yes))
    /\ ~is => Answered(q, Yes, No) /\ (~was \/ Pending(q, No))

-------------------------------------------------------------------------------
(* What an empty queue, a single message and two messages tell.              *)

\* Nothing waits in an empty queue: its reader is up to date.
LEMMA EmptyTells ==
    ASSUME NEW Yes, NEW No, NEW was, NEW is
    PROVE  Tells(<<>>, Yes, No, was, is) <=> (was <=> is)
BY DEF Tells, Pending, Answered

\* One message tells what it says, or nothing of the fact.
LEMMA OneTells ==
    ASSUME NEW Yes, NEW No, NEW was, NEW is, NEW e,
           \/ e \in Yes /\ e \notin No /\ is
           \/ e \in No /\ e \notin Yes /\ ~is
           \/ e \notin Yes /\ e \notin No /\ (was <=> is)
    PROVE  Tells(<<e>>, Yes, No, was, is)
BY DEF Tells, Pending, Answered

\* Two single messages, one after the other, are the sequence of the two.
LEMMA TwoMessages ==
    ASSUME NEW S, NEW a \in S, NEW b \in S
    PROVE  <<a>> \o <<b>> = <<a, b>>
<1>1. <<a>> \in Seq(S) /\ <<b>> \in Seq(S) /\ <<a, b>> \in Seq(S)
  OBVIOUS
<1>2. Len(<<a>>) = 1 /\ Len(<<b>>) = 1 /\ Len(<<a, b>>) = 2
  OBVIOUS
<1>3. /\ <<a>> \o <<b>> \in Seq(S)
      /\ Len(<<a>> \o <<b>>) = 2
      /\ (<<a>> \o <<b>>)[1] = a
  BY <1>1, <1>2, ConcatProperties
<1>4. (<<a>> \o <<b>>)[2] = b
  BY <1>1, <1>2, ConcatProperties
<1>5. <<a, b>>[1] = a /\ <<a, b>>[2] = b
  OBVIOUS
<1>6. \A i \in 1..2 : (<<a>> \o <<b>>)[i] = <<a, b>>[i]
  <2>1. \A i \in 1..2 : i = 1 \/ i = 2
    OBVIOUS
  <2>2. QED
    BY <2>1, <1>3, <1>4, <1>5
<1>7. QED
  BY <1>1, <1>2, <1>3, <1>6, SeqEqual

\* More of them are, if they are, message by message.
LEMMA ConcatIs ==
    ASSUME NEW S, NEW p \in Seq(S), NEW q \in Seq(S), NEW r \in Seq(S),
           Len(r) = Len(p) + Len(q),
           \A i \in DOMAIN p : r[i] = p[i],
           \A i \in DOMAIN q : r[Len(p) + i] = q[i]
    PROVE  p \o q = r
<1>1. /\ Len(p) \in Nat /\ Len(q) \in Nat
      /\ DOMAIN p = 1..Len(p) /\ DOMAIN q = 1..Len(q)
  BY LenProperties
<1>2. /\ p \o q \in Seq(S)
      /\ Len(p \o q) = Len(p) + Len(q)
      /\ \A i \in 1..(Len(p) + Len(q)) :
            (p \o q)[i] = IF i <= Len(p) THEN p[i] ELSE q[i - Len(p)]
  BY ConcatProperties
<1>3. ASSUME NEW i \in 1..Len(r) PROVE (p \o q)[i] = r[i]
  <2>1. CASE i <= Len(p)
    BY <1>1, <1>2, <2>1
  <2>2. CASE i > Len(p)
    <3>1. i - Len(p) \in DOMAIN q /\ Len(p) + (i - Len(p)) = i
      BY <1>1, <2>2
    <3>2. QED
      BY <1>1, <1>2, <2>2, <3>1
  <2>3. QED
    BY <1>1, <2>1, <2>2
<1>4. QED
  BY <1>2, <1>3, SeqEqual

-------------------------------------------------------------------------------
(* What posting and taking messages does to what a queue tells.              *)

\* The elements of a concatenation.
LEMMA ConcatElements ==
    ASSUME NEW S, NEW q \in Seq(S), NEW r \in Seq(S)
    PROVE  /\ \A i \in DOMAIN q : i \in DOMAIN (q \o r) /\ (q \o r)[i] = q[i]
           /\ \A i \in DOMAIN r : /\ Len(q) + i \in DOMAIN (q \o r)
                                  /\ (q \o r)[Len(q) + i] = r[i]
           /\ \A i \in DOMAIN (q \o r) :
                 i \in DOMAIN q \/ (i - Len(q) \in DOMAIN r /\ i > Len(q)
                                    /\ (q \o r)[i] = r[i - Len(q)])
           /\ \A i \in DOMAIN q : i \in Nat /\ i <= Len(q)
           /\ \A i \in DOMAIN r : i \in Nat /\ i > 0
           /\ Len(q) \in Nat
<1>1. /\ Len(q) \in Nat /\ Len(r) \in Nat
      /\ DOMAIN q = 1..Len(q) /\ DOMAIN r = 1..Len(r)
  BY LenProperties
<1>2. /\ q \o r \in Seq(S)
      /\ Len(q \o r) = Len(q) + Len(r)
      /\ \A i \in 1..(Len(q) + Len(r)) :
            (q \o r)[i] = IF i <= Len(q) THEN q[i] ELSE r[i - Len(q)]
  BY ConcatProperties
<1>3. DOMAIN (q \o r) = 1..(Len(q) + Len(r))
  BY <1>2, LenProperties
<1>4. QED
  BY <1>1, <1>2, <1>3

\* Two queues one after the other tell what the second makes of the first.
LEMMA ConcatTells ==
    ASSUME NEW S, NEW q \in Seq(S), NEW r \in Seq(S), NEW Yes, NEW No,
           NEW was, NEW mid, NEW is,
           Tells(q, Yes, No, was, mid), Tells(r, Yes, No, mid, is)
    PROVE  Tells(q \o r, Yes, No, was, is)
<1> DEFINE s == q \o r
<1>0. \A M : /\ Pending(q, M) => Pending(s, M)
             /\ Pending(r, M) => Pending(s, M)
  <2> SUFFICES ASSUME NEW M
               PROVE  /\ Pending(q, M) => Pending(s, M)
                      /\ Pending(r, M) => Pending(s, M)
    OBVIOUS
  <2>1. ASSUME Pending(q, M) PROVE Pending(s, M)
    <3>1. PICK i \in DOMAIN q : q[i] \in M
      BY <2>1 DEF Pending
    <3>2. i \in DOMAIN s /\ s[i] \in M
      BY <3>1, ConcatElements
    <3>3. QED
      BY <3>2 DEF Pending
  <2>2. ASSUME Pending(r, M) PROVE Pending(s, M)
    <3>1. PICK i \in DOMAIN r : r[i] \in M
      BY <2>2 DEF Pending
    <3>2. Len(q) + i \in DOMAIN s /\ s[Len(q) + i] \in M
      BY <3>1, ConcatElements
    <3>3. QED
      BY <3>2 DEF Pending
  <2>3. QED
    BY <2>1, <2>2
<1>1. \A M, A : Answered(r, M, A) /\ (Answered(q, M, A) \/ Pending(r, A))
                    => Answered(s, M, A)
  <2> SUFFICES ASSUME NEW M, NEW A, Answered(r, M, A),
                      Answered(q, M, A) \/ Pending(r, A),
                      NEW i \in DOMAIN s, s[i] \in M
               PROVE  \E j \in DOMAIN s : j > i /\ s[j] \in A
    BY DEF Answered
  <2>1. CASE i \notin DOMAIN q
    <3>1. i - Len(q) \in DOMAIN r /\ r[i - Len(q)] \in M /\ Len(q) \in Nat
      BY <2>1, ConcatElements
    <3>2. PICK j \in DOMAIN r : j > i - Len(q) /\ r[j] \in A
      BY <3>1 DEF Answered
    <3>3. Len(q) + j \in DOMAIN s /\ s[Len(q) + j] \in A
      BY <3>2, ConcatElements
    <3>4. i \in Nat /\ j \in Nat
      BY <3>2, LenProperties, ConcatProperties
    <3>5. QED
      BY <3>1, <3>2, <3>3, <3>4
  <2>2. CASE i \in DOMAIN q /\ Answered(q, M, A)
    <3>1. q[i] \in M
      BY <2>2, ConcatElements
    <3>2. PICK j \in DOMAIN q : j > i /\ q[j] \in A
      BY <2>2, <3>1 DEF Answered
    <3>3. QED
      BY <3>2, ConcatElements
  <2>3. CASE i \in DOMAIN q /\ Pending(r, A)
    <3>1. PICK j \in DOMAIN r : r[j] \in A
      BY <2>3 DEF Pending
    <3>2. /\ Len(q) + j \in DOMAIN s /\ s[Len(q) + j] \in A
          /\ Len(q) + j > i
      BY <2>3, <3>1, ConcatElements
    <3>3. QED
      BY <3>2
  <2>4. QED
    BY <2>1, <2>2, <2>3
<1>2. CASE is
  <2>1. Answered(r, No, Yes) /\ (mid \/ Pending(r, Yes))
    BY <1>2 DEF Tells
  <2>2. mid => Answered(q, No, Yes) /\ (was \/ Pending(q, Yes))
    BY DEF Tells
  <2>3. QED
    BY <1>0, <1>1, <1>2, <2>1, <2>2 DEF Tells
<1>3. CASE ~is
  <2>1. Answered(r, Yes, No) /\ (~mid \/ Pending(r, No))
    BY <1>3 DEF Tells
  <2>2. ~mid => Answered(q, Yes, No) /\ (~was \/ Pending(q, No))
    BY DEF Tells
  <2>3. QED
    BY <1>0, <1>1, <1>3, <2>1, <2>2 DEF Tells
<1>4. QED
  BY <1>2, <1>3

\* A message posted on its own.
LEMMA AppendTells ==
    ASSUME NEW S, NEW q \in Seq(S), NEW e \in S, NEW Yes, NEW No,
           NEW was, NEW mid, NEW is, Tells(q, Yes, No, was, mid),
           \/ e \in Yes /\ e \notin No /\ is
           \/ e \in No /\ e \notin Yes /\ ~is
           \/ e \notin Yes /\ e \notin No /\ (mid <=> is)
    PROVE  Tells(Append(q, e), Yes, No, was, is)
<1>1. Tells(<<e>>, Yes, No, mid, is)
  BY OneTells
<1>2. Append(q, e) = q \o <<e>> /\ <<e>> \in Seq(S)
  BY AppendIsConcat
<1>3. QED
  BY <1>1, <1>2, ConcatTells

\* The elements of the rest of a queue.
LEMMA TailElements ==
    ASSUME NEW S, NEW q \in Seq(S), q # <<>>
    PROVE  /\ Tail(q) \in Seq(S)
           /\ Head(q) \in S /\ Head(q) = q[1] /\ 1 \in DOMAIN q
           /\ \A i \in DOMAIN q :
                 /\ i \in Nat /\ i >= 1
                 /\ i # 1 => i - 1 \in DOMAIN Tail(q) /\ Tail(q)[i - 1] = q[i]
           /\ \A i \in DOMAIN Tail(q) :
                 i \in Nat /\ i + 1 \in DOMAIN q /\ Tail(q)[i] = q[i + 1]
<1>1. /\ Len(q) \in Nat /\ DOMAIN q = 1..Len(q) /\ Len(q) # 0
  BY LenProperties, EmptySeq
<1>2. /\ Head(q) \in S /\ Head(q) = q[1]
      /\ Tail(q) \in Seq(S)
      /\ Len(Tail(q)) = Len(q) - 1
      /\ \A i \in 1..Len(Tail(q)) : Tail(q)[i] = q[i + 1]
  BY HeadTailProperties
<1>3. DOMAIN Tail(q) = 1..(Len(q) - 1)
  BY <1>2, LenProperties
<1>4. QED
  BY <1>1, <1>2, <1>3

\* What is answered in a queue is answered in the rest of it.
LEMMA TailAnswered ==
    ASSUME NEW S, NEW q \in Seq(S), q # <<>>, NEW M, NEW A
    PROVE  /\ Answered(q, M, A) => Answered(Tail(q), M, A)
           /\ Answered(q, M, A) /\ Head(q) \in M => Pending(Tail(q), A)
           /\ Pending(q, A) => Head(q) \in A \/ Pending(Tail(q), A)
<1>1. ASSUME Answered(q, M, A), NEW i \in DOMAIN q, q[i] \in M
      PROVE  \E j \in DOMAIN Tail(q) : j + 1 > i /\ Tail(q)[j] \in A
  <2>1. PICK j \in DOMAIN q : j > i /\ q[j] \in A
    BY <1>1 DEF Answered
  <2>2. j # 1 /\ j - 1 \in DOMAIN Tail(q) /\ Tail(q)[j - 1] = q[j]
        /\ i \in Nat /\ j \in Nat
    BY <2>1, TailElements
  <2>3. QED
    BY <2>1, <2>2
<1>2. ASSUME Answered(q, M, A) PROVE Answered(Tail(q), M, A)
  <2> SUFFICES ASSUME NEW i \in DOMAIN Tail(q), Tail(q)[i] \in M
               PROVE  \E j \in DOMAIN Tail(q) : j > i /\ Tail(q)[j] \in A
    BY DEF Answered
  <2>1. i + 1 \in DOMAIN q /\ q[i + 1] \in M /\ i \in Nat
    BY TailElements
  <2>2. PICK j \in DOMAIN Tail(q) : j + 1 > i + 1 /\ Tail(q)[j] \in A
    BY <1>1, <1>2, <2>1
  <2>3. j \in Nat
    BY <2>2, TailElements
  <2>4. QED
    BY <2>1, <2>2, <2>3
<1>3. ASSUME Answered(q, M, A), Head(q) \in M PROVE Pending(Tail(q), A)
  BY <1>1, <1>3, TailElements DEF Pending
<1>4. ASSUME Pending(q, A), Head(q) \notin A PROVE Pending(Tail(q), A)
  <2>1. PICK j \in DOMAIN q : q[j] \in A
    BY <1>4 DEF Pending
  <2>2. j # 1 /\ j - 1 \in DOMAIN Tail(q) /\ Tail(q)[j - 1] = q[j]
    BY <1>4, <2>1, TailElements
  <2>3. QED
    BY <2>1, <2>2 DEF Pending
<1>5. QED
  BY <1>2, <1>3, <1>4

\* The reader takes the first message and believes it.
LEMMA TailTells ==
    ASSUME NEW S, NEW q \in Seq(S), q # <<>>, NEW Yes, NEW No,
           NEW was, NEW mid, NEW is, Tells(q, Yes, No, was, is),
           Head(q) \in Yes => mid,
           Head(q) \in No => ~mid,
           Head(q) \notin Yes \cup No => (was <=> mid)
    PROVE  Tells(Tail(q), Yes, No, mid, is)
<1>1. CASE is
  <2>1. Answered(q, No, Yes) /\ (was \/ Pending(q, Yes))
    BY <1>1 DEF Tells
  <2>2. Answered(Tail(q), No, Yes)
    BY <2>1, TailAnswered
  <2>3. mid \/ Pending(Tail(q), Yes)
    BY <2>1, TailAnswered
  <2>4. QED
    BY <1>1, <2>2, <2>3 DEF Tells
<1>2. CASE ~is
  <2>1. Answered(q, Yes, No) /\ (~was \/ Pending(q, No))
    BY <1>2 DEF Tells
  <2>2. Answered(Tail(q), Yes, No)
    BY <2>1, TailAnswered
  <2>3. ~mid \/ Pending(Tail(q), No)
    BY <2>1, TailAnswered
  <2>4. QED
    BY <1>2, <2>2, <2>3 DEF Tells
<1>3. QED
  BY <1>1, <1>2

\* A reader who learns the truth some other way is told nothing wrong.
LEMMA UpToDateTells ==
    ASSUME NEW q, NEW Yes, NEW No, NEW was, NEW is, Tells(q, Yes, No, was, is)
    PROVE  Tells(q, Yes, No, is, is)
BY DEF Tells

\* The last message is the one that counts.
LEMMA LastTells ==
    ASSUME NEW S, NEW q \in Seq(S), NEW r \in Seq(S), r # <<>>, NEW Yes, NEW No, NEW was
    PROVE  /\ r[Len(r)] \in Yes \ No => Tells(q \o r, Yes, No, was, TRUE)
           /\ r[Len(r)] \in No \ Yes => Tells(q \o r, Yes, No, was, FALSE)
<1> DEFINE last == Len(q) + Len(r)
<1>1. /\ Len(q) \in Nat /\ Len(r) \in Nat /\ Len(r) # 0
      /\ q \o r \in Seq(S) /\ Len(q \o r) = last
      /\ (q \o r)[last] = r[Len(r)]
  BY LenProperties, EmptySeq, ConcatProperties
<1>2. DOMAIN (q \o r) = 1..last /\ last \in DOMAIN (q \o r)
  BY <1>1, LenProperties
<1> HIDE DEF last
<1>3. \A i \in DOMAIN (q \o r) : i = last \/ last > i
  BY <1>1, <1>2 DEF last
<1>4. QED
  BY <1>1, <1>2, <1>3 DEF Tells, Answered, Pending

\* The elements of a queue with one more message.
LEMMA AppendElements ==
    ASSUME NEW S, NEW q \in Seq(S), NEW e \in S
    PROVE  /\ Append(q, e) \in Seq(S)
           /\ Len(q) \in Nat
           /\ Len(q) + 1 \in DOMAIN Append(q, e) /\ Append(q, e)[Len(q) + 1] = e
           /\ \A i \in DOMAIN q :
                 /\ i \in Nat /\ i <= Len(q)
                 /\ i \in DOMAIN Append(q, e) /\ Append(q, e)[i] = q[i]
           /\ \A i \in DOMAIN Append(q, e) : i \in DOMAIN q \/ i = Len(q) + 1
BY LenProperties, AppendProperties

\* What posting a message answers.
LEMMA AppendAnswered ==
    ASSUME NEW S, NEW q \in Seq(S), NEW e \in S, NEW M, NEW A
    PROVE  /\ e \in A /\ e \notin M => Answered(Append(q, e), M, A)
           /\ e \notin M /\ Answered(q, M, A) => Answered(Append(q, e), M, A)
           /\ Pending(Append(q, e), A) <=> Pending(q, A) \/ e \in A
<1>1. e \in A /\ e \notin M => Answered(Append(q, e), M, A)
  BY AppendElements DEF Answered
<1>2. e \notin M /\ Answered(q, M, A) => Answered(Append(q, e), M, A)
  BY AppendElements DEF Answered
<1>3. Pending(Append(q, e), A) <=> Pending(q, A) \/ e \in A
  BY AppendElements DEF Pending
<1>4. QED
  BY <1>1, <1>2, <1>3

\* The elements of a queue whose first message is replaced by the messages m.
LEMMA ReplaceElements ==
    ASSUME NEW S, NEW q \in Seq(S), q # <<>>, NEW m \in Seq(S)
    PROVE  /\ m \o Tail(q) \in Seq(S)
           /\ Len(m) \in Nat
           /\ \A i \in DOMAIN m :
                 /\ i \in Nat /\ i >= 1 /\ i <= Len(m)
                 /\ i \in DOMAIN (m \o Tail(q)) /\ (m \o Tail(q))[i] = m[i]
           /\ \A i \in DOMAIN q :
                 /\ i \in Nat /\ i >= 1
                 /\ i > 1 => /\ Len(m) + i - 1 \in DOMAIN (m \o Tail(q))
                             /\ (m \o Tail(q))[Len(m) + i - 1] = q[i]
           /\ \A i \in DOMAIN (m \o Tail(q)) :
                 /\ i \in Nat /\ i >= 1
                 /\ \/ i \in DOMAIN m
                    \/ /\ i > Len(m) /\ i - Len(m) + 1 \in DOMAIN q
                       /\ (m \o Tail(q))[i] = q[i - Len(m) + 1]
<1>1. /\ Len(m) \in Nat /\ DOMAIN m = 1..Len(m)
      /\ Len(q) \in Nat /\ DOMAIN q = 1..Len(q) /\ Len(q) # 0
  BY LenProperties, EmptySeq
<1>2. /\ Tail(q) \in Seq(S)
      /\ Len(Tail(q)) = Len(q) - 1
      /\ \A i \in 1..Len(Tail(q)) : Tail(q)[i] = q[i + 1]
  BY HeadTailProperties
<1>3. /\ m \o Tail(q) \in Seq(S)
      /\ Len(m \o Tail(q)) = Len(m) + Len(q) - 1
      /\ \A i \in 1..(Len(m) + Len(q) - 1) :
            (m \o Tail(q))[i] = IF i <= Len(m) THEN m[i] ELSE Tail(q)[i - Len(m)]
  BY <1>1, <1>2, ConcatProperties
<1>4. DOMAIN (m \o Tail(q)) = 1..(Len(m) + Len(q) - 1)
  BY <1>1, <1>3, LenProperties
<1>5. \A i \in 2..Len(q) : (m \o Tail(q))[Len(m) + i - 1] = q[i]
  <2> SUFFICES ASSUME NEW i \in 2..Len(q)
               PROVE  (m \o Tail(q))[Len(m) + i - 1] = q[i]
    OBVIOUS
  <2>1. (m \o Tail(q))[Len(m) + i - 1] = Tail(q)[(Len(m) + i - 1) - Len(m)]
    BY <1>1, <1>3
  <2>2. (Len(m) + i - 1) - Len(m) = i - 1 /\ i - 1 \in 1..Len(Tail(q)) /\ (i - 1) + 1 = i
    BY <1>1, <1>2
  <2>3. QED
    BY <1>2, <2>1, <2>2
<1>6. \A i \in (Len(m) + 1)..(Len(m) + Len(q) - 1) :
         /\ i - Len(m) + 1 \in 2..Len(q)
         /\ Len(m) + (i - Len(m) + 1) - 1 = i
  BY <1>1
<1>7. QED
  BY <1>1, <1>3, <1>4, <1>5, <1>6

\* What is in a queue whose first message is replaced.
LEMMA ReplacePending ==
    ASSUME NEW S, NEW q \in Seq(S), q # <<>>, NEW m \in Seq(S), NEW M
    PROVE  /\ Pending(m \o Tail(q), M) => Pending(m, M) \/ Pending(q, M)
           /\ Pending(m, M) => Pending(m \o Tail(q), M)
           /\ Pending(q, M) /\ Head(q) \notin M => Pending(m \o Tail(q), M)
<1>1. ASSUME Pending(m \o Tail(q), M) PROVE Pending(m, M) \/ Pending(q, M)
  <2>1. PICK i \in DOMAIN (m \o Tail(q)) : (m \o Tail(q))[i] \in M
    BY <1>1 DEF Pending
  <2>2. \/ i \in DOMAIN m /\ m[i] \in M
        \/ i - Len(m) + 1 \in DOMAIN q /\ q[i - Len(m) + 1] \in M
    BY <2>1, ReplaceElements
  <2>3. QED
    BY <2>2 DEF Pending
<1>2. ASSUME Pending(m, M) PROVE Pending(m \o Tail(q), M)
  <2>1. PICK i \in DOMAIN m : m[i] \in M
    BY <1>2 DEF Pending
  <2>2. i \in DOMAIN (m \o Tail(q)) /\ (m \o Tail(q))[i] \in M
    BY <2>1, ReplaceElements
  <2>3. QED
    BY <2>2 DEF Pending
<1>3. ASSUME Pending(q, M), Head(q) \notin M PROVE Pending(m \o Tail(q), M)
  <2>1. PICK i \in DOMAIN q : q[i] \in M
    BY <1>3 DEF Pending
  <2>2. i # 1 /\ i \in Nat /\ i >= 1
    BY <1>3, <2>1, TailElements
  <2>3. /\ Len(m) + i - 1 \in DOMAIN (m \o Tail(q))
        /\ (m \o Tail(q))[Len(m) + i - 1] \in M
    BY <2>1, <2>2, ReplaceElements
  <2>4. QED
    BY <2>3 DEF Pending
<1>4. QED
  BY <1>1, <1>2, <1>3

\* ... and what such a queue tells.
LEMMA ReplaceTells ==
    ASSUME NEW S, NEW q \in Seq(S), q # <<>>, NEW m \in Seq(S), NEW Yes, NEW No,
           NEW was, NEW now, NEW mid, NEW is, Tells(q, Yes, No, was, is),
           Head(q) \in Yes => mid,
           Head(q) \in No => ~mid,
           Head(q) \notin Yes \cup No => (was <=> mid),
           Tells(m, Yes, No, now, mid)
    PROVE  Tells(m \o Tail(q), Yes, No, now, is)
<1>1. Tells(Tail(q), Yes, No, mid, is) /\ Tail(q) \in Seq(S)
  BY TailTells, HeadTailProperties
<1>2. QED
  BY <1>1, ConcatTells
===============================================================================
