--------------------------- MODULE QueueTheorems ----------------------------
(* What moves from one queue to the next: facts about sequences that the    *)
(* proofs about the TLS proxy, the Unix socket and the bridge's queues use. *)
EXTENDS Integers, SequenceTheorems, TLAPS

\* Moving the first element of t behind s changes nothing in their sequence.
LEMMA MoveHead ==
    ASSUME NEW S, NEW s \in Seq(S), NEW t \in Seq(S), t # <<>>
    PROVE  /\ Append(s, Head(t)) \in Seq(S) /\ Tail(t) \in Seq(S)
           /\ Append(s, Head(t)) \o Tail(t) = s \o t
<1>1. Head(t) \in S /\ Tail(t) \in Seq(S) /\ Len(Tail(t)) = Len(t) - 1
      /\ \A i \in 1..Len(Tail(t)) : Tail(t)[i] = t[i + 1]
  BY HeadTailProperties
<1>2. Append(s, Head(t)) \in Seq(S) /\ Len(Append(s, Head(t))) = Len(s) + 1
      /\ (\A i \in 1..Len(s) : Append(s, Head(t))[i] = s[i])
      /\ Append(s, Head(t))[Len(s) + 1] = Head(t)
  BY <1>1, AppendProperties
<1>3. Head(t) = t[1]
  OBVIOUS
<1> DEFINE a == Append(s, Head(t))
           b == Tail(t)
<1>4. a \o b \in Seq(S) /\ Len(a \o b) = Len(a) + Len(b)
      /\ \A i \in 1..Len(a) + Len(b) : (a \o b)[i] = IF i <= Len(a) THEN a[i] ELSE b[i - Len(a)]
  BY <1>1, <1>2, ConcatProperties
<1>5. s \o t \in Seq(S) /\ Len(s \o t) = Len(s) + Len(t)
      /\ \A i \in 1..Len(s) + Len(t) : (s \o t)[i] = IF i <= Len(s) THEN s[i] ELSE t[i - Len(s)]
  BY ConcatProperties
<1>6. Len(s) \in Nat /\ Len(t) \in Nat
  BY LenProperties
<1> HIDE DEF a, b
<1>7. Len(a \o b) = Len(s \o t)
  BY <1>1, <1>2, <1>4, <1>5, <1>6 DEF a, b
<1>8. ASSUME NEW i \in 1..Len(a \o b) PROVE (a \o b)[i] = (s \o t)[i]
  <2>1. Len(a) = Len(s) + 1 /\ Len(b) = Len(t) - 1
    BY <1>1, <1>2 DEF a, b
  <2>2. CASE i <= Len(s)
    BY <1>2, <1>4, <1>5, <1>6, <2>1, <2>2 DEF a
  <2>3. CASE i = Len(s) + 1
    BY <1>2, <1>3, <1>4, <1>5, <1>6, <2>1, <2>3 DEF a
  <2>4. CASE i > Len(s) + 1
    <3>1. (a \o b)[i] = b[i - Len(a)] /\ (s \o t)[i] = t[i - Len(s)]
      BY <1>4, <1>5, <1>6, <2>1, <2>4
    <3>2. b[i - Len(a)] = t[(i - Len(a)) + 1]
      BY <1>1, <1>4, <1>6, <2>1, <2>4 DEF b
    <3> QED BY <1>6, <2>1, <3>1, <3>2
  <2> QED BY <1>5, <1>6, <1>7, <2>2, <2>3, <2>4
<1>9. a \o b = s \o t
  BY <1>4, <1>5, <1>7, <1>8, SeqEqual
<1> QED BY <1>1, <1>2, <1>9 DEF a, b
=============================================================================
