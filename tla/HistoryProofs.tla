---------------------------- MODULE HistoryProofs ----------------------------
(***************************************************************************)
(* Theorems about the turn and its history, for any tools, texts and       *)
(* limits: what a turn leaves in the history fits together - every result  *)
(* belongs to a call, every call is answered (Fit) -, the window shown to  *)
(* the model tells what happened, and with the gates of MessageProofs all  *)
(* the server's promises about a message are kept (WaysKept).              *)
(***************************************************************************)
EXTENDS MessageProofs

------------------------------------------------------------------------------
(* The history *)

\* What is taken of a list by places, after each place.
TakenBy(M, h, S, out) ==
    /\ out \in [0..Len(h) -> Seq(M)] /\ out[0] = <<>>
    /\ \A n \in 1..Len(h) : out[n] = IF n \in S THEN Append(out[n - 1], h[n]) ELSE out[n - 1]

LEMMA TakenExists ==
    ASSUME NEW M, NEW h \in Seq(M), NEW S
    PROVE  \E out : TakenBy(M, h, S, out)
<1> DEFINE N == Len(h)
           X == Seq(M)
           e == <<>>
           T == [n \in 1..N |-> [q \in X |-> IF n \in S THEN Append(q, h[n]) ELSE q]]
<1>1. N \in Nat /\ e \in X /\ \A n \in 1..N : h[n] \in M
  BY ElementOfSeq
<1>2. T \in [1..N -> [X -> X]]
  <2>1. \A n \in 1..N, q \in X : (IF n \in S THEN Append(q, h[n]) ELSE q) \in X
    BY <1>1, AppendProperties
  <2> HIDE DEF X
  <2> QED
    BY <2>1
<1>3. PICK out \in [0..N -> X] : Steps(out, N, e, T)
  <2> HIDE DEF T, N, X, e
  <2> QED
    BY <1>1, <1>2, StepsExist
<1>4. ASSUME NEW n \in 1..N PROVE out[n] = IF n \in S THEN Append(out[n - 1], h[n]) ELSE out[n - 1]
  <2>1. out[n] = T[n][out[n - 1]]
    <3> HIDE DEF T, N
    <3> QED
      BY <1>3 DEF Steps
  <2>2. out[n - 1] \in X
    <3>1. n - 1 \in 0..N
      BY <1>1
    <3> HIDE DEF X, N
    <3> QED
      BY <3>1
  <2> HIDE DEF X
  <2> QED
    BY <2>1, <2>2
<1>5. out[0] = <<>>
  BY <1>3 DEF Steps
<1> QED
  BY <1>4, <1>5 DEF TakenBy

\* Functions that take the same steps.
InStep(N, g, h) == \A n \in 1..N : g[n - 1] = h[n - 1] => g[n] = h[n]

LEMMA InStepAgree ==
    ASSUME NEW N \in Nat, NEW g, NEW h, g[0] = h[0], InStep(N, g, h)
    PROVE  \A n \in 0..N : g[n] = h[n]
<1> DEFINE P == {n \in 0..N : g[n] = h[n]}
<1>1. 0 \in P /\ \A n \in 1..N : n - 1 \in P => n \in P
  BY DEF InStep
<1> HIDE DEF P
<1>2. \A n \in 0..N : n \in P
  BY <1>1, CountUp
<1> QED
  BY <1>2 DEF P

\* The same messages, and the same of them taken.
Alike(h, g, S, T) == Len(h) <= Len(g) /\ \A n \in 1..Len(h) : h[n] = g[n] /\ (n \in S <=> n \in T)

TakenAlike(M, h, g, S, T, a, b) ==
    h \in Seq(M) /\ g \in Seq(M) /\ TakenBy(M, h, S, a) /\ TakenBy(M, g, T, b) /\ Alike(h, g, S, T)

LEMMA TakenAgrees ==
    ASSUME NEW M, NEW h, NEW g, NEW S, NEW T, NEW a, NEW b, TakenAlike(M, h, g, S, T, a, b)
    PROVE  \A n \in 0..Len(h) : a[n] = b[n]
<1> DEFINE N == Len(h)
<1> USE DEF TakenAlike
<1>1. N \in Nat /\ Len(g) \in Nat
  OBVIOUS
<1>2. a[0] = b[0]
  BY DEF TakenBy
<1>3. ASSUME NEW n \in 1..N, a[n - 1] = b[n - 1] PROVE a[n] = b[n]
  <2>1. n \in 1..Len(g)
    BY <1>1 DEF Alike
  <2> QED
    BY <1>3, <2>1 DEF TakenBy, Alike
<1>5. InStep(N, a, b)
  BY <1>3 DEF InStep
<1> HIDE DEF N
<1>4. \A n \in 0..N : a[n] = b[n]
  BY <1>1, <1>2, <1>5, InStepAgree
<1> QED
  BY <1>4 DEF N

LEMMA ChosenIs ==
    ASSUME NEW M, NEW h \in Seq(M), NEW S
    PROVE  \E out : TakenBy(M, h, S, out) /\ Hist!Chosen(h, S) = out[Len(h)]
<1> DEFINE N == Len(h)
           Body(out) == [n \in 0..N |-> IF n = 0 THEN <<>> ELSE IF n \in S THEN Append(out[n - 1], h[n]) ELSE out[n - 1]]
<1>1. N \in Nat
  OBVIOUS
<1>2. PICK g : TakenBy(M, h, S, g)
  BY TakenExists
<1>3. g = Body(g)
  <2>1. \A n \in 0..N : g[n] = IF n = 0 THEN <<>> ELSE IF n \in S THEN Append(g[n - 1], h[n]) ELSE g[n - 1]
    <3>1. ASSUME NEW n \in 0..N PROVE g[n] = IF n = 0 THEN <<>> ELSE IF n \in S THEN Append(g[n - 1], h[n]) ELSE g[n - 1]
      <4>1. n = 0 \/ n \in 1..N
        BY <1>1
      <4> QED
        BY <1>1, <1>2, <4>1 DEF TakenBy
    <3> QED
      BY <3>1
  <2>2. g \in [0..N -> Seq(M)]
    BY <1>2 DEF TakenBy
  <2> HIDE DEF N
  <2> QED
    BY <2>1, <2>2
<1>4. PICK f : f = CHOOSE out : out = Body(out)
  OBVIOUS
<1>5. f = Body(f)
  BY <1>3, <1>4
<1>6. Hist!Chosen(h, S) = f[N]
  BY <1>4 DEF Hist!Chosen
<1>7. f[0] = <<>> /\ \A n \in 1..N : f[n] = IF n \in S THEN Append(f[n - 1], h[n]) ELSE f[n - 1]
  <2>1. f[0] = Body(f)[0]
    BY <1>5
  <2>2. ASSUME NEW n \in 1..N PROVE f[n] = IF n \in S THEN Append(f[n - 1], h[n]) ELSE f[n - 1]
    <3>1. f[n] = Body(f)[n]
      BY <1>5
    <3>2. n \in 0..N /\ n # 0
      BY <1>1
    <3> QED
      BY <3>1, <3>2
  <2>3. 0 \in 0..N
    BY <1>1
  <2> QED
    BY <2>1, <2>2, <2>3
<1>8. \A n \in 0..N : f[n] = g[n]
  <2>1. f[0] = g[0]
    BY <1>2, <1>7 DEF TakenBy
  <2>2. InStep(N, f, g)
    BY <1>2, <1>7 DEF TakenBy, InStep
  <2> HIDE DEF N, Body
  <2> QED
    BY <1>1, <2>1, <2>2, InStepAgree
<1>9. N \in 0..N
  BY <1>1
<1> QED
  BY <1>2, <1>6, <1>8, <1>9

LEMMA ChosenSame ==
    ASSUME NEW M, NEW h \in Seq(M), NEW S, NEW T, \A n \in 1..Len(h) : n \in S <=> n \in T
    PROVE  Hist!Chosen(h, S) = Hist!Chosen(h, T) /\ Hist!Chosen(h, S) \in Seq(M)
<1>1. PICK a : TakenBy(M, h, S, a) /\ Hist!Chosen(h, S) = a[Len(h)]
  BY ChosenIs
<1>2. PICK b : TakenBy(M, h, T, b) /\ Hist!Chosen(h, T) = b[Len(h)]
  BY ChosenIs
<1>3. Len(h) \in 0..Len(h)
  OBVIOUS
<1>4. \A n \in 0..Len(h) : a[n] = b[n]
  <2>1. TakenAlike(M, h, h, S, T, a, b)
    BY <1>1, <1>2 DEF Alike, TakenAlike
  <2> QED
    BY <2>1, TakenAgrees
<1> QED
  BY <1>1, <1>2, <1>3, <1>4 DEF TakenBy

\* A message more is taken or not.
LEMMA ChosenMore ==
    ASSUME NEW M, NEW h \in Seq(M), NEW m \in M, NEW S
    PROVE  Hist!Chosen(Append(h, m), S) = IF Len(h) + 1 \in S THEN Append(Hist!Chosen(h, S), m) ELSE Hist!Chosen(h, S)
<1> PICK g : g = Append(h, m)
  OBVIOUS
<1>1. g \in Seq(M) /\ Len(g) = Len(h) + 1 /\ (\A i \in 1..Len(h) : g[i] = h[i]) /\ g[Len(h) + 1] = m /\ Len(h) \in Nat
  BY AppendProperties
<1>2. PICK a : TakenBy(M, h, S, a) /\ Hist!Chosen(h, S) = a[Len(h)]
  BY ChosenIs
<1>3. PICK b : TakenBy(M, g, S, b) /\ Hist!Chosen(g, S) = b[Len(g)]
  BY <1>1, ChosenIs
<1>4. \A n \in 0..Len(h) : a[n] = b[n]
  <2>1. TakenAlike(M, h, g, S, S, a, b)
    BY <1>1, <1>2, <1>3 DEF Alike, TakenAlike
  <2> QED
    BY <2>1, TakenAgrees
<1>5. b[Len(h) + 1] = IF Len(h) + 1 \in S THEN Append(b[Len(h)], m) ELSE b[Len(h)]
  <2>1. Len(h) + 1 \in 1..Len(g) /\ Len(h) + 1 - 1 = Len(h)
    BY <1>1
  <2> QED
    BY <1>1, <1>3, <2>1 DEF TakenBy
<1>6. a[Len(h)] = b[Len(h)]
  BY <1>1, <1>4
<1> QED
  BY <1>1, <1>2, <1>3, <1>5, <1>6

LEMMA ChosenNone ==
    ASSUME NEW S
    PROVE  Hist!Chosen(<<>>, S) = <<>>
<1>1. <<>> \in Seq({}) /\ Len(<<>>) = 0
  OBVIOUS
<1>2. PICK a : TakenBy({}, <<>>, S, a) /\ Hist!Chosen(<<>>, S) = a[Len(<<>>)]
  BY <1>1, ChosenIs
<1> QED
  BY <1>1, <1>2 DEF TakenBy

------------------------------------------------------------------------------
AnyMessage == [role : {"user", "assistant", "tool", "system", "none"}, text : Texts \cup {NoText}, calls : SUBSET Ids,
               results : SUBSET Ids, size : Nat]
\* No message has both calls and results.
Messages == {m \in AnyMessage : m.calls = {} \/ m.results = {}}
Folds == {s \in [out : Seq(Messages), pending : SUBSET Ids, start : Nat] : s.start <= Len(s.out)}
NothingKept == [out |-> <<>>, pending |-> {}, start |-> 0]

\* The sanitiser, message by message.
KeptBy(h, kept) ==
    /\ kept \in [0..Len(h) -> Folds] /\ kept[0] = NothingKept
    /\ \A n \in 1..Len(h) : kept[n] = Hist!Keep(kept[n - 1], h[n])

LEMMA ClosedIs ==
    ASSUME NEW s \in Folds
    PROVE  Hist!Closed(s) \in Seq(Messages) /\ Len(Hist!Closed(s)) \in Nat
           /\ (s.start = 0 => Hist!Closed(s) = s.out)
           /\ (s.start # 0 => /\ Len(Hist!Closed(s)) = s.start - 1
                              /\ \A i \in 1..s.start - 1 : Hist!Closed(s)[i] = s.out[i])
<1>1. s.out \in Seq(Messages) /\ s.start \in Nat /\ s.start <= Len(s.out) /\ Len(s.out) \in Nat
  BY DEF Folds
<1>2. CASE s.start = 0
  BY <1>1, <1>2 DEF Hist!Closed
<1>3. CASE s.start # 0
  <2>1. s.start - 1 \in 1 - 1..Len(s.out) /\ 1 \in Nat \ {0} /\ s.start - 1 \in Nat
    BY <1>1, <1>3
  <2> PICK q : q = s.out
    OBVIOUS
  <2> PICK k \in Nat : k = s.start - 1
    BY <2>1
  <2>2. /\ SubSeq(q, 1, k) \in Seq(Messages) /\ Len(SubSeq(q, 1, k)) = k - 1 + 1
        /\ \A i \in 1..k - 1 + 1 : SubSeq(q, 1, k)[i] = q[1 + i - 1]
    <3>1. q \in Seq(Messages) /\ k \in 1 - 1..Len(q) /\ 1 \in Nat \ {0}
      BY <1>1, <2>1
    <3> QED
      BY <3>1, PartOf
  <2>3. Hist!Closed(s) = SubSeq(q, 1, k)
    BY <1>3 DEF Hist!Closed
  <2>4. k - 1 + 1 = k /\ \A i \in 1..k : 1 + i - 1 = i
    OBVIOUS
  <2>5. Len(SubSeq(q, 1, k)) = k /\ \A i \in 1..k : SubSeq(q, 1, k)[i] = q[i]
    BY <2>2, <2>4
  <2> QED
    BY <1>3, <2>2, <2>3, <2>5
<1> QED
  BY <1>2, <1>3

LEMMA KeepIsFold ==
    ASSUME NEW s \in Folds, NEW m \in Messages
    PROVE  Hist!Keep(s, m) \in Folds
<1> PICK c : c = Hist!Closed(s)
  OBVIOUS
<1>1. c \in Seq(Messages) /\ Len(c) \in Nat
  BY ClosedIs
<1>2. Append(c, m) \in Seq(Messages) /\ Len(Append(c, m)) = Len(c) + 1
  BY <1>1, AppendProperties
<1>3. s.out \in Seq(Messages) /\ s.start \in Nat /\ s.start <= Len(s.out) /\ s.pending \subseteq Ids /\ m.calls \subseteq Ids
  BY DEF Folds, Messages, AnyMessage
<1>4. Append(s.out, m) \in Seq(Messages) /\ Len(Append(s.out, m)) = Len(s.out) + 1 /\ Len(s.out) \in Nat
  BY <1>3, AppendProperties
<1>5. CASE m.calls # {}
  <2>1. Hist!Keep(s, m) = [out |-> Append(c, m), pending |-> m.calls, start |-> Len(c) + 1]
    BY <1>5 DEF Hist!Keep
  <2> QED
    BY <1>1, <1>2, <1>3, <2>1 DEF Folds
<1>6. CASE m.calls = {} /\ m.results # {} /\ s.start = 0
  <2>1. Hist!Keep(s, m) = s
    BY <1>6 DEF Hist!Keep
  <2> QED
    BY <2>1
<1>7. CASE m.calls = {} /\ m.results # {} /\ s.start # 0
  <2> PICK left : left = s.pending \ m.results
    OBVIOUS
  <2>1. Hist!Keep(s, m) = [out |-> Append(s.out, m), pending |-> left, start |-> IF left = {} THEN 0 ELSE s.start]
    BY <1>7 DEF Hist!Keep
  <2>2. left \subseteq Ids
    BY <1>3
  <2> QED
    BY <1>3, <1>4, <2>1, <2>2 DEF Folds
<1>8. CASE m.calls = {} /\ m.results = {}
  <2>1. Hist!Keep(s, m) = [out |-> Append(c, m), pending |-> {}, start |-> 0]
    BY <1>8 DEF Hist!Keep
  <2> QED
    BY <1>2, <2>1 DEF Folds
<1> QED
  BY <1>5, <1>6, <1>7, <1>8

LEMMA KeptIs ==
    ASSUME NEW h \in Seq(Messages)
    PROVE  \E kept : KeptBy(h, kept) /\ Hist!SanitizeToolHistory(h) = Hist!Closed(kept[Len(h)])
<1> DEFINE N == Len(h)
           T == [n \in 1..N |-> [s \in Folds |-> Hist!Keep(s, h[n])]]
           Body(kept) == [n \in 0..N |-> IF n = 0 THEN NothingKept ELSE Hist!Keep(kept[n - 1], h[n])]
<1>1. N \in Nat /\ \A n \in 1..N : h[n] \in Messages
  BY ElementOfSeq
<1>2. NothingKept \in Folds
  BY DEF NothingKept, Folds
<1>3. T \in [1..N -> [Folds -> Folds]]
  <2>1. \A n \in 1..N, s \in Folds : Hist!Keep(s, h[n]) \in Folds
    BY <1>1, KeepIsFold
  <2> HIDE DEF N
  <2> QED
    BY <2>1
<1>4. PICK g \in [0..N -> Folds] : Steps(g, N, NothingKept, T)
  <2> HIDE DEF T, N
  <2> QED
    BY <1>1, <1>2, <1>3, StepsExist
<1>5. ASSUME NEW n \in 1..N PROVE g[n] = Hist!Keep(g[n - 1], h[n])
  <2>1. g[n] = T[n][g[n - 1]]
    <3> HIDE DEF T, N
    <3> QED
      BY <1>4 DEF Steps
  <2>2. g[n - 1] \in Folds
    <3>1. n - 1 \in 0..N
      BY <1>1
    <3> HIDE DEF N
    <3> QED
      BY <3>1
  <2> QED
    BY <2>1, <2>2
<1>6. g[0] = NothingKept
  BY <1>4 DEF Steps
<1>7. g = Body(g)
  <2>1. \A n \in 0..N : g[n] = IF n = 0 THEN NothingKept ELSE Hist!Keep(g[n - 1], h[n])
    <3>1. \A n \in 0..N : n = 0 \/ n \in 1..N
      BY <1>1
    <3> QED
      BY <1>5, <1>6, <3>1
  <2> HIDE DEF N
  <2> QED
    BY <2>1
<1>8. PICK f : f = CHOOSE kept : kept = Body(kept)
  OBVIOUS
<1>9. f = Body(f)
  BY <1>7, <1>8
<1>10. Hist!SanitizeToolHistory(h) = Hist!Closed(f[N])
  BY <1>8 DEF Hist!SanitizeToolHistory, NothingKept
<1>11. f[0] = NothingKept /\ \A n \in 1..N : f[n] = Hist!Keep(f[n - 1], h[n])
  <2>1. f[0] = Body(f)[0]
    BY <1>9
  <2>2. ASSUME NEW n \in 1..N PROVE f[n] = Hist!Keep(f[n - 1], h[n])
    <3>1. f[n] = Body(f)[n]
      BY <1>9
    <3>2. n \in 0..N /\ n # 0
      BY <1>1
    <3> QED
      BY <3>1, <3>2
  <2>3. 0 \in 0..N
    BY <1>1
  <2> QED
    BY <2>1, <2>2, <2>3
<1>12. \A n \in 0..N : f[n] = g[n]
  <2>1. f[0] = g[0] /\ InStep(N, f, g)
    BY <1>5, <1>6, <1>11 DEF InStep
  <2> HIDE DEF N, Body
  <2> QED
    BY <1>1, <2>1, InStepAgree
<1>13. Hist!SanitizeToolHistory(h) = Hist!Closed(g[N])
  <2>1. N \in 0..N
    BY <1>1
  <2> QED
    BY <1>10, <1>12, <2>1
<1> QED
  BY <1>5, <1>6, <1>13 DEF KeptBy

\* What follows u up to n are results, of the calls of u.
Unit(h, u, n) == h[u].calls # {} /\ \A k \in u + 1..n : h[k].results # {}

\* A result belongs to the calls right before it and none has been given twice, or it has lost its calls with all before it.
FitAt(h, j) ==
    \/ h[j].results = {}
    \/ \A k \in 1..j - 1 : h[k].results # {}
    \/ \E u \in 1..j - 1 : /\ Unit(h, u, j - 1) /\ h[j].results \subseteq h[u].calls
                           /\ \A k \in u + 1..j - 1 : h[k].results \cap h[j].results = {}
Fit(h) == \A j \in 1..Len(h) : FitAt(h, j)

Answered(h, u) == UNION {h[k].results : k \in u + 1..Len(h)}

KeptOf(h) ==
    {i \in 1..Len(h) :
        IF h[i].calls # {} THEN Hist!Complete(h, i)
        ELSE h[i].results # {} => \E u \in 1..i - 1 : Hist!Complete(h, u) /\ i \in Hist!ResultsAfter(h, u)}

LEMMA WholeIs ==
    ASSUME NEW h \in Seq(Messages)
    PROVE  Hist!Whole(h) = Hist!Chosen(h, KeptOf(h)) /\ Hist!Whole(h) \in Seq(Messages)
<1>1. DOMAIN h = 1..Len(h)
  BY LenProperties
<1>2. Hist!Whole(h) = Hist!Chosen(h, KeptOf(h))
  BY <1>1 DEF Hist!Whole, KeptOf
<1>3. Hist!Chosen(h, KeptOf(h)) \in Seq(Messages)
  <2>1. \A n \in 1..Len(h) : n \in KeptOf(h) <=> n \in KeptOf(h)
    OBVIOUS
  <2> QED
    BY <2>1, ChosenSame
<1> QED
  BY <1>2, <1>3

\* The list g is h with m behind it.
Longer(h, m, g) ==
    /\ h \in Seq(Messages) /\ m \in Messages /\ g = Append(h, m) /\ g \in Seq(Messages) /\ Len(h) \in Nat /\ Len(g) = Len(h) + 1
    /\ (\A i \in 1..Len(h) : g[i] = h[i] /\ h[i] \in Messages) /\ g[Len(h) + 1] = m

LEMMA LongerIs ==
    ASSUME NEW h \in Seq(Messages), NEW m \in Messages
    PROVE  Longer(h, m, Append(h, m))
BY AppendProperties, ElementOfSeq DEF Longer

LEMMA AfterMore ==
    ASSUME NEW h, NEW m, NEW g, Longer(h, m, g), NEW i \in 1..Len(h)
    PROVE  Hist!ResultsAfter(g, i) =
               IF m.results # {} /\ \A k \in i + 1..Len(h) : h[k].results # {}
               THEN Hist!ResultsAfter(h, i) \cup {Len(h) + 1} ELSE Hist!ResultsAfter(h, i)
<1> DEFINE n == Len(h)
<1>1. n \in Nat /\ Len(g) = n + 1 /\ (\A k \in 1..n : g[k] = h[k]) /\ g[n + 1] = m
  BY DEF Longer
<1>2. ASSUME NEW j \in i + 1..n PROVE j \in Hist!ResultsAfter(g, i) <=> j \in Hist!ResultsAfter(h, i)
  <2>1. \A k \in i + 1..j : k \in 1..n
    BY <1>1
  <2>2. j \in i + 1..Len(g)
    BY <1>1
  <2> HIDE DEF n
  <2> QED
    BY <1>1, <2>1, <2>2 DEF Hist!ResultsAfter, n
<1>3. n + 1 \in Hist!ResultsAfter(g, i) <=> m.results # {} /\ \A k \in i + 1..n : h[k].results # {}
  <2>1. i + 1..n + 1 = (i + 1..n) \cup {n + 1} /\ n + 1 \in i + 1..Len(g)
    BY <1>1
  <2>2. \A k \in i + 1..n : k \in 1..n
    BY <1>1
  <2> HIDE DEF n
  <2>3. n + 1 \in Hist!ResultsAfter(g, i) <=> \A k \in i + 1..n + 1 : g[k].results # {}
    BY <1>1, <2>1 DEF Hist!ResultsAfter
  <2> QED
    BY <1>1, <2>1, <2>2, <2>3
<1>4. Hist!ResultsAfter(g, i) \subseteq (i + 1..n) \cup {n + 1}
  BY <1>1 DEF Hist!ResultsAfter
<1>5. Hist!ResultsAfter(h, i) \subseteq i + 1..n
  BY DEF Hist!ResultsAfter
<1> HIDE DEF n
<1>6. \A j : j \in Hist!ResultsAfter(g, i) <=> j \in Hist!ResultsAfter(h, i) \/ (j = n + 1 /\ n + 1 \in Hist!ResultsAfter(g, i))
  <2>1. n + 1 \notin i + 1..n
    BY <1>1
  <2> QED
    BY <1>2, <1>4, <1>5, <2>1
<1> QED
  BY <1>3, <1>6 DEF n

\* The unit at the end.
LEMMA UnitAtEnd ==
    ASSUME NEW h, NEW u \in 1..Len(h), Unit(h, u, Len(h))
    PROVE  /\ Hist!ResultsAfter(h, u) = u + 1..Len(h)
           /\ Hist!Complete(h, u) <=> h[u].calls \subseteq Answered(h, u)
<1>1. Hist!ResultsAfter(h, u) = u + 1..Len(h)
  <2>1. ASSUME NEW j \in u + 1..Len(h), NEW k \in u + 1..j PROVE k \in u + 1..Len(h)
    OBVIOUS
  <2> QED
    BY <2>1 DEF Hist!ResultsAfter, Unit
<1> QED
  BY <1>1 DEF Hist!Complete, Answered, Unit

LEMMA OneUnit ==
    ASSUME NEW h \in Seq(Messages), NEW u \in 1..Len(h), Unit(h, u, Len(h)), NEW i \in 1..Len(h), i # u, h[i].calls # {}
    PROVE  ~\A k \in i + 1..Len(h) : h[k].results # {}
<1>1. Len(h) \in Nat /\ h[u].results = {} /\ h[i].results = {}
  <2>1. h[u] \in Messages /\ h[i] \in Messages /\ Len(h) \in Nat
    BY ElementOfSeq
  <2> QED
    BY <2>1 DEF Messages, Unit
<1>2. CASE i < u
  <2>1. u \in i + 1..Len(h)
    BY <1>1, <1>2
  <2> QED
    BY <1>1, <2>1
<1>3. CASE i > u
  <2>1. i \in u + 1..Len(h)
    BY <1>1, <1>3
  <2> QED
    BY <1>1, <2>1 DEF Unit
<1> QED
  BY <1>2, <1>3

\* What is complete is found before the end.
LEMMA CompleteMore ==
    ASSUME NEW h, NEW m, NEW g, Longer(h, m, g), NEW i \in 1..Len(h), Hist!ResultsAfter(g, i) = Hist!ResultsAfter(h, i)
    PROVE  Hist!Complete(g, i) <=> Hist!Complete(h, i)
<1>1. \A j \in Hist!ResultsAfter(h, i) : g[j] = h[j]
  <2>1. \A j \in Hist!ResultsAfter(h, i) : j \in 1..Len(h)
    BY DEF Hist!ResultsAfter
  <2> QED
    BY <2>1 DEF Longer
<1>2. g[i] = h[i]
  BY DEF Longer
<1>3. {g[j].results : j \in Hist!ResultsAfter(g, i)} = {h[j].results : j \in Hist!ResultsAfter(h, i)}
  BY <1>1
<1> QED
  BY <1>2, <1>3 DEF Hist!Complete

InUnitOf(h, i) == \E u \in 1..i - 1 : Hist!Complete(h, u) /\ i \in Hist!ResultsAfter(h, u)

LEMMA KeptIsOne ==
    ASSUME NEW h, NEW i \in 1..Len(h)
    PROVE  i \in KeptOf(h) <=> IF h[i].calls # {} THEN Hist!Complete(h, i) ELSE h[i].results # {} => InUnitOf(h, i)
BY DEF KeptOf, InUnitOf

\* A message that is no result.
LEMMA KeptPlain ==
    ASSUME NEW h, NEW m, NEW g, Longer(h, m, g), m.results = {}
    PROVE  /\ \A i \in 1..Len(h) : i \in KeptOf(g) <=> i \in KeptOf(h)
           /\ Len(h) + 1 \in KeptOf(g) <=> m.calls = {}
<1>1. \A i \in 1..Len(h) : Hist!ResultsAfter(g, i) = Hist!ResultsAfter(h, i)
  BY AfterMore
<1>2. \A i \in 1..Len(h) : Hist!Complete(g, i) <=> Hist!Complete(h, i)
  BY <1>1, CompleteMore
<1>3. Len(h) \in Nat /\ Len(g) = Len(h) + 1 /\ g[Len(h) + 1] = m /\ \A i \in 1..Len(h) : g[i] = h[i]
  BY DEF Longer
<1>4. ASSUME NEW i \in 1..Len(h) PROVE InUnitOf(g, i) <=> InUnitOf(h, i)
  <2>1. \A u \in 1..i - 1 : u \in 1..Len(h)
    BY <1>3
  <2> QED
    BY <1>1, <1>2, <2>1 DEF InUnitOf
<1>5. ASSUME NEW i \in 1..Len(h) PROVE i \in KeptOf(g) <=> i \in KeptOf(h)
  <2>1. i \in 1..Len(g)
    BY <1>3
  <2>2. i \in KeptOf(g) <=> IF g[i].calls # {} THEN Hist!Complete(g, i) ELSE g[i].results # {} => InUnitOf(g, i)
    BY <2>1, KeptIsOne
  <2>3. i \in KeptOf(h) <=> IF h[i].calls # {} THEN Hist!Complete(h, i) ELSE h[i].results # {} => InUnitOf(h, i)
    BY KeptIsOne
  <2> QED
    BY <1>2, <1>3, <1>4, <2>2, <2>3
<1>6. Len(h) + 1 \in KeptOf(g) <=> m.calls = {}
  <2> PICK n : n = Len(h) + 1
    OBVIOUS
  <2>1. n \in 1..Len(g) /\ g[n] = m /\ n + 1..Len(g) = {}
    BY <1>3
  <2>2. m.calls # {} => ~Hist!Complete(g, n)
    <3>1. Hist!ResultsAfter(g, n) = {}
      BY <2>1 DEF Hist!ResultsAfter
    <3> QED
      BY <2>1, <3>1 DEF Hist!Complete
  <2>3. n \in KeptOf(g) <=> IF m.calls # {} THEN Hist!Complete(g, n) ELSE m.results # {} => InUnitOf(g, n)
    BY <2>1, KeptIsOne
  <2> QED
    BY <2>2, <2>3
<1> QED
  BY <1>5, <1>6

\* A result that has lost its calls.
LEMMA KeptLost ==
    ASSUME NEW h, NEW m, NEW g, Longer(h, m, g), m.results # {}, \A u \in 1..Len(h) : ~Unit(h, u, Len(h))
    PROVE  \A i \in 1..Len(h) + 1 : i \in KeptOf(g) <=> i \in KeptOf(h)
<1>1. Len(h) \in Nat /\ Len(g) = Len(h) + 1 /\ g[Len(h) + 1] = m /\ (\A i \in 1..Len(h) : g[i] = h[i]) /\ m.calls = {}
  BY DEF Longer, Messages
<1>2. ASSUME NEW i \in 1..Len(h), h[i].calls # {} PROVE Hist!ResultsAfter(g, i) = Hist!ResultsAfter(h, i)
  <2>1. ~\A k \in i + 1..Len(h) : h[k].results # {}
    BY <1>2 DEF Unit
  <2> QED
    BY <2>1, AfterMore
<1>3. \A i \in 1..Len(h) : Hist!Complete(g, i) <=> Hist!Complete(h, i)
  <2>1. \A i \in 1..Len(h) : h[i].calls # {} => (Hist!Complete(g, i) <=> Hist!Complete(h, i))
    BY <1>2, CompleteMore
  <2> QED
    BY <1>1, <2>1 DEF Hist!Complete
<1>4. \A u \in 1..Len(h) : Hist!Complete(g, u) => Hist!ResultsAfter(g, u) = Hist!ResultsAfter(h, u)
  BY <1>1, <1>2 DEF Hist!Complete
<1>5. ASSUME NEW i \in 1..Len(h) + 1 PROVE InUnitOf(g, i) <=> InUnitOf(h, i)
  <2>1. \A u \in 1..i - 1 : u \in 1..Len(h)
    BY <1>1
  <2> QED
    BY <1>3, <1>4, <2>1 DEF InUnitOf
<1>6. ASSUME NEW i \in 1..Len(h) PROVE i \in KeptOf(g) <=> i \in KeptOf(h)
  <2>1. i \in 1..Len(g) /\ i \in 1..Len(h) + 1
    BY <1>1
  <2>2. i \in KeptOf(g) <=> IF g[i].calls # {} THEN Hist!Complete(g, i) ELSE g[i].results # {} => InUnitOf(g, i)
    BY <2>1, KeptIsOne
  <2>3. i \in KeptOf(h) <=> IF h[i].calls # {} THEN Hist!Complete(h, i) ELSE h[i].results # {} => InUnitOf(h, i)
    BY KeptIsOne
  <2>4. InUnitOf(g, i) <=> InUnitOf(h, i)
    BY <1>5, <2>1
  <2> QED
    BY <1>1, <1>3, <2>2, <2>3, <2>4
<1>7. Len(h) + 1 \notin KeptOf(g) /\ Len(h) + 1 \notin KeptOf(h)
  <2> PICK n : n = Len(h) + 1
    OBVIOUS
  <2>1. n \in 1..Len(g) /\ n \in 1..Len(h) + 1 /\ g[n] = m /\ n \notin 1..Len(h)
    BY <1>1
  <2>2. n \in KeptOf(g) <=> IF g[n].calls # {} THEN Hist!Complete(g, n) ELSE g[n].results # {} => InUnitOf(g, n)
    BY <2>1, KeptIsOne
  <2>3. ~InUnitOf(h, n)
    <3>1. \A u : n \notin Hist!ResultsAfter(h, u)
      BY <1>1 DEF Hist!ResultsAfter
    <3> QED
      BY <3>1 DEF InUnitOf
  <2>4. ~InUnitOf(g, n)
    BY <1>5, <2>1, <2>3
  <2>5. n \notin KeptOf(h)
    BY <2>1 DEF KeptOf
  <2> QED
    BY <1>1, <2>1, <2>2, <2>4, <2>5
<1>8. \A i \in 1..Len(h) + 1 : i \in 1..Len(h) \/ i = Len(h) + 1
  BY <1>1
<1> QED
  BY <1>6, <1>7, <1>8

\* A result of the unit at the end.
LEMMA KeptResult ==
    ASSUME NEW h, NEW m, NEW g, Longer(h, m, g), m.results # {}, NEW u \in 1..Len(h), Unit(h, u, Len(h))
    PROVE  /\ Unit(g, u, Len(g)) /\ Answered(g, u) = Answered(h, u) \cup m.results
           /\ \A i \in 1..Len(h) + 1 :
                  i \in KeptOf(g) <=> i \in KeptOf(h) \/ (h[u].calls \subseteq Answered(h, u) \cup m.results /\ i \in u..Len(h) + 1)
<1> DEFINE n == Len(h)
           full == h[u].calls \subseteq Answered(h, u) \cup m.results
<1>1. n \in Nat /\ Len(g) = n + 1 /\ g[n + 1] = m /\ (\A i \in 1..n : g[i] = h[i] /\ h[i] \in Messages) /\ m.calls = {}
      /\ h \in Seq(Messages)
  BY DEF Longer, Messages
<1>2. u + 1..n + 1 = (u + 1..n) \cup {n + 1} /\ (\A k \in u + 1..n : k \in 1..n) /\ u \in 1..n + 1
  BY <1>1
<1>3. Unit(g, u, Len(g))
  <2> HIDE DEF n
  <2>1. \A k \in u + 1..n + 1 : g[k].results # {}
    BY <1>1, <1>2 DEF Unit, n
  <2>2. g[u].calls # {}
    BY <1>1 DEF Unit, n
  <2> QED
    BY <1>1, <2>1, <2>2 DEF Unit
<1>4. Answered(g, u) = Answered(h, u) \cup m.results
  <2> HIDE DEF n
  <2>1. {g[k].results : k \in u + 1..n + 1} = {h[k].results : k \in u + 1..n} \cup {m.results}
    BY <1>1, <1>2
  <2> QED
    BY <1>1, <2>1 DEF Answered, n
<1>5. Hist!Complete(g, u) <=> full
  <2>1. u \in 1..Len(g) /\ g[u] = h[u]
    BY <1>1, <1>2
  <2>2. Hist!Complete(g, u) <=> g[u].calls \subseteq Answered(g, u)
    BY <1>3, <2>1, UnitAtEnd
  <2> QED
    BY <1>4, <2>1, <2>2
<1>6. Hist!Complete(h, u) => full
  BY UnitAtEnd
<1>7. ASSUME NEW v \in 1..n, v # u, h[v].calls # {} PROVE Hist!ResultsAfter(g, v) = Hist!ResultsAfter(h, v)
  <2>1. ~\A k \in v + 1..Len(h) : h[k].results # {}
    BY <1>1, <1>7, OneUnit
  <2> QED
    BY <2>1, AfterMore
<1>8. \A v \in 1..n : v # u => (Hist!Complete(g, v) <=> Hist!Complete(h, v))
  <2>1. \A v \in 1..n : v # u /\ h[v].calls # {} => (Hist!Complete(g, v) <=> Hist!Complete(h, v))
    BY <1>7, CompleteMore
  <2> QED
    BY <1>1, <2>1 DEF Hist!Complete
<1>9. Hist!ResultsAfter(g, u) = u + 1..n + 1 /\ Hist!ResultsAfter(h, u) = u + 1..n
  <2>1. u \in 1..Len(g)
    BY <1>1, <1>2
  <2> QED
    BY <1>1, <1>3, <2>1, UnitAtEnd
<1> HIDE DEF n
<1>10. ASSUME NEW i \in 1..n + 1 PROVE InUnitOf(g, i) <=> InUnitOf(h, i) \/ (full /\ i \in u + 1..n + 1)
  <2>1. \A v \in 1..i - 1 : v \in 1..n
    BY <1>1
  <2>2. ASSUME NEW v \in 1..i - 1, Hist!Complete(g, v), i \in Hist!ResultsAfter(g, v)
        PROVE  InUnitOf(h, i) \/ (full /\ i \in u + 1..n + 1)
    <3>1. CASE v = u
      BY <1>5, <1>9, <2>2, <3>1
    <3>2. CASE v # u
      <4>1. g[v].calls # {} /\ g[v] = h[v] /\ v \in 1..n
        BY <1>1, <2>1, <2>2 DEF Hist!Complete
      <4>2. Hist!Complete(h, v) /\ i \in Hist!ResultsAfter(h, v)
        BY <1>7, <1>8, <2>2, <3>2, <4>1
      <4> QED
        BY <4>2 DEF InUnitOf
    <3> QED
      BY <3>1, <3>2
  <2>3. ASSUME NEW v \in 1..i - 1, Hist!Complete(h, v), i \in Hist!ResultsAfter(h, v)
        PROVE  InUnitOf(g, i)
    <3>1. CASE v = u
      <4>1. i \in u + 1..n + 1
        BY <1>2, <1>9, <2>3, <3>1
      <4> QED
        BY <1>5, <1>6, <1>9, <2>3, <3>1, <4>1 DEF InUnitOf
    <3>2. CASE v # u
      <4>1. h[v].calls # {} /\ v \in 1..n
        BY <2>1, <2>3 DEF Hist!Complete
      <4>2. Hist!Complete(g, v) /\ i \in Hist!ResultsAfter(g, v)
        BY <1>7, <1>8, <2>3, <3>2, <4>1
      <4> QED
        BY <4>2 DEF InUnitOf
    <3> QED
      BY <3>1, <3>2
  <2>4. ASSUME full, i \in u + 1..n + 1 PROVE InUnitOf(g, i)
    <3>1. u \in 1..i - 1
      BY <1>1, <2>4
    <3> QED
      BY <1>5, <1>9, <2>4, <3>1 DEF InUnitOf
  <2> QED
    BY <2>2, <2>3, <2>4 DEF InUnitOf
<1>11. h[u].calls # {} /\ \A k \in u + 1..n : h[k].calls = {} /\ h[k].results # {}
  BY <1>1, <1>2 DEF Unit, Messages, n
<1>12. ASSUME NEW i \in 1..n + 1 PROVE i \in KeptOf(g) <=> i \in KeptOf(h) \/ (full /\ i \in u..n + 1)
  <2>1. i \in KeptOf(g) <=> IF g[i].calls # {} THEN Hist!Complete(g, i) ELSE g[i].results # {} => InUnitOf(g, i)
    BY <1>1, KeptIsOne
  <2>2. CASE i = n + 1
    <3>1. i \notin KeptOf(h) /\ g[i] = m
      BY <1>1, <2>2 DEF KeptOf, n
    <3>2. ~InUnitOf(h, i)
      <4>1. \A v : i \notin Hist!ResultsAfter(h, v)
        BY <1>1, <2>2 DEF Hist!ResultsAfter, n
      <4> QED
        BY <4>1 DEF InUnitOf
    <3>3. i \in u..n + 1 /\ i \in u + 1..n + 1
      BY <1>1, <1>2, <2>2
    <3> QED
      BY <1>1, <1>10, <2>1, <3>1, <3>2, <3>3
  <2>3. CASE i # n + 1
    <3>1. i \in 1..n /\ g[i] = h[i]
      BY <1>1, <2>3
    <3>2. i \in KeptOf(h) <=> IF h[i].calls # {} THEN Hist!Complete(h, i) ELSE h[i].results # {} => InUnitOf(h, i)
      BY <3>1, KeptIsOne DEF n
    <3>3. CASE i = u
      <4>1. i \in u..n + 1
        BY <1>1, <3>3
      <4> QED
        BY <1>5, <1>6, <1>11, <2>1, <3>1, <3>2, <3>3, <4>1
    <3>4. CASE i # u /\ h[i].calls # {}
      <4>1. i \notin u..n + 1
        <5>1. i \notin u + 1..n
          BY <1>11, <3>4
        <5> QED
          BY <1>1, <3>1, <3>4, <5>1
      <4> QED
        BY <1>8, <2>1, <3>1, <3>2, <3>4, <4>1
    <3>5. CASE i # u /\ h[i].calls = {}
      <4>1. i \in u..n + 1 <=> i \in u + 1..n + 1
        BY <1>1, <3>1, <3>5
      <4>2. i \in u + 1..n + 1 => h[i].results # {}
        BY <1>1, <1>11, <3>1
      <4> QED
        BY <1>10, <2>1, <3>1, <3>2, <3>5, <4>1, <4>2
    <3> QED
      BY <3>3, <3>4, <3>5
  <2> QED
    BY <2>2, <2>3
<1> QED
  BY <1>3, <1>4, <1>12 DEF n

\* What the sanitiser has is what is whole so far, and what there is of the unit at the end.
SaneShut(s, h) ==
    s.start = 0 /\ s.out = Hist!Chosen(h, KeptOf(h)) /\ \A u \in 1..Len(h) : Unit(h, u, Len(h)) => h[u].calls \subseteq Answered(h, u)

SaneOpen(s, h, u) ==
    /\ s.start # 0 /\ Unit(h, u, Len(h)) /\ s.out[s.start] = h[u]
    /\ s.pending = h[u].calls \ Answered(h, u) /\ s.pending # {}
    /\ Hist!Closed(s) = Hist!Chosen(h, KeptOf(h)) /\ s.out = Hist!Chosen(h, KeptOf(h) \cup (u..Len(h)))

Sane(s, h) == SaneShut(s, h) \/ \E u \in 1..Len(h) : SaneOpen(s, h, u)

LEMMA ChosenLonger ==
    ASSUME NEW h, NEW m, NEW g, Longer(h, m, g), NEW S, NEW T, \A i \in 1..Len(h) : i \in T <=> i \in S
    PROVE  Hist!Chosen(g, T) = IF Len(h) + 1 \in T THEN Append(Hist!Chosen(h, S), m) ELSE Hist!Chosen(h, S)
<1>1. h \in Seq(Messages) /\ m \in Messages /\ g = Append(h, m)
  BY DEF Longer
<1>2. Hist!Chosen(h, T) = Hist!Chosen(h, S)
  BY <1>1, ChosenSame
<1> QED
  BY <1>1, <1>2, ChosenMore

LEMMA ClosedSame ==
    ASSUME NEW s \in Folds, NEW t \in Folds, s.start = t.start, s.start # 0, \A i \in 1..s.start - 1 : s.out[i] = t.out[i]
    PROVE  Hist!Closed(s) = Hist!Closed(t)
<1> PICK a, b : a = Hist!Closed(s) /\ b = Hist!Closed(t)
  OBVIOUS
<1>1. a \in Seq(Messages) /\ Len(a) = s.start - 1 /\ \A i \in 1..s.start - 1 : a[i] = s.out[i]
  BY ClosedIs
<1>2. b \in Seq(Messages) /\ Len(b) = s.start - 1 /\ \A i \in 1..s.start - 1 : b[i] = t.out[i]
  BY ClosedIs
<1>3. Len(a) = Len(b) /\ \A i \in 1..Len(a) : a[i] = b[i]
  BY <1>1, <1>2
<1> QED
  BY <1>1, <1>2, <1>3, SeqEqual

LEMMA ClosedAtZero ==
    ASSUME NEW out, NEW t, t = [out |-> out, pending |-> {}, start |-> 0]
    PROVE  Hist!Closed(t) = out /\ t.start = 0
<1>1. t.out = out /\ t.start = 0
  OBVIOUS
<1> QED
  BY <1>1 DEF Hist!Closed

LEMMA SaneCall ==
    ASSUME NEW h, NEW m, NEW g, Longer(h, m, g), NEW s \in Folds, Sane(s, h), m.calls # {}
    PROVE  Sane(Hist!Keep(s, m), g)
<1> PICK c : c = Hist!Closed(s)
  OBVIOUS
<1> PICK t : t = Hist!Keep(s, m)
  OBVIOUS
<1> PICK n : n = Len(h) + 1
  OBVIOUS
<1>1. c \in Seq(Messages) /\ Len(c) \in Nat /\ m \in Messages /\ m.results = {} /\ n \in Nat /\ n = Len(g) /\ g[n] = m /\ n \in 1..n
  <2>1. c \in Seq(Messages) /\ Len(c) \in Nat
    BY ClosedIs
  <2>2. Len(h) \in Nat /\ Len(g) = Len(h) + 1 /\ g[Len(h) + 1] = m /\ m \in Messages
    BY DEF Longer
  <2>3. m.results = {}
    BY <2>2 DEF Messages
  <2> QED
    BY <2>1, <2>2, <2>3
<1>2. c = Hist!Chosen(h, KeptOf(h))
  BY ClosedIs DEF Sane, SaneShut, SaneOpen
<1>3. t = [out |-> Append(c, m), pending |-> m.calls, start |-> Len(c) + 1] /\ t \in Folds
  BY <1>1, KeepIsFold DEF Hist!Keep
<1>4. t.out = Append(c, m) /\ t.pending = m.calls /\ t.start = Len(c) + 1
  BY <1>3
<1>5. /\ Append(c, m) \in Seq(Messages) /\ Len(Append(c, m)) = Len(c) + 1 /\ Append(c, m)[Len(c) + 1] = m
      /\ \A i \in 1..Len(c) : Append(c, m)[i] = c[i]
  BY <1>1, AppendProperties
<1>6. Hist!Closed(t) = c
  <2> PICK d : d = Hist!Closed(t)
    OBVIOUS
  <2>1. d \in Seq(Messages) /\ Len(d) = Len(c) /\ \A i \in 1..Len(c) : d[i] = t.out[i]
    <3>1. t.start # 0 /\ t.start - 1 = Len(c)
      BY <1>1, <1>4
    <3> QED
      BY <1>3, <3>1, ClosedIs
  <2>2. \A i \in 1..Len(d) : d[i] = c[i]
    BY <1>4, <1>5, <2>1
  <2> QED
    BY <1>1, <2>1, <2>2, SeqEqual
<1>7. (\A i \in 1..Len(h) : i \in KeptOf(g) <=> i \in KeptOf(h)) /\ n \notin KeptOf(g)
  BY <1>1, KeptPlain
<1>8. Hist!Chosen(g, KeptOf(g)) = c
  BY <1>2, <1>7, ChosenLonger
<1>9. Hist!Chosen(g, KeptOf(g) \cup (n..n)) = Append(c, m)
  <2> PICK T : T = KeptOf(g) \cup (n..n)
    OBVIOUS
  <2>1. n..n = {n} /\ \A i \in 1..Len(h) : i # n
    BY <1>1 DEF Longer
  <2>2. n \in T /\ \A i \in 1..Len(h) : i \in T <=> i \in KeptOf(h)
    BY <1>7, <2>1
  <2> QED
    BY <1>2, <2>2, ChosenLonger
<1>10. Unit(g, n, n) /\ Answered(g, n) = {}
  <2>1. n + 1..n = {}
    BY <1>1
  <2> QED
    BY <1>1, <2>1 DEF Unit, Answered
<1>11. SaneOpen(t, g, n)
  <2>1. t.start # 0 /\ t.out[t.start] = g[n]
    BY <1>1, <1>4, <1>5
  <2>2. t.pending = g[n].calls \ Answered(g, n) /\ t.pending # {}
    BY <1>1, <1>4, <1>10
  <2>3. Unit(g, n, Len(g)) /\ Hist!Closed(t) = Hist!Chosen(g, KeptOf(g))
    BY <1>1, <1>6, <1>8, <1>10
  <2>4. t.out = Hist!Chosen(g, KeptOf(g) \cup (n..Len(g)))
    BY <1>1, <1>4, <1>9
  <2> QED
    BY <2>1, <2>2, <2>3, <2>4 DEF SaneOpen
<1> QED
  BY <1>1, <1>11 DEF Sane

LEMMA SanePlain ==
    ASSUME NEW h, NEW m, NEW g, Longer(h, m, g), NEW s \in Folds, Sane(s, h), m.calls = {}, m.results = {}
    PROVE  Sane(Hist!Keep(s, m), g)
<1> PICK c : c = Hist!Closed(s)
  OBVIOUS
<1> PICK t : t = Hist!Keep(s, m)
  OBVIOUS
<1>1. c = Hist!Chosen(h, KeptOf(h))
  BY ClosedIs DEF Sane, SaneShut, SaneOpen
<1>2. t = [out |-> Append(c, m), pending |-> {}, start |-> 0]
  BY DEF Hist!Keep
<1>3. Hist!Chosen(g, KeptOf(g)) = Append(c, m)
  BY <1>1, KeptPlain, ChosenLonger
<1>4. ASSUME NEW u \in 1..Len(g) PROVE ~Unit(g, u, Len(g))
  <2>1. Len(h) \in Nat /\ Len(g) = Len(h) + 1 /\ g[Len(g)] = m
    BY DEF Longer
  <2>2. CASE u = Len(g)
    BY <2>1, <2>2 DEF Unit
  <2>3. CASE u # Len(g)
    <3>1. Len(g) \in u + 1..Len(g)
      BY <2>1, <2>3
    <3> QED
      BY <2>1, <3>1 DEF Unit
  <2> QED
    BY <2>2, <2>3
<1>5. SaneShut(t, g)
  BY <1>2, <1>3, <1>4 DEF SaneShut
<1> QED
  BY <1>5 DEF Sane

LEMMA SaneResult ==
    ASSUME NEW h, NEW m, NEW g, Longer(h, m, g), NEW s \in Folds, Sane(s, h), m.results # {}, FitAt(g, Len(g))
    PROVE  Sane(Hist!Keep(s, m), g)
<1> DEFINE n == Len(h)
<1> PICK t : t = Hist!Keep(s, m)
  OBVIOUS
<1>1. n \in Nat /\ Len(g) = n + 1 /\ g[n + 1] = m /\ m.calls = {} /\ m \in Messages /\ h \in Seq(Messages)
      /\ \A i \in 1..n : g[i] = h[i] /\ h[i] \in Messages
  BY DEF Longer, Messages
<1>2. \/ \A k \in 1..n : h[k].results # {}
      \/ \E u \in 1..n : /\ Unit(h, u, n) /\ m.results \subseteq h[u].calls
                         /\ \A k \in u + 1..n : h[k].results \cap m.results = {}
  <2>1. Len(g) - 1 = n
    BY <1>1
  <2>2. CASE \A k \in 1..n : g[k].results # {}
    BY <1>1, <2>2
  <2>3. CASE \E u \in 1..n : /\ Unit(g, u, n) /\ m.results \subseteq g[u].calls
                             /\ \A k \in u + 1..n : g[k].results \cap m.results = {}
    <3>1. PICK u \in 1..n : /\ Unit(g, u, n) /\ m.results \subseteq g[u].calls
                            /\ \A k \in u + 1..n : g[k].results \cap m.results = {}
      BY <2>3
    <3>2. \A k \in u + 1..n : k \in 1..n
      BY <1>1
    <3> HIDE DEF n
    <3> QED
      BY ZenonT(60), <1>1, <3>1, <3>2 DEF Unit
  <2> QED
    BY <1>1, <2>1, <2>2, <2>3 DEF FitAt
<1>3. (\A k \in 1..n : h[k].results # {}) => \A u \in 1..n : ~Unit(h, u, n)
  BY <1>1 DEF Unit, Messages
<1>4. CASE s.start = 0
  <2>1. t = s /\ SaneShut(s, h)
    BY <1>1, <1>4 DEF Hist!Keep, Sane, SaneOpen
  <2>2. CASE \A u \in 1..n : ~Unit(h, u, n)
    <3>1. (\A i \in 1..n : i \in KeptOf(g) <=> i \in KeptOf(h)) /\ n + 1 \notin KeptOf(g)
      <4>1. \A i \in 1..n + 1 : i \in KeptOf(g) <=> i \in KeptOf(h)
        BY <2>2, KeptLost
      <4>2. n + 1 \notin KeptOf(h) /\ n + 1 \in 1..n + 1 /\ \A i \in 1..n : i \in 1..n + 1
        BY <1>1 DEF KeptOf
      <4> QED
        BY <4>1, <4>2
    <3>2. Hist!Chosen(g, KeptOf(g)) = Hist!Chosen(h, KeptOf(h))
      BY <3>1, ChosenLonger
    <3>3. ASSUME NEW u \in 1..n + 1 PROVE ~Unit(g, u, n + 1)
      <4>1. CASE u = n + 1
        BY <1>1, <4>1 DEF Unit
      <4>2. CASE u # n + 1
        <5>1. u \in 1..n /\ \A k \in u + 1..n : k \in u + 1..n + 1 /\ k \in 1..n
          BY <1>1, <4>2
        <5> HIDE DEF n
        <5> QED
          BY <1>1, <2>2, <5>1 DEF Unit
      <4> QED
        BY <4>1, <4>2
    <3>4. SaneShut(t, g)
      BY <1>1, <2>1, <3>2, <3>3 DEF SaneShut
    <3> QED
      BY <3>4 DEF Sane
  <2>3. CASE \E u \in 1..n : Unit(h, u, n)
    <3>1. PICK u \in 1..n : /\ Unit(h, u, n) /\ m.results \subseteq h[u].calls
                            /\ \A k \in u + 1..n : h[k].results \cap m.results = {}
      BY <1>2, <1>3, <2>3
    <3>2. h[u].calls \subseteq Answered(h, u)
      BY <2>1, <3>1 DEF SaneShut
    <3>3. Answered(h, u) \cap m.results = {}
      BY <3>1 DEF Answered
    <3> QED
      BY <3>1, <3>2, <3>3
  <2> QED
    BY <2>2, <2>3
<1>5. CASE s.start # 0
  <2>1. PICK u \in 1..n : SaneOpen(s, h, u)
    BY <1>5 DEF Sane, SaneShut
  <2> PICK left : left = s.pending \ m.results
    OBVIOUS
  <2> PICK c : c = Hist!Chosen(h, KeptOf(h))
    OBVIOUS
  <2>2. t = [out |-> Append(s.out, m), pending |-> left, start |-> IF left = {} THEN 0 ELSE s.start] /\ t \in Folds
    BY <1>1, <1>5, KeepIsFold DEF Hist!Keep
  <2>3. /\ Unit(g, u, Len(g)) /\ Answered(g, u) = Answered(h, u) \cup m.results
        /\ \A i \in 1..n + 1 :
               i \in KeptOf(g) <=> i \in KeptOf(h) \/ (h[u].calls \subseteq Answered(h, u) \cup m.results /\ i \in u..n + 1)
    BY <2>1, KeptResult DEF SaneOpen
  <2>4. left = {} <=> h[u].calls \subseteq Answered(h, u) \cup m.results
    BY <2>1 DEF SaneOpen
  <2>5. left = g[u].calls \ Answered(g, u)
    BY <1>1, <2>1, <2>3 DEF SaneOpen
  <2>6. s.out = Hist!Chosen(h, KeptOf(h) \cup (u..n))
    BY <2>1 DEF SaneOpen
  <2>7. n + 1 \notin KeptOf(h) /\ n + 1 \in u..n + 1 /\ (\A i \in 1..n : i \in u..n <=> i \in u..n + 1) /\ n + 1 \in 1..n + 1
        /\ \A i \in 1..n : i \in 1..n + 1
    BY <1>1 DEF KeptOf
  <2>8. CASE left = {}
    <3>1. (\A i \in 1..n : i \in KeptOf(g) <=> i \in KeptOf(h) \cup (u..n)) /\ n + 1 \in KeptOf(g)
      <4> HIDE DEF n
      <4> QED
        BY <2>3, <2>4, <2>7, <2>8
    <3>2. Hist!Chosen(g, KeptOf(g)) = Append(s.out, m)
      BY <2>6, <3>1, ChosenLonger
    <3>3. ASSUME NEW v \in 1..Len(g), Unit(g, v, Len(g)) PROVE g[v].calls \subseteq Answered(g, v)
      <4>1. u \in 1..Len(g) /\ g \in Seq(Messages)
        BY <1>1 DEF Longer
      <4>2. v = u
        BY <2>3, <3>3, <4>1, OneUnit DEF Unit
      <4> QED
        BY <2>5, <2>8, <4>2
    <3>4. SaneShut(t, g)
      BY <2>2, <2>8, <3>2, <3>3 DEF SaneShut
    <3> QED
      BY <3>4 DEF Sane
  <2>9. CASE left # {}
    <3>1. (\A i \in 1..n : i \in KeptOf(g) <=> i \in KeptOf(h)) /\ n + 1 \notin KeptOf(g)
      <4> HIDE DEF n
      <4> QED
        BY <2>3, <2>4, <2>7, <2>9
    <3>2. Hist!Chosen(g, KeptOf(g)) = c
      BY <3>1, ChosenLonger
    <3>3. Hist!Chosen(g, KeptOf(g) \cup (u..n + 1)) = Append(s.out, m)
      <4> PICK S, T : S = KeptOf(h) \cup (u..n) /\ T = KeptOf(g) \cup (u..n + 1)
        OBVIOUS
      <4>1. (\A i \in 1..n : i \in T <=> i \in S) /\ n + 1 \in T
        <5> HIDE DEF n
        <5> QED
          BY <2>7, <3>1
      <4> QED
        BY SMTT(30), <2>6, <4>1, ChosenLonger
    <3>4. s.out \in Seq(Messages) /\ s.start \in Nat /\ s.start <= Len(s.out) /\ Len(s.out) \in Nat
      BY DEF Folds
    <3>5. \A i \in 1..Len(s.out) : Append(s.out, m)[i] = s.out[i]
      BY <1>1, <3>4, AppendProperties
    <3>6. t.start = s.start /\ t.out = Append(s.out, m) /\ t.pending = left
      BY <2>2, <2>9
    <3>7. \A i \in 1..s.start : s.out[i] = t.out[i]
      BY <3>4, <3>5, <3>6
    <3>8. Hist!Closed(s) = Hist!Closed(t)
      <4>1. \A i \in 1..s.start - 1 : s.out[i] = t.out[i]
        BY <3>4, <3>7
      <4> QED
        BY <1>5, <2>2, <3>6, <4>1, ClosedSame
    <3>9. t.out[t.start] = g[u]
      <4>1. s.start \in 1..s.start
        BY <1>5, <3>4
      <4> QED
        BY <1>1, <2>1, <3>6, <3>7, <4>1 DEF SaneOpen
    <3>10. Hist!Closed(t) = Hist!Chosen(g, KeptOf(g))
      BY <2>1, <3>2, <3>8 DEF SaneOpen
    <3>11. SaneOpen(t, g, u)
      BY <1>1, <1>5, <2>3, <2>5, <2>9, <3>3, <3>6, <3>9, <3>10 DEF SaneOpen
    <3>12. u \in 1..Len(g)
      BY <1>1
    <3> QED
      BY <3>11, <3>12 DEF Sane
  <2> QED
    BY <2>8, <2>9
<1> QED
  BY <1>4, <1>5

------------------------------------------------------------------------------
GoodCall(h, i) == h[i].calls \subseteq UNION {h[j].results : j \in Hist!ResultsAfter(h, i)}
GoodResult(h, j) == h[j].results # {} => \E i \in 1..j - 1 : j \in Hist!ResultsAfter(h, i) /\ h[j].results \subseteq h[i].calls
Good(h) == \A i \in 1..Len(h) : GoodCall(h, i) /\ GoodResult(h, i)

LEMMA GoodIsWell ==
    ASSUME NEW h \in Seq(Messages)
    PROVE  Hist!WellFormed(h) <=> Good(h)
<1>1. DOMAIN h = 1..Len(h)
  BY LenProperties
<1> QED
  BY <1>1 DEF Hist!WellFormed, Good, GoodCall, GoodResult

\* A list begins with q.
Begins(q, g) == Len(q) \in Nat /\ Len(g) \in Nat /\ Len(q) <= Len(g) /\ \A i \in 1..Len(q) : q[i] = g[i]

LEMMA GoodStays ==
    ASSUME NEW q, NEW g, Begins(q, g), Good(q)
    PROVE  \A i \in 1..Len(q) : GoodCall(g, i) /\ GoodResult(g, i)
<1>1. Len(q) \in Nat /\ Len(g) \in Nat /\ Len(q) <= Len(g) /\ \A i \in 1..Len(q) : q[i] = g[i]
  BY DEF Begins
<1>2. ASSUME NEW i \in 1..Len(q) PROVE Hist!ResultsAfter(q, i) \subseteq Hist!ResultsAfter(g, i)
  <2>1. ASSUME NEW j \in i + 1..Len(q), \A k \in i + 1..j : q[k].results # {} PROVE j \in Hist!ResultsAfter(g, i)
    <3>1. j \in i + 1..Len(g) /\ \A k \in i + 1..j : k \in 1..Len(q)
      BY <1>1
    <3> QED
      BY <1>1, <2>1, <3>1 DEF Hist!ResultsAfter
  <2> QED
    BY <2>1 DEF Hist!ResultsAfter
<1>3. ASSUME NEW i \in 1..Len(q) PROVE GoodCall(g, i)
  <2>1. \A j \in Hist!ResultsAfter(q, i) : j \in Hist!ResultsAfter(g, i) /\ j \in 1..Len(q)
    <3>1. \A j \in Hist!ResultsAfter(q, i) : j \in i + 1..Len(q)
      BY DEF Hist!ResultsAfter
    <3> QED
      BY <1>1, <1>2, <3>1
  <2>2. \A j \in Hist!ResultsAfter(q, i) : j \in Hist!ResultsAfter(g, i) /\ q[j].results = g[j].results
    BY <1>1, <2>1
  <2>3. g[i].calls \subseteq UNION {q[j].results : j \in Hist!ResultsAfter(q, i)}
    BY <1>1 DEF Good, GoodCall
  <2> QED
    BY <2>2, <2>3 DEF GoodCall
<1>4. ASSUME NEW j \in 1..Len(q), g[j].results # {}
      PROVE  \E i \in 1..j - 1 : j \in Hist!ResultsAfter(g, i) /\ g[j].results \subseteq g[i].calls
  <2>1. PICK i \in 1..j - 1 : j \in Hist!ResultsAfter(q, i) /\ q[j].results \subseteq q[i].calls
    BY <1>1, <1>4 DEF Good, GoodResult
  <2>2. i \in 1..Len(q)
    BY <1>1
  <2> QED
    BY <1>1, <1>2, <2>1, <2>2
<1> QED
  BY <1>3, <1>4 DEF GoodResult

LEMMA GoodPlain ==
    ASSUME NEW h, NEW m, NEW g, Longer(h, m, g), Good(h), m.calls = {}, m.results = {}
    PROVE  Good(g)
<1>1. Begins(h, g)
  BY DEF Longer, Begins
<1>2. \A i \in 1..Len(g) : i \in 1..Len(h) \/ g[i] = m
  BY DEF Longer
<1>3. \A i \in 1..Len(h) : GoodCall(g, i) /\ GoodResult(g, i)
  BY <1>1, GoodStays
<1> QED
  BY <1>2, <1>3 DEF Good, GoodCall, GoodResult

\* A whole unit behind what is good.
LEMMA GoodUnit ==
    ASSUME NEW q, NEW g \in Seq(Messages), Begins(q, g), Good(q), NEW u, u = Len(q) + 1, u \in 1..Len(g), Unit(g, u, Len(g)),
           g[u].calls \subseteq Answered(g, u), \A k \in u + 1..Len(g) : g[k].results \subseteq g[u].calls
    PROVE  Good(g)
<1>1. \A i \in 1..Len(q) : GoodCall(g, i) /\ GoodResult(g, i)
  BY GoodStays
<1>2. Len(q) \in Nat /\ Len(g) \in Nat /\ \A i \in 1..Len(g) : g[i] \in Messages
  BY ElementOfSeq DEF Begins
<1>3. Hist!ResultsAfter(g, u) = u + 1..Len(g)
  BY UnitAtEnd
<1>4. GoodCall(g, u) /\ GoodResult(g, u)
  <2>1. g[u].results = {}
    BY <1>2 DEF Unit, Messages
  <2> QED
    BY <1>3, <2>1 DEF GoodCall, GoodResult, Answered
<1>5. ASSUME NEW k \in u + 1..Len(g) PROVE GoodCall(g, k) /\ GoodResult(g, k)
  <2>1. k \in 1..Len(g) /\ u \in 1..k - 1
    BY <1>2
  <2>2. g[k].results # {}
    BY DEF Unit
  <2>3. g[k].calls = {}
    BY <1>2, <2>1, <2>2 DEF Messages
  <2> QED
    BY <1>3, <2>1, <2>3 DEF GoodCall, GoodResult
<1>6. \A i \in 1..Len(g) : i \in 1..Len(q) \/ i = u \/ i \in u + 1..Len(g)
  BY <1>2
<1> QED
  BY <1>1, <1>4, <1>5, <1>6 DEF Good

\* A message in front that is neither.
LEMMA GoodFront ==
    ASSUME NEW q \in Seq(Messages), NEW m \in Messages, m.calls = {}, m.results = {}, Good(q)
    PROVE  Good(<<m>> \o q) /\ <<m>> \o q \in Seq(Messages)
<1> PICK g : g = <<m>> \o q
  OBVIOUS
<1>1. <<m>> \in Seq(Messages) /\ Len(<<m>>) = 1 /\ <<m>>[1] = m
  OBVIOUS
<1>2. g \in Seq(Messages) /\ Len(g) = 1 + Len(q) /\ \A i \in 1..1 + Len(q) : g[i] = IF i <= 1 THEN <<m>>[i] ELSE q[i - 1]
  BY <1>1, ConcatProperties
<1>3. Len(q) \in Nat /\ g[1] = m /\ \A i \in 1..Len(q) : g[i + 1] = q[i]
  BY <1>1, <1>2
<1>4. ASSUME NEW i \in 1..Len(q), NEW j \in Hist!ResultsAfter(q, i) PROVE j \in 1..Len(q) /\ j + 1 \in Hist!ResultsAfter(g, i + 1)
  <2>1. j \in i + 1..Len(q) /\ \A k \in i + 1..j : q[k].results # {}
    BY DEF Hist!ResultsAfter
  <2>2. ASSUME NEW k \in i + 2..j + 1 PROVE g[k].results # {}
    <3>1. k - 1 \in i + 1..j /\ k - 1 \in 1..Len(q) /\ k - 1 + 1 = k
      BY <1>3, <2>1
    <3> QED
      BY <1>3, <2>1, <3>1
  <2>3. j + 1 \in i + 1 + 1..Len(g) /\ j \in 1..Len(q) /\ i + 1 + 1 = i + 2
    BY <1>2, <1>3, <2>1
  <2> QED
    BY <2>2, <2>3 DEF Hist!ResultsAfter
<1>5. ASSUME NEW i \in 1..Len(q) PROVE GoodCall(g, i + 1)
  <2>1. q[i].calls \subseteq UNION {q[j].results : j \in Hist!ResultsAfter(q, i)}
    BY DEF Good, GoodCall
  <2>2. \A j \in Hist!ResultsAfter(q, i) : j + 1 \in Hist!ResultsAfter(g, i + 1) /\ g[j + 1].results = q[j].results
    BY <1>3, <1>4
  <2>3. SUFFICES ASSUME NEW x \in g[i + 1].calls
                 PROVE  \E j \in Hist!ResultsAfter(g, i + 1) : x \in g[j].results
    BY DEF GoodCall
  <2>4. x \in q[i].calls
    BY <1>3
  <2>5. PICK j \in Hist!ResultsAfter(q, i) : x \in q[j].results
    BY <2>1, <2>4
  <2> QED
    BY <2>2, <2>5
<1>6. ASSUME NEW j \in 1..Len(q), g[j + 1].results # {}
      PROVE  \E i \in 1..j + 1 - 1 : j + 1 \in Hist!ResultsAfter(g, i) /\ g[j + 1].results \subseteq g[i].calls
  <2>1. PICK i \in 1..j - 1 : j \in Hist!ResultsAfter(q, i) /\ q[j].results \subseteq q[i].calls
    BY <1>3, <1>6 DEF Good, GoodResult
  <2>2. i \in 1..Len(q) /\ i + 1 \in 1..j + 1 - 1
    BY <1>3
  <2> QED
    BY <1>3, <1>4, <2>1, <2>2
<1>7. GoodCall(g, 1) /\ GoodResult(g, 1)
  BY <1>3 DEF GoodCall, GoodResult
<1>8. \A i \in 1..Len(g) : i = 1 \/ \E k \in 1..Len(q) : i = k + 1
  <2>1. \A i \in 1..Len(g) : i = 1 \/ (i - 1 \in 1..Len(q) /\ i = i - 1 + 1)
    BY <1>2, <1>3
  <2> QED
    BY <2>1
<1>9. ASSUME NEW i \in 1..Len(g) PROVE GoodCall(g, i) /\ GoodResult(g, i)
  <2>1. CASE i = 1
    BY <1>7, <2>1
  <2>2. CASE i # 1
    <3>1. PICK k \in 1..Len(q) : i = k + 1
      BY <1>8, <2>2
    <3>2. GoodResult(g, i)
      <4>1. CASE g[i].results = {}
        BY <4>1 DEF GoodResult
      <4>2. CASE g[i].results # {}
        <5>1. \E v \in 1..i - 1 : i \in Hist!ResultsAfter(g, v) /\ g[i].results \subseteq g[v].calls
          <6>1. k \in 1..Len(q) /\ g[k + 1].results # {}
            BY <3>1, <4>2
          <6>2. PICK v \in 1..k + 1 - 1 : k + 1 \in Hist!ResultsAfter(g, v) /\ g[k + 1].results \subseteq g[v].calls
            BY <1>6, <6>1
          <6> QED
            BY <3>1, <6>2
        <5> QED
          BY <5>1 DEF GoodResult
      <4> QED
        BY <4>1, <4>2
    <3> QED
      BY <1>5, <3>1, <3>2
  <2> QED
    BY <2>1, <2>2
<1> QED
  BY <1>2, <1>9 DEF Good

\* The sanitiser's list is good but for the unit at its end.
GoodFold(s) ==
    /\ Good(Hist!Closed(s))
    /\ s.start # 0 => /\ Unit(s.out, s.start, Len(s.out)) /\ s.pending = s.out[s.start].calls \ Answered(s.out, s.start)
                      /\ \A k \in s.start + 1..Len(s.out) : s.out[k].results \subseteq s.out[s.start].calls

LEMMA GoodKept ==
    ASSUME NEW h, NEW m, NEW g, Longer(h, m, g), NEW s \in Folds, Sane(s, h), FitAt(g, Len(g)), GoodFold(s)
    PROVE  GoodFold(Hist!Keep(s, m))
<1> PICK c : c = Hist!Closed(s)
  OBVIOUS
<1> PICK t : t = Hist!Keep(s, m)
  OBVIOUS
<1>1. m \in Messages /\ c \in Seq(Messages) /\ Len(c) \in Nat /\ Good(c) /\ t \in Folds
  BY ClosedIs, KeepIsFold DEF Longer, GoodFold
<1>2. /\ s.out \in Seq(Messages) /\ s.start \in Nat /\ s.start <= Len(s.out) /\ Len(s.out) \in Nat
  BY DEF Folds
<1>3. Longer(c, m, Append(c, m)) /\ Longer(s.out, m, Append(s.out, m))
  BY <1>1, <1>2, LongerIs
<1>4. CASE m.calls # {}
  <2>1. t = [out |-> Append(c, m), pending |-> m.calls, start |-> Len(c) + 1] /\ m.results = {}
    BY <1>1, <1>4 DEF Hist!Keep, Messages
  <2>2. t.out = Append(c, m) /\ t.pending = m.calls /\ t.start = Len(c) + 1 /\ t.start # 0 /\ t.start - 1 = Len(c)
    BY <1>1, <2>1
  <2>3. Len(t.out) = Len(c) + 1 /\ t.out[Len(c) + 1] = m /\ \A i \in 1..Len(c) : t.out[i] = c[i]
    BY <1>3, <2>2 DEF Longer
  <2>4. Hist!Closed(t) = c
    <3> PICK d : d = Hist!Closed(t)
      OBVIOUS
    <3>1. d \in Seq(Messages) /\ Len(d) = Len(c) /\ \A i \in 1..Len(c) : d[i] = t.out[i]
      BY <1>1, <2>2, ClosedIs
    <3>2. \A i \in 1..Len(d) : d[i] = c[i]
      BY <2>3, <3>1
    <3> QED
      BY <1>1, <3>1, <3>2, SeqEqual
  <2>5. t.start + 1..Len(t.out) = {}
    BY <1>1, <2>2, <2>3
  <2>6. Unit(t.out, t.start, Len(t.out)) /\ Answered(t.out, t.start) = {} /\ t.out[t.start] = m
    BY <1>4, <2>2, <2>3, <2>5 DEF Unit, Answered
  <2> QED
    BY <1>1, <2>2, <2>4, <2>5, <2>6 DEF GoodFold
<1>5. CASE m.calls = {} /\ m.results = {}
  <2>1. t = [out |-> Append(c, m), pending |-> {}, start |-> 0]
    BY <1>5 DEF Hist!Keep
  <2>2. Hist!Closed(t) = Append(c, m) /\ t.start = 0
    BY <2>1, ClosedAtZero
  <2>3. Good(Append(c, m))
    BY <1>1, <1>3, <1>5, GoodPlain
  <2> QED
    BY <2>2, <2>3 DEF GoodFold
<1>6. CASE m.calls = {} /\ m.results # {} /\ s.start = 0
  <2>1. t = s
    BY <1>6 DEF Hist!Keep
  <2> QED
    BY <2>1
<1>7. CASE m.calls = {} /\ m.results # {} /\ s.start # 0
  <2> PICK left : left = s.pending \ m.results
    OBVIOUS
  <2> PICK q, b, n : q = s.out /\ b = s.start /\ n = Len(q)
    OBVIOUS
  <2> PICK p : p = Append(q, m)
    OBVIOUS
  <2>1. t = [out |-> p, pending |-> left, start |-> IF left = {} THEN 0 ELSE b]
    BY <1>7 DEF Hist!Keep
  <2>2. p \in Seq(Messages) /\ n \in Nat /\ Len(p) = n + 1 /\ p[n + 1] = m /\ (\A i \in 1..n : p[i] = q[i]) /\ b \in 1..n /\ b \in 1..n + 1
    BY <1>2, <1>3, <1>7 DEF Longer
  <2>3. b + 1..n + 1 = (b + 1..n) \cup {n + 1} /\ \A k \in b + 1..n : k \in 1..n
    BY <2>2
  <2>4. Unit(q, b, n) /\ s.pending = q[b].calls \ Answered(q, b) /\ \A k \in b + 1..n : q[k].results \subseteq q[b].calls
    BY <1>7 DEF GoodFold
  <2>5. m.results \subseteq q[b].calls
    <3>1. PICK u \in 1..Len(h) : SaneOpen(s, h, u)
      BY <1>7 DEF Sane, SaneShut
    <3>2. q[b] = h[u]
      BY <3>1 DEF SaneOpen
    <3>3. Len(g) = Len(h) + 1 /\ Len(h) \in Nat /\ g[Len(g)] = m /\ h \in Seq(Messages) /\ \A i \in 1..Len(h) : g[i] = h[i] /\ h[i] \in Messages
      BY DEF Longer
    <3>4. PICK v \in 1..Len(h) : Unit(g, v, Len(h)) /\ m.results \subseteq g[v].calls
      <4>1. Len(g) - 1 = Len(h)
        BY <3>3
      <4>2. ~\A k \in 1..Len(h) : g[k].results # {}
        <5>1. h[u].results = {}
          BY <3>1, <3>3 DEF SaneOpen, Unit, Messages
        <5> QED
          BY <3>3, <5>1
      <4> QED
        BY <1>7, <3>3, <4>1, <4>2 DEF FitAt
    <3>5. Unit(h, v, Len(h))
      <4>1. \A k \in v + 1..Len(h) : k \in 1..Len(h)
        BY <3>3
      <4> QED
        BY <3>3, <3>4, <4>1 DEF Unit
    <3>6. v = u
      BY <3>1, <3>3, <3>5, OneUnit DEF SaneOpen, Unit
    <3> QED
      BY <3>2, <3>3, <3>4, <3>6
  <2>6. Unit(p, b, n + 1) /\ p[b] = q[b]
    BY SMTT(30), <1>7, <2>2, <2>3, <2>4 DEF Unit
  <2>7. Answered(p, b) = Answered(q, b) \cup m.results
    <3>1. ASSUME NEW x PROVE x \in Answered(p, b) <=> x \in Answered(q, b) \/ x \in m.results
      <4>1. x \in Answered(p, b) <=> \E k \in b + 1..n + 1 : x \in p[k].results
        BY <2>2 DEF Answered
      <4>2. x \in Answered(q, b) <=> \E k \in b + 1..n : x \in q[k].results
        BY DEF Answered
      <4> QED
        BY <2>2, <2>3, <4>1, <4>2
    <3> QED
      BY <3>1
  <2>8. \A k \in b + 1..n + 1 : p[k].results \subseteq p[b].calls
    BY <2>2, <2>3, <2>4, <2>5, <2>6
  <2>9. left = p[b].calls \ Answered(p, b)
    BY <2>4, <2>6, <2>7
  <2>10. c \in Seq(Messages) /\ Len(c) = b - 1 /\ \A i \in 1..b - 1 : c[i] = q[i]
    BY <1>7, ClosedIs
  <2>11. CASE left = {}
    <3>1. t.start = 0 /\ Hist!Closed(t) = p
      BY <2>1, <2>11 DEF Hist!Closed
    <3>2. Begins(c, p) /\ b = Len(c) + 1
      <4>1. \A i \in 1..b - 1 : i \in 1..n
        BY <2>2
      <4> QED
        BY <2>2, <2>10, <4>1 DEF Begins
    <3>3. Good(p)
      BY <1>1, <2>2, <2>6, <2>8, <2>9, <2>11, <3>2, GoodUnit
    <3> QED
      BY <3>1, <3>3 DEF GoodFold
  <2>12. CASE left # {}
    <3>1. t.start = b /\ t.out = p /\ t.pending = left
      BY <2>1, <2>12
    <3>2. Hist!Closed(t) = c
      <4>1. \A i \in 1..s.start - 1 : s.out[i] = t.out[i]
        <5>1. \A i \in 1..b - 1 : i \in 1..n
          BY <2>2
        <5> QED
          BY <2>2, <3>1, <5>1
      <4> QED
        BY <1>1, <1>7, <3>1, <4>1, ClosedSame
    <3> QED
      BY <1>1, <2>2, <2>6, <2>8, <2>9, <3>1, <3>2 DEF GoodFold
  <2> QED
    BY <2>11, <2>12
<1> QED
  BY <1>4, <1>5, <1>6, <1>7

------------------------------------------------------------------------------
\* The first n messages, and one more.
LEMMA FirstMore ==
    ASSUME NEW w \in Seq(Messages), NEW n \in 1..Len(w)
    PROVE  /\ Longer(SubSeq(w, 1, n - 1), w[n], SubSeq(w, 1, n)) /\ Len(SubSeq(w, 1, n)) = n
           /\ \A i \in 1..n : SubSeq(w, 1, n)[i] = w[i]
<1> PICK p, q : p = SubSeq(w, 1, n - 1) /\ q = SubSeq(w, 1, n)
  OBVIOUS
<1>1. 1 \in Nat \ {0} /\ n - 1 \in 1 - 1..Len(w) /\ n \in 1 - 1..Len(w) /\ n \in Nat /\ n - 1 \in Nat
  OBVIOUS
<1> PICK k \in Nat : k = n - 1
  BY <1>1
<1>2. p \in Seq(Messages) /\ Len(p) = k /\ \A i \in 1..k : p[i] = w[i]
  <2>1. SubSeq(w, 1, k) \in Seq(Messages) /\ Len(SubSeq(w, 1, k)) = k - 1 + 1 /\ \A i \in 1..k - 1 + 1 : SubSeq(w, 1, k)[i] = w[1 + i - 1]
    BY <1>1, PartOf
  <2>2. k - 1 + 1 = k /\ \A i \in 1..k : 1 + i - 1 = i
    OBVIOUS
  <2> QED
    BY <2>1, <2>2
<1>3. q \in Seq(Messages) /\ Len(q) = n /\ \A i \in 1..n : q[i] = w[i]
  <2>1. SubSeq(w, 1, n) \in Seq(Messages) /\ Len(SubSeq(w, 1, n)) = n - 1 + 1 /\ \A i \in 1..n - 1 + 1 : SubSeq(w, 1, n)[i] = w[1 + i - 1]
    BY <1>1, PartOf
  <2>2. n - 1 + 1 = n /\ \A i \in 1..n : 1 + i - 1 = i
    BY <1>1
  <2> QED
    BY <2>1, <2>2
<1>4. w[n] \in Messages /\ n = k + 1
  BY <1>1, ElementOfSeq
<1>5. Longer(p, w[n], Append(p, w[n]))
  BY <1>2, <1>4, LongerIs
<1>6. q = Append(p, w[n])
  <2> PICK r : r = Append(p, w[n])
    OBVIOUS
  <2>1. r \in Seq(Messages) /\ Len(r) = k + 1 /\ (\A i \in 1..k : r[i] = p[i]) /\ r[k + 1] = w[n]
    BY <1>2, <1>5 DEF Longer
  <2>2. \A i \in 1..n : i \in 1..k \/ i = k + 1
    BY <1>4
  <2>3. \A i \in 1..n : q[i] = r[i]
    BY <1>2, <1>3, <1>4, <2>1, <2>2
  <2> QED
    BY <1>3, <1>4, <2>1, <2>3, SeqEqual
<1> QED
  BY <1>3, <1>5, <1>6

LEMMA FitFirst ==
    ASSUME NEW w \in Seq(Messages), Fit(w), NEW n \in 1..Len(w)
    PROVE  FitAt(SubSeq(w, 1, n), n)
<1> PICK q : q = SubSeq(w, 1, n)
  OBVIOUS
<1>1. \A i \in 1..n : q[i] = w[i]
  BY FirstMore
<1>2. n \in Nat /\ n \in 1..n /\ (\A k \in 1..n - 1 : k \in 1..n) /\ FitAt(w, n)
  BY DEF Fit
<1>3. CASE w[n].results = {}
  BY <1>1, <1>2, <1>3 DEF FitAt
<1>4. CASE \A k \in 1..n - 1 : w[k].results # {}
  BY <1>1, <1>2, <1>4 DEF FitAt
<1>5. ASSUME NEW u \in 1..n - 1, Unit(w, u, n - 1), w[n].results \subseteq w[u].calls,
             \A k \in u + 1..n - 1 : w[k].results \cap w[n].results = {}
      PROVE  FitAt(q, n)
  <2>1. \A k \in u + 1..n - 1 : k \in 1..n
    BY <1>2
  <2>2. Unit(q, u, n - 1)
    BY <1>1, <1>2, <1>5, <2>1 DEF Unit
  <2>3. q[n].results \subseteq q[u].calls /\ \A k \in u + 1..n - 1 : q[k].results \cap q[n].results = {}
    BY <1>1, <1>2, <1>5, <2>1
  <2> QED
    BY <2>2, <2>3 DEF FitAt
<1> QED
  BY <1>2, <1>3, <1>4, <1>5 DEF FitAt

\* What the sanitiser makes of a history, or of a window of it, is what is whole of it, and the model's API accepts it.
LEMMA SanitizeIs ==
    ASSUME NEW w \in Seq(Messages), Fit(w)
    PROVE  /\ Hist!SanitizeToolHistory(w) = Hist!Whole(w) /\ Hist!SanitizeToolHistory(w) \in Seq(Messages)
           /\ Good(Hist!SanitizeToolHistory(w))
           /\ Len(w) > 0 /\ w[Len(w)].calls = {} /\ w[Len(w)].results = {}
                  => \E c \in Seq(Messages) : Hist!SanitizeToolHistory(w) = Append(c, w[Len(w)])
<1> DEFINE N == Len(w)
           Part(n) == SubSeq(w, 1, n)
<1>1. PICK kept : KeptBy(w, kept) /\ Hist!SanitizeToolHistory(w) = Hist!Closed(kept[N])
  BY KeptIs
<1>2. N \in Nat /\ \A n \in 0..N : kept[n] \in Folds
  BY <1>1 DEF KeptBy
<1> DEFINE Right(n) == Sane(kept[n], Part(n)) /\ GoodFold(kept[n])
           P == {n \in 0..N : Right(n)}
<1>3. 0 \in P
  <2>1. kept[0] = NothingKept /\ Part(0) = <<>>
    BY <1>1 DEF KeptBy
  <2>2. Len(<<>>) = 0 /\ 1..0 = {}
    OBVIOUS
  <2>3. KeptOf(<<>>) = {} /\ Hist!Chosen(<<>>, KeptOf(<<>>)) = <<>>
    BY <2>2, ChosenNone DEF KeptOf
  <2>4. Sane(NothingKept, <<>>)
    BY <2>2, <2>3 DEF Sane, SaneShut, NothingKept
  <2>5. Hist!Closed(NothingKept) = <<>> /\ NothingKept.start = 0
    BY DEF Hist!Closed, NothingKept
  <2>6. GoodFold(NothingKept)
    <3>1. Good(<<>>)
      BY <2>2 DEF Good
    <3> QED
      BY <2>5, <3>1 DEF GoodFold
  <2>7. Right(0) /\ 0 \in 0..N
    <3>1. 0 \in 0..N
      BY <1>2
    <3> HIDE DEF Part, N
    <3>2. Sane(kept[0], Part(0)) /\ GoodFold(kept[0])
      BY <2>1, <2>4, <2>6
    <3> QED
      BY <3>1, <3>2
  <2> HIDE DEF Right
  <2> QED
    BY <2>7
<1>4. ASSUME NEW n \in 1..N, n - 1 \in P PROVE n \in P
  <2>1. Sane(kept[n - 1], Part(n - 1)) /\ GoodFold(kept[n - 1]) /\ kept[n - 1] \in Folds
    BY <1>2, <1>4
  <2>2. Longer(Part(n - 1), w[n], Part(n)) /\ Len(Part(n)) = n
    BY FirstMore
  <2>3. FitAt(Part(n), Len(Part(n)))
    BY <2>2, FitFirst
  <2>4. kept[n] = Hist!Keep(kept[n - 1], w[n])
    BY <1>1 DEF KeptBy
  <2> HIDE DEF Part
  <2>5. GoodFold(kept[n])
    BY <2>1, <2>2, <2>3, <2>4, GoodKept
  <2>6. Sane(kept[n], Part(n))
    <3>1. CASE w[n].calls # {}
      BY <2>1, <2>2, <2>4, <3>1, SaneCall
    <3>2. CASE w[n].calls = {} /\ w[n].results = {}
      BY <2>1, <2>2, <2>4, <3>2, SanePlain
    <3>3. CASE w[n].results # {}
      BY <2>1, <2>2, <2>3, <2>4, <3>3, SaneResult
    <3> QED
      BY <3>1, <3>2, <3>3
  <2>7. Right(n) /\ n \in 0..N
    BY <1>2, <2>5, <2>6
  <2> HIDE DEF Right
  <2> QED
    BY <2>7
<1>5. Right(N)
  <2>1. \A n \in 0..N : n \in P
    <3> HIDE DEF P
    <3> QED
      BY <1>2, <1>3, <1>4, CountUp
  <2>2. N \in 0..N
    BY <1>2
  <2> HIDE DEF Right
  <2> QED
    BY <2>1, <2>2
<1> PICK s : s = kept[N]
  OBVIOUS
<1>6. s \in Folds /\ Sane(s, w) /\ GoodFold(s)
  <2>1. Part(N) = w
    BY AllOf
  <2> HIDE DEF Part
  <2> QED
    BY <1>2, <1>5, <2>1
<1>7. Hist!Closed(s) \in Seq(Messages) /\ Hist!Closed(s) = Hist!Chosen(w, KeptOf(w)) /\ Good(Hist!Closed(s))
  BY <1>6, ClosedIs DEF Sane, SaneShut, SaneOpen, GoodFold
<1>8. ASSUME N > 0, w[N].calls = {}, w[N].results = {}
      PROVE  \E c \in Seq(Messages) : Hist!Closed(s) = Append(c, w[N])
  <2>1. N \in 1..N /\ N - 1 \in 0..N
    BY <1>2, <1>8
  <2>2. s = Hist!Keep(kept[N - 1], w[N]) /\ kept[N - 1] \in Folds
    BY <1>1, <1>2, <2>1 DEF KeptBy
  <2> PICK c : c = Hist!Closed(kept[N - 1])
    OBVIOUS
  <2>3. c \in Seq(Messages)
    BY <2>2, ClosedIs
  <2>4. s = [out |-> Append(c, w[N]), pending |-> {}, start |-> 0]
    BY <1>8, <2>2 DEF Hist!Keep
  <2>5. Hist!Closed(s) = Append(c, w[N])
    BY <2>4, ClosedAtZero
  <2> QED
    BY <2>3, <2>5
<1>9. Hist!Whole(w) = Hist!Chosen(w, KeptOf(w))
  BY WholeIs
<1> QED
  BY <1>1, <1>7, <1>8, <1>9

LEMMA HistConstants ==
    /\ Channels \subseteq {"web", "wecom"} /\ NoText \notin Texts /\ Sizes \subseteq Nat \ {0}
    /\ MaxMessages \in Nat \ {0} /\ MaxChars \in Nat /\ SummaryTrigger >= MaxMessages /\ MaxTurns \in Nat
BY HistAssumed DEF Hist!TurnHistoryAssumption

\* w is what follows the first d messages of h.
EndOf(h, w, d) ==
    /\ h \in Seq(Messages) /\ w \in Seq(Messages) /\ d \in Nat /\ Len(w) \in Nat /\ Len(h) = Len(w) + d
    /\ \A i \in 1..Len(w) : w[i] = h[i + d]

LEMMA NewestIs ==
    ASSUME NEW h \in Seq(Messages), NEW n \in Nat
    PROVE  \E d \in Nat : EndOf(h, Hist!Newest(h, n), d) /\ (n >= 1 /\ Len(h) > 0 => Len(Hist!Newest(h, n)) > 0)
<1>1. Len(h) \in Nat
  OBVIOUS
<1>2. CASE Len(h) > n
  <2> PICK d \in Nat : d = Len(h) - n
    BY <1>1, <1>2
  <2> PICK k \in Nat : k = d + 1
    OBVIOUS
  <2> PICK w : w = Hist!Newest(h, n)
    OBVIOUS
  <2>1. w = SubSeq(h, k, Len(h))
    <3>1. Len(h) - n + 1 = k
      BY <1>1
    <3> QED
      BY <1>2, <3>1 DEF Hist!Newest
  <2>2. k \in Nat \ {0} /\ Len(h) \in k - 1..Len(h) /\ Len(h) - k + 1 = n
    BY <1>1, <1>2
  <2>3. w \in Seq(Messages) /\ Len(w) = n /\ \A i \in 1..n : w[i] = h[k + i - 1]
    BY <2>1, <2>2, PartOf
  <2>4. \A i \in 1..n : k + i - 1 = i + d
    OBVIOUS
  <2>5. Len(h) = n + d
    BY <1>1
  <2>6. EndOf(h, w, d)
    BY <2>3, <2>4, <2>5 DEF EndOf
  <2> QED
    BY <2>3, <2>6
<1>3. CASE ~(Len(h) > n)
  <2>1. Hist!Newest(h, n) = h
    <3>1. Hist!Newest(h, n) = SubSeq(h, 1, Len(h))
      BY <1>3 DEF Hist!Newest
    <3> QED
      BY <3>1, AllOf
  <2>2. EndOf(h, h, 0)
    BY <1>1 DEF EndOf
  <2> QED
    BY <2>1, <2>2
<1> QED
  BY <1>2, <1>3

LEMMA FitEnd ==
    ASSUME NEW h, NEW w, NEW d, EndOf(h, w, d), Fit(h)
    PROVE  Fit(w)
<1>1. /\ h \in Seq(Messages) /\ w \in Seq(Messages) /\ d \in Nat /\ Len(w) \in Nat /\ Len(h) = Len(w) + d
      /\ \A i \in 1..Len(w) : w[i] = h[i + d]
  BY DEF EndOf
<1> SUFFICES ASSUME NEW j \in 1..Len(w)
             PROVE  FitAt(w, j)
  BY DEF Fit
<1> PICK jj \in Nat : jj = j + d
  BY <1>1
<1>2. jj \in 1..Len(h) /\ FitAt(h, jj) /\ w[j] = h[jj]
  BY <1>1 DEF Fit
<1>3. \A k \in 1..j - 1 : k \in 1..Len(w) /\ k + d \in 1..jj - 1 /\ w[k] = h[k + d]
  BY <1>1
<1>4. CASE h[jj].results = {}
  BY <1>2, <1>4 DEF FitAt
<1>5. CASE \A k \in 1..jj - 1 : h[k].results # {}
  BY <1>3, <1>5 DEF FitAt
<1>6. ASSUME NEW u \in 1..jj - 1, Unit(h, u, jj - 1), h[jj].results \subseteq h[u].calls,
             \A k \in u + 1..jj - 1 : h[k].results \cap h[jj].results = {}
      PROVE  FitAt(w, j)
  <2>1. \A k \in u + 1..jj - 1 : h[k].results # {}
    BY <1>6 DEF Unit
  <2>2. CASE u <= d
    <3>1. \A k \in 1..j - 1 : k + d \in u + 1..jj - 1
      BY <1>1, <2>2
    <3> QED
      BY <1>3, <2>1, <3>1 DEF FitAt
  <2>3. CASE u > d
    <3> PICK v \in Nat : v = u - d
      BY <1>1, <2>3
    <3>1. v \in 1..j - 1 /\ v + d = u
      BY <1>1, <2>3
    <3>2. \A k \in v + 1..j - 1 : k \in 1..j - 1 /\ k + d \in u + 1..jj - 1
      BY <1>1, <3>1
    <3>3. w[v] = h[u]
      BY <1>3, <3>1
    <3>4. \A k \in v + 1..j - 1 : w[k].results # {} /\ w[k].results \cap w[j].results = {}
      BY <1>2, <1>3, <1>6, <2>1, <3>2
    <3>5. Unit(w, v, j - 1)
      BY <1>6, <3>3, <3>4 DEF Unit
    <3> QED
      BY <1>2, <1>6, <3>1, <3>3, <3>4, <3>5 DEF FitAt
  <2> QED
    BY <1>1, <2>2, <2>3
<1> QED
  BY <1>2, <1>4, <1>5, <1>6 DEF FitAt

LEMMA FitsIs ==
    ASSUME NEW h \in Seq(Messages)
    PROVE  Hist!Fits(h) \in 0..Len(h) /\ (Len(h) > 0 /\ h[Len(h)].size <= MaxChars => Hist!Fits(h) >= 1)
<1> DEFINE N == Len(h)
           T == [n \in 1..N |-> [x \in Nat |-> x + h[N - n + 1].size]]
           Body(chars) == [k \in 0..N |-> IF k = 0 THEN 0 ELSE chars[k - 1] + h[N - k + 1].size]
           Fitting(f, n) == f[n] <= MaxChars /\ (n < N => f[n + 1] > MaxChars)
<1>1. N \in Nat /\ \A n \in 1..N : h[n] \in Messages /\ h[n].size \in Nat
  BY ElementOfSeq DEF Messages, AnyMessage
<1>2. \A n \in 1..N : h[N - n + 1].size \in Nat
  <2>1. \A n \in 1..N : N - n + 1 \in 1..N
    BY <1>1
  <2> HIDE DEF N
  <2> QED
    BY <1>1, <2>1
<1>3. T \in [1..N -> [Nat -> Nat]]
  <2> HIDE DEF N
  <2>1. \A n \in 1..N, x \in Nat : x + h[N - n + 1].size \in Nat
    BY <1>2
  <2> QED
    BY <2>1
<1>4. PICK g \in [0..N -> Nat] : Steps(g, N, 0, T)
  <2> HIDE DEF T, N
  <2> QED
    BY <1>1, <1>3, StepsExist
<1>5. ASSUME NEW n \in 1..N PROVE g[n] = g[n - 1] + h[N - n + 1].size
  <2>1. g[n] = T[n][g[n - 1]]
    <3> HIDE DEF T, N
    <3> QED
      BY <1>4 DEF Steps
  <2>2. g[n - 1] \in Nat
    <3>1. n - 1 \in 0..N
      BY <1>1
    <3> HIDE DEF N
    <3> QED
      BY <3>1
  <2> HIDE DEF N
  <2> QED
    BY <2>1, <2>2
<1>6. g[0] = 0
  BY <1>4 DEF Steps
<1>7. g = Body(g)
  <2>1. \A n \in 0..N : g[n] = IF n = 0 THEN 0 ELSE g[n - 1] + h[N - n + 1].size
    <3>1. \A n \in 0..N : n = 0 \/ n \in 1..N
      BY <1>1
    <3> HIDE DEF N
    <3> QED
      BY <1>5, <1>6, <3>1
  <2> HIDE DEF N
  <2> QED
    BY <2>1
<1>8. PICK f : f = CHOOSE chars : chars = Body(chars)
  OBVIOUS
<1>9. f = Body(f)
  BY <1>7, <1>8
<1>10. Hist!Fits(h) = CHOOSE n \in 0..N : Fitting(f, n)
  BY <1>8 DEF Hist!Fits
<1>11. f[0] = 0 /\ \A n \in 1..N : f[n] = f[n - 1] + h[N - n + 1].size
  <2>1. f[0] = Body(f)[0]
    BY <1>9
  <2>2. ASSUME NEW n \in 1..N PROVE f[n] = f[n - 1] + h[N - n + 1].size
    <3>1. f[n] = Body(f)[n]
      BY <1>9
    <3>2. n \in 0..N /\ n # 0
      BY <1>1
    <3> HIDE DEF N
    <3> QED
      BY <3>1, <3>2
  <2>3. 0 \in 0..N
    BY <1>1
  <2> HIDE DEF N
  <2> QED
    BY <2>1, <2>2, <2>3
<1>12. \A n \in 0..N : f[n] = g[n]
  <2>1. f[0] = g[0] /\ InStep(N, f, g)
    <3> HIDE DEF N, Body, T
    <3> QED
      BY <1>5, <1>6, <1>11 DEF InStep
  <2> HIDE DEF N, Body
  <2> QED
    BY <1>1, <2>1, InStepAgree
<1> HIDE DEF Body, T
<1>13. \E n \in 0..N : Fitting(f, n)
  <2> SUFFICES ASSUME \A n \in 0..N : ~Fitting(f, n)
               PROVE  FALSE
    OBVIOUS
  <2> DEFINE P == {n \in 0..N : f[n] <= MaxChars}
  <2>1. 0 \in P
    BY <1>1, <1>11, HistConstants
  <2>2. ASSUME NEW n \in 1..N, n - 1 \in P PROVE n \in P
    <3>1. n - 1 \in 0..N /\ n - 1 < N /\ n - 1 + 1 = n /\ n \in 0..N
      BY <1>1
    <3> HIDE DEF N
    <3>2. f[n] \in Nat
      BY <1>12, <3>1
    <3>3. ~(f[n] > MaxChars)
      BY <2>2, <3>1
    <3> QED
      BY <3>1, <3>2, <3>3, HistConstants
  <2>3. \A n \in 0..N : n \in P
    <3> HIDE DEF P, N
    <3> QED
      BY <1>1, <2>1, <2>2, CountUp
  <2>4. N \in 0..N /\ ~(N < N)
    BY <1>1
  <2> HIDE DEF N
  <2> QED
    BY <2>3, <2>4
<1>14. Hist!Fits(h) \in 0..N /\ Fitting(f, Hist!Fits(h))
  <2> HIDE DEF Fitting
  <2> QED
    BY <1>10, <1>13
<1>15. ASSUME N > 0, h[N].size <= MaxChars PROVE Hist!Fits(h) # 0
  <2>1. 1 \in 1..N /\ 1 - 1 = 0 /\ N - 1 + 1 = N /\ N \in 1..N
    BY <1>1, <1>15
  <2> HIDE DEF N
  <2>2. f[1] = h[N].size
    BY <1>1, <1>11, <2>1
  <2>3. ~(f[1] > MaxChars)
    BY <1>1, <1>15, <2>1, <2>2, HistConstants
  <2> QED
    BY <1>14, <1>15, <2>3
<1> HIDE DEF Fitting
<1> QED
  BY <1>14, <1>15

\* A list ends with m.
EndsWith(q, m) == Len(q) > 0 /\ q[Len(q)] = m
Plain(m) == m.calls = {} /\ m.results = {}

LEMMA TrimIs ==
    ASSUME NEW h \in Seq(Messages), Fit(h)
    PROVE  /\ Hist!TrimHistory(h) \in Seq(Messages) /\ Good(Hist!TrimHistory(h))
           /\ \A m : EndsWith(h, m) /\ Plain(m) /\ m.size <= MaxChars => EndsWith(Hist!TrimHistory(h), m)
<1> PICK a : a = Hist!Newest(h, MaxMessages)
  OBVIOUS
<1> PICK n : n = Hist!Fits(a)
  OBVIOUS
<1> PICK b : b = Hist!Newest(a, n)
  OBVIOUS
<1>1. PICK d : EndOf(h, a, d) /\ (Len(h) > 0 => Len(a) > 0)
  <2>1. MaxMessages \in Nat /\ MaxMessages >= 1
    BY HistConstants
  <2> QED
    BY <2>1, NewestIs
<1>2. a \in Seq(Messages) /\ Len(a) \in Nat /\ Fit(a)
  BY <1>1, FitEnd DEF EndOf
<1>3. n \in 0..Len(a) /\ n \in Nat /\ (Len(a) > 0 /\ a[Len(a)].size <= MaxChars => n >= 1)
  BY <1>2, FitsIs
<1>4. PICK e : EndOf(a, b, e) /\ (n >= 1 /\ Len(a) > 0 => Len(b) > 0)
  BY <1>2, <1>3, NewestIs
<1>5. b \in Seq(Messages) /\ Len(b) \in Nat /\ Fit(b)
  BY <1>2, <1>4, FitEnd DEF EndOf
<1>6. Hist!TrimHistory(h) = Hist!SanitizeToolHistory(b)
  BY DEF Hist!TrimHistory
<1>7. /\ Hist!SanitizeToolHistory(b) \in Seq(Messages) /\ Good(Hist!SanitizeToolHistory(b))
      /\ Len(b) > 0 /\ b[Len(b)].calls = {} /\ b[Len(b)].results = {}
             => \E c \in Seq(Messages) : Hist!SanitizeToolHistory(b) = Append(c, b[Len(b)])
  BY <1>5, SanitizeIs
<1>8. ASSUME NEW m, EndsWith(h, m), Plain(m), m.size <= MaxChars PROVE EndsWith(Hist!TrimHistory(h), m)
  <2>1. Len(a) > 0 /\ a[Len(a)] = m
    <3>1. Len(a) > 0 /\ Len(a) \in 1..Len(a) /\ Len(h) = Len(a) + d
      BY <1>1, <1>2, <1>8 DEF EndsWith, EndOf
    <3>2. a[Len(a)] = h[Len(a) + d]
      BY <1>1, <3>1 DEF EndOf
    <3> QED
      BY <1>8, <3>1, <3>2 DEF EndsWith
  <2>2. Len(b) > 0 /\ b[Len(b)] = m
    <3>1. Len(b) > 0 /\ Len(b) \in 1..Len(b) /\ Len(a) = Len(b) + e
      BY <1>3, <1>4, <1>5, <1>8, <2>1 DEF EndOf
    <3>2. b[Len(b)] = a[Len(b) + e]
      BY <1>4, <3>1 DEF EndOf
    <3> QED
      BY <2>1, <3>1, <3>2
  <2>3. PICK c \in Seq(Messages) : Hist!SanitizeToolHistory(b) = Append(c, m)
    BY <1>7, <1>8, <2>2 DEF Plain
  <2>4. m \in Messages
    BY <1>5, <2>2, ElementOfSeq
  <2>5. Len(Append(c, m)) = Len(c) + 1 /\ Append(c, m)[Len(c) + 1] = m /\ Len(c) \in Nat
    BY <2>4, AppendProperties
  <2> QED
    BY <1>6, <2>3, <2>5 DEF EndsWith
<1> QED
  BY <1>6, <1>7, <1>8

LEMMA CompactIs ==
    ASSUME NEW h \in Seq(Messages), Fit(h)
    PROVE  /\ Hist!CompactHistory(h) \in Seq(Messages) /\ Good(Hist!CompactHistory(h))
           /\ \A m : EndsWith(h, m) /\ Plain(m) /\ m.size <= MaxChars => EndsWith(Hist!CompactHistory(h), m)
<1>1. CASE Len(h) <= SummaryTrigger
  <2>1. Hist!CompactHistory(h) = Hist!TrimHistory(h)
    BY <1>1 DEF Hist!CompactHistory
  <2> QED
    BY <2>1, TrimIs
<1>2. CASE ~(Len(h) <= SummaryTrigger)
  <2> PICK a : a = Hist!Newest(h, MaxMessages)
    OBVIOUS
  <2> PICK q : q = Hist!TrimHistory(a)
    OBVIOUS
  <2>1. PICK d : EndOf(h, a, d) /\ (Len(h) > 0 => Len(a) > 0)
    <3>1. MaxMessages \in Nat /\ MaxMessages >= 1
      BY HistConstants
    <3> QED
      BY <3>1, NewestIs
  <2>2. a \in Seq(Messages) /\ Len(a) \in Nat /\ Fit(a)
    BY <2>1, FitEnd DEF EndOf
  <2>3. /\ q \in Seq(Messages) /\ Good(q) /\ Len(q) \in Nat
        /\ \A m : EndsWith(a, m) /\ Plain(m) /\ m.size <= MaxChars => EndsWith(q, m)
    BY <2>2, TrimIs
  <2>4. \A m : EndsWith(h, m) => EndsWith(a, m)
    <3> SUFFICES ASSUME NEW m, EndsWith(h, m) PROVE EndsWith(a, m)
      OBVIOUS
    <3>1. Len(a) > 0 /\ Len(a) \in 1..Len(a) /\ Len(h) = Len(a) + d
      BY <2>1, <2>2 DEF EndsWith, EndOf
    <3>2. a[Len(a)] = h[Len(a) + d]
      BY <2>1, <3>1 DEF EndOf
    <3> QED
      BY <3>1, <3>2 DEF EndsWith
  <2> PICK s : s = Hist!Summary
    OBVIOUS
  <2>5. s \in Messages /\ s.calls = {} /\ s.results = {}
    BY DEF Hist!Summary, Hist!Msg, Messages, AnyMessage
  <2>6. Hist!CompactHistory(h) = <<s>> \o q \/ Hist!CompactHistory(h) = q
    <3>1. Hist!CompactHistory(h) = Hist!Summarized(SubSeq(h, 1, Len(h) - MaxMessages)) \o q
      BY <1>2 DEF Hist!CompactHistory
    <3>2. Hist!Summarized(SubSeq(h, 1, Len(h) - MaxMessages)) \in {<<s>>, <<>>}
      BY DEF Hist!Summarized
    <3>3. <<>> \o q = q
      BY <2>3, ConcatEmptySeq
    <3> QED
      BY <3>1, <3>2, <3>3
  <2>7. <<s>> \o q \in Seq(Messages) /\ Good(<<s>> \o q)
    BY <2>3, <2>5, GoodFront
  <2>8. \A m : EndsWith(q, m) => EndsWith(<<s>> \o q, m)
    <3> SUFFICES ASSUME NEW m, EndsWith(q, m) PROVE EndsWith(<<s>> \o q, m)
      OBVIOUS
    <3>1. <<s>> \in Seq(Messages) /\ Len(<<s>>) = 1
      BY <2>5
    <3>2. Len(<<s>> \o q) = 1 + Len(q) /\ \A i \in 1..1 + Len(q) : (<<s>> \o q)[i] = IF i <= 1 THEN <<s>>[i] ELSE q[i - 1]
      BY <2>3, <3>1, ConcatProperties
    <3> PICK k : k = 1 + Len(q)
      OBVIOUS
    <3>3. k \in 1..1 + Len(q) /\ ~(k <= 1) /\ k - 1 = Len(q)
      BY <2>3 DEF EndsWith
    <3>4. (<<s>> \o q)[k] = q[k - 1]
      BY <3>2, <3>3
    <3> QED
      BY <2>3, <3>2, <3>3, <3>4 DEF EndsWith
  <2> QED
    BY <2>3, <2>4, <2>6, <2>7, <2>8
<1> QED
  BY <1>1, <1>2

\* One more message of the history.
LEMMA FitMore ==
    ASSUME NEW h, NEW m, NEW g, Longer(h, m, g), Fit(h), FitAt(g, Len(g))
    PROVE  Fit(g)
<1>1. Len(h) \in Nat /\ Len(g) = Len(h) + 1 /\ \A i \in 1..Len(h) : g[i] = h[i]
  BY DEF Longer
<1>2. ASSUME NEW j \in 1..Len(h) PROVE FitAt(g, j)
  <2>1. g[j] = h[j] /\ FitAt(h, j) /\ \A k \in 1..j - 1 : k \in 1..Len(h) /\ g[k] = h[k]
    BY <1>1 DEF Fit
  <2>2. CASE h[j].results = {}
    BY <2>1, <2>2 DEF FitAt
  <2>3. CASE \A k \in 1..j - 1 : h[k].results # {}
    BY <2>1, <2>3 DEF FitAt
  <2>4. ASSUME NEW u \in 1..j - 1, Unit(h, u, j - 1), h[j].results \subseteq h[u].calls,
               \A k \in u + 1..j - 1 : h[k].results \cap h[j].results = {}
        PROVE  FitAt(g, j)
    <3>1. \A k \in u + 1..j - 1 : k \in 1..j - 1
      BY <1>1
    <3>2. Unit(g, u, j - 1)
      BY <2>1, <2>4, <3>1 DEF Unit
    <3>3. g[j].results \subseteq g[u].calls /\ \A k \in u + 1..j - 1 : g[k].results \cap g[j].results = {}
      BY <2>1, <2>4, <3>1
    <3> QED
      BY <3>2, <3>3 DEF FitAt
  <2> QED
    BY <2>1, <2>2, <2>3, <2>4 DEF FitAt
<1>3. \A j \in 1..Len(g) : j \in 1..Len(h) \/ j = Len(g)
  BY <1>1
<1> QED
  BY <1>2, <1>3 DEF Fit

\* A message that is no result fits always.
LEMMA FitPlain ==
    ASSUME NEW h \in Seq(Messages), Fit(h), NEW m \in Messages, m.results = {}
    PROVE  Fit(Append(h, m)) /\ Append(h, m) \in Seq(Messages) /\ EndsWith(Append(h, m), m)
<1> PICK g : g = Append(h, m)
  OBVIOUS
<1>1. Longer(h, m, g)
  BY LongerIs
<1>2. g[Len(g)] = m /\ g \in Seq(Messages) /\ Len(g) > 0
  BY <1>1 DEF Longer
<1>3. FitAt(g, Len(g))
  BY <1>2 DEF FitAt
<1> QED
  BY <1>1, <1>2, <1>3, FitMore DEF EndsWith

Spoken == {m \in Messages : m.role \in {"user", "assistant", "tool"}}
Questions == {Hist!User(n) : n \in Sizes}

\* What the run has to persist.
StoredOf(q) == Hist!Chosen(q, {i \in DOMAIN q : Hist!ShouldPersist(q[i])})

\* The calls of the unit at the end that are open.
OpenUnit(q, o) == \E u \in 1..Len(q) : Unit(q, u, Len(q)) /\ o = q[u].calls \ Answered(q, u)

Remembers(h, s) == \E i \in 1..Len(h) : h[i].role = "assistant" /\ h[i].text = s /\ \A j \in i + 1..Len(h) : h[j].role = "user"

LEMMA SpokenIs ==
    ASSUME NEW q \in Seq(Spoken)
    PROVE  q \in Seq(Messages) /\ Len(q) \in Nat /\ \A i \in 1..Len(q) : q[i] \in Spoken /\ q[i] \in Messages
<1>1. Len(q) \in Nat /\ (\A i \in 1..Len(q) : q[i] \in Spoken) /\ q \in [1..Len(q) -> Spoken]
  BY ElementOfSeq, LenProperties
<1>2. \A i \in 1..Len(q) : q[i] \in Messages
  BY <1>1 DEF Spoken
<1>3. q \in [1..Len(q) -> Messages]
  BY <1>1, <1>2
<1> QED
  BY <1>1, <1>2, <1>3

LEMMA SpokenAre ==
    /\ \A n \in Sizes : Hist!User(n) \in Spoken /\ Plain(Hist!User(n)) /\ Hist!User(n).role = "user" /\ Hist!User(n) # Hist!Nobody
    /\ \A t \in Texts \cup {NoText}, c \in SUBSET Ids :
           /\ Hist!Assistant(t, c) \in Spoken /\ Hist!Assistant(t, c).results = {} /\ Hist!Assistant(t, c).calls = c
           /\ Hist!Assistant(t, c).role = "assistant" /\ Hist!Assistant(t, c).text = t
    /\ \A i \in Ids, n \in Sizes :
           /\ Hist!ToolResult(i, n) \in Spoken /\ Hist!ToolResult(i, n).calls = {} /\ Hist!ToolResult(i, n).results = {i}
           /\ Hist!ToolResult(i, n).role = "tool"
    /\ Hist!Nobody \in Messages /\ Plain(Hist!Nobody)
<1> USE DEF Hist!Msg, Spoken, Messages, AnyMessage, Plain
<1>1. \A n \in Sizes : n \in Nat
  BY HistConstants
<1>2. ASSUME NEW n \in Sizes
      PROVE  Hist!User(n) \in Spoken /\ Plain(Hist!User(n)) /\ Hist!User(n).role = "user" /\ Hist!User(n) # Hist!Nobody
  <2>1. Hist!User(n).role = "user" /\ Hist!Nobody.role = "none"
    BY DEF Hist!User, Hist!Nobody
  <2> QED
    BY <1>1, <2>1 DEF Hist!User
<1>3. ASSUME NEW t \in Texts \cup {NoText}, NEW c \in SUBSET Ids
      PROVE  /\ Hist!Assistant(t, c) \in Spoken /\ Hist!Assistant(t, c).results = {} /\ Hist!Assistant(t, c).calls = c
             /\ Hist!Assistant(t, c).role = "assistant" /\ Hist!Assistant(t, c).text = t
  BY DEF Hist!Assistant
<1>4. ASSUME NEW i \in Ids, NEW n \in Sizes
      PROVE  /\ Hist!ToolResult(i, n) \in Spoken /\ Hist!ToolResult(i, n).calls = {} /\ Hist!ToolResult(i, n).results = {i}
             /\ Hist!ToolResult(i, n).role = "tool"
  BY <1>1 DEF Hist!ToolResult
<1>5. Hist!Nobody \in Messages /\ Plain(Hist!Nobody)
  BY DEF Hist!Nobody
<1> QED
  BY <1>2, <1>3, <1>4, <1>5

LEMMA StoredIs ==
    /\ StoredOf(<<>>) = <<>>
    /\ \A q \in Seq(Spoken) : StoredOf(q) \in Seq(Spoken)
<1>1. StoredOf(<<>>) = <<>>
  BY ChosenNone DEF StoredOf
<1>2. ASSUME NEW q \in Seq(Spoken) PROVE StoredOf(q) \in Seq(Spoken)
  <2> PICK S : S = {i \in DOMAIN q : Hist!ShouldPersist(q[i])}
    OBVIOUS
  <2>1. \A n \in 1..Len(q) : n \in S <=> n \in S
    OBVIOUS
  <2> QED
    BY <2>1, ChosenSame DEF StoredOf
<1> QED
  BY <1>1, <1>2

LEMMA StoredMore ==
    ASSUME NEW q \in Seq(Spoken), NEW m \in Spoken
    PROVE  StoredOf(Append(q, m)) = IF Hist!ShouldPersist(m) THEN Append(StoredOf(q), m) ELSE StoredOf(q)
<1> PICK g : g = Append(q, m)
  OBVIOUS
<1>1. Longer(q, m, g)
  BY SpokenIs, LongerIs DEF Spoken
<1> PICK S, T : S = {i \in DOMAIN q : Hist!ShouldPersist(q[i])} /\ T = {i \in DOMAIN g : Hist!ShouldPersist(g[i])}
  OBVIOUS
<1>2. DOMAIN q = 1..Len(q) /\ DOMAIN g = 1..Len(q) + 1 /\ Len(q) \in Nat /\ (\A i \in 1..Len(q) : g[i] = q[i]) /\ g[Len(q) + 1] = m
  BY <1>1, LenProperties DEF Longer
<1>3. (\A i \in 1..Len(q) : i \in T <=> i \in S) /\ (Len(q) + 1 \in T <=> Hist!ShouldPersist(m))
  BY <1>2
<1>4. Hist!Chosen(g, T) = IF Len(q) + 1 \in T THEN Append(Hist!Chosen(q, S), m) ELSE Hist!Chosen(q, S)
  BY <1>1, <1>3, ChosenLonger
<1> QED
  BY <1>3, <1>4 DEF StoredOf

LEMMA AppendBehind ==
    ASSUME NEW M, NEW h \in Seq(M), NEW q \in Seq(M), NEW m \in M
    PROVE  h \o Append(q, m) = Append(h \o q, m) /\ h \o q \in Seq(M)
<1>1. <<m>> \in Seq(M) /\ h \o q \in Seq(M)
  BY ConcatProperties
<1>2. Append(q, m) = q \o <<m>> /\ Append(h \o q, m) = (h \o q) \o <<m>>
  BY <1>1, AppendIsConcat
<1>3. (h \o q) \o <<m>> = h \o (q \o <<m>>)
  BY <1>1, ConcatAssociative
<1> QED
  BY <1>1, <1>2, <1>3

LEMMA TwoMore ==
    ASSUME NEW M, NEW h \in Seq(M), NEW a \in M, NEW b \in M
    PROVE  h \o <<a, b>> = Append(Append(h, a), b)
<1>1. <<a>> \in Seq(M) /\ <<a, b>> = Append(<<a>>, b)
  OBVIOUS
<1>2. h \o Append(<<a>>, b) = Append(h \o <<a>>, b)
  BY <1>1, AppendBehind
<1>3. h \o <<a>> = Append(h, a)
  BY AppendIsConcat
<1> QED
  BY <1>1, <1>2, <1>3

LEMMA RememberedAtEnd ==
    ASSUME NEW h \in Seq(Messages), NEW m, EndsWith(h, m), m.role = "assistant"
    PROVE  Remembers(h, m.text)
<1>1. Len(h) \in Nat /\ Len(h) \in 1..Len(h) /\ Len(h) + 1..Len(h) = {} /\ h[Len(h)] = m
  BY DEF EndsWith
<1> QED
  BY <1>1 DEF Remembers

LEMMA RememberedMore ==
    ASSUME NEW h \in Seq(Messages), NEW m \in Messages, m.role = "user", NEW s, Remembers(h, s)
    PROVE  Remembers(Append(h, m), s)
<1> PICK g : g = Append(h, m)
  OBVIOUS
<1>1. Len(h) \in Nat /\ Len(g) = Len(h) + 1 /\ (\A i \in 1..Len(h) : g[i] = h[i]) /\ g[Len(h) + 1] = m
  BY AppendProperties
<1>2. PICK i \in 1..Len(h) : h[i].role = "assistant" /\ h[i].text = s /\ \A j \in i + 1..Len(h) : h[j].role = "user"
  BY DEF Remembers
<1>3. i \in 1..Len(g) /\ g[i] = h[i] /\ \A j \in i + 1..Len(g) : (j \in i + 1..Len(h) /\ j \in 1..Len(h)) \/ j = Len(h) + 1
  BY <1>1
<1>4. \A j \in i + 1..Len(g) : g[j].role = "user"
  BY <1>1, <1>2, <1>3
<1> QED
  BY <1>2, <1>3, <1>4 DEF Remembers

HistTypes ==
    /\ channel \in Channels /\ phase \in {"idle", "run", "paused"} /\ history \in Seq(Spoken) /\ inter \in Seq(Spoken)
    /\ last \in Texts \cup {NoText} /\ open \subseteq Ids /\ resumed \in BOOLEAN /\ histAsked \in {Hist!Nobody} \cup Questions
    /\ turns \in 0..MaxTurns

\* What the run would leave fits, and the calls that are open are those of the unit at its end.
RunFits(h, q, o) == Fit(h \o StoredOf(q)) /\ (o # {} => OpenUnit(h \o StoredOf(q), o))

HistInv ==
    /\ HistTypes
    /\ Fit(history)
    /\ phase = "run" /\ ~resumed => RunFits(history, inter, open)
    /\ channel = "web" /\ phase = "run" /\ ~resumed /\ inter = <<>> => EndsWith(history, histAsked)
    /\ channel = "wecom" => phase # "paused" /\ (phase = "run" => histAsked \in Questions)
    /\ said # NoText => Remembers(history, said)

LEMMA FitSpoken ==
    ASSUME NEW h \in Seq(Spoken), Fit(h), NEW m \in Spoken, m.results = {}
    PROVE  Fit(Append(h, m)) /\ Append(h, m) \in Seq(Spoken) /\ EndsWith(Append(h, m), m)
<1>1. h \in Seq(Messages) /\ m \in Messages
  BY SpokenIs DEF Spoken
<1>2. Append(h, m) \in Seq(Spoken)
  BY AppendProperties
<1> QED
  BY <1>1, <1>2, FitPlain

LEMMA LeftIs ==
    ASSUME NEW h \in Seq(Spoken), NEW q \in Seq(Spoken)
    PROVE  h \o StoredOf(q) \in Seq(Spoken) /\ h \o StoredOf(<<>>) = h
<1>1. StoredOf(q) \in Seq(Spoken) /\ StoredOf(<<>>) = <<>>
  BY StoredIs
<1> QED
  BY <1>1, ConcatProperties, ConcatEmptySeq

LEMMA LeftMore ==
    ASSUME NEW h \in Seq(Spoken), NEW q \in Seq(Spoken), NEW m \in Spoken
    PROVE  h \o StoredOf(Append(q, m)) = IF Hist!ShouldPersist(m) THEN Append(h \o StoredOf(q), m) ELSE h \o StoredOf(q)
<1>1. StoredOf(q) \in Seq(Spoken)
  BY StoredIs
<1>2. h \o Append(StoredOf(q), m) = Append(h \o StoredOf(q), m)
  BY <1>1, AppendBehind
<1>3. StoredOf(Append(q, m)) = IF Hist!ShouldPersist(m) THEN Append(StoredOf(q), m) ELSE StoredOf(q)
  BY StoredMore
<1> QED
  BY <1>2, <1>3

\* The run answers, ...
LEMMA TextFits ==
    ASSUME NEW h \in Seq(Spoken), NEW q \in Seq(Spoken), NEW o, RunFits(h, q, o), NEW t \in Texts \cup {NoText}
    PROVE  RunFits(h, Append(q, Hist!Assistant(t, {})), o)
<1> PICK m : m = Hist!Assistant(t, {})
  OBVIOUS
<1>1. m \in Spoken /\ m.calls = {} /\ m.role = "assistant"
  BY SpokenAre
<1>2. ~Hist!ShouldPersist(m)
  BY <1>1 DEF Hist!ShouldPersist
<1>3. h \o StoredOf(Append(q, m)) = h \o StoredOf(q)
  BY <1>1, <1>2, LeftMore
<1> QED
  BY <1>3 DEF RunFits

\* ... it calls tools, ...
LEMMA CallsFit ==
    ASSUME NEW h \in Seq(Spoken), NEW q \in Seq(Spoken), NEW o, RunFits(h, q, o), NEW t \in Texts \cup {NoText},
           NEW c \in SUBSET Ids, c # {}
    PROVE  RunFits(h, Append(q, Hist!Assistant(t, c)), c)
<1> PICK m : m = Hist!Assistant(t, c)
  OBVIOUS
<1>1. m \in Spoken /\ m.calls = c /\ m.results = {}
  BY SpokenAre
<1>2. Hist!ShouldPersist(m)
  BY <1>1 DEF Hist!ShouldPersist
<1> PICK v, g : v = h \o StoredOf(q) /\ g = h \o StoredOf(Append(q, m))
  OBVIOUS
<1>3. g = Append(v, m) /\ v \in Seq(Spoken) /\ Fit(v)
  BY <1>1, <1>2, LeftMore, LeftIs DEF RunFits
<1>4. Fit(g)
  BY <1>1, <1>3, FitSpoken
<1>5. Longer(v, m, g)
  BY <1>1, <1>3, SpokenIs, LongerIs DEF Spoken
<1> PICK u : u = Len(g)
  OBVIOUS
<1>6. u \in 1..Len(g) /\ g[u] = m /\ u + 1..Len(g) = {}
  BY <1>5 DEF Longer
<1>7. Unit(g, u, Len(g)) /\ Answered(g, u) = {}
  BY <1>1, <1>6 DEF Unit, Answered
<1>8. OpenUnit(g, c)
  BY <1>1, <1>6, <1>7 DEF OpenUnit
<1> QED
  BY <1>4, <1>8 DEF RunFits

\* ... and a tool answers.
LEMMA ResultFits ==
    ASSUME NEW h \in Seq(Spoken), NEW q \in Seq(Spoken), NEW o, RunFits(h, q, o), NEW i \in Ids, i \in o, NEW n \in Sizes
    PROVE  RunFits(h, Append(q, Hist!ToolResult(i, n)), o \ {i})
<1> PICK m : m = Hist!ToolResult(i, n)
  OBVIOUS
<1>1. m \in Spoken /\ m.calls = {} /\ m.results = {i} /\ m.role = "tool"
  BY SpokenAre
<1>2. Hist!ShouldPersist(m)
  BY <1>1 DEF Hist!ShouldPersist
<1> PICK v, g : v = h \o StoredOf(q) /\ g = h \o StoredOf(Append(q, m))
  OBVIOUS
<1>3. g = Append(v, m) /\ v \in Seq(Spoken) /\ Fit(v)
  BY <1>1, <1>2, LeftMore, LeftIs DEF RunFits
<1>4. Longer(v, m, g)
  BY <1>1, <1>3, SpokenIs, LongerIs DEF Spoken
<1>5. PICK u \in 1..Len(v) : Unit(v, u, Len(v)) /\ o = v[u].calls \ Answered(v, u)
  BY DEF RunFits, OpenUnit
<1>6. Len(v) \in Nat /\ Len(g) = Len(v) + 1 /\ (\A k \in 1..Len(v) : g[k] = v[k]) /\ g[Len(g)] = m
  BY <1>4 DEF Longer
<1>7. u \in 1..Len(g) /\ u \in 1..Len(g) - 1 /\ g[u] = v[u] /\ Len(g) - 1 = Len(v)
  <2> PICK z : z = Len(v)
    OBVIOUS
  <2>1. z \in Nat /\ Len(g) = z + 1 /\ u \in 1..z /\ g[u] = v[u]
    BY <1>5, <1>6
  <2> QED
    BY <2>1
<1>8. ASSUME NEW k \in u + 1..Len(v)
      PROVE  k \in 1..Len(v) /\ g[k] = v[k] /\ v[k].results # {} /\ i \notin v[k].results
  <2>1. i \notin Answered(v, u)
    BY <1>5
  <2>2. v[k].results \in {v[j].results : j \in u + 1..Len(v)}
    OBVIOUS
  <2>3. i \notin v[k].results
    BY <2>1, <2>2 DEF Answered
  <2>4. \A j \in u + 1..Len(v) : v[j].results # {}
    BY <1>5 DEF Unit
  <2>5. k \in 1..Len(v) /\ v[k].results # {}
    BY SMTT(30), <1>6, <2>4
  <2> QED
    BY <1>6, <2>3, <2>5
<1>9. FitAt(g, Len(g))
  <2>1. Len(g) - 1 = Len(v) /\ u \in 1..Len(g) - 1 /\ g[u] = v[u]
    BY <1>7
  <2>2. Unit(g, u, Len(v))
    <3>1. \A k \in u + 1..Len(v) : g[k].results # {}
      BY <1>8
    <3>2. g[u].calls # {}
      BY <1>5, <2>1 DEF Unit
    <3> QED
      BY <3>1, <3>2 DEF Unit
  <2>3. g[Len(g)].results \subseteq g[u].calls /\ \A k \in u + 1..Len(v) : g[k].results \cap g[Len(g)].results = {}
    <3>1. \A k \in u + 1..Len(v) : g[k].results \cap {i} = {}
      BY <1>8
    <3>2. g[Len(g)].results = {i} /\ g[u].calls = v[u].calls
      BY <1>1, <1>6, <2>1
    <3>3. i \in v[u].calls
      BY <1>5
    <3> QED
      BY <3>1, <3>2, <3>3
  <2> PICK e : e = Len(g)
    OBVIOUS
  <2>4. /\ u \in 1..e - 1 /\ Unit(g, u, e - 1) /\ g[e].results \subseteq g[u].calls
        /\ \A k \in u + 1..e - 1 : g[k].results \cap g[e].results = {}
    BY <2>1, <2>2, <2>3
  <2>5. FitAt(g, e)
    BY <2>4 DEF FitAt
  <2> QED
    BY <2>5
<1>10. Fit(g)
  BY <1>3, <1>4, <1>9, FitMore
<1>11. Unit(g, u, Len(g)) /\ Answered(g, u) = Answered(v, u) \cup {i}
  BY <1>1, <1>4, <1>5, KeptResult
<1>12. OpenUnit(g, o \ {i})
  <2>1. u \in 1..Len(g) /\ g[u] = v[u]
    BY <1>7
  <2>2. o \ {i} = g[u].calls \ Answered(g, u)
    BY <1>5, <1>11, <2>1
  <2> QED
    BY <1>11, <2>1, <2>2 DEF OpenUnit
<1> QED
  BY <1>10, <1>12 DEF RunFits

LEMMA AnswerAdded ==
    ASSUME NEW h \in Seq(Spoken), Fit(h), NEW t \in Texts \cup {NoText}, NEW g,
           g = IF t = NoText \/ (h # <<>> /\ Hist!Last(h).role = "assistant" /\ Hist!Last(h).text = t) THEN h
               ELSE Append(h, Hist!Assistant(t, {}))
    PROVE  g \in Seq(Spoken) /\ Fit(g) /\ (t # NoText => Remembers(g, t))
<1>1. h \in Seq(Messages) /\ Len(h) \in Nat
  BY SpokenIs
<1>2. CASE t = NoText
  BY <1>2
<1>3. CASE t # NoText /\ h # <<>> /\ Hist!Last(h).role = "assistant" /\ Hist!Last(h).text = t
  <2>1. g = h
    BY <1>3
  <2>2. EndsWith(h, h[Len(h)]) /\ h[Len(h)].role = "assistant" /\ h[Len(h)].text = t
    <3>1. Len(h) > 0
      BY <1>1, <1>3, EmptySeq
    <3> QED
      BY <1>3, <3>1 DEF EndsWith, Hist!Last
  <2> QED
    BY <1>1, <2>1, <2>2, RememberedAtEnd
<1>4. CASE t # NoText /\ ~(h # <<>> /\ Hist!Last(h).role = "assistant" /\ Hist!Last(h).text = t)
  <2> PICK m : m = Hist!Assistant(t, {})
    OBVIOUS
  <2>1. m \in Spoken /\ m.results = {} /\ m.role = "assistant" /\ m.text = t
    BY SpokenAre
  <2>2. g = Append(h, m)
    BY <1>4
  <2>3. Fit(g) /\ g \in Seq(Spoken) /\ EndsWith(g, m)
    BY <2>1, <2>2, FitSpoken
  <2>4. Remembers(g, t)
    BY <2>1, <2>3, SpokenIs, RememberedAtEnd
  <2> QED
    BY <2>3, <2>4
<1> QED
  BY <1>2, <1>3, <1>4

\* What a run that is over leaves in the history.
LEMMA WrittenIs ==
    ASSUME HistInv, phase = "run"
    PROVE  Hist!Written \in Seq(Spoken) /\ Fit(Hist!Written) /\ (last # NoText => Remembers(Hist!Written, last))
<1>1. history \in Seq(Spoken) /\ inter \in Seq(Spoken) /\ last \in Texts \cup {NoText} /\ resumed \in BOOLEAN /\ Fit(history)
  BY DEF HistInv, HistTypes
<1>2. CASE resumed
  <2>1. Hist!Written = IF last = NoText \/ (history # <<>> /\ Hist!Last(history).role = "assistant" /\ Hist!Last(history).text = last)
                       THEN history ELSE Append(history, Hist!Assistant(last, {}))
    BY <1>2 DEF Hist!Written, Hist!PersistedAnswer, Hist!AlreadyFinal
  <2> QED
    BY <1>1, <2>1, AnswerAdded
<1>3. CASE ~resumed
  <2> PICK v : v = history \o StoredOf(inter)
    OBVIOUS
  <2>1. v \in Seq(Spoken) /\ Fit(v)
    BY <1>1, <1>3, LeftIs DEF HistInv, RunFits
  <2>2. Hist!Written = IF last = NoText \/ (v # <<>> /\ Hist!Last(v).role = "assistant" /\ Hist!Last(v).text = last)
                       THEN v ELSE Append(v, Hist!Assistant(last, {}))
    BY <1>3 DEF Hist!Written, Hist!Persisted, Hist!AlreadyFinal, StoredOf
  <2> QED
    BY <1>1, <2>1, <2>2, AnswerAdded
<1> QED
  BY <1>2, <1>3

LEMMA HistStart ==
    ASSUME Hist!Init
    PROVE  HistInv
<1> USE DEF Hist!Init
<1>1. HistTypes
  <2>1. <<>> \in Seq(Spoken)
    BY EmptySeq
  <2>2. 0 \in 0..MaxTurns
    BY HistConstants
  <2> QED
    BY <2>1, <2>2 DEF HistTypes
<1>2. Fit(history)
  BY DEF Fit
<1> QED
  BY <1>1, <1>2 DEF HistInv

\* The run has one message more.
LEMMA HistRuns ==
    ASSUME HistInv, phase = "run", NEW m \in Spoken, inter' = Append(inter, m), last' \in Texts \cup {NoText}, open' \subseteq Ids,
           ~resumed => RunFits(history, Append(inter, m), open'),
           channel' = channel, history' = history, phase' = phase, resumed' = resumed, histAsked' = histAsked,
           turns' = turns, said' = said
    PROVE  HistInv'
<1>1. inter' \in Seq(Spoken) /\ inter' # <<>>
  BY AppendProperties DEF HistInv, HistTypes
<1>2. HistTypes'
  BY <1>1 DEF HistInv, HistTypes
<1>3. Fit(history')
  BY DEF HistInv
<1>4. phase' = "run" /\ ~resumed' => RunFits(history', inter', open')
  OBVIOUS
<1>5. channel' = "wecom" => phase' # "paused" /\ (phase' = "run" => histAsked' \in Questions)
  BY DEF HistInv
<1>6. said' # NoText => Remembers(history', said')
  BY DEF HistInv
<1> QED
  BY <1>1, <1>2, <1>3, <1>4, <1>5, <1>6 DEF HistInv

\* A turn is over, or paused.
LEMMA HistEnds ==
    ASSUME HistInv, history' \in Seq(Spoken), Fit(history'), said' # NoText => Remembers(history', said'),
           phase' \in {"idle", "paused"}, channel = "wecom" => phase' = "idle",
           Hist!Forget({}) \/ Hist!Forget(open), channel' = channel, turns' = turns
    PROVE  HistInv'
<1>1. inter' = <<>> /\ last' = NoText /\ (open' = {} \/ open' = open) /\ resumed' = FALSE /\ histAsked' = Hist!Nobody
  BY DEF Hist!Forget
<1>2. <<>> \in Seq(Spoken)
  BY EmptySeq
<1>3. HistTypes'
  BY <1>1, <1>2 DEF HistInv, HistTypes
<1>4. phase' # "run" /\ (channel' = "wecom" => phase' # "paused")
  OBVIOUS
<1> QED
  BY <1>3, <1>4 DEF HistInv

LEMMA HistAsk ==
    ASSUME HistInv, NEW n \in Sizes, Hist!Ask(n)
    PROVE  HistInv'
<1> PICK m : m = Hist!User(n)
  OBVIOUS
<1>1. m \in Spoken /\ m.results = {} /\ m.role = "user" /\ m \in Questions
  BY SpokenAre DEF Plain, Questions
<1>2. history \in Seq(Spoken) /\ Fit(history) /\ channel \in Channels /\ turns \in 0..MaxTurns
  BY DEF HistInv, HistTypes
<1>3. /\ phase' = "run" /\ inter' = <<>> /\ last' = NoText /\ open' = {} /\ resumed' = FALSE /\ histAsked' = m
      /\ turns' = turns + 1 /\ turns < MaxTurns /\ channel' = channel /\ said' = said
      /\ history' = IF channel = "web" THEN Append(history, m) ELSE history
  BY DEF Hist!Ask, Hist!NewRun
<1>4. history' \in Seq(Spoken) /\ Fit(history') /\ (channel = "web" => EndsWith(history', m))
  BY <1>1, <1>2, <1>3, FitSpoken
<1>5. HistTypes'
  <2>1. <<>> \in Seq(Spoken)
    BY EmptySeq
  <2>2. turns' \in 0..MaxTurns
    BY <1>2, <1>3, HistConstants
  <2> QED
    BY <1>1, <1>2, <1>3, <1>4, <2>1, <2>2 DEF HistTypes
<1>6. RunFits(history', inter', open')
  <2>1. <<>> \in Seq(Spoken)
    BY EmptySeq
  <2>2. history' \o StoredOf(<<>>) = history'
    BY <1>4, <2>1, LeftIs
  <2> QED
    BY <1>3, <1>4, <2>2 DEF RunFits
<1>7. said' # NoText => Remembers(history', said')
  <2>1. said # NoText => Remembers(history, said)
    BY DEF HistInv
  <2>2. history \in Seq(Messages) /\ m \in Messages
    BY <1>1, <1>2, SpokenIs DEF Spoken
  <2>3. said # NoText => Remembers(Append(history, m), said)
    BY <1>1, <2>1, <2>2, RememberedMore
  <2> QED
    BY <1>3, <2>1, <2>3
<1> QED
  BY <1>1, <1>3, <1>4, <1>5, <1>6, <1>7 DEF HistInv

\* A question and its answer are persisted together.
LEMMA BothAdded ==
    ASSUME NEW h \in Seq(Spoken), Fit(h), NEW a \in Questions, NEW t \in Texts, NEW g, g = h \o <<a, Hist!Assistant(t, {})>>
    PROVE  g \in Seq(Spoken) /\ Fit(g) /\ Remembers(g, t)
<1> PICK b : b = Hist!Assistant(t, {})
  OBVIOUS
<1>1. a \in Spoken /\ a.results = {}
  BY SpokenAre DEF Questions, Plain
<1>2. b \in Spoken /\ b.results = {} /\ b.role = "assistant" /\ b.text = t
  BY SpokenAre
<1>3. g = Append(Append(h, a), b)
  BY <1>1, <1>2, TwoMore
<1>4. Append(h, a) \in Seq(Spoken) /\ Fit(Append(h, a))
  BY <1>1, FitSpoken
<1>5. g \in Seq(Spoken) /\ Fit(g) /\ EndsWith(g, b)
  BY <1>2, <1>3, <1>4, FitSpoken
<1>6. Remembers(g, t)
  BY <1>2, <1>5, SpokenIs, RememberedAtEnd
<1> QED
  BY <1>5, <1>6

LEMMA HistStep ==
    ASSUME HistInv, Hist!Next
    PROVE  HistInv'
<1>1. ASSUME NEW n \in Sizes, NEW t \in Texts, Hist!Reject(n, t) PROVE HistInv'
  <2>1. /\ channel = "wecom" /\ phase = "idle" /\ turns < MaxTurns /\ turns' = turns + 1
        /\ history' = history \o <<Hist!User(n), Hist!Assistant(t, {})>> /\ said' = t
        /\ channel' = channel /\ phase' = phase /\ inter' = inter /\ last' = last /\ open' = open /\ resumed' = resumed
        /\ histAsked' = histAsked
    BY <1>1 DEF Hist!Reject, Hist!run
  <2>2. history \in Seq(Spoken) /\ Fit(history) /\ Hist!User(n) \in Questions
    BY DEF HistInv, HistTypes, Questions
  <2>3. history' \in Seq(Spoken) /\ Fit(history') /\ Remembers(history', t)
    BY <2>1, <2>2, BothAdded
  <2>4. turns' \in 0..MaxTurns
    BY <2>1, HistConstants DEF HistInv, HistTypes
  <2>5. HistTypes'
    BY <2>1, <2>3, <2>4 DEF HistInv, HistTypes
  <2> QED
    BY <2>1, <2>3, <2>5 DEF HistInv
<1>2. ASSUME NEW n \in Sizes, NEW i \in Ids, Hist!ToolAnswers(i, n) PROVE HistInv'
  <2> PICK m : m = Hist!ToolResult(i, n)
    OBVIOUS
  <2>1. /\ phase = "run" /\ i \in open /\ inter' = Append(inter, m) /\ open' = open \ {i} /\ m \in Spoken
        /\ channel' = channel /\ history' = history /\ phase' = phase /\ last' = last /\ resumed' = resumed
        /\ histAsked' = histAsked /\ turns' = turns /\ said' = said
    BY <1>2, SpokenAre DEF Hist!ToolAnswers, Hist!Room
  <2>2. history \in Seq(Spoken) /\ inter \in Seq(Spoken) /\ last \in Texts \cup {NoText} /\ open \subseteq Ids
    BY DEF HistInv, HistTypes
  <2>3. ~resumed => RunFits(history, Append(inter, m), open')
    <3>1. ~resumed => RunFits(history, inter, open)
      BY <2>1 DEF HistInv
    <3> QED
      BY <2>1, <2>2, <3>1, ResultFits
  <2> QED
    BY <2>1, <2>2, <2>3, HistRuns
<1>3. ASSUME NEW t \in Texts, Hist!Speak(t) PROVE HistInv'
  <2> PICK m : m = Hist!Assistant(t, {})
    OBVIOUS
  <2>1. /\ phase = "run" /\ inter' = Append(inter, m) /\ open' = open /\ last' = t /\ m \in Spoken
        /\ channel' = channel /\ history' = history /\ phase' = phase /\ resumed' = resumed
        /\ histAsked' = histAsked /\ turns' = turns /\ said' = said
    BY <1>3, SpokenAre DEF Hist!Speak, Hist!Room
  <2>2. history \in Seq(Spoken) /\ inter \in Seq(Spoken) /\ open \subseteq Ids
    BY DEF HistInv, HistTypes
  <2>3. ~resumed => RunFits(history, Append(inter, m), open')
    <3>1. ~resumed => RunFits(history, inter, open)
      BY <2>1 DEF HistInv
    <3> QED
      BY <2>1, <2>2, <3>1, TextFits
  <2> QED
    BY <2>1, <2>2, <2>3, HistRuns
<1>4. ASSUME NEW t \in Texts \cup {NoText}, NEW c \in SUBSET Ids, Hist!CallTools(t, c) PROVE HistInv'
  <2> PICK m : m = Hist!Assistant(t, c)
    OBVIOUS
  <2>1. /\ phase = "run" /\ c # {} /\ inter' = Append(inter, m) /\ open' = c /\ last' = (IF t = NoText THEN last ELSE t) /\ m \in Spoken
        /\ channel' = channel /\ history' = history /\ phase' = phase /\ resumed' = resumed
        /\ histAsked' = histAsked /\ turns' = turns /\ said' = said
    BY <1>4, SpokenAre DEF Hist!CallTools, Hist!Room
  <2>2. history \in Seq(Spoken) /\ inter \in Seq(Spoken) /\ last' \in Texts \cup {NoText} /\ open' \subseteq Ids
    BY <2>1 DEF HistInv, HistTypes
  <2>3. ~resumed => RunFits(history, Append(inter, m), open')
    <3>1. ~resumed => RunFits(history, inter, open)
      BY <2>1 DEF HistInv
    <3> QED
      BY <2>1, <2>2, <3>1, CallsFit
  <2> QED
    BY <2>1, <2>2, <2>3, HistRuns
<1>5. ASSUME NEW t \in Texts, Hist!Reply(t) PROVE HistInv'
  <2> PICK s : s = Hist!Answer(t)
    OBVIOUS
  <2>1. /\ channel = "wecom" /\ phase = "run" /\ said' = s /\ history' = history \o <<histAsked, Hist!Assistant(s, {})>>
        /\ phase' = "idle" /\ Hist!Forget({}) /\ channel' = channel /\ turns' = turns
    BY <1>5 DEF Hist!Reply
  <2>2. s \in Texts
    BY DEF Hist!Answer, HistInv, HistTypes
  <2>3. history \in Seq(Spoken) /\ Fit(history) /\ histAsked \in Questions
    BY <2>1 DEF HistInv, HistTypes
  <2>4. history' \in Seq(Spoken) /\ Fit(history') /\ Remembers(history', s)
    BY <2>1, <2>2, <2>3, BothAdded
  <2> QED
    BY <2>1, <2>4, HistEnds
<1>6. ASSUME Hist!Finish \/ Hist!Interrupt PROVE HistInv'
  <2>1. /\ channel = "web" /\ phase = "run" /\ history' = Hist!Written /\ said' = last /\ phase' \in {"idle", "paused"}
        /\ Hist!Forget({}) \/ Hist!Forget(open)
        /\ channel' = channel /\ turns' = turns
    BY <1>6 DEF Hist!Finish, Hist!Interrupt
  <2>2. history' \in Seq(Spoken) /\ Fit(history') /\ (said' # NoText => Remembers(history', said'))
    BY <2>1, WrittenIs
  <2> QED
    BY <2>1, <2>2, HistEnds
<1>7. ASSUME Hist!Approve PROVE HistInv'
  <2>1. /\ phase = "paused" /\ turns < MaxTurns /\ turns' = turns + 1 /\ phase' = "run" /\ inter' = <<>> /\ last' = NoText
        /\ resumed' = TRUE /\ channel' = channel /\ history' = history /\ open' = open /\ histAsked' = histAsked /\ said' = said
    BY <1>7 DEF Hist!Approve, Hist!NewRun
  <2>2. turns' \in 0..MaxTurns
    BY <2>1, HistConstants DEF HistInv, HistTypes
  <2>3. HistTypes'
    <3>1. <<>> \in Seq(Spoken)
      BY EmptySeq
    <3> QED
      BY <2>1, <2>2, <3>1 DEF HistInv, HistTypes
  <2> QED
    BY <2>1, <2>3 DEF HistInv
<1>8. ASSUME Hist!Cancel PROVE HistInv'
  <2>1. /\ channel = "web" /\ phase' = "idle" /\ Hist!Forget({})
        /\ channel' = channel /\ history' = history /\ turns' = turns /\ said' = said
    BY <1>8 DEF Hist!Cancel
  <2>2. history' \in Seq(Spoken) /\ Fit(history') /\ (said' # NoText => Remembers(history', said'))
    BY <2>1 DEF HistInv, HistTypes
  <2> QED
    BY <2>1, <2>2, HistEnds
<1> QED
  BY <1>1, <1>2, <1>3, <1>4, <1>5, <1>6, <1>7, <1>8, HistAsk DEF Hist!Next

LEMMA HistKeeps ==
    ASSUME HistInv
    PROVE  HistoryTells
<1>1. history \in Seq(Spoken) /\ inter \in Seq(Spoken) /\ history \in Seq(Messages) /\ Fit(history)
  BY SpokenIs DEF HistInv, HistTypes
<1>2. DOMAIN history = 1..Len(history) /\ DOMAIN inter = 1..Len(inter) /\ Len(history) \in Nat
  BY <1>1, LenProperties
<1>3. Hist!TypeOK
  <2>1. ASSUME NEW q \in Seq(Spoken), NEW m \in Hist!Range(q)
        PROVE  m.role \in {"user", "assistant", "tool"} /\ m.calls \subseteq Ids /\ m.results \subseteq Ids
    <3>1. PICK i \in 1..Len(q) : m = q[i]
      BY LenProperties DEF Hist!Range
    <3>2. m \in Spoken
      BY <3>1, SpokenIs
    <3> QED
      BY <3>2 DEF Spoken, Messages, AnyMessage
  <2>2. \A m \in Hist!Range(history) \cup Hist!Range(inter) :
            m.role \in {"user", "assistant", "tool"} /\ m.calls \subseteq Ids /\ m.results \subseteq Ids
    BY <1>1, <2>1
  <2> QED
    BY <2>2 DEF Hist!TypeOK, HistInv, HistTypes
<1>4. histAsked \in Messages /\ Plain(histAsked)
  BY SpokenAre DEF HistInv, HistTypes, Questions, Spoken
<1> PICK c : c = Hist!CompactHistory(history)
  OBVIOUS
<1>5. /\ c \in Seq(Messages) /\ Good(c)
      /\ \A m : EndsWith(history, m) /\ Plain(m) /\ m.size <= MaxChars => EndsWith(c, m)
  BY <1>1, CompactIs
<1>6. Longer(c, histAsked, Append(c, histAsked))
  BY <1>4, <1>5, LongerIs
<1>7. Hist!Prompt = IF channel = "web" THEN c ELSE Append(c, histAsked)
  BY DEF Hist!Prompt
<1>8. Hist!PromptWellFormed
  <2>1. Good(Append(c, histAsked)) /\ Append(c, histAsked) \in Seq(Messages)
    BY <1>4, <1>5, <1>6, GoodPlain DEF Plain, Longer
  <2>2. Good(Hist!Prompt) /\ Hist!Prompt \in Seq(Messages)
    BY <1>5, <1>7, <2>1
  <2> QED
    BY <2>2, GoodIsWell DEF Hist!PromptWellFormed
<1>9. Hist!SanitizeIsExact
  <2> SUFFICES ASSUME NEW n \in 0..Len(history)
               PROVE  Hist!SanitizeToolHistory(Hist!Newest(history, n)) = Hist!Whole(Hist!Newest(history, n))
    BY DEF Hist!SanitizeIsExact
  <2> PICK w : w = Hist!Newest(history, n)
    OBVIOUS
  <2>1. PICK d : EndOf(history, w, d)
    <3>1. n \in Nat
      BY <1>2
    <3> QED
      BY <1>1, <3>1, NewestIs
  <2>2. w \in Seq(Messages) /\ Fit(w)
    BY <1>1, <2>1, FitEnd DEF EndOf
  <2> QED
    BY <2>2, SanitizeIs
<1>10. Hist!QuestionShown
  <2> SUFFICES ASSUME phase = "run", inter = <<>>, ~resumed, channel = "web" => histAsked.size <= MaxChars
               PROVE  Hist!Prompt # <<>> /\ Hist!Last(Hist!Prompt) = histAsked
    BY DEF Hist!QuestionShown
  <2>1. EndsWith(Hist!Prompt, histAsked)
    <3>1. CASE channel = "web"
      <4>1. EndsWith(history, histAsked)
        BY <3>1 DEF HistInv
      <4> QED
        BY <1>4, <1>5, <1>7, <3>1, <4>1
    <3>2. CASE channel # "web"
      BY <1>6, <1>7, <3>2 DEF Longer, EndsWith
    <3> QED
      BY <3>1, <3>2
  <2>2. Len(<<>>) = 0
    OBVIOUS
  <2> QED
    BY <2>1, <2>2 DEF EndsWith, Hist!Last
<1>11. Hist!AnswerRemembered
  BY <1>2 DEF Hist!AnswerRemembered, HistInv, Remembers
<1> QED
  BY <1>3, <1>8, <1>9, <1>10, <1>11 DEF HistoryTells

\* What holds of the component a behaviour is about.
WayInv ==
    /\ part = "limiter" => LimiterInv
    /\ part = "chain" => ChainInv
    /\ part = "screen" => ScreenInv
    /\ part = "history" => HistInv

LEMMA WayStart == PartInit => WayInv
BY LimiterStart, ChainStart, ScreenStart, HistStart DEF PartInit, WayInv

LEMMA WayStep ==
    ASSUME WayInv, [PartNext]_allVars
    PROVE  WayInv'
<1>1. CASE part = "limiter" /\ Limit!Next /\ UNCHANGED <<part, ChainVars, ScreenVars, HistVars>>
  <2>1. LimiterInv' /\ part' = part
    BY <1>1, LimiterStep DEF WayInv
  <2> QED
    BY <1>1, <2>1 DEF WayInv
<1>2. CASE part = "chain" /\ Chain!Next /\ UNCHANGED <<part, LimitVars, ScreenVars, HistVars>>
  <2>1. ChainInv' /\ part' = part
    BY <1>2, ChainStep DEF WayInv
  <2> QED
    BY <1>2, <2>1 DEF WayInv
<1>3. CASE part = "screen" /\ Screen!Next /\ UNCHANGED <<part, LimitVars, ChainVars, HistVars>>
  <2>1. ScreenInv' /\ part' = part
    BY <1>3, ScreenStep DEF WayInv
  <2> QED
    BY <1>3, <2>1 DEF WayInv
<1>4. CASE part = "history" /\ Hist!Next /\ UNCHANGED <<part, LimitVars, ChainVars, ScreenVars>>
  <2>1. HistInv' /\ part' = part
    BY <1>4, HistStep DEF WayInv
  <2> QED
    BY <1>4, <2>1 DEF WayInv
<1>5. CASE UNCHANGED allVars
  <2>1. /\ part' = part /\ now' = now /\ asks' = asks /\ global' = global /\ bucket' = bucket /\ ll' = ll
        /\ evictedLL' = evictedLL /\ found' = found /\ due' = due /\ over' = over /\ forgotten' = forgotten /\ torn' = torn
    BY <1>5 DEF allVars, LimitVars
  <2>2. /\ chain' = chain /\ buildable' = buildable /\ used' = used /\ turn' = turn /\ chainNow' = chainNow
        /\ monitor' = monitor /\ notices' = notices /\ heard' = heard
    BY <1>5 DEF allVars, ChainVars
  <2>3. /\ words' = words /\ trie' = trie /\ hasModel' = hasModel /\ check' = check /\ metrics' = metrics
        /\ asked' = asked /\ gate' = gate
    BY <1>5 DEF allVars, ScreenVars
  <2>4. /\ channel' = channel /\ history' = history /\ phase' = phase /\ inter' = inter /\ last' = last /\ open' = open
        /\ resumed' = resumed /\ histAsked' = histAsked /\ turns' = turns /\ said' = said
    BY <1>5 DEF allVars, HistVars
  <2>5. LimiterInv => LimiterInv'
    <3> SUFFICES ASSUME LimiterInv PROVE LimiterInv'
      OBVIOUS
    <3>1. Limit!TypeOK'
      BY <2>1 DEF LimiterInv, Limit!TypeOK
    <3>2. LimiterLists' /\ LimiterDues'
      BY <2>1 DEF LimiterInv, LimiterLists, LimiterDues, Members, Distinct, Spared, KeyOf
    <3> QED
      BY <3>1, <3>2 DEF LimiterInv
  <2>6. ChainInv => ChainInv'
    <3> SUFFICES ASSUME ChainInv PROVE ChainInv'
      OBVIOUS
    <3>1. /\ turn' \in Turn /\ Follows(turn') /\ (used = "none" => turn'.phase = "idle")
          /\ chainNow' \in Times /\ MonitorOK(monitor')
      BY <2>2 DEF ChainInv
    <3> QED
      BY <2>2, <3>1, ChainStays
  <2>7. ScreenInv => ScreenInv'
    <3>1. AllWords' = AllWords
      BY <2>3 DEF AllWords
    <3> QED
      BY <2>3, <3>1 DEF ScreenInv
  <2>8. HistInv => HistInv'
    BY <2>4 DEF HistInv, HistTypes
  <2> QED
    BY <2>1, <2>5, <2>6, <2>7, <2>8 DEF WayInv
<1> QED
  BY <1>1, <1>2, <1>3, <1>4, <1>5 DEF PartNext

\* Of every component, for every value of the constants, on the way of a message: the limiter
\* keeps its lists short and its allowance, the chain asks every model before it gives up, runs a
\* writing tool once and spaces its alerts, the filter finds exactly the words registered in small
\* letters and counts every message, and the history shows the model whole units, the question, and
\* keeps the answer (server/ratelimit.go, chatmodel/fallback.go, sensitive/sensitive.go,
\* server/server.go).  The threshold of the gate is negative, as the default of the server is: usual
\* messages score zero.
THEOREM WaysKept ==
    ASSUME Threshold < 0
    PROVE  PartSpec => []WayKept
<1>1. WayInv => WayKept
  BY LimiterKeeps, ChainKeeps, ScreenKeeps, HistKeeps DEF WayInv, WayKept
<1> QED
  BY <1>1, WayStart, WayStep, PTL DEF PartSpec
=============================================================================
