-------------------------- MODULE Mediation_proofs ---------------------------
(***************************************************************************)
(* Proofs about the brokers, for any secrets, texts, keys, handlers,       *)
(* requests, grants and crashes, in three parts.                           *)
(*                                                                         *)
(*   - What Scrub and Sanitize do to a text of any length: which secrets   *)
(*     and tokens it can no longer show, and that scrubbing line by line   *)
(*     is scrubbing the whole.                                             *)
(*   - OAuthBroker: its type correctness and its safety.                   *)
(*   - Mediation: ExchangeInv, the inductive invariant of the exchanges,   *)
(*     and from it that no credential returns to a client, that streams    *)
(*     are scrubbed as if they were one text and that captures are sound.  *)
(***************************************************************************)
EXTENDS Mediation, SequenceTheorems, FiniteSetTheorems,
        WellFoundedInduction, TLAPS

-----------------------------------------------------------------------------
(* Induction and the rewriting of texts. A recursive function is a CHOOSE, *)
(* so it is shown to exist, by induction over sets of naturals, before     *)
(* anything else is shown of it.                                           *)

(* Every non-empty set of naturals has a least element.                    *)
LEMMA LeastNat ==
    ASSUME NEW T \in SUBSET Nat, T # {}
    PROVE  \E x \in T : \A y \in T : x <= y
<1> DEFINE R == OpToRel(<, Nat)
<1>1. IsWellFoundedOn(R, Nat)
  BY NatLessThanWellFounded
<1>2. \A a, b \in Nat : a < b => <<a, b>> \in R
  BY DEF OpToRel
<1> HIDE DEF R
<1>3. \E x \in T : \A y \in T : <<y, x>> \notin R
  BY <1>1, WFMin, Zenon
<1>4. PICK x \in T : \A y \in T : <<y, x>> \notin R
  BY <1>3, Zenon
<1>5. ASSUME NEW y \in T PROVE x <= y
  <2>1. x \in Nat /\ y \in Nat /\ ~(y < x)
    BY <1>2, <1>4
  <2>2. QED
    BY <2>1
<1>6. QED
  BY <1>4, <1>5

(* Induction over the naturals, with a set in place of a predicate.        *)
LEMMA NatInduct ==
    ASSUME NEW T, 0 \in T, \A n \in Nat : n \in T => n + 1 \in T
    PROVE  \A n \in Nat : n \in T
<1> DEFINE U == Nat \ T
<1>1. SUFFICES ASSUME U # {} PROVE FALSE
  OBVIOUS
<1>2. PICK x \in U : \A y \in U : x <= y
  BY <1>1, LeastNat
<1>3. QED
  BY <1>2, x - 1 \in Nat

(* Induction from the end of a text towards its start.                     *)
LEMMA Backward ==
    ASSUME NEW N \in Nat, NEW T, N + 1 \in T,
           \A i \in 1..N : (\A k \in (i + 1)..(N + 1) : k \in T) => i \in T
    PROVE  \A i \in 1..(N + 1) : i \in T
<1> DEFINE U == {n \in 0..N : N + 1 - n \notin T}
<1>1. SUFFICES ASSUME U # {} PROVE FALSE
  <2>1. ASSUME NEW i \in 1..(N + 1), U = {} PROVE i \in T
    <3>1. N + 1 - i \in 0..N /\ N + 1 - i \notin U /\ N + 1 - (N + 1 - i) = i
      BY <2>1
    <3>2. QED
      BY <3>1
  <2>2. QED
    BY <2>1
<1>2. PICK x \in U : \A y \in U : x <= y
  <2>1. U \in SUBSET Nat
    OBVIOUS
  <2> HIDE DEF U
  <2>2. QED
    BY <1>1, <2>1, LeastNat
<1>3. x # 0
  BY <1>2
<1> DEFINE i == N + 1 - x
<1>4. i \in 1..N /\ i \notin T
  BY <1>2, <1>3
<1>5. ASSUME NEW k \in (i + 1)..(N + 1) PROVE k \in T
  <2>1. N + 1 - k \in 0..N /\ N + 1 - k < x /\ N + 1 - (N + 1 - k) = k
    BY <1>2
  <2>2. N + 1 - k \notin U
    BY <1>2, <2>1
  <2>3. QED
    BY <2>1, <2>2
<1>6. QED
  BY <1>4, <1>5

(* The recursive function of Rewrite.                                      *)
Pieces(text, match, symbol) ==
    CHOOSE f : f = [i \in 1..(Len(text) + 1) |->
        IF i > Len(text) THEN <<>>
        ELSE IF match[i] = NoMatch THEN <<text[i]>> \o f[i + 1]
        ELSE <<symbol[match[i].secret]>> \o f[i + match[i].length]]

(* Rewrite is the first value of that function.                            *)
LEMMA RewriteIs ==
    ASSUME NEW text, NEW match, NEW symbol
    PROVE  Rewrite(text, match, symbol) = Pieces(text, match, symbol)[1]
BY Zenon DEF Rewrite, Pieces

(* A definition by recursion towards the end of an interval.               *)
Scans(f, N, head, next) ==
    \A i \in 1..(N + 1) :
        f[i] = IF i > N THEN <<>> ELSE head[i] \o f[next[i]]

(* So Scans has a solution, whatever is put together.                      *)
LEMMA ScanExists ==
    ASSUME NEW N \in Nat, NEW head, NEW next,
           \A i \in 1..N : next[i] \in (i + 1)..(N + 1)
    PROVE  \E f : Scans(f, N, head, next)
<1> DEFINE Solves(f, k) == \A i \in k..(N + 1) :
              f[i] = IF i > N THEN <<>> ELSE head[i] \o f[next[i]]
           T == {k \in 1..(N + 1) : \E f : Solves(f, k)}
<1>1. N + 1 \in T
  <2> DEFINE g == [i \in (N + 1)..(N + 1) |-> <<>>]
  <2>1. Solves(g, N + 1)
    <3>1. \A i \in (N + 1)..(N + 1) : g[i] = <<>> /\ i > N
      OBVIOUS
    <3> HIDE DEF g
    <3>2. QED
      BY <3>1
  <2> HIDE DEF Solves, g
  <2>2. N + 1 \in 1..(N + 1)
    OBVIOUS
  <2>3. QED
    BY <2>1, <2>2
<1>2. ASSUME NEW k \in 1..N, \A j \in (k + 1)..(N + 1) : j \in T
      PROVE  k \in T
  <2>1. k + 1 \in T
    <3> HIDE DEF T
    <3>1. k + 1 \in (k + 1)..(N + 1)
      OBVIOUS
    <3>2. QED
      BY <1>2, <3>1
  <2>2. PICK f : Solves(f, k + 1)
    <3> HIDE DEF Solves
    <3>1. QED
      BY <2>1
  <2> DEFINE g == [i \in k..(N + 1) |->
                     IF i = k THEN head[k] \o f[next[k]] ELSE f[i]]
  <2>3. ASSUME NEW i \in k..(N + 1)
        PROVE  g[i] = IF i > N THEN <<>> ELSE head[i] \o g[next[i]]
    <3>1. CASE i = k
      <4>1. next[k] \in k..(N + 1) /\ next[k] # k
        OBVIOUS
      <4>2. g[next[k]] = f[next[k]]
        BY <4>1
      <4>3. g[k] = head[k] \o f[next[k]]
        <5>1. k \in k..(N + 1)
          OBVIOUS
        <5>2. QED
          BY <5>1, Zenon
      <4>4. ~(k > N)
        OBVIOUS
      <4> HIDE DEF g
      <4>5. QED
        BY <3>1, <4>2, <4>3, <4>4
    <3>2. CASE i # k
      <4>1. i \in (k + 1)..(N + 1) /\ g[i] = f[i]
        BY <3>2
      <4>2. f[i] = IF i > N THEN <<>> ELSE head[i] \o f[next[i]]
        BY <2>2, <4>1
      <4>3. CASE i > N
        BY <4>1, <4>2, <4>3
      <4>4. CASE i <= N
        <5>1. i \in 1..N
          BY <4>1, <4>4
        <5>2. next[i] \in k..(N + 1) /\ next[i] # k
          BY <4>1, <5>1
        <5>3. g[next[i]] = f[next[i]]
          BY <5>2
        <5>4. QED
          BY <4>1, <4>2, <4>4, <5>3
      <4>5. QED
        BY <4>3, <4>4
    <3>3. QED
      BY <3>1, <3>2
  <2>4. Solves(g, k)
    BY <2>3
  <2> HIDE DEF Solves, g
  <2>5. QED
    BY <2>4
<1>3. 1 \in T
  <2> HIDE DEF T
  <2>1. \A i \in 1..(N + 1) : i \in T
    BY <1>1, <1>2, Backward
  <2>2. QED
    BY <2>1
<1>4. QED
  BY <1>3 DEF Scans

(* A scan: every match lies inside the text.                               *)
Fits(text, match) ==
    \A i \in 1..Len(text) :
        match[i] # NoMatch => match[i].length \in 1..(Len(text) + 1 - i)

StepOf(match, i) ==
    IF match[i] = NoMatch THEN i + 1 ELSE i + match[i].length
SymbolOf(text, match, symbol, i) ==
    IF match[i] = NoMatch THEN text[i] ELSE symbol[match[i].secret]

(* The scan moves on at every step.                                        *)
LEMMA StepOfType ==
    ASSUME NEW S, NEW text \in Seq(S), NEW match, Fits(text, match),
           NEW i \in 1..Len(text)
    PROVE  StepOf(match, i) \in (i + 1)..(Len(text) + 1)
BY LenProperties DEF Fits, StepOf

(* The equation that defines Rewrite.                                      *)
Scanned(P, text, match, symbol) ==
    /\ P[Len(text) + 1] = <<>>
    /\ \A i \in 1..Len(text) :
          P[i] = <<SymbolOf(text, match, symbol, i)>> \o P[StepOf(match, i)]

(* Rewrite conforms to the equation that defines it, whenever the matches  *)
(* fit.                                                                    *)
LEMMA PiecesStep ==
    ASSUME NEW S, NEW text \in Seq(S), NEW match, NEW symbol,
           Fits(text, match)
    PROVE  Scanned(Pieces(text, match, symbol), text, match, symbol)
<1> DEFINE N    == Len(text)
           head == [i \in 1..N |-> <<SymbolOf(text, match, symbol, i)>>]
           next == [i \in 1..N |-> StepOf(match, i)]
           Eq(f) == f = [i \in 1..(Len(text) + 1) |->
               IF i > Len(text) THEN <<>>
               ELSE IF match[i] = NoMatch THEN <<text[i]>> \o f[i + 1]
               ELSE <<symbol[match[i].secret]>> \o f[i + match[i].length]]
<1>1. N \in Nat /\ N = Len(text)
  BY LenProperties
<1>2. \A i \in 1..N : next[i] \in (i + 1)..(N + 1)
  BY StepOfType
<1>3. PICK g : Scans(g, N, head, next)
  <2> HIDE DEF N, head, next
  <2>1. N \in Nat
    BY <1>1
  <2>2. QED
    BY <1>2, <2>1, ScanExists, Zenon
<1> DEFINE f == [i \in 1..(N + 1) |-> g[i]]
<1>4. ASSUME NEW i \in 1..(N + 1)
      PROVE  f[i] = IF i > Len(text) THEN <<>>
               ELSE IF match[i] = NoMatch THEN <<text[i]>> \o f[i + 1]
               ELSE <<symbol[match[i].secret]>> \o f[i + match[i].length]
  <2>1. f[i] = IF i > N THEN <<>> ELSE head[i] \o g[next[i]]
    BY <1>3 DEF Scans
  <2>2. CASE i > N
    BY <2>1, <2>2
  <2>3. CASE ~(i > N)
    <3>1. i \in 1..N
      BY <1>1, <2>3
    <3>2. StepOf(match, i) \in 1..(N + 1)
      BY <1>1, <3>1, StepOfType
    <3>3. f[i] = <<SymbolOf(text, match, symbol, i)>> \o g[StepOf(match, i)]
      BY <2>1, <2>3, <3>1
    <3>4. f[i] = <<SymbolOf(text, match, symbol, i)>> \o f[StepOf(match, i)]
      BY <3>2, <3>3
    <3> HIDE DEF f
    <3>5. QED
      BY <2>3, <3>4 DEF SymbolOf, StepOf
  <2>4. QED
    BY <2>2, <2>3
<1>5. Eq(f)
  <2>1. f = [i \in 1..(N + 1) |-> f[i]]
    OBVIOUS
  <2> HIDE DEF f
  <2>2. QED
    BY <1>4, <2>1
<1> DEFINE P == Pieces(text, match, symbol)
<1>6. Eq(P)
  <2>1. \E h : Eq(h)
    BY <1>5
  <2>2. QED
    BY <2>1, Zenon DEF Pieces
<1> HIDE DEF P
<1>7. \A i \in 1..(N + 1) : P[i] =
               IF i > Len(text) THEN <<>>
               ELSE IF match[i] = NoMatch THEN <<text[i]>> \o P[i + 1]
               ELSE <<symbol[match[i].secret]>> \o P[i + match[i].length]
  BY <1>6
<1>8. P[N + 1] = <<>>
  <2>1. N + 1 \in 1..(N + 1) /\ N + 1 > Len(text)
    BY <1>1
  <2>2. QED
    BY <1>7, <2>1
<1>9. ASSUME NEW i \in 1..N
      PROVE  P[i] = <<SymbolOf(text, match, symbol, i)>> \o P[StepOf(match, i)]
  <2>1. i \in 1..(N + 1) /\ ~(i > Len(text))
    BY <1>1
  <2>2. QED
    BY <1>7, <2>1 DEF SymbolOf, StepOf
<1>10. QED
  BY <1>8, <1>9 DEF P, Scanned

(* Every match is replaced by a symbol of T.                               *)
Replaces(text, match, symbol, T) ==
    \A i \in 1..Len(text) :
        match[i] # NoMatch => symbol[match[i].secret] \in T

(* A rewritten text is a text.                                             *)
LEMMA PiecesType ==
    ASSUME NEW T, NEW text \in Seq(T), NEW match, NEW symbol,
           Fits(text, match), Replaces(text, match, symbol, T)
    PROVE  \A i \in 1..(Len(text) + 1) :
              Pieces(text, match, symbol)[i] \in Seq(T)
<1> DEFINE N == Len(text)
           P == Pieces(text, match, symbol)
           U == {i \in 1..(N + 1) : P[i] \in Seq(T)}
<1>1. N \in Nat
  BY LenProperties
<1>2. /\ P[N + 1] = <<>>
      /\ \A i \in 1..N : /\ StepOf(match, i) \in (i + 1)..(N + 1)
                         /\ P[i] = <<SymbolOf(text, match, symbol, i)>>
                                       \o P[StepOf(match, i)]
  BY PiecesStep, StepOfType DEF Scanned
<1>3. \A i \in 1..N : SymbolOf(text, match, symbol, i) \in T
  BY ElementOfSeq DEF SymbolOf, Replaces
<1> HIDE DEF N, P
<1>4. N + 1 \in U
  <2>1. N + 1 \in 1..(N + 1) /\ <<>> \in Seq(T)
    BY <1>1, EmptySeq
  <2>2. QED
    BY <1>2, <2>1
<1>5. ASSUME NEW i \in 1..N, \A k \in (i + 1)..(N + 1) : k \in U
      PROVE  i \in U
  <2>1. P[StepOf(match, i)] \in Seq(T)
    BY <1>2, <1>5
  <2>2. <<SymbolOf(text, match, symbol, i)>> \in Seq(T)
    BY <1>3
  <2>3. P[i] \in Seq(T)
    BY <1>2, <2>1, <2>2, ConcatProperties
  <2>4. QED
    BY <1>1, <2>3
<1> HIDE DEF U
<1>6. \A i \in 1..(N + 1) : i \in U
  BY <1>1, <1>4, <1>5, Backward
<1>7. QED
  BY <1>6 DEF U, N, P

(* So is the whole of it.                                                  *)
LEMMA RewriteType ==
    ASSUME NEW T, NEW text \in Seq(T), NEW match, NEW symbol,
           Fits(text, match), Replaces(text, match, symbol, T)
    PROVE  Rewrite(text, match, symbol) \in Seq(T)
<1>1. 1 \in 1..(Len(text) + 1)
  BY LenProperties
<1>2. QED
  BY <1>1, PiecesType, RewriteIs

(* The first n symbols of a piece are those of the text from i on, and     *)
(* nothing matched there.                                                  *)
Copied(piece, text, match, i, n) ==
    /\ i + n - 1 <= Len(text)
    /\ \A m \in 1..n : /\ piece[m] = text[i + m - 1]
                       /\ match[i + m - 1] = NoMatch

(* None of the first n symbols of a piece is a replacement.                *)
Untouched(piece, n, M) == \A m \in 1..n : piece[m] \notin M

(* What is left before the first replacement is the text itself.           *)
LEMMA PiecesPrefix ==
    ASSUME NEW T, NEW text \in Seq(T), NEW match, NEW symbol, NEW M,
           Fits(text, match), Replaces(text, match, symbol, T),
           Replaces(text, match, symbol, M),
           NEW i \in 1..(Len(text) + 1),
           NEW n \in 0..Len(Pieces(text, match, symbol)[i]),
           Untouched(Pieces(text, match, symbol)[i], n, M)
    PROVE  Copied(Pieces(text, match, symbol)[i], text, match, i, n)
<1> DEFINE N == Len(text)
           P == Pieces(text, match, symbol)
           Good(k, l) == (\A m \in 1..l : P[k][m] \notin M) =>
                            /\ k + l - 1 <= N
                            /\ \A m \in 1..l : /\ P[k][m] = text[k + m - 1]
                                               /\ match[k + m - 1] = NoMatch
           U == {k \in 1..(N + 1) : \A l \in 0..Len(P[k]) : Good(k, l)}
<1>1. N \in Nat
  BY LenProperties
<1>2. /\ P[N + 1] = <<>>
      /\ \A k \in 1..N : /\ StepOf(match, k) \in (k + 1)..(N + 1)
                         /\ P[k] = <<SymbolOf(text, match, symbol, k)>>
                                       \o P[StepOf(match, k)]
  BY PiecesStep, StepOfType DEF Scanned
<1>3. \A k \in 1..(N + 1) : P[k] \in Seq(T)
  BY PiecesType
<1>4. \A k \in 1..N : match[k] # NoMatch => SymbolOf(text, match, symbol, k) \in M
  BY DEF SymbolOf, Replaces
<1> HIDE DEF N, P
<1>5. N + 1 \in U
  <2>1. Len(P[N + 1]) = 0
    BY <1>2
  <2>2. ASSUME NEW l \in 0..Len(P[N + 1])
        PROVE  Good(N + 1, l)
    BY <1>1, <2>1
  <2> HIDE DEF Good
  <2>3. QED
    BY <1>1, <2>2
<1>6. ASSUME NEW k \in 1..N, \A j \in (k + 1)..(N + 1) : j \in U
      PROVE  k \in U
  <2> DEFINE s == StepOf(match, k)
             x == SymbolOf(text, match, symbol, k)
  <2>1. s \in (k + 1)..(N + 1) /\ P[k] = <<x>> \o P[s] /\ P[s] \in Seq(T)
    BY <1>1, <1>2, <1>3
  <2>2. \A l \in 0..Len(P[s]) : Good(s, l)
    <3> HIDE DEF Good, s
    <3>1. QED
      BY <1>6, <2>1
  <2>3. /\ Len(P[k]) = Len(P[s]) + 1 /\ Len(P[s]) \in Nat
        /\ P[k][1] = x
        /\ \A m \in 1..Len(P[s]) : P[k][m + 1] = P[s][m]
    <3> HIDE DEF s, x
    <3>1. QED
      BY <2>1
  <2>4. ASSUME NEW l \in 0..Len(P[k]), \A m \in 1..l : P[k][m] \notin M
        PROVE  /\ k + l - 1 <= N
               /\ \A m \in 1..l : /\ P[k][m] = text[k + m - 1]
                                  /\ match[k + m - 1] = NoMatch
    <3>1. CASE l = 0
      BY <1>1, <3>1
    <3>2. CASE l # 0
      <4>1. P[k][1] \notin M
        BY <2>4, <3>2
      <4>2. match[k] = NoMatch /\ s = k + 1 /\ x = text[k]
        BY <1>4, <2>3, <4>1 DEF StepOf, SymbolOf
      <4>3. l - 1 \in 0..Len(P[s])
        BY <2>3, <3>2
      <4>4. \A m \in 1..(l - 1) : P[s][m] \notin M
        <5> HIDE DEF s, x
        <5>1. ASSUME NEW m \in 1..(l - 1) PROVE P[s][m] \notin M
          <6>1. m + 1 \in 1..l /\ m \in 1..Len(P[s])
            BY <4>3
          <6>2. QED
            BY <2>3, <2>4, <6>1
        <5>2. QED
          BY <5>1
      <4>5. /\ s + (l - 1) - 1 <= N
            /\ \A m \in 1..(l - 1) : /\ P[s][m] = text[s + m - 1]
                                     /\ match[s + m - 1] = NoMatch
        BY <2>2, <4>3, <4>4
      <4>6. k + l - 1 <= N
        BY <4>2, <4>5
      <4>7. ASSUME NEW m \in 1..l
            PROVE  P[k][m] = text[k + m - 1] /\ match[k + m - 1] = NoMatch
        <5>1. CASE m = 1
          BY <2>3, <4>2, <5>1
        <5>2. CASE m # 1
          <6>1. m - 1 \in 1..(l - 1) /\ m - 1 \in 1..Len(P[s])
            BY <4>3, <5>2
          <6>2. P[k][m] = P[s][m - 1]
            <7>1. m = (m - 1) + 1
              OBVIOUS
            <7>2. QED
              BY <2>3, <6>1, <7>1
          <6>3. s + (m - 1) - 1 = k + m - 1
            BY <4>2
          <6> HIDE DEF s
          <6>4. QED
            BY <4>5, <6>1, <6>2, <6>3
        <5>3. QED
          BY <5>1, <5>2
      <4>8. QED
        BY <4>6, <4>7
    <3>3. QED
      BY <3>1, <3>2
  <2>5. \A l \in 0..Len(P[k]) : Good(k, l)
    BY <2>4
  <2> HIDE DEF Good
  <2>6. QED
    BY <1>1, <2>5
<1> HIDE DEF U
<1>7. \A k \in 1..(N + 1) : k \in U
  BY <1>1, <1>5, <1>6, Backward
<1>8. Good(i, n)
  <2>1. i \in U
    BY <1>7 DEF N
  <2> HIDE DEF Good
  <2>2. QED
    BY <2>1 DEF U, P
<1>9. QED
  BY <1>8 DEF N, P, Copied, Untouched

(* piece is the rest of the longer piece from its j-th symbol on.          *)
RestOf(piece, longer, j) ==
    /\ Len(piece) = Len(longer) - j + 1
    /\ \A m \in 1..Len(piece) : piece[m] = longer[j + m - 1]

(* What follows a symbol of a rewritten text is what a later part of the   *)
(* text was rewritten to.                                                  *)
LEMMA PiecesSuffix ==
    ASSUME NEW T, NEW text \in Seq(T), NEW match, NEW symbol,
           Fits(text, match), Replaces(text, match, symbol, T),
           NEW i \in 1..(Len(text) + 1),
           NEW j \in 1..Len(Pieces(text, match, symbol)[i])
    PROVE  \E k \in i..Len(text) :
              RestOf(Pieces(text, match, symbol)[k],
                     Pieces(text, match, symbol)[i], j)
<1> DEFINE N == Len(text)
           P == Pieces(text, match, symbol)
           Later(k, l) == \E q \in k..N :
               /\ Len(P[q]) = Len(P[k]) - l + 1
               /\ \A m \in 1..Len(P[q]) : P[q][m] = P[k][l + m - 1]
           U == {k \in 1..(N + 1) : \A l \in 1..Len(P[k]) : Later(k, l)}
<1>1. N \in Nat
  BY LenProperties
<1>2. /\ P[N + 1] = <<>>
      /\ \A k \in 1..N : /\ StepOf(match, k) \in (k + 1)..(N + 1)
                         /\ P[k] = <<SymbolOf(text, match, symbol, k)>>
                                       \o P[StepOf(match, k)]
  BY PiecesStep, StepOfType DEF Scanned
<1>3. \A k \in 1..(N + 1) : P[k] \in Seq(T)
  BY PiecesType
<1> HIDE DEF N, P
<1>4. N + 1 \in U
  <2>1. Len(P[N + 1]) = 0 /\ N + 1 \in 1..(N + 1)
    BY <1>1, <1>2
  <2> HIDE DEF Later
  <2>2. QED
    BY <2>1
<1>5. ASSUME NEW k \in 1..N, \A l \in (k + 1)..(N + 1) : l \in U
      PROVE  k \in U
  <2> DEFINE s == StepOf(match, k)
             x == SymbolOf(text, match, symbol, k)
  <2>1. s \in (k + 1)..(N + 1) /\ P[k] = <<x>> \o P[s] /\ P[s] \in Seq(T)
    BY <1>1, <1>2, <1>3
  <2> HIDE DEF s, x
  <2>2. \A l \in 1..Len(P[s]) : Later(s, l)
    <3> HIDE DEF Later
    <3>1. QED
      BY <1>5, <2>1
  <2>3. /\ Len(P[k]) = Len(P[s]) + 1 /\ Len(P[s]) \in Nat
        /\ \A m \in 1..Len(P[s]) : P[k][m + 1] = P[s][m]
    BY <2>1
  <2>4. ASSUME NEW l \in 1..Len(P[k])
        PROVE  Later(k, l)
    <3>1. CASE l = 1
      <4>1. /\ Len(P[k]) = Len(P[k]) - l + 1
            /\ \A m \in 1..Len(P[k]) : P[k][m] = P[k][l + m - 1]
        BY <2>3, <3>1
      <4>2. k \in k..N
        BY <1>1
      <4>3. QED
        BY <4>1, <4>2
    <3>2. CASE l # 1
      <4>1. l - 1 \in 1..Len(P[s])
        BY <2>3, <3>2
      <4>2. PICK q \in s..N :
                /\ Len(P[q]) = Len(P[s]) - (l - 1) + 1
                /\ \A m \in 1..Len(P[q]) : P[q][m] = P[s][(l - 1) + m - 1]
        BY <2>2, <4>1
      <4>3. q \in k..N /\ Len(P[q]) = Len(P[k]) - l + 1
        BY <1>1, <2>1, <2>3, <4>2
      <4>4. ASSUME NEW m \in 1..Len(P[q])
            PROVE  P[q][m] = P[k][l + m - 1]
        <5>1. l + m - 2 \in 1..Len(P[s]) /\ (l - 1) + m - 1 = l + m - 2
              /\ l + m - 1 = (l + m - 2) + 1
          <6>1. m \in Nat \ {0} /\ m <= Len(P[k]) - l + 1 /\ l \in Nat
            BY <2>3, <4>3
          <6>2. l >= 2 /\ Len(P[k]) = Len(P[s]) + 1 /\ Len(P[s]) \in Nat
            BY <2>3, <3>2
          <6>3. QED
            BY <6>1, <6>2
        <5>2. P[k][(l + m - 2) + 1] = P[s][l + m - 2]
          BY <2>3, <5>1
        <5>3. QED
          BY <4>2, <5>1, <5>2
      <4>5. QED
        BY <4>3, <4>4
    <3>3. QED
      BY <3>1, <3>2
  <2> HIDE DEF Later
  <2>5. QED
    BY <1>1, <2>4
<1> HIDE DEF U
<1>6. \A k \in 1..(N + 1) : k \in U
  BY <1>1, <1>4, <1>5, Backward
<1>7. Later(i, j)
  <2>1. i \in U
    BY <1>6 DEF N
  <2> HIDE DEF Later
  <2>2. QED
    BY <2>1 DEF U, P
<1>8. QED
  BY <1>7 DEF N, P, RestOf

(* n symbols of the output from j on are no replacements.                  *)
Preserved(out, j, n, M) ==
    j + n - 1 <= Len(out) /\ \A m \in 0..(n - 1) : out[j + m] \notin M

(* They are a fragment of the text in which nothing matched.               *)
Fragment(out, text, match, j, n) ==
    \E k \in 1..Len(text) :
        /\ k + n - 1 <= Len(text)
        /\ \A m \in 0..(n - 1) : out[j + m] = text[k + m] /\ match[k + m] = NoMatch

(* A fragment of a rewritten text without replacements is a fragment of    *)
(* the text in which nothing matched.                                      *)
LEMMA RewriteFragment ==
    ASSUME NEW T, NEW text \in Seq(T), NEW match, NEW symbol, NEW M,
           Fits(text, match), Replaces(text, match, symbol, T),
           Replaces(text, match, symbol, M),
           NEW j \in Nat \ {0}, NEW n \in Nat \ {0},
           Preserved(Rewrite(text, match, symbol), j, n, M)
    PROVE  Fragment(Rewrite(text, match, symbol), text, match, j, n)
<1> DEFINE N == Len(text)
           P == Pieces(text, match, symbol)
<1>1. N \in Nat /\ 1 \in 1..(N + 1)
  BY LenProperties
<1>2. Rewrite(text, match, symbol) = P[1] /\ P[1] \in Seq(T)
  BY <1>1, RewriteIs, PiecesType
<1>3. Len(P[1]) \in Nat /\ j \in 1..Len(P[1])
  BY <1>2, LenProperties DEF Preserved
<1>4. PICK k \in 1..N : /\ Len(P[k]) = Len(P[1]) - j + 1
                        /\ \A m \in 1..Len(P[k]) : P[k][m] = P[1][j + m - 1]
  <2> HIDE DEF P
  <2>1. 1 \in 1..(Len(text) + 1) /\ j \in 1..Len(P[1])
    BY <1>1, <1>3
  <2>2. \E k \in 1..Len(text) : RestOf(P[k], P[1], j)
    BY <2>1, PiecesSuffix, Zenon DEF P
  <2>3. QED
    BY <2>2 DEF RestOf
<1> HIDE DEF N, P
<1>5. n \in 0..Len(P[k]) /\ Len(P[k]) \in Nat
  BY <1>2, <1>3, <1>4 DEF Preserved
<1>6. ASSUME NEW m \in 1..n PROVE P[k][m] \notin M
  <2>1. m \in 1..Len(P[k]) /\ m - 1 \in 0..(n - 1) /\ j + m - 1 = j + (m - 1)
    BY <1>5
  <2>2. QED
    BY <1>2, <1>4, <2>1 DEF Preserved
<1>7. /\ k + n - 1 <= N
      /\ \A m \in 1..n : P[k][m] = text[k + m - 1] /\ match[k + m - 1] = NoMatch
  <2>1. k \in 1..(N + 1)
    BY <1>1
  <2>2. QED
    <3>1. Untouched(P[k], n, M)
      BY <1>6 DEF Untouched
    <3>2. Copied(P[k], text, match, k, n)
      BY <1>5, <2>1, <3>1, PiecesPrefix DEF N, P
    <3>3. QED
      BY <3>2 DEF Copied, N
<1>8. ASSUME NEW m \in 0..(n - 1)
      PROVE  P[1][j + m] = text[k + m] /\ match[k + m] = NoMatch
  <2>1. /\ m + 1 \in 1..n /\ m + 1 \in 1..Len(P[k])
        /\ j + (m + 1) - 1 = j + m /\ k + (m + 1) - 1 = k + m
    BY <1>5
  <2>2. QED
    BY <1>4, <1>7, <2>1
<1>9. QED
  BY <1>2, <1>7, <1>8 DEF N, Fragment

(* The matches of a text are those of its two parts.                       *)
Splits(a, b, matchA, matchB, match) ==
    /\ \A i \in 1..Len(a) : match[i] = matchA[i]
    /\ \A i \in 1..Len(b) : match[Len(a) + i] = matchB[i]

(* Then they lie inside it.                                                *)
LEMMA SplitFits ==
    ASSUME NEW T, NEW a \in Seq(T), NEW b \in Seq(T), NEW matchA, NEW matchB,
           NEW match, Fits(a, matchA), Fits(b, matchB),
           Splits(a, b, matchA, matchB, match)
    PROVE  Fits(a \o b, match)
<1>1. Len(a) \in Nat /\ Len(b) \in Nat /\ Len(a \o b) = Len(a) + Len(b)
  BY ConcatProperties, LenProperties
<1>2. ASSUME NEW i \in 1..Len(a \o b), match[i] # NoMatch
      PROVE  match[i].length \in 1..(Len(a \o b) + 1 - i)
  <2>1. CASE i <= Len(a)
    <3>1. i \in 1..Len(a) /\ match[i] = matchA[i]
      BY <1>1, <2>1 DEF Splits
    <3>2. match[i].length \in 1..(Len(a) + 1 - i)
      BY <1>2, <3>1 DEF Fits
    <3>3. QED
      BY <1>1, <3>2
  <2>2. CASE ~(i <= Len(a))
    <3>1. i - Len(a) \in 1..Len(b) /\ i = Len(a) + (i - Len(a))
      BY <1>1, <2>2
    <3>2. match[i] = matchB[i - Len(a)]
      BY <3>1 DEF Splits
    <3>3. match[i].length \in 1..(Len(b) + 1 - (i - Len(a)))
      BY <1>2, <3>1, <3>2 DEF Fits
    <3>4. QED
      BY <1>1, <3>3
  <2>3. QED
    BY <2>1, <2>2
<1>3. QED
  BY <1>2 DEF Fits

(* The second part is rewritten as if it were alone.                       *)
LEMMA PiecesBehind ==
    ASSUME NEW T, NEW a \in Seq(T), NEW b \in Seq(T), NEW matchA, NEW matchB,
           NEW match, NEW symbol, Fits(a, matchA), Fits(b, matchB),
           Splits(a, b, matchA, matchB, match),
           NEW i \in 1..(Len(b) + 1)
    PROVE  Pieces(a \o b, match, symbol)[Len(a) + i] =
              Pieces(b, matchB, symbol)[i]
<1> DEFINE N == Len(a)
           L == Len(b)
           c == a \o b
           P == Pieces(c, match, symbol)
           Q == Pieces(b, matchB, symbol)
           U == {k \in 1..(L + 1) : P[N + k] = Q[k]}
<1>1. N \in Nat /\ L \in Nat /\ Len(c) = N + L /\ c \in Seq(T)
      /\ \A k \in 1..L : c[N + k] = b[k]
  <2>1. \A k \in 1..L : c[N + k] = b[k]
    BY LenProperties
  <2>2. QED
    BY <2>1, ConcatProperties, LenProperties
<1>2. Fits(c, match)
  BY SplitFits
<1>3. /\ P[N + L + 1] = <<>>
      /\ \A k \in 1..(N + L) : P[k] = <<SymbolOf(c, match, symbol, k)>>
                                          \o P[StepOf(match, k)]
  <2> HIDE DEF c, N, L
  <2>1. /\ P[Len(c) + 1] = <<>>
        /\ \A k \in 1..Len(c) : P[k] = <<SymbolOf(c, match, symbol, k)>>
                                          \o P[StepOf(match, k)]
    <3>1. c \in Seq(T)
      BY <1>1
    <3>2. Scanned(P, c, match, symbol)
      BY <1>2, <3>1, PiecesStep, Zenon
    <3> HIDE DEF P
    <3>3. QED
      BY <3>2 DEF Scanned
  <2> HIDE DEF P
  <2>2. QED
    BY <1>1, <2>1
<1>4. /\ Q[L + 1] = <<>>
      /\ \A k \in 1..L : /\ StepOf(matchB, k) \in (k + 1)..(L + 1)
                         /\ Q[k] = <<SymbolOf(b, matchB, symbol, k)>>
                                       \o Q[StepOf(matchB, k)]
  BY PiecesStep, StepOfType DEF Scanned
<1>5. ASSUME NEW k \in 1..L
      PROVE  /\ SymbolOf(c, match, symbol, N + k) = SymbolOf(b, matchB, symbol, k)
             /\ StepOf(match, N + k) = N + StepOf(matchB, k)
  <2>1. match[N + k] = matchB[k] /\ c[N + k] = b[k]
    BY <1>1 DEF Splits
  <2>2. matchB[k] # NoMatch => matchB[k].length \in Nat
    BY <1>1 DEF Fits
  <2> HIDE DEF N, c
  <2>3. QED
    BY <1>1, <2>1, <2>2 DEF SymbolOf, StepOf
<1> HIDE DEF N, L, c, P, Q
<1>6. L + 1 \in U
  <2>1. L + 1 \in 1..(L + 1) /\ N + (L + 1) = N + L + 1
    BY <1>1
  <2>2. QED
    BY <1>3, <1>4, <2>1
<1>7. ASSUME NEW k \in 1..L, \A j \in (k + 1)..(L + 1) : j \in U
      PROVE  k \in U
  <2>1. N + k \in 1..(N + L) /\ k \in 1..(L + 1)
    BY <1>1
  <2>2. StepOf(matchB, k) \in U
    <3> HIDE DEF U
    <3>1. QED
      BY <1>4, <1>7
  <2>3. P[N + StepOf(matchB, k)] = Q[StepOf(matchB, k)]
    BY <2>2
  <2>4. QED
    BY <1>3, <1>4, <1>5, <2>1, <2>3
<1> HIDE DEF U
<1>8. \A k \in 1..(L + 1) : k \in U
  BY <1>1, <1>6, <1>7, Backward
<1>9. QED
  BY <1>8 DEF U, N, L, c, P, Q

(* Rewriting a text is rewriting its two parts.                            *)
LEMMA RewriteConcat ==
    ASSUME NEW T, NEW a \in Seq(T), NEW b \in Seq(T), NEW matchA, NEW matchB,
           NEW match, NEW symbol, Fits(a, matchA), Fits(b, matchB),
           Splits(a, b, matchA, matchB, match),
           Replaces(a, matchA, symbol, T), Replaces(b, matchB, symbol, T)
    PROVE  Rewrite(a \o b, match, symbol) =
              Rewrite(a, matchA, symbol) \o Rewrite(b, matchB, symbol)
<1> DEFINE N == Len(a)
           L == Len(b)
           c == a \o b
           P == Pieces(c, match, symbol)
           A == Pieces(a, matchA, symbol)
           B == Pieces(b, matchB, symbol)
           U == {k \in 1..(N + 1) : P[k] = A[k] \o B[1]}
<1>1. /\ N \in Nat /\ L \in Nat /\ Len(c) = N + L /\ c \in Seq(T)
      /\ \A k \in 1..N : c[k] = a[k]
  <2>1. \A k \in 1..N : c[k] = a[k]
    BY LenProperties
  <2>2. QED
    BY <2>1, ConcatProperties, LenProperties
<1>2. Fits(c, match)
  BY SplitFits
<1>3. \A k \in 1..(N + L) : P[k] = <<SymbolOf(c, match, symbol, k)>>
                                       \o P[StepOf(match, k)]
  <2> HIDE DEF c
  <2>1. Scanned(P, c, match, symbol)
    BY <1>1, <1>2, PiecesStep, Zenon
  <2> HIDE DEF P, N, L
  <2>2. QED
    BY <1>1, <2>1 DEF Scanned
<1>4. /\ A[N + 1] = <<>>
      /\ \A k \in 1..N : /\ StepOf(matchA, k) \in (k + 1)..(N + 1)
                         /\ A[k] = <<SymbolOf(a, matchA, symbol, k)>>
                                       \o A[StepOf(matchA, k)]
  BY PiecesStep, StepOfType DEF Scanned
<1>5. \A k \in 1..(N + 1) : A[k] \in Seq(T)
  BY PiecesType
<1>6. B[1] \in Seq(T) /\ P[N + 1] = B[1]
  <2>1. 1 \in 1..(L + 1)
    BY <1>1
  <2>2. QED
    BY <2>1, PiecesType, PiecesBehind
<1>7. ASSUME NEW k \in 1..N
      PROVE  /\ SymbolOf(c, match, symbol, k) = SymbolOf(a, matchA, symbol, k)
             /\ StepOf(match, k) = StepOf(matchA, k)
             /\ SymbolOf(a, matchA, symbol, k) \in T
  <2>1. match[k] = matchA[k] /\ c[k] = a[k]
    BY <1>1 DEF Splits
  <2>2. a[k] \in T /\ (matchA[k] # NoMatch => symbol[matchA[k].secret] \in T)
    BY ElementOfSeq DEF Replaces
  <2> HIDE DEF c
  <2>3. QED
    BY <2>1, <2>2 DEF SymbolOf, StepOf
<1>8. Rewrite(c, match, symbol) = P[1]
      /\ Rewrite(a, matchA, symbol) = A[1] /\ Rewrite(b, matchB, symbol) = B[1]
  BY RewriteIs
<1> HIDE DEF N, L, c, P, A, B
<1>9. N + 1 \in U
  <2>1. N + 1 \in 1..(N + 1) /\ <<>> \o B[1] = B[1]
    BY <1>1, <1>6, ConcatEmptySeq
  <2>2. QED
    BY <1>4, <1>6, <2>1
<1>10. ASSUME NEW k \in 1..N, \A j \in (k + 1)..(N + 1) : j \in U
       PROVE  k \in U
  <2> DEFINE s == StepOf(matchA, k)
             x == SymbolOf(a, matchA, symbol, k)
  <2>1. s \in (k + 1)..(N + 1) /\ s \in U
    <3> HIDE DEF U
    <3>1. QED
      BY <1>4, <1>10
  <2>2. P[s] = A[s] \o B[1] /\ A[s] \in Seq(T)
    BY <1>1, <1>5, <2>1
  <2>3. P[k] = <<x>> \o P[s] /\ A[k] = <<x>> \o A[s] /\ <<x>> \in Seq(T)
    <3>1. k \in 1..(N + L)
      BY <1>1
    <3>2. P[k] = <<SymbolOf(c, match, symbol, k)>> \o P[StepOf(match, k)]
      BY <1>3, <3>1
    <3>3. A[k] = <<x>> \o A[s]
      BY <1>4
    <3>4. x \in T
      BY <1>7
    <3> HIDE DEF x
    <3>5. P[k] = <<x>> \o P[s]
      BY <1>7, <3>2 DEF x
    <3>6. QED
      BY <3>3, <3>4, <3>5
  <2> HIDE DEF s, x
  <2>4. P[k] = (<<x>> \o A[s]) \o B[1]
    <3>1. <<x>> \o (A[s] \o B[1]) = (<<x>> \o A[s]) \o B[1]
      <4>1. \A u, v, w \in Seq(T) : (u \o v) \o w = u \o (v \o w)
        BY ConcatAssociative
      <4>2. QED
        BY <1>6, <2>2, <2>3, <4>1, Zenon
    <3>2. QED
      BY <2>2, <2>3, <3>1, Zenon
  <2>5. P[k] = A[k] \o B[1]
    BY <2>3, <2>4, Zenon
  <2>6. k \in 1..(N + 1)
    BY <1>1
  <2>7. QED
    BY <2>5, <2>6
<1> HIDE DEF U
<1>11. \A k \in 1..(N + 1) : k \in U
  BY <1>1, <1>9, <1>10, Backward
<1>12. P[1] = A[1] \o B[1]
  <2>1. 1 \in 1..(N + 1)
    BY <1>1
  <2>2. QED
    BY <1>11, <2>1 DEF U
<1>13. QED
  BY <1>8, <1>12 DEF c

-----------------------------------------------------------------------------
(* What the static broker looks for: needles and masked renderings.        *)

(* An occurrence, symbol by symbol.                                        *)
Reads(text, i, needle) ==
    /\ i + Len(needle) - 1 <= Len(text)
    /\ \A m \in 1..Len(needle) : text[i + m - 1] = needle[m]

(* Occurs compares subsequences; this is the same, symbol by symbol.       *)
LEMMA OccursReads ==
    ASSUME NEW T, NEW text \in Seq(T), NEW S, NEW needle \in Seq(S),
           NEW i \in Nat \ {0}
    PROVE  Occurs(text, i, needle) <=> Reads(text, i, needle)
<1> DEFINE n == Len(needle)
           part == SubSeq(text, i, i + n - 1)
<1>1. n \in Nat /\ Len(text) \in Nat
  BY LenProperties
<1>2. SUFFICES ASSUME i + n - 1 <= Len(text)
               PROVE  part = needle <=>
                         \A m \in 1..n : text[i + m - 1] = needle[m]
  BY DEF Occurs, Reads
<1>3. /\ part = [m \in 1..n |-> text[i + m - 1]]
  BY <1>1, <1>2
<1>4. needle = [m \in 1..n |-> needle[m]]
  BY LenProperties
<1> HIDE DEF n, part
<1>5. QED
  BY <1>3, <1>4

(* The needles that start at a place.                                      *)
LEMMA NeedlesFound ==
    ASSUME NEW text, NEW i, NEW needles, NEW secrets, NEW match
    PROVE  match \in NeedlesAt(text, i, needles, secrets) <=>
              \E s \in secrets : \E t \in needles[s] :
                  /\ Occurs(text, i, t)
                  /\ match = [length |-> Len(t), secret |-> s]
<1> DEFINE From(s) == {[length |-> Len(needle), secret |-> s] :
               needle \in {t \in needles[s] : Occurs(text, i, t)}}
<1>1. NeedlesAt(text, i, needles, secrets) = UNION {From(s) : s \in secrets}
  BY Zenon DEF NeedlesAt
<1>2. ASSUME NEW s \in secrets
      PROVE  match \in From(s) <=> \E t \in needles[s] :
                  /\ Occurs(text, i, t)
                  /\ match = [length |-> Len(t), secret |-> s]
  BY Zenon
<1> HIDE DEF From
<1>3. match \in UNION {From(s) : s \in secrets} <=>
          \E s \in secrets : match \in From(s)
  BY Zenon
<1>4. QED
  BY <1>1, <1>2, <1>3

(* Of finitely long matches there is a longest, with the first secret.     *)
LEMMA LongestFound ==
    ASSUME NEW matches, matches # {}, NEW B \in Nat,
           \A m \in matches : m.length \in 0..B /\ m.secret \in Nat
    PROVE  Longest(matches) \in matches
<1> DEFINE Best(m) == \A n \in matches :
               \/ m.length > n.length
               \/ m.length = n.length /\ m.secret <= n.secret
           D == {B - m.length : m \in matches}
<1>1. D \in SUBSET Nat /\ D # {}
  OBVIOUS
<1>2. PICK d \in D : \A e \in D : d <= e
  <2> HIDE DEF D
  <2>1. QED
    BY <1>1, LeastNat
<1> DEFINE E == {m.secret : m \in {n \in matches : B - n.length = d}}
<1>3. E \in SUBSET Nat /\ E # {}
  <2>1. PICK m \in matches : d = B - m.length
    OBVIOUS
  <2>2. m.secret \in E
    BY <2>1
  <2>3. E \in SUBSET Nat
    OBVIOUS
  <2>4. QED
    BY <2>2, <2>3
<1>4. PICK e \in E : \A f \in E : e <= f
  <2> HIDE DEF E
  <2>1. QED
    BY <1>3, LeastNat
<1>5. PICK m \in matches : B - m.length = d /\ m.secret = e
  OBVIOUS
<1>6. ASSUME NEW n \in matches
      PROVE  \/ m.length > n.length
             \/ m.length = n.length /\ m.secret <= n.secret
  <2>1. B - m.length <= B - n.length
    BY <1>2, <1>5
  <2>2. m.length >= n.length
    BY <2>1
  <2>3. CASE m.length = n.length
    <3>1. B - n.length = d
      BY <1>5, <2>3
    <3>2. n.secret \in E
      BY <3>1
    <3>3. QED
      BY <1>4, <1>5, <2>3, <3>2
  <2>4. QED
    BY <2>2, <2>3
<1>7. \E n \in matches : Best(n)
  BY <1>6
<1>8. (CHOOSE n \in matches : Best(n)) \in matches
  <2> HIDE DEF Best
  <2>1. QED
    BY <1>7, Zenon
<1>9. Longest(matches) = CHOOSE n \in matches : Best(n)
  BY Zenon DEF Longest
<1>10. QED
  BY <1>8, <1>9

(* What the broker can look for in a text.                                 *)
Needles(needles, secrets) ==
    \A s \in secrets : needles[s] \subseteq Seq(Symbols) \ {<<>>}

(* The longest needle at a place: one that is there, if any is.            *)
NeedleMatch(text, i, needles, secrets, match) ==
    \E s \in secrets : \E t \in needles[s] :
        Occurs(text, i, t) /\ match = [length |-> Len(t), secret |-> s]

(* Secrets are counted from 1, in the order of the configuration.          *)
LEMMA SecretsAreNumbers ==
    ASSUME SecretAssumption
    PROVE  Secrets \subseteq Nat \ {0}
<1>1. Cardinality(Secrets) \in Nat
  BY FS_CardinalityType DEF SecretAssumption
<1>2. QED
  BY <1>1 DEF SecretAssumption

(* A match of a secret is never taken for none.                            *)
LEMMA NoSecret ==
    ASSUME SecretAssumption, NEW s \in Secrets, NEW n
    PROVE  [length |-> n, secret |-> s] # NoMatch
<1>1. s # 0
  BY SecretsAreNumbers
<1>2. QED
  BY <1>1 DEF NoMatch

(* The longest needle at a place is one that is there; there is one        *)
(* whenever any needle is there.                                           *)
LEMMA LongestNeedle ==
    ASSUME SecretAssumption, NEW text \in Seq(Symbols),
           NEW i \in 1..Len(text),
           NEW secrets \in SUBSET Secrets, NEW needles,
           Needles(needles, secrets)
    PROVE  LET m == Longest(NeedlesAt(text, i, needles, secrets))
           IN  /\ m = NoMatch \/ NeedleMatch(text, i, needles, secrets, m)
               /\ \A s \in secrets : \A t \in needles[s] :
                     Occurs(text, i, t) => m # NoMatch
<1> DEFINE matches == NeedlesAt(text, i, needles, secrets)
           m == Longest(matches)
<1>1. \A n : n \in matches <=> NeedleMatch(text, i, needles, secrets, n)
  BY NeedlesFound DEF NeedleMatch
<1>2. Len(text) \in Nat
  BY LenProperties
<1>3. \A n \in matches : /\ n.length \in 0..Len(text)
                         /\ n.secret \in Nat
                         /\ n # NoMatch
  <2> SUFFICES ASSUME NEW n \in matches
               PROVE  n.length \in 0..Len(text) /\ n.secret \in Nat /\ n # NoMatch
    OBVIOUS
  <2>0. PICK s \in secrets : \E t \in needles[s] :
            Occurs(text, i, t) /\ n = [length |-> Len(t), secret |-> s]
    BY <1>1 DEF NeedleMatch
  <2>1. PICK t \in needles[s] :
            Occurs(text, i, t) /\ n = [length |-> Len(t), secret |-> s]
    BY <2>0
  <2>2. Len(t) \in Nat
    BY LenProperties DEF Needles
  <2>3. Len(t) <= Len(text)
    BY <1>2, <2>1, <2>2 DEF Occurs
  <2>4. s \in Nat /\ n # NoMatch
    BY <2>1, NoSecret, SecretsAreNumbers
  <2> HIDE DEF matches
  <2>5. QED
    BY <2>1, <2>2, <2>3, <2>4
<1> HIDE DEF matches
<1>4. CASE matches = {}
  <2>1. m = NoMatch
    BY <1>4 DEF Longest
  <2>2. ASSUME NEW s \in secrets, NEW t \in needles[s], Occurs(text, i, t)
        PROVE  FALSE
    <3>1. [length |-> Len(t), secret |-> s] \in matches
      BY <1>1, <2>2 DEF NeedleMatch
    <3>2. QED
      BY <1>4, <3>1
  <2>3. QED
    BY <2>1, <2>2 DEF matches
<1>5. CASE matches # {}
  <2>1. m \in matches
    BY <1>2, <1>3, <1>5, LongestFound
  <2>2. QED
    BY <1>1, <1>3, <2>1 DEF matches
<1>6. QED
  BY <1>4, <1>5

(* The masking characters from j on: n of them, and no more.               *)
MaskRun(text, j, n) ==
    /\ \A x \in j..(j + n - 1) : x <= Len(text) /\ text[x] = Mask
    /\ ~(j + n <= Len(text) /\ text[j + n] = Mask)
MasksFrom(text, j) == CHOOSE n \in 0..Len(text) : MaskRun(text, j, n)

(* There is one such number.                                               *)
LEMMA MaskRunExists ==
    ASSUME NEW T, NEW text \in Seq(T), NEW j \in Nat \ {0}
    PROVE  /\ MasksFrom(text, j) \in 0..Len(text)
           /\ MaskRun(text, j, MasksFrom(text, j))
<1> DEFINE N == Len(text)
           Stops == {n \in Nat : ~(j + n <= N /\ text[j + n] = Mask)}
<1>1. N \in Nat
  BY LenProperties
<1>2. N \in Stops /\ Stops \in SUBSET Nat
  BY <1>1
<1>3. PICK n \in Stops : \A x \in Stops : n <= x
  <2> HIDE DEF Stops
  <2>1. QED
    BY <1>2, LeastNat
<1>4. n \in 0..N
  BY <1>1, <1>2, <1>3
<1>5. ASSUME NEW x \in j..(j + n - 1)
      PROVE  x <= N /\ text[x] = Mask
  <2>1. x - j \in Nat /\ x - j < n /\ j + (x - j) = x
    BY <1>4
  <2>2. x - j \notin Stops
    BY <1>3, <2>1
  <2>3. QED
    BY <2>1, <2>2
<1>6. MaskRun(text, j, n)
  BY <1>3, <1>5 DEF MaskRun
<1>7. \E q \in 0..Len(text) : MaskRun(text, j, q)
  BY <1>4, <1>6
<1>8. QED
  BY <1>7, Zenon DEF MasksFrom

(* And only one.                                                           *)
LEMMA MaskRunUnique ==
    ASSUME NEW T, NEW text \in Seq(T), NEW j \in Nat \ {0}, NEW n \in Nat,
           MaskRun(text, j, n)
    PROVE  n = MasksFrom(text, j)
<1> DEFINE q == MasksFrom(text, j)
<1>1. q \in Nat /\ MaskRun(text, j, q)
  BY MaskRunExists, LenProperties
<1> HIDE DEF q
<1>2. CASE n < q
  <2>1. j + n \in j..(j + q - 1)
    BY <1>1, <1>2
  <2>2. QED
    BY <1>1, <2>1 DEF MaskRun
<1>3. CASE q < n
  <2>1. j + q \in j..(j + n - 1)
    BY <1>1, <1>3
  <2>2. QED
    BY <1>1, <2>1 DEF MaskRun
<1>4. QED
  BY <1>1, <1>2, <1>3 DEF q

(* maskedSecretLength, piece by piece.                                     *)
Visible(value) == MinVisible..(Len(value) - MinVisible)
SuffixOf(value, n) == SubSeq(value, Len(value) - n + 1, Len(value))
MaskFits(text, i, value) ==
    {f \in Visible(value) \X Visible(value) :
        /\ f[1] <= MaxPrefix /\ f[2] <= MaxSuffix
        /\ f[1] + f[2] <= Len(value)
        /\ Occurs(text, i, SubSeq(value, 1, f[1]))
        /\ MasksFrom(text, i + f[1]) >= MinMasks
        /\ Occurs(text, i + f[1] + MasksFrom(text, i + f[1]),
                  SuffixOf(value, f[2]))}
MaskBest(fits) ==
    CHOOSE f \in fits : \A g \in fits :
        f[1] > g[1] \/ (f[1] = g[1] /\ f[2] >= g[2])

(* MaskedLength is put together from these pieces.                         *)
LEMMA MaskedLengthIs ==
    ASSUME NEW text, NEW i, NEW value
    PROVE  MaskedLength(text, i, value) =
              LET fits == MaskFits(text, i, value)
                  best == MaskBest(fits)
              IN  IF fits = {} THEN 0
                  ELSE best[1] + MasksFrom(text, i + best[1]) + best[2]
BY Zenon DEF MaskedLength, MaskFits, MaskBest, MasksFrom, MaskRun, SuffixOf,
             Visible

(* A masked rendering, symbol by symbol: a symbols of the value, n masks,  *)
(* the last b symbols of the value.                                        *)
Masked(text, i, value, a, n, b) ==
    /\ a \in Visible(value) /\ b \in Visible(value) /\ n \in Nat
    /\ a <= MaxPrefix /\ b <= MaxSuffix
    /\ a + b <= Len(value)
    /\ n >= MinMasks
    /\ i + a + n + b - 1 <= Len(text)
    /\ \A m \in 1..a : text[i + m - 1] = value[m]
    /\ \A m \in 1..n : text[i + a + m - 1] = Mask
    /\ \A m \in 1..b : text[i + a + n + m - 1] = value[Len(value) - b + m]
    /\ value[Len(value) - b + 1] # Mask

(* A visible part has at least one symbol and is no longer than the value. *)
LEMMA VisibleType ==
    ASSUME LimitAssumption, NEW T, NEW value \in Seq(T), NEW a \in Visible(value)
    PROVE  a \in Nat \ {0} /\ a <= Len(value) /\ Len(value) \in Nat
BY LenProperties DEF LimitAssumption, Visible

(* A fit is a masked rendering.                                            *)
LEMMA FitIsMasked ==
    ASSUME LimitAssumption, NEW T, NEW text \in Seq(T), NEW S,
           NEW value \in Seq(S), NEW i \in Nat \ {0},
           NEW a \in Visible(value), NEW b \in Visible(value)
    PROVE  /\ <<a, b>> \in MaskFits(text, i, value) =>
                  Masked(text, i, value, a, MasksFrom(text, i + a), b)
           /\ \A n : Masked(text, i, value, a, n, b) =>
                  /\ n = MasksFrom(text, i + a)
                  /\ <<a, b>> \in MaskFits(text, i, value)
<1>1. /\ a \in Nat \ {0} /\ a <= Len(value) /\ b \in Nat \ {0}
      /\ b <= Len(value) /\ Len(value) \in Nat /\ Len(text) \in Nat
  BY VisibleType, LenProperties
<1> DEFINE front == SubSeq(value, 1, a)
           back  == SuffixOf(value, b)
           n     == MasksFrom(text, i + a)
<1>2. /\ front \in Seq(S) /\ Len(front) = a
      /\ \A m \in 1..a : front[m] = value[m]
  BY <1>1
<1>3. /\ back \in Seq(S) /\ Len(back) = b
      /\ \A m \in 1..b : back[m] = value[Len(value) - b + m]
  BY <1>1 DEF SuffixOf
<1>4. i + a \in Nat \ {0} /\ n \in Nat /\ MaskRun(text, i + a, n)
  BY <1>1, MaskRunExists
<1> HIDE DEF front, back, n
<1>5. Occurs(text, i, front) <=>
          /\ i + a - 1 <= Len(text)
          /\ \A m \in 1..a : text[i + m - 1] = value[m]
  <2>1. Occurs(text, i, front) <=> Reads(text, i, front)
    BY <1>2, OccursReads
  <2>2. QED
    BY <1>2, <2>1 DEF Reads
<1>6. ASSUME NEW q \in Nat
      PROVE  Occurs(text, i + a + q, back) <=>
                /\ i + a + q + b - 1 <= Len(text)
                /\ \A m \in 1..b : text[i + a + q + m - 1] =
                                       value[Len(value) - b + m]
  <2>1. i + a + q \in Nat \ {0}
    BY <1>1
  <2>2. Occurs(text, i + a + q, back) <=> Reads(text, i + a + q, back)
    BY <1>3, <2>1, OccursReads
  <2>3. QED
    BY <1>3, <2>2 DEF Reads
<1>7. <<a, b>> \in MaskFits(text, i, value) <=>
          /\ a <= MaxPrefix /\ b <= MaxSuffix
          /\ a + b <= Len(value) /\ n >= MinMasks
          /\ Occurs(text, i, front) /\ Occurs(text, i + a + n, back)
  BY DEF MaskFits, front, back, n
<1>8. ASSUME <<a, b>> \in MaskFits(text, i, value)
      PROVE  Masked(text, i, value, a, n, b)
  <2>0. i \in Nat /\ a \in Nat /\ n \in Nat
    BY <1>1, <1>4
  <2>1. ASSUME NEW m \in 1..n PROVE text[i + a + m - 1] = Mask
    <3>1. i + a + m - 1 \in (i + a)..(i + a + n - 1)
      BY <2>0
    <3>2. QED
      BY <1>4, <3>1 DEF MaskRun
  <2>2. /\ i + a + n + b - 1 <= Len(text)
        /\ \A m \in 1..b : text[i + a + n + m - 1] = value[Len(value) - b + m]
    BY <1>4, <1>6, <1>7, <1>8
  <2>3. text[i + a + n] # Mask
    <3>1. i + a + n <= Len(text)
      BY <1>1, <2>0, <2>2
    <3>2. QED
      BY <1>4, <3>1 DEF MaskRun
  <2>4. text[i + a + n] = value[Len(value) - b + 1]
    <3>1. 1 \in 1..b /\ i + a + n + 1 - 1 = i + a + n
      BY <1>1, <1>4
    <3>2. QED
      BY <2>2, <3>1
  <2>5. QED
    BY <1>4, <1>5, <1>7, <1>8, <2>1, <2>2, <2>3, <2>4 DEF Masked
<1>9. ASSUME NEW q, Masked(text, i, value, a, q, b)
      PROVE  q = n /\ <<a, b>> \in MaskFits(text, i, value)
  <2>1. /\ q \in Nat /\ i + a + q + b - 1 <= Len(text) /\ a + b <= Len(value)
        /\ q >= MinMasks /\ a <= MaxPrefix /\ b <= MaxSuffix
        /\ \A m \in 1..a : text[i + m - 1] = value[m]
        /\ \A m \in 1..q : text[i + a + m - 1] = Mask
        /\ \A m \in 1..b : text[i + a + q + m - 1] = value[Len(value) - b + m]
        /\ value[Len(value) - b + 1] # Mask
    BY <1>9 DEF Masked
  <2>2. text[i + a + q] # Mask
    <3>1. 1 \in 1..b /\ i + a + q + 1 - 1 = i + a + q
      BY <1>1, <2>1
    <3>2. QED
      BY <2>1, <3>1
  <2>3. MaskRun(text, i + a, q)
    <3>1. ASSUME NEW x \in (i + a)..(i + a + q - 1)
          PROVE  x <= Len(text) /\ text[x] = Mask
      <4>1. x - (i + a) + 1 \in 1..q /\ i + a + (x - (i + a) + 1) - 1 = x
        BY <1>1, <2>1
      <4>2. text[x] = Mask
        BY <2>1, <4>1
      <4>3. x <= Len(text)
        BY <1>1, <2>1
      <4>4. QED
        BY <4>2, <4>3
    <3>2. QED
      BY <2>2, <3>1 DEF MaskRun
  <2>4. q = n
    BY <1>4, <2>1, <2>3, MaskRunUnique DEF n
  <2>5. i + a - 1 <= Len(text)
    BY <1>1, <2>1
  <2>6. QED
    BY <1>5, <1>6, <1>7, <2>1, <2>4, <2>5
<1>10. QED
  BY <1>8, <1>9 DEF n

(* The masked rendering of a value with n masks between its first a and    *)
(* its last b symbols, as a needle.                                        *)
MaskForm(value, a, n, b) ==
    /\ a \in Visible(value) /\ b \in Visible(value) /\ n \in Nat
    /\ a <= MaxPrefix /\ b <= MaxSuffix
    /\ a + b <= Len(value)
    /\ n >= MinMasks
    /\ value[Len(value) - b + 1] # Mask
MaskNeedle(value, a, n, b) ==
    [m \in 1..(a + n + b) |->
        IF m <= a THEN value[m]
        ELSE IF m <= a + n THEN Mask ELSE value[Len(value) - b + (m - a - n)]]

(* Such a needle is a non-empty text of a + n + b symbols.                 *)
LEMMA MaskNeedleType ==
    ASSUME LimitAssumption, NEW T, Mask \in T, NEW value \in Seq(T),
           NEW a, NEW n, NEW b, MaskForm(value, a, n, b)
    PROVE  /\ MaskNeedle(value, a, n, b) \in Seq(T) \ {<<>>}
           /\ Len(MaskNeedle(value, a, n, b)) = a + n + b
           /\ a + n + b \in Nat \ {0}
<1> DEFINE L == a + n + b
           needle == MaskNeedle(value, a, n, b)
<1>1. /\ a \in Nat \ {0} /\ a <= Len(value) /\ b \in Nat \ {0}
      /\ b <= Len(value) /\ Len(value) \in Nat /\ n \in Nat
      /\ a + b <= Len(value)
  BY VisibleType DEF MaskForm
<1>2. L \in Nat \ {0}
  BY <1>1
<1>3. ASSUME NEW m \in 1..L
      PROVE  (IF m <= a THEN value[m]
              ELSE IF m <= a + n THEN Mask
              ELSE value[Len(value) - b + (m - a - n)]) \in T
  <2>1. CASE m <= a
    <3>1. m \in 1..Len(value)
      BY <1>1, <2>1
    <3>2. QED
      BY <2>1, <3>1, ElementOfSeq
  <2>2. CASE ~(m <= a) /\ m <= a + n
    BY <2>2
  <2>3. CASE ~(m <= a) /\ ~(m <= a + n)
    <3>1. Len(value) - b + (m - a - n) \in 1..Len(value)
      BY <1>1, <2>3
    <3>2. value[Len(value) - b + (m - a - n)] \in T
      BY <3>1, ElementOfSeq
    <3>3. QED
      BY <2>3, <3>2
  <2>4. QED
    BY <2>1, <2>2, <2>3
<1>4. needle \in [1..L -> T]
  BY <1>3 DEF MaskNeedle
<1> HIDE DEF L, needle
<1>5. needle \in Seq(T) /\ Len(needle) = L
  BY <1>2, <1>4
<1>6. needle # <<>>
  BY <1>2, <1>5
<1>7. QED
  BY <1>2, <1>5, <1>6 DEF L, needle

(* A masked rendering is at a place exactly if its needle is read there.   *)
LEMMA MaskedReads ==
    ASSUME LimitAssumption, NEW S, NEW text \in Seq(S), NEW T, Mask \in T,
           NEW value \in Seq(T),
           NEW i \in Nat \ {0}, NEW a, NEW n, NEW b
    PROVE  Masked(text, i, value, a, n, b) <=>
              /\ MaskForm(value, a, n, b)
              /\ Reads(text, i, MaskNeedle(value, a, n, b))
<1> SUFFICES ASSUME MaskForm(value, a, n, b)
             PROVE  Masked(text, i, value, a, n, b) <=>
                       Reads(text, i, MaskNeedle(value, a, n, b))
  BY DEF Masked, MaskForm
<1> DEFINE L == a + n + b
           needle == MaskNeedle(value, a, n, b)
<1>1. /\ a \in Nat \ {0} /\ a <= Len(value) /\ b \in Nat \ {0}
      /\ b <= Len(value) /\ Len(value) \in Nat /\ n \in Nat
      /\ a + b <= Len(value) /\ Len(text) \in Nat
  BY VisibleType, LenProperties DEF MaskForm
<1>2. Len(needle) = L
  BY MaskNeedleType
<1>3. Reads(text, i, needle) <=>
          /\ i + a + n + b - 1 <= Len(text)
          /\ \A m \in 1..L : text[i + m - 1] = needle[m]
  <2> HIDE DEF needle
  <2>1. i + L - 1 = i + a + n + b - 1
    BY <1>1
  <2> HIDE DEF L
  <2>2. QED
    BY <1>2, <2>1 DEF Reads
<1>4. \A m \in 1..L : needle[m] =
          IF m <= a THEN value[m]
          ELSE IF m <= a + n THEN Mask ELSE value[Len(value) - b + (m - a - n)]
  BY DEF MaskNeedle
<1>5. Masked(text, i, value, a, n, b) <=>
          /\ i + a + n + b - 1 <= Len(text)
          /\ \A m \in 1..a : text[i + m - 1] = value[m]
          /\ \A m \in 1..n : text[i + a + m - 1] = Mask
          /\ \A m \in 1..b : text[i + a + n + m - 1] = value[Len(value) - b + m]
  BY DEF Masked, MaskForm
<1> HIDE DEF needle
<1>6. ASSUME \A m \in 1..L : text[i + m - 1] = needle[m]
      PROVE  /\ \A m \in 1..a : text[i + m - 1] = value[m]
             /\ \A m \in 1..n : text[i + a + m - 1] = Mask
             /\ \A m \in 1..b : text[i + a + n + m - 1] = value[Len(value) - b + m]
  <2>1. ASSUME NEW m \in 1..a PROVE text[i + m - 1] = value[m]
    <3>1. m \in 1..L /\ m <= a
      BY <1>1
    <3>2. QED
      BY <1>4, <1>6, <3>1
  <2>2. ASSUME NEW m \in 1..n PROVE text[i + a + m - 1] = Mask
    <3>1. a + m \in 1..L /\ ~(a + m <= a) /\ a + m <= a + n
          /\ i + (a + m) - 1 = i + a + m - 1
      BY <1>1
    <3>2. text[i + (a + m) - 1] = Mask
      BY <1>4, <1>6, <3>1
    <3>3. QED
      BY <3>1, <3>2
  <2>3. ASSUME NEW m \in 1..b
        PROVE  text[i + a + n + m - 1] = value[Len(value) - b + m]
    <3>1. a + n + m \in 1..L /\ ~(a + n + m <= a) /\ ~(a + n + m <= a + n)
          /\ i + (a + n + m) - 1 = i + a + n + m - 1
          /\ Len(value) - b + ((a + n + m) - a - n) = Len(value) - b + m
      BY <1>1
    <3>2. text[i + (a + n + m) - 1] =
              value[Len(value) - b + ((a + n + m) - a - n)]
      BY <1>4, <1>6, <3>1
    <3>3. QED
      BY <3>1, <3>2
  <2>4. QED
    BY <2>1, <2>2, <2>3
<1>7. ASSUME \A m \in 1..a : text[i + m - 1] = value[m],
             \A m \in 1..n : text[i + a + m - 1] = Mask,
             \A m \in 1..b : text[i + a + n + m - 1] = value[Len(value) - b + m],
             NEW m \in 1..L
      PROVE  text[i + m - 1] = needle[m]
  <2>1. CASE m <= a
    <3>1. m \in 1..a
      BY <1>1, <2>1
    <3>2. QED
      BY <1>4, <1>7, <2>1, <3>1
  <2>2. CASE ~(m <= a) /\ m <= a + n
    <3>1. m - a \in 1..n /\ i + a + (m - a) - 1 = i + m - 1
      BY <1>1, <2>2
    <3>2. text[i + a + (m - a) - 1] = Mask
      BY <1>7, <3>1
    <3>3. QED
      BY <1>4, <2>2, <3>1, <3>2
  <2>3. CASE ~(m <= a) /\ ~(m <= a + n)
    <3>1. m - a - n \in 1..b /\ i + a + n + (m - a - n) - 1 = i + m - 1
      BY <1>1, <2>3
    <3>2. text[i + a + n + (m - a - n) - 1] = value[Len(value) - b + (m - a - n)]
      BY <1>7, <3>1
    <3>3. QED
      BY <1>4, <2>3, <3>1, <3>2
  <2>4. QED
    BY <2>1, <2>2, <2>3
<1>8. QED
  BY <1>3, <1>5, <1>6, <1>7 DEF needle

(* Of the fits there is a best one.                                        *)
LEMMA MaskBestFits ==
    ASSUME LimitAssumption, NEW T, NEW value \in Seq(T), NEW text, NEW i,
           MaskFits(text, i, value) # {}
    PROVE  \E a \in Visible(value) : \E b \in Visible(value) :
              /\ MaskBest(MaskFits(text, i, value)) = <<a, b>>
              /\ <<a, b>> \in MaskFits(text, i, value)
<1> DEFINE fits == MaskFits(text, i, value)
           B == Len(value)
           D == {B - f[1] : f \in fits}
<1>1. \A f \in fits : /\ f = <<f[1], f[2]>>
                      /\ f[1] \in Visible(value) /\ f[2] \in Visible(value)
                      /\ f[1] \in 0..B /\ f[2] \in 0..B
  BY VisibleType DEF MaskFits
<1>2. B \in Nat
  BY LenProperties
<1> HIDE DEF fits, B
<1>3. D \in SUBSET Nat /\ D # {}
  BY <1>1, <1>2 DEF fits
<1>4. PICK d \in D : \A e \in D : d <= e
  <2> HIDE DEF D
  <2>1. QED
    BY <1>3, LeastNat
<1> DEFINE E == {B - f[2] : f \in {g \in fits : B - g[1] = d}}
<1>5. E \in SUBSET Nat /\ E # {}
  <2>1. PICK f \in fits : d = B - f[1]
    OBVIOUS
  <2>2. B - f[2] \in E
    BY <2>1
  <2>3. E \in SUBSET Nat
    BY <1>1, <1>2
  <2>4. QED
    BY <2>2, <2>3
<1>6. PICK e \in E : \A x \in E : e <= x
  <2> HIDE DEF E
  <2>1. QED
    BY <1>5, LeastNat
<1>7. PICK f \in fits : B - f[1] = d /\ B - f[2] = e
  OBVIOUS
<1>8. ASSUME NEW g \in fits
      PROVE  f[1] > g[1] \/ (f[1] = g[1] /\ f[2] >= g[2])
  <2>1. d <= B - g[1]
    <3>1. B - g[1] \in D
      OBVIOUS
    <3>2. QED
      BY <1>4, <3>1
  <2>0. /\ f[1] \in Nat /\ f[2] \in Nat /\ f[1] <= B /\ f[2] <= B
        /\ g[1] \in Nat /\ g[2] \in Nat /\ g[1] <= B /\ g[2] <= B
    BY <1>1, <1>2
  <2> HIDE DEF D, E
  <2>2. f[1] >= g[1]
    BY <1>2, <1>7, <2>0, <2>1
  <2>3. CASE f[1] = g[1]
    <3>1. B - g[2] \in E
      BY <1>7, <2>3 DEF E
    <3>2. e <= B - g[2]
      BY <1>6, <3>1
    <3>3. f[2] >= g[2]
      BY <1>2, <1>7, <2>0, <3>2
    <3>4. QED
      BY <2>3, <3>3
  <2>4. QED
    BY <2>0, <2>2, <2>3
<1> DEFINE Best(h) == \A g \in fits : h[1] > g[1] \/ (h[1] = g[1] /\ h[2] >= g[2])
<1>9. \E h \in fits : Best(h)
  BY <1>8
<1>10. MaskBest(fits) \in fits
  <2>1. MaskBest(fits) = CHOOSE h \in fits : Best(h)
    BY Zenon DEF MaskBest
  <2> HIDE DEF Best
  <2>2. QED
    BY <1>9, <2>1, Zenon
<1> DEFINE best == MaskBest(fits)
<1>11. /\ best = <<best[1], best[2]>>
       /\ best[1] \in Visible(value) /\ best[2] \in Visible(value)
  BY <1>1, <1>10
<1>12. best \in fits
  BY <1>10
<1> HIDE DEF best
<1>13. \E a \in Visible(value) : \E b \in Visible(value) :
           best = <<a, b>> /\ <<a, b>> \in fits
  BY <1>11, <1>12
<1>14. QED
  BY <1>13 DEF fits, best

(* What maskedSecretLength finds is a masked rendering, and it finds one   *)
(* where there is one.                                                     *)
LEMMA MaskedLengthFinds ==
    ASSUME LimitAssumption, NEW S, NEW text \in Seq(S), NEW T,
           NEW value \in Seq(T), NEW i \in Nat \ {0}
    PROVE  /\ MaskedLength(text, i, value) \in Nat
           /\ MaskedLength(text, i, value) > 0 =>
                 MaskedLength(text, i, value) <= Len(text) + 1 - i
           /\ \A a, n, b : Masked(text, i, value, a, n, b) =>
                 MaskedLength(text, i, value) > 0
           /\ MaskedLength(text, i, value) > 0 =>
                 \E a, n, b : Masked(text, i, value, a, n, b)
<1> DEFINE fits == MaskFits(text, i, value)
           best == MaskBest(fits)
           len  == MaskedLength(text, i, value)
<1>1. len = IF fits = {} THEN 0
            ELSE best[1] + MasksFrom(text, i + best[1]) + best[2]
  BY MaskedLengthIs, Zenon
<1>2. Len(text) \in Nat /\ Len(value) \in Nat
  BY LenProperties
<1>3. ASSUME fits # {}
      PROVE  /\ len \in Nat /\ len > 0 /\ len <= Len(text) + 1 - i
             /\ \E a, n, b : Masked(text, i, value, a, n, b)
  <2>0. PICK a \in Visible(value) : \E b \in Visible(value) :
              best = <<a, b>> /\ <<a, b>> \in fits
    BY <1>3, MaskBestFits
  <2>1. PICK b \in Visible(value) : best = <<a, b>> /\ <<a, b>> \in fits
    BY <2>0
  <2> DEFINE n == MasksFrom(text, i + a)
  <2>2. Masked(text, i, value, a, n, b)
    BY <2>1, FitIsMasked
  <2>3. len = a + n + b
    <3> HIDE DEF fits, best, len, n
    <3>1. best[1] = a /\ best[2] = b
      BY <2>1
    <3>2. QED
      BY <1>1, <1>3, <3>1 DEF n
  <2>4. a \in Nat \ {0} /\ b \in Nat \ {0}
    BY VisibleType
  <2>5. n \in Nat /\ i + a + n + b - 1 <= Len(text)
    BY <2>2 DEF Masked
  <2> HIDE DEF n, len, fits, best
  <2>6. len \in Nat /\ len > 0 /\ len <= Len(text) + 1 - i
    BY <1>2, <2>3, <2>4, <2>5
  <2>7. QED
    BY <2>2, <2>6
<1>4. ASSUME NEW a, NEW n, NEW b, Masked(text, i, value, a, n, b)
      PROVE  fits # {}
  <2>1. a \in Visible(value) /\ b \in Visible(value)
    BY <1>4 DEF Masked
  <2>2. <<a, b>> \in fits
    BY <1>4, <2>1, FitIsMasked
  <2>3. QED
    BY <2>2
<1> HIDE DEF fits, best, len
<1>5. QED
  BY <1>1, <1>3, <1>4 DEF len

(* It depends on the masked renderings only.                               *)
LEMMA SameMasks ==
    ASSUME LimitAssumption, NEW S, NEW text \in Seq(S), NEW other \in Seq(S),
           NEW T, NEW value \in Seq(T), NEW i \in Nat \ {0},
           NEW j \in Nat \ {0},
           \A a, n, b : Masked(text, i, value, a, n, b) <=>
                            Masked(other, j, value, a, n, b)
    PROVE  MaskedLength(text, i, value) = MaskedLength(other, j, value)
<1> DEFINE fits == MaskFits(text, i, value)
           best == MaskBest(fits)
           fits2 == MaskFits(other, j, value)
<1>1. ASSUME NEW a \in Visible(value), NEW b \in Visible(value)
      PROVE  /\ <<a, b>> \in fits <=> <<a, b>> \in fits2
             /\ <<a, b>> \in fits => MasksFrom(text, i + a) =
                                         MasksFrom(other, j + a)
  <2>1. /\ <<a, b>> \in fits =>
                  Masked(text, i, value, a, MasksFrom(text, i + a), b)
        /\ \A n : Masked(text, i, value, a, n, b) =>
                  /\ n = MasksFrom(text, i + a)
                  /\ <<a, b>> \in fits
    BY FitIsMasked
  <2>2. /\ <<a, b>> \in fits2 =>
                  Masked(other, j, value, a, MasksFrom(other, j + a), b)
        /\ \A n : Masked(other, j, value, a, n, b) =>
                  /\ n = MasksFrom(other, j + a)
                  /\ <<a, b>> \in fits2
    BY FitIsMasked
  <2> HIDE DEF fits, fits2
  <2>3. QED
    BY <2>1, <2>2
<1>2. fits \subseteq Visible(value) \X Visible(value)
      /\ fits2 \subseteq Visible(value) \X Visible(value)
  BY DEF MaskFits
<1>3. fits = fits2
  <2> HIDE DEF fits, fits2
  <2>1. ASSUME NEW f \in Visible(value) \X Visible(value)
        PROVE  f \in fits <=> f \in fits2
    <3>1. PICK a \in Visible(value), b \in Visible(value) : f = <<a, b>>
      OBVIOUS
    <3>2. QED
      BY <1>1, <3>1
  <2>2. QED
    BY <1>2, <2>1
<1>4. MaskedLength(text, i, value) = IF fits = {} THEN 0
            ELSE best[1] + MasksFrom(text, i + best[1]) + best[2]
  BY MaskedLengthIs, Zenon
<1>5. MaskedLength(other, j, value) = IF fits2 = {} THEN 0
            ELSE MaskBest(fits2)[1] + MasksFrom(other, j + MaskBest(fits2)[1])
                     + MaskBest(fits2)[2]
  BY MaskedLengthIs, Zenon
<1>6. CASE fits = {}
  BY <1>3, <1>4, <1>5, <1>6, Zenon
<1>7. CASE fits # {}
  <2>0. PICK a \in Visible(value) : \E b \in Visible(value) :
              best = <<a, b>> /\ <<a, b>> \in fits
    BY <1>7, MaskBestFits
  <2>1. PICK b \in Visible(value) : best = <<a, b>> /\ <<a, b>> \in fits
    BY <2>0
  <2>2. best[1] = a
    BY <2>1
  <2>3. MasksFrom(text, i + best[1]) = MasksFrom(other, j + best[1])
    BY <1>1, <2>1, <2>2
  <2> HIDE DEF fits, fits2
  <2>4. QED
    BY <1>3, <1>4, <1>5, <1>7, <2>3
<1>8. QED
  BY <1>6, <1>7

-----------------------------------------------------------------------------
(* What its two passes over a text hide.                                   *)

(* What the brokers are configured with.                                   *)
Configured ==
    /\ SecretAssumption /\ LimitAssumption /\ BodyAssumption
    /\ NeedleAssumption /\ ByteAssumption

(* The needles that give a secret away: its value, an encoding of it or a  *)
(* masked rendering.                                                       *)
IsForm(s, t) ==
    \/ t \in Representations(s)
    \/ \E a, n, b : /\ MaskForm(Value[s], a, n, b)
                    /\ t = MaskNeedle(Value[s], a, n, b)

(* The secret s is in the text, in whichever rendering.                    *)
Reveals(text, s) ==
    \E i \in 1..Len(text) : \E t : IsForm(s, t) /\ Reads(text, i, t)

(* Plain symbols are neither line breaks, placeholders nor markers; all of *)
(* these are symbols of their own kinds.                                   *)
LEMMA SymbolTypes ==
    ASSUME Configured
    PROVE  /\ Mask \in Plain /\ Newline \notin Plain /\ Newline \in Symbols
           /\ Plain \subseteq Symbols
           /\ \A s : Placeholder(s) \notin Plain /\ Marker(s) \notin Plain
           /\ \A s \in Secrets : Placeholder(s) \in Symbols /\ Marker(s) \in Symbols
           /\ \A s, t : Placeholder(s) # Marker(t)
           /\ \A x \in Plain : x[1] \in {"byte", "mask", "wide"}
<1>1. \A x \in Plain : x[1] \in {"byte", "mask", "wide"}
  <2>1. Mask[1] = "mask" /\ Wide[1] = "wide"
    BY DEF Mask, Wide
  <2>2. QED
    BY <2>1 DEF Configured, ByteAssumption, Plain
<1>2. Mask \in Plain /\ Newline \in Symbols /\ Plain \subseteq Symbols
  BY DEF Plain, Symbols
<1>3. Newline[1] = "newline"
  BY DEF Newline
<1>4. \A s : Placeholder(s)[1] = "placeholder" /\ Marker(s)[1] = "marker"
  BY DEF Placeholder, Marker
<1>5. \A s \in Secrets : Placeholder(s) \in Symbols /\ Marker(s) \in Symbols
  BY DEF Symbols
<1>6. \A s, t : Placeholder(s) # Marker(t)
  BY <1>4
<1>7. QED
  BY <1>1, <1>2, <1>3, <1>4, <1>5, <1>6

(* Whatever gives a secret away is a non-empty text of plain symbols.      *)
LEMMA FormType ==
    ASSUME Configured, NEW s \in Secrets, NEW t, IsForm(s, t)
    PROVE  /\ t \in Seq(Plain) /\ t # <<>> /\ Len(t) \in Nat \ {0}
           /\ Value[s] \in Seq(Plain)
<1>1. Representations(s) \subseteq Seq(Plain) \ {<<>>}
  BY DEF Configured, NeedleAssumption
<1>2. Value[s] \in Seq(Plain)
  BY <1>1 DEF Representations
<1>3. t \in Seq(Plain) \ {<<>>}
  <2>1. CASE t \in Representations(s)
    BY <1>1, <2>1
  <2>2. CASE \E a, n, b : /\ MaskForm(Value[s], a, n, b)
                          /\ t = MaskNeedle(Value[s], a, n, b)
    BY <1>2, <2>2, MaskNeedleType, SymbolTypes DEF Configured
  <2>3. QED
    BY <2>1, <2>2 DEF IsForm
<1>4. Len(t) \in Nat \ {0}
  <2>1. t \in Seq(Plain) /\ t # <<>>
    BY <1>3
  <2>2. QED
    BY <2>1, EmptySeq, LenProperties
<1>5. QED
  BY <1>2, <1>3, <1>4

(* The masked renderings of a secret, as needles that are read.            *)
LEMMA MaskedIsForm ==
    ASSUME Configured, NEW text \in Seq(Symbols), NEW i \in Nat \ {0},
           NEW s \in Secrets
    PROVE  \A a, n, b : Masked(text, i, Value[s], a, n, b) <=>
              /\ MaskForm(Value[s], a, n, b)
              /\ Reads(text, i, MaskNeedle(Value[s], a, n, b))
<1>1. Value[s] \in Seq(Plain)
  BY DEF Configured, NeedleAssumption, Representations
<1>2. QED
  BY <1>1, MaskedReads, SymbolTypes DEF Configured

(* maskedAt finds a masked rendering that is there.                        *)
LEMMA MaskedAtFinds ==
    ASSUME Configured, NEW text \in Seq(Symbols), NEW i \in 1..Len(text),
           NEW secrets \in SUBSET Secrets
    PROVE  LET m == MaskedAt(text, i, secrets)
           IN  /\ m # NoMatch =>
                     m.secret \in secrets /\ m.length \in 1..(Len(text) + 1 - i)
               /\ \A s \in secrets :
                     MaskedLength(text, i, Value[s]) > 0 => m # NoMatch
<1> DEFINE found == {s \in secrets : MaskedLength(text, i, Value[s]) > 0}
           first == CHOOSE s \in found : \A t \in found : s <= t
           m     == MaskedAt(text, i, secrets)
<1>1. m = IF found = {} THEN NoMatch
          ELSE [length |-> MaskedLength(text, i, Value[first]), secret |-> first]
  BY Zenon DEF MaskedAt
<1>2. CASE found = {}
  BY <1>1, <1>2
<1>3. CASE found # {}
  <2>1. found \in SUBSET Nat
    BY SecretsAreNumbers DEF Configured
  <2>2. \E s \in found : \A t \in found : s <= t
    <3> HIDE DEF found
    <3>1. QED
      BY <1>3, <2>1, LeastNat
  <2>3. first \in found
    <3> HIDE DEF found
    <3>1. QED
      BY <2>2, Zenon
  <2> HIDE DEF first
  <2>4. first \in secrets /\ first \in Secrets
    BY <2>3
  <2>5. Value[first] \in Seq(Plain)
    BY <2>4 DEF Configured, NeedleAssumption, Representations
  <2>6. i \in Nat \ {0} /\ Len(text) \in Nat
    BY LenProperties
  <2>7. MaskedLength(text, i, Value[first]) > 0
    BY <2>3
  <2>8. /\ MaskedLength(text, i, Value[first]) \in Nat
        /\ MaskedLength(text, i, Value[first]) <= Len(text) + 1 - i
    BY <2>5, <2>6, <2>7, MaskedLengthFinds DEF Configured
  <2>9. m = [length |-> MaskedLength(text, i, Value[first]), secret |-> first]
    BY <1>1, <1>3
  <2>10. m # NoMatch
    BY <2>4, <2>9, NoSecret DEF Configured
  <2> HIDE DEF m, found
  <2>11. MaskedLength(text, i, Value[first]) \in 1..(Len(text) + 1 - i)
    BY <2>6, <2>7, <2>8
  <2>12. m.secret = first /\ m.length = MaskedLength(text, i, Value[first])
    BY <2>9
  <2>13. QED
    BY <2>4, <2>10, <2>11, <2>12 DEF m
<1>4. QED
  BY <1>2, <1>3

(* What Scrub and Sanitize look for are non-empty texts.                   *)
LEMMA NeedlesType ==
    ASSUME Configured
    PROVE  /\ Needles(ValueNeedles, Secrets)
           /\ Needles([s \in Secrets |->
                         Representations(s) \cup {<<Placeholder(s)>>}], Secrets)
<1>1. Seq(Plain) \subseteq Seq(Symbols)
  <2>1. ASSUME NEW t \in Seq(Plain) PROVE t \in Seq(Symbols)
    <3>1. \A i \in 1..Len(t) : t[i] \in Symbols
      BY ElementOfSeq, SymbolTypes
    <3>2. QED
      BY <3>1
  <2>2. QED
    BY <2>1
<1>2. \A s \in Secrets : Representations(s) \subseteq Seq(Symbols) \ {<<>>}
  BY <1>1 DEF Configured, NeedleAssumption
<1>3. \A s \in Secrets : <<Placeholder(s)>> \in Seq(Symbols) \ {<<>>}
  <2>1. \A s \in Secrets : Placeholder(s) \in Symbols
    BY SymbolTypes
  <2>2. QED
    BY <2>1
<1>4. QED
  BY <1>2, <1>3 DEF Needles, ValueNeedles

(* The length of a needle that is there.                                   *)
LEMMA NeedleMatchFits ==
    ASSUME NEW text \in Seq(Symbols), NEW i \in 1..Len(text),
           NEW secrets, NEW needles, Needles(needles, secrets), NEW m,
           NeedleMatch(text, i, needles, secrets, m)
    PROVE  m.secret \in secrets /\ m.length \in 1..(Len(text) + 1 - i)
<1>0. PICK s \in secrets : \E t \in needles[s] :
          Occurs(text, i, t) /\ m = [length |-> Len(t), secret |-> s]
  BY DEF NeedleMatch
<1>1. PICK t \in needles[s] :
          Occurs(text, i, t) /\ m = [length |-> Len(t), secret |-> s]
  BY <1>0
<1>2. t \in Seq(Symbols) /\ t # <<>>
  BY DEF Needles
<1>3. Len(t) \in Nat \ {0} /\ Len(text) \in Nat
  BY <1>2, EmptySeq, LenProperties
<1>4. i + Len(t) - 1 <= Len(text)
  BY <1>1 DEF Occurs
<1>5. Len(t) \in 1..(Len(text) + 1 - i)
  BY <1>3, <1>4
<1>6. QED
  BY <1>1, <1>5

(* Scrub replaces whatever gives a secret in scope away.                   *)
LEMMA MatchFinds ==
    ASSUME Configured, NEW text \in Seq(Symbols), NEW i \in 1..Len(text),
           NEW scope \in SUBSET Secrets
    PROVE  LET m == MatchToScrub(text, i, scope)
           IN  /\ m # NoMatch =>
                     m.secret \in scope /\ m.length \in 1..(Len(text) + 1 - i)
               /\ \A s \in scope : \A t :
                     IsForm(s, t) /\ Reads(text, i, t) => m # NoMatch
<1> DEFINE exact == ExactAt(text, i, scope)
           masked == MaskedAt(text, i, scope)
           m == MatchToScrub(text, i, scope)
<1>1. m = IF exact # NoMatch THEN exact ELSE masked
  BY Zenon DEF MatchToScrub
<1>2. Needles(ValueNeedles, scope)
  BY NeedlesType DEF Needles
<1>3. /\ exact = NoMatch \/ NeedleMatch(text, i, ValueNeedles, scope, exact)
      /\ \A s \in scope : \A t \in ValueNeedles[s] :
            Occurs(text, i, t) => exact # NoMatch
  BY <1>2, LongestNeedle DEF ExactAt, Configured
<1>4. exact # NoMatch => exact.secret \in scope
                         /\ exact.length \in 1..(Len(text) + 1 - i)
  BY <1>2, <1>3, NeedleMatchFits
<1>5. /\ masked # NoMatch =>
            masked.secret \in scope /\ masked.length \in 1..(Len(text) + 1 - i)
      /\ \A s \in scope : MaskedLength(text, i, Value[s]) > 0 => masked # NoMatch
  BY MaskedAtFinds
<1>6. ASSUME NEW s \in scope, NEW t, IsForm(s, t), Reads(text, i, t)
      PROVE  m # NoMatch
  <2>1. i \in Nat \ {0} /\ s \in Secrets
    OBVIOUS
  <2>2. CASE t \in Representations(s)
    <3>1. t \in Seq(Plain)
      BY <1>6, <2>1, FormType
    <3>2. Occurs(text, i, t)
      BY <1>6, <2>1, <3>1, OccursReads
    <3>3. t \in ValueNeedles[s]
      BY <2>1, <2>2 DEF ValueNeedles
    <3> HIDE DEF exact, masked, m
    <3>4. QED
      BY <1>1, <1>3, <3>2, <3>3
  <2>3. CASE \E a, n, b : /\ MaskForm(Value[s], a, n, b)
                          /\ t = MaskNeedle(Value[s], a, n, b)
    <3>1. \E a, n, b : Masked(text, i, Value[s], a, n, b)
      BY <1>6, <2>1, <2>3, MaskedIsForm
    <3>2. Value[s] \in Seq(Plain)
      BY <2>1 DEF Configured, NeedleAssumption, Representations
    <3>3. MaskedLength(text, i, Value[s]) > 0
      BY <2>1, <3>1, <3>2, MaskedLengthFinds DEF Configured
    <3> HIDE DEF exact, masked, m
    <3>4. QED
      BY <1>1, <1>5, <3>3
  <2>4. QED
    BY <1>6, <2>2, <2>3 DEF IsForm
<1> HIDE DEF exact, masked, m
<1>7. QED
  BY <1>1, <1>4, <1>5, <1>6 DEF m

(* What Scrub replaces at a place depends on what is read there only.      *)
LEMMA SameMatch ==
    ASSUME Configured, NEW text \in Seq(Symbols), NEW i \in Nat \ {0},
           NEW other \in Seq(Symbols), NEW j \in Nat \ {0},
           NEW scope \in SUBSET Secrets,
           \A s \in Secrets : \A t : IsForm(s, t) =>
               (Reads(text, i, t) <=> Reads(other, j, t))
    PROVE  MatchToScrub(text, i, scope) = MatchToScrub(other, j, scope)
<1>1. ASSUME NEW s \in Secrets, NEW t \in Representations(s)
      PROVE  Occurs(text, i, t) <=> Occurs(other, j, t)
  <2>1. IsForm(s, t)
    BY DEF IsForm
  <2>2. t \in Seq(Plain)
    BY <2>1, FormType
  <2>3. QED
    BY <2>1, <2>2, OccursReads
<1>2. NeedlesAt(text, i, ValueNeedles, scope) =
          NeedlesAt(other, j, ValueNeedles, scope)
  <2>1. ASSUME NEW m
        PROVE  m \in NeedlesAt(text, i, ValueNeedles, scope) <=>
                   m \in NeedlesAt(other, j, ValueNeedles, scope)
    <3>1. m \in NeedlesAt(text, i, ValueNeedles, scope) <=>
              \E s \in scope : \E t \in ValueNeedles[s] :
                  Occurs(text, i, t) /\ m = [length |-> Len(t), secret |-> s]
      BY NeedlesFound
    <3>2. m \in NeedlesAt(other, j, ValueNeedles, scope) <=>
              \E s \in scope : \E t \in ValueNeedles[s] :
                  Occurs(other, j, t) /\ m = [length |-> Len(t), secret |-> s]
      BY NeedlesFound
    <3>3. \A s \in scope : ValueNeedles[s] = Representations(s) /\ s \in Secrets
      BY DEF ValueNeedles
    <3>4. QED
      BY <1>1, <3>1, <3>2, <3>3
  <2>2. QED
    BY <2>1
<1>3. ASSUME NEW s \in Secrets
      PROVE  MaskedLength(text, i, Value[s]) = MaskedLength(other, j, Value[s])
  <2>1. Value[s] \in Seq(Plain)
    BY DEF Configured, NeedleAssumption, Representations
  <2>2. ASSUME NEW a, NEW n, NEW b
        PROVE  Masked(text, i, Value[s], a, n, b) <=>
                   Masked(other, j, Value[s], a, n, b)
    <3>1. Masked(text, i, Value[s], a, n, b) <=>
              /\ MaskForm(Value[s], a, n, b)
              /\ Reads(text, i, MaskNeedle(Value[s], a, n, b))
      BY MaskedIsForm
    <3>2. Masked(other, j, Value[s], a, n, b) <=>
              /\ MaskForm(Value[s], a, n, b)
              /\ Reads(other, j, MaskNeedle(Value[s], a, n, b))
      BY MaskedIsForm
    <3>3. MaskForm(Value[s], a, n, b) =>
              IsForm(s, MaskNeedle(Value[s], a, n, b))
      BY Zenon DEF IsForm
    <3>4. QED
      BY <3>1, <3>2, <3>3
  <2>3. QED
    BY <2>1, <2>2, SameMasks DEF Configured
<1>4. MaskedAt(text, i, scope) = MaskedAt(other, j, scope)
  <2>1. {s \in scope : MaskedLength(text, i, Value[s]) > 0} =
            {s \in scope : MaskedLength(other, j, Value[s]) > 0}
    BY <1>3
  <2> DEFINE found == {s \in scope : MaskedLength(text, i, Value[s]) > 0}
             first == CHOOSE s \in found : \A t \in found : s <= t
  <2>2. MaskedAt(text, i, scope) = IF found = {} THEN NoMatch
          ELSE [length |-> MaskedLength(text, i, Value[first]), secret |-> first]
    BY Zenon DEF MaskedAt
  <2>3. MaskedAt(other, j, scope) = IF found = {} THEN NoMatch
          ELSE [length |-> MaskedLength(other, j, Value[first]), secret |-> first]
    BY <2>1, Zenon DEF MaskedAt
  <2>4. CASE found = {}
    BY <2>2, <2>3, <2>4, Zenon
  <2>5. CASE found # {}
    <3>1. found \in SUBSET Nat
      BY SecretsAreNumbers DEF Configured
    <3>2. \E s \in found : \A t \in found : s <= t
      <4> HIDE DEF found
      <4>1. QED
        BY <2>5, <3>1, LeastNat
    <3>3. first \in found
      <4> HIDE DEF found
      <4>1. QED
        BY <3>2, Zenon
    <3> HIDE DEF first
    <3>4. first \in Secrets
      BY <3>3
    <3>5. MaskedLength(text, i, Value[first]) =
              MaskedLength(other, j, Value[first])
      BY <1>3, <3>4
    <3> HIDE DEF found
    <3>6. QED
      BY <2>2, <2>3, <2>5, <3>5
  <2>6. QED
    BY <2>4, <2>5
<1>5. QED
  BY <1>2, <1>4, Zenon DEF MatchToScrub, ExactAt

(* The text ends with a line, as every text before another record does.    *)
EndsLine(text) == text = <<>> \/ text[Len(text)] = Newline

(* No needle crosses the end of a line.                                    *)
LEMMA ReadsFront ==
    ASSUME Configured, NEW a \in Seq(Symbols), NEW b \in Seq(Symbols),
           EndsLine(a), NEW t \in Seq(Plain), NEW i \in 1..Len(a)
    PROVE  Reads(a \o b, i, t) <=> Reads(a, i, t)
<1>1. Len(a) \in Nat /\ Len(b) \in Nat /\ Len(t) \in Nat
  BY LenProperties
<1>2. Len(a \o b) = Len(a) + Len(b)
      /\ \A k \in 1..Len(a) : (a \o b)[k] = a[k]
  BY LenProperties
<1> DEFINE c == a \o b
           n == Len(t)
<1> HIDE DEF c
<1>3. ASSUME Reads(c, i, t), i + n - 1 > Len(a)
      PROVE  FALSE
  <2>1. Len(a) - i + 1 \in 1..n /\ i + (Len(a) - i + 1) - 1 = Len(a)
    BY <1>1, <1>3
  <2>2. c[Len(a)] = t[Len(a) - i + 1]
    BY <1>3, <2>1 DEF Reads
  <2>3. t[Len(a) - i + 1] \in Plain
    BY <2>1, ElementOfSeq
  <2>4. Len(a) \in 1..Len(a)
    BY <1>1
  <2>5. a # <<>>
    BY <1>1, EmptySeq
  <2>6. c[Len(a)] = Newline
    BY <1>2, <2>4, <2>5 DEF EndsLine, c
  <2>7. QED
    BY <2>2, <2>3, <2>6, SymbolTypes
<1>4. ASSUME i + n - 1 <= Len(a), NEW m \in 1..n
      PROVE  c[i + m - 1] = a[i + m - 1]
  <2>1. i + m - 1 \in 1..Len(a)
    BY <1>1, <1>4
  <2>2. QED
    BY <1>2, <2>1 DEF c
<1>5. ASSUME Reads(c, i, t) PROVE Reads(a, i, t)
  <2>1. i + n - 1 <= Len(a)
    BY <1>1, <1>3, <1>5
  <2>2. QED
    BY <1>4, <1>5, <2>1 DEF Reads
<1>6. ASSUME Reads(a, i, t) PROVE Reads(c, i, t)
  <2>1. i + n - 1 <= Len(a) /\ i + n - 1 <= Len(c)
    BY <1>1, <1>2, <1>6 DEF Reads, c
  <2>2. QED
    BY <1>4, <1>6, <2>1 DEF Reads
<1>7. QED
  BY <1>5, <1>6 DEF c

(* A needle is read behind the first line exactly if it is read in the     *)
(* rest.                                                                   *)
LEMMA ReadsBack ==
    ASSUME NEW a \in Seq(Symbols), NEW b \in Seq(Symbols),
           NEW t \in Seq(Plain), NEW i \in Nat \ {0}
    PROVE  Reads(a \o b, Len(a) + i, t) <=> Reads(b, i, t)
<1>1. Len(a) \in Nat /\ Len(b) \in Nat /\ Len(t) \in Nat
  BY LenProperties
<1>2. Len(a \o b) = Len(a) + Len(b)
      /\ \A k \in 1..Len(b) : (a \o b)[Len(a) + k] = b[k]
  BY LenProperties
<1> DEFINE c == a \o b
           n == Len(t)
<1> HIDE DEF c
<1>3. Len(a) + i + n - 1 <= Len(c) <=> i + n - 1 <= Len(b)
  BY <1>1, <1>2 DEF c
<1>4. ASSUME i + n - 1 <= Len(b), NEW m \in 1..n
      PROVE  c[Len(a) + i + m - 1] = b[i + m - 1]
  <2>1. i + m - 1 \in 1..Len(b) /\ Len(a) + i + m - 1 = Len(a) + (i + m - 1)
    BY <1>1, <1>4
  <2>2. QED
    BY <1>2, <2>1 DEF c
<1>5. Reads(c, Len(a) + i, t) <=> Reads(b, i, t)
  BY <1>3, <1>4 DEF Reads
<1>6. QED
  BY <1>5 DEF c

(* The matches and replacements of ScrubSecrets.                           *)
Matches(text, scope) == [i \in DOMAIN text |-> MatchToScrub(text, i, scope)]
Placeholding == [s \in Secrets |-> Placeholder(s)]

(* ScrubSecrets rewrites these matches.                                    *)
LEMMA ScrubSecretsIs ==
    ASSUME NEW text, NEW client, NEW host
    PROVE  ScrubSecrets(text, client, host) =
              Rewrite(text, Matches(text, Scope(client, host)), Placeholding)
BY Zenon DEF ScrubSecrets, Matches, Placeholding

(* The matches lie inside the text and are replaced by placeholders of     *)
(* secrets in scope.                                                       *)
LEMMA MatchesFit ==
    ASSUME Configured, NEW text \in Seq(Symbols), NEW scope \in SUBSET Secrets
    PROVE  /\ Fits(text, Matches(text, scope))
           /\ Replaces(text, Matches(text, scope), Placeholding, Symbols)
           /\ Replaces(text, Matches(text, scope), Placeholding,
                       {Placeholder(s) : s \in scope})
<1> DEFINE match == Matches(text, scope)
<1>1. \A i \in 1..Len(text) : match[i] = MatchToScrub(text, i, scope)
  BY LenProperties DEF Matches
<1>2. ASSUME NEW i \in 1..Len(text), match[i] # NoMatch
      PROVE  match[i].secret \in scope /\ match[i].length \in 1..(Len(text) + 1 - i)
  <2>1. LET m == MatchToScrub(text, i, scope)
        IN  m # NoMatch =>
              m.secret \in scope /\ m.length \in 1..(Len(text) + 1 - i)
    BY MatchFinds
  <2> HIDE DEF match
  <2>2. QED
    BY <1>1, <1>2, <2>1
<1> HIDE DEF match
<1>3. ASSUME NEW i \in 1..Len(text), match[i] # NoMatch
      PROVE  /\ Placeholding[match[i].secret] \in Symbols
             /\ Placeholding[match[i].secret] \in {Placeholder(s) : s \in scope}
  <2>1. match[i].secret \in scope /\ match[i].secret \in Secrets
    BY <1>2, <1>3
  <2>2. Placeholding[match[i].secret] = Placeholder(match[i].secret)
    BY <2>1 DEF Placeholding
  <2>3. QED
    BY <2>1, <2>2, SymbolTypes
<1>4. Fits(text, match)
  BY <1>2 DEF Fits
<1>5. Replaces(text, match, Placeholding, Symbols)
      /\ Replaces(text, match, Placeholding, {Placeholder(s) : s \in scope})
  BY <1>3 DEF Replaces
<1>6. QED
  BY <1>4, <1>5 DEF match

(* What is in scope is a set of secrets.                                   *)
LEMMA ScopeSecrets ==
    ASSUME NEW client, NEW host
    PROVE  Scope(client, host) \in SUBSET Secrets
BY DEF Scope

(* A scrubbed text is a text.                                              *)
LEMMA ScrubSecretsType ==
    ASSUME Configured, NEW text \in Seq(Symbols), NEW client, NEW host
    PROVE  ScrubSecrets(text, client, host) \in Seq(Symbols)
<1> DEFINE match == Matches(text, Scope(client, host))
<1>1. Fits(text, match) /\ Replaces(text, match, Placeholding, Symbols)
  BY ScopeSecrets, MatchesFit
<1> HIDE DEF match
<1>2. Rewrite(text, match, Placeholding) \in Seq(Symbols)
  BY <1>1, RewriteType, Zenon
<1>3. QED
  BY <1>2, ScrubSecretsIs DEF match

(* A scrubbed text gives no secret in scope away (static_scrub).           *)
LEMMA ScrubHides ==
    ASSUME Configured, NEW text \in Seq(Symbols), NEW client, NEW host,
           NEW s \in Scope(client, host)
    PROVE  ~Reveals(ScrubSecrets(text, client, host), s)
<1> DEFINE scope == Scope(client, host)
           match == Matches(text, scope)
           out   == Rewrite(text, match, Placeholding)
           M     == {Placeholder(u) : u \in scope}
<1>1. /\ Fits(text, match) /\ Replaces(text, match, Placeholding, Symbols)
      /\ Replaces(text, match, Placeholding, M)
  BY ScopeSecrets, MatchesFit
<1>2. out = ScrubSecrets(text, client, host) /\ out \in Seq(Symbols)
  BY ScrubSecretsIs, ScrubSecretsType
<1>3. scope \in SUBSET Secrets /\ s \in Secrets
  BY ScopeSecrets
<1>4. \A i \in 1..Len(text) : match[i] = MatchToScrub(text, i, scope)
  BY LenProperties DEF Matches
<1> HIDE DEF scope, match, out
<1>5. SUFFICES ASSUME NEW j \in 1..Len(out), NEW t, IsForm(s, t),
                      Reads(out, j, t)
               PROVE  FALSE
  BY <1>2 DEF Reveals
<1>6. t \in Seq(Plain) /\ Len(t) \in Nat \ {0}
  BY <1>3, <1>5, FormType
<1> DEFINE n == Len(t)
<1>7. ASSUME NEW m \in 0..(n - 1)
      PROVE  out[j + m] = t[m + 1] /\ out[j + m] \notin M
  <2>1. m + 1 \in 1..n /\ j + (m + 1) - 1 = j + m
    BY <1>6
  <2>2. out[j + m] = t[m + 1]
    BY <1>5, <2>1 DEF Reads
  <2>3. t[m + 1] \in Plain
    BY <1>6, <2>1, ElementOfSeq
  <2>4. QED
    BY <2>2, <2>3, SymbolTypes
<1>8. j \in Nat \ {0} /\ j + n - 1 <= Len(out)
  BY <1>5 DEF Reads
<1>9. PICK k \in 1..Len(text) :
          /\ k + n - 1 <= Len(text)
          /\ \A m \in 0..(n - 1) : out[j + m] = text[k + m] /\ match[k + m] = NoMatch
  <2>1. Preserved(out, j, n, M)
    BY <1>7, <1>8 DEF Preserved
  <2>2. n \in Nat \ {0}
    BY <1>6
  <2> HIDE DEF n, M
  <2>3. Fragment(out, text, match, j, n)
    BY <1>1, <1>8, <2>1, <2>2, RewriteFragment, Zenon DEF out
  <2>4. QED
    BY <2>3 DEF Fragment
<1>10. Reads(text, k, t)
  <2>1. ASSUME NEW m \in 1..n PROVE text[k + m - 1] = t[m]
    <3>1. m - 1 \in 0..(n - 1) /\ k + (m - 1) = k + m - 1 /\ (m - 1) + 1 = m
      BY <1>6
    <3>2. out[j + (m - 1)] = text[k + (m - 1)] /\ out[j + (m - 1)] = t[(m - 1) + 1]
      BY <1>7, <1>9, <3>1
    <3>3. QED
      BY <3>1, <3>2
  <2>2. QED
    BY <1>9, <2>1 DEF Reads
<1>11. match[k] # NoMatch
  <2>1. s \in scope
    BY DEF scope
  <2>2. LET m == MatchToScrub(text, k, scope)
        IN  \A u \in scope : \A v : IsForm(u, v) /\ Reads(text, k, v) => m # NoMatch
    BY <1>3, MatchFinds
  <2>3. MatchToScrub(text, k, scope) # NoMatch
    BY <1>5, <1>10, <2>1, <2>2
  <2>4. QED
    BY <1>4, <2>3
<1>12. match[k + 0] = NoMatch /\ k + 0 = k
  <2>1. 0 \in 0..(n - 1)
    BY <1>6
  <2>2. k \in Nat
    BY LenProperties
  <2>3. k + 0 = k
    BY <2>2
  <2>4. QED
    BY <1>9, <2>1, <2>3
<1>13. QED
  BY <1>11, <1>12

(* Texts may be scrubbed line by line.                                     *)
LEMMA ScrubConcat ==
    ASSUME Configured, NEW a \in Seq(Symbols), NEW b \in Seq(Symbols),
           EndsLine(a), NEW client, NEW host
    PROVE  ScrubSecrets(a \o b, client, host) =
              ScrubSecrets(a, client, host) \o ScrubSecrets(b, client, host)
<1> DEFINE scope == Scope(client, host)
           c == a \o b
<1>1. scope \in SUBSET Secrets /\ c \in Seq(Symbols)
  BY ScopeSecrets, ConcatProperties
<1>2. Len(a) \in Nat /\ Len(b) \in Nat /\ Len(c) = Len(a) + Len(b)
  BY LenProperties
<1> HIDE DEF scope
<1>3. /\ DOMAIN a = 1..Len(a) /\ DOMAIN b = 1..Len(b) /\ DOMAIN c = 1..Len(c)
  BY <1>1, LenProperties
<1>4. ASSUME NEW i \in 1..Len(a)
      PROVE  Matches(c, scope)[i] = Matches(a, scope)[i]
  <2>1. i \in Nat \ {0} /\ i \in 1..Len(c)
    BY <1>2
  <2>2. \A s \in Secrets : \A t : IsForm(s, t) =>
            (Reads(c, i, t) <=> Reads(a, i, t))
    <3>1. SUFFICES ASSUME NEW s \in Secrets, NEW t, IsForm(s, t)
                   PROVE  Reads(c, i, t) <=> Reads(a, i, t)
      OBVIOUS
    <3>2. t \in Seq(Plain)
      BY <3>1, FormType
    <3>3. QED
      BY <3>2, ReadsFront
  <2> HIDE DEF c
  <2>3. MatchToScrub(c, i, scope) = MatchToScrub(a, i, scope)
    BY <1>1, <2>1, <2>2, SameMatch
  <2>4. QED
    BY <1>3, <2>1, <2>3 DEF Matches
<1>5. ASSUME NEW i \in 1..Len(b)
      PROVE  Matches(c, scope)[Len(a) + i] = Matches(b, scope)[i]
  <2>1. /\ i \in Nat \ {0} /\ Len(a) + i \in 1..Len(c)
        /\ Len(a) + i \in Nat \ {0}
    BY <1>2
  <2>2. \A s \in Secrets : \A t : IsForm(s, t) =>
            (Reads(c, Len(a) + i, t) <=> Reads(b, i, t))
    <3>1. SUFFICES ASSUME NEW s \in Secrets, NEW t, IsForm(s, t)
                   PROVE  Reads(c, Len(a) + i, t) <=> Reads(b, i, t)
      OBVIOUS
    <3>2. t \in Seq(Plain)
      BY <3>1, FormType
    <3>3. QED
      BY <2>1, <3>2, ReadsBack
  <2> HIDE DEF c
  <2>3. MatchToScrub(c, Len(a) + i, scope) = MatchToScrub(b, i, scope)
    BY <1>1, <2>1, <2>2, SameMatch
  <2>4. QED
    BY <1>3, <2>1, <2>3 DEF Matches
<1> DEFINE A == Matches(a, scope)
           B == Matches(b, scope)
           C == Matches(c, scope)
<1>6. Fits(a, A) /\ Fits(b, B)
      /\ Replaces(a, A, Placeholding, Symbols)
      /\ Replaces(b, B, Placeholding, Symbols)
  BY <1>1, MatchesFit
<1>7. Splits(a, b, A, B, C)
  BY <1>4, <1>5 DEF Splits
<1> HIDE DEF A, B, C
<1>8. Rewrite(a \o b, C, Placeholding) =
          Rewrite(a, A, Placeholding) \o Rewrite(b, B, Placeholding)
  BY <1>6, <1>7, RewriteConcat
<1>9. QED
  BY <1>8, ScrubSecretsIs DEF A, B, C, scope

(* The matches and replacements of SanitizeSecrets.                        *)
Sanitizing == [s \in Secrets |-> Marker(s)]
AllNeedles == [s \in Secrets |-> Representations(s) \cup {<<Placeholder(s)>>}]
Hits(text) ==
    [i \in DOMAIN text |-> Longest(NeedlesAt(text, i, AllNeedles, Secrets))]

(* SanitizeSecrets rewrites every occurrence of a value, an encoding or a  *)
(* placeholder.                                                            *)
LEMMA SanitizeSecretsIs ==
    ASSUME NEW text
    PROVE  SanitizeSecrets(text, Secrets) =
              Rewrite(text, Hits(text), Sanitizing)
BY Zenon DEF SanitizeSecrets, Hits, Sanitizing, AllNeedles

(* These matches lie inside the text, are replaced by markers, and leave   *)
(* out nothing that is there.                                              *)
LEMMA HitsFit ==
    ASSUME Configured, NEW text \in Seq(Symbols)
    PROVE  /\ Fits(text, Hits(text))
           /\ Replaces(text, Hits(text), Sanitizing, Symbols)
           /\ Replaces(text, Hits(text), Sanitizing, {Marker(u) : u \in Secrets})
           /\ \A i \in 1..Len(text) : \A s \in Secrets : \A t \in AllNeedles[s] :
                 Occurs(text, i, t) => Hits(text)[i] # NoMatch
<1> DEFINE match == Hits(text)
           M     == {Marker(u) : u \in Secrets}
<1>1. \A i \in 1..Len(text) :
          match[i] = Longest(NeedlesAt(text, i, AllNeedles, Secrets))
  BY LenProperties DEF Hits
<1>2. Needles(AllNeedles, Secrets)
  BY NeedlesType DEF AllNeedles
<1>3. ASSUME NEW i \in 1..Len(text)
      PROVE  /\ match[i] = NoMatch
                \/ NeedleMatch(text, i, AllNeedles, Secrets, match[i])
             /\ \A s \in Secrets : \A t \in AllNeedles[s] :
                   Occurs(text, i, t) => match[i] # NoMatch
  <2>1. LET m == Longest(NeedlesAt(text, i, AllNeedles, Secrets))
        IN  /\ m = NoMatch \/ NeedleMatch(text, i, AllNeedles, Secrets, m)
            /\ \A s \in Secrets : \A t \in AllNeedles[s] :
                  Occurs(text, i, t) => m # NoMatch
    BY <1>2, LongestNeedle DEF Configured
  <2> HIDE DEF match
  <2>2. QED
    BY <1>1, <2>1
<1> HIDE DEF match
<1>4. ASSUME NEW i \in 1..Len(text), match[i] # NoMatch
      PROVE  /\ match[i].length \in 1..(Len(text) + 1 - i)
             /\ Sanitizing[match[i].secret] \in Symbols
             /\ Sanitizing[match[i].secret] \in M
  <2>1. NeedleMatch(text, i, AllNeedles, Secrets, match[i])
    BY <1>3, <1>4
  <2>2. match[i].secret \in Secrets /\ match[i].length \in 1..(Len(text) + 1 - i)
    BY <1>2, <2>1, NeedleMatchFits
  <2>3. Sanitizing[match[i].secret] = Marker(match[i].secret)
    BY <2>2 DEF Sanitizing
  <2>4. QED
    BY <2>2, <2>3, SymbolTypes
<1>5. /\ Fits(text, match) /\ Replaces(text, match, Sanitizing, Symbols)
      /\ Replaces(text, match, Sanitizing, M)
  BY <1>4 DEF Fits, Replaces
<1>6. QED
  BY <1>3, <1>5 DEF match

(* A sanitised text shows no value, encoding or placeholder of any secret: *)
(* what the markers are put between does not join into one.                *)
LEMMA SanitizeHides ==
    ASSUME Configured, NEW text \in Seq(Symbols)
    PROVE  /\ SanitizeSecrets(text, Secrets) \in Seq(Symbols)
           /\ \A s \in Secrets : \A t \in AllNeedles[s] :
                 \A j \in 1..Len(SanitizeSecrets(text, Secrets)) :
                    ~Reads(SanitizeSecrets(text, Secrets), j, t)
<1> DEFINE match == Hits(text)
           out   == Rewrite(text, match, Sanitizing)
           M     == {Marker(u) : u \in Secrets}
<1>2. Needles(AllNeedles, Secrets)
  BY NeedlesType DEF AllNeedles
<1>3. \A i \in 1..Len(text) : \A s \in Secrets : \A t \in AllNeedles[s] :
          Occurs(text, i, t) => match[i] # NoMatch
  BY HitsFit
<1>5. /\ Fits(text, match) /\ Replaces(text, match, Sanitizing, Symbols)
      /\ Replaces(text, match, Sanitizing, M)
  BY HitsFit
<1>6. out = SanitizeSecrets(text, Secrets)
  BY SanitizeSecretsIs
<1> HIDE DEF match
<1>7. out \in Seq(Symbols)
  <2> HIDE DEF M
  <2>1. QED
    BY <1>5, RewriteType, Zenon
<1> HIDE DEF out
<1>8. ASSUME NEW s \in Secrets, NEW t \in AllNeedles[s],
             NEW j \in 1..Len(out), Reads(out, j, t)
      PROVE  FALSE
  <2>1. t \in Seq(Symbols) \ {<<>>}
    BY <1>2 DEF Needles
  <2>2. Len(t) \in Nat \ {0}
    BY <2>1, EmptySeq, LenProperties
  <2> DEFINE n == Len(t)
  <2>3. ASSUME NEW m \in 1..n PROVE t[m] \notin M
    <3>1. CASE t \in Representations(s)
      <4>1. t \in Seq(Plain)
        BY <3>1 DEF Configured, NeedleAssumption
      <4>2. t[m] \in Plain
        BY <4>1, ElementOfSeq
      <4>3. QED
        BY <4>2, SymbolTypes
    <3>2. CASE t = <<Placeholder(s)>>
      <4>1. t[m] = Placeholder(s)
        BY <3>2
      <4>2. QED
        BY <4>1, SymbolTypes
    <3>3. QED
      BY <3>1, <3>2 DEF AllNeedles
  <2>4. ASSUME NEW m \in 0..(n - 1)
        PROVE  out[j + m] = t[m + 1] /\ out[j + m] \notin M
    <3>1. m + 1 \in 1..n /\ j + (m + 1) - 1 = j + m
      BY <2>2
    <3>2. out[j + m] = t[m + 1]
      BY <1>8, <3>1 DEF Reads
    <3>3. QED
      BY <2>3, <3>1, <3>2
  <2>5. j \in Nat \ {0} /\ j + n - 1 <= Len(out)
    BY <1>8 DEF Reads
  <2>6. PICK k \in 1..Len(text) :
          /\ k + n - 1 <= Len(text)
          /\ \A m \in 0..(n - 1) : out[j + m] = text[k + m] /\ match[k + m] = NoMatch
    <3>1. Preserved(out, j, n, M)
      BY <2>4, <2>5 DEF Preserved
    <3>2. n \in Nat \ {0}
      BY <2>2
    <3> HIDE DEF n, M
    <3>3. Fragment(out, text, match, j, n)
      BY <1>5, <2>5, <3>1, <3>2, RewriteFragment, Zenon DEF out
    <3>4. QED
      BY <3>3 DEF Fragment
  <2>7. Reads(text, k, t)
    <3>1. ASSUME NEW m \in 1..n PROVE text[k + m - 1] = t[m]
      <4>1. m - 1 \in 0..(n - 1) /\ k + (m - 1) = k + m - 1 /\ (m - 1) + 1 = m
        BY <2>2
      <4>2. out[j + (m - 1)] = text[k + (m - 1)] /\ out[j + (m - 1)] = t[(m - 1) + 1]
        BY <2>4, <2>6, <4>1
      <4>3. QED
        BY <4>1, <4>2
    <3>2. QED
      BY <2>6, <3>1 DEF Reads
  <2>8. Occurs(text, k, t)
    BY <2>1, <2>7, OccursReads
  <2>9. match[k] # NoMatch
    BY <1>3, <2>8
  <2>10. match[k] = NoMatch
    <3>1. 0 \in 0..(n - 1) /\ k + 0 = k
      BY <2>2
    <3> HIDE DEF n
    <3>2. match[k + 0] = NoMatch
      BY <2>6, <3>1
    <3>3. QED
      BY <3>1, <3>2
  <2>11. QED
    BY <2>9, <2>10
<1>9. QED
  BY <1>6, <1>7, <1>8

(* A symbol by what it names: a token's placeholder names the token.       *)
Name(x) == IF x[1] = "virtual" THEN Token(x[2], x[3]) ELSE x

(* The kinds of the brokers' symbols, and what they name.                  *)
LEMMA TagOf ==
    /\ \A k, g : /\ Token(k, g)[1] = "token" /\ Virtual(k, g)[1] = "virtual"
                 /\ Token(k, g)[3] = g /\ Virtual(k, g)[3] = g
                 /\ Name(Virtual(k, g)) = Token(k, g)
                 /\ Name(Token(k, g)) = Token(k, g)
    /\ \A k : TokenMarker(k)[1] = "marker"
    /\ \A s : Placeholder(s)[1] = "placeholder" /\ Marker(s)[1] = "marker"
<1>1. \A k, g : /\ Token(k, g)[1] = "token" /\ Virtual(k, g)[1] = "virtual"
                /\ Token(k, g)[3] = g /\ Virtual(k, g)[3] = g
                /\ Virtual(k, g)[2] = k
  BY DEF Token, Virtual
<1>2. \A k : TokenMarker(k)[1] = "marker"
  BY DEF TokenMarker
<1>3. \A s : Placeholder(s)[1] = "placeholder" /\ Marker(s)[1] = "marker"
  BY DEF Placeholder, Marker
<1>4. QED
  BY <1>1, <1>2, <1>3 DEF Name

(* Named names every symbol of a text.                                     *)
LEMMA NamedIs ==
    ASSUME NEW text \in Seq(Symbols)
    PROVE  /\ Named(text) = [i \in 1..Len(text) |-> Name(text[i])]
           /\ DOMAIN Named(text) = 1..Len(text)
<1>1. DOMAIN text = 1..Len(text)
  BY LenProperties
<1>2. QED
  BY <1>1, Zenon DEF Named, Name

(* Texts with the same names have the same plain symbols in the same       *)
(* places.                                                                 *)
LEMMA NamedPlain ==
    ASSUME Configured, NEW x \in Symbols, NEW y \in Symbols,
           Name(x) = Name(y), x \in Plain
    PROVE  y = x
<1>1. x[1] \in {"byte", "mask", "wide"}
  BY SymbolTypes
<1>2. Name(x) = x
  BY <1>1 DEF Name
<1>3. CASE y[1] = "virtual"
  <2>1. Name(y)[1] = "token"
    BY <1>3, TagOf DEF Name
  <2>2. QED
    BY <1>1, <1>2, <2>1
<1>4. CASE y[1] # "virtual"
  BY <1>2, <1>4 DEF Name
<1>5. QED
  BY <1>3, <1>4

(* Texts with the same names are equally long, and have the same names in  *)
(* the same places.                                                        *)
LEMMA NamedLen ==
    ASSUME NEW u \in Seq(Symbols), NEW v \in Seq(Symbols), Named(u) = Named(v)
    PROVE  Len(u) = Len(v) /\ \A i \in 1..Len(u) : Name(u[i]) = Name(v[i])
<1>1. Len(u) \in Nat /\ Len(v) \in Nat /\ 1..Len(u) = 1..Len(v)
  BY NamedIs, LenProperties
<1>2. Len(u) = Len(v)
  BY <1>1
<1>3. \A i \in 1..Len(u) : Name(u[i]) = Named(u)[i] /\ Name(v[i]) = Named(v)[i]
  BY <1>2, NamedIs
<1>4. QED
  BY <1>2, <1>3

(* They give the same secrets away: the token broker's pass neither brings *)
(* in a secret nor takes one out.                                          *)
LEMMA NamedReveals ==
    ASSUME Configured, NEW u \in Seq(Symbols), NEW v \in Seq(Symbols),
           Named(u) = Named(v), NEW s \in Secrets, Reveals(u, s)
    PROVE  Reveals(v, s)
<1>1. PICK i \in 1..Len(u) : \E t : IsForm(s, t) /\ Reads(u, i, t)
  BY DEF Reveals
<1>2. PICK t : IsForm(s, t) /\ Reads(u, i, t)
  BY <1>1
<1>3. t \in Seq(Plain) /\ Len(t) \in Nat
  BY <1>2, FormType
<1>4. Len(u) \in Nat /\ Len(u) = Len(v)
      /\ \A j \in 1..Len(u) : Name(u[j]) = Name(v[j])
  BY NamedLen, LenProperties
<1>5. ASSUME NEW m \in 1..Len(t) PROVE v[i + m - 1] = t[m]
  <2>1. i + m - 1 \in 1..Len(u)
    BY <1>2, <1>3, <1>4 DEF Reads
  <2>2. u[i + m - 1] = t[m] /\ t[m] \in Plain
    BY <1>2, <1>3, ElementOfSeq DEF Reads
  <2>3. u[i + m - 1] \in Symbols /\ v[i + m - 1] \in Symbols
    BY <1>4, <2>1, ElementOfSeq
  <2>4. QED
    BY <1>4, <2>1, <2>2, <2>3, NamedPlain
<1>6. Reads(v, i, t)
  BY <1>2, <1>4, <1>5 DEF Reads
<1>7. QED
  BY <1>2, <1>4, <1>6 DEF Reveals

(* Texts put together of parts with the same names have the same names.    *)
LEMMA NamedConcat ==
    ASSUME NEW a \in Seq(Symbols), NEW b \in Seq(Symbols),
           NEW u \in Seq(Symbols), NEW v \in Seq(Symbols),
           Named(a) = Named(u), Named(b) = Named(v)
    PROVE  Named(a \o b) = Named(u \o v)
<1>1. /\ Len(a) \in Nat /\ Len(b) \in Nat
      /\ Len(a) = Len(u) /\ \A i \in 1..Len(a) : Name(a[i]) = Name(u[i])
      /\ Len(b) = Len(v) /\ \A i \in 1..Len(b) : Name(b[i]) = Name(v[i])
  BY NamedLen, LenProperties
<1>2. a \o b \in Seq(Symbols) /\ u \o v \in Seq(Symbols)
      /\ Len(a \o b) = Len(a) + Len(b) /\ Len(u \o v) = Len(a) + Len(b)
  <2>1. a \o b \in Seq(Symbols) /\ Len(a \o b) = Len(a) + Len(b)
    BY ConcatProperties
  <2>2. u \o v \in Seq(Symbols) /\ Len(u \o v) = Len(u) + Len(v)
    BY ConcatProperties
  <2>3. QED
    BY <1>1, <2>1, <2>2
<1>3. ASSUME NEW i \in 1..(Len(a) + Len(b))
      PROVE  Name((a \o b)[i]) = Name((u \o v)[i])
  <2>1. CASE i <= Len(a)
    <3>1. i \in 1..Len(a)
      BY <1>1, <2>1
    <3>2. (a \o b)[i] = a[i] /\ (u \o v)[i] = u[i]
      BY <1>1, <3>1
    <3>3. QED
      BY <1>1, <3>1, <3>2
  <2>2. CASE ~(i <= Len(a))
    <3>1. i - Len(a) \in 1..Len(b)
      BY <1>1, <2>2
    <3>2. (a \o b)[i] = b[i - Len(a)] /\ (u \o v)[i] = v[i - Len(a)]
      BY <1>1, <2>2, <3>1
    <3>3. QED
      BY <1>1, <3>1, <3>2
  <2>3. QED
    BY <2>1, <2>2
<1> DEFINE x == a \o b
           y == u \o v
           n == Len(a) + Len(b)
<1>4. Named(x) = [i \in 1..n |-> Name(x[i])] /\ Named(y) = [i \in 1..n |-> Name(y[i])]
  <2> HIDE DEF x, y, n
  <2>1. Named(x) = [i \in 1..Len(x) |-> Name(x[i])]
        /\ Named(y) = [i \in 1..Len(y) |-> Name(y[i])]
    BY <1>2, NamedIs DEF x, y
  <2>2. Len(x) = n /\ Len(y) = n
    BY <1>2 DEF x, y, n
  <2>3. QED
    BY <2>1, <2>2
<1>5. \A i \in 1..n : Name(x[i]) = Name(y[i])
  BY <1>3
<1> HIDE DEF x, y, n
<1>6. Named(x) = Named(y)
  BY <1>4, <1>5
<1>7. QED
  BY <1>6 DEF x, y

-----------------------------------------------------------------------------
(* The tokens and placeholders a broker knows.                             *)
LEMMA LiveType ==
    ASSUME TypeOK, PlaceholderFaithful, NEW ref \in LiveRefs
    PROVE  /\ ref \in Ref /\ ref.key \in Keys /\ ref.kind \in Kinds
           /\ TokenOf(ref) \in Grants /\ PlaceholderOf(ref) = TokenOf(ref)
           /\ Token(ref.kind, TokenOf(ref)) \in Symbols
           /\ Virtual(ref.kind, PlaceholderOf(ref)) \in Symbols
           /\ TokenMarker(ref.kind) \in Symbols
<1>1. ref \in Ref /\ ref.key \in Keys /\ ref.kind \in Kinds
  BY DEF LiveRefs, Ref
<1>2. records[ref.key] \in Record
  BY <1>1 DEF TypeOK, File
<1>3. PlaceholderOf(ref) = TokenOf(ref)
  BY <1>1 DEF PlaceholderFaithful, PlaceholderOf, TokenOf
<1>4. TokenOf(ref) \in 0..MaxGrants /\ TokenOf(ref) # 0
  BY <1>1, <1>2 DEF LiveRefs, TokenOf, Record
<1>5. TokenOf(ref) \in Grants
  BY <1>4, BoundAssumption DEF Grants
<1>6. QED
  BY <1>1, <1>3, <1>5 DEF Symbols

(* ScrubTokens, symbol by symbol.                                          *)
LEMMA ScrubTokensAt ==
    ASSUME NEW text \in Seq(Symbols), NEW client, NEW host, NEW i \in 1..Len(text)
    PROVE  \/ /\ ScrubTokens(text, client, host)[i] = text[i]
              /\ \A ref \in LiveRefs : Scrubs(ref, client, host) =>
                    text[i] # Token(ref.kind, TokenOf(ref))
           \/ \E ref \in LiveRefs :
                 /\ Scrubs(ref, client, host)
                 /\ text[i] = Token(ref.kind, TokenOf(ref))
                 /\ ScrubTokens(text, client, host)[i] =
                        Virtual(ref.kind, PlaceholderOf(ref))
<1> DEFINE found == {ref \in LiveRefs :
                /\ Scrubs(ref, client, host)
                /\ text[i] = Token(ref.kind, TokenOf(ref))}
           ref == CHOOSE f \in found : TRUE
<1>1. i \in DOMAIN text
  BY LenProperties
<1>2. ScrubTokens(text, client, host)[i] =
          IF found = {} THEN text[i] ELSE Virtual(ref.kind, PlaceholderOf(ref))
  BY <1>1, Zenon DEF ScrubTokens
<1>3. found # {} => ref \in found
  <2> HIDE DEF found
  <2>1. QED
    BY Zenon
<1> HIDE DEF ref
<1>4. QED
  BY <1>2, <1>3

(* The token broker's pass puts a symbol for every symbol, with the same   *)
(* names.                                                                  *)
LEMMA ScrubTokensType ==
    ASSUME TypeOK, PlaceholderFaithful, NEW text \in Seq(Symbols),
           NEW client, NEW host
    PROVE  /\ ScrubTokens(text, client, host) \in Seq(Symbols)
           /\ Len(ScrubTokens(text, client, host)) = Len(text)
           /\ Named(ScrubTokens(text, client, host)) = Named(text)
<1> DEFINE out == ScrubTokens(text, client, host)
<1>1. Len(text) \in Nat /\ DOMAIN text = 1..Len(text)
  BY LenProperties
<1>2. out = [i \in 1..Len(text) |-> out[i]]
  BY <1>1 DEF ScrubTokens
<1>3. ASSUME NEW i \in 1..Len(text)
      PROVE  out[i] \in Symbols /\ Name(out[i]) = Name(text[i])
  <2>1. CASE out[i] = text[i]
    BY <2>1, ElementOfSeq
  <2>2. CASE \E ref \in LiveRefs :
                 /\ text[i] = Token(ref.kind, TokenOf(ref))
                 /\ out[i] = Virtual(ref.kind, PlaceholderOf(ref))
    <3>1. PICK ref \in LiveRefs :
                 /\ text[i] = Token(ref.kind, TokenOf(ref))
                 /\ out[i] = Virtual(ref.kind, PlaceholderOf(ref))
      BY <2>2
    <3> HIDE DEF out
    <3>2. out[i] \in Symbols /\ PlaceholderOf(ref) = TokenOf(ref)
      BY <3>1, LiveType
    <3>3. QED
      BY <3>1, <3>2, TagOf
  <2>3. QED
    BY <2>1, <2>2, ScrubTokensAt
<1> HIDE DEF out
<1>4. out \in Seq(Symbols) /\ Len(out) = Len(text)
  <2>1. \A i \in 1..Len(text) : out[i] \in Symbols
    BY <1>3
  <2>2. out \in [1..Len(text) -> Symbols]
    BY <1>2, <2>1
  <2>3. QED
    BY <1>1, <2>2
<1>5. Named(out) = Named(text)
  <2>1. Named(out) = [i \in 1..Len(text) |-> Name(out[i])]
        /\ Named(text) = [i \in 1..Len(text) |-> Name(text[i])]
    BY <1>4, NamedIs
  <2>2. QED
    BY <1>3, <2>1
<1>6. QED
  BY <1>4, <1>5 DEF out

(* SanitizeTokens, symbol by symbol.                                       *)
LEMMA SanitizeTokensAt ==
    ASSUME NEW text \in Seq(Symbols), NEW i \in 1..Len(text)
    PROVE  \/ /\ SanitizeTokens(text)[i] = text[i]
              /\ \A ref \in LiveRefs :
                    /\ text[i] # Token(ref.kind, TokenOf(ref))
                    /\ text[i] # Virtual(ref.kind, PlaceholderOf(ref))
           \/ \E ref \in LiveRefs : SanitizeTokens(text)[i] = TokenMarker(ref.kind)
<1> DEFINE found == {ref \in LiveRefs :
                text[i] \in {Token(ref.kind, TokenOf(ref)),
                             Virtual(ref.kind, PlaceholderOf(ref))}}
           ref == CHOOSE f \in found : TRUE
<1>1. i \in DOMAIN text
  BY LenProperties
<1>2. SanitizeTokens(text)[i] =
          IF found = {} THEN text[i] ELSE TokenMarker(ref.kind)
  BY <1>1, Zenon DEF SanitizeTokens
<1>3. found # {} => ref \in found
  <2> HIDE DEF found
  <2>1. QED
    BY Zenon
<1> HIDE DEF ref
<1>4. QED
  BY <1>2, <1>3

(* The token broker's sanitising puts markers in the place of all live     *)
(* tokens and their placeholders, and leaves the rest.                     *)
LEMMA SanitizeTokensType ==
    ASSUME TypeOK, PlaceholderFaithful, NEW text \in Seq(Symbols)
    PROVE  /\ SanitizeTokens(text) \in Seq(Symbols)
           /\ Len(SanitizeTokens(text)) = Len(text)
           /\ \A i \in 1..Len(text) :
                 \/ SanitizeTokens(text)[i] = text[i]
                 \/ SanitizeTokens(text)[i][1] = "marker"
           /\ \A ref \in LiveRefs :
                 /\ ~Shows(SanitizeTokens(text), Token(ref.kind, TokenOf(ref)))
                 /\ ~Shows(SanitizeTokens(text),
                           Virtual(ref.kind, PlaceholderOf(ref)))
<1> DEFINE out == SanitizeTokens(text)
<1>1. Len(text) \in Nat /\ DOMAIN text = 1..Len(text)
  BY LenProperties
<1>2. out = [i \in 1..Len(text) |-> out[i]]
  BY <1>1 DEF SanitizeTokens
<1>3. ASSUME NEW i \in 1..Len(text)
      PROVE  /\ out[i] \in Symbols
             /\ out[i] = text[i] \/ out[i][1] = "marker"
             /\ \A ref \in LiveRefs :
                    /\ out[i] # Token(ref.kind, TokenOf(ref))
                    /\ out[i] # Virtual(ref.kind, PlaceholderOf(ref))
  <2>1. CASE /\ out[i] = text[i]
             /\ \A ref \in LiveRefs :
                    /\ text[i] # Token(ref.kind, TokenOf(ref))
                    /\ text[i] # Virtual(ref.kind, PlaceholderOf(ref))
    BY <2>1, ElementOfSeq
  <2>2. CASE \E ref \in LiveRefs : out[i] = TokenMarker(ref.kind)
    <3>1. PICK ref \in LiveRefs : out[i] = TokenMarker(ref.kind)
      BY <2>2
    <3> HIDE DEF out
    <3>2. out[i] \in Symbols /\ out[i][1] = "marker"
      BY <3>1, LiveType, TagOf
    <3>3. QED
      BY <3>2, TagOf
  <2>3. QED
    BY <2>1, <2>2, SanitizeTokensAt
<1> HIDE DEF out
<1>4. out \in Seq(Symbols) /\ Len(out) = Len(text)
  <2>1. \A i \in 1..Len(text) : out[i] \in Symbols
    BY <1>3
  <2>2. out \in [1..Len(text) -> Symbols]
    BY <1>2, <2>1
  <2>3. QED
    BY <1>1, <2>2
<1>5. DOMAIN out = 1..Len(text)
  BY <1>2
<1>6. \A ref \in LiveRefs :
          /\ ~Shows(out, Token(ref.kind, TokenOf(ref)))
          /\ ~Shows(out, Virtual(ref.kind, PlaceholderOf(ref)))
  BY <1>3, <1>5 DEF Shows
<1>7. QED
  BY <1>3, <1>4, <1>6 DEF out

(* The recursive function of Flat.                                         *)
FlatFrom(pieces) ==
    CHOOSE f : f = [i \in 1..(Len(pieces) + 1) |->
        IF i > Len(pieces) THEN <<>> ELSE pieces[i] \o f[i + 1]]

(* Flat is the first value of that function.                               *)
LEMMA FlatIs == ASSUME NEW pieces PROVE Flat(pieces) = FlatFrom(pieces)[1]
BY Zenon DEF Flat, FlatFrom

(* Flat conforms to the equation that defines it, and is a text.           *)
LEMMA FlatStep ==
    ASSUME NEW T, NEW pieces \in Seq(Seq(T))
    PROVE  /\ FlatFrom(pieces)[Len(pieces) + 1] = <<>>
           /\ \A i \in 1..Len(pieces) :
                 FlatFrom(pieces)[i] = pieces[i] \o FlatFrom(pieces)[i + 1]
           /\ \A i \in 1..(Len(pieces) + 1) : FlatFrom(pieces)[i] \in Seq(T)
<1> DEFINE N == Len(pieces)
           next == [i \in 1..N |-> i + 1]
           Eq(f) == f = [i \in 1..(Len(pieces) + 1) |->
               IF i > Len(pieces) THEN <<>> ELSE pieces[i] \o f[i + 1]]
<1>1. N \in Nat /\ N = Len(pieces)
  BY LenProperties
<1>2. PICK g : Scans(g, N, pieces, next)
  <2>1. \A i \in 1..N : next[i] \in (i + 1)..(N + 1)
    BY <1>1
  <2> HIDE DEF N, next
  <2>2. N \in Nat
    BY <1>1
  <2>3. QED
    BY <2>1, <2>2, ScanExists, Zenon
<1> DEFINE f == [i \in 1..(N + 1) |-> g[i]]
<1>3. ASSUME NEW i \in 1..(N + 1)
      PROVE  f[i] = IF i > Len(pieces) THEN <<>> ELSE pieces[i] \o f[i + 1]
  <2>1. f[i] = IF i > N THEN <<>> ELSE pieces[i] \o g[next[i]]
    BY <1>2 DEF Scans
  <2>2. CASE i > N
    BY <2>1, <2>2
  <2>3. CASE ~(i > N)
    <3>1. i \in 1..N /\ i + 1 \in 1..(N + 1) /\ next[i] = i + 1
      BY <1>1, <2>3
    <3>2. g[next[i]] = f[i + 1]
      BY <3>1
    <3> HIDE DEF f, next
    <3>3. QED
      BY <2>1, <2>3, <3>2
  <2>4. QED
    BY <2>2, <2>3
<1>4. Eq(f)
  <2>1. f = [i \in 1..(N + 1) |-> f[i]]
    OBVIOUS
  <2> HIDE DEF f
  <2>2. QED
    BY <1>3, <2>1
<1> DEFINE P == FlatFrom(pieces)
<1>5. Eq(P)
  <2>1. \E h : Eq(h)
    BY <1>4
  <2>2. QED
    BY <2>1, Zenon DEF FlatFrom
<1> HIDE DEF P
<1>6. \A i \in 1..(N + 1) : P[i] =
               IF i > Len(pieces) THEN <<>> ELSE pieces[i] \o P[i + 1]
  BY <1>5
<1>7. P[N + 1] = <<>> /\ \A i \in 1..N : P[i] = pieces[i] \o P[i + 1]
  <2>1. N + 1 \in 1..(N + 1) /\ N + 1 > Len(pieces)
    BY <1>1
  <2>2. \A i \in 1..N : i \in 1..(N + 1) /\ ~(i > Len(pieces))
    BY <1>1
  <2>3. QED
    BY <1>6, <2>1, <2>2
<1> DEFINE U == {i \in 1..(N + 1) : P[i] \in Seq(T)}
<1> HIDE DEF N
<1>8. N + 1 \in U
  <2>1. N + 1 \in 1..(N + 1) /\ <<>> \in Seq(T)
    BY <1>1, EmptySeq
  <2>2. QED
    BY <1>7, <2>1
<1>9. ASSUME NEW i \in 1..N, \A k \in (i + 1)..(N + 1) : k \in U
      PROVE  i \in U
  <2>1. i + 1 \in (i + 1)..(N + 1) /\ i \in 1..(N + 1)
    BY <1>1
  <2>2. P[i + 1] \in Seq(T)
    BY <1>9, <2>1
  <2>3. pieces[i] \in Seq(T)
    BY ElementOfSeq DEF N
  <2>4. P[i] \in Seq(T)
    BY <1>7, <2>2, <2>3, ConcatProperties
  <2>5. QED
    BY <2>1, <2>4
<1> HIDE DEF U
<1>10. \A i \in 1..(N + 1) : i \in U
  BY <1>1, <1>8, <1>9, Backward
<1>11. \A i \in 1..(N + 1) : P[i] \in Seq(T)
  BY <1>10 DEF U
<1>12. QED
  BY <1>7, <1>11 DEF P, N

(* One more piece is one more stretch of text.                             *)
LEMMA FlatAppend ==
    ASSUME NEW T, NEW pieces \in Seq(Seq(T)), NEW x \in Seq(T)
    PROVE  Flat(Append(pieces, x)) = Flat(pieces) \o x
<1> DEFINE N == Len(pieces)
           more == Append(pieces, x)
           P == FlatFrom(pieces)
           Q == FlatFrom(more)
           U == {i \in 1..(N + 1) : Q[i] = P[i] \o x}
<1>1. /\ N \in Nat /\ more \in Seq(Seq(T)) /\ Len(more) = N + 1
      /\ more[N + 1] = x /\ \A i \in 1..N : more[i] = pieces[i]
  BY AppendProperties, LenProperties
<1>2. /\ P[N + 1] = <<>> /\ \A i \in 1..N : P[i] = pieces[i] \o P[i + 1]
      /\ \A i \in 1..(N + 1) : P[i] \in Seq(T)
  BY FlatStep
<1>3. /\ Q[N + 1 + 1] = <<>>
      /\ \A i \in 1..(N + 1) : Q[i] = more[i] \o Q[i + 1]
      /\ \A i \in 1..(N + 1 + 1) : Q[i] \in Seq(T)
  <2> HIDE DEF more, N
  <2>1. /\ Q[Len(more) + 1] = <<>>
        /\ \A i \in 1..Len(more) : Q[i] = more[i] \o Q[i + 1]
        /\ \A i \in 1..(Len(more) + 1) : Q[i] \in Seq(T)
    BY <1>1, FlatStep
  <2> HIDE DEF Q
  <2>2. QED
    BY <1>1, <2>1
<1>4. Flat(more) = Q[1] /\ Flat(pieces) = P[1]
  BY FlatIs
<1> HIDE DEF N, more, P, Q
<1>5. N + 1 \in U
  <2>1. N + 1 \in 1..(N + 1)
    BY <1>1
  <2>2. Q[N + 1] = x
    BY <1>1, <1>3, <2>1, ConcatEmptySeq
  <2>3. P[N + 1] \o x = x
    BY <1>2, ConcatEmptySeq
  <2>4. QED
    BY <2>1, <2>2, <2>3
<1>6. ASSUME NEW i \in 1..N, \A k \in (i + 1)..(N + 1) : k \in U
      PROVE  i \in U
  <2>1. i + 1 \in (i + 1)..(N + 1) /\ i \in 1..(N + 1) /\ i + 1 \in 1..(N + 1)
    BY <1>1
  <2>2. Q[i + 1] = P[i + 1] \o x
    BY <1>6, <2>1
  <2>3. Q[i] = pieces[i] \o Q[i + 1]
    BY <1>1, <1>3, <2>1
  <2>4. pieces[i] \in Seq(T) /\ P[i + 1] \in Seq(T)
    BY <1>2, <2>1, ElementOfSeq DEF N
  <2>5. pieces[i] \o (P[i + 1] \o x) = (pieces[i] \o P[i + 1]) \o x
    <3>1. \A u, v, w \in Seq(T) : (u \o v) \o w = u \o (v \o w)
      BY ConcatAssociative
    <3>2. QED
      BY <2>4, <3>1, Zenon
  <2>6. P[i] = pieces[i] \o P[i + 1]
    BY <1>2
  <2>7. Q[i] = P[i] \o x
    BY <2>2, <2>3, <2>5, <2>6, Zenon
  <2>8. QED
    BY <2>1, <2>7
<1> HIDE DEF U
<1>7. \A i \in 1..(N + 1) : i \in U
  BY <1>1, <1>5, <1>6, Backward
<1>8. Q[1] = P[1] \o x
  <2>1. 1 \in 1..(N + 1)
    BY <1>1
  <2>2. QED
    BY <1>7, <2>1 DEF U
<1>9. QED
  BY <1>4, <1>8 DEF more

(* The same for pieces that are written into a record, for every record.   *)
LEMMA FlatGrows ==
    \A old, p, new : /\ old \in Seq(Seq(Symbols)) /\ p \in Seq(Symbols)
                     /\ new = Append(old, p)
                     => Flat(new) = Flat(old) \o p
<1>1. SUFFICES ASSUME NEW old \in Seq(Seq(Symbols)), NEW p \in Seq(Symbols)
               PROVE  Flat(Append(old, p)) = Flat(old) \o p
  BY Zenon
<1>2. QED
  BY FlatAppend, Zenon

(* The pieces of a capture, put together, are a text.                      *)
LEMMA FlatType ==
    ASSUME NEW T, NEW pieces \in Seq(Seq(T))
    PROVE  Flat(pieces) \in Seq(T)
<1>1. 1 \in 1..(Len(pieces) + 1)
  BY LenProperties
<1>2. QED
  BY <1>1, FlatStep, FlatIs

(* Nothing captured is the empty text.                                     *)
LEMMA FlatEmpty == Flat(<<>>) = <<>>
<1>1. <<>> \in Seq(Seq({})) /\ Len(<<>>) + 1 = 1
  BY EmptySeq
<1>2. FlatFrom(<<>>)[Len(<<>>) + 1] = <<>>
  BY <1>1, FlatStep
<1>3. QED
  BY <1>1, <1>2, FlatIs
-----------------------------------------------------------------------------
(* The symbols of a text that take more than one byte.                     *)
WideAt(text) == {i \in DOMAIN text : text[i] = Wide}

(* A wide symbol counts once more.                                         *)
LEMMA SizeIs == \A text : Size(text) = Len(text) + Cardinality(WideAt(text))
BY DEF Size, WideAt

(* The size of a text is a number.                                         *)
LEMMA WideFinite ==
    ASSUME NEW T, NEW text \in Seq(T)
    PROVE  /\ IsFiniteSet(WideAt(text)) /\ Cardinality(WideAt(text)) \in Nat
           /\ Size(text) \in Nat
<1>1. Len(text) \in Nat /\ DOMAIN text = 1..Len(text)
  BY LenProperties
<1>2. IsFiniteSet(1..Len(text))
  BY <1>1, FS_Interval
<1>3. WideAt(text) \subseteq 1..Len(text)
  BY <1>1 DEF WideAt
<1>4. IsFiniteSet(WideAt(text))
  BY <1>2, <1>3, FS_Subset
<1>5. Cardinality(WideAt(text)) \in Nat
  BY <1>4, FS_CardinalityType
<1>6. QED
  BY <1>1, <1>4, <1>5, SizeIs

(* The size of two texts put together is the sum of their sizes.           *)
LEMMA SizeConcat ==
    ASSUME NEW T, NEW a \in Seq(T), NEW b \in Seq(T)
    PROVE  Size(a \o b) = Size(a) + Size(b)
<1> DEFINE c == a \o b
           N == Len(a)
           A == WideAt(a)
           B == WideAt(b)
           S == {N + i : i \in B}
           shift == [i \in B |-> N + i]
<1>1. /\ N \in Nat /\ Len(b) \in Nat /\ c \in Seq(T) /\ Len(c) = N + Len(b)
      /\ DOMAIN a = 1..N /\ DOMAIN b = 1..Len(b)
      /\ \A i \in 1..N : c[i] = a[i]
      /\ \A i \in 1..Len(b) : c[N + i] = b[i]
  <2>1. c \in Seq(T) /\ Len(c) = N + Len(b)
    BY ConcatProperties
  <2>2. QED
    BY <2>1, LenProperties
<1>2. DOMAIN c = 1..(N + Len(b))
  BY <1>1, LenProperties
<1> HIDE DEF c
<1>3. A \subseteq 1..N /\ B \subseteq 1..Len(b)
  BY <1>1 DEF WideAt
<1>4. WideAt(c) = A \cup S
  <2>1. ASSUME NEW i \in WideAt(c) PROVE i \in A \cup S
    <3>1. i \in 1..(N + Len(b)) /\ c[i] = Wide
      BY <1>2, <2>1 DEF WideAt
    <3>2. CASE i <= N
      <4>1. i \in 1..N /\ a[i] = Wide
        BY <1>1, <3>1, <3>2
      <4>2. QED
        BY <1>1, <4>1 DEF WideAt
    <3>3. CASE ~(i <= N)
      <4>1. i - N \in 1..Len(b) /\ i = N + (i - N)
        BY <1>1, <3>1, <3>3
      <4>2. i - N \in B
        BY <1>1, <3>1, <4>1 DEF WideAt
      <4>3. QED
        BY <4>1, <4>2
    <3>4. QED
      BY <3>2, <3>3
  <2>2. ASSUME NEW i \in A PROVE i \in WideAt(c)
    <3>1. i \in 1..N /\ a[i] = Wide
      BY <1>1, <2>2 DEF WideAt
    <3>2. i \in 1..(N + Len(b)) /\ c[i] = Wide
      BY <1>1, <3>1
    <3>3. QED
      BY <1>2, <3>2 DEF WideAt
  <2>3. ASSUME NEW j \in S PROVE j \in WideAt(c)
    <3>1. PICK i \in B : j = N + i
      BY <2>3
    <3>2. i \in 1..Len(b) /\ b[i] = Wide
      BY <1>1 DEF WideAt
    <3>3. j \in 1..(N + Len(b)) /\ c[j] = Wide
      BY <1>1, <3>1, <3>2
    <3>4. QED
      BY <1>2, <3>3 DEF WideAt
  <2> HIDE DEF A, S
  <2>4. QED
    BY <2>1, <2>2, <2>3
<1>5. A \cap S = {}
  <2>1. \A i \in A : i <= N
    BY <1>1, <1>3
  <2>2. \A i \in S : i > N
    BY <1>1, <1>3
  <2> HIDE DEF A, S
  <2>3. A \subseteq 1..N
    BY <1>3
  <2>4. SUFFICES ASSUME NEW i \in A \cap S PROVE FALSE
    OBVIOUS
  <2>5. i \in 1..N /\ i <= N /\ i > N
    BY <2>1, <2>2, <2>3
  <2>6. QED
    BY <1>1, <2>5
<1>6. shift \in Bijection(B, S)
  <2>1. shift \in Surjection(B, S)
    BY DEF Surjection
  <2>2. IsInjective(shift)
    BY <1>1, <1>3 DEF IsInjective
  <2>3. shift \in Injection(B, S)
    <3> HIDE DEF S
    <3>1. shift \in [B -> S]
      BY DEF S
    <3>2. QED
      BY <2>2, <3>1 DEF Injection
  <2>4. QED
    BY <2>1, <2>3 DEF Bijection
<1>7. IsFiniteSet(A) /\ IsFiniteSet(B)
      /\ Cardinality(A) \in Nat /\ Cardinality(B) \in Nat
  BY WideFinite
<1> HIDE DEF A, B, S, shift, N
<1>8. IsFiniteSet(S) /\ Cardinality(S) = Cardinality(B)
  <2>1. ExistsBijection(B, S)
    BY <1>6 DEF ExistsBijection
  <2>2. QED
    BY <1>7, <2>1, FS_Bijection
<1>9. Cardinality(A \cup S) = Cardinality(A) + Cardinality(S)
  <2>1. Cardinality(A \cap S) = 0
    BY <1>5, FS_EmptySet
  <2>2. Cardinality(A \cup S) =
            Cardinality(A) + Cardinality(S) - Cardinality(A \cap S)
    BY <1>7, <1>8, FS_Union
  <2>3. QED
    BY <1>7, <1>8, <2>1, <2>2
<1>10. Size(c) = N + Len(b) + (Cardinality(A) + Cardinality(B))
       /\ Size(a) = N + Cardinality(A) /\ Size(b) = Len(b) + Cardinality(B)
  BY <1>1, <1>4, <1>8, <1>9, SizeIs DEF A, B, N
<1>11. QED
  BY <1>1, <1>7, <1>10 DEF c

(* The empty text has no size.                                             *)
LEMMA SizeEmpty == Size(<<>>) = 0
<1>1. WideAt(<<>>) = {}
  BY DEF WideAt
<1>2. QED
  BY <1>1, SizeIs, FS_EmptySet

(* What is kept of a record is a prefix that fits, and all of it if it     *)
(* fits.                                                                   *)
LEMMA FittingIs ==
    ASSUME NEW T, NEW text \in Seq(T), NEW room \in Nat
    PROVE  \E n \in 0..Len(text) :
              /\ Fitting(text, room) = SubSeq(text, 1, n)
              /\ Size(Fitting(text, room)) <= room
              /\ Size(text) <= room => Fitting(text, room) = text
<1> DEFINE N == Len(text)
           fits == {n \in 0..N : Size(SubSeq(text, 1, n)) <= room}
           n == CHOOSE q \in fits : \A m \in fits : m <= q
           D == {N - q : q \in fits}
<1>1. N \in Nat
  BY LenProperties
<1>2. 0 \in fits
  <2>1. SubSeq(text, 1, 0) = <<>>
    BY SubSeqEmpty
  <2>2. Size(SubSeq(text, 1, 0)) = 0
    BY <2>1, SizeEmpty, Zenon
  <2>3. Size(SubSeq(text, 1, 0)) <= room
    <3> DEFINE x == Size(SubSeq(text, 1, 0))
    <3> HIDE DEF x
    <3>1. x <= room
      BY <2>2 DEF x
    <3>2. QED
      BY <3>1 DEF x
  <2>4. 0 \in 0..N
    BY <1>1
  <2>5. QED
    BY <2>3, <2>4, Zenon
<1>3. D \in SUBSET Nat /\ D # {}
  BY <1>1, <1>2
<1>4. PICK d \in D : \A e \in D : d <= e
  <2> HIDE DEF D
  <2>1. QED
    BY <1>3, LeastNat
<1>5. PICK q \in fits : d = N - q
  BY <1>4
<1>6. ASSUME NEW m \in fits PROVE m <= q
  <2>1. N - m \in D
    OBVIOUS
  <2>2. d <= N - m
    BY <1>4, <2>1
  <2>3. m \in 0..N /\ q \in 0..N
    OBVIOUS
  <2> HIDE DEF D, fits
  <2>4. QED
    BY <1>1, <1>5, <2>2, <2>3
<1>7. n \in fits /\ \A m \in fits : m <= n
  <2> HIDE DEF fits
  <2>1. \E p \in fits : \A m \in fits : m <= p
    BY <1>6
  <2>2. QED
    BY <2>1, Zenon
<1>8. Fitting(text, room) = SubSeq(text, 1, n)
  BY Zenon DEF Fitting
<1> HIDE DEF n
<1>9. n \in 0..N /\ Size(SubSeq(text, 1, n)) <= room
  BY <1>7
<1>10. ASSUME Size(text) <= room PROVE SubSeq(text, 1, n) = text
  <2>1. SubSeq(text, 1, N) = text
    BY SubSeqFull
  <2>2. N \in fits
    <3>1. Size(SubSeq(text, 1, N)) <= room
      BY <1>10, <2>1, Zenon
    <3>2. N \in 0..N
      BY <1>1
    <3>3. QED
      BY <3>1, <3>2, Zenon
  <2>3. n = N
    <3>1. N <= n
      BY <1>7, <2>2
    <3>2. QED
      BY <1>1, <1>9, <3>1
  <2>4. QED
    BY <2>1, <2>3
<1>11. QED
  BY <1>8, <1>9, <1>10

(* A definition by recursion that stops or moves on.                       *)
Walks(f, N, stop, result, next) ==
    \A i \in 0..N : f[i] = IF stop[i] THEN result[i] ELSE f[next[i]]

(* So Walks has a solution, whatever the results.                          *)
LEMMA WalkExists ==
    ASSUME NEW N \in Nat, NEW stop, NEW result, NEW next, stop[N],
           \A i \in 0..N : ~stop[i] => next[i] \in (i + 1)..N
    PROVE  \E f : Walks(f, N, stop, result, next)
<1> DEFINE Solves(f, k) == \A i \in k..N :
              f[i] = IF stop[i] THEN result[i] ELSE f[next[i]]
           T == {k \in 1..(N + 1) : \E f : Solves(f, k - 1)}
<1>1. N + 1 \in T
  <2> DEFINE g == [i \in N..N |-> result[N]]
  <2>1. Solves(g, N)
    <3>1. \A i \in N..N : g[i] = result[i] /\ stop[i]
      OBVIOUS
    <3> HIDE DEF g
    <3>2. QED
      BY <3>1
  <2> HIDE DEF Solves, g
  <2>2. N + 1 \in 1..(N + 1) /\ (N + 1) - 1 = N
    OBVIOUS
  <2>3. QED
    BY <2>1, <2>2
<1>2. ASSUME NEW j \in 1..N, \A l \in (j + 1)..(N + 1) : l \in T
      PROVE  j \in T
  <2> DEFINE k == j - 1
  <2>0. k \in 0..N /\ k + 1 = j /\ k < N
    OBVIOUS
  <2>1. j + 1 \in T
    <3> HIDE DEF T
    <3>1. j + 1 \in (j + 1)..(N + 1)
      OBVIOUS
    <3>2. QED
      BY <1>2, <3>1
  <2>2. PICK f : Solves(f, k + 1)
    <3>1. (j + 1) - 1 = k + 1
      OBVIOUS
    <3> HIDE DEF Solves, k
    <3>2. QED
      BY <2>1, <3>1
  <2> HIDE DEF k
  <2> DEFINE g == [i \in k..N |->
                     IF i = k THEN IF stop[k] THEN result[k] ELSE f[next[k]]
                     ELSE f[i]]
  <2>3. ASSUME NEW i \in k..N
        PROVE  g[i] = IF stop[i] THEN result[i] ELSE g[next[i]]
    <3>0. g[i] = IF i = k THEN IF stop[k] THEN result[k] ELSE f[next[k]]
                 ELSE f[i]
      BY Zenon
    <3>1. \A l \in (k + 1)..N : g[l] = f[l]
      BY <2>0
    <3>2. \A l \in k..N : ~stop[l] => next[l] \in (k + 1)..N
      BY <2>0
    <3> HIDE DEF g
    <3>3. CASE i = k
      BY <3>0, <3>1, <3>2, <3>3
    <3>4. CASE i # k
      <4>1. i \in (k + 1)..N
        BY <2>0, <3>4
      <4>2. f[i] = IF stop[i] THEN result[i] ELSE f[next[i]]
        BY <2>2, <4>1
      <4>3. QED
        BY <3>0, <3>1, <3>2, <3>4, <4>2
    <3>5. QED
      BY <3>3, <3>4
  <2>4. Solves(g, k)
    BY <2>3
  <2> HIDE DEF Solves, g
  <2>5. QED
    BY <2>4 DEF k
<1>3. 1 \in T
  <2> HIDE DEF T
  <2>1. \A i \in 1..(N + 1) : i \in T
    BY <1>1, <1>2, Backward
  <2>2. QED
    BY <2>1
<1>4. QED
  <2>1. PICK f : Solves(f, 1 - 1)
    BY <1>3
  <2>2. Solves(f, 0)
    BY <2>1
  <2>3. QED
    BY <2>2 DEF Walks

(* The part ReadSlice returns is at most what is there.                    *)
LEMMA PartLengthType ==
    ASSUME NEW T, NEW text \in Seq(T)
    PROVE  PartLength(text) \in 0..Len(text)
<1> DEFINE ends == {i \in DOMAIN text : text[i] = Newline \/ i = BufferSize}
           first == CHOOSE i \in ends : \A j \in ends : i <= j
<1>1. Len(text) \in Nat /\ ends \subseteq 1..Len(text)
  BY LenProperties
<1>2. PartLength(text) = IF ends = {} THEN 0 ELSE first
  BY Zenon DEF PartLength
<1> HIDE DEF ends
<1>3. ASSUME ends # {} PROVE first \in ends
  <2>1. ends \in SUBSET Nat
    BY <1>1
  <2>2. \E i \in ends : \A j \in ends : i <= j
    BY <1>3, <2>1, LeastNat
  <2>3. QED
    BY <2>2, Zenon
<1> HIDE DEF first
<1>4. CASE ends = {}
  BY <1>1, <1>2, <1>4
<1>5. CASE ends # {}
  <2>1. first \in 1..Len(text)
    BY <1>1, <1>3, <1>5
  <2>2. PartLength(text) = first
    BY <1>2, <1>5
  <2>3. QED
    BY <1>1, <2>1, <2>2
<1>6. QED
  BY <1>4, <1>5

(* The recursive function of ScanRecord.                                   *)
PartAt(text, i) == PartLength(SubSeq(text, i + 1, Len(text)))
ScanFrom(text, kind) ==
    CHOOSE f : f = [i \in 0..Len(text) |->
        LET n    == PartLength(SubSeq(text, i + 1, Len(text)))
            part == SubSeq(text, i + 1, i + n)
        IN  CASE n = 0 -> [read |-> i, complete |-> FALSE]
              [] n > 0 /\ EndsRecord(part, kind) ->
                    [read |-> i + n, complete |-> TRUE]
              [] OTHER -> f[i + n]]

(* ScanRecord is the first value of that function, and reads a buffered    *)
(* body as a whole.                                                        *)
LEMMA ScanRecordIs ==
    ASSUME NEW text, NEW kind
    PROVE  ScanRecord(text, kind) =
              IF kind = "buffered" THEN [read |-> Len(text), complete |-> FALSE]
              ELSE ScanFrom(text, kind)[0]
BY Zenon DEF ScanRecord, ScanFrom

(* What is read of a text without being buffered is 0 or more symbols, and *)
(* a complete record ends with a newline.                                  *)
ScanSound(scan, text) ==
    /\ scan.read \in 0..Len(text)
    /\ scan.complete \in BOOLEAN
    /\ scan.complete => scan.read > 0 /\ text[scan.read] = Newline

(* ScanRecord conforms to the equation that defines it.                    *)
LEMMA ScanStep ==
    ASSUME NEW T, NEW text \in Seq(T), NEW kind
    PROVE  \A i \in 0..Len(text) :
              LET n    == PartAt(text, i)
                  part == SubSeq(text, i + 1, i + n)
              IN  /\ n \in 0..(Len(text) - i)
                  /\ n = 0 => ScanFrom(text, kind)[i] =
                                  [read |-> i, complete |-> FALSE]
                  /\ n > 0 /\ EndsRecord(part, kind) =>
                        ScanFrom(text, kind)[i] =
                            [read |-> i + n, complete |-> TRUE]
                  /\ n > 0 /\ ~EndsRecord(part, kind) =>
                        ScanFrom(text, kind)[i] = ScanFrom(text, kind)[i + n]
<1> DEFINE N == Len(text)
           n(i) == PartAt(text, i)
           part(i) == SubSeq(text, i + 1, i + n(i))
           ends(i) == EndsRecord(part(i), kind)
           stop == [i \in 0..N |-> n(i) = 0 \/ ends(i)]
           result == [i \in 0..N |-> IF n(i) = 0
                        THEN [read |-> i, complete |-> FALSE]
                        ELSE [read |-> i + n(i), complete |-> TRUE]]
           next == [i \in 0..N |-> i + n(i)]
           Body(f, i) ==
               LET m == PartLength(SubSeq(text, i + 1, Len(text)))
                   p == SubSeq(text, i + 1, i + m)
               IN  CASE m = 0 -> [read |-> i, complete |-> FALSE]
                     [] m > 0 /\ EndsRecord(p, kind) ->
                           [read |-> i + m, complete |-> TRUE]
                     [] OTHER -> f[i + m]
           Eq(f) == f = [i \in 0..Len(text) |-> Body(f, i)]
<1>1. N \in Nat /\ N = Len(text)
  BY LenProperties
<1>2. ASSUME NEW i \in 0..N PROVE n(i) \in 0..(N - i)
  <2> DEFINE rest == SubSeq(text, i + 1, N)
  <2>1. rest \in Seq(T) /\ Len(rest) = N - i
    <3>1. \A j \in (i + 1)..N : text[j] \in T
      BY <1>1, ElementOfSeq
    <3>2. rest \in Seq(T) /\ Len(rest) = IF i + 1 <= N THEN N - (i + 1) + 1 ELSE 0
      BY <1>1, <3>1, SubSeqProperties
    <3> HIDE DEF rest
    <3>3. QED
      BY <1>1, <3>2
  <2> HIDE DEF rest
  <2>2. PartLength(rest) \in 0..Len(rest)
    BY <2>1, PartLengthType
  <2>3. QED
    BY <2>1, <2>2 DEF PartAt, rest
<1> HIDE DEF n
<1>3. stop[N]
  <2>1. n(N) \in 0..(N - N)
    <3>1. N \in 0..N
      BY <1>1
    <3>2. QED
      BY <1>2, <3>1
  <2>2. n(N) = 0 /\ N \in 0..N
    BY <1>1, <2>1
  <2>3. stop[N] = (n(N) = 0 \/ ends(N))
    BY <2>2, Zenon
  <2>4. QED
    BY <2>2, <2>3
<1>4. ASSUME NEW i \in 0..N, ~stop[i] PROVE next[i] \in (i + 1)..N
  <2>1. n(i) # 0
    BY <1>4
  <2>2. next[i] = i + n(i)
    OBVIOUS
  <2> HIDE DEF next, stop
  <2>3. QED
    BY <1>1, <1>2, <2>1, <2>2
<1>5. PICK g : Walks(g, N, stop, result, next)
  <2> HIDE DEF N, stop, result, next
  <2>1. N \in Nat
    BY <1>1
  <2>2. QED
    BY <1>3, <1>4, <2>1, WalkExists, Zenon
<1> DEFINE f == [i \in 0..N |-> g[i]]
<1>6. ASSUME NEW i \in 0..N
      PROVE  f[i] = Body(f, i)
  <2>1. g[i] = IF stop[i] THEN result[i] ELSE g[next[i]]
    BY <1>5 DEF Walks
  <2>2. Body(f, i) = CASE n(i) = 0 -> [read |-> i, complete |-> FALSE]
                       [] n(i) > 0 /\ ends(i) ->
                             [read |-> i + n(i), complete |-> TRUE]
                       [] OTHER -> f[i + n(i)]
    BY Zenon DEF n, PartAt
  <2>3. n(i) \in Nat /\ i + n(i) \in 0..N
    BY <1>1, <1>2
  <2>4. /\ stop[i] = (n(i) = 0 \/ ends(i)) /\ next[i] = i + n(i)
        /\ result[i] = IF n(i) = 0
                        THEN [read |-> i, complete |-> FALSE]
                        ELSE [read |-> i + n(i), complete |-> TRUE]
    OBVIOUS
  <2>5. f[i] = g[i] /\ f[i + n(i)] = g[i + n(i)]
    BY <2>3
  <2> HIDE DEF f, stop, next, result, ends, Body
  <2>6. CASE n(i) = 0
    <3>1. f[i] = [read |-> i, complete |-> FALSE]
      <4>1. stop[i]
        BY <2>4, <2>6
      <4>2. QED
        BY <2>1, <2>4, <2>5, <2>6, <4>1, Zenon
    <3>2. Body(f, i) = [read |-> i, complete |-> FALSE]
      <4>1. ~(n(i) > 0 /\ ends(i))
        BY <2>6
      <4> HIDE DEF n
      <4>2. QED
        BY <2>2, <2>6, <4>1
    <3>3. QED
      BY <3>1, <3>2, Zenon
  <2>7. CASE n(i) > 0 /\ ends(i)
    <3>0. n(i) # 0
      BY <2>3, <2>7
    <3>1. f[i] = [read |-> i + n(i), complete |-> TRUE]
      <4>1. stop[i]
        BY <2>4, <2>7
      <4>2. QED
        BY <2>1, <2>4, <2>5, <3>0, <4>1, Zenon
    <3>2. Body(f, i) = [read |-> i + n(i), complete |-> TRUE]
      BY <2>2, <2>7, <3>0
    <3>3. QED
      BY <3>1, <3>2, Zenon
  <2>8. CASE n(i) > 0 /\ ~ends(i)
    BY <2>1, <2>2, <2>3, <2>4, <2>5, <2>8
  <2>9. QED
    BY <2>3, <2>6, <2>7, <2>8
<1>7. Eq(f)
  <2>1. f = [i \in 0..N |-> f[i]]
    OBVIOUS
  <2> HIDE DEF f, Body
  <2>2. QED
    BY <1>6, <2>1
<1> DEFINE P == ScanFrom(text, kind)
<1>8. Eq(P)
  <2>1. \E h : Eq(h)
    BY <1>7
  <2>2. QED
    BY <2>1, Zenon DEF ScanFrom
<1> HIDE DEF P
<1>9. ASSUME NEW i \in 0..N
      PROVE  P[i] = CASE n(i) = 0 -> [read |-> i, complete |-> FALSE]
                       [] n(i) > 0 /\ ends(i) ->
                             [read |-> i + n(i), complete |-> TRUE]
                       [] OTHER -> P[i + n(i)]
  <2>1. P[i] = Body(P, i)
    <3> HIDE DEF Body
    <3>1. QED
      BY <1>8
  <2>2. Body(P, i) = CASE n(i) = 0 -> [read |-> i, complete |-> FALSE]
                       [] n(i) > 0 /\ ends(i) ->
                             [read |-> i + n(i), complete |-> TRUE]
                       [] OTHER -> P[i + n(i)]
    BY Zenon DEF n, PartAt
  <2> HIDE DEF Body, ends
  <2>3. QED
    BY <2>1, <2>2, Zenon
<1> HIDE DEF ends
<1>10. ASSUME NEW i \in 0..N
       PROVE  /\ n(i) \in 0..(N - i)
              /\ n(i) = 0 => P[i] = [read |-> i, complete |-> FALSE]
              /\ n(i) > 0 /\ ends(i) =>
                    P[i] = [read |-> i + n(i), complete |-> TRUE]
              /\ n(i) > 0 /\ ~ends(i) => P[i] = P[i + n(i)]
  <2>1. n(i) \in 0..(N - i)
    BY <1>2
  <2>2. n(i) \in Nat
    BY <2>1
  <2>3. QED
    BY <1>9, <2>1, <2>2
<1>11. QED
  BY <1>10 DEF n, ends, P

(* ScanRecord reads no more than there is; a record it finds complete ends *)
(* with a newline.                                                         *)
LEMMA ScanRecordSound ==
    ASSUME NEW T, NEW text \in Seq(T), NEW kind
    PROVE  ScanSound(ScanRecord(text, kind), text)
<1> DEFINE N == Len(text)
           P == ScanFrom(text, kind)
           U == {k \in 1..(N + 1) : ScanSound(P[k - 1], text)}
           n(i) == PartAt(text, i)
           part(i) == SubSeq(text, i + 1, i + n(i))
<1>1. N \in Nat
  BY LenProperties
<1>2. \A i \in 0..N :
          /\ n(i) \in 0..(N - i)
          /\ n(i) = 0 => P[i] = [read |-> i, complete |-> FALSE]
          /\ n(i) > 0 /\ EndsRecord(part(i), kind) =>
                P[i] = [read |-> i + n(i), complete |-> TRUE]
          /\ n(i) > 0 /\ ~EndsRecord(part(i), kind) => P[i] = P[i + n(i)]
  BY ScanStep
<1> HIDE DEF P, n
<1>3. ASSUME NEW i \in 0..N,
             n(i) > 0 /\ ~EndsRecord(part(i), kind) => ScanSound(P[i + n(i)], text)
      PROVE  ScanSound(P[i], text)
  <2>0. n(i) \in 0..(N - i)
    BY <1>2
  <2>1. n(i) \in Nat /\ i + n(i) \in 0..N
    BY <1>1, <2>0
  <2>2. CASE n(i) = 0
    <3>0. P[i] = [read |-> i, complete |-> FALSE]
      BY <1>2, <2>2
    <3>1. P[i].read = i /\ P[i].complete = FALSE
      BY <3>0
    <3>2. QED
      BY <3>1 DEF ScanSound
  <2>3. CASE n(i) > 0 /\ EndsRecord(part(i), kind)
    <3>0. P[i] = [read |-> i + n(i), complete |-> TRUE]
      BY <1>2, <2>3
    <3>1. P[i].read = i + n(i) /\ P[i].complete = TRUE
      BY <3>0
    <3>2. \A j \in (i + 1)..(i + n(i)) : text[j] \in T
      BY <1>1, <2>1, ElementOfSeq
    <3> DEFINE m == i + n(i)
               k == i + 1
    <3>a. m \in Int /\ k \in Int
      BY <2>1
    <3> HIDE DEF m, k
    <3>b. \A j \in k..m : text[j] \in T
      BY <3>2 DEF m, k
    <3>c. /\ Len(SubSeq(text, k, m)) = IF k <= m THEN m - k + 1 ELSE 0
          /\ \A j \in 1..(m - k + 1) : SubSeq(text, k, m)[j] = text[k + j - 1]
      BY <3>a, <3>b, SubSeqProperties
    <3>3. part(i) = SubSeq(text, k, m)
      BY Zenon DEF m, k
    <3> HIDE DEF part
    <3>4. n(i) \in 1..(m - k + 1) /\ k <= m /\ m - k + 1 = n(i)
          /\ k + n(i) - 1 = m
      BY <2>1, <2>3 DEF m, k
    <3>d. Len(part(i)) = n(i) /\ part(i)[n(i)] = text[k + n(i) - 1]
      BY <3>c, <3>3, <3>4
    <3>5. part(i)[n(i)] = text[i + n(i)]
      BY <3>d, <3>4 DEF m
    <3>6. part(i)[n(i)] = Newline
      BY <2>3, <3>d DEF EndsRecord
    <3>7. text[i + n(i)] = Newline /\ i + n(i) > 0
      BY <2>1, <2>3, <3>5, <3>6
    <3>8. QED
      BY <2>1, <3>1, <3>7, Zenon DEF ScanSound
  <2>4. CASE n(i) > 0 /\ ~EndsRecord(part(i), kind)
    <3>1. P[i] = P[i + n(i)] /\ ScanSound(P[i + n(i)], text)
      BY <1>2, <1>3, <2>4
    <3>2. QED
      BY <3>1, Zenon
  <2>5. QED
    BY <2>1, <2>2, <2>3, <2>4
<1> HIDE DEF part
<1>4. N + 1 \in U
  <2>1. N \in 0..N /\ ~(n(N) > 0) /\ (N + 1) - 1 = N /\ N + 1 \in 1..(N + 1)
    <3>1. N \in 0..N
      BY <1>1
    <3>2. n(N) \in 0..(N - N)
      BY <1>2, <3>1
    <3>3. QED
      BY <1>1, <3>1, <3>2
  <2>2. ScanSound(P[N], text)
    BY <1>3, <2>1
  <2>3. QED
    BY <2>1, <2>2
<1>5. ASSUME NEW j \in 1..N, \A k \in (j + 1)..(N + 1) : k \in U
      PROVE  j \in U
  <2> DEFINE i == j - 1
  <2>1. i \in 0..N /\ j \in 1..(N + 1)
    BY <1>1
  <2>2. ASSUME n(i) > 0 PROVE ScanSound(P[i + n(i)], text)
    <3>1. n(i) \in 0..(N - i)
      BY <1>2, <2>1
    <3>2. i + n(i) + 1 \in (j + 1)..(N + 1) /\ (i + n(i) + 1) - 1 = i + n(i)
      BY <1>1, <2>1, <2>2, <3>1
    <3>3. i + n(i) + 1 \in U
      BY <1>5, <3>2
    <3>4. QED
      BY <3>2, <3>3
  <2>3. ScanSound(P[i], text)
    BY <1>3, <2>1, <2>2
  <2>4. QED
    BY <2>1, <2>3
<1> HIDE DEF U
<1>6. \A j \in 1..(N + 1) : j \in U
  BY <1>1, <1>4, <1>5, Backward
<1>7. ScanSound(P[0], text)
  <2>1. 1 \in 1..(N + 1)
    BY <1>1
  <2>2. 1 \in U
    BY <1>6, <2>1
  <2>3. QED
    BY <2>2 DEF U
<1>8. CASE kind = "buffered"
  <2>1. ScanRecord(text, kind) = [read |-> N, complete |-> FALSE]
    BY <1>8, ScanRecordIs
  <2>2. QED
    BY <1>1, <2>1 DEF ScanSound
<1>9. CASE kind # "buffered"
  <2>1. ScanRecord(text, kind) = P[0]
    BY <1>9, ScanRecordIs DEF P
  <2>2. QED
    BY <1>7, <2>1, Zenon
<1>10. QED
  BY <1>8, <1>9

(* A record is a non-empty prefix of what is left of the body; it ends     *)
(* with a newline, or nothing is left.                                     *)
LEMMA RecordIs ==
    ASSUME NEW T, NEW e, e.rest \in Seq(T), e.ending # "record",
           Outcome(e).is = "record"
    PROVE  /\ Outcome(e).length \in 1..Len(e.rest)
           /\ \/ Outcome(e).length = Len(e.rest)
              \/ e.rest[Outcome(e).length] = Newline
<1> DEFINE scan == ScanRecord(e.rest, e.kind)
           n == IF e.ending = "eof" /\ ~scan.complete THEN Len(e.rest)
                ELSE scan.read
<1>1. ScanSound(scan, e.rest) /\ Len(e.rest) \in Nat
  BY ScanRecordSound, LenProperties
<1>2. Outcome(e) = CASE n > MediationLimit -> [is |-> "failed", length |-> 0]
          [] OTHER ->
             IF scan.complete \/ (e.ending = "eof" /\ n > 0)
             THEN [is |-> "record", length |-> n]
             ELSE [is |-> e.ending, length |-> 0]
  BY Zenon DEF Outcome
<1> HIDE DEF scan
<1>3. /\ Outcome(e) = [is |-> "record", length |-> n]
      /\ scan.complete \/ (e.ending = "eof" /\ n > 0)
  <2> HIDE DEF n
  <2>1. QED
    BY <1>2
<1>4. Outcome(e).length = n
  BY <1>3
<1>5. CASE scan.complete
  BY <1>1, <1>4, <1>5 DEF ScanSound
<1>6. CASE ~scan.complete
  BY <1>1, <1>3, <1>4, <1>6
<1>7. QED
  BY <1>5, <1>6

-----------------------------------------------------------------------------
(* What a text shows, and what it avoids.                                  *)

(* Properties of a text, for given sets of grants and symbols: it holds    *)
(* placeholders of these grants only, none of these symbols, no            *)
(* placeholder of other grants or among these symbols, no form of a secret *)
(* that Sanitize knows.                                                    *)
SeenIn(text, known) ==
    \A i \in 1..Len(text) : text[i][1] = "virtual" => text[i][3] \in known
Avoids(text, symbols) == \A i \in 1..Len(text) : text[i] \notin symbols
Covered(text, known, symbols) ==
    \A i \in 1..Len(text) :
        text[i][1] = "virtual" => text[i][3] \in known /\ text[i] \notin symbols
Bare(text) ==
    \A s \in Secrets : \A t \in AllNeedles[s] : \A j \in 1..Len(text) :
        ~Reads(text, j, t)

(* The empty text has them all.                                            *)
LEMMA EmptyText ==
    /\ \A known : SeenIn(<<>>, known)
    /\ \A symbols : Avoids(<<>>, symbols)
    /\ Bare(<<>>)
BY DEF SeenIn, Avoids, Bare

(* A symbol that is not copied from the text is one of those put in.       *)
OfText(x, text) == \E k \in 1..Len(text) : x = text[k]

(* A symbol of a rewritten text that is no replacement is one of the text. *)
LEMMA RewriteSymbol ==
    ASSUME NEW T, NEW text \in Seq(T), NEW match, NEW symbol, NEW M,
           Fits(text, match), Replaces(text, match, symbol, T),
           Replaces(text, match, symbol, M),
           NEW j \in 1..Len(Rewrite(text, match, symbol)),
           Rewrite(text, match, symbol)[j] \notin M
    PROVE  OfText(Rewrite(text, match, symbol)[j], text)
<1> DEFINE out == Rewrite(text, match, symbol)
<1>1. out \in Seq(T)
  BY RewriteType, Zenon
<1>2. Len(out) \in Nat
  BY <1>1, LenProperties
<1>3. j \in Nat \ {0} /\ j + 1 - 1 <= Len(out) /\ j + 0 = j
  BY <1>2
<1>4. \A m \in 0..(1 - 1) : out[j + m] \notin M
  BY <1>3
<1>5. Preserved(out, j, 1, M)
  BY <1>3, <1>4 DEF Preserved
<1>6. 1 \in Nat \ {0}
  OBVIOUS
<1> HIDE DEF out
<1>7. Fragment(out, text, match, j, 1)
  BY <1>3, <1>5, <1>6, RewriteFragment, Zenon DEF out
<1>8. PICK k \in 1..Len(text) :
          \A m \in 0..(1 - 1) : out[j + m] = text[k + m] /\ match[k + m] = NoMatch
  BY <1>7 DEF Fragment
<1>9. out[j + 0] = text[k + 0] /\ k + 0 = k
  BY <1>8
<1>10. QED
  BY <1>3, <1>9 DEF out, OfText

(* Neither pass of the static broker brings in a token placeholder.        *)
LEMMA ScrubKeepsSeen ==
    ASSUME Configured, NEW text \in Seq(Symbols), NEW client, NEW host,
           NEW known, SeenIn(text, known)
    PROVE  SeenIn(ScrubSecrets(text, client, host), known)
<1> DEFINE scope == Scope(client, host)
           match == Matches(text, scope)
           M     == {Placeholder(s) : s \in scope}
           out   == Rewrite(text, match, Placeholding)
<1>1. scope \in SUBSET Secrets
  BY ScopeSecrets
<1>2. /\ Fits(text, match)
      /\ Replaces(text, match, Placeholding, Symbols)
      /\ Replaces(text, match, Placeholding, M)
  BY <1>1, MatchesFit
<1>3. out = ScrubSecrets(text, client, host)
  BY ScrubSecretsIs
<1>4. \A x \in M : x[1] \notin {"token", "virtual"}
  BY TagOf
<1> HIDE DEF match, scope, M
<1>5. ASSUME NEW j \in 1..Len(out), out[j][1] = "virtual"
      PROVE  out[j][3] \in known
  <2>1. out[j] \notin M
    BY <1>4, <1>5
  <2>2. OfText(out[j], text)
    BY <1>2, <2>1, RewriteSymbol
  <2> HIDE DEF out
  <2>3. QED
    BY <1>5, <2>2 DEF SeenIn, OfText
<1>6. QED
  BY <1>3, <1>5 DEF SeenIn

(* Nor does the one that sanitises.                                        *)
LEMMA SanitizeKeepsSeen ==
    ASSUME Configured, NEW text \in Seq(Symbols), NEW known, SeenIn(text, known)
    PROVE  SeenIn(SanitizeSecrets(text, Secrets), known)
<1> DEFINE match == Hits(text)
           M     == {Marker(u) : u \in Secrets}
           out   == Rewrite(text, match, Sanitizing)
<1>2. /\ Fits(text, match)
      /\ Replaces(text, match, Sanitizing, Symbols)
      /\ Replaces(text, match, Sanitizing, M)
  BY HitsFit
<1>3. out = SanitizeSecrets(text, Secrets)
  BY SanitizeSecretsIs
<1>4. \A x \in M : x[1] \notin {"token", "virtual"}
  BY TagOf
<1> HIDE DEF match, M
<1>5. ASSUME NEW j \in 1..Len(out), out[j][1] = "virtual"
      PROVE  out[j][3] \in known
  <2>1. out[j] \notin M
    BY <1>4, <1>5
  <2>2. OfText(out[j], text)
    BY <1>2, <2>1, RewriteSymbol
  <2> HIDE DEF out
  <2>3. QED
    BY <1>5, <2>2 DEF SeenIn, OfText
<1>6. QED
  BY <1>3, <1>5 DEF SeenIn

(* A prefix shows nothing its text does not.                               *)
LEMMA Prefix ==
    ASSUME NEW T, NEW text \in Seq(T), NEW n \in 0..Len(text)
    PROVE  /\ SubSeq(text, 1, n) \in Seq(T) /\ Len(SubSeq(text, 1, n)) = n
           /\ \A i \in 1..n : i \in 1..Len(text) /\ SubSeq(text, 1, n)[i] = text[i]
<1>1. Len(text) \in Nat
  BY LenProperties
<1>2. n \in Int /\ 1 \in Int /\ n \in Nat
  BY <1>1
<1>3. \A j \in 1..n : j \in 1..Len(text) /\ text[j] \in T
  BY <1>1, ElementOfSeq
<1>4. \A j \in 1..n : text[j] \in T
  BY <1>3
<1>5. /\ SubSeq(text, 1, n) \in Seq(T)
      /\ Len(SubSeq(text, 1, n)) = IF 1 <= n THEN n - 1 + 1 ELSE 0
      /\ \A j \in 1..(n - 1 + 1) : SubSeq(text, 1, n)[j] = text[1 + j - 1]
  BY <1>2, <1>4, SubSeqProperties
<1>6. Len(SubSeq(text, 1, n)) = n
  BY <1>2, <1>5
<1>7. ASSUME NEW i \in 1..n PROVE SubSeq(text, 1, n)[i] = text[i]
  <2>1. i \in 1..(n - 1 + 1) /\ 1 + i - 1 = i
    BY <1>2
  <2>2. QED
    BY <1>5, <2>1, Zenon
<1>8. QED
  BY <1>3, <1>5, <1>6, <1>7, Zenon

(* A prefix shows nothing its text does not: cutting a record for the      *)
(* capture brings nothing to light.                                        *)
LEMMA PrefixShows ==
    ASSUME Configured, NEW text \in Seq(Symbols), NEW n \in 0..Len(text)
    PROVE  /\ \A known : SeenIn(text, known) => SeenIn(SubSeq(text, 1, n), known)
           /\ \A symbols : Avoids(text, symbols) => Avoids(SubSeq(text, 1, n), symbols)
           /\ Bare(text) => Bare(SubSeq(text, 1, n))
<1> DEFINE p == SubSeq(text, 1, n)
<1>1. /\ Len(p) = n /\ Len(text) \in Nat /\ n \in Nat /\ n <= Len(text)
      /\ \A i \in 1..n : i \in 1..Len(text) /\ p[i] = text[i]
  BY Prefix, LenProperties
<1> HIDE DEF p
<1>2. \A known : SeenIn(text, known) => SeenIn(p, known)
  BY <1>1, Zenon DEF SeenIn
<1>3. \A symbols : Avoids(text, symbols) => Avoids(p, symbols)
  BY <1>1, Zenon DEF Avoids
<1>4. ASSUME NEW s \in Secrets, NEW t \in AllNeedles[s], NEW j \in 1..Len(p),
             Reads(p, j, t), Bare(text)
      PROVE  FALSE
  <2>1. t \in Seq(Symbols)
    BY NeedlesType DEF Needles, AllNeedles
  <2>2. Len(t) \in Nat
    BY <2>1, LenProperties
  <2>3. j + Len(t) - 1 <= n /\ j \in 1..Len(text) /\ j \in 1..n
    BY <1>1, <1>4 DEF Reads
  <2>4. ASSUME NEW m \in 1..Len(t) PROVE text[j + m - 1] = t[m]
    <3>1. j + m - 1 \in 1..n
      BY <1>1, <2>2, <2>3
    <3>2. p[j + m - 1] = t[m]
      BY <1>4 DEF Reads
    <3>3. QED
      BY <1>1, <3>1, <3>2
  <2>5. j + Len(t) - 1 <= Len(text)
    BY <1>1, <2>2, <2>3
  <2>6. Reads(text, j, t)
    BY <2>4, <2>5 DEF Reads
  <2>7. QED
    BY <1>4, <2>3, <2>6 DEF Bare
<1>5. QED
  BY <1>2, <1>3, <1>4 DEF p, Bare

(* What a text that reveals no secret does not show.                       *)
LEMMA NotRevealed ==
    ASSUME Configured, NEW text \in Seq(Symbols), NEW s \in Secrets,
           ~Reveals(text, s)
    PROVE  ~ShowsSecret(text, s) /\ ~ShowsMasked(text, s)
<1>1. DOMAIN text = 1..Len(text) /\ Len(text) \in Nat
  BY LenProperties
<1>2. ASSUME NEW t \in Representations(s), NEW i \in DOMAIN text,
             Occurs(text, i, t)
      PROVE  FALSE
  <2>1. t \in Seq(Plain) /\ i \in 1..Len(text) /\ i \in Nat \ {0}
    BY <1>1 DEF Configured, NeedleAssumption
  <2>2. Reads(text, i, t)
    BY <1>2, <2>1, OccursReads
  <2>3. QED
    BY <2>1, <2>2 DEF Reveals, IsForm
<1>3. ASSUME NEW i \in DOMAIN text, MaskedLength(text, i, Value[s]) > 0
      PROVE  FALSE
  <2>1. i \in 1..Len(text) /\ i \in Nat \ {0}
    BY <1>1
  <2>2. Value[s] \in Seq(Plain)
    BY DEF Configured, NeedleAssumption, Representations
  <2>3. PICK a, n, b : Masked(text, i, Value[s], a, n, b)
    BY <1>3, <2>1, <2>2, MaskedLengthFinds DEF Configured
  <2>4. /\ MaskForm(Value[s], a, n, b)
        /\ Reads(text, i, MaskNeedle(Value[s], a, n, b))
    BY <2>1, <2>3, MaskedIsForm
  <2>5. QED
    BY <2>1, <2>4 DEF Reveals, IsForm
<1>4. QED
  BY <1>2, <1>3 DEF ShowsSecret, Contains, ShowsMasked

(* What a text without values, encodings and placeholders does not show.   *)
LEMMA BareShows ==
    ASSUME Configured, NEW text \in Seq(Symbols), Bare(text), NEW s \in Secrets
    PROVE  ~ShowsSecret(text, s) /\ ~Shows(text, Placeholder(s))
<1>1. DOMAIN text = 1..Len(text) /\ Len(text) \in Nat
  BY LenProperties
<1>2. ASSUME NEW t \in Representations(s), NEW i \in DOMAIN text,
             Occurs(text, i, t)
      PROVE  FALSE
  <2>1. t \in Seq(Plain) /\ i \in 1..Len(text) /\ i \in Nat \ {0}
    BY <1>1 DEF Configured, NeedleAssumption
  <2>2. Reads(text, i, t)
    BY <1>2, <2>1, OccursReads
  <2>3. t \in AllNeedles[s]
    BY DEF AllNeedles
  <2>4. QED
    BY <2>1, <2>2, <2>3 DEF Bare
<1>3. ASSUME NEW i \in DOMAIN text, text[i] = Placeholder(s)
      PROVE  FALSE
  <2> DEFINE t == <<Placeholder(s)>>
  <2>1. t \in AllNeedles[s]
    BY DEF AllNeedles
  <2>2. Len(t) = 1 /\ t[1] = Placeholder(s) /\ i \in 1..Len(text) /\ i + 1 - 1 = i
    BY <1>1
  <2> HIDE DEF t
  <2>3. Reads(text, i, t)
    BY <1>1, <1>3, <2>2 DEF Reads
  <2>4. QED
    BY <2>1, <2>2, <2>3 DEF Bare
<1>4. QED
  BY <1>2, <1>3 DEF ShowsSecret, Contains, Shows

(* The empty text, scrubbed.                                               *)
LEMMA ScrubEmpty ==
    ASSUME Configured, NEW client, NEW host
    PROVE  ScrubSecrets(<<>>, client, host) = <<>>
<1> DEFINE match == Matches(<<>>, Scope(client, host))
<1>1. <<>> \in Seq(Symbols) /\ Len(<<>>) + 1 = 1
  OBVIOUS
<1>2. Scope(client, host) \in SUBSET Secrets
  BY ScopeSecrets
<1>3. Fits(<<>>, match)
  BY <1>1, <1>2, MatchesFit
<1> HIDE DEF match
<1>4. Scanned(Pieces(<<>>, match, Placeholding), <<>>, match, Placeholding)
  BY <1>1, <1>3, PiecesStep
<1>5. Pieces(<<>>, match, Placeholding)[1] = <<>>
  BY <1>1, <1>4 DEF Scanned
<1>6. QED
  BY <1>5, ScrubSecretsIs, RewriteIs DEF match

(* What ends with a newline, after more was read.                          *)
LEMMA EndsLineBehind ==
    ASSUME NEW a \in Seq(Symbols), NEW b \in Seq(Symbols), Len(b) > 0,
           b[Len(b)] = Newline
    PROVE  EndsLine(a \o b)
<1>1. Len(a) \in Nat /\ Len(b) \in Nat
  BY LenProperties
<1>2. Len(a \o b) = Len(a) + Len(b)
  BY ConcatProperties
<1>3. (a \o b)[Len(a) + Len(b)] = b[Len(a) + Len(b) - Len(a)]
  BY <1>1, ConcatProperties
<1>4. Len(a) + Len(b) - Len(a) = Len(b)
  BY <1>1
<1>5. QED
  BY <1>2, <1>3, <1>4 DEF EndsLine

(* The grants whose tokens anybody may have seen, and the symbols of live  *)
(* tokens: all, those Scrub takes out of a response, and those it leaves.  *)
KnownGrants == {g \in Grants : Known(g)}
Alive == {Token(ref.kind, TokenOf(ref)) : ref \in LiveRefs}
         \cup {Virtual(ref.kind, PlaceholderOf(ref)) : ref \in LiveRefs}
Hidden(client, host) ==
    {Token(ref.kind, TokenOf(ref)) :
        ref \in {f \in LiveRefs : Scrubs(f, client, host)}}
Exposed(client, host) ==
    {Token(ref.kind, TokenOf(ref)) :
        ref \in {f \in LiveRefs : ~Scrubs(f, client, host)}}

LiveKnown == \A ref \in LiveRefs : TokenOf(ref) \in KnownGrants

(* The grant of a token or token placeholder is a grant.                   *)
LEMMA GrantOf ==
    ASSUME Configured, NEW x \in Symbols, x[1] \in {"token", "virtual"}
    PROVE  x[3] \in Grants
<1>1. x \notin Plain
  BY SymbolTypes
<1>2. x # Newline
  <2>1. Newline[1] = "newline"
    BY DEF Newline
  <2>2. QED
    BY <2>1
<1>3. \A s : x # Placeholder(s) /\ x # Marker(s)
  BY TagOf
<1>4. \A k : x # TokenMarker(k)
  BY TagOf
<1>5. \E k \in Kinds, g \in Grants : x = Token(k, g) \/ x = Virtual(k, g)
  BY <1>1, <1>2, <1>3, <1>4 DEF Symbols
<1>6. QED
  BY <1>5, TagOf

(* What a record may hold, in these terms.                                 *)
LEMMA SeenBody ==
    ASSUME Configured, NEW text \in Seq(Symbols), Seen(text)
    PROVE  SeenIn(text, KnownGrants)
<1>1. DOMAIN text = 1..Len(text)
  BY LenProperties
<1>2. ASSUME NEW i \in 1..Len(text), text[i][1] = "virtual"
      PROVE  text[i][3] \in KnownGrants
  <2>1. text[i] \in Symbols
    BY ElementOfSeq
  <2>2. text[i][3] \in Grants
    BY <1>2, <2>1, GrantOf
  <2>3. Known(text[i][3])
    BY <1>1, <1>2 DEF Seen
  <2>4. QED
    BY <2>2, <2>3 DEF KnownGrants
<1>3. QED
  BY <1>2 DEF SeenIn

(* A token of a grant that was installed, and not among these.             *)
Own(x, known, exposed) == x[1] = "token" /\ x[3] \in known /\ x \notin exposed

(* The tokens the history keeps of a text that avoids some symbols.        *)
LEMMA KnownTokensOwn ==
    ASSUME Configured, NEW text \in Seq(Symbols), NEW symbols,
           Avoids(text, symbols)
    PROVE  /\ KnownTokens(text) \in SUBSET Symbols
           /\ \A x \in KnownTokens(text) : Own(x, KnownGrants, symbols)
<1>1. DOMAIN text = 1..Len(text)
  BY LenProperties
<1>2. ASSUME NEW x \in KnownTokens(text)
      PROVE  x \in Symbols /\ Own(x, KnownGrants, symbols)
  <2>1. PICK i \in 1..Len(text) :
            x = text[i] /\ text[i][1] = "token" /\ Known(text[i][3])
    BY <1>1 DEF KnownTokens
  <2>2. x \in Symbols
    BY <2>1, ElementOfSeq
  <2>3. x[3] \in Grants
    BY <2>1, <2>2, GrantOf
  <2>4. QED
    BY <2>1, <2>2, <2>3 DEF Own, KnownGrants, Avoids
<1>3. QED
  BY <1>2

(* A scrubbed text holds no live token of its client and host, and names   *)
(* the tokens it was made from.                                            *)
LEMMA ScrubClears ==
    ASSUME Configured, TypeOK, PlaceholderFaithful, LiveKnown,
           NEW text \in Seq(Symbols), SeenIn(text, KnownGrants),
           NEW client, NEW host
    PROVE  /\ Scrub(text, client, host) \in Seq(Symbols)
           /\ SeenIn(Scrub(text, client, host), KnownGrants)
           /\ Avoids(Scrub(text, client, host), Hidden(client, host))
           /\ Named(Scrub(text, client, host)) =
                 Named(ScrubSecrets(text, client, host))
<1> DEFINE y == ScrubSecrets(text, client, host)
           z == ScrubTokens(y, client, host)
<1>1. y \in Seq(Symbols)
  BY ScrubSecretsType
<1>2. SeenIn(y, KnownGrants)
  BY ScrubKeepsSeen
<1>3. z = Scrub(text, client, host)
  BY Zenon DEF Scrub
<1> HIDE DEF y
<1>4. z \in Seq(Symbols) /\ Len(z) = Len(y) /\ Named(z) = Named(y)
  BY <1>1, ScrubTokensType
<1>5. ASSUME NEW i \in 1..Len(z)
      PROVE  /\ z[i][1] = "virtual" => z[i][3] \in KnownGrants
             /\ z[i] \notin Hidden(client, host)
  <2>1. i \in 1..Len(y)
    BY <1>4
  <2>2. CASE /\ z[i] = y[i]
             /\ \A ref \in LiveRefs : Scrubs(ref, client, host) =>
                    y[i] # Token(ref.kind, TokenOf(ref))
    <3> HIDE DEF z
    <3>1. QED
      BY <1>2, <2>1, <2>2 DEF SeenIn, Hidden
  <2>3. CASE \E ref \in LiveRefs : z[i] = Virtual(ref.kind, PlaceholderOf(ref))
    <3>1. PICK ref \in LiveRefs : z[i] = Virtual(ref.kind, PlaceholderOf(ref))
      BY <2>3
    <3> HIDE DEF z
    <3>2. PlaceholderOf(ref) = TokenOf(ref)
      BY LiveType
    <3>3. z[i][3] \in KnownGrants
      BY <3>1, <3>2, TagOf DEF LiveKnown
    <3>4. z[i][1] = "virtual"
      BY <3>1, TagOf
    <3>5. z[i] \notin Hidden(client, host)
      BY <3>4, TagOf DEF Hidden
    <3>6. QED
      BY <3>3, <3>5
  <2>4. QED
    BY <1>1, <2>1, <2>2, <2>3, ScrubTokensAt
<1> HIDE DEF z
<1>6. QED
  BY <1>3, <1>4, <1>5 DEF y, SeenIn, Avoids

(* A sanitised text shows no live token, no placeholder and no value.      *)
LEMMA SanitizeClears ==
    ASSUME Configured, TypeOK, PlaceholderFaithful,
           NEW text \in Seq(Symbols), SeenIn(text, KnownGrants),
           NEW client, NEW host
    PROVE  /\ Sanitize(text, client, host) \in Seq(Symbols)
           /\ SeenIn(Sanitize(text, client, host), KnownGrants)
           /\ Avoids(Sanitize(text, client, host), Alive)
           /\ Bare(Sanitize(text, client, host))
<1> DEFINE y == SanitizeSecrets(text, Secrets)
           z == SanitizeTokens(y)
<1>1. y \in Seq(Symbols) /\ Bare(y)
  BY SanitizeHides DEF Bare
<1>2. SeenIn(y, KnownGrants)
  BY SanitizeKeepsSeen
<1>3. z = Sanitize(text, client, host)
  BY Zenon DEF Sanitize, Sanitized
<1> HIDE DEF y
<1>4. /\ z \in Seq(Symbols) /\ Len(z) = Len(y)
      /\ \A i \in 1..Len(y) : z[i] = y[i] \/ z[i][1] = "marker"
      /\ \A ref \in LiveRefs :
            /\ ~Shows(z, Token(ref.kind, TokenOf(ref)))
            /\ ~Shows(z, Virtual(ref.kind, PlaceholderOf(ref)))
  BY <1>1, SanitizeTokensType
<1> HIDE DEF z
<1>5. SeenIn(z, KnownGrants)
  BY <1>2, <1>4 DEF SeenIn
<1>6. Avoids(z, Alive)
  <2>1. DOMAIN z = 1..Len(z)
    BY <1>4, LenProperties
  <2>2. QED
    BY <1>4, <2>1 DEF Avoids, Alive, Shows
<1>7. ASSUME NEW s \in Secrets, NEW t \in AllNeedles[s], NEW j \in 1..Len(z),
             Reads(z, j, t)
      PROVE  FALSE
  <2>1. t \in Seq(Symbols)
    BY NeedlesType DEF Needles, AllNeedles
  <2>2. Len(t) \in Nat /\ Len(z) \in Nat
    BY <1>4, <2>1, LenProperties
  <2>3. ASSUME NEW m \in 1..Len(t) PROVE t[m][1] # "marker"
    <3>1. CASE t \in Representations(s)
      <4>1. t \in Seq(Plain)
        BY <3>1 DEF Configured, NeedleAssumption
      <4>2. t[m] \in Plain
        BY <4>1, ElementOfSeq
      <4>3. QED
        BY <4>2, SymbolTypes
    <3>2. CASE t = <<Placeholder(s)>>
      <4>1. t[m] = Placeholder(s)
        BY <3>2
      <4>2. QED
        BY <4>1, TagOf
    <3>3. QED
      BY <3>1, <3>2 DEF AllNeedles
  <2>4. ASSUME NEW m \in 1..Len(t) PROVE y[j + m - 1] = t[m]
    <3>1. z[j + m - 1] = t[m]
      BY <1>7 DEF Reads
    <3>2. j + Len(t) - 1 <= Len(z)
      BY <1>7 DEF Reads
    <3>3. j + m - 1 \in 1..Len(y)
      BY <1>4, <2>2, <3>2
    <3>4. QED
      BY <1>4, <2>3, <3>1, <3>3
  <2>5. Reads(y, j, t)
    BY <1>4, <1>7, <2>4 DEF Reads
  <2>6. QED
    BY <1>1, <1>4, <2>5 DEF Bare
<1>8. QED
  BY <1>3, <1>4, <1>5, <1>6, <1>7 DEF Bare

-----------------------------------------------------------------------------
(* The OAuth broker alone: type correctness, then safety. Three inductive  *)
(* invariants carry it: FaithInv says that every copy of a record pairs    *)
(* tokens with their own placeholders, OrderInv how the copies in memory,  *)
(* in snapshots and in the file follow one another, GrantInv that no two   *)
(* keys share a grant.                                                     *)

(* The zero value of a record is a record, that of a file a file, and the  *)
(* idle request a request.                                                 *)
LEMMA NoRecordType == NoRecord \in Record /\ NoFile \in File
BY BoundAssumption DEF NoRecord, Record, NoFile, File

(* The idle request is a request.                                          *)
LEMMA NoRequestType == NoRequest \in Request
<1> DEFINE c == CHOOSE c \in Clients : TRUE
           h == CHOOSE h \in Hosts : TRUE
<1>1. c \in Clients /\ h \in Hosts
  BY PolicyAssumption, Zenon
<1>2. NoRequest = [phase |-> "idle", client |-> c, host |-> h, secure |-> TRUE,
                   site |-> "credential", todo |-> {}, out |-> {}]
  BY Zenon DEF NoRequest
<1> HIDE DEF c, h
<1>3. QED
  BY <1>1, <1>2 DEF Request, Phases, Placeholders, Substitution

(* A key whose record holds a placeholder, if there is one.                *)
Holder(file, p) == CHOOSE k \in Keys : Holds(file[k], p)

(* That key holds it.                                                      *)
LEMMA HolderHolds ==
    ASSUME NEW file, NEW p, \E k \in Keys : Holds(file[k], p)
    PROVE  Holder(file, p) \in Keys /\ Holds(file[Holder(file, p)], p)
BY Zenon DEF Holder

(* The index of a file names the holders.                                  *)
LEMMA IndexIs ==
    ASSUME NEW file
    PROVE  IndexOf(file) =
              [p \in Placeholders |->
                  IF \E k \in Keys : Holds(file[k], p)
                  THEN [key |-> Holder(file, p), kind |-> p.kind]
                  ELSE NoRef]
BY Zenon DEF IndexOf, Holder

(* It maps placeholders to references.                                     *)
LEMMA IndexOfType ==
    ASSUME NEW file
    PROVE  IndexOf(file) \in [Placeholders -> Ref \cup {NoRef}]
BY IndexIs, HolderHolds DEF Ref, Placeholders

(* Install builds a well-formed record and a well-formed index.            *)
LEMMA NextRecordType ==
    ASSUME TypeOK, NEW k \in Keys, NEW resp \in Response
    PROVE  /\ NextRecord(records[k], resp) \in Record
           /\ NextRecord(records[k], resp).access = resp.grant
           /\ NextRecord(records[k], resp).updated = clock + 1
BY BoundAssumption
   DEF TypeOK, NextRecord, NextRefresh, NextRefreshPh, KeepsRefresh, Record,
       File, Response, Grants

(* The updated index is an index.                                          *)
LEMMA ReindexType ==
    ASSUME TypeOK, NEW k \in Keys, NEW old, NEW new
    PROVE  Reindex(k, old, new) \in [Placeholders -> Ref \cup {NoRef}]
BY DEF TypeOK, Reindex, Ref, Placeholders
-----------------------------------------------------------------------------
(* Type correctness.                                                       *)
LEMMA InitTypeOK == Init => TypeOK
BY BoundAssumption, NoneAssumption, NoRecordType, NoRequestType, IndexOfType
   DEF Init, TypeOK

(* Steps of a handler.                                                     *)
LEMMA ReceiveTypeOK ==
    ASSUME TypeOK, NEW h \in Handlers, NEW k \in Keys,
           NEW refresh \in {"absent", "empty", "new"}, Receive(h, k, refresh)
    PROVE  TypeOK'
<1>1. [key |-> k, grant |-> issued + 1, refresh |-> refresh] \in Response
  BY BoundAssumption DEF TypeOK, Receive, Response, Grants
<1>2. QED
  BY <1>1, BoundAssumption DEF TypeOK, Receive, memory, history

(* The critical section of b.mu keeps the types.                           *)
LEMMA InstallTypeOK ==
    ASSUME TypeOK, NEW h \in Handlers, Install(h), response[h] \in Response
    PROVE  TypeOK'
<1> DEFINE k   == response[h].key
           new == NextRecord(records[k], response[h])
<1>1. k \in Keys /\ new \in Record /\ records[k] \in Record
  BY NextRecordType DEF Response, TypeOK, File
<1>2. records' \in File
  BY <1>1 DEF Install, TypeOK, File
<1>3. virtual' \in [Placeholders -> Ref \cup {NoRef}]
  BY <1>1, ReindexType DEF Install
<1>4. installed' \in [Handlers -> Record]
  BY <1>1 DEF Install, TypeOK
<1>5. retired' \subseteq Grants
  <2>1. records[k].refresh \in 0..MaxGrants
    BY <1>1 DEF Record
  <2>2. {records[k].refresh} \ {0} \subseteq Grants
    BY <2>1 DEF Grants
  <2>3. QED
    BY <2>2 DEF Install, TypeOK
<1>6. clock' \in Nat
  BY DEF Install, TypeOK
<1>7. QED
  BY <1>2, <1>3, <1>4, <1>5, <1>6 DEF TypeOK, Install

(* The steps of writeState keep the types and the mutual exclusion.        *)
LEMMA WriteTypeOK ==
    ASSUME TypeOK, NEW h \in Handlers,
           LockState(h) \/ TakeSnapshot(h) \/ ReplaceFile(h) \/ FailWrite(h)
    PROVE  TypeOK'
<1>1. CASE LockState(h)
  BY <1>1, NoneAssumption DEF TypeOK, LockState, StateMuFree, memory, history
<1>2. CASE TakeSnapshot(h)
  BY <1>2 DEF TypeOK, TakeSnapshot, memory, history
<1>3. CASE ReplaceFile(h)
  BY <1>3, NoRecordType, NoneAssumption
     DEF TypeOK, ReplaceFile, ReleaseStateMu, memory, history
<1>4. CASE FailWrite(h)
  BY <1>4, NoRecordType, NoneAssumption
     DEF TypeOK, FailWrite, Finish, ReleaseStateMu, memory
<1>5. QED
  BY <1>1, <1>2, <1>3, <1>4

(* The end of a response keeps the types.                                  *)
LEMMA ReturnTypeOK ==
    ASSUME TypeOK, NEW h \in Handlers, Deliver(h) \/ Lose(h),
           response[h] \in Response
    PROVE  TypeOK'
<1>1. [key |-> response[h].key, rec |-> installed[h]] \in Delivery
  BY DEF Delivery, Response, TypeOK
<1>2. CASE Deliver(h)
  BY <1>1, <1>2, NoRecordType DEF TypeOK, Deliver, Persisted, Finish, memory
<1>3. CASE Lose(h)
  BY <1>3, NoRecordType DEF TypeOK, Lose, Persisted, Finish, memory
<1>4. QED
  BY <1>2, <1>3

(* Steps of the process and of a request.                                  *)
LEMMA ProcessTypeOK ==
    ASSUME TypeOK, Crash \/ Restart
    PROVE  TypeOK'
<1>1. CASE Crash
  <2>1. crashes' \in 0..MaxCrashes
    BY <1>1, BoundAssumption DEF TypeOK, Crash
  <2>2. virtual' \in [Placeholders -> Ref \cup {NoRef}]
    BY <1>1, IndexOfType DEF Crash
  <2>3. QED
    BY <1>1, <2>1, <2>2, NoRecordType, NoRequestType, NoneAssumption
       DEF TypeOK, Crash, history
<1>2. CASE Restart
  BY <1>2, IndexOfType DEF TypeOK, Restart, handlers, history
<1>3. QED
  BY <1>1, <1>2

(* A new request is a request.                                             *)
LEMMA BeginRequestTypeOK ==
    ASSUME TypeOK, NEW r \in Requests, BeginRequest(r)
    PROVE  TypeOK'
<1>1. NewRequests \subseteq Request
  BY DEF NewRequests, Request, Phases
<1>2. req' \in [Requests -> Request]
  BY <1>1 DEF TypeOK, BeginRequest
<1>3. QED
  BY <1>2 DEF TypeOK, BeginRequest, memory, handlers, history

(* What SubstituteValue adds to a request.                                 *)
LEMMA SubstitutionType ==
    ASSUME TypeOK, NEW q \in Request, NEW p \in Placeholders,
           virtual[p] # NoRef, Authorized(q, virtual[p])
    PROVE  [ph |-> p, key |-> virtual[p].key, kind |-> virtual[p].kind,
            token |-> TokenOf(virtual[p])] \in Substitution
<1>1. virtual[p].key \in Keys /\ virtual[p].kind \in Kinds
  BY DEF TypeOK, Ref
<1>2. records[virtual[p].key] \in Record
  BY <1>1 DEF TypeOK, File
<1>3. TokenOf(virtual[p]) \in 0..MaxGrants
  BY <1>2 DEF TokenOf, Record
<1>4. TokenOf(virtual[p]) \in Grants
  BY <1>3 DEF Authorized, Grants
<1>5. QED
  BY <1>1, <1>4 DEF Substitution

(* Substituting one value keeps the types.                                 *)
LEMMA SubstituteValueTypeOK ==
    ASSUME TypeOK, NEW r \in Requests, SubstituteValue(r)
    PROVE  TypeOK'
<1>1. req[r] \in Request
  BY DEF TypeOK
<1>2. PICK p \in req[r].todo :
          \/ req' = [req EXCEPT ![r].todo = @ \ {p}]
          \/ /\ virtual[p] # NoRef
             /\ Authorized(req[r], virtual[p])
             /\ req' = [req EXCEPT
                   ![r].todo = @ \ {p},
                   ![r].out = @ \cup {[ph |-> p, key |-> virtual[p].key,
                                       kind |-> virtual[p].kind,
                                       token |-> TokenOf(virtual[p])]}]
  BY DEF SubstituteValue
<1>3. p \in Placeholders
  BY <1>1, <1>2 DEF Request
<1>4. req' \in [Requests -> Request]
  <2>1. CASE req' = [req EXCEPT ![r].todo = @ \ {p}]
    BY <1>1, <2>1 DEF TypeOK, Request
  <2>2. CASE req' # [req EXCEPT ![r].todo = @ \ {p}]
    <3> DEFINE s == [ph |-> p, key |-> virtual[p].key,
                     kind |-> virtual[p].kind, token |-> TokenOf(virtual[p])]
    <3>1. s \in Substitution
      BY <1>1, <1>2, <1>3, <2>2, SubstitutionType
    <3>2. req' = [req EXCEPT ![r].todo = @ \ {p}, ![r].out = @ \cup {s}]
      BY <1>2, <2>2
    <3> HIDE DEF s
    <3>3. QED
      BY <1>1, <3>1, <3>2 DEF TypeOK, Request
  <2>3. QED
    BY <2>1, <2>2
<1>5. QED
  BY <1>4 DEF TypeOK, SubstituteValue, memory, handlers, history

(* Refusing, forwarding and ending a request keep the types.               *)
LEMMA EndRequestTypeOK ==
    ASSUME TypeOK, NEW r \in Requests,
           RefuseRequest(r) \/ Forward(r) \/ EndRequest(r)
    PROVE  TypeOK'
<1>1. CASE RefuseRequest(r)
  <2>1. req' \in [Requests -> Request]
    BY <1>1 DEF RefuseRequest, TypeOK, Request, Phases
  <2>2. QED
    BY <1>1, <2>1 DEF TypeOK, RefuseRequest, memory, handlers, history
<1>2. CASE Forward(r)
  <2>1. req' \in [Requests -> Request]
    BY <1>2 DEF Forward, TypeOK, Request, Phases
  <2>2. QED
    BY <1>2, <2>1 DEF TypeOK, Forward, memory, handlers, history
<1>3. CASE EndRequest(r)
  BY <1>3, NoRequestType
     DEF TypeOK, EndRequest, memory, handlers, history
<1>4. QED
  BY <1>1, <1>2, <1>3

(* A handler that is not idle holds the response it is handling.           *)
HandlersBusy ==
    \A h \in Handlers : pc[h] # "idle" => response[h] \in Response

(* Every step keeps the responses of busy handlers.                        *)
LEMMA HandlersBusyStep ==
    ASSUME TypeOK, HandlersBusy, [Next]_vars
    PROVE  HandlersBusy'
<1> USE DEF HandlersBusy, TypeOK
<1>1. CASE UNCHANGED vars
  BY <1>1 DEF vars
<1>2. ASSUME NEW h \in Handlers, NEW k \in Keys,
             NEW refresh \in {"absent", "empty", "new"},
             Receive(h, k, refresh)
      PROVE  HandlersBusy'
  <2>1. [key |-> k, grant |-> issued + 1, refresh |-> refresh] \in Response
    BY <1>2, BoundAssumption DEF Receive, Response, Grants
  <2>2. QED
    BY <1>2, <2>1 DEF Receive
<1>3. ASSUME NEW h \in Handlers, HandlerStep(h)
      PROVE  HandlersBusy'
  BY <1>3 DEF HandlerStep, Install, LockState, TakeSnapshot, ReplaceFile,
              FailWrite, Deliver, Lose, Finish
<1>4. CASE Crash
  BY <1>4 DEF Crash
<1>5. CASE Restart
  BY <1>5 DEF Restart, handlers
<1>6. CASE UNCHANGED handlers
  BY <1>6 DEF handlers
<1>7. ASSUME NEW r \in Requests, RequestStep(r)
      PROVE  UNCHANGED handlers
  BY <1>7 DEF RequestStep, BeginRequest, SubstituteValue, RefuseRequest,
              Forward, EndRequest
<1>8. QED
  BY <1>1, <1>2, <1>3, <1>4, <1>5, <1>6, <1>7 DEF Next

(* Every step keeps the types.                                             *)
LEMMA TypeOKStep ==
    ASSUME TypeOK, HandlersBusy, [Next]_vars
    PROVE  TypeOK'
<1>1. CASE UNCHANGED vars
  BY <1>1 DEF vars, TypeOK
<1>2. ASSUME NEW h \in Handlers, HandlerStep(h)
      PROVE  TypeOK'
  <2>1. CASE Install(h)
    BY <2>1, InstallTypeOK DEF Install, HandlersBusy
  <2>2. CASE LockState(h) \/ TakeSnapshot(h) \/ ReplaceFile(h) \/ FailWrite(h)
    BY <2>2, WriteTypeOK
  <2>3. CASE Deliver(h) \/ Lose(h)
    BY <2>3, ReturnTypeOK DEF Deliver, Lose, Persisted, HandlersBusy
  <2>4. QED
    BY <1>2, <2>1, <2>2, <2>3 DEF HandlerStep
<1>3. ASSUME NEW r \in Requests, RequestStep(r)
      PROVE  TypeOK'
  BY <1>3, BeginRequestTypeOK, SubstituteValueTypeOK, EndRequestTypeOK
     DEF RequestStep
<1>4. ASSUME NEW h \in Handlers, NEW k \in Keys,
             NEW refresh \in {"absent", "empty", "new"},
             Receive(h, k, refresh)
      PROVE  TypeOK'
  BY <1>4, ReceiveTypeOK
<1>5. CASE Crash \/ Restart
  BY <1>5, ProcessTypeOK
<1>6. QED
  BY <1>1, <1>2, <1>3, <1>4, <1>5 DEF Next

(* TypeOK holds in every reachable state, for every policy.                *)
THEOREM TypeCorrect == Spec => []TypeOK
<1>1. Init => TypeOK /\ HandlersBusy
  BY InitTypeOK DEF Init, HandlersBusy
<1>2. TypeOK /\ HandlersBusy /\ [Next]_vars => TypeOK' /\ HandlersBusy'
  BY TypeOKStep, HandlersBusyStep
<1>3. QED
  BY <1>1, <1>2, PTL DEF Spec
-----------------------------------------------------------------------------
(* The placeholders of a record are those of its tokens, and only NoRecord *)
(* has no access token.                                                    *)
Faithful(rec) ==
    /\ rec.accessPh = rec.access
    /\ rec.refreshPh = rec.refresh
    /\ rec.access = 0 => rec = NoRecord

FaithInv ==
    /\ \A k \in Keys : Faithful(records[k]) /\ Faithful(disk[k])
    /\ \A h \in Handlers : /\ Faithful(installed[h])
                           /\ \A k \in Keys : Faithful(snapshot[h][k])
    /\ \A d \in delivered : Faithful(d.rec)

(* The zero record and the empty file are faithful.                        *)
LEMMA NoRecordFaithful ==
    Faithful(NoRecord) /\ \A k \in Keys : Faithful(NoFile[k])
BY DEF Faithful, NoRecord, NoFile

(* A response keeps or replaces refresh token and placeholder together.    *)
LEMMA NextRecordFaithful ==
    ASSUME NEW old \in Record, NEW resp \in Response, Faithful(old)
    PROVE  Faithful(NextRecord(old, resp))
BY DEF Faithful, NextRecord, NextRefresh, NextRefreshPh, KeepsRefresh,
       Response, Grants

(* The steps of ObserveTokenResponse only copy or build faithful records.  *)
LEMMA FaithHandlerStep ==
    ASSUME TypeOK, HandlersBusy, FaithInv, NEW h \in Handlers, HandlerStep(h)
    PROVE  FaithInv'
<1> USE NoRecordFaithful DEF FaithInv, TypeOK
<1>1. CASE Install(h)
  <2> DEFINE k   == response[h].key
             new == NextRecord(records[k], response[h])
  <2>1. response[h] \in Response /\ k \in Keys
    BY <1>1 DEF Install, HandlersBusy, Response
  <2>2. records[k] \in Record /\ Faithful(records[k])
    BY <2>1 DEF File
  <2>3. Faithful(new)
    BY <2>1, <2>2, NextRecordFaithful
  <2>4. /\ records' = [records EXCEPT ![k] = new]
        /\ installed' = [installed EXCEPT ![h] = new]
        /\ UNCHANGED <<disk, snapshot, delivered>>
    BY <1>1 DEF Install
  <2> HIDE DEF new
  <2>5. QED
    BY <2>1, <2>3, <2>4 DEF File
<1>2. CASE LockState(h)
  BY <1>2 DEF LockState, memory, history
<1>3. CASE TakeSnapshot(h)
  BY <1>3 DEF TakeSnapshot, memory, history
<1>4. CASE ReplaceFile(h)
  BY <1>4 DEF ReplaceFile, memory, history
<1>5. CASE FailWrite(h)
  BY <1>5 DEF FailWrite, Finish, memory
<1>6. CASE Deliver(h)
  BY <1>6 DEF Deliver, Finish, memory
<1>7. CASE Lose(h)
  BY <1>7 DEF Lose, Finish, memory
<1>8. QED
  BY <1>1, <1>2, <1>3, <1>4, <1>5, <1>6, <1>7 DEF HandlerStep

(* What a request leaves alone.                                            *)
LEMMA RequestFrame ==
    ASSUME NEW r \in Requests, RequestStep(r)
    PROVE  UNCHANGED <<up, issued, memory, disk, stateMu, handlers, history>>
BY DEF RequestStep, BeginRequest, SubstituteValue, RefuseRequest, Forward,
       EndRequest, memory, handlers, history

(* Every step keeps all copies faithful.                                   *)
LEMMA FaithStep ==
    ASSUME TypeOK, HandlersBusy, FaithInv, [Next]_vars
    PROVE  FaithInv'
<1>1. CASE UNCHANGED <<records, disk, installed, snapshot, delivered>>
  BY <1>1 DEF FaithInv
<1>2. ASSUME NEW h \in Handlers, NEW k \in Keys,
             NEW refresh \in {"absent", "empty", "new"},
             Receive(h, k, refresh)
      PROVE  UNCHANGED <<records, disk, installed, snapshot, delivered>>
  BY <1>2 DEF Receive, memory, history
<1>3. ASSUME NEW r \in Requests, RequestStep(r)
      PROVE  UNCHANGED <<records, disk, installed, snapshot, delivered>>
  BY <1>3, RequestFrame DEF memory, handlers, history
<1>4. CASE Crash
  BY <1>4, NoRecordFaithful DEF Crash, FaithInv, history
<1>5. CASE Restart
  BY <1>5 DEF Restart, FaithInv, handlers, history
<1>6. QED
  BY <1>1, <1>2, <1>3, <1>4, <1>5, FaithHandlerStep DEF Next, vars

(* The empty state is faithful.                                            *)
LEMMA InitFaithInv == Init => FaithInv
BY NoRecordFaithful DEF Init, FaithInv

(* Types and the parsed responses of busy handlers, as one invariant.      *)
LEMMA Typed == Spec => [](TypeOK /\ HandlersBusy)
<1>1. Init => TypeOK /\ HandlersBusy
  BY InitTypeOK DEF Init, HandlersBusy
<1>2. TypeOK /\ HandlersBusy /\ [Next]_vars => TypeOK' /\ HandlersBusy'
  BY TypeOKStep, HandlersBusyStep
<1>3. QED
  BY <1>1, <1>2, PTL DEF Spec

(* Every copy of a record is faithful in every reachable state.            *)
LEMMA FaithAlways == Spec => []FaithInv
<1>1. TypeOK /\ HandlersBusy /\ FaithInv /\ [Next]_vars => FaithInv'
  BY FaithStep
<1>2. QED
  BY <1>1, InitFaithInv, Typed, PTL DEF Spec

(* A live placeholder, in memory or in the file, resolves to the token it  *)
(* was generated for, after any rotations, failures and crashes.           *)
THEOREM Faithfulness == Spec => []PlaceholderFaithful
<1>1. FaithInv => PlaceholderFaithful
  BY DEF FaithInv, Faithful, PlaceholderFaithful
<1>2. QED
  BY <1>1, FaithAlways, PTL
-----------------------------------------------------------------------------
(* b is a itself or a later record of the same key, and keeps the refresh  *)
(* token of a unless a response replaced it (gone).                        *)
Follows(a, b, gone) ==
    /\ b = a \/ b.updated > a.updated
    /\ a.refresh # 0 => b.refresh = a.refresh \/ a.refresh \in gone

(* What a handler installed is followed by its key's record in memory, by  *)
(* its snapshot while it writes, and by the file once it has written; the  *)
(* file, any snapshot and memory follow each other in this order.          *)
HandlerOrder(h) ==
    /\ pc[h] \in {"installed", "locked"} =>
          Follows(installed[h], records[response[h].key], retired)
    /\ pc[h] = "writing" =>
          /\ Follows(installed[h], snapshot[h][response[h].key], retired)
          /\ \A k \in Keys : /\ Follows(disk[k], snapshot[h][k], retired)
                             /\ Follows(snapshot[h][k], records[k], retired)
    /\ pc[h] = "written" =>
          Follows(installed[h], disk[response[h].key], retired)

OrderInv ==
    /\ ~up => \A h \in Handlers : pc[h] = "idle"
    /\ \A k \in Keys : records[k].updated <= clock /\ disk[k].updated <= clock
    /\ up => \A k \in Keys : Follows(disk[k], records[k], retired)
    /\ \A h \in Handlers : HandlerOrder(h)
    /\ \A d \in delivered : Follows(d.rec, disk[d.key], retired)

(* Follows is a preorder that survives further replacements.               *)
LEMMA FollowsRefl == \A a, gone : Follows(a, a, gone)
BY DEF Follows

(* A later record of a later record is a later record.                     *)
LEMMA FollowsTrans ==
    ASSUME NEW a \in Record, NEW b \in Record, NEW c \in Record, NEW gone,
           Follows(a, b, gone), Follows(b, c, gone)
    PROVE  Follows(a, c, gone)
BY DEF Follows, Record

(* More replaced refresh tokens excuse more.                               *)
LEMMA FollowsMono ==
    ASSUME NEW a, NEW b, NEW gone, NEW more, gone \subseteq more,
           Follows(a, b, gone)
    PROVE  Follows(a, b, more)
BY DEF Follows

(* All copies are equal at the start.                                      *)
LEMMA InitOrderInv == Init => OrderInv
<1> SUFFICES ASSUME Init PROVE OrderInv
  OBVIOUS
<1>1. \A k \in Keys : NoFile[k] = NoRecord /\ NoRecord.updated = 0
  BY DEF NoFile, NoRecord
<1>2. \A h \in Handlers : HandlerOrder(h)
  BY DEF Init, HandlerOrder
<1>3. QED
  BY <1>1, <1>2, FollowsRefl DEF Init, OrderInv

(* A handler whose part of the state, and the file, a step leaves alone.   *)
LEMMA SameHandler ==
    ASSUME NEW h \in Handlers, HandlerOrder(h),
           pc'[h] = pc[h], response'[h] = response[h],
           installed'[h] = installed[h], snapshot'[h] = snapshot[h],
           UNCHANGED <<records, disk, retired>>
    PROVE  HandlerOrder(h)'
BY DEF HandlerOrder

(* The record Install builds follows the one it replaces.                  *)
LEMMA NextFollows ==
    ASSUME TypeOK, NEW k \in Keys, NEW resp \in Response, NEW gone,
           Faithful(records[k]), records[k].updated <= clock,
           resp.refresh # "absent" => records[k].refresh \in gone \cup {0}
    PROVE  Follows(records[k], NextRecord(records[k], resp), gone)
<1>1. records[k] \in Record /\ clock \in Nat
  BY DEF TypeOK, File
<1>2. NextRecord(records[k], resp).updated > records[k].updated
  BY <1>1 DEF NextRecord, Record
<1>3. ASSUME records[k].refresh # 0, records[k].refresh \notin gone
      PROVE  NextRecord(records[k], resp).refresh = records[k].refresh
  BY <1>3 DEF NextRecord, NextRefresh, KeepsRefresh, Faithful
<1>4. QED
  BY <1>2, <1>3 DEF Follows

(* Everything that preceded a record in memory precedes what Install puts  *)
(* in its place.                                                           *)
LEMMA InstallFollows ==
    ASSUME TypeOK, HandlersBusy, FaithInv, OrderInv,
           NEW h \in Handlers, Install(h),
           NEW j \in Keys, NEW a \in Record, Follows(a, records[j], retired)
    PROVE  Follows(a, records'[j], retired')
<1> DEFINE k   == response[h].key
           new == NextRecord(records[k], response[h])
<1>1. response[h] \in Response /\ k \in Keys
  BY DEF Install, HandlersBusy, Response
<1>2. records' = [records EXCEPT ![k] = new] /\ records[k] \in Record
  BY <1>1 DEF Install, TypeOK, File
<1>3. retired \subseteq retired'
  BY DEF Install
<1>4. Follows(a, records[j], retired')
  BY <1>3, FollowsMono
<1>5. CASE j # k
  <2>1. records'[j] = records[j]
    BY <1>2, <1>5 DEF TypeOK, File
  <2>2. QED
    BY <1>4, <2>1
<1>6. CASE j = k
  <2>1. response[h].refresh # "absent" =>
            records[k].refresh \in retired' \cup {0}
    BY DEF Install
  <2>2. Follows(records[k], new, retired')
    BY <1>1, <2>1, NextFollows DEF FaithInv, OrderInv
  <2>3. new \in Record
    BY <1>1, NextRecordType
  <2>4. records'[j] = new
    BY <1>1, <1>2, <1>6 DEF TypeOK, File
  <2> HIDE DEF new
  <2>5. QED
    BY <1>2, <1>4, <1>6, <2>2, <2>3, <2>4, FollowsTrans
<1>7. QED
  BY <1>5, <1>6

(* An install puts a later record in memory, behind all other copies.      *)
LEMMA InstallOrder ==
    ASSUME TypeOK, HandlersBusy, FaithInv, OrderInv, NEW h \in Handlers,
           Install(h)
    PROVE  OrderInv'
<1> DEFINE k   == response[h].key
           new == NextRecord(records[k], response[h])
<1>1. response[h] \in Response /\ k \in Keys
  BY DEF Install, HandlersBusy, Response
<1>2. /\ records' = [records EXCEPT ![k] = new]
      /\ installed' = [installed EXCEPT ![h] = new]
      /\ pc' = [pc EXCEPT ![h] = "installed"]
      /\ clock' = clock + 1
      /\ retired \subseteq retired'
      /\ UNCHANGED <<up, disk, response, snapshot, delivered>>
  BY DEF Install
<1>3. new \in Record /\ new.updated = clock + 1
  BY <1>1, NextRecordType
<1>4. /\ records \in File /\ disk \in File /\ clock \in Nat
      /\ \A g \in Handlers : installed[g] \in Record /\ snapshot[g] \in File
      /\ \A d \in delivered : d.rec \in Record /\ d.key \in Keys
  BY DEF TypeOK, Delivery
<1> HIDE DEF new
<1>5. ~up' => \A g \in Handlers : pc'[g] = "idle"
  BY <1>2 DEF OrderInv, Install
<1>6. \A j \in Keys : records'[j].updated <= clock' /\ disk'[j].updated <= clock'
  BY <1>1, <1>2, <1>3, <1>4 DEF OrderInv, File, Record
<1>7. up' => \A j \in Keys : Follows(disk'[j], records'[j], retired')
  BY <1>2, <1>4, InstallFollows DEF OrderInv, File
<1>8. \A d \in delivered' : Follows(d.rec, disk'[d.key], retired')
  BY <1>2, FollowsMono DEF OrderInv
<1>9. ASSUME NEW g \in Handlers PROVE HandlerOrder(g)'
  <2>1. CASE g = h
    <3>1. installed'[h] = new /\ records'[k] = new /\ pc'[h] = "installed"
      BY <1>1, <1>2, <1>4 DEF TypeOK, File
    <3>2. QED
      BY <1>2, <2>1, <3>1, FollowsRefl DEF HandlerOrder
  <2>2. CASE g # h
    <3>1. /\ pc'[g] = pc[g] /\ installed'[g] = installed[g]
          /\ response'[g] = response[g] /\ snapshot'[g] = snapshot[g]
          /\ disk' = disk
      BY <1>2, <2>2
    <3>2. HandlerOrder(g)
      BY DEF OrderInv
    <3>3. pc[g] # "idle" => response[g].key \in Keys
      BY DEF HandlersBusy, Response
    <3>4. pc[g] \in {"installed", "locked"} =>
              Follows(installed[g], records'[response[g].key], retired')
      BY <1>4, <3>2, <3>3, InstallFollows DEF HandlerOrder
    <3>5. pc[g] = "writing" => \A j \in Keys :
              Follows(snapshot[g][j], records'[j], retired')
      BY <1>4, <3>2, InstallFollows DEF HandlerOrder, File
    <3>6. QED
      BY <1>2, <3>1, <3>2, <3>4, <3>5, FollowsMono DEF HandlerOrder
  <2>3. QED
    BY <2>1, <2>2
<1>10. QED
  BY <1>5, <1>6, <1>7, <1>8, <1>9 DEF OrderInv

(* Steps of writeState and of the response.                                *)
LEMMA SnapshotOrder ==
    ASSUME TypeOK, HandlersBusy, OrderInv, NEW h \in Handlers, TakeSnapshot(h)
    PROVE  OrderInv'
<1>1. /\ snapshot' = [snapshot EXCEPT ![h] = records]
      /\ pc' = [pc EXCEPT ![h] = "writing"] /\ pc[h] = "locked"
      /\ UNCHANGED <<up, clock, records, disk, response, installed, delivered,
                     retired>>
  BY DEF TakeSnapshot, memory, history
<1>2. ASSUME NEW g \in Handlers PROVE HandlerOrder(g)'
  <2>1. HandlerOrder(g)
    BY DEF OrderInv
  <2>2. CASE g = h
    <3>1. up /\ \A k \in Keys : Follows(disk[k], records[k], retired)
      BY <1>1 DEF OrderInv
    <3>2. snapshot'[h] = records /\ pc'[h] = "writing"
      BY <1>1 DEF TypeOK
    <3>3. QED
      BY <1>1, <2>1, <2>2, <3>1, <3>2, FollowsRefl DEF HandlerOrder
  <2>3. CASE g # h
    BY <1>1, <2>1, <2>3, SameHandler
  <2>4. QED
    BY <2>2, <2>3
<1>3. QED
  BY <1>1, <1>2 DEF OrderInv, TypeOK

(* The rename brings the file forward: only the holder of stateMu has a    *)
(* snapshot.                                                               *)
LEMMA ReplaceOrder ==
    ASSUME TypeOK, HandlersBusy, OrderInv, NEW h \in Handlers, ReplaceFile(h)
    PROVE  /\ OrderInv'
           /\ \A k \in Keys : Follows(disk[k], disk'[k], retired)
<1>1. /\ pc[h] = "writing" /\ disk' = snapshot[h]
      /\ pc' = [pc EXCEPT ![h] = "written"]
      /\ snapshot' = [snapshot EXCEPT ![h] = NoFile]
      /\ UNCHANGED <<up, clock, records, response, installed, delivered,
                     retired>>
  BY DEF ReplaceFile, memory, history
<1>2. \A k \in Keys : /\ disk[k] \in Record /\ disk'[k] \in Record
                      /\ records[k] \in Record
  BY <1>1 DEF TypeOK, File
<1>3. HandlerOrder(h)
  BY DEF OrderInv
<1>4. \A k \in Keys : /\ Follows(disk[k], disk'[k], retired)
                      /\ Follows(disk'[k], records[k], retired)
  BY <1>1, <1>3 DEF HandlerOrder
<1>5. \A k \in Keys : disk'[k].updated <= clock
  BY <1>2, <1>4 DEF OrderInv, Follows, Record, TypeOK
<1>6. ASSUME NEW d \in delivered' PROVE Follows(d.rec, disk'[d.key], retired')
  <2>1. d.rec \in Record /\ d.key \in Keys
    BY <1>1 DEF TypeOK, Delivery
  <2>2. QED
    BY <1>1, <1>2, <1>4, <2>1, FollowsTrans DEF OrderInv
<1>7. ASSUME NEW g \in Handlers PROVE HandlerOrder(g)'
  <2>1. HandlerOrder(g)
    BY DEF OrderInv
  <2>2. pc[g] # "idle" => response[g].key \in Keys
    BY DEF HandlersBusy, Response
  <2>3. CASE g = h
    <3>1. pc'[h] = "written"
      BY <1>1 DEF TypeOK
    <3>2. QED
      BY <1>1, <2>1, <2>2, <2>3, <3>1 DEF HandlerOrder
  <2>4. CASE g # h
    <3>1. /\ pc'[g] = pc[g] /\ installed'[g] = installed[g]
          /\ response'[g] = response[g] /\ records' = records
      BY <1>1, <2>4
    <3>2. pc[g] # "writing"
      BY <1>1, <2>4, NoneAssumption DEF TypeOK
    <3>3. pc[g] = "written" =>
              Follows(installed[g], disk'[response[g].key], retired)
      BY <1>2, <1>4, <2>1, <2>2, FollowsTrans DEF HandlerOrder, TypeOK
    <3>4. QED
      BY <1>1, <2>1, <3>1, <3>2, <3>3 DEF HandlerOrder
  <2>5. QED
    BY <2>3, <2>4
<1>8. /\ up' => \A k \in Keys : Follows(disk'[k], records'[k], retired')
      /\ ~up' => \A g \in Handlers : pc'[g] = "idle"
  BY <1>1, <1>4 DEF OrderInv
<1>9. \A k \in Keys : records'[k].updated <= clock'
                      /\ disk'[k].updated <= clock'
  BY <1>1, <1>5 DEF OrderInv
<1>10. QED
  BY <1>4, <1>6, <1>7, <1>8, <1>9 DEF OrderInv

(* Steps that end a response, or only take the lock.                       *)
LEMMA ReturnOrder ==
    ASSUME TypeOK, HandlersBusy, OrderInv, NEW h \in Handlers,
           LockState(h) \/ FailWrite(h) \/ Deliver(h) \/ Lose(h)
    PROVE  OrderInv'
<1>1. /\ pc[h] \in {"installed", "writing", "written"}
      /\ \A g \in Handlers \ {h} :
            /\ pc'[g] = pc[g] /\ response'[g] = response[g]
            /\ installed'[g] = installed[g] /\ snapshot'[g] = snapshot[g]
      /\ UNCHANGED <<up, clock, records, disk, retired>>
  BY DEF LockState, FailWrite, Deliver, Lose, Persisted, Finish, memory,
         history, TypeOK
<1>2. ASSUME NEW g \in Handlers PROVE HandlerOrder(g)'
  <2>1. HandlerOrder(g)
    BY DEF OrderInv
  <2>2. CASE g # h
    BY <1>1, <2>1, <2>2, SameHandler
  <2>3. CASE g = h /\ LockState(h)
    BY <2>1, <2>3 DEF LockState, HandlerOrder, TypeOK, memory, history
  <2>4. CASE g = h /\ ~LockState(h)
    <3>1. pc'[g] = "idle"
      BY <2>4 DEF FailWrite, Deliver, Lose, Finish, TypeOK
    <3>2. QED
      BY <3>1 DEF HandlerOrder
  <2>5. QED
    BY <2>2, <2>3, <2>4
<1>3. ASSUME NEW d \in delivered' PROVE Follows(d.rec, disk[d.key], retired)
  <2>1. CASE d \in delivered
    BY <2>1 DEF OrderInv
  <2>2. CASE d \notin delivered
    <3>1. /\ pc[h] = "written"
          /\ d = [key |-> response[h].key, rec |-> installed[h]]
      BY <2>2 DEF LockState, FailWrite, Deliver, Lose, Persisted, Finish,
                  history
    <3>2. QED
      BY <3>1 DEF OrderInv, HandlerOrder
  <2>3. QED
    BY <2>1, <2>2
<1>4. up
  BY <1>1 DEF OrderInv
<1>5. QED
  BY <1>1, <1>2, <1>3, <1>4 DEF OrderInv

(* Every step keeps the order of the copies.                               *)
LEMMA OrderStep ==
    ASSUME TypeOK, HandlersBusy, FaithInv, OrderInv, [Next]_vars
    PROVE  OrderInv'
<1>1. CASE UNCHANGED <<up, records, clock, disk, handlers, history>>
  BY <1>1 DEF OrderInv, HandlerOrder, handlers, history
<1>2. ASSUME NEW h \in Handlers, NEW k \in Keys,
             NEW refresh \in {"absent", "empty", "new"},
             Receive(h, k, refresh)
      PROVE  OrderInv'
  <2>1. /\ up /\ \A g \in Handlers \ {h} :
            /\ pc'[g] = pc[g] /\ response'[g] = response[g]
            /\ installed'[g] = installed[g] /\ snapshot'[g] = snapshot[g]
        /\ pc'[h] = "received"
        /\ UNCHANGED <<up, clock, records, disk, delivered, retired>>
    BY <1>2 DEF Receive, memory, history, TypeOK
  <2>2. ASSUME NEW g \in Handlers PROVE HandlerOrder(g)'
    <3>1. CASE g = h
      BY <2>1, <3>1 DEF HandlerOrder
    <3>2. CASE g # h
      BY <2>1, <3>2, SameHandler DEF OrderInv
    <3>3. QED
      BY <3>1, <3>2
  <2>3. QED
    BY <2>1, <2>2 DEF OrderInv
<1>3. ASSUME NEW h \in Handlers, HandlerStep(h)
      PROVE  OrderInv'
  BY <1>3, InstallOrder, SnapshotOrder, ReplaceOrder, ReturnOrder
     DEF HandlerStep
<1>4. CASE Crash
  <2>1. \A k \in Keys : records'[k].updated = 0
    BY <1>4 DEF Crash, NoFile, NoRecord
  <2>2. /\ ~up' /\ \A h \in Handlers : pc'[h] = "idle"
        /\ UNCHANGED <<disk, clock, delivered, retired>>
    BY <1>4 DEF Crash, history
  <2>3. QED
    BY <2>1, <2>2 DEF OrderInv, HandlerOrder, TypeOK
<1>5. CASE Restart
  <2>1. /\ ~up /\ records' = disk
        /\ UNCHANGED <<disk, clock, pc, delivered, retired>>
    BY <1>5 DEF Restart, handlers, history
  <2>2. \A h \in Handlers : pc'[h] = "idle"
    BY <2>1 DEF OrderInv
  <2>3. QED
    BY <2>1, <2>2, FollowsRefl DEF OrderInv, HandlerOrder
<1>6. ASSUME NEW r \in Requests, RequestStep(r)
      PROVE  UNCHANGED <<up, records, clock, disk, handlers, history>>
  BY <1>6, RequestFrame DEF memory
<1>7. QED
  BY <1>1, <1>2, <1>3, <1>4, <1>5, <1>6 DEF Next, vars, handlers, history

(* The copies follow one another in every reachable state.                 *)
LEMMA OrderAlways == Spec => [](FaithInv /\ OrderInv)
<1>1. TypeOK /\ HandlersBusy /\ FaithInv /\ OrderInv /\ [Next]_vars
      => OrderInv'
  BY OrderStep
<1>2. QED
  BY <1>1, InitOrderInv, FaithAlways, Typed, PTL DEF Spec

(* A placeholder the sandbox received stays live, in memory and in the     *)
(* file, until a later response for its key is installed.                  *)
THEOREM Durability == Spec => []DeliveredStaysLive
<1>1. TypeOK /\ OrderInv => DeliveredStaysLive
  <2> SUFFICES ASSUME TypeOK, OrderInv, NEW d \in delivered
               PROVE  /\ disk[d.key] = d.rec
                         \/ disk[d.key].updated > d.rec.updated
                      /\ up => \/ records[d.key] = d.rec
                               \/ records[d.key].updated > d.rec.updated
    BY DEF DeliveredStaysLive
  <2>1. /\ d.rec \in Record /\ disk[d.key] \in Record
        /\ records[d.key] \in Record /\ d.key \in Keys
    BY DEF TypeOK, Delivery, File
  <2>2. Follows(d.rec, disk[d.key], retired)
    BY DEF OrderInv
  <2>3. up => Follows(d.rec, records[d.key], retired)
    BY <2>1, <2>2, FollowsTrans DEF OrderInv
  <2>4. QED
    BY <2>2, <2>3 DEF Follows
<1>2. QED
  BY <1>1, OrderAlways, Typed, PTL

(* The auth file never goes back to an older record of any key.            *)
THEOREM FileMonotone == Spec => DiskNeverOlder
<1> DEFINE Later == \A k \in Keys : disk'[k].updated >= disk[k].updated
<1>1. ASSUME TypeOK, HandlersBusy, OrderInv, [Next]_vars
      PROVE  Later
  <2>1. \A k \in Keys : disk[k].updated \in Nat
    BY <1>1 DEF TypeOK, File, Record
  <2>2. CASE UNCHANGED disk
    BY <2>1, <2>2
  <2>3. ASSUME NEW h \in Handlers, ReplaceFile(h)
        PROVE  Later
    <3>1. \A k \in Keys : disk'[k].updated \in Nat
      BY <1>1, <2>3 DEF ReplaceFile, TypeOK, File, Record
    <3>2. QED
      BY <1>1, <2>1, <2>3, <3>1, ReplaceOrder DEF Follows
  <2>4. UNCHANGED disk \/ \E h \in Handlers : ReplaceFile(h)
    BY <1>1, RequestFrame
       DEF Next, vars, HandlerStep, Receive, Install, LockState, TakeSnapshot,
           FailWrite, Deliver, Lose, Finish, Crash, Restart
  <2>5. QED
    BY <2>2, <2>3, <2>4
<1>2. QED
  BY <1>1, OrderAlways, Typed, PTL DEF Spec, DiskNeverOlder
-----------------------------------------------------------------------------
(* The states a record may be read from.                                   *)
Files == {records, disk} \cup {snapshot[h] : h \in Handlers}

(* Two records hold no token in common.                                    *)
Disjoint(a, b) ==
    /\ a.access # 0 => a.access # b.access
    /\ a.refresh # 0 => a.refresh # b.refresh

(* The grant g is in no record.                                            *)
Unused(g) ==
    \A F \in Files, k \in Keys : F[k].access # g /\ F[k].refresh # g

(* No record holds a grant that was not issued, no two keys share a grant  *)
(* in any two copies of the state, and the grant of a response that is not *)
(* installed yet is its own.                                               *)
GrantInv ==
    /\ \A F \in Files, k \in Keys :
          F[k].access <= issued /\ F[k].refresh <= issued
    /\ \A F, G \in Files, j, k \in Keys : j # k => Disjoint(F[j], G[k])
    /\ \A h \in Handlers : pc[h] = "received" =>
          response[h].grant <= issued /\ Unused(response[h].grant)
    /\ \A g, h \in Handlers :
          g # h /\ pc[g] = "received" /\ pc[h] = "received"
          => response[g].grant # response[h].grant

(* Every copy of the state is a file.                                      *)
LEMMA FilesType == ASSUME TypeOK PROVE \A F \in Files : F \in File
BY DEF TypeOK, Files

(* A step that issues nothing, installs nothing and writes only what some  *)
(* copy already held.                                                      *)
LEMMA GrantFrame ==
    ASSUME TypeOK, HandlersBusy, GrantInv,
           issued' = issued,
           Files' \subseteq Files \cup {NoFile},
           \A h \in Handlers : pc'[h] = "received" =>
               pc[h] = "received" /\ response'[h] = response[h]
    PROVE  GrantInv'
<1>1. \A k \in Keys : NoFile[k].access = 0 /\ NoFile[k].refresh = 0
  BY DEF NoFile, NoRecord
<1>2. \A h \in Handlers : pc[h] = "received" => response[h].grant \in Grants
  BY DEF HandlersBusy, Response
<1>3. ASSUME NEW F \in Files', NEW k \in Keys
      PROVE  F[k].access <= issued' /\ F[k].refresh <= issued'
  BY <1>1, <1>3 DEF GrantInv, TypeOK
<1>4. ASSUME NEW F \in Files', NEW G \in Files', NEW j \in Keys,
             NEW k \in Keys, j # k
      PROVE  Disjoint(F[j], G[k])
  BY <1>1, <1>4 DEF GrantInv, Disjoint
<1>5. ASSUME NEW h \in Handlers, pc'[h] = "received"
      PROVE  response'[h].grant <= issued' /\ Unused(response[h].grant)'
  <2>1. response[h].grant <= issued /\ Unused(response[h].grant)
    BY <1>5 DEF GrantInv
  <2>2. response[h].grant # 0
    BY <1>2, <1>5 DEF Grants
  <2>3. QED
    BY <1>1, <1>5, <2>1, <2>2 DEF Unused
<1>6. QED
  BY <1>3, <1>4, <1>5 DEF GrantInv

(* The issuer of a response names a grant no copy holds.                   *)
LEMMA ReceiveGrant ==
    ASSUME TypeOK, HandlersBusy, GrantInv, NEW h \in Handlers, NEW k \in Keys,
           NEW refresh \in {"absent", "empty", "new"}, Receive(h, k, refresh)
    PROVE  GrantInv'
<1>1. /\ issued \in Nat /\ issued' = issued + 1 /\ pc'[h] = "received"
      /\ response'[h].grant = issued + 1
      /\ \A g \in Handlers \ {h} :
            pc'[g] = pc[g] /\ response'[g] = response[g]
      /\ UNCHANGED <<records, disk, snapshot>>
  BY DEF Receive, memory, TypeOK
<1>2. Files' = Files
  BY <1>1 DEF Files
<1>3. \A F \in Files, j \in Keys : F[j].access \in Nat /\ F[j].refresh \in Nat
  BY FilesType DEF File, Record
<1>4. Unused(issued + 1)
  BY <1>1, <1>3 DEF Unused, GrantInv
<1>5. \A g \in Handlers : pc[g] = "received" => response[g].grant \in Nat
  BY DEF HandlersBusy, Response, Grants
<1>6. ASSUME NEW F \in Files', NEW j \in Keys
      PROVE  F[j].access <= issued' /\ F[j].refresh <= issued'
  BY <1>1, <1>2, <1>3 DEF GrantInv
<1>7. ASSUME NEW g \in Handlers, pc'[g] = "received"
      PROVE  response'[g].grant <= issued' /\ Unused(response[g].grant)'
  <2>1. CASE g = h
    BY <1>1, <1>2, <1>4, <2>1 DEF Unused
  <2>2. CASE g # h
    BY <1>1, <1>2, <1>5, <1>7, <2>2 DEF GrantInv, Unused
  <2>3. QED
    BY <2>1, <2>2
<1>8. ASSUME NEW g \in Handlers, NEW i \in Handlers, g # i,
             pc'[g] = "received", pc'[i] = "received"
      PROVE  response'[g].grant # response'[i].grant
  BY <1>1, <1>5, <1>8 DEF GrantInv
<1>9. QED
  BY <1>2, <1>6, <1>7, <1>8 DEF GrantInv

(* The installed record holds the new grant or what its own key held.      *)
LEMMA InstallGrant ==
    ASSUME TypeOK, HandlersBusy, GrantInv, NEW h \in Handlers, Install(h)
    PROVE  GrantInv'
<1> DEFINE k   == response[h].key
           g   == response[h].grant
           new == NextRecord(records[k], response[h])
<1>1. /\ response[h] \in Response /\ k \in Keys /\ g \in Grants
      /\ pc[h] = "received"
  BY DEF Install, HandlersBusy, Response
<1>2. /\ records' = [records EXCEPT ![k] = new]
      /\ pc'[h] = "installed"
      /\ \A i \in Handlers \ {h} : pc'[i] = pc[i]
      /\ UNCHANGED <<issued, disk, snapshot, response>>
  BY DEF Install, TypeOK
<1>3. new.access = g /\ new.refresh \in {records[k].refresh, g, 0}
  BY DEF NextRecord, NextRefresh
<1>4. /\ records'[k] = new
      /\ \A j \in Keys \ {k} : records'[j] = records[j]
  BY <1>1, <1>2 DEF TypeOK, File
<1> HIDE DEF new, g, k
<1>5. Files' \subseteq Files \cup {records'} /\ records \in Files
  BY <1>2 DEF Files
<1>6. Unused(g) /\ g <= issued /\ g # 0 /\ 0 <= issued
  BY <1>1 DEF GrantInv, g, Grants, TypeOK
<1>7. ASSUME NEW F \in Files', NEW j \in Keys
      PROVE  F[j].access <= issued' /\ F[j].refresh <= issued'
  <2>1. CASE F \in Files
    BY <1>2, <2>1 DEF GrantInv
  <2>2. CASE F = records' /\ j = k
    BY <1>1, <1>2, <1>3, <1>4, <1>5, <1>6, <2>2 DEF GrantInv
  <2>3. CASE F = records' /\ j # k
    BY <1>2, <1>4, <1>5, <2>3 DEF GrantInv
  <2>4. QED
    BY <1>5, <2>1, <2>2, <2>3
<1>8. ASSUME NEW F \in Files, NEW j \in Keys, j # k
      PROVE  Disjoint(F[j], new) /\ Disjoint(new, F[j])
  <2>1. Disjoint(F[j], records[k]) /\ Disjoint(records[k], F[j])
    BY <1>1, <1>5, <1>8 DEF GrantInv
  <2>2. F[j].access # g /\ F[j].refresh # g
    BY <1>6 DEF Unused
  <2>3. QED
    BY <1>3, <2>1, <2>2 DEF Disjoint
<1>9. ASSUME NEW F \in Files', NEW G \in Files', NEW i \in Keys,
             NEW j \in Keys, i # j
      PROVE  Disjoint(F[i], G[j])
  <2>1. (F[i] = new /\ i = k) \/ \E H \in Files : F[i] = H[i]
    BY <1>4, <1>5
  <2>2. (G[j] = new /\ j = k) \/ \E H \in Files : G[j] = H[j]
    BY <1>4, <1>5
  <2>3. QED
    BY <1>8, <1>9, <2>1, <2>2 DEF GrantInv
<1>10. ASSUME NEW i \in Handlers, pc'[i] = "received"
       PROVE  response'[i].grant <= issued' /\ Unused(response[i].grant)'
  <2>1. i # h /\ pc[i] = "received" /\ response'[i] = response[i]
    BY <1>2, <1>10
  <2>2. /\ response[i].grant <= issued /\ Unused(response[i].grant)
        /\ response[i].grant # g
    BY <1>1, <2>1 DEF GrantInv, g
  <2>3. response[i].grant # 0
    BY <2>1 DEF HandlersBusy, Response, Grants
  <2>4. ASSUME NEW F \in Files', NEW j \in Keys
        PROVE  F[j].access # response[i].grant
               /\ F[j].refresh # response[i].grant
    <3>1. F[j] = new \/ \E H \in Files : F[j] = H[j]
      BY <1>4, <1>5
    <3>2. CASE F[j] = new
      BY <1>1, <1>3, <1>5, <2>2, <2>3, <3>2 DEF Unused
    <3>3. QED
      BY <2>2, <3>1, <3>2 DEF Unused
  <2>5. QED
    BY <1>2, <2>1, <2>2, <2>4 DEF Unused
<1>11. ASSUME NEW i \in Handlers, NEW j \in Handlers, i # j,
              pc'[i] = "received", pc'[j] = "received"
       PROVE  response'[i].grant # response'[j].grant
  BY <1>2, <1>11 DEF GrantInv
<1>12. QED
  BY <1>7, <1>9, <1>10, <1>11 DEF GrantInv

(* Every step keeps the grants of the keys apart.                          *)
LEMMA GrantStep ==
    ASSUME TypeOK, HandlersBusy, GrantInv, [Next]_vars
    PROVE  GrantInv'
<1>1. CASE UNCHANGED <<issued, records, disk, snapshot, pc, response>>
  <2>1. Files' = Files
    BY <1>1 DEF Files
  <2>2. QED
    BY <1>1, <2>1, GrantFrame
<1>2. ASSUME NEW h \in Handlers,
             \/ LockState(h) \/ TakeSnapshot(h) \/ ReplaceFile(h)
             \/ FailWrite(h) \/ Deliver(h) \/ Lose(h)
      PROVE  GrantInv'
  <2>1. /\ issued' = issued /\ records' = records
        /\ disk' \in {disk, snapshot[h]}
        /\ \A g \in Handlers : snapshot'[g] \in {snapshot[g], records, NoFile}
    BY <1>2 DEF LockState, TakeSnapshot, ReplaceFile, FailWrite, Deliver,
                Lose, Finish, memory, TypeOK
  <2>2. Files' \subseteq Files \cup {NoFile}
    BY <2>1 DEF Files
  <2>3. \A g \in Handlers : pc'[g] = "received" =>
            pc[g] = "received" /\ response'[g] = response[g]
    BY <1>2 DEF LockState, TakeSnapshot, ReplaceFile, FailWrite, Deliver,
                Lose, Finish, TypeOK
  <2>4. QED
    BY <2>1, <2>2, <2>3, GrantFrame
<1>3. CASE Crash
  <2>1. Files' \subseteq Files \cup {NoFile}
    BY <1>3 DEF Crash, Files
  <2>2. issued' = issued /\ \A h \in Handlers : pc'[h] # "received"
    BY <1>3 DEF Crash
  <2>3. QED
    BY <2>1, <2>2, GrantFrame
<1>4. CASE Restart
  <2>1. Files' \subseteq Files
    BY <1>4 DEF Restart, Files, handlers
  <2>2. UNCHANGED <<issued, pc, response>>
    BY <1>4 DEF Restart, handlers
  <2>3. QED
    BY <2>1, <2>2, GrantFrame
<1>5. ASSUME NEW r \in Requests, RequestStep(r)
      PROVE  UNCHANGED <<issued, records, disk, snapshot, pc, response>>
  BY <1>5, RequestFrame DEF memory, handlers
<1>6. QED
  BY <1>1, <1>2, <1>3, <1>4, <1>5, ReceiveGrant, InstallGrant
     DEF Next, vars, HandlerStep

(* No two keys share a grant in any reachable state.                       *)
LEMMA GrantAlways == Spec => []GrantInv
<1>1. Init => GrantInv
  <2> SUFFICES ASSUME Init PROVE GrantInv
    OBVIOUS
  <2>1. Files \subseteq {NoFile} /\ issued = 0
        /\ \A h \in Handlers : pc[h] # "received"
    BY DEF Init, Files
  <2>2. \A k \in Keys : NoFile[k].access = 0 /\ NoFile[k].refresh = 0
    BY DEF NoFile, NoRecord
  <2>3. QED
    BY <2>1, <2>2 DEF GrantInv, Disjoint
<1>2. TypeOK /\ HandlersBusy /\ GrantInv /\ [Next]_vars => GrantInv'
  BY GrantStep
<1>3. QED
  BY <1>1, <1>2, Typed, PTL DEF Spec
-----------------------------------------------------------------------------
(* What b.virtual says of a placeholder held by one record, or by none.    *)
LEMMA IndexHeld ==
    ASSUME NEW file, NEW k \in Keys, NEW p \in Placeholders,
           Holds(file[k], p), \A j \in Keys : Holds(file[j], p) => j = k
    PROVE  IndexOf(file)[p] = [key |-> k, kind |-> p.kind]
BY IndexIs, HolderHolds

(* A placeholder nobody holds is not in the index.                         *)
LEMMA IndexFree ==
    ASSUME NEW file, NEW p \in Placeholders, \A k \in Keys : ~Holds(file[k], p)
    PROVE  IndexOf(file)[p] = NoRef
BY IndexIs

(* In every copy of the state a placeholder is held by one key at most.    *)
OneHolder(file) ==
    \A p \in Placeholders, j, k \in Keys :
        Holds(file[j], p) /\ Holds(file[k], p) => j = k

(* Faithful records without common tokens have no common placeholder.      *)
LEMMA DisjointHolders ==
    ASSUME NEW file, \A k \in Keys : Faithful(file[k]),
           \A j, k \in Keys : j # k => Disjoint(file[j], file[k])
    PROVE  OneHolder(file)
<1> SUFFICES ASSUME NEW p \in Placeholders, NEW j \in Keys, NEW k \in Keys,
                    Holds(file[j], p), Holds(file[k], p), j # k
             PROVE  FALSE
  BY DEF OneHolder
<1>1. p.grant # 0 /\ Disjoint(file[j], file[k])
  BY DEF Placeholders, Grants
<1>2. Faithful(file[j]) /\ Faithful(file[k])
  OBVIOUS
<1>3. QED
  BY <1>1, <1>2 DEF Holds, Faithful, Disjoint

(* In memory and in the file a placeholder has one holder at most.         *)
LEMMA HolderUnique ==
    ASSUME FaithInv, GrantInv
    PROVE  OneHolder(records) /\ OneHolder(disk)
<1>1. \A k \in Keys : Faithful(records[k]) /\ Faithful(disk[k])
  BY DEF FaithInv
<1>2. \A j, k \in Keys : j # k => /\ Disjoint(records[j], records[k])
                                  /\ Disjoint(disk[j], disk[k])
  BY DEF GrantInv, Files
<1>3. QED
  BY <1>1, <1>2, DisjointHolders

(* Deleting the old placeholders and inserting the new ones gives the      *)
(* index loadState would build.                                            *)
LEMMA ReindexIsIndexOf ==
    ASSUME NEW k \in Keys, NEW new, NEW after,
           OneHolder(records), OneHolder(after), virtual = IndexOf(records),
           after[k] = new, \A j \in Keys \ {k} : after[j] = records[j]
    PROVE  Reindex(k, records[k], new) = IndexOf(after)
<1> SUFFICES ASSUME NEW p \in Placeholders
             PROVE  Reindex(k, records[k], new)[p] = IndexOf(after)[p]
  BY IndexIs DEF Reindex
<1>1. CASE Holds(new, p)
  <2>1. IndexOf(after)[p] = [key |-> k, kind |-> p.kind]
    BY <1>1, IndexHeld DEF OneHolder
  <2>2. QED
    BY <1>1, <2>1 DEF Reindex
<1>2. CASE ~Holds(new, p) /\ Holds(records[k], p)
  <2>1. \A j \in Keys : ~Holds(after[j], p)
    BY <1>2 DEF OneHolder
  <2>2. QED
    BY <1>2, <2>1, IndexFree DEF Reindex
<1>3. CASE ~Holds(new, p) /\ ~Holds(records[k], p)
  <2>1. \A j \in Keys : Holds(after[j], p) <=> Holds(records[j], p)
    BY <1>3
  <2>2. Reindex(k, records[k], new)[p] = IndexOf(records)[p]
    BY <1>3 DEF Reindex
  <2>3. CASE \E j \in Keys : Holds(records[j], p)
    <3>1. PICK j \in Keys : Holds(records[j], p)
      BY <2>3
    <3>2. /\ IndexOf(records)[p] = [key |-> j, kind |-> p.kind]
          /\ IndexOf(after)[p] = [key |-> j, kind |-> p.kind]
      BY <2>1, <3>1, IndexHeld DEF OneHolder
    <3>3. QED
      BY <2>2, <3>2
  <2>4. CASE \A j \in Keys : ~Holds(records[j], p)
    BY <2>1, <2>2, <2>4, IndexFree
  <2>5. QED
    BY <2>3, <2>4
<1>4. QED
  BY <1>1, <1>2, <1>3

(* Every step keeps the index equal to the one built anew.                 *)
LEMMA IndexStep ==
    ASSUME TypeOK, HandlersBusy, FaithInv, GrantInv, FaithInv', GrantInv',
           IndexConsistent, [Next]_vars
    PROVE  IndexConsistent'
<1> USE DEF IndexConsistent
<1>1. CASE UNCHANGED <<records, virtual>>
  BY <1>1
<1>2. ASSUME NEW h \in Handlers, Install(h)
      PROVE  IndexConsistent'
  <2> DEFINE k   == response[h].key
             new == NextRecord(records[k], response[h])
  <2>1. k \in Keys
    BY <1>2 DEF Install, HandlersBusy, Response
  <2>2. /\ records' = [records EXCEPT ![k] = new]
        /\ virtual' = Reindex(k, records[k], new)
    BY <1>2 DEF Install
  <2> HIDE DEF new
  <2>3. records'[k] = new /\ \A j \in Keys \ {k} : records'[j] = records[j]
    BY <2>1, <2>2 DEF TypeOK, File
  <2>4. \A j \in Keys : Faithful(records'[j])
    BY DEF FaithInv
  <2>5. \A i, j \in Keys : i # j => Disjoint(records'[i], records'[j])
    BY DEF GrantInv, Files
  <2>6. OneHolder(records')
    BY <2>4, <2>5, DisjointHolders
  <2>7. Reindex(k, records[k], new) = IndexOf(records')
    BY <2>1, <2>3, <2>6, HolderUnique, ReindexIsIndexOf
  <2>8. QED
    BY <2>2, <2>7
<1>3. CASE Crash \/ Restart
  BY <1>3 DEF Crash, Restart
<1>4. ASSUME NEW h \in Handlers, HandlerStep(h), ~Install(h)
      PROVE  UNCHANGED <<records, virtual>>
  BY <1>4 DEF HandlerStep, LockState, TakeSnapshot, ReplaceFile, FailWrite,
              Deliver, Lose, Finish, memory
<1>5. ASSUME NEW h \in Handlers, NEW k \in Keys,
             NEW refresh \in {"absent", "empty", "new"},
             Receive(h, k, refresh)
      PROVE  UNCHANGED <<records, virtual>>
  BY <1>5 DEF Receive, memory
<1>6. ASSUME NEW r \in Requests, RequestStep(r)
      PROVE  UNCHANGED <<records, virtual>>
  BY <1>6, RequestFrame DEF memory
<1>7. QED
  BY <1>1, <1>2, <1>3, <1>4, <1>5, <1>6 DEF Next, vars, memory

(* The incremental upkeep of b.virtual agrees with the index built anew,   *)
(* after any sequence of rotations, crashes and restarts.                  *)
THEOREM IndexAgrees == Spec => []IndexConsistent
<1>1. Init => IndexConsistent
  BY DEF Init, IndexConsistent
<1>2. TypeOK /\ HandlersBusy /\ FaithInv /\ GrantInv /\ FaithInv' /\ GrantInv'
      /\ IndexConsistent /\ [Next]_vars => IndexConsistent'
  BY IndexStep
<1>3. QED
  BY <1>1, <1>2, Typed, FaithAlways, GrantAlways, PTL DEF Spec

(* loadState accepts whatever file writeState leaves: a restart succeeds.  *)
THEOREM Restartable == Spec => []FileLoadable
<1>1. FaithInv /\ GrantInv => FileLoadable
  <2> SUFFICES ASSUME FaithInv, GrantInv PROVE Loadable(disk)
    BY DEF FileLoadable
  <2>1. \A k \in Keys : Faithful(disk[k])
    BY DEF FaithInv
  <2>2. QED
    BY <2>1, HolderUnique DEF Loadable, OneHolder, Faithful
<1>2. QED
  BY <1>1, FaithAlways, GrantAlways, PTL

(* A delivered refresh placeholder resolves until a response that carries  *)
(* a refresh token of its own replaces it, also across restarts.           *)
THEOREM RefreshSurvives == Spec => []RefreshPreserved
<1>1. TypeOK /\ FaithInv /\ OrderInv /\ GrantInv /\ IndexConsistent
      => RefreshPreserved
  <2> SUFFICES ASSUME TypeOK, FaithInv, OrderInv, GrantInv, IndexConsistent,
                      NEW d \in delivered, d.rec.refresh # 0,
                      d.rec.refresh \notin retired
               PROVE  /\ disk[d.key].refresh = d.rec.refresh
                      /\ up => virtual[[kind |-> "refresh",
                                        grant |-> d.rec.refreshPh]]
                                   = [key |-> d.key, kind |-> "refresh"]
    BY DEF RefreshPreserved
  <2> DEFINE p == [kind |-> "refresh", grant |-> d.rec.refreshPh]
  <2>1. /\ d.rec \in Record /\ d.key \in Keys /\ disk[d.key] \in Record
        /\ records[d.key] \in Record
    BY DEF TypeOK, Delivery, File
  <2>2. disk[d.key].refresh = d.rec.refresh
    BY DEF OrderInv, Follows
  <2>3. ASSUME up PROVE virtual[p] = [key |-> d.key, kind |-> "refresh"]
    <3>1. records[d.key].refresh = d.rec.refresh
      BY <2>1, <2>2, <2>3 DEF OrderInv, Follows
    <3>2. /\ records[d.key].refreshPh = d.rec.refreshPh
          /\ d.rec.refreshPh = d.rec.refresh
      BY <2>1, <3>1 DEF FaithInv, Faithful
    <3>3. p \in Placeholders /\ p.kind = "refresh" /\ Holds(records[d.key], p)
      BY <2>1, <3>2 DEF Placeholders, Kinds, Grants, Record, Holds
    <3> HIDE DEF p
    <3>4. IndexOf(records)[p] = [key |-> d.key, kind |-> p.kind]
      BY <2>1, <3>3, HolderUnique, IndexHeld DEF OneHolder
    <3>5. QED
      BY <3>3, <3>4 DEF IndexConsistent
  <2>4. QED
    BY <2>2, <2>3
<1>2. QED
  BY <1>1, Typed, OrderAlways, GrantAlways, IndexAgrees, PTL
-----------------------------------------------------------------------------
(* What a live placeholder resolves to is what it was generated for.       *)
LEMMA ResolvesFaithfully ==
    ASSUME TypeOK, FaithInv, IndexConsistent, NEW p \in Placeholders,
           virtual[p] # NoRef
    PROVE  virtual[p].kind = p.kind /\ TokenOf(virtual[p]) = p.grant
<1> DEFINE k == Holder(records, p)
<1>1. /\ \E j \in Keys : Holds(records[j], p)
      /\ virtual[p] = [key |-> k, kind |-> p.kind]
  BY IndexIs DEF IndexConsistent
<1>2. k \in Keys /\ Holds(records[k], p)
  BY <1>1, HolderHolds
<1>3. Faithful(records[k])
  BY <1>2 DEF FaithInv
<1> HIDE DEF k
<1>4. p.kind \in {"access", "refresh"}
  BY DEF Placeholders, Kinds
<1>5. QED
  BY <1>1, <1>2, <1>3, <1>4 DEF TokenOf, Holds, Faithful

(* Every step keeps the credentials already substituted faithful.          *)
LEMMA SubstitutionStep ==
    ASSUME TypeOK, FaithInv, IndexConsistent, SubstitutionFaithful,
           [Next]_vars
    PROVE  SubstitutionFaithful'
<1>1. CASE UNCHANGED req
  BY <1>1 DEF SubstitutionFaithful
<1>2. ASSUME NEW r \in Requests, SubstituteValue(r)
      PROVE  SubstitutionFaithful'
  <2>1. PICK p \in req[r].todo :
            \/ req' = [req EXCEPT ![r].todo = @ \ {p}]
            \/ /\ virtual[p] # NoRef
               /\ Authorized(req[r], virtual[p])
               /\ req' = [req EXCEPT
                     ![r].todo = @ \ {p},
                     ![r].out = @ \cup {[ph |-> p, key |-> virtual[p].key,
                                         kind |-> virtual[p].kind,
                                         token |-> TokenOf(virtual[p])]}]
    BY <1>2 DEF SubstituteValue
  <2>2. req[r] \in Request /\ p \in Placeholders
    BY <2>1 DEF TypeOK, Request
  <2>3. CASE req' = [req EXCEPT ![r].todo = @ \ {p}]
    BY <2>2, <2>3 DEF SubstitutionFaithful, TypeOK, Request
  <2>4. CASE req' # [req EXCEPT ![r].todo = @ \ {p}]
    <3> DEFINE s == [ph |-> p, key |-> virtual[p].key,
                     kind |-> virtual[p].kind, token |-> TokenOf(virtual[p])]
    <3>1. /\ s.ph = p /\ s.key = virtual[p].key /\ s.token = p.grant
          /\ s.kind = p.kind
      BY <2>1, <2>2, <2>4, ResolvesFaithfully
    <3>2. ClientOf[s.key] = req[r].client
      BY <2>1, <2>4 DEF Authorized
    <3>3. req' = [req EXCEPT ![r].todo = @ \ {p}, ![r].out = @ \cup {s}]
      BY <2>1, <2>4
    <3> HIDE DEF s
    <3>4. QED
      BY <2>2, <3>1, <3>2, <3>3 DEF SubstitutionFaithful, TypeOK, Request
  <2>5. QED
    BY <2>3, <2>4
<1>3. ASSUME NEW r \in Requests, BeginRequest(r) \/ EndRequest(r)
      PROVE  SubstitutionFaithful'
  <2>1. PICK q : q.out = {} /\ req' = [req EXCEPT ![r] = q]
    <3>1. CASE BeginRequest(r)
      <4>1. PICK q \in NewRequests : req' = [req EXCEPT ![r] = q]
        BY <3>1 DEF BeginRequest
      <4>2. q.out = {}
        BY <4>1 DEF NewRequests
      <4>3. QED
        BY <4>1, <4>2
    <3>2. CASE EndRequest(r)
      BY <3>2 DEF EndRequest, NoRequest
    <3>3. QED
      BY <1>3, <3>1, <3>2
  <2>2. QED
    BY <2>1 DEF SubstitutionFaithful, TypeOK
<1>4. ASSUME NEW r \in Requests, RefuseRequest(r) \/ Forward(r)
      PROVE  SubstitutionFaithful'
  <2>1. req[r] \in Request
    BY DEF TypeOK
  <2>2. /\ \A i \in Requests \ {r} : req'[i] = req[i]
        /\ req'[r].client = req[r].client /\ req'[r].out \subseteq req[r].out
    BY <1>4, <2>1 DEF RefuseRequest, Forward, TypeOK, Request
  <2>3. QED
    BY <2>2 DEF SubstitutionFaithful
<1>5. CASE Crash
  BY <1>5 DEF Crash, SubstitutionFaithful, NoRequest
<1>6. ASSUME NEW h \in Handlers, HandlerStep(h)
      PROVE  UNCHANGED req
  BY <1>6 DEF HandlerStep, Install, LockState, TakeSnapshot, ReplaceFile,
              FailWrite, Deliver, Lose, Finish
<1>7. ASSUME NEW h \in Handlers, NEW k \in Keys,
             NEW refresh \in {"absent", "empty", "new"},
             Receive(h, k, refresh)
      PROVE  UNCHANGED req
  BY <1>7 DEF Receive
<1>8. CASE Restart
  BY <1>1, <1>8 DEF Restart
<1>9. QED
  BY <1>1, <1>2, <1>3, <1>4, <1>5, <1>6, <1>7, <1>8
     DEF Next, vars, RequestStep

(* A forwarded request carries, for each placeholder, the token issued     *)
(* with it, of the request's own client, however rotations fall between    *)
(* its values.                                                             *)
THEOREM SubstitutesFaithfully == Spec => []SubstitutionFaithful
<1>1. Init => SubstitutionFaithful
  BY DEF Init, SubstitutionFaithful, NoRequest
<1>2. TypeOK /\ FaithInv /\ IndexConsistent /\ SubstitutionFaithful
      /\ [Next]_vars => SubstitutionFaithful'
  BY SubstitutionStep
<1>3. QED
  BY <1>1, <1>2, Typed, FaithAlways, IndexAgrees, PTL DEF Spec

-----------------------------------------------------------------------------
(* The OAuth broker among the exchanges.                                   *)

(* What is known of the OAuth broker in every state of an exchange.        *)
BrokerInv ==
    /\ TypeOK /\ HandlersBusy /\ FaithInv /\ GrantInv /\ IndexConsistent
    /\ SubstitutionFaithful

(* A step of a request goroutine leaves the broker alone.                  *)
BrokerFrame ==
    UNCHANGED <<up, crashes, issued, clock, records, virtual, disk, stateMu,
                pc, response, installed, snapshot, delivered, retired>>

(* So it keeps what is known of the broker, if it carries what it may.     *)
LEMMA BrokerFrameStep ==
    ASSUME BrokerInv, BrokerFrame, req' \in [Requests -> Request],
           SubstitutionFaithful'
    PROVE  BrokerInv'
<1>1. TypeOK'
  BY DEF BrokerInv, TypeOK, BrokerFrame
<1>2. HandlersBusy' /\ FaithInv' /\ IndexConsistent'
  BY DEF BrokerInv, HandlersBusy, FaithInv, IndexConsistent, BrokerFrame
<1>3. GrantInv'
  <2>1. Files' = Files /\ issued' = issued
    BY DEF BrokerFrame, Files
  <2>2. \A h \in Handlers : pc'[h] = "received" =>
            pc[h] = "received" /\ response'[h] = response[h]
    BY DEF BrokerFrame
  <2>3. QED
    BY <2>1, <2>2, GrantFrame DEF BrokerInv
<1>4. QED
  BY <1>1, <1>2, <1>3 DEF BrokerInv

(* A refusal by the static broker drops what was substituted.              *)
LEMMA RefuseStaticStep ==
    ASSUME BrokerInv, NEW r \in Requests, RefuseStatic(r)
    PROVE  BrokerInv'
<1>1. BrokerFrame
  BY DEF RefuseStatic, BrokerFrame, memory, handlers, history
<1>2. req \in [Requests -> Request] /\ req[r] \in Request
  BY DEF BrokerInv, TypeOK
<1>3. req' = [req EXCEPT ![r].phase = "refused", ![r].todo = {}, ![r].out = {}]
  BY DEF RefuseStatic
<1>4. req' \in [Requests -> Request]
  BY <1>2, <1>3 DEF Request, Phases
<1>5. /\ \A i \in Requests \ {r} : req'[i] = req[i]
      /\ req'[r].out = {}
  BY <1>2, <1>3 DEF Request
<1>6. SubstitutionFaithful'
  BY <1>5 DEF BrokerInv, SubstitutionFaithful
<1>7. QED
  BY <1>1, <1>4, <1>6, BrokerFrameStep

(* Every other step is one of OAuthBroker.                                 *)
LEMMA MediationIsNext ==
    ASSUME MediationNext, \A r \in Requests : ~RefuseStatic(r)
    PROVE  [Next]_vars
<1>1. ASSUME NEW r \in Requests, RequestMediation(r)
      PROVE  [Next]_vars
  BY <1>1 DEF RequestMediation, BeginExchange, ForwardExchange, EndRefused,
              Next, RequestStep
<1>2. ASSUME NEW r \in Requests, ResponseMediation(r)
      PROVE  [Next]_vars
  BY <1>2 DEF ResponseMediation, Respond, TakeRecord, CaptureRecord,
              WriteRecord, EndExchange, Next, RequestStep
<1>3. ASSUME NEW h \in Handlers, TokenResponse(h)
      PROVE  [Next]_vars
  BY <1>3 DEF TokenResponse, Next
<1>4. QED
  BY <1>1, <1>2, <1>3 DEF MediationNext

(* Every step of an exchange keeps what is known of the broker.            *)
LEMMA BrokerStep ==
    ASSUME BrokerInv, [MediationNext]_exchange
    PROVE  BrokerInv'
<1>1. CASE [Next]_vars
  <2>1. TypeOK' /\ HandlersBusy'
    BY <1>1, TypeOKStep, HandlersBusyStep DEF BrokerInv
  <2>2. FaithInv' /\ GrantInv'
    BY <1>1, FaithStep, GrantStep DEF BrokerInv
  <2>3. IndexConsistent'
    BY <1>1, <2>2, IndexStep DEF BrokerInv
  <2>4. SubstitutionFaithful'
    BY <1>1, SubstitutionStep DEF BrokerInv
  <2>5. QED
    BY <2>1, <2>2, <2>3, <2>4 DEF BrokerInv
<1>2. CASE UNCHANGED exchange
  BY <1>1, <1>2 DEF exchange
<1>3. QED
  BY <1>1, <1>2, RefuseStaticStep, MediationIsNext

(* It is so at the start.                                                  *)
LEMMA InitBrokerInv == MediationInit => BrokerInv
<1> SUFFICES ASSUME MediationInit PROVE BrokerInv
  OBVIOUS
<1>1. Init
  BY DEF MediationInit
<1>2. TypeOK /\ FaithInv /\ HandlersBusy
  BY <1>1, InitTypeOK, InitFaithInv DEF Init, HandlersBusy
<1>3. GrantInv
  <2>1. Files \subseteq {NoFile} /\ issued = 0
        /\ \A h \in Handlers : pc[h] # "received"
    BY <1>1 DEF Init, Files
  <2>2. \A k \in Keys : NoFile[k].access = 0 /\ NoFile[k].refresh = 0
    BY DEF NoFile, NoRecord
  <2>3. QED
    BY <2>1, <2>2 DEF GrantInv, Disjoint
<1>4. IndexConsistent /\ SubstitutionFaithful
  BY <1>1 DEF Init, IndexConsistent, SubstitutionFaithful, NoRequest
<1>5. QED
  BY <1>2, <1>3, <1>4 DEF BrokerInv

(* The broker holds in every state of an exchange what OAuthBroker proves  *)
(* of it alone.                                                            *)
LEMMA BrokerAlways == MediationSpec => []BrokerInv
<1>1. BrokerInv /\ [MediationNext]_exchange => BrokerInv'
  BY BrokerStep
<1>2. QED
  BY <1>1, InitBrokerInv, PTL DEF MediationSpec

(* A forwarded request carries, for each placeholder, the token issued     *)
(* with it, also while a static broker may refuse the request.             *)
THEOREM SubstitutesFaithfullyMediated == MediationSpec => []SubstitutionFaithful
<1>1. BrokerInv => SubstitutionFaithful
  BY DEF BrokerInv
<1>2. QED
  BY <1>1, BrokerAlways, PTL

(* Tokens that are live were given out.                                    *)
LEMMA LiveAreKnown ==
    ASSUME BrokerInv
    PROVE  PlaceholderFaithful /\ LiveKnown
<1>1. PlaceholderFaithful
  BY DEF BrokerInv, FaithInv, Faithful, PlaceholderFaithful
<1>2. ASSUME NEW ref \in LiveRefs PROVE TokenOf(ref) \in KnownGrants
  <2>1. ref.key \in Keys /\ TokenOf(ref) \in Grants
    BY <1>1, LiveType DEF BrokerInv
  <2>2. TokenOf(ref) <= issued
    BY <2>1 DEF BrokerInv, GrantInv, Files, TokenOf
  <2>3. \A h \in Handlers : pc[h] = "received" => TokenOf(ref) # response[h].grant
    BY <2>1 DEF BrokerInv, GrantInv, Unused, Files, TokenOf
  <2>4. QED
    BY <2>1, <2>2, <2>3 DEF KnownGrants, Known
<1>3. QED
  BY <1>1, <1>2 DEF LiveKnown

(* What a step does to the live tokens: it forgets no grant that was given *)
(* out, and a token that becomes live was not given out before.            *)
Persists(ref) ==
    /\ ref \in LiveRefs
    /\ TokenOf(ref)' = TokenOf(ref)
    /\ PlaceholderOf(ref)' = PlaceholderOf(ref)
TokenFrame ==
    /\ KnownGrants \subseteq KnownGrants'
    /\ \A ref \in LiveRefs' :
          \/ Persists(ref)
          \/ /\ TokenOf(ref)' \notin KnownGrants
             /\ PlaceholderOf(ref)' \notin KnownGrants

(* A grant that was given out and installed stays so, whatever responses   *)
(* arrive.                                                                 *)
LEMMA KnownStays ==
    ASSUME issued \in Nat, issued' \in Nat, issued <= issued',
           \A h \in Handlers : pc'[h] = "received" =>
               \/ pc[h] = "received" /\ response'[h] = response[h]
               \/ response'[h].grant = issued + 1
    PROVE  KnownGrants \subseteq KnownGrants'
<1> SUFFICES ASSUME NEW g \in KnownGrants PROVE g \in KnownGrants'
  OBVIOUS
<1>1. /\ g \in Grants /\ g \in Nat /\ g <= issued
      /\ \A h \in Handlers : pc[h] = "received" => g # response[h].grant
  BY DEF KnownGrants, Known, Grants
<1>2. g <= issued' /\ g # issued + 1
  BY <1>1
<1>3. \A h \in Handlers : pc'[h] = "received" => g # response'[h].grant
  BY <1>1, <1>2
<1>4. QED
  BY <1>1, <1>2, <1>3 DEF KnownGrants, Known

(* Where the records stay, so do the live tokens.                          *)
LEMMA SameRecords ==
    ASSUME UNCHANGED records
    PROVE  /\ LiveRefs' = LiveRefs
           /\ \A ref : /\ TokenOf(ref)' = TokenOf(ref)
                       /\ PlaceholderOf(ref)' = PlaceholderOf(ref)
BY DEF LiveRefs, TokenOf, PlaceholderOf

(* A handler that installs a response makes its tokens live, which nobody  *)
(* was given before.                                                       *)
LEMMA InstallTokens ==
    ASSUME BrokerInv, BrokerInv', NEW h \in Handlers, Install(h)
    PROVE  TokenFrame
<1> DEFINE k   == response[h].key
           g   == response[h].grant
           new == NextRecord(records[k], response[h])
<1>1. /\ k \in Keys /\ g \in Grants /\ pc[h] = "received"
  BY DEF Install, BrokerInv, HandlersBusy, Response
<1>2. /\ records' = [records EXCEPT ![k] = new]
      /\ pc' = [pc EXCEPT ![h] = "installed"]
      /\ UNCHANGED <<issued, response>>
  BY DEF Install
<1>3. g \notin KnownGrants
  BY <1>1 DEF KnownGrants, Known
<1>4. /\ new.access = g /\ new.accessPh = g
      /\ \/ new.refresh = records[k].refresh /\ new.refreshPh = records[k].refreshPh
         \/ new.refresh = g /\ new.refreshPh = g
         \/ new.refresh = 0 /\ new.refreshPh = 0
  BY DEF NextRecord, NextRefresh, NextRefreshPh
<1> HIDE DEF new, g
<1>5. /\ records'[k] = new
      /\ \A j \in Keys \ {k} : records'[j] = records[j]
  BY <1>1, <1>2 DEF BrokerInv, TypeOK, File
<1>6. KnownGrants \subseteq KnownGrants'
  <2>1. issued \in Nat /\ issued' = issued
    BY <1>2 DEF BrokerInv, TypeOK
  <2>2. \A i \in Handlers : pc'[i] = "received" =>
            pc[i] = "received" /\ response'[i] = response[i]
    BY <1>2 DEF BrokerInv, TypeOK
  <2>3. QED
    BY <2>1, <2>2, KnownStays
<1>7. ASSUME NEW ref \in LiveRefs'
      PROVE  \/ Persists(ref)
             \/ /\ TokenOf(ref)' \notin KnownGrants
                /\ PlaceholderOf(ref)' \notin KnownGrants
  <2>1. /\ ref \in Ref /\ ref.key \in Keys
        /\ TokenOf(ref)' # 0 /\ PlaceholderOf(ref)' # 0
    BY <1>7 DEF LiveRefs, Ref
  <2>2. CASE /\ TokenOf(ref)' = TokenOf(ref)
             /\ PlaceholderOf(ref)' = PlaceholderOf(ref)
    <3>1. ref \in LiveRefs
      BY <2>1, <2>2 DEF LiveRefs
    <3>2. QED
      BY <2>2, <3>1 DEF Persists
  <2>3. CASE ref.key # k
    <3>1. records'[ref.key] = records[ref.key]
      BY <1>5, <2>1, <2>3
    <3>2. TokenOf(ref)' = TokenOf(ref) /\ PlaceholderOf(ref)' = PlaceholderOf(ref)
      BY <3>1 DEF TokenOf, PlaceholderOf
    <3>3. QED
      BY <2>2, <3>2
  <2>4. CASE ref.key = k /\ ref.kind = "refresh"
    <3>1. TokenOf(ref)' = new.refresh /\ PlaceholderOf(ref)' = new.refreshPh
          /\ TokenOf(ref) = records[k].refresh
          /\ PlaceholderOf(ref) = records[k].refreshPh
      BY <1>5, <2>4 DEF TokenOf, PlaceholderOf
    <3>2. QED
      BY <1>3, <1>4, <2>1, <2>2, <3>1
  <2>5. CASE ref.key = k /\ ref.kind # "refresh"
    <3>1. TokenOf(ref)' = g /\ PlaceholderOf(ref)' = g
      BY <1>4, <1>5, <2>5 DEF TokenOf, PlaceholderOf
    <3>2. QED
      BY <1>3, <3>1
  <2>6. QED
    BY <2>3, <2>4, <2>5
<1>8. QED
  BY <1>6, <1>7 DEF TokenFrame

(* Every step does this to the live tokens, and no more.                   *)
LEMMA TokenFrameStep ==
    ASSUME BrokerInv, BrokerInv', [MediationNext]_exchange
    PROVE  TokenFrame
<1>1. issued \in Nat
      /\ pc \in [Handlers -> {"idle", "received", "installed", "locked",
                              "writing", "written"}]
      /\ response \in [Handlers -> Response \cup {NoResponse}]
  BY DEF BrokerInv, TypeOK
<1>2. CASE /\ UNCHANGED records
           /\ issued' \in Nat /\ issued <= issued'
           /\ \A h \in Handlers : pc'[h] = "received" =>
                 \/ pc[h] = "received" /\ response'[h] = response[h]
                 \/ response'[h].grant = issued + 1
  BY <1>1, <1>2, KnownStays, SameRecords DEF TokenFrame, Persists
<1>3. CASE UNCHANGED <<records, issued, pc, response>>
  BY <1>1, <1>2, <1>3
<1>4. ASSUME NEW h \in Handlers, NEW k \in Keys,
             NEW refresh \in {"absent", "empty", "new"}, Receive(h, k, refresh)
      PROVE  TokenFrame
  <2>1. UNCHANGED records /\ issued' \in Nat /\ issued <= issued'
    BY <1>1, <1>4 DEF Receive, memory
  <2>2. \A i \in Handlers : pc'[i] = "received" =>
            \/ pc[i] = "received" /\ response'[i] = response[i]
            \/ response'[i].grant = issued + 1
    BY <1>1, <1>4 DEF Receive
  <2>3. QED
    BY <1>2, <2>1, <2>2
<1>5. ASSUME NEW h \in Handlers,
             \/ LockState(h) \/ TakeSnapshot(h) \/ ReplaceFile(h)
             \/ FailWrite(h) \/ Deliver(h) \/ Lose(h)
      PROVE  TokenFrame
  <2>1. UNCHANGED records /\ issued' \in Nat /\ issued <= issued'
    BY <1>1, <1>5 DEF LockState, TakeSnapshot, ReplaceFile, FailWrite,
                      Deliver, Lose, Finish, memory
  <2>2. \A i \in Handlers : pc'[i] = "received" =>
            pc[i] = "received" /\ response'[i] = response[i]
    BY <1>1, <1>5 DEF LockState, TakeSnapshot, ReplaceFile, FailWrite,
                      Deliver, Lose, Finish
  <2>3. QED
    BY <1>2, <2>1, <2>2
<1>6. ASSUME NEW h \in Handlers, TokenResponse(h) PROVE TokenFrame
  BY <1>4, <1>5, <1>6, InstallTokens DEF TokenResponse, HandlerStep
<1>7. ASSUME NEW r \in Requests, RequestMediation(r) PROVE TokenFrame
  BY <1>3, <1>7
     DEF RequestMediation, BeginExchange, RefuseStatic, ForwardExchange,
         EndRefused, BeginRequest, Forward, SubstituteValue, RefuseRequest,
         EndRequest, memory, handlers
<1>8. ASSUME NEW r \in Requests, ResponseMediation(r) PROVE TokenFrame
  BY <1>3, <1>8
     DEF ResponseMediation, Respond, TakeRecord, CaptureRecord, WriteRecord,
         EndExchange, EndRequest, memory, handlers, vars
<1>9. CASE UNCHANGED exchange
  BY <1>3, <1>9 DEF exchange, vars
<1>10. QED
  BY <1>6, <1>7, <1>8, <1>9 DEF MediationNext

(* A symbol of a token that was not given out.                             *)
IsNew(x, known) == x[1] \in {"token", "virtual"} /\ x[3] \notin known

(* A text with placeholders of known grants only shows none of those that  *)
(* become live later.                                                      *)
LEMMA CoveredStays ==
    ASSUME NEW text, NEW known, NEW more, NEW before, NEW after,
           Covered(text, known, before), known \subseteq more,
           \A x \in after : x \in before \/ IsNew(x, known)
    PROVE  Covered(text, more, after)
BY DEF Covered, IsNew

(* What held such placeholders only still does when more are known.        *)
LEMMA SeenStays ==
    ASSUME NEW text, NEW known, NEW more, known \subseteq more,
           SeenIn(text, known)
    PROVE  SeenIn(text, more)
BY DEF SeenIn

(* The live symbols, and those hidden and exposed, after a step: those     *)
(* before it, or new ones.                                                 *)
LEMMA SymbolsStay ==
    ASSUME TokenFrame, NEW client, NEW host
    PROVE  /\ \A x \in Alive' : x \in Alive \/ IsNew(x, KnownGrants)
           /\ \A x \in Hidden(client, host)' :
                 x \in Hidden(client, host) \/ IsNew(x, KnownGrants)
           /\ \A x \in Exposed(client, host)' :
                 x \in Exposed(client, host) \/ IsNew(x, KnownGrants)
<1>1. ASSUME NEW ref \in LiveRefs'
      PROVE  \/ /\ ref \in LiveRefs /\ TokenOf(ref)' = TokenOf(ref)
                /\ PlaceholderOf(ref)' = PlaceholderOf(ref)
             \/ /\ IsNew(Token(ref.kind, TokenOf(ref)'), KnownGrants)
                /\ IsNew(Virtual(ref.kind, PlaceholderOf(ref)'), KnownGrants)
  BY TagOf DEF TokenFrame, Persists, IsNew
<1>2. \A ref : Scrubs(ref, client, host)' <=> Scrubs(ref, client, host)
  BY DEF Scrubs, HostAllowed
<1>3. \A x \in Alive' : x \in Alive \/ IsNew(x, KnownGrants)
  <2> SUFFICES ASSUME NEW x \in Alive' PROVE x \in Alive \/ IsNew(x, KnownGrants)
    OBVIOUS
  <2>1. PICK ref \in LiveRefs' : x = Token(ref.kind, TokenOf(ref)')
                                 \/ x = Virtual(ref.kind, PlaceholderOf(ref)')
    BY DEF Alive
  <2>2. QED
    BY <1>1, <2>1 DEF Alive
<1>4. \A x \in Hidden(client, host)' :
          x \in Hidden(client, host) \/ IsNew(x, KnownGrants)
  <2> SUFFICES ASSUME NEW x \in Hidden(client, host)'
               PROVE  x \in Hidden(client, host) \/ IsNew(x, KnownGrants)
    OBVIOUS
  <2>1. PICK ref \in LiveRefs' : /\ x = Token(ref.kind, TokenOf(ref)')
                                 /\ Scrubs(ref, client, host)
    BY <1>2 DEF Hidden
  <2>2. QED
    BY <1>1, <2>1 DEF Hidden
<1>5. \A x \in Exposed(client, host)' :
          x \in Exposed(client, host) \/ IsNew(x, KnownGrants)
  <2> SUFFICES ASSUME NEW x \in Exposed(client, host)'
               PROVE  x \in Exposed(client, host) \/ IsNew(x, KnownGrants)
    OBVIOUS
  <2>1. PICK ref \in LiveRefs' : /\ x = Token(ref.kind, TokenOf(ref)')
                                 /\ ~Scrubs(ref, client, host)
    BY <1>2 DEF Exposed
  <2>2. QED
    BY <1>1, <2>1 DEF Exposed
<1>6. QED
  BY <1>3, <1>4, <1>5

-----------------------------------------------------------------------------
(* What is known of one exchange, and what the steps of reading a response *)
(* make of it.                                                             *)

Answering == {"open", "scrubbed", "captured"}
Exchange ==
    [phase : {"none", "request"} \cup Answering,
     static : {"text", "value", "refuse"}, carried : SUBSET Symbols,
     client : Clients \cup {""}, host : Hosts \cup {""},
     kind : {"", "sse", "ndjson", "buffered"},
     ending : {"", "eof", "reset", "stall"},
     rest : Seq(Symbols), read : Seq(Symbols), record : Seq(Symbols),
     clean : Seq(Symbols), sent : Seq(Symbols), shown : Seq(Seq(Symbols)),
     total : Nat, truncated : BOOLEAN,
     passed : SUBSET Symbols, copied : SUBSET Symbols]

(* Nothing of a response is there yet.                                     *)
Blank(e) ==
    /\ e.rest = <<>> /\ e.read = <<>> /\ e.record = <<>> /\ e.clean = <<>>
    /\ e.sent = <<>> /\ e.shown = <<>> /\ e.total = 0 /\ e.truncated = FALSE
    /\ e.passed = {} /\ e.copied = {}

(* A carried token is a known one, and no other key can come to own it.    *)
Carried(e, known, exposed) ==
    \A x \in e.carried :
        \/ \E s \in Scope(e.client, e.host) : x = Placeholder(s)
        \/ Own(x, known, exposed)

(* What was sent, or is about to be, hides what was carried, and nothing   *)
(* went through that is hidden; the placeholders in hand are known ones.   *)
Veiling(e, known, hidden) ==
    /\ \A x \in e.passed : Own(x, known, hidden)
    /\ Avoids(e.sent, e.carried \cap hidden)
    /\ Avoids(e.clean, e.carried \cap hidden)
    /\ SeenIn(e.clean, known)

(* Up to the names of tokens, what was read was scrubbed as one text.      *)
Exact(e) ==
    /\ Named(e.sent \o e.clean) =
          Named(ScrubSecrets(e.read \o e.record, e.client, e.host))
    /\ e.rest = <<>> \/ EndsLine(e.read \o e.record)
    /\ e.phase = "open" => e.record = <<>> /\ e.clean = <<>>

(* The capture shows nothing, and counts its bytes.                        *)
Captured(e, known, alive) ==
    /\ \A x \in e.copied : Own(x, known, alive)
    /\ \A i \in 1..Len(e.shown) :
          Covered(e.shown[i], known, alive) /\ Bare(e.shown[i])
Counted(e) ==
    /\ Size(Flat(e.shown)) <= CaptureLimit
    /\ Size(Flat(e.shown)) <= e.total
    /\ e.truncated <=> Size(Flat(e.shown)) < e.total

Answered(e, known, alive, hidden, exposed) ==
    /\ Carried(e, known, exposed) /\ Veiling(e, known, hidden)
    /\ Captured(e, known, alive)
    /\ Exact(e) /\ Counted(e)

(* A step of the broker keeps all this.                                    *)
LEMMA AnsweredStays ==
    ASSUME NEW e, NEW known, NEW alive, NEW hidden, NEW exposed,
           NEW more, NEW alive2, NEW hidden2, NEW exposed2,
           Answered(e, known, alive, hidden, exposed), known \subseteq more,
           \A x \in alive2 : x \in alive \/ IsNew(x, known),
           \A x \in hidden2 : x \in hidden \/ IsNew(x, known),
           \A x \in exposed2 : x \in exposed \/ IsNew(x, known)
    PROVE  Answered(e, more, alive2, hidden2, exposed2)
<1>1. Carried(e, more, exposed2)
  BY DEF Answered, Carried, Own, IsNew
<1>2. Veiling(e, more, hidden2)
  <2>1. \A x \in e.carried : ~IsNew(x, known)
    BY TagOf DEF Answered, Carried, Own, IsNew
  <2>2. e.carried \cap hidden2 \subseteq e.carried \cap hidden
    BY <2>1
  <2>3. /\ Avoids(e.sent, e.carried \cap hidden2)
        /\ Avoids(e.clean, e.carried \cap hidden2)
    BY <2>2 DEF Answered, Veiling, Avoids
  <2>4. \A x \in e.passed : Own(x, more, hidden2)
    BY DEF Answered, Veiling, Own, IsNew
  <2>5. QED
    BY <2>3, <2>4, SeenStays DEF Answered, Veiling
<1>3. Captured(e, more, alive2)
  <2>1. \A x \in e.copied : Own(x, more, alive2)
    BY DEF Answered, Captured, Own, IsNew
  <2>2. QED
    BY <2>1, CoveredStays DEF Answered, Captured
<1>4. QED
  BY <1>1, <1>2, <1>3 DEF Answered

(* What is left of a text after a prefix.                                  *)
LEMMA Behind ==
    ASSUME NEW T, NEW text \in Seq(T), NEW n \in 0..Len(text)
    PROVE  /\ SubSeq(text, n + 1, Len(text)) \in Seq(T)
           /\ n = Len(text) => SubSeq(text, n + 1, Len(text)) = <<>>
           /\ \A i \in 1..Len(SubSeq(text, n + 1, Len(text))) :
                 \E k \in 1..Len(text) :
                    SubSeq(text, n + 1, Len(text))[i] = text[k]
<1> DEFINE k == n + 1
           N == Len(text)
           rest == SubSeq(text, k, N)
<1>1. N \in Nat /\ n \in Nat /\ n <= N
  BY LenProperties
<1>2. k \in Int /\ k \in Nat /\ N \in Int /\ k >= 1
  BY <1>1
<1>3. \A j \in k..N : text[j] \in T
  BY <1>1, ElementOfSeq
<1> HIDE DEF k
<1>4. /\ rest \in Seq(T)
      /\ Len(rest) = IF k <= N THEN N - k + 1 ELSE 0
      /\ \A j \in 1..(N - k + 1) : rest[j] = text[k + j - 1]
  BY <1>2, <1>3, SubSeqProperties
<1> HIDE DEF rest
<1>5. ASSUME n = N PROVE rest = <<>>
  <2>1. Len(rest) = 0
    BY <1>1, <1>4, <1>5 DEF k
  <2>2. QED
    BY <1>4, <2>1, EmptySeq
<1>6. ASSUME NEW i \in 1..Len(rest)
      PROVE  \E m \in 1..N : rest[i] = text[m]
  <2>1. i \in 1..(N - k + 1) /\ k + i - 1 \in 1..N
    BY <1>1, <1>2, <1>4
  <2>2. QED
    BY <1>4, <2>1
<1>7. QED
  BY <1>4, <1>5, <1>6 DEF k, rest

(* Texts put together.                                                     *)
LEMMA ConcatSeen ==
    ASSUME NEW a \in Seq(Symbols), NEW b \in Seq(Symbols)
    PROVE  /\ \A known : SeenIn(a, known) /\ SeenIn(b, known)
                         => SeenIn(a \o b, known)
           /\ \A symbols : Avoids(a, symbols) /\ Avoids(b, symbols)
                           => Avoids(a \o b, symbols)
<1>1. Len(a) \in Nat /\ Len(b) \in Nat /\ Len(a \o b) = Len(a) + Len(b)
  BY LenProperties, ConcatProperties
<1>2. ASSUME NEW i \in 1..Len(a \o b)
      PROVE  \/ \E k \in 1..Len(a) : (a \o b)[i] = a[k]
             \/ \E k \in 1..Len(b) : (a \o b)[i] = b[k]
  <2>1. CASE i <= Len(a)
    <3>1. i \in 1..Len(a)
      BY <1>1, <2>1
    <3>2. (a \o b)[i] = a[i]
      BY <3>1, ConcatProperties
    <3>3. QED
      BY <3>1, <3>2
  <2>2. CASE i > Len(a)
    <3>1. i \in (Len(a) + 1)..(Len(a) + Len(b)) /\ i - Len(a) \in 1..Len(b)
      BY <1>1, <2>2
    <3>2. (a \o b)[i] = b[i - Len(a)]
      BY <3>1, ConcatProperties
    <3>3. QED
      BY <3>1, <3>2
  <2>3. QED
    BY <1>1, <2>1, <2>2
<1>3. QED
  BY <1>2 DEF SeenIn, Avoids

(* What stays of an exchange while its response is read.                   *)
Kept(e, f) ==
    f.client = e.client /\ f.host = e.host /\ f.carried = e.carried

(* Reading and scrubbing one record: what is in hand hides the live tokens *)
(* and continues the scrubbed text.                                        *)
LEMMA TakeAnswered ==
    ASSUME Configured, TypeOK, PlaceholderFaithful, LiveKnown,
           NEW e \in Exchange, e.phase = "open", Outcome(e).is = "record",
           NEW alive, NEW exposed,
           Answered(e, KnownGrants, alive, Hidden(e.client, e.host), exposed),
           NEW f, Kept(e, f), f.phase # "open",
           f.record = SubSeq(e.rest, 1, Outcome(e).length),
           f.rest = SubSeq(e.rest, Outcome(e).length + 1, Len(e.rest)),
           f.clean = Scrub(f.record, e.client, e.host), Seen(f.record),
           f.passed = e.passed \cup KnownTokens(f.clean),
           f.read = e.read, f.sent = e.sent, f.shown = e.shown,
           f.total = e.total, f.truncated = e.truncated, f.copied = e.copied
    PROVE  /\ f.record \in Seq(Symbols) /\ f.rest \in Seq(Symbols)
           /\ f.clean \in Seq(Symbols) /\ f.passed \in SUBSET Symbols
           /\ Answered(f, KnownGrants, alive, Hidden(e.client, e.host), exposed)
<1> DEFINE n == Outcome(e).length
           hidden == Hidden(e.client, e.host)
           S(text) == ScrubSecrets(text, e.client, e.host)
<1>1. /\ e.rest \in Seq(Symbols) /\ e.read \in Seq(Symbols)
      /\ e.sent \in Seq(Symbols) /\ e.ending # "record"
  BY DEF Exchange
<1>2. n \in 1..Len(e.rest) /\ (n = Len(e.rest) \/ e.rest[n] = Newline)
  BY <1>1, RecordIs
<1>3. /\ n \in 0..Len(e.rest) /\ Len(e.rest) \in Nat /\ n > 0 /\ n \in 1..n
      /\ e.rest # <<>>
  <2>1. Len(e.rest) \in Nat
    BY <1>1, LenProperties
  <2>2. n \in 0..Len(e.rest) /\ n > 0 /\ n \in 1..n /\ Len(e.rest) # 0
    BY <1>2, <2>1
  <2>3. QED
    BY <1>1, <2>1, <2>2, EmptySeq
<1> HIDE DEF n
<1>4. /\ f.record \in Seq(Symbols) /\ Len(f.record) = n
      /\ \A i \in 1..n : f.record[i] = e.rest[i]
  BY <1>1, <1>3, Prefix DEF n
<1>5. /\ f.rest \in Seq(Symbols)
      /\ n = Len(e.rest) => f.rest = <<>>
      /\ \A i \in 1..Len(f.rest) : \E k \in 1..Len(e.rest) : f.rest[i] = e.rest[k]
  <2> DEFINE rest == SubSeq(e.rest, n + 1, Len(e.rest))
  <2>1. /\ rest \in Seq(Symbols)
        /\ n = Len(e.rest) => rest = <<>>
        /\ \A i \in 1..Len(rest) : \E k \in 1..Len(e.rest) : rest[i] = e.rest[k]
    BY <1>1, <1>3, Behind
  <2>2. f.rest = rest
    BY Zenon DEF n
  <2> HIDE DEF rest
  <2>3. QED
    BY <2>1, <2>2
<1>6. /\ Avoids(e.sent, e.carried \cap hidden)
      /\ \A x \in e.passed : Own(x, KnownGrants, hidden)
  BY DEF Answered, Veiling
<1>7. SeenIn(f.record, KnownGrants)
  BY <1>4, SeenBody
<1>8. /\ f.clean \in Seq(Symbols) /\ SeenIn(f.clean, KnownGrants)
      /\ Avoids(f.clean, hidden) /\ Named(f.clean) = Named(S(f.record))
  <2> DEFINE clean == Scrub(f.record, e.client, e.host)
  <2>1. /\ clean \in Seq(Symbols) /\ SeenIn(clean, KnownGrants)
        /\ Avoids(clean, Hidden(e.client, e.host))
        /\ Named(clean) = Named(S(f.record))
    BY <1>4, <1>7, ScrubClears, Zenon
  <2>2. f.clean = clean
    OBVIOUS
  <2> HIDE DEF clean, S
  <2>3. QED
    BY <2>1, <2>2
<1>9. /\ f.passed \in SUBSET Symbols
      /\ \A x \in f.passed : Own(x, KnownGrants, hidden)
  <2>1. /\ KnownTokens(f.clean) \in SUBSET Symbols
        /\ \A x \in KnownTokens(f.clean) : Own(x, KnownGrants, hidden)
    BY <1>8, KnownTokensOwn
  <2>2. e.passed \in SUBSET Symbols /\ f.passed = e.passed \cup KnownTokens(f.clean)
    BY DEF Exchange
  <2> HIDE DEF hidden
  <2>3. QED
    BY <1>6, <2>1, <2>2
<1>10. Carried(f, KnownGrants, exposed)
  BY DEF Answered, Carried, Kept
<1>11. Veiling(f, KnownGrants, hidden)
  <2>1. f.carried = e.carried /\ f.sent = e.sent
    BY DEF Kept
  <2>2. Avoids(f.clean, f.carried \cap hidden)
    BY <1>8 DEF Avoids
  <2>3. Avoids(f.sent, f.carried \cap hidden)
    BY <1>6, <2>1
  <2>4. QED
    BY <1>8, <1>9, <2>2, <2>3 DEF Veiling
<1>12. Captured(f, KnownGrants, alive) /\ Counted(f)
  BY DEF Answered, Captured, Counted
<1>13. Exact(f)
  <2>1. /\ e.record = <<>> /\ e.clean = <<>>
        /\ Named(e.sent \o e.clean) = Named(S(e.read \o e.record))
        /\ EndsLine(e.read \o e.record)
    BY <1>3 DEF Answered, Exact
  <2>2. e.sent \o <<>> = e.sent /\ e.read \o <<>> = e.read
    BY <1>1
  <2>3. Named(e.sent) = Named(S(e.read)) /\ EndsLine(e.read)
    BY <2>1, <2>2, Zenon
  <2>4. S(e.read) \in Seq(Symbols) /\ S(f.record) \in Seq(Symbols)
    BY <1>1, <1>4, ScrubSecretsType
  <2>5. Named(e.sent \o f.clean) = Named(S(e.read) \o S(f.record))
    <3> HIDE DEF S
    <3>1. QED
      BY <1>1, <1>8, <2>3, <2>4, NamedConcat
  <2>6. S(e.read \o f.record) = S(e.read) \o S(f.record)
    <3> DEFINE a == e.read
               b == f.record
               client == e.client
               host == e.host
    <3>1. a \in Seq(Symbols) /\ b \in Seq(Symbols) /\ EndsLine(a)
      BY <1>1, <1>4, <2>3
    <3> HIDE DEF a, b, client, host
    <3>2. ScrubSecrets(a \o b, client, host) =
              ScrubSecrets(a, client, host) \o ScrubSecrets(b, client, host)
      BY <3>1, ScrubConcat
    <3>3. QED
      BY <3>2, Zenon DEF a, b, client, host
  <2>7. f.rest = <<>> \/ EndsLine(e.read \o f.record)
    <3>1. CASE n = Len(e.rest)
      BY <1>5, <3>1
    <3>2. CASE e.rest[n] = Newline
      <4>1. Len(f.record) > 0 /\ f.record[Len(f.record)] = Newline
        BY <1>3, <1>4, <3>2
      <4>2. QED
        BY <1>1, <1>4, <4>1, EndsLineBehind
    <3>3. QED
      BY <1>2, <3>1, <3>2 DEF n
  <2>8. Named(f.sent \o f.clean) = Named(S(f.read \o f.record))
    <3> HIDE DEF S
    <3>1. QED
      BY <2>5, <2>6, Zenon
  <2>9. QED
    BY <2>7, <2>8 DEF Exact, Kept
<1>14. QED
  BY <1>4, <1>5, <1>8, <1>9, <1>10, <1>11, <1>12, <1>13 DEF Answered

(* Sanitising and capturing it: the capture shows nothing it must not and  *)
(* counts its bytes.                                                       *)
LEMMA CaptureAnswered ==
    ASSUME Configured, TypeOK, PlaceholderFaithful,
           NEW e \in Exchange, NEW hidden, NEW exposed,
           Answered(e, KnownGrants, Alive, hidden, exposed),
           NEW f, Kept(e, f), f.phase # "open", NEW text,
           text = Sanitize(e.clean, e.client, e.host),
           f.shown = Append(e.shown, Fitting(text, Room(e))),
           f.total = e.total + Size(text),
           f.truncated = (e.truncated \/ Size(text) > Room(e)),
           f.copied = e.copied \cup KnownTokens(Fitting(text, Room(e))),
           f.rest = e.rest, f.read = e.read, f.record = e.record,
           f.clean = e.clean, f.sent = e.sent, f.passed = e.passed
    PROVE  /\ f.shown \in Seq(Seq(Symbols)) /\ f.total \in Nat
           /\ f.truncated \in BOOLEAN /\ f.copied \in SUBSET Symbols
           /\ Answered(f, KnownGrants, Alive, hidden, exposed)
<1> DEFINE room  == Room(e)
           piece == Fitting(text, room)
           size  == Size(Flat(e.shown))
<1>1. /\ e.clean \in Seq(Symbols) /\ e.shown \in Seq(Seq(Symbols))
      /\ e.total \in Nat /\ e.truncated \in BOOLEAN
  BY DEF Exchange
<1>2. SeenIn(e.clean, KnownGrants)
  BY DEF Answered, Veiling
<1>3. /\ text \in Seq(Symbols) /\ SeenIn(text, KnownGrants)
      /\ Avoids(text, Alive) /\ Bare(text)
  BY <1>1, <1>2, SanitizeClears
<1>4. /\ size \in Nat /\ size <= CaptureLimit /\ size <= e.total
      /\ e.truncated <=> size < e.total
  <2>1. Flat(e.shown) \in Seq(Symbols)
    BY <1>1, FlatType
  <2>2. size \in Nat
    BY <2>1, WideFinite
  <2>3. Counted(e)
    BY DEF Answered
  <2>4. QED
    BY <2>2, <2>3 DEF Counted
<1>5. room = CaptureLimit - size /\ room \in Nat /\ CaptureLimit \in Nat
  BY <1>4 DEF Room, Configured, LimitAssumption
<1> HIDE DEF size, room
<1>6. PICK n \in 0..Len(text) :
          /\ piece = SubSeq(text, 1, n)
          /\ Size(piece) <= room
          /\ Size(text) <= room => piece = text
  BY <1>3, <1>5, FittingIs
<1>7. /\ piece \in Seq(Symbols) /\ SeenIn(piece, KnownGrants)
      /\ Avoids(piece, Alive) /\ Bare(piece)
  <2>1. SubSeq(text, 1, n) \in Seq(Symbols)
    BY <1>3, Prefix
  <2>2. /\ SeenIn(SubSeq(text, 1, n), KnownGrants)
        /\ Avoids(SubSeq(text, 1, n), Alive) /\ Bare(SubSeq(text, 1, n))
    BY <1>3, PrefixShows
  <2> HIDE DEF piece
  <2>3. QED
    BY <1>6, <2>1, <2>2, Zenon
<1>8. f.shown = Append(e.shown, piece) /\ f.copied = e.copied \cup KnownTokens(piece)
  BY Zenon DEF room
<1> HIDE DEF piece
<1>9. f.shown \in Seq(Seq(Symbols))
  BY <1>1, <1>7, <1>8
<1>10. Size(piece) \in Nat /\ Size(text) \in Nat
  BY <1>3, <1>7, WideFinite
<1>11. Captured(f, KnownGrants, Alive)
  <2>1. /\ Len(e.shown) \in Nat /\ Len(f.shown) = Len(e.shown) + 1
        /\ f.shown[Len(e.shown) + 1] = piece
        /\ \A i \in 1..Len(e.shown) : f.shown[i] = e.shown[i]
    BY <1>1, <1>7, <1>8, AppendProperties, LenProperties
  <2>2. ASSUME NEW i \in 1..Len(f.shown)
        PROVE  Covered(f.shown[i], KnownGrants, Alive) /\ Bare(f.shown[i])
    <3>1. CASE i = Len(e.shown) + 1
      BY <1>7, <2>1, <3>1 DEF Covered, SeenIn, Avoids
    <3>2. CASE i # Len(e.shown) + 1
      <4>1. i \in 1..Len(e.shown)
        BY <2>1, <3>2
      <4>2. QED
        BY <2>1, <4>1 DEF Answered, Captured
    <3>3. QED
      BY <3>1, <3>2
  <2>3. \A x \in f.copied : Own(x, KnownGrants, Alive)
    BY <1>7, <1>8, KnownTokensOwn DEF Answered, Captured
  <2>4. QED
    BY <2>2, <2>3 DEF Captured
<1>12. Counted(f)
  <2>1. Flat(f.shown) = Flat(e.shown) \o piece
    <3>1. f.shown = Append(e.shown, piece)
      BY <1>8
    <3>2. \A old, p, new : /\ old \in Seq(Seq(Symbols)) /\ p \in Seq(Symbols)
                          /\ new = Append(old, p)
                          => Flat(new) = Flat(old) \o p
      BY FlatGrows, Zenon
    <3>3. e.shown \in Seq(Seq(Symbols)) /\ piece \in Seq(Symbols)
      BY <1>1, <1>7
    <3>4. QED
      BY <3>1, <3>2, <3>3
  <2>2. Size(Flat(e.shown) \o piece) = size + Size(piece)
    BY <1>1, <1>7, FlatType, SizeConcat DEF size
  <2>3. Size(Flat(f.shown)) = size + Size(piece)
    BY <2>1, <2>2, Zenon
  <2>4. f.total = e.total + Size(text)
    OBVIOUS
  <2>5. f.truncated <=> e.truncated \/ Size(text) > room
    BY <1>1 DEF room
  <2>6. CASE Size(text) <= room
    <3>1. Size(piece) = Size(text)
      BY <1>6, <2>6
    <3>2. QED
      BY <1>1, <1>4, <1>5, <1>6, <1>10, <2>3, <2>4, <2>5, <2>6, <3>1 DEF Counted
  <2>7. CASE Size(text) > room
    BY <1>1, <1>4, <1>5, <1>6, <1>10, <2>3, <2>4, <2>5, <2>7 DEF Counted
  <2>8. QED
    BY <1>5, <1>10, <2>6, <2>7
<1>13. Carried(f, KnownGrants, exposed) /\ Veiling(f, KnownGrants, hidden)
  BY DEF Answered, Carried, Kept, Veiling
<1>14. Exact(f)
  BY DEF Answered, Exact, Kept
<1>15. f.total \in Nat /\ f.truncated \in BOOLEAN /\ f.copied \in SUBSET Symbols
  <2>1. KnownTokens(piece) \in SUBSET Symbols /\ e.copied \in SUBSET Symbols
    BY <1>7, KnownTokensOwn DEF Exchange
  <2>2. QED
    BY <1>1, <1>8, <1>10, <2>1
<1>16. QED
  BY <1>9, <1>11, <1>12, <1>13, <1>14, <1>15 DEF Answered

(* Writing it: what was in hand has been sent.                             *)
LEMMA WriteAnswered ==
    ASSUME NEW e \in Exchange, NEW known, NEW alive, NEW hidden, NEW exposed,
           Answered(e, known, alive, hidden, exposed),
           NEW f, Kept(e, f),
           f.read = e.read \o e.record, f.sent = e.sent \o e.clean,
           f.record = <<>>, f.clean = <<>>, f.rest = e.rest,
           f.shown = e.shown, f.total = e.total, f.truncated = e.truncated,
           f.passed = e.passed, f.copied = e.copied
    PROVE  /\ f.read \in Seq(Symbols) /\ f.sent \in Seq(Symbols)
           /\ Answered(f, known, alive, hidden, exposed)
<1>1. /\ e.read \in Seq(Symbols) /\ e.record \in Seq(Symbols)
      /\ e.sent \in Seq(Symbols) /\ e.clean \in Seq(Symbols)
  BY DEF Exchange
<1>2. /\ e.read \o e.record \in Seq(Symbols)
      /\ e.sent \o e.clean \in Seq(Symbols)
  BY <1>1, ConcatProperties
<1>3. f.read \in Seq(Symbols) /\ f.sent \in Seq(Symbols)
  BY <1>2, Zenon
<1>4. Veiling(f, known, hidden)
  <2>1. Avoids(e.sent \o e.clean, e.carried \cap hidden)
    BY <1>1, ConcatSeen DEF Answered, Veiling
  <2>2. Avoids(f.sent, f.carried \cap hidden)
    BY <2>1, Zenon DEF Kept
  <2>3. QED
    BY <2>2, EmptyText DEF Answered, Veiling
<1>5. Exact(f)
  <2>1. f.sent \o <<>> = f.sent /\ f.read \o <<>> = f.read
    BY <1>3
  <2>2. /\ Named(e.sent \o e.clean) =
              Named(ScrubSecrets(e.read \o e.record, e.client, e.host))
        /\ e.rest = <<>> \/ EndsLine(e.read \o e.record)
    BY DEF Answered, Exact
  <2>3. /\ Named(f.sent) = Named(ScrubSecrets(f.read, f.client, f.host))
        /\ f.rest = <<>> \/ EndsLine(f.read)
    BY <2>2, Zenon DEF Kept
  <2>4. /\ Named(f.sent \o f.clean) =
              Named(ScrubSecrets(f.read \o f.record, f.client, f.host))
        /\ f.rest = <<>> \/ EndsLine(f.read \o f.record)
    BY <2>1, <2>3, Zenon
  <2>5. QED
    BY <2>4, Zenon DEF Exact
<1>6. Carried(f, known, exposed) /\ Captured(f, known, alive) /\ Counted(f)
  BY DEF Answered, Carried, Kept, Captured, Counted
<1>7. QED
  BY <1>3, <1>4, <1>5, <1>6 DEF Answered

(* The upstream's answer to a forwarded request.                           *)
LEMMA RespondAnswered ==
    ASSUME Configured, NEW e \in Exchange, Blank(e),
           NEW known, NEW alive, NEW hidden, NEW exposed,
           NEW body \in Seq(Symbols), NEW f, f.rest = body,
           f.passed = e.passed, f.copied = e.copied,
           f.read = e.read, f.record = e.record, f.clean = e.clean,
           f.sent = e.sent, f.shown = e.shown, f.total = e.total,
           f.truncated = e.truncated, Carried(f, known, exposed)
    PROVE  Answered(f, known, alive, hidden, exposed)
<1>1. /\ f.read = <<>> /\ f.record = <<>> /\ f.clean = <<>> /\ f.sent = <<>>
      /\ f.shown = <<>> /\ f.total = 0 /\ f.truncated = FALSE
      /\ f.passed = {} /\ f.copied = {}
  BY DEF Blank
<1>2. Veiling(f, known, hidden)
  BY <1>1, EmptyText DEF Veiling
<1>3. Captured(f, known, alive)
  BY <1>1 DEF Captured
<1>4. Counted(f)
  <2>1. Flat(f.shown) = <<>> /\ Size(<<>>) = 0 /\ CaptureLimit \in Nat
    BY <1>1, FlatEmpty, SizeEmpty DEF Configured, LimitAssumption
  <2>2. Size(Flat(f.shown)) = 0
    BY <2>1, Zenon
  <2>3. QED
    BY <1>1, <2>1, <2>2 DEF Counted
<1>5. Exact(f)
  <2>1. f.sent \o f.clean = <<>> /\ f.read \o f.record = <<>>
    BY <1>1
  <2>2. ScrubSecrets(f.read \o f.record, f.client, f.host) = <<>>
    BY <2>1, ScrubEmpty, Zenon
  <2>3. EndsLine(<<>>)
    BY DEF EndsLine
  <2>4. QED
    BY <1>1, <2>1, <2>2, <2>3, Zenon DEF Exact
<1>6. QED
  BY <1>2, <1>3, <1>4, <1>5 DEF Answered

-----------------------------------------------------------------------------
(* The inductive invariant of the exchanges, step by step.                 *)

(* A request and the exchange it belongs to.                               *)
Begun(r) ==
    /\ req[r].phase # "idle" => ex[r].phase = "request"
    /\ ex[r].phase = "request" =>
          ex[r].carried \subseteq
              {Placeholder(s) : s \in Scope(req[r].client, req[r].host)}
    /\ \A u \in req[r].out :
          Own(Token(u.kind, u.token), KnownGrants,
              Exposed(req[r].client, req[r].host))

OneInv(r) ==
    /\ Begun(r)
    /\ ex[r].phase \notin Answering => Blank(ex[r])
    /\ ex[r].phase \in Answering =>
          Answered(ex[r], KnownGrants, Alive,
                   Hidden(ex[r].client, ex[r].host),
                   Exposed(ex[r].client, ex[r].host))

ExchangeInv ==
    /\ ex \in [Requests -> Exchange]
    /\ \A r \in Requests : OneInv(r)

(* What a request owns it still owns when new tokens become live.          *)
LEMMA OwnStays ==
    ASSUME NEW x, NEW known, NEW exposed, NEW more, NEW exposed2,
           Own(x, known, exposed), known \subseteq more,
           \A y \in exposed2 : y \in exposed \/ IsNew(y, known)
    PROVE  Own(x, more, exposed2)
BY DEF Own, IsNew

(* A request that goes on keeps what it carries.                           *)
LEMMA BegunStays ==
    ASSUME TokenFrame, NEW r \in Requests, Begun(r),
           req'[r].client = req[r].client, req'[r].host = req[r].host,
           req'[r].phase # "idle" => ex'[r].phase = "request",
           ex'[r].phase = "request" =>
               ex[r].phase = "request" /\ ex'[r].carried = ex[r].carried,
           \A u \in req'[r].out :
               \/ u \in req[r].out
               \/ Own(Token(u.kind, u.token), KnownGrants,
                      Exposed(req[r].client, req[r].host))
    PROVE  Begun(r)'
<1> DEFINE client == req[r].client
           host   == req[r].host
<1>1. ASSUME NEW u \in req'[r].out
      PROVE  Own(Token(u.kind, u.token), KnownGrants,
                 Exposed(req[r].client, req[r].host))
  BY <1>1 DEF Begun
<1>2. KnownGrants \subseteq KnownGrants'
  BY DEF TokenFrame
<1>3. \A x \in Exposed(req[r].client, req[r].host)' :
          x \in Exposed(req[r].client, req[r].host) \/ IsNew(x, KnownGrants)
  <2>1. PICK c, h : c = req[r].client /\ h = req[r].host
    OBVIOUS
  <2>2. \A x \in Exposed(c, h)' : x \in Exposed(c, h) \/ IsNew(x, KnownGrants)
    BY SymbolsStay
  <2>3. Exposed(req[r].client, req[r].host)' = Exposed(c, h)'
        /\ Exposed(req[r].client, req[r].host) = Exposed(c, h)
    BY <2>1 DEF Exposed, Scrubs, HostAllowed
  <2>4. QED
    BY <2>2, <2>3
<1>4. ASSUME NEW u \in req'[r].out
      PROVE  Own(Token(u.kind, u.token), KnownGrants',
                 Exposed(req[r].client, req[r].host)')
  BY <1>1, <1>2, <1>3, OwnStays
<1>5. QED
  BY <1>4 DEF Begun

(* The answer to a request, seen after the step.                           *)
LEMMA AnsweredNext ==
    ASSUME TokenFrame, NEW r \in Requests, Begun(r)',
           NEW c, NEW h, ex'[r].client = c, ex'[r].host = h,
           ex'[r].phase \in Answering =>
               Answered(ex'[r], KnownGrants, Alive, Hidden(c, h), Exposed(c, h)),
           ex'[r].phase \notin Answering => Blank(ex'[r])
    PROVE  OneInv(r)'
<1>1. CASE ex'[r].phase \in Answering
  <2>1. KnownGrants \subseteq KnownGrants'
    BY DEF TokenFrame
  <2>2. /\ \A x \in Alive' : x \in Alive \/ IsNew(x, KnownGrants)
        /\ \A x \in Hidden(c, h)' : x \in Hidden(c, h) \/ IsNew(x, KnownGrants)
        /\ \A x \in Exposed(c, h)' : x \in Exposed(c, h) \/ IsNew(x, KnownGrants)
    BY SymbolsStay
  <2>3. Answered(ex'[r], KnownGrants', Alive', Hidden(c, h)', Exposed(c, h)')
    BY <1>1, <2>1, <2>2, AnsweredStays
  <2>4. /\ Hidden(ex[r].client, ex[r].host)' = Hidden(c, h)'
        /\ Exposed(ex[r].client, ex[r].host)' = Exposed(c, h)'
    BY DEF Exposed, Hidden, Scrubs, HostAllowed
  <2>5. QED
    BY <1>1, <2>3, <2>4 DEF OneInv
<1>2. CASE ex'[r].phase \notin Answering
  BY <1>2 DEF OneInv
<1>3. QED
  BY <1>1, <1>2

(* A step that leaves an exchange alone.                                   *)
LEMMA OneStays ==
    ASSUME TokenFrame, NEW r \in Requests, OneInv(r),
           ex'[r] = ex[r], Begun(r)'
    PROVE  OneInv(r)'
<1>1. PICK c, h : c = ex[r].client /\ h = ex[r].host
  OBVIOUS
<1>2. ex[r].phase \in Answering =>
          Answered(ex[r], KnownGrants, Alive, Hidden(c, h), Exposed(c, h))
  BY <1>1 DEF OneInv
<1>3. ex[r].phase \notin Answering => Blank(ex[r])
  BY DEF OneInv
<1>4. QED
  BY <1>1, <1>2, <1>3, AnsweredNext

(* A step of the broker, or of another request, leaves what is known of an *)
(* exchange.                                                               *)
LEMMA OthersStay ==
    ASSUME TokenFrame, NEW r \in Requests, OneInv(r),
           ex'[r] = ex[r], req'[r] = req[r]
    PROVE  OneInv(r)'
<1>1. Begun(r)
  BY DEF OneInv
<1>2. Begun(r)'
  BY <1>1, BegunStays DEF Begun
<1>3. QED
  BY <1>2, OneStays

(* The token a placeholder is exchanged for is the request's own.          *)
LEMMA SubstitutedIsOwn ==
    ASSUME BrokerInv, NEW r \in Requests, NEW p \in Placeholders,
           virtual[p] # NoRef, Authorized(req[r], virtual[p])
    PROVE  Own(Token(virtual[p].kind, TokenOf(virtual[p])), KnownGrants,
               Exposed(req[r].client, req[r].host))
<1> DEFINE v == virtual[p]
           g == TokenOf(v)
<1>1. v \in Ref /\ v.key \in Keys /\ v.kind \in Kinds
  BY DEF BrokerInv, TypeOK, Ref
<1>2. PlaceholderFaithful /\ LiveKnown
  BY LiveAreKnown
<1>3. g # 0 /\ ClientOf[v.key] = req[r].client /\ HostAllowed(v, req[r].host)
  BY DEF Authorized
<1>4. v \in LiveRefs
  BY <1>1, <1>2, <1>3 DEF LiveRefs, PlaceholderFaithful, PlaceholderOf, TokenOf
<1>5. g \in KnownGrants
  BY <1>2, <1>4 DEF LiveKnown
<1>6. Scrubs(v, req[r].client, req[r].host)
  BY <1>3 DEF Scrubs
<1> HIDE DEF v, g
<1>7. ASSUME NEW ref \in LiveRefs, ~Scrubs(ref, req[r].client, req[r].host),
             Token(v.kind, g) = Token(ref.kind, TokenOf(ref))
      PROVE  FALSE
  <2>1. v.kind = ref.kind /\ TokenOf(ref) = g
    BY <1>7 DEF Token
  <2>2. ref \in Ref /\ ref.key \in Keys
    BY <1>7 DEF LiveRefs, Ref
  <2>3. v.key = ref.key
    <3>1. ASSUME v.key # ref.key
          PROVE  Disjoint(records[v.key], records[ref.key])
      BY <1>1, <2>2, <3>1 DEF BrokerInv, GrantInv, Files
    <3>2. QED
      BY <1>3, <2>1, <3>1 DEF Disjoint, TokenOf, g
  <2>4. v = ref
    BY <1>1, <2>1, <2>2, <2>3 DEF Ref
  <2>5. QED
    BY <1>6, <1>7, <2>4
<1>8. Token(v.kind, g) \notin Exposed(req[r].client, req[r].host)
  BY <1>7 DEF Exposed
<1>9. QED
  BY <1>5, <1>8, TagOf DEF Own, v, g

(* What each step of a request goroutine comes to.                         *)
StepKeeps(r) ==
    /\ ex' \in [Requests -> Exchange]
    /\ OneInv(r)'
    /\ \A i \in Requests \ {r} : ex'[i] = ex[i] /\ req'[i] = req[i]

Ready == Configured /\ BrokerInv /\ TokenFrame /\ ExchangeInv

(* No exchange is a blank one.                                             *)
LEMMA NoExchangeType ==
    ASSUME Configured
    PROVE  NoExchange \in Exchange /\ Blank(NoExchange)
<1>1. <<>> \in Seq(Symbols) /\ <<>> \in Seq(Seq(Symbols)) /\ {} \in SUBSET Symbols
  OBVIOUS
<1>2. QED
  BY <1>1 DEF NoExchange, Exchange, Blank

(* An exchange that ends leaves nothing behind.                            *)
LEMMA OverKeeps ==
    ASSUME Ready, NEW r \in Requests, Begun(r)',
           ex' = [ex EXCEPT ![r] = NoExchange],
           \A i \in Requests \ {r} : req'[i] = req[i]
    PROVE  StepKeeps(r)
<1>1. ex \in [Requests -> Exchange]
  BY DEF Ready, ExchangeInv
<1>2. ex'[r] = NoExchange /\ NoExchange \in Exchange /\ Blank(NoExchange)
  BY <1>1, NoExchangeType DEF Ready
<1>3. ex' \in [Requests -> Exchange]
      /\ \A i \in Requests \ {r} : ex'[i] = ex[i]
  BY <1>1, <1>2
<1>4. NoExchange.phase \notin Answering
  BY DEF NoExchange, Answering
<1>5. OneInv(r)'
  BY <1>2, <1>4 DEF OneInv
<1>6. QED
  BY <1>3, <1>5 DEF StepKeeps

(* What a secret is in a request: text, its value in scope, or a refusal.  *)
LEMMA TreatmentIs ==
    ASSUME NEW s, NEW place \in Places, NEW whole \in BOOLEAN, NEW q
    PROVE  /\ Treatment(s, place, whole, q) \in {"text", "value", "refuse"}
           /\ Treatment(s, place, whole, q) = "value" =>
                 InScope(s, q.client, q.host)
BY DEF Treatment, Places, InBody, Unsubstitutable

(* A request begins with no token, and with placeholders of its own scope  *)
(* at most.                                                                *)
LEMMA BeginKeeps ==
    ASSUME Ready, NEW r \in Requests, BeginExchange(r)
    PROVE  StepKeeps(r)
<1>1. ex \in [Requests -> Exchange] /\ ex[r] \in Exchange /\ OneInv(r)
  BY DEF Ready, ExchangeInv
<1>2. req \in [Requests -> Request]
  BY DEF Ready, BrokerInv, TypeOK
<1>3. PICK q \in NewRequests : req' = [req EXCEPT ![r] = q]
  BY DEF BeginExchange, BeginRequest
<1>4. PICK s \in Secrets, place \in Places, whole \in BOOLEAN :
          LET static == Treatment(s, place, whole, req'[r])
          IN  ex' = [ex EXCEPT ![r].phase = "request", ![r].static = static,
                        ![r].carried = IF static = "value"
                                       THEN {Placeholder(s)} ELSE {}]
  BY DEF BeginExchange
<1>5. req'[r] = q /\ \A i \in Requests \ {r} : req'[i] = req[i]
  BY <1>2, <1>3
<1> DEFINE static == Treatment(s, place, whole, q)
           carried == IF static = "value" THEN {Placeholder(s)} ELSE {}
<1>6. ex' = [ex EXCEPT ![r].phase = "request", ![r].static = static,
                       ![r].carried = carried]
  BY <1>4, <1>5
<1>7. static \in {"text", "value", "refuse"}
      /\ (static = "value" => s \in Scope(q.client, q.host))
  BY TreatmentIs DEF Scope
<1>8. carried \subseteq {Placeholder(t) : t \in Scope(q.client, q.host)}
      /\ carried \in SUBSET Symbols
  BY <1>7, SymbolTypes DEF Ready
<1> HIDE DEF static, carried
<1> DEFINE f == ex'[r]
<1>9. /\ f = [ex[r] EXCEPT !.phase = "request", !.static = static,
                           !.carried = carried]
      /\ \A i \in Requests \ {r} : ex'[i] = ex[i]
      /\ ex' \in [Requests -> Exchange]
  <2>1. [ex[r] EXCEPT !.phase = "request", !.static = static,
                      !.carried = carried] \in Exchange
    BY <1>1, <1>7, <1>8 DEF Exchange
  <2>2. QED
    BY <1>1, <1>6, <2>1
<1>10. /\ f.phase = "request" /\ f.carried = carried
       /\ f.rest = ex[r].rest /\ f.read = ex[r].read
       /\ f.record = ex[r].record /\ f.clean = ex[r].clean
       /\ f.sent = ex[r].sent /\ f.shown = ex[r].shown
       /\ f.total = ex[r].total /\ f.truncated = ex[r].truncated
       /\ f.passed = ex[r].passed /\ f.copied = ex[r].copied
  BY <1>1, <1>9 DEF Exchange
<1> HIDE DEF f
<1>11. ex[r].phase \notin Answering
  BY DEF BeginExchange, Answering
<1>12. Blank(f)
  BY <1>1, <1>10, <1>11 DEF OneInv, Blank
<1>13. q.out = {}
  BY <1>3 DEF NewRequests
<1>14. Begun(r)'
  BY <1>5, <1>8, <1>10, <1>13 DEF Begun, f
<1>15. f.phase \notin Answering
  BY <1>10 DEF Answering
<1>16. OneInv(r)'
  BY <1>12, <1>14, <1>15 DEF OneInv, f
<1>17. QED
  BY <1>5, <1>9, <1>16 DEF StepKeeps

(* A request that goes on, or is refused, keeps what is known of it.       *)
LEMMA GoesOnKeeps ==
    ASSUME Ready, NEW r \in Requests,
           RefuseStatic(r) \/ ForwardExchange(r)
              \/ ((SubstituteValue(r) \/ RefuseRequest(r)) /\ UNCHANGED ex)
    PROVE  StepKeeps(r)
<1>1. /\ ex \in [Requests -> Exchange] /\ OneInv(r) /\ Begun(r)
  BY DEF Ready, ExchangeInv, OneInv
<1>2. req \in [Requests -> Request] /\ req[r] \in Request
  BY DEF Ready, BrokerInv, TypeOK
<1>3. UNCHANGED ex /\ req[r].phase = "substituting"
  BY DEF RefuseStatic, ForwardExchange, Forward, SubstituteValue, RefuseRequest
<1>4. /\ \A i \in Requests \ {r} : req'[i] = req[i]
      /\ req'[r].client = req[r].client /\ req'[r].host = req[r].host
      /\ \A u \in req'[r].out :
            \/ u \in req[r].out
            \/ Own(Token(u.kind, u.token), KnownGrants,
                   Exposed(req[r].client, req[r].host))
  <2>1. CASE RefuseStatic(r)
    BY <1>2, <2>1 DEF RefuseStatic, Request
  <2>2. CASE ForwardExchange(r)
    BY <1>2, <2>2 DEF ForwardExchange, Forward, Request
  <2>3. CASE RefuseRequest(r)
    BY <1>2, <2>3 DEF RefuseRequest, Request
  <2>4. CASE SubstituteValue(r)
    <3>1. PICK p \in req[r].todo :
              \/ req' = [req EXCEPT ![r].todo = @ \ {p}]
              \/ /\ virtual[p] # NoRef
                 /\ Authorized(req[r], virtual[p])
                 /\ req' = [req EXCEPT
                       ![r].todo = @ \ {p},
                       ![r].out = @ \cup {[ph |-> p, key |-> virtual[p].key,
                                           kind |-> virtual[p].kind,
                                           token |-> TokenOf(virtual[p])]}]
      BY <2>4 DEF SubstituteValue
    <3>2. p \in Placeholders
      BY <1>2, <3>1 DEF Request
    <3>3. CASE req' = [req EXCEPT ![r].todo = @ \ {p}]
      BY <1>2, <3>3 DEF Request
    <3>4. CASE req' # [req EXCEPT ![r].todo = @ \ {p}]
      <4> DEFINE u == [ph |-> p, key |-> virtual[p].key,
                       kind |-> virtual[p].kind, token |-> TokenOf(virtual[p])]
      <4>1. Own(Token(u.kind, u.token), KnownGrants,
                Exposed(req[r].client, req[r].host))
        BY <3>1, <3>2, <3>4, SubstitutedIsOwn DEF Ready
      <4>2. req' = [req EXCEPT ![r].todo = @ \ {p}, ![r].out = @ \cup {u}]
        BY <3>1, <3>4
      <4> HIDE DEF u
      <4>3. /\ \A i \in Requests \ {r} : req'[i] = req[i]
            /\ req'[r].client = req[r].client /\ req'[r].host = req[r].host
            /\ req'[r].out = req[r].out \cup {u}
        BY <1>2, <4>2 DEF Request
      <4>4. QED
        BY <4>1, <4>3
    <3>5. QED
      BY <3>3, <3>4
  <2>5. QED
    BY <2>1, <2>2, <2>3, <2>4
<1>5. Begun(r)'
  <2>1. ex[r].phase = "request"
    BY <1>1, <1>3 DEF Begun
  <2>2. ex'[r] = ex[r]
    BY <1>3
  <2>3. TokenFrame
    BY DEF Ready
  <2>4. QED
    BY <1>1, <1>4, <2>1, <2>2, <2>3, BegunStays
<1>6. OneInv(r)'
  BY <1>1, <1>3, <1>5, OneStays DEF Ready
<1>7. QED
  BY <1>1, <1>3, <1>4, <1>6 DEF StepKeeps

(* A request that is idle, without an exchange, carries nothing.           *)
LEMMA IdleBegun ==
    ASSUME NEW r \in Requests, req'[r] = NoRequest, ex'[r].phase # "request"
    PROVE  Begun(r)'
<1>1. NoRequest.phase = "idle" /\ NoRequest.out = {}
  BY DEF NoRequest
<1>2. QED
  BY <1>1 DEF Begun

(* The reading of a response leaves its request idle.                      *)
LEMMA ReadingBegun ==
    ASSUME Ready, NEW r \in Requests, ex[r].phase \in Answering,
           ex'[r].phase # "request", UNCHANGED req
    PROVE  Begun(r)'
<1>1. Begun(r)
  BY DEF Ready, ExchangeInv, OneInv
<1>2. req[r].phase = "idle"
  BY <1>1 DEF Begun, Answering
<1>3. QED
  BY <1>1, <1>2, BegunStays DEF Ready

(* A refused request ends with nothing left.                               *)
LEMMA EndRefusedKeeps ==
    ASSUME Ready, NEW r \in Requests, EndRefused(r)
    PROVE  StepKeeps(r)
<1>1. req \in [Requests -> Request] /\ ex \in [Requests -> Exchange]
  BY DEF Ready, BrokerInv, TypeOK, ExchangeInv
<1>2. /\ req' = [req EXCEPT ![r] = NoRequest]
      /\ ex' = [ex EXCEPT ![r] = NoExchange]
  BY DEF EndRefused, EndRequest
<1>3. req'[r] = NoRequest /\ \A i \in Requests \ {r} : req'[i] = req[i]
  BY <1>1, <1>2
<1>4. ex'[r] = NoExchange /\ NoExchange.phase # "request"
  BY <1>1, <1>2 DEF NoExchange
<1>5. Begun(r)'
  BY <1>3, <1>4, IdleBegun
<1>6. QED
  BY <1>2, <1>3, <1>5, OverKeeps

(* An exchange ends with nothing left.                                     *)
LEMMA EndKeeps ==
    ASSUME Ready, NEW r \in Requests, EndExchange(r)
    PROVE  StepKeeps(r)
<1>1. ex \in [Requests -> Exchange]
  BY DEF Ready, ExchangeInv
<1>2. /\ ex' = [ex EXCEPT ![r] = NoExchange] /\ UNCHANGED req
      /\ ex[r].phase \in Answering
  BY DEF EndExchange, vars, Answering
<1>3. ex'[r] = NoExchange /\ NoExchange.phase # "request"
  BY <1>1, <1>2 DEF NoExchange
<1>4. Begun(r)'
  BY <1>2, <1>3, ReadingBegun
<1>5. QED
  BY <1>2, <1>4, OverKeeps

(* The upstream's answer to a forwarded request keeps the invariant.       *)
LEMMA RespondKeeps ==
    ASSUME Ready, NEW r \in Requests, Respond(r)
    PROVE  StepKeeps(r)
<1> DEFINE e == ex[r]
           q == req[r]
           tokens == {Token(u.kind, u.token) : u \in q.out}
<1>1. ex \in [Requests -> Exchange] /\ e \in Exchange /\ OneInv(r)
  BY DEF Ready, ExchangeInv
<1>2. req \in [Requests -> Request] /\ q \in Request
  BY DEF Ready, BrokerInv, TypeOK
<1>3. /\ q.phase = "forwarded"
      /\ req' = [req EXCEPT ![r] = NoRequest]
  BY DEF Respond, EndRequest
<1>4. PICK body \in Bodies, kind \in {"sse", "ndjson", "buffered"},
           ending \in {"eof", "reset", "stall"} :
          ex' = [ex EXCEPT
              ![r].phase = "open", ![r].client = req[r].client,
              ![r].host = req[r].host, ![r].kind = kind,
              ![r].ending = ending, ![r].rest = body,
              ![r].carried = @ \cup
                  {Token(u.kind, u.token) : u \in req[r].out}]
  BY DEF Respond
<1>5. req'[r] = NoRequest /\ \A i \in Requests \ {r} : req'[i] = req[i]
  BY <1>2, <1>3
<1>6. body \in Seq(Symbols)
  BY DEF Ready, Configured, BodyAssumption
<1>7. Begun(r)
  BY <1>1 DEF OneInv
<1>8. tokens \subseteq Symbols
  <2>1. ASSUME NEW u \in q.out PROVE Token(u.kind, u.token) \in Symbols
    BY <1>2 DEF Request, Substitution, Symbols
  <2>2. QED
    BY <2>1
<1>9. e.phase = "request" /\ e.carried \subseteq
          {Placeholder(s) : s \in Scope(q.client, q.host)}
  BY <1>3, <1>7 DEF Begun
<1>10. Blank(e)
  BY <1>1, <1>9 DEF OneInv, Answering
<1>11. \A x \in tokens : Own(x, KnownGrants, Exposed(q.client, q.host))
  BY <1>7 DEF Begun
<1> DEFINE f == [e EXCEPT !.phase = "open", !.client = q.client,
                          !.host = q.host, !.kind = kind, !.ending = ending,
                          !.rest = body, !.carried = @ \cup tokens]
<1>12. f \in Exchange
  <2>1. q.client \in Clients /\ q.host \in Hosts
    BY <1>2 DEF Request
  <2>2. e.carried \cup tokens \in SUBSET Symbols
    BY <1>1, <1>8 DEF Exchange
  <2> HIDE DEF tokens, e, q
  <2>3. QED
    BY <1>1, <1>6, <2>1, <2>2 DEF Exchange, Answering
<1>13. /\ ex' \in [Requests -> Exchange] /\ ex'[r] = f
       /\ \A i \in Requests \ {r} : ex'[i] = ex[i]
  <2>1. ex' = [ex EXCEPT ![r] = f]
    BY <1>1, <1>4
  <2> HIDE DEF f
  <2>2. QED
    BY <1>1, <1>12, <2>1
<1>14. /\ f.phase = "open" /\ f.client = q.client /\ f.host = q.host
       /\ f.rest = body /\ f.carried = e.carried \cup tokens
       /\ f.read = e.read /\ f.record = e.record /\ f.clean = e.clean
       /\ f.sent = e.sent /\ f.shown = e.shown /\ f.total = e.total
       /\ f.truncated = e.truncated
       /\ f.passed = e.passed /\ f.copied = e.copied
  <2> HIDE DEF tokens, e, q
  <2>1. QED
    BY <1>1 DEF Exchange
<1> HIDE DEF tokens, e, q, f
<1>15. PICK c, h : c = q.client /\ h = q.host
  OBVIOUS
<1>16. Carried(f, KnownGrants, Exposed(c, h))
  BY <1>9, <1>11, <1>14, <1>15 DEF Carried
<1>17. Answered(f, KnownGrants, Alive, Hidden(c, h), Exposed(c, h))
  BY <1>1, <1>6, <1>10, <1>14, <1>16, RespondAnswered DEF Ready
<1>18. Begun(r)'
  BY <1>5, <1>13, <1>14, IdleBegun
<1>19. OneInv(r)'
  <2>1. ex'[r].client = c /\ ex'[r].host = h /\ ex'[r].phase \in Answering
    BY <1>13, <1>14, <1>15 DEF Answering
  <2>2. QED
    BY <1>13, <1>17, <1>18, <2>1, AnsweredNext DEF Ready
<1>20. QED
  BY <1>5, <1>13, <1>19 DEF StepKeeps

(* A step of the reading of a response keeps the invariant if it keeps     *)
(* what is known of the response.                                          *)
LEMMA ReadingKeeps ==
    ASSUME Ready, NEW r \in Requests, ex[r].phase \in Answering,
           UNCHANGED req, NEW f \in Exchange, ex' = [ex EXCEPT ![r] = f],
           f.phase \in Answering, Kept(ex[r], f),
           Answered(f, KnownGrants, Alive,
                    Hidden(ex[r].client, ex[r].host),
                    Exposed(ex[r].client, ex[r].host))
    PROVE  StepKeeps(r)
<1>1. ex \in [Requests -> Exchange]
  BY DEF Ready, ExchangeInv
<1>2. /\ ex' \in [Requests -> Exchange] /\ ex'[r] = f
      /\ \A i \in Requests \ {r} : ex'[i] = ex[i]
  BY <1>1
<1>3. Begun(r)'
  BY <1>2, ReadingBegun DEF Answering
<1>4. PICK c, h : c = ex[r].client /\ h = ex[r].host
  OBVIOUS
<1>5. Answered(f, KnownGrants, Alive, Hidden(c, h), Exposed(c, h))
  BY <1>4
<1>6. ex'[r].client = c /\ ex'[r].host = h
  BY <1>2, <1>4 DEF Kept
<1>7. OneInv(r)'
  BY <1>2, <1>3, <1>5, <1>6, AnsweredNext DEF Ready
<1>8. QED
  BY <1>2, <1>7 DEF StepKeeps

(* What is known of a response that is being read.                         *)
LEMMA Reading ==
    ASSUME Ready, NEW r \in Requests, ex[r].phase \in Answering
    PROVE  /\ ex \in [Requests -> Exchange] /\ ex[r] \in Exchange
           /\ Configured /\ TypeOK /\ PlaceholderFaithful /\ LiveKnown
           /\ Answered(ex[r], KnownGrants, Alive,
                       Hidden(ex[r].client, ex[r].host),
                       Exposed(ex[r].client, ex[r].host))
<1>1. BrokerInv /\ Configured /\ TypeOK
  BY DEF Ready, BrokerInv
<1>2. PlaceholderFaithful /\ LiveKnown
  BY <1>1, LiveAreKnown
<1>3. QED
  BY <1>1, <1>2 DEF Ready, ExchangeInv, OneInv

(* Reading and scrubbing a record keeps the invariant.                     *)
LEMMA TakeKeeps ==
    ASSUME Ready, NEW r \in Requests, TakeRecord(r)
    PROVE  StepKeeps(r)
<1> DEFINE e == ex[r]
           n == Outcome(e).length
           record == SubSeq(e.rest, 1, n)
           rest == SubSeq(e.rest, n + 1, Len(e.rest))
           clean == Scrub(record, e.client, e.host)
           passed == e.passed \cup KnownTokens(clean)
           f == [e EXCEPT !.phase = "scrubbed", !.record = record,
                          !.rest = rest, !.clean = clean, !.passed = passed]
<1>1. /\ e.phase = "open" /\ Outcome(e).is = "record"
      /\ e.phase \in Answering /\ UNCHANGED req
  BY DEF TakeRecord, Answering, vars
<1>2. /\ Seen(record)
      /\ ex' = [ex EXCEPT ![r].phase = "scrubbed", ![r].record = record,
                          ![r].rest = rest, ![r].clean = clean,
                          ![r].passed = passed]
  <2>1. /\ Seen(record)
        /\ ex' = [ex EXCEPT ![r].phase = "scrubbed", ![r].record = record,
                            ![r].rest = rest, ![r].clean = clean,
                            ![r].passed = @ \cup KnownTokens(clean)]
    BY Zenon DEF TakeRecord
  <2>2. ex \in [Requests -> Exchange] /\ e \in Exchange
    BY <1>1, Reading
  <2> HIDE DEF record, rest, clean
  <2>3. QED
    BY <2>1, <2>2 DEF Exchange
<1>3. /\ ex \in [Requests -> Exchange] /\ e \in Exchange
      /\ Configured /\ TypeOK /\ PlaceholderFaithful /\ LiveKnown
      /\ Answered(e, KnownGrants, Alive, Hidden(e.client, e.host),
                  Exposed(e.client, e.host))
  BY <1>1, Reading
<1>4. /\ f.phase = "scrubbed" /\ f.record = record /\ f.rest = rest
      /\ f.clean = clean /\ f.client = e.client /\ f.host = e.host
      /\ f.carried = e.carried /\ f.read = e.read /\ f.sent = e.sent
      /\ f.shown = e.shown /\ f.total = e.total /\ f.truncated = e.truncated
      /\ f.passed = passed /\ f.copied = e.copied
  <2> HIDE DEF e, record, rest, clean, passed
  <2>1. QED
    BY <1>3 DEF Exchange
<1>5. ex' = [ex EXCEPT ![r] = f]
  <2> HIDE DEF record, rest, clean, passed
  <2>1. QED
    BY <1>2, <1>3
<1>6. /\ f.record = SubSeq(e.rest, 1, Outcome(e).length)
      /\ f.rest = SubSeq(e.rest, Outcome(e).length + 1, Len(e.rest))
      /\ f.clean = Scrub(f.record, e.client, e.host) /\ Seen(f.record)
      /\ f.passed = e.passed \cup KnownTokens(f.clean)
  BY <1>2, <1>4, Zenon
<1>7. Kept(e, f) /\ f.phase # "open" /\ f.phase \in Answering
  BY <1>4 DEF Kept, Answering
<1> DEFINE g == f
<1>8. /\ g.record \in Seq(Symbols) /\ g.rest \in Seq(Symbols)
      /\ g.clean \in Seq(Symbols) /\ g.passed \in SUBSET Symbols
      /\ Answered(g, KnownGrants, Alive, Hidden(e.client, e.host),
                  Exposed(e.client, e.host))
  <2> HIDE DEF f
  <2>1. QED
    BY <1>1, <1>3, <1>4, <1>6, <1>7, TakeAnswered
<1>9. /\ record \in Seq(Symbols) /\ rest \in Seq(Symbols)
      /\ clean \in Seq(Symbols) /\ passed \in SUBSET Symbols
  <2> HIDE DEF f, passed
  <2>1. QED
    BY <1>4, <1>8
<1>10. f \in Exchange
  <2> HIDE DEF e, record, rest, clean, passed
  <2>1. QED
    BY <1>3, <1>9 DEF Exchange, Answering
<1> HIDE DEF f
<1>11. QED
  BY <1>1, <1>5, <1>7, <1>8, <1>10, ReadingKeeps

(* Sanitising and capturing it keeps the invariant.                        *)
LEMMA CaptureKeeps ==
    ASSUME Ready, NEW r \in Requests, CaptureRecord(r)
    PROVE  StepKeeps(r)
<1> DEFINE e == ex[r]
           text == Sanitize(e.clean, e.client, e.host)
           shown == Append(e.shown, Fitting(text, Room(e)))
           total == e.total + Size(text)
           truncated == e.truncated \/ Size(text) > Room(e)
           copied == e.copied \cup KnownTokens(Fitting(text, Room(e)))
           f == [e EXCEPT !.phase = "captured", !.shown = shown,
                          !.total = total, !.truncated = truncated,
                          !.copied = copied]
<1>1. e.phase = "scrubbed" /\ e.phase \in Answering /\ UNCHANGED req
  BY DEF CaptureRecord, Answering, vars
<1>2. ex' = [ex EXCEPT ![r].phase = "captured", ![r].shown = shown,
                       ![r].total = total, ![r].truncated = truncated,
                       ![r].copied = copied]
  BY Zenon DEF CaptureRecord
<1>3. /\ ex \in [Requests -> Exchange] /\ e \in Exchange
      /\ Configured /\ TypeOK /\ PlaceholderFaithful
      /\ Answered(e, KnownGrants, Alive, Hidden(e.client, e.host),
                  Exposed(e.client, e.host))
  BY <1>1, Reading
<1>4. /\ f.phase = "captured" /\ f.shown = shown /\ f.total = total
      /\ f.truncated = truncated /\ f.client = e.client /\ f.host = e.host
      /\ f.carried = e.carried /\ f.read = e.read /\ f.sent = e.sent
      /\ f.rest = e.rest /\ f.record = e.record /\ f.clean = e.clean
      /\ f.passed = e.passed /\ f.copied = copied
  <2> HIDE DEF e, shown, total, truncated, copied
  <2>1. QED
    BY <1>3 DEF Exchange
<1>5. ex' = [ex EXCEPT ![r] = f]
  <2> HIDE DEF shown, total, truncated, copied
  <2>1. QED
    BY <1>2, <1>3
<1>6. Kept(e, f) /\ f.phase # "open" /\ f.phase \in Answering
  BY <1>4 DEF Kept, Answering
<1>7. /\ f.shown \in Seq(Seq(Symbols)) /\ f.total \in Nat
      /\ f.truncated \in BOOLEAN /\ f.copied \in SUBSET Symbols
      /\ Answered(f, KnownGrants, Alive, Hidden(e.client, e.host),
                  Exposed(e.client, e.host))
  <2>1. PICK t : t = text
    OBVIOUS
  <2>2. /\ f.shown = Append(e.shown, Fitting(t, Room(e)))
        /\ f.total = e.total + Size(t)
        /\ f.copied = e.copied \cup KnownTokens(Fitting(t, Room(e)))
        /\ t = Sanitize(e.clean, e.client, e.host)
    BY <1>4, <2>1, Zenon
  <2>3. f.truncated = (e.truncated \/ Size(t) > Room(e))
    <3> HIDE DEF f, text
    <3>1. f.truncated = (e.truncated \/ Size(text) > Room(e))
      BY <1>4
    <3>2. QED
      BY <2>1, <3>1
  <2> HIDE DEF f, text
  <2>4. QED
    BY <1>3, <1>4, <1>6, <2>2, <2>3, CaptureAnswered
<1>8. /\ shown \in Seq(Seq(Symbols)) /\ total \in Nat /\ truncated \in BOOLEAN
      /\ copied \in SUBSET Symbols
  <2> HIDE DEF f, shown, total, truncated, copied
  <2>1. QED
    BY <1>4, <1>7, Zenon
<1>9. f \in Exchange
  <2> HIDE DEF e, shown, total, truncated, copied
  <2>1. QED
    BY <1>3, <1>8 DEF Exchange, Answering
<1> HIDE DEF f
<1>10. QED
  BY <1>1, <1>5, <1>6, <1>7, <1>9, ReadingKeeps

(* Writing it keeps the invariant.                                         *)
LEMMA WriteKeeps ==
    ASSUME Ready, NEW r \in Requests, WriteRecord(r)
    PROVE  StepKeeps(r)
<1> DEFINE e == ex[r]
           read == e.read \o e.record
           sent == e.sent \o e.clean
           f == [e EXCEPT !.phase = "open", !.read = read, !.sent = sent,
                          !.record = <<>>, !.clean = <<>>]
<1>1. e.phase = "captured" /\ e.phase \in Answering /\ UNCHANGED req
  BY DEF WriteRecord, Answering, vars
<1>2. ex' = [ex EXCEPT ![r].phase = "open", ![r].read = read, ![r].sent = sent,
                       ![r].record = <<>>, ![r].clean = <<>>]
  <2>1. ex \in [Requests -> Exchange] /\ e \in Exchange
    BY <1>1, Reading
  <2>2. QED
    BY <2>1 DEF WriteRecord, Exchange
<1>3. /\ ex \in [Requests -> Exchange] /\ e \in Exchange
      /\ Answered(e, KnownGrants, Alive, Hidden(e.client, e.host),
                  Exposed(e.client, e.host))
  BY <1>1, Reading
<1>4. /\ f.phase = "open" /\ f.read = read /\ f.sent = sent
      /\ f.record = <<>> /\ f.clean = <<>>
      /\ f.client = e.client /\ f.host = e.host /\ f.carried = e.carried
      /\ f.rest = e.rest /\ f.shown = e.shown /\ f.total = e.total
      /\ f.truncated = e.truncated
      /\ f.passed = e.passed /\ f.copied = e.copied
  <2> HIDE DEF e, read, sent
  <2>1. QED
    BY <1>3 DEF Exchange
<1>5. ex' = [ex EXCEPT ![r] = f]
  <2> HIDE DEF read, sent
  <2>1. QED
    BY <1>2, <1>3
<1>6. Kept(e, f) /\ f.phase \in Answering
  BY <1>4 DEF Kept, Answering
<1>7. f.read = e.read \o e.record /\ f.sent = e.sent \o e.clean
  BY <1>4, Zenon
<1>8. /\ f.read \in Seq(Symbols) /\ f.sent \in Seq(Symbols)
      /\ Answered(f, KnownGrants, Alive, Hidden(e.client, e.host),
                  Exposed(e.client, e.host))
  <2> HIDE DEF f, read, sent
  <2>1. QED
    BY <1>3, <1>4, <1>6, <1>7, WriteAnswered
<1>9. read \in Seq(Symbols) /\ sent \in Seq(Symbols) /\ <<>> \in Seq(Symbols)
  <2> HIDE DEF f, read, sent
  <2>1. QED
    BY <1>4, <1>8
<1>10. f \in Exchange
  <2> HIDE DEF e, read, sent
  <2>1. QED
    BY <1>3, <1>9 DEF Exchange, Answering
<1> HIDE DEF f
<1>11. QED
  BY <1>1, <1>5, <1>6, <1>8, <1>10, ReadingKeeps

(* Every step keeps the invariant of the exchanges.                        *)
LEMMA StepIsKept ==
    ASSUME Ready, NEW r \in Requests, StepKeeps(r)
    PROVE  ExchangeInv'
<1>1. ex' \in [Requests -> Exchange]
  BY DEF StepKeeps
<1>2. ASSUME NEW i \in Requests PROVE OneInv(i)'
  <2>1. CASE i = r
    BY <2>1 DEF StepKeeps
  <2>2. CASE i # r
    <3>1. ex'[i] = ex[i] /\ req'[i] = req[i]
      BY <2>2 DEF StepKeeps
    <3>2. OneInv(i) /\ TokenFrame
      BY DEF Ready, ExchangeInv
    <3>3. QED
      BY <3>1, <3>2, OthersStay
  <2>3. QED
    BY <2>1, <2>2
<1>3. QED
  BY <1>1, <1>2 DEF ExchangeInv

(* Every step of an exchange, of the broker and of the environment keeps   *)
(* the invariant of the exchanges.                                         *)
LEMMA ExchangeStep ==
    ASSUME Configured, BrokerInv, BrokerInv', ExchangeInv,
           [MediationNext]_exchange
    PROVE  ExchangeInv'
<1>1. TokenFrame
  BY TokenFrameStep
<1>2. Ready
  BY <1>1 DEF Ready
<1>3. ASSUME NEW r \in Requests, RequestMediation(r)
      PROVE  ExchangeInv'
  <2>1. StepKeeps(r)
    BY <1>2, <1>3, BeginKeeps, GoesOnKeeps, EndRefusedKeeps
       DEF RequestMediation
  <2>2. QED
    BY <1>2, <2>1, StepIsKept
<1>4. ASSUME NEW r \in Requests, ResponseMediation(r)
      PROVE  ExchangeInv'
  <2>1. StepKeeps(r)
    BY <1>2, <1>4, RespondKeeps, TakeKeeps, CaptureKeeps, WriteKeeps, EndKeeps
       DEF ResponseMediation
  <2>2. QED
    BY <1>2, <2>1, StepIsKept
<1>5. CASE UNCHANGED <<ex, req>>
  <2>1. ex' \in [Requests -> Exchange]
    BY <1>5 DEF ExchangeInv
  <2>2. ASSUME NEW r \in Requests PROVE OneInv(r)'
    <3>1. OneInv(r) /\ ex'[r] = ex[r] /\ req'[r] = req[r]
      BY <1>5 DEF ExchangeInv
    <3>2. QED
      BY <1>1, <3>1, OthersStay
  <2>3. QED
    BY <2>1, <2>2 DEF ExchangeInv
<1>6. ASSUME NEW h \in Handlers, TokenResponse(h)
      PROVE  UNCHANGED <<ex, req>>
  BY <1>6 DEF TokenResponse, Receive, HandlerStep, Install, LockState,
              TakeSnapshot, ReplaceFile, FailWrite, Deliver, Lose, Finish
<1>7. CASE UNCHANGED exchange
  BY <1>5, <1>7 DEF exchange, vars
<1>8. QED
  BY <1>3, <1>4, <1>5, <1>6, <1>7 DEF MediationNext

(* It holds at the start.                                                  *)
LEMMA InitExchangeInv ==
    ASSUME Configured, MediationInit
    PROVE  ExchangeInv
<1>1. NoExchange \in Exchange /\ Blank(NoExchange)
      /\ NoExchange.phase \notin Answering /\ NoExchange.phase # "request"
  BY NoExchangeType DEF NoExchange, Answering
<1>2. ASSUME NEW r \in Requests
      PROVE  ex[r] = NoExchange /\ req[r].phase = "idle" /\ req[r].out = {}
  BY DEF MediationInit, Init, NoRequest
<1>3. ex \in [Requests -> Exchange]
  BY <1>1 DEF MediationInit
<1>4. QED
  BY <1>1, <1>2, <1>3 DEF ExchangeInv, OneInv, Begun

(* It holds always.                                                        *)
LEMMA ExchangeAlways ==
    ASSUME Configured
    PROVE  MediationSpec => []ExchangeInv
<1>1. BrokerInv /\ BrokerInv' /\ ExchangeInv /\ [MediationNext]_exchange
      => ExchangeInv'
  BY ExchangeStep
<1>2. MediationInit => ExchangeInv
  BY InitExchangeInv
<1>3. QED
  BY <1>1, <1>2, BrokerAlways, PTL DEF MediationSpec

(* The assumptions on the constants, in one.                               *)
LEMMA Assumed == Configured
BY SecretAssumption, LimitAssumption, BodyAssumption, NeedleAssumption,
   ByteAssumption DEF Configured

(* No credential a request was given and no secret of its client and host  *)
(* comes back, and no live token of its client passed in a record of its   *)
(* issuer that was scrubbed when the token was installed.                  *)
THEOREM NoCredentialReturns == MediationSpec => []Veiled
<1>1. BrokerInv /\ ExchangeInv => Veiled
  <2> SUFFICES ASSUME BrokerInv, ExchangeInv, NEW r \in Requests,
                      ex[r].phase \in {"open", "scrubbed", "captured"}
               PROVE  /\ \A s \in Secrets :
                            \/ Placeholder(s) \in ex[r].carried
                            \/ InScope(s, ex[r].client, ex[r].host)
                            => ~ShowsSecret(Received(r), s)
                               /\ ~ShowsMasked(Received(r), s)
                      /\ \A ref \in LiveRefs :
                            LET token == Token(ref.kind, TokenOf(ref))
                            IN  /\ token \in ex[r].carried
                                   => ~Shows(Received(r), token)
                                /\ \/ token \in ex[r].carried
                                   \/ /\ ClientOf[ref.key] = ex[r].client
                                      /\ IssuerOf[ref.key] = ex[r].host
                                   => token \notin ex[r].passed
    BY DEF Veiled
  <2> DEFINE e == ex[r]
             got == e.sent \o e.clean
             all == e.read \o e.record
             hidden == Hidden(e.client, e.host)
             exposed == Exposed(e.client, e.host)
  <2>1. Configured /\ e \in Exchange
    BY Assumed DEF ExchangeInv
  <2>2. Answered(e, KnownGrants, Alive, hidden, exposed)
    BY DEF ExchangeInv, OneInv, Answering
  <2>3. Received(r) = got
    BY DEF Received
  <2>4. /\ e.sent \in Seq(Symbols) /\ e.clean \in Seq(Symbols)
        /\ e.read \in Seq(Symbols) /\ e.record \in Seq(Symbols)
    BY <2>1 DEF Exchange
  <2>5. got \in Seq(Symbols) /\ all \in Seq(Symbols)
    BY <2>4, ConcatProperties
  <2>6. Named(got) = Named(ScrubSecrets(all, e.client, e.host))
    BY <2>2, Zenon DEF Answered, Exact
  <2>7. Avoids(got, e.carried \cap hidden)
    <3>1. /\ Avoids(e.sent, e.carried \cap hidden)
          /\ Avoids(e.clean, e.carried \cap hidden)
      BY <2>2 DEF Answered, Veiling
    <3>2. QED
      BY <2>4, <3>1, ConcatSeen
  <2>8. Carried(e, KnownGrants, exposed)
    BY <2>2 DEF Answered
  <2> HIDE DEF got, all
  <2>9. ASSUME NEW s \in Secrets,
               Placeholder(s) \in e.carried \/ InScope(s, e.client, e.host)
        PROVE  ~ShowsSecret(got, s) /\ ~ShowsMasked(got, s)
    <3>1. s \in Scope(e.client, e.host)
      <4>1. CASE Placeholder(s) \in e.carried
        <5>1. ~Own(Placeholder(s), KnownGrants, exposed)
          BY TagOf DEF Own
        <5>2. PICK t \in Scope(e.client, e.host) : Placeholder(s) = Placeholder(t)
          BY <2>8, <4>1, <5>1 DEF Carried
        <5>3. s = t
          BY <5>2 DEF Placeholder
        <5>4. QED
          BY <5>2, <5>3
      <4>2. CASE InScope(s, e.client, e.host)
        BY <4>2 DEF Scope
      <4>3. QED
        BY <2>9, <4>1, <4>2
    <3>2. ScrubSecrets(all, e.client, e.host) \in Seq(Symbols)
      BY <2>1, <2>5, ScrubSecretsType
    <3>3. ~Reveals(ScrubSecrets(all, e.client, e.host), s)
      BY <2>1, <2>5, <3>1, ScrubHides
    <3>4. ~Reveals(got, s)
      BY <2>1, <2>5, <2>6, <3>2, <3>3, NamedReveals
    <3>5. QED
      BY <2>1, <2>5, <3>4, NotRevealed
  <2>10. ASSUME NEW ref \in LiveRefs,
                \/ Token(ref.kind, TokenOf(ref)) \in e.carried
                \/ /\ ClientOf[ref.key] = e.client
                   /\ IssuerOf[ref.key] = e.host
         PROVE  /\ Token(ref.kind, TokenOf(ref)) \in e.carried
                   => ~Shows(got, Token(ref.kind, TokenOf(ref)))
                /\ Token(ref.kind, TokenOf(ref)) \notin e.passed
    <3> DEFINE token == Token(ref.kind, TokenOf(ref))
    <3>1. Scrubs(ref, e.client, e.host)
      <4>1. CASE token \in e.carried
        <5>1. \A s : token # Placeholder(s)
          BY TagOf
        <5>2. Own(token, KnownGrants, exposed)
          BY <2>8, <4>1, <5>1 DEF Carried
        <5>3. QED
          BY <5>2 DEF Own, Exposed
      <4>2. CASE ClientOf[ref.key] = e.client /\ IssuerOf[ref.key] = e.host
        BY <4>2 DEF Scrubs
      <4>3. QED
        BY <2>10, <4>1, <4>2
    <3>2. token \in hidden
      BY <3>1 DEF Hidden
    <3>3. DOMAIN got = 1..Len(got)
      BY <2>5, LenProperties
    <3> HIDE DEF token, hidden
    <3>4. token \in e.carried => ~Shows(got, token)
      BY <2>7, <3>2, <3>3 DEF Shows, Avoids
    <3>5. token \notin e.passed
      BY <2>2, <3>2 DEF Answered, Veiling, Own
    <3>6. QED
      BY <3>4, <3>5 DEF token
  <2>11. QED
    BY <2>3, <2>9, <2>10
<1>2. QED
  BY <1>1, Assumed, ExchangeAlways, BrokerAlways, PTL

(* What was sent of a stream is everything read so far, scrubbed as one    *)
(* text, up to the names of tokens.                                        *)
THEOREM StreamsExactly == MediationSpec => []RecordwiseExact
<1>1. ExchangeInv => RecordwiseExact
  <2> SUFFICES ASSUME ExchangeInv, NEW r \in Requests, ex[r].phase = "open"
               PROVE  Named(ex[r].sent) =
                         Named(ScrubSecrets(ex[r].read, ex[r].client, ex[r].host))
    BY DEF RecordwiseExact
  <2>1. Exact(ex[r])
    BY DEF ExchangeInv, OneInv, Answering, Answered
  <2>2. ex[r].record = <<>> /\ ex[r].clean = <<>>
    BY <2>1 DEF Exact
  <2>3. ex[r].sent \in Seq(Symbols) /\ ex[r].read \in Seq(Symbols)
    BY DEF ExchangeInv, Exchange
  <2>4. ex[r].sent \o <<>> = ex[r].sent /\ ex[r].read \o <<>> = ex[r].read
    BY <2>3
  <2>5. Named(ex[r].sent \o ex[r].clean) =
            Named(ScrubSecrets(ex[r].read \o ex[r].record,
                               ex[r].client, ex[r].host))
    BY <2>1, Zenon DEF Exact
  <2>6. QED
    BY <2>2, <2>4, <2>5, Zenon
<1>2. QED
  BY <1>1, Assumed, ExchangeAlways, PTL

(* The console's copy shows no value or placeholder of any secret, no      *)
(* placeholder of a live token and no token that was installed when its    *)
(* record was sanitised and is live, and stays within its limit, saying    *)
(* when it is not complete.                                                *)
THEOREM CapturesSoundly == MediationSpec => []CaptureSound
<1>1. ExchangeInv => CaptureSound
  <2> SUFFICES ASSUME ExchangeInv, NEW r \in Requests
               PROVE  /\ \A i \in DOMAIN ex[r].shown :
                            /\ \A s \in Secrets :
                                  /\ ~ShowsSecret(ex[r].shown[i], s)
                                  /\ ~Shows(ex[r].shown[i], Placeholder(s))
                            /\ \A ref \in LiveRefs :
                                  ~Shows(ex[r].shown[i],
                                         Virtual(ref.kind, PlaceholderOf(ref)))
                      /\ \A ref \in LiveRefs :
                            Token(ref.kind, TokenOf(ref)) \notin ex[r].copied
                      /\ Size(Flat(ex[r].shown)) <= CaptureLimit
                      /\ ex[r].truncated <=>
                            Size(Flat(ex[r].shown)) < ex[r].total
    BY DEF CaptureSound
  <2> DEFINE e == ex[r]
  <2>1. e \in Exchange /\ Configured
    BY Assumed DEF ExchangeInv
  <2>2. Captured(e, KnownGrants, Alive) /\ Counted(e)
    <3>1. CASE e.phase \in Answering
      BY <3>1 DEF ExchangeInv, OneInv, Answered
    <3>2. CASE e.phase \notin Answering
      <4>1. /\ e.shown = <<>> /\ e.total = 0 /\ e.truncated = FALSE
            /\ e.copied = {}
        BY <3>2 DEF ExchangeInv, OneInv, Blank
      <4>2. Captured(e, KnownGrants, Alive)
        BY <4>1 DEF Captured
      <4>3. Size(Flat(e.shown)) = 0 /\ CaptureLimit \in Nat
        <5>1. Flat(e.shown) = <<>>
          BY <4>1, FlatEmpty, Zenon
        <5>2. QED
          BY <2>1, <5>1, SizeEmpty DEF Configured, LimitAssumption
      <4>4. QED
        BY <4>1, <4>2, <4>3 DEF Counted
    <3>3. QED
      BY <3>1, <3>2
  <2>3. e.shown \in Seq(Seq(Symbols))
    BY <2>1 DEF Exchange
  <2>4. DOMAIN e.shown = 1..Len(e.shown)
    BY <2>3, LenProperties
  <2>5. ASSUME NEW i \in DOMAIN e.shown
        PROVE  /\ \A s \in Secrets : /\ ~ShowsSecret(e.shown[i], s)
                                     /\ ~Shows(e.shown[i], Placeholder(s))
               /\ \A ref \in LiveRefs :
                     ~Shows(e.shown[i], Virtual(ref.kind, PlaceholderOf(ref)))
    <3> DEFINE text == e.shown[i]
    <3>1. text \in Seq(Symbols)
      BY <2>3, <2>4, ElementOfSeq
    <3>2. Covered(text, KnownGrants, Alive) /\ Bare(text)
      BY <2>2, <2>4 DEF Captured
    <3> HIDE DEF text
    <3>3. \A s \in Secrets : ~ShowsSecret(text, s) /\ ~Shows(text, Placeholder(s))
      BY <2>1, <3>1, <3>2, BareShows
    <3>4. DOMAIN text = 1..Len(text)
      BY <3>1, LenProperties
    <3>5. \A ref \in LiveRefs :
              ~Shows(text, Virtual(ref.kind, PlaceholderOf(ref)))
      BY <3>2, <3>4, TagOf DEF Shows, Covered, Alive
    <3>6. QED
      BY <3>3, <3>5 DEF text
  <2>6. \A ref \in LiveRefs : Token(ref.kind, TokenOf(ref)) \notin e.copied
    BY <2>2 DEF Captured, Own, Alive
  <2>7. QED
    BY <2>2, <2>5, <2>6 DEF Counted
<1>2. QED
  BY <1>1, Assumed, ExchangeAlways, PTL

=============================================================================
