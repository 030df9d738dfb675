----------------------------- MODULE LlamaProofs -----------------------------
(***************************************************************************)
(* Proofs about one llama engine, for any context, batch, margin, discard, *)
(* drafts and prompts: the budget, the position counter, the window of the *)
(* conversation in the cache, and what the kernel's C functions promise.   *)
(***************************************************************************)
EXTENDS LlamaProperties, SequenceTheorems, WellFoundedInduction, NaturalsInduction, TLAPS

-----------------------------------------------------------------------------
(* Numbers and cells *)

(* A set of numbers with a bound has a greatest element. *)
LEMMA Greatest ==
    ASSUME NEW n \in Nat, NEW S \in SUBSET (0 .. n), S # {}
    PROVE  \E x \in S : \A y \in S : y <= x
<1> DEFINE T == {n - x : x \in S}
<1> DEFINE Less == OpToRel(<, Nat)
<1>1. T \in SUBSET Nat /\ T # {}
  <2>1. \A x \in S : x \in Nat /\ n - x \in Nat
    OBVIOUS
  <2> QED BY <2>1
<1>2. IsWellFoundedOn(Less, Nat)
  BY NatLessThanWellFounded
<1>3. \A x, y \in Nat : <<y, x>> \in Less <=> y < x
  BY Zenon DEF OpToRel
<1> HIDE DEF Less, T
<1>4. \E x \in T : \A y \in T : <<y, x>> \notin Less
  BY <1>1, <1>2, WFMin
<1>5. PICK t \in T : \A y \in T : ~(y < t)
  BY <1>1, <1>3, <1>4, Zenon
<1>6. PICK x \in S : t = n - x
  BY DEF T
<1>7. \A y \in S : ~(n - y < n - x)
  BY <1>5, <1>6 DEF T
<1> QED BY <1>7

(* The next position is behind every cell, and next to one if there is one. *)
LEMMA NextPosition ==
    ASSUME NEW cells, DOMAIN cells \subseteq 0 .. NCtx - 1
    PROVE  /\ NextPos(cells) \in 0 .. NCtx
           /\ \A p \in DOMAIN cells : p < NextPos(cells)
           /\ NextPos(cells) > 0 => NextPos(cells) - 1 \in DOMAIN cells
<1>1. NCtx \in Nat
  BY DriverAssumption
<1>2. \E n \in 0 .. NCtx :
        (\A p \in DOMAIN cells : p < n) /\ (n > 0 => n - 1 \in DOMAIN cells)
  <2>1. CASE DOMAIN cells = {}
    BY <1>1, <2>1
  <2>2. CASE DOMAIN cells # {}
    <3>1. DOMAIN cells \in SUBSET (0 .. NCtx)
      BY <1>1
    <3>2. PICK m \in DOMAIN cells : \A p \in DOMAIN cells : p <= m
      BY <1>1, <2>2, <3>1, Greatest
    <3> QED BY <1>1, <3>1, <3>2
  <2> QED BY <2>1, <2>2
<1> QED
  BY <1>2 DEF NextPos

(* Without a hole it is their number. *)
LEMMA NextOfDense ==
    ASSUME NEW cells, NEW n \in 0 .. NCtx, DOMAIN cells = 0 .. n - 1
    PROVE  NextPos(cells) = n
<1>1. NCtx \in Nat
  BY DriverAssumption
<1>2. DOMAIN cells \subseteq 0 .. NCtx - 1
  BY <1>1
<1>3. /\ NextPos(cells) \in 0 .. NCtx
      /\ \A p \in DOMAIN cells : p < NextPos(cells)
      /\ NextPos(cells) > 0 => NextPos(cells) - 1 \in DOMAIN cells
  BY <1>2, NextPosition
<1> QED
  BY <1>1, <1>3

(* The common prefix of two texts is one. *)
LEMMA CommonPrefix ==
    ASSUME NEW S, NEW s \in Seq(S), NEW t \in Seq(S)
    PROVE  /\ Common(s, t) \in 0 .. Lesser(Len(s), Len(t))
           /\ \A i \in 1 .. Common(s, t) : s[i] = t[i]
<1> DEFINE m == Lesser(Len(s), Len(t))
           P == {n \in 0 .. m : \A i \in 1 .. n : s[i] = t[i]}
<1>1. m \in Nat
  BY DEF Lesser
<1>2. P \in SUBSET (0 .. m) /\ 0 \in P
  BY <1>1
<1>3. P # {}
  BY <1>2
<1> HIDE DEF m
<1>4. PICK x \in P : \A y \in P : y <= x
  BY <1>1, <1>2, <1>3, Greatest
<1>5. x < m => s[x + 1] # t[x + 1]
  <2> SUFFICES ASSUME x < m, s[x + 1] = t[x + 1] PROVE FALSE
    OBVIOUS
  <2>1. x + 1 \in 0 .. m /\ \A i \in 1 .. x + 1 : i \in 1 .. x \/ i = x + 1
    BY <1>1
  <2>2. x + 1 \in P
    BY <2>1
  <2> QED BY <1>1, <1>4, <2>2
<1>6. \E n \in 0 .. m : (\A i \in 1 .. n : s[i] = t[i]) /\ (n < m => s[n + 1] # t[n + 1])
  BY <1>5
<1> QED
  BY <1>6 DEF Common, m

(* What is kept of a shift is at least the first token. *)
LEMMA KeepType == promptLen \in Nat => NKeep \in Nat \ {0} /\ NKeep <= Greater(NCtx \div 2, 1)
<1> SUFFICES ASSUME promptLen \in Nat PROVE NKeep \in Nat \ {0} /\ NKeep <= Greater(NCtx \div 2, 1)
  OBVIOUS
<1>1. NCtx \div 2 \in Nat
  BY DriverAssumption
<1> DEFINE half == NCtx \div 2
<1> HIDE DEF half
<1>2. half \in Nat
  BY <1>1 DEF half
<1>3. Greater(Lesser(promptLen, half), 1) \in Nat \ {0}
      /\ Greater(Lesser(promptLen, half), 1) <= Greater(half, 1)
  BY <1>2 DEF Greater, Lesser
<1> QED BY <1>3 DEF NKeep, half

(* The last tokens of a text. *)
LEMMA LastTokens ==
    ASSUME NEW S, NEW s \in Seq(S), NEW n \in Nat
    PROVE  /\ LastOf(s, n) \in Seq(S) /\ Len(LastOf(s, n)) = Lesser(Len(s), n)
           /\ \A i \in 1 .. Len(LastOf(s, n)) : LastOf(s, n)[i] = s[Len(s) - Lesser(Len(s), n) + i]
<1> DEFINE m == Lesser(Len(s), n)
<1>1. m \in 0 .. Len(s)
  BY DEF Lesser
<1> HIDE DEF m
<1>2. \A j \in Len(s) - m + 1 .. Len(s) : s[j] \in S
  BY <1>1, ElementOfSeq
<1>3. /\ SubSeq(s, Len(s) - m + 1, Len(s)) \in Seq(S)
      /\ Len(SubSeq(s, Len(s) - m + 1, Len(s))) = m
      /\ \A i \in 1 .. m : SubSeq(s, Len(s) - m + 1, Len(s))[i] = s[Len(s) - m + i]
  BY <1>1, <1>2, SubSeqProperties
<1> QED
  BY <1>3 DEF LastOf, m

(* A part of a text from its beginning. *)
LEMMA FirstTokens ==
    ASSUME NEW S, NEW s \in Seq(S), NEW n \in 0 .. Len(s)
    PROVE  /\ SubSeq(s, 1, n) \in Seq(S) /\ Len(SubSeq(s, 1, n)) = n
           /\ \A i \in 1 .. n : SubSeq(s, 1, n)[i] = s[i]
           /\ SubSeq(s, n + 1, Len(s)) \in Seq(S) /\ Len(SubSeq(s, n + 1, Len(s))) = Len(s) - n
           /\ \A i \in 1 .. Len(s) - n : SubSeq(s, n + 1, Len(s))[i] = s[n + i]
<1>1. \A j \in 1 .. Len(s) : s[j] \in S
  BY ElementOfSeq
<1> QED
  BY <1>1, SubSeqProperties

(* A prompt that is cut leaves room for at least one token, and for no more *)
(* than the context has.                                                   *)
LEMMA PromptRoom == \A max \in Nat : MaxPrompt(max) \in 1 .. NCtx
  BY DriverAssumption DEF MaxPrompt, Greater, Lesser

-----------------------------------------------------------------------------
(* What the operations of the cache do to its cells *)

Cells(cells) == DOMAIN cells \subseteq 0 .. NCtx - 1 /\ \A p \in DOMAIN cells : cells[p] \in Token \cup Nat
Dense(cells, n) == n \in 0 .. NCtx /\ DOMAIN cells = 0 .. n - 1

(* Cutting a cache keeps what is before the cut. *)
LEMMA UptoCells ==
    ASSUME NEW cells, Cells(cells), NEW n \in Int
    PROVE  /\ Cells(Upto(cells, n))
           /\ DOMAIN Upto(cells, n) = {q \in DOMAIN cells : q < n}
           /\ \A p \in DOMAIN cells : p < n => Upto(cells, n)[p] = cells[p]
           /\ \A m : Dense(cells, m) /\ n \in 0 .. m => Dense(Upto(cells, n), n)
  BY DriverAssumption DEF Upto, Cells, Dense

(* An empty cache. *)
LEMMA EmptyCells == Cells(Empty) /\ DOMAIN Empty = {} /\ Dense(Empty, 0)
  BY DriverAssumption DEF Empty, Upto, Cells, Dense

(* A decode adds the cells of its tokens. *)
LEMMA PlacedCells ==
    ASSUME NEW cells, Cells(cells), NEW at \in Nat, NEW toks \in Seq(Token \cup Nat),
           at + Len(toks) <= NCtx
    PROVE  /\ Cells(Placed(cells, at, toks))
           /\ \A i \in 1 .. Len(toks) : Placed(cells, at, toks)[at + i - 1] = toks[i]
           /\ \A p \in DOMAIN cells : p < at => Placed(cells, at, toks)[p] = cells[p]
           /\ Dense(cells, at) => Dense(Placed(cells, at, toks), at + Len(toks))
<1> USE DriverAssumption
<1> DEFINE D == DOMAIN cells \cup at .. at + Len(toks) - 1
<1>1. Len(toks) \in Nat /\ \A i \in 1 .. Len(toks) : toks[i] \in Token \cup Nat
  BY ElementOfSeq
<1>2. DOMAIN Placed(cells, at, toks) = D
  BY DEF Placed
<1>3. \A p \in D : Placed(cells, at, toks)[p] =
        IF p \in at .. at + Len(toks) - 1 THEN toks[p - at + 1] ELSE cells[p]
  BY DEF Placed
<1>4. D \subseteq 0 .. NCtx - 1
  BY <1>1 DEF Cells
<1>5. ASSUME NEW p \in D PROVE Placed(cells, at, toks)[p] \in Token \cup Nat
  <2>1. CASE p \in at .. at + Len(toks) - 1
    <3>1. p - at + 1 \in 1 .. Len(toks)
      BY <1>1, <2>1
    <3> QED BY <1>1, <1>3, <2>1, <3>1
  <2>2. CASE p \notin at .. at + Len(toks) - 1
    BY <1>3, <2>2 DEF Cells
  <2> QED BY <2>1, <2>2
<1>6. ASSUME NEW i \in 1 .. Len(toks) PROVE Placed(cells, at, toks)[at + i - 1] = toks[i]
  <2>1. at + i - 1 \in at .. at + Len(toks) - 1 /\ (at + i - 1) - at + 1 = i
    BY <1>1
  <2> QED BY <1>3, <2>1
<1>7. ASSUME NEW p \in DOMAIN cells, p < at PROVE Placed(cells, at, toks)[p] = cells[p]
  BY <1>3, <1>7 DEF Cells
<1>8. ASSUME Dense(cells, at) PROVE Dense(Placed(cells, at, toks), at + Len(toks))
  BY <1>1, <1>2, <1>8 DEF Dense
<1> QED
  BY <1>2, <1>4, <1>5, <1>6, <1>7, <1>8 DEF Cells

(* A shift moves the position back by n_discard, and what was behind n_keep *)
(* and the tokens dropped with it.                                         *)
LEMMA ShiftCells ==
    ASSUME Cells(kv), nCur \in 0 .. NCtx, promptLen \in Nat, NEW force \in BOOLEAN
    PROVE  /\ Cells(ShiftedKv(force)) /\ ShiftedCur(force) \in 0 .. nCur
           /\ Shifts(force) => /\ NKeep < ShiftedCur(force)
                              /\ ShiftedCur(force) = nCur - Discard
           /\ ~Shifts(force) => ShiftedKv(force) = kv /\ ShiftedCur(force) = nCur
           /\ Dense(kv, nCur) => Dense(ShiftedKv(force), ShiftedCur(force))
           /\ Shifts(force) =>
                \A p \in 0 .. ShiftedCur(force) - 1 : Dense(kv, nCur) =>
                  ShiftedKv(force)[p] = IF p < NKeep THEN kv[p] ELSE kv[p + Discard]
<1>n. NCtx \in Nat /\ Discard \in Nat \ {0} /\ NKeep \in Nat \ {0}
  BY DriverAssumption, KeepType
<1>1. CASE ~Shifts(force)
  BY <1>n, <1>1 DEF ShiftedKv, ShiftedCur
<1>2. CASE Shifts(force)
  <2>1. NKeep + Discard < nCur
    BY <1>2 DEF Shifts
  <2>2. ShiftedCur(force) = nCur - Discard
    BY <1>2 DEF ShiftedCur
  <2> DEFINE k == NKeep
             D == {q \in DOMAIN kv : q < k}
                    \cup {q - Discard : q \in {q \in DOMAIN kv : q >= k + Discard}}
  <2>3. ShiftedKv(force) = [p \in D |-> IF p < k THEN kv[p] ELSE kv[p + Discard]]
    BY <1>2 DEF ShiftedKv
  <2>4. k \in Nat \ {0} /\ k + Discard < nCur
    BY <1>n, <2>1
  <2> HIDE DEF k
  <2>5. DOMAIN kv \subseteq 0 .. NCtx - 1
    BY DEF Cells
  <2>6. \A p \in D : /\ p \in 0 .. NCtx - 1
                     /\ p < k => p \in DOMAIN kv
                     /\ p >= k => p + Discard \in DOMAIN kv
    BY <1>n, <2>4, <2>5
  <2>7. Cells(ShiftedKv(force))
    <3>1. DOMAIN ShiftedKv(force) = D
      BY <2>3
    <3>2. \A p \in DOMAIN kv : kv[p] \in Token \cup Nat
      BY DEF Cells
    <3>3. ASSUME NEW p \in D PROVE ShiftedKv(force)[p] \in Token \cup Nat
      <4>1. ShiftedKv(force)[p] = IF p < k THEN kv[p] ELSE kv[p + Discard]
        BY <2>3
      <4>2. p < k => p \in DOMAIN kv
        BY <2>6
      <4>3. ~(p < k) => p + Discard \in DOMAIN kv
        BY <2>4, <2>6
      <4> QED BY <3>2, <4>1, <4>2, <4>3
    <3> QED BY <2>6, <3>1, <3>3 DEF Cells
  <2>8. ASSUME Dense(kv, nCur) PROVE D = 0 .. nCur - Discard - 1
    <3>1. DOMAIN kv = 0 .. nCur - 1
      BY <2>8 DEF Dense
    <3>2. ASSUME NEW p \in 0 .. nCur - Discard - 1 PROVE p \in D
      <4>1. CASE p < k
        BY <1>n, <3>1, <4>1
      <4>2. CASE p >= k
        <5>1. p + Discard \in DOMAIN kv /\ p + Discard >= k + Discard /\ p = (p + Discard) - Discard
          BY <1>n, <2>4, <3>1, <4>2
        <5> QED BY <5>1
      <4> QED BY <2>4, <4>1, <4>2
    <3>3. ASSUME NEW p \in D PROVE p \in 0 .. nCur - Discard - 1
      BY <1>n, <2>4, <3>1
    <3> QED BY <3>2, <3>3
  <2>9. Dense(kv, nCur) => Dense(ShiftedKv(force), nCur - Discard)
    BY <1>n, <2>3, <2>4, <2>8 DEF Dense
  <2>10. ASSUME NEW p \in 0 .. ShiftedCur(force) - 1, Dense(kv, nCur)
         PROVE  ShiftedKv(force)[p] = IF p < k THEN kv[p] ELSE kv[p + Discard]
    BY <2>2, <2>3, <2>8, <2>10
  <2>11. ShiftedCur(force) \in 0 .. nCur /\ k < ShiftedCur(force)
    BY <1>n, <2>2, <2>4
  <2> QED
    BY <1>2, <2>2, <2>7, <2>9, <2>10, <2>11 DEF k
<1> QED BY <1>1, <1>2

-----------------------------------------------------------------------------
(* The beginning of a call *)

(* A text of prompts is one of prompts and answers. *)
LEMMA TokenText == \A s \in Seq(Token) : s \in Seq(Token \cup Nat)
  OBVIOUS

(* What a conversation of what is cached looks like. *)
LEMMA ContentsText ==
    ASSUME NEW cells, Cells(cells), NEW n \in Nat
    PROVE  /\ Contents(cells, n) \in Seq(Token \cup Nat) /\ Len(Contents(cells, n)) = n
           /\ \A i \in 1 .. n : i - 1 \in DOMAIN cells => Contents(cells, n)[i] = cells[i - 1]
<1>1. \A i \in 1 .. n : (IF i - 1 \in DOMAIN cells THEN cells[i - 1] ELSE Wrong) \in Token \cup Nat
  BY DEF Cells, Wrong
<1> DEFINE e(i) == IF i - 1 \in DOMAIN cells THEN cells[i - 1] ELSE Wrong
<1>2. Contents(cells, n) = [i \in 1 .. n |-> e(i)]
  BY DEF Contents
<1>3. \A i \in 1 .. n : e(i) \in Token \cup Nat
  BY <1>1
<1>4. \A i \in 1 .. n : i - 1 \in DOMAIN cells => e(i) = cells[i - 1]
  OBVIOUS
<1> HIDE DEF e
<1> QED
  BY <1>2, <1>3, <1>4

(* The tokens of the prompt that are left to decode end the conversation, and *)
(* what is cached begins it as far as it was remembered.                    *)
PromptAhead ==
    /\ nCur + Len(rest) = Len(conv)
    /\ \A i \in 1 .. Len(rest) : rest[i] = conv[nCur + i]
CacheBegins ==
    /\ Dense(kv, nCur)
    /\ \A p \in 0 .. nCur - 1 : kv[p] = conv[p + 1]

(* A call begins with a position, a rest and a conversation that fit. *)
LEMMA GenerateFacts ==
    ASSUME LlamaTypeOK, NEW p \in Prompts, NEW max \in MaxTokens, NEW pivot \in BOOLEAN,
           Generate(p, max, pivot)
    PROVE  /\ Cells(kv') /\ nCur' \in 0 .. NCtx /\ promptLen' \in Nat
           /\ rest' \in Seq(Token) /\ conv' \in Seq(Token \cup Nat)
           /\ PromptAhead'
           /\ Remembered => CacheBegins'
           /\ lastPrefilled = << >> => rest' # << >>
<1>p. p \in Seq(Token) /\ p # << >> /\ Len(p) \in Nat \ {0} /\ max \in Nat
  BY DriverAssumption
<1>kv. Cells(kv) /\ lastPrefilled \in Seq(Token) /\ Len(lastPrefilled) \in Nat
  BY DEF LlamaTypeOK, Cells
<1>n. NCtx \in Nat
  BY DriverAssumption
<1> DEFINE M == MaxPrompt(max)
<1>M. M \in 1 .. NCtx
  BY <1>p, PromptRoom
<1> HIDE DEF M
<1>empty. ASSUME NEW t, t \in Seq(Token), Len(t) > 0 PROVE t # << >>
  <2>1. Len(<< >>) = 0
    OBVIOUS
  <2> QED BY <1>empty, <2>1
<1>1. CASE Len(p) > M
  <2>1. /\ kv' = Upto(kv, 0) /\ nCur' = 0 /\ promptLen' = 0 + Len(rest')
        /\ rest' = LastOf(p, Lesser(Len(p) - 0, M)) /\ conv' = LastOf(p, M)
    BY <1>1 DEF Generate, M
  <2> DEFINE n == Lesser(Len(p) - 0, M)
  <2>2. n = M /\ Lesser(Len(p), M) = M
    BY <1>p, <1>M, <1>1 DEF Lesser
  <2>3. rest' = LastOf(p, M)
    BY <2>1, <2>2
  <2>4. conv' \in Seq(Token) /\ Len(conv') = M
    BY <1>p, <1>M, <2>1, <2>2, LastTokens
  <2>5. Cells(kv') /\ Dense(kv', 0)
    <3>1. Cells(Upto(kv, 0)) /\ DOMAIN Upto(kv, 0) = {q \in DOMAIN kv : q < 0}
      <4>1. 0 \in Int
        OBVIOUS
      <4> QED BY <1>kv, <4>1, UptoCells
    <3>2. DOMAIN Upto(kv, 0) = {}
      BY <1>kv, <1>n, <3>1 DEF Cells
    <3>3. Dense(Upto(kv, 0), 0)
      BY <1>n, <3>2 DEF Dense
    <3> QED BY <2>1, <3>1, <3>3
  <2>6. PromptAhead'
    BY <1>M, <2>1, <2>3, <2>4 DEF PromptAhead
  <2>7. CacheBegins'
    <3>1. Dense(kv', nCur')
      BY <2>1, <2>5
    <3>2. \A q \in 0 .. nCur' - 1 : FALSE
      BY <2>1
    <3> QED BY <3>1, <3>2 DEF CacheBegins
  <2>8. rest' # << >>
    BY <1>M, <1>empty, <2>1, <2>3, <2>4
  <2> QED BY <1>n, <1>M, <2>1, <2>3, <2>4, <2>5, <2>6, <2>7, <2>8, TokenText
<1>2. ASSUME Len(p) <= M, NEW k \in 0 .. Len(p), rest' = LastOf(p, Lesser(Len(p) - k, M))
      PROVE  /\ rest' \in Seq(Token) /\ Len(rest') = Len(p) - k
             /\ \A i \in 1 .. Len(rest') : rest'[i] = p[k + i]
  <2>1. Len(p) - k \in Nat /\ Lesser(Len(p) - k, M) = Len(p) - k
    BY <1>p, <1>M, <1>2 DEF Lesser
  <2>2. Lesser(Len(p), Len(p) - k) = Len(p) - k
    BY <1>p, <2>1 DEF Lesser
  <2>3. rest' = LastOf(p, Len(p) - k)
    BY <1>2, <2>1
  <2>4. /\ LastOf(p, Len(p) - k) \in Seq(Token)
        /\ Len(LastOf(p, Len(p) - k)) = Len(p) - k
        /\ \A i \in 1 .. Len(LastOf(p, Len(p) - k)) :
              LastOf(p, Len(p) - k)[i] = p[Len(p) - (Len(p) - k) + i]
    BY <1>p, <2>1, <2>2, LastTokens
  <2> QED BY <1>p, <2>3, <2>4
<1>3. CASE Len(p) <= M /\ pivot
  <2> DEFINE n == NextPos(kv)
  <2>0. ~(Len(p) > M)
    BY <1>3, <1>p, <1>M
  <2>1. /\ kv' = kv /\ nCur' = n /\ promptLen' = n + Len(rest')
        /\ rest' = LastOf(p, Lesser(Len(p) - 0, M)) /\ conv' = Contents(kv, n) \o p
    BY <1>3, <2>0 DEF Generate, M
  <2>2. n \in 0 .. NCtx
    BY <1>kv, NextPosition DEF Cells
  <2>3. rest' \in Seq(Token) /\ Len(rest') = Len(p) /\ \A i \in 1 .. Len(rest') : rest'[i] = p[i]
    BY <1>2, <1>3, <1>p, <2>1
  <2>d. Remembered => DOMAIN kv = 0 .. n - 1
    BY DEF Remembered
  <2> HIDE DEF n
  <2> DEFINE c == Contents(kv, n)
  <2>4. c \in Seq(Token \cup Nat) /\ Len(c) = n
        /\ \A i \in 1 .. n : i - 1 \in DOMAIN kv => c[i] = kv[i - 1]
    BY <1>kv, <2>2, ContentsText
  <2>c. conv' = c \o p
    BY <2>1
  <2> HIDE DEF c
  <2>5. /\ conv' \in Seq(Token \cup Nat) /\ Len(conv') = n + Len(p)
        /\ \A i \in 1 .. n + Len(p) : conv'[i] = IF i <= n THEN c[i] ELSE p[i - n]
    BY <1>p, <2>c, <2>4, TokenText, ConcatProperties
  <2>6. PromptAhead'
    <3>1. \A i \in 1 .. Len(p) : conv'[n + i] = p[i]
      BY <1>p, <2>2, <2>5
    <3> QED BY <2>1, <2>3, <2>5, <3>1 DEF PromptAhead
  <2>7. ASSUME Remembered PROVE CacheBegins'
    <3>1. Dense(kv, n)
      BY <2>2, <2>7, <2>d DEF Dense
    <3>2. ASSUME NEW q \in 0 .. n - 1 PROVE kv[q] = conv'[q + 1]
      <4>1. q + 1 \in 1 .. n /\ (q + 1) - 1 \in DOMAIN kv
        BY <2>2, <2>7, <2>d
      <4>2. c[q + 1] = kv[(q + 1) - 1]
        BY <2>4, <4>1
      <4>3. conv'[q + 1] = c[q + 1]
        BY <1>p, <2>2, <2>5, <4>1
      <4> QED BY <2>2, <4>2, <4>3
    <3> QED BY <2>1, <3>1, <3>2 DEF CacheBegins
  <2>8. rest' # << >>
    BY <1>p, <1>empty, <2>3
  <2> QED BY <1>kv, <1>n, <1>p, <2>1, <2>2, <2>3, <2>5, <2>6, <2>7, <2>8
<1>4. CASE Len(p) <= M /\ ~pivot
  <2> DEFINE m == Common(lastPrefilled, p)
  <2>1. /\ kv' = Upto(kv, m) /\ nCur' = m /\ promptLen' = m + Len(rest')
        /\ rest' = LastOf(p, Lesser(Len(p) - m, M)) /\ conv' = LastOf(p, M)
    BY <1>4, <1>p, <1>M DEF Generate, M
  <2>2. m \in 0 .. Lesser(Len(lastPrefilled), Len(p)) /\ \A i \in 1 .. m : lastPrefilled[i] = p[i]
    BY <1>kv, <1>p, CommonPrefix
  <2> HIDE DEF m
  <2>3. m \in 0 .. Len(p) /\ m <= Len(lastPrefilled) /\ m \in 0 .. NCtx
    BY <1>kv, <1>p, <1>n, <1>M, <1>4, <2>2 DEF Lesser
  <2>4. rest' \in Seq(Token) /\ Len(rest') = Len(p) - m /\ \A i \in 1 .. Len(rest') : rest'[i] = p[m + i]
    BY <1>2, <1>4, <2>1, <2>3
  <2>5. /\ conv' \in Seq(Token) /\ Len(conv') = Len(p)
        /\ \A i \in 1 .. Len(p) : conv'[i] = p[i]
    <3>1. Lesser(Len(p), M) = Len(p)
      BY <1>p, <1>M, <1>4 DEF Lesser
    <3>2. /\ LastOf(p, M) \in Seq(Token) /\ Len(LastOf(p, M)) = Len(p)
          /\ \A i \in 1 .. Len(LastOf(p, M)) : LastOf(p, M)[i] = p[Len(p) - Len(p) + i]
      BY <1>p, <1>M, <3>1, LastTokens
    <3> QED BY <1>p, <2>1, <3>2
  <2>u. /\ Cells(Upto(kv, m)) /\ \A q \in DOMAIN kv : q < m => Upto(kv, m)[q] = kv[q]
        /\ \A n : Dense(kv, n) /\ m \in 0 .. n => Dense(Upto(kv, m), m)
    <3>1. m \in Int
      BY <2>3
    <3> QED BY <1>kv, <3>1, UptoCells
  <2>6. Cells(kv') /\ \A q \in DOMAIN kv : q < m => kv'[q] = kv[q]
    BY <2>1, <2>u
  <2>7. PromptAhead'
    <3>1. nCur' + Len(rest') = Len(conv')
      BY <1>p, <2>1, <2>3, <2>4, <2>5
    <3>2. ASSUME NEW i \in 1 .. Len(rest') PROVE rest'[i] = conv'[nCur' + i]
      <4>1. m + i \in 1 .. Len(p)
        BY <1>p, <2>3, <2>4
      <4> QED BY <2>1, <2>4, <2>5, <4>1
    <3> QED BY <3>1, <3>2 DEF PromptAhead
  <2>8. ASSUME Remembered PROVE CacheBegins'
    <3> DEFINE n == NextPos(kv)
    <3>1. n \in 0 .. NCtx
      BY <1>kv, NextPosition DEF Cells
    <3>2. DOMAIN kv = 0 .. n - 1 /\ Len(lastPrefilled) <= n
          /\ \A i \in 1 .. Len(lastPrefilled) : kv[i - 1] = lastPrefilled[i]
      BY <2>8 DEF Remembered
    <3> HIDE DEF n
    <3>3. Dense(kv, n) /\ m \in 0 .. n
      BY <1>kv, <2>3, <3>1, <3>2 DEF Dense
    <3>4. Dense(kv', m)
      BY <2>1, <2>u, <3>3
    <3>5. ASSUME NEW q \in 0 .. m - 1 PROVE kv'[q] = conv'[q + 1]
      <4>1. q + 1 \in 1 .. m /\ q \in DOMAIN kv /\ (q + 1) - 1 = q
        BY <2>3, <3>1, <3>2, <3>3
      <4>2. kv'[q] = kv[q] /\ kv[q] = lastPrefilled[q + 1]
        BY <1>kv, <2>3, <2>6, <3>2, <4>1
      <4> QED BY <2>2, <2>3, <2>5, <4>1, <4>2
    <3> QED BY <2>1, <3>4, <3>5 DEF CacheBegins
  <2>9. ASSUME lastPrefilled = << >> PROVE rest' # << >>
    <3>1. Len(lastPrefilled) = 0
      BY <2>9
    <3>2. m = 0
      BY <2>3, <3>1
    <3> QED BY <1>p, <1>empty, <2>4, <3>2
  <2> QED BY <2>1, <2>3, <2>4, <2>5, <2>6, <2>7, <2>8, <2>9, TokenText
<1> QED
  BY <1>1, <1>3, <1>4, <1>M, <1>p

-----------------------------------------------------------------------------
(* Types, budgets and room *)

FileTypes == file # NoFile => Cells(file.cells) /\ file.tokens \in Seq(Token)

(* What is generated stays below the budget but for one batch of drafts, and *)
(* what is thought below ThinkCap; a batch is within the context.           *)
CountInv ==
    /\ pc \in {"idle", "ingest"} => nGen = 0 /\ suppressed = 0
    /\ pc \in {"idle", "ingest", "loop"} => drafts = << >>
    /\ pc = "loop" => nGen <= budget + MaxDrafts
    /\ pc = "decode" => nGen < budget
    /\ pc = "verify" => nGen <= budget /\ nCur + Len(drafts) <= NCtx
    /\ pc \in {"loop", "decode"} => suppressed < ThinkCap

TypeInv == LlamaTypeOK /\ FileTypes /\ CountInv

(* The types of what a call keeps. *)
LEMMA TypeFacts ==
    LlamaTypeOK => /\ Cells(kv) /\ lastPrefilled \in Seq(Token) /\ rest \in Seq(Token)
                   /\ drafts \in Seq(Nat) /\ Len(drafts) <= MaxDrafts /\ Len(drafts) \in Nat
                   /\ nCur \in 0 .. NCtx /\ promptLen \in Nat /\ budget \in Nat
                   /\ nGen \in Nat /\ suppressed \in 0 .. ThinkCap
                   /\ conv \in Seq(Token \cup Nat) /\ Len(conv) \in Nat
                   /\ NCtx \in Nat \ {0} /\ ThinkCap \in Nat \ {0} /\ MaxDrafts \in Nat
                   /\ Discard \in Nat \ {0} /\ Batch \in Nat \ {0}
  BY DriverAssumption DEF LlamaTypeOK, Cells

(* A call that returns leaves nothing but the cache and the file. *)
LEMMA ReturnTypes ==
    ASSUME TypeInv, Return, Cells(kv'), UNCHANGED engine
    PROVE  TypeInv'
<1>1. << >> \in Seq(Token) /\ << >> \in Seq(Nat) /\ << >> \in Seq(Token \cup Nat) /\ Len(<< >>) = 0
  OBVIOUS
<1>2. LlamaTypeOK'
  <2>1. 0 \in 0 .. NCtx /\ 0 \in 0 .. ThinkCap /\ 0 <= MaxDrafts
    BY DriverAssumption
  <2> QED BY <1>1, <2>1 DEF TypeInv, LlamaTypeOK, Return, Cells
<1>3. FileTypes'
  BY DEF TypeInv, FileTypes, Return, Cells
<1>4. CountInv'
  BY DEF CountInv, Return
<1> QED BY <1>2, <1>3, <1>4 DEF TypeInv

(* Between two calls only the cache, what is remembered of it and the file *)
(* change, and the engine around them.                                     *)
LEMMA IdleTypes ==
    ASSUME TypeInv, UNCHANGED <<api, call, history>>, Cells(kv'), lastPrefilled' \in Seq(Token),
           engine' \in {"none", "ready", "lost"}, FileTypes'
    PROVE  TypeInv'
<1>1. LlamaTypeOK'
  BY DEF TypeInv, LlamaTypeOK, Cells, call, history
<1>2. CountInv'
  BY DEF TypeInv, CountInv, call, history
<1> QED BY <1>1, <1>2 DEF TypeInv

(* The prompt that a prefill puts into an empty cache. *)
LEMMA PrefilledCells ==
    ASSUME NEW p \in Seq(Token), Len(p) <= NCtx
    PROVE  Cells(Placed(Empty, 0, p)) /\ Dense(Placed(Empty, 0, p), Len(p))
<1>1. p \in Seq(Token \cup Nat) /\ 0 \in Nat /\ 0 + Len(p) <= NCtx /\ Len(p) \in Nat
  BY TokenText
<1>2. /\ Cells(Placed(Empty, 0, p))
      /\ Dense(Empty, 0) => Dense(Placed(Empty, 0, p), 0 + Len(p))
  BY <1>1, EmptyCells, PlacedCells
<1> QED BY <1>1, <1>2, EmptyCells

(* Drafts are cut to what is left of the context. *)
LEMMA DraftRoom ==
    ASSUME NEW cur \in 0 .. NCtx
    PROVE  /\ DraftCap(cur) \in 0 .. MaxDrafts
           /\ DraftCap(cur) > 0 => cur + 2 + DraftCap(cur) <= NCtx
  BY DriverAssumption DEF DraftCap, Lesser, Greater

(* A step of a generation keeps the types and the budget. *)
LEMMA StreamTypes == TypeInv /\ Stream /\ UNCHANGED engine => TypeInv'
<1> SUFFICES ASSUME TypeInv, Stream, UNCHANGED engine PROVE TypeInv'
  OBVIOUS
<1>t. LlamaTypeOK /\ FileTypes /\ CountInv
  BY DEF TypeInv
<1>f. /\ Cells(kv) /\ lastPrefilled \in Seq(Token) /\ rest \in Seq(Token)
      /\ drafts \in Seq(Nat) /\ Len(drafts) <= MaxDrafts /\ Len(drafts) \in Nat
      /\ nCur \in 0 .. NCtx /\ promptLen \in Nat /\ budget \in Nat
      /\ nGen \in Nat /\ suppressed \in 0 .. ThinkCap
      /\ conv \in Seq(Token \cup Nat) /\ Len(conv) \in Nat
      /\ NCtx \in Nat \ {0} /\ ThinkCap \in Nat \ {0} /\ MaxDrafts \in Nat
      /\ Discard \in Nat \ {0} /\ Batch \in Nat \ {0}
  BY <1>t, TypeFacts
<1>shift. ASSUME NEW force \in BOOLEAN
          PROVE  /\ Cells(ShiftedKv(force)) /\ ShiftedCur(force) \in 0 .. NCtx
                 /\ ShiftedCur(force) \in Nat
  <2>1. Cells(ShiftedKv(force)) /\ ShiftedCur(force) \in 0 .. nCur
    BY <1>f, ShiftCells
  <2>2. nCur \in Nat /\ nCur <= NCtx /\ NCtx \in Nat
    BY <1>f
  <2> QED BY <2>1, <2>2
<1>upto. ASSUME NEW n \in Int PROVE Cells(Upto(kv, n))
  BY <1>f, UptoCells
<1>1. ASSUME NEW p \in Prompts, NEW max \in MaxTokens, NEW pivot \in BOOLEAN,
             Generate(p, max, pivot)
      PROVE  TypeInv'
  <2>1. /\ Cells(kv') /\ nCur' \in 0 .. NCtx /\ promptLen' \in Nat
        /\ rest' \in Seq(Token) /\ conv' \in Seq(Token \cup Nat)
    BY <1>1, <1>t, GenerateFacts
  <2>2. /\ pc = "idle" /\ pc' = "ingest" /\ budget' = max /\ sound' = Remembered
        /\ UNCHANGED <<api, lastPrefilled, file, nGen, suppressed, drafts, fresh>>
    BY <1>1 DEF Generate
  <2>3. budget' \in Nat /\ sound' \in BOOLEAN
    BY <2>2, DriverAssumption DEF Remembered
  <2>4. LlamaTypeOK'
    BY <1>t, <2>1, <2>2, <2>3 DEF LlamaTypeOK, Cells
  <2>5. FileTypes' /\ CountInv'
    BY <1>t, <2>2 DEF FileTypes, Cells, CountInv
  <2> QED BY <2>4, <2>5 DEF TypeInv
<1>2. ASSUME NEW pivot \in BOOLEAN, Rejected(pivot) PROVE TypeInv'
  <2>1. Len(lastPrefilled) \in Int
    BY <1>f
  <2>2. Cells(kv') /\ Return
    BY <1>2, <1>f, <1>upto, <2>1 DEF Rejected
  <2> QED BY <2>2, ReturnTypes
<1>3. CASE IngestChunk
  <2> DEFINE n == Lesser(Batch, Len(rest))
  <2>1. n \in 0 .. Len(rest)
    BY <1>f DEF Lesser
  <2>2. /\ pc = "ingest" /\ nCur + n <= NCtx
        /\ kv' = Placed(kv, nCur, SubSeq(rest, 1, n))
        /\ rest' = SubSeq(rest, n + 1, Len(rest)) /\ nCur' = nCur + n /\ fresh' = TRUE
        /\ UNCHANGED <<api, lastPrefilled, file, pc, promptLen, budget, nGen, suppressed,
                       drafts, conv, sound>>
    BY <1>3 DEF IngestChunk
  <2> HIDE DEF n
  <2>3. SubSeq(rest, 1, n) \in Seq(Token) /\ Len(SubSeq(rest, 1, n)) = n
        /\ SubSeq(rest, n + 1, Len(rest)) \in Seq(Token)
    BY <1>f, <2>1, FirstTokens
  <2>4. SubSeq(rest, 1, n) \in Seq(Token \cup Nat) /\ nCur \in Nat
    BY <1>f, <2>3, TokenText
  <2>5. Cells(kv')
    BY <1>f, <2>2, <2>3, <2>4, PlacedCells
  <2>6. nCur' \in 0 .. NCtx
    BY <1>f, <2>1, <2>2
  <2>7. LlamaTypeOK'
    BY <1>t, <2>2, <2>3, <2>5, <2>6 DEF LlamaTypeOK, Cells
  <2>8. FileTypes' /\ CountInv'
    BY <1>t, <2>2 DEF FileTypes, Cells, CountInv
  <2> QED BY <2>7, <2>8 DEF TypeInv
<1>4. CASE IngestFails
  BY <1>4, <1>f, ReturnTypes DEF IngestFails
<1>5. CASE FirstSample
  <2>1. /\ pc = "ingest" /\ pc' = "loop"
        /\ UNCHANGED <<api, kv, lastPrefilled, file, rest, nCur, promptLen, budget, nGen,
                       suppressed, drafts, history>>
    BY <1>5 DEF FirstSample
  <2>2. LlamaTypeOK' /\ FileTypes'
    BY <1>t, <2>1 DEF LlamaTypeOK, FileTypes, Cells, history
  <2>3. CountInv'
    BY <1>t, <1>f, <2>1 DEF CountInv
  <2> QED BY <2>2, <2>3 DEF TypeInv
<1>6. CASE Stop
  BY <1>6, <1>f, ReturnTypes DEF Stop
<1>7. CASE LastToken
  BY <1>7, <1>shift, ReturnTypes DEF LastToken
<1>8. CASE NextToken
  <2>1. /\ pc = "loop" /\ nGen < budget /\ pc' = "decode"
        /\ kv' = ShiftedKv(FALSE) /\ nCur' = ShiftedCur(FALSE)
        /\ UNCHANGED <<api, lastPrefilled, file, rest, promptLen, budget, nGen, suppressed, history>>
    BY <1>8 DEF NextToken, MoreTokens
  <2> DEFINE cur == ShiftedCur(FALSE)
  <2>2. PICK d \in 0 .. DraftCap(cur), good \in 0 .. MaxDrafts :
          drafts' = [i \in 1 .. d |-> IF i <= good THEN Len(conv) + 1 + i ELSE Wrong]
    BY <1>8 DEF NextToken
  <2>s. Cells(ShiftedKv(FALSE)) /\ cur \in 0 .. NCtx
    BY <1>shift
  <2>3. Cells(kv') /\ nCur' \in 0 .. NCtx
    BY <2>1, <2>s
  <2> HIDE DEF cur
  <2>4. DraftCap(cur) \in 0 .. MaxDrafts
    BY <2>s, DraftRoom
  <2>5. d \in Nat /\ d <= MaxDrafts
    BY <1>f, <2>4
  <2>6. \A i \in 1 .. d : (IF i <= good THEN Len(conv) + 1 + i ELSE Wrong) \in Nat
    BY <1>f, <2>5 DEF Wrong
  <2>7. drafts' \in Seq(Nat) /\ Len(drafts') = d
    BY <2>2, <2>5, <2>6
  <2>8. LlamaTypeOK'
    BY <1>t, <2>1, <2>3, <2>5, <2>7 DEF LlamaTypeOK, Cells, history
  <2>9. FileTypes' /\ CountInv'
    BY <1>t, <2>1 DEF FileTypes, Cells, CountInv
  <2> QED BY <2>8, <2>9 DEF TypeInv
<1>9. CASE Decode
  <2>1. PICK emergency \in BOOLEAN, thinking \in BOOLEAN :
          LET at == IF emergency THEN ShiftedCur(TRUE) ELSE nCur
          IN  /\ at + 1 + Len(drafts) <= NCtx
              /\ kv' = Placed(IF emergency THEN ShiftedKv(TRUE) ELSE kv, at,
                              <<Len(conv) + 1>> \o drafts)
              /\ nCur' = at + 1
              /\ conv' = Append(conv, Len(conv) + 1)
              /\ nGen' = IF thinking THEN nGen ELSE nGen + 1
              /\ suppressed' = IF thinking THEN suppressed + 1 ELSE suppressed
    BY <1>9, DriverAssumption DEF Decode
  <2>2. /\ pc = "decode" /\ pc' = "verify"
        /\ UNCHANGED <<api, lastPrefilled, file, rest, promptLen, budget, drafts, sound, fresh>>
    BY <1>9 DEF Decode
  <2> DEFINE at == IF emergency THEN ShiftedCur(TRUE) ELSE nCur
             cells == IF emergency THEN ShiftedKv(TRUE) ELSE kv
             toks == <<Len(conv) + 1>> \o drafts
  <2>3. Cells(cells) /\ at \in Nat
    <3>1. Cells(ShiftedKv(TRUE)) /\ ShiftedCur(TRUE) \in Nat
      BY <1>shift
    <3>2. CASE emergency
      BY <1>f, <3>1, <3>2
    <3>3. CASE ~emergency
      BY <1>f, <3>3
    <3> QED BY <3>2, <3>3
  <2>4. toks \in Seq(Nat) /\ Len(toks) = 1 + Len(drafts)
    BY <1>f
  <2>5. kv' = Placed(cells, at, toks) /\ at + 1 + Len(drafts) <= NCtx /\ nCur' = at + 1
    BY <2>1
  <2> HIDE DEF at, cells, toks
  <2>6. toks \in Seq(Token \cup Nat) /\ at + Len(toks) <= NCtx
    <3>1. toks \in Seq(Token \cup Nat)
      BY <2>4
    <3>2. Len(drafts) \in Nat
      BY <1>f
    <3> QED BY <2>3, <2>4, <2>5, <3>1, <3>2
  <2>7. Cells(kv')
    BY <2>3, <2>5, <2>6, PlacedCells
  <2>8. nCur' \in 0 .. NCtx /\ nCur' + Len(drafts) <= NCtx
    BY <1>f, <2>3, <2>5
  <2>9. suppressed < ThinkCap /\ nGen < budget
    BY <1>t, <2>2 DEF CountInv
  <2>10. nGen' \in Nat /\ nGen' <= budget /\ suppressed' \in 0 .. ThinkCap
    BY <1>f, <2>1, <2>9
  <2>11. conv' \in Seq(Token \cup Nat)
    BY <1>f, <2>1
  <2>12. LlamaTypeOK'
    BY <1>t, <2>2, <2>7, <2>8, <2>10, <2>11 DEF LlamaTypeOK, Cells
  <2>13. FileTypes' /\ CountInv'
    BY <1>t, <2>2, <2>8, <2>10 DEF FileTypes, Cells, CountInv
  <2> QED BY <2>12, <2>13 DEF TypeInv
<1>10. CASE DecodeFails
  <2>1. Cells(kv') /\ Return
    <3>1. Cells(ShiftedKv(TRUE))
      BY <1>shift
    <3> QED BY <1>10, <1>f, <3>1 DEF DecodeFails
  <2> QED BY <2>1, ReturnTypes
<1>11. CASE GiveUp
  BY <1>11, <1>f, ReturnTypes DEF GiveUp
<1>12. CASE Verify
  <2>1. PICK n \in 0 .. MaxDrafts, thought \in 0 .. MaxDrafts :
          /\ n <= Len(drafts) /\ thought <= n
          /\ thought > 0 => suppressed + thought < ThinkCap
          /\ nCur' = nCur + n /\ conv' = conv \o SubSeq(drafts, 1, n)
          /\ nGen' = nGen + n - thought /\ suppressed' = suppressed + thought
    BY <1>12 DEF Verify
  <2>2. /\ pc = "verify" /\ pc' = "loop" /\ ~(suppressed >= ThinkCap)
        /\ kv' = Upto(kv, nCur') /\ drafts' = << >>
        /\ UNCHANGED <<api, lastPrefilled, file, rest, promptLen, budget, sound, fresh>>
    BY <1>12 DEF Verify, GivesUp, RollBack
  <2>3. nGen <= budget /\ nCur + Len(drafts) <= NCtx
    BY <1>t, <2>2 DEF CountInv
  <2>4. nCur' \in 0 .. NCtx /\ nGen' \in Nat /\ nGen' <= budget + MaxDrafts
        /\ suppressed' \in 0 .. ThinkCap /\ suppressed' < ThinkCap
    BY <1>f, <2>1, <2>2, <2>3
  <2>5. Cells(kv')
    <3>1. nCur' \in Int
      BY <2>4
    <3> QED BY <1>upto, <2>2, <3>1
  <2>6. conv' \in Seq(Token \cup Nat)
    <3>1. n \in 0 .. Len(drafts)
      BY <1>f, <2>1
    <3>2. SubSeq(drafts, 1, n) \in Seq(Nat)
      BY <1>f, <3>1, FirstTokens
    <3>3. SubSeq(drafts, 1, n) \in Seq(Token \cup Nat)
      BY <3>2
    <3> QED BY <1>f, <2>1, <3>3, ConcatProperties
  <2>7. << >> \in Seq(Nat) /\ Len(<< >>) = 0
    OBVIOUS
  <2>8. LlamaTypeOK'
    BY <1>t, <1>f, <2>2, <2>4, <2>5, <2>6, <2>7 DEF LlamaTypeOK, Cells
  <2>9. FileTypes' /\ CountInv'
    BY <1>t, <2>2, <2>4 DEF FileTypes, Cells, CountInv
  <2> QED BY <2>8, <2>9 DEF TypeInv
<1>13. CASE VerifyLast
  <2>1. PICK n \in 0 .. MaxDrafts : kv' = Upto(kv, nCur + n)
    BY <1>13 DEF VerifyLast, RollBack
  <2>2. nCur + n \in Int
    BY <1>f
  <2>3. Cells(kv')
    BY <1>upto, <2>1, <2>2
  <2> QED BY <1>13, <2>3, ReturnTypes DEF VerifyLast
<1> QED
  BY <1>1, <1>2, <1>3, <1>4, <1>5, <1>6, <1>7, <1>8, <1>9, <1>10, <1>11, <1>12, <1>13 DEF Stream

(* Linking a kernel gives an engine or none. *)
LEMMA LinkedEngines == ByHub \cup ByDispatcher \subseteq {"none", "ready"}
  BY DEF ByHub, ByDispatcher, Linked, Instance

(* A resize gives an engine, or loses its context. *)
LEMMA ResizedEngines == Resized \subseteq {"ready", "lost"}
  BY DEF Resized

(* The calls between two generations, and what they do to the cache. *)
LEMMA CacheCalls ==
    ASSUME TypeInv, Cache
    PROVE  /\ pc = "idle" /\ UNCHANGED <<api, call, history>> /\ Cells(kv')
           /\ lastPrefilled' \in Seq(Token) /\ FileTypes'
<1>f. Cells(kv) /\ lastPrefilled \in Seq(Token) /\ FileTypes
  BY TypeFacts DEF TypeInv
<1>1. CASE DumpCache
  <2>1. /\ pc = "idle" /\ UNCHANGED <<api, kv, lastPrefilled, call, history>>
        /\ file' = [cells |-> kv, tokens |-> lastPrefilled]
    BY <1>1 DEF DumpCache
  <2>2. file'.cells = kv /\ file'.tokens = lastPrefilled
    BY <2>1
  <2>3. Cells(file'.cells) /\ Cells(kv')
    BY <1>f, <2>1, <2>2
  <2> QED BY <1>f, <2>1, <2>2, <2>3 DEF FileTypes, Cells
<1>2. CASE LoadCache
  BY <1>2, <1>f DEF LoadCache, FileTypes, Cells
<1>3. CASE LoadFails
  BY <1>3, <1>f, EmptyCells DEF LoadFails, FileTypes, Cells
<1>4. ASSUME NEW p \in Prompts, Prefill(p)
      PROVE  /\ pc = "idle" /\ UNCHANGED <<api, call, history>> /\ Cells(kv')
             /\ lastPrefilled' \in Seq(Token) /\ FileTypes'
  <2>1. p \in Seq(Token)
    BY DriverAssumption
  <2>2. /\ pc = "idle" /\ Len(p) <= NCtx /\ kv' = Placed(Empty, 0, p) /\ lastPrefilled' = p
        /\ UNCHANGED <<api, file, call, history>>
    BY <1>4 DEF Prefill
  <2>3. Cells(kv')
    BY <2>1, <2>2, PrefilledCells
  <2> QED BY <1>f, <2>1, <2>2, <2>3 DEF FileTypes, Cells
<1>5. ASSUME NEW p \in Prompts, PrefillFails(p)
      PROVE  /\ pc = "idle" /\ UNCHANGED <<api, call, history>> /\ Cells(kv')
             /\ lastPrefilled' \in Seq(Token) /\ FileTypes'
  <2>1. p \in Seq(Token) /\ Len(p) \in Nat /\ NCtx \in Nat
    BY DriverAssumption
  <2>2. PICK n \in 0 .. NCtx : n < Len(p) /\ kv' = Placed(Empty, 0, SubSeq(p, 1, n))
    BY <1>5 DEF PrefillFails
  <2>3. pc = "idle" /\ UNCHANGED <<api, lastPrefilled, file, call, history>>
    BY <1>5 DEF PrefillFails
  <2>4. n \in 0 .. Len(p) /\ n <= NCtx
    BY <2>1, <2>2
  <2>5. SubSeq(p, 1, n) \in Seq(Token) /\ Len(SubSeq(p, 1, n)) = n
    BY <2>1, <2>4, FirstTokens
  <2>6. Cells(kv')
    BY <2>2, <2>4, <2>5, PrefilledCells
  <2> QED BY <1>f, <2>3, <2>6 DEF FileTypes, Cells
<1> QED
  BY <1>1, <1>2, <1>3, <1>4, <1>5 DEF Cache

(* So does every step of the engine. *)
LEMMA LinkTypes == TypeInv /\ [LinkNext]_linkVars => TypeInv'
<1> SUFFICES ASSUME TypeInv, LinkNext PROVE TypeInv'
  <2>1. ASSUME TypeInv, UNCHANGED linkVars PROVE TypeInv'
    BY <2>1 DEF TypeInv, LlamaTypeOK, FileTypes, CountInv, Cells, linkVars, vars, call, history
  <2> QED BY <2>1
<1>f. /\ Cells(kv) /\ lastPrefilled \in Seq(Token) /\ FileTypes
      /\ engine \in {"none", "ready", "lost"}
  BY TypeFacts DEF TypeInv, LlamaTypeOK
<1>e. << >> \in Seq(Token)
  OBVIOUS
<1>1. CASE LoadModel
  <2>1. engine' \in {"none", "ready", "lost"} /\ UNCHANGED vars
    BY <1>1, LinkedEngines DEF LoadModel
  <2>2. UNCHANGED <<api, kv, lastPrefilled, file, call, history>>
    BY <2>1 DEF vars
  <2> QED BY <1>f, <2>1, <2>2, IdleTypes DEF FileTypes, Cells
<1>2. CASE CallStream
  BY <1>2, StreamTypes DEF CallStream
<1>3. CASE CallCache
  <2>1. Cache /\ UNCHANGED engine
    BY <1>3 DEF CallCache
  <2> QED BY <1>f, <2>1, CacheCalls, IdleTypes
<1>4. CASE InjectSignals
  BY <1>4 DEF InjectSignals, TypeInv, LlamaTypeOK, FileTypes, CountInv, Cells, linkVars, vars, call, history
<1>5. CASE ApplyBooster
  <2>1. /\ engine' \in {"none", "ready", "lost"} /\ kv' = Empty
        /\ UNCHANGED <<api, lastPrefilled, file, call, history>>
    BY <1>5, ResizedEngines DEF ApplyBooster
  <2> QED BY <1>f, <2>1, EmptyCells, IdleTypes DEF FileTypes, Cells
<1>6. CASE Drop \/ NullContext
  <2>1. Ended
    BY <1>6 DEF Drop, NullContext
  <2>2. /\ engine' = "none" /\ kv' = Empty /\ lastPrefilled' = << >>
        /\ UNCHANGED <<api, file, call, history>>
    BY <2>1 DEF Ended
  <2> QED BY <1>f, <1>e, <2>2, EmptyCells, IdleTypes DEF FileTypes, Cells
<1> QED
  BY <1>1, <1>2, <1>3, <1>4, <1>5, <1>6 DEF LinkNext

(* An engine that is not there yet. *)
LEMMA LinkInitTypes == LinkInit => TypeInv
<1> SUFFICES ASSUME LinkInit PROVE TypeInv
  OBVIOUS
<1>1. << >> \in Seq(Token) /\ << >> \in Seq(Nat) /\ << >> \in Seq(Token \cup Nat) /\ Len(<< >>) = 0
  OBVIOUS
<1>2. 0 \in 0 .. NCtx /\ 0 \in 0 .. ThinkCap /\ 0 <= MaxDrafts
  BY DriverAssumption
<1>3. LlamaTypeOK
  BY <1>1, <1>2, EmptyCells DEF LinkInit, Init, LlamaTypeOK, Cells
<1>4. FileTypes /\ CountInv
  BY DEF LinkInit, Init, FileTypes, CountInv
<1> QED BY <1>3, <1>4 DEF TypeInv

-----------------------------------------------------------------------------
(* The window of the conversation *)

(* The first n cells are the head of a text up to keep, and its tail. *)
Window(cells, n, text, keep) ==
    /\ n <= Len(text) /\ (n < Len(text) => keep <= n)
    /\ \A p \in 0 .. n - 1 :
         cells[p] = text[IF n = Len(text) \/ p < keep THEN p + 1 ELSE p + 1 + Len(text) - n]

(* Position, cache and conversation agree at every place of a generation. *)
WindowInv ==
    sound =>
      /\ pc = "ingest" => CacheBegins /\ PromptAhead
      /\ pc \in {"loop", "decode"} => Dense(kv, nCur) /\ Window(kv, nCur, conv, NKeep)
      /\ pc = "verify" => /\ Dense(kv, nCur + Len(drafts)) /\ Window(kv, nCur, conv, NKeep)
                         /\ \A i \in 1 .. Len(drafts) : kv[nCur + i - 1] = drafts[i]

(* Cells that are decoded behind a window extend it by their tokens. *)
LEMMA GrownWindow ==
    ASSUME NEW cells, NEW more, NEW n \in Nat, NEW keep \in Nat,
           NEW S, NEW text \in Seq(S), NEW e \in Seq(S),
           Window(cells, n, text, keep),
           \A p \in 0 .. n - 1 : more[p] = cells[p],
           \A i \in 1 .. Len(e) : more[n + i - 1] = e[i]
    PROVE  Window(more, n + Len(e), text \o e, keep)
<1> DEFINE L == Len(text)
           m == Len(e)
           t == text \o e
<1>1. L \in Nat /\ m \in Nat
  OBVIOUS
<1>2. Len(t) = L + m /\ \A i \in 1 .. L + m : t[i] = IF i <= L THEN text[i] ELSE e[i - L]
  BY ConcatProperties
<1>3. /\ n <= L /\ (n < L => keep <= n)
      /\ \A p \in 0 .. n - 1 : cells[p] = text[IF n = L \/ p < keep THEN p + 1 ELSE p + 1 + L - n]
  BY DEF Window
<1>e. \A i \in 1 .. m : more[n + i - 1] = e[i]
  OBVIOUS
<1> HIDE DEF L, m, t
<1> DEFINE q == n + m
<1>q. q \in Nat /\ q - n = m /\ Len(t) \in Nat /\ Len(t) - q = L - n /\ (q = Len(t) <=> n = L)
  BY <1>1, <1>2
<1> HIDE DEF q
<1>4. ASSUME NEW p \in 0 .. q - 1
      PROVE  more[p] = t[IF q = Len(t) \/ p < keep THEN p + 1 ELSE p + 1 + Len(t) - q]
  <2> DEFINE j == IF n = L \/ p < keep THEN p + 1 ELSE p + 1 + L - n
  <2>1. (IF q = Len(t) \/ p < keep THEN p + 1 ELSE p + 1 + Len(t) - q) = j
    BY <1>1, <1>q
  <2>2. CASE p < n
    <3>1. p \in 0 .. n - 1
      BY <1>1, <2>2
    <3>2. more[p] = text[j]
      BY <1>3, <3>1
    <3>3. j \in 1 .. L
      BY <1>1, <1>3, <3>1
    <3>4. j \in 1 .. L + m /\ j <= L
      BY <1>1, <3>3
    <3> HIDE DEF j
    <3> QED BY <1>2, <2>1, <3>2, <3>4
  <2>3. CASE p >= n
    <3>1. p - n + 1 \in 1 .. m /\ n + (p - n + 1) - 1 = p
      BY <1>1, <1>q, <2>3
    <3>2. more[p] = e[p - n + 1]
      BY <1>e, <3>1
    <3>3. j = L + (p - n + 1)
      BY <1>1, <1>3, <2>3
    <3>4. j \in 1 .. L + m /\ ~(j <= L) /\ j - L = p - n + 1
      BY <1>1, <3>1, <3>3
    <3> HIDE DEF j
    <3> QED BY <1>2, <2>1, <3>2, <3>4
  <2> QED BY <1>1, <2>2, <2>3
<1>5. q <= Len(t) /\ (q < Len(t) => keep <= q)
  BY <1>1, <1>3, <1>q
<1>6. Window(more, q, t, keep)
  BY <1>4, <1>5 DEF Window
<1> QED BY <1>6 DEF q, m, t

(* A shift leaves a window of the same conversation. *)
LEMMA ShiftedWindow ==
    ASSUME Cells(kv), nCur \in 0 .. NCtx, promptLen \in Nat, conv \in Seq(Token \cup Nat),
           Dense(kv, nCur), Window(kv, nCur, conv, NKeep), NEW force \in BOOLEAN
    PROVE  /\ Dense(ShiftedKv(force), ShiftedCur(force))
           /\ Window(ShiftedKv(force), ShiftedCur(force), conv, NKeep)
<1>a. /\ ShiftedCur(force) \in 0 .. nCur
      /\ Shifts(force) => /\ NKeep < ShiftedCur(force)
                         /\ ShiftedCur(force) = nCur - Discard
      /\ ~Shifts(force) => ShiftedKv(force) = kv /\ ShiftedCur(force) = nCur
      /\ Dense(ShiftedKv(force), ShiftedCur(force))
      /\ Shifts(force) =>
           \A p \in 0 .. ShiftedCur(force) - 1 :
             ShiftedKv(force)[p] = IF p < NKeep THEN kv[p] ELSE kv[p + Discard]
  BY ShiftCells
<1> DEFINE c == ShiftedCur(force)
           cells == ShiftedKv(force)
           k == NKeep
           L == Len(conv)
<1>1. NCtx \in Nat /\ nCur \in Nat /\ Discard \in Nat \ {0} /\ k \in Nat \ {0} /\ L \in Nat
  BY DriverAssumption, KeepType
<1>2. Dense(cells, c)
  BY <1>a
<1>3. CASE ~Shifts(force)
  <2>1. cells = kv /\ c = nCur
    BY <1>3, <1>a
  <2> QED BY <1>2, <2>1
<1>4. CASE Shifts(force)
  <2>1. /\ k < c /\ c = nCur - Discard
        /\ \A p \in 0 .. c - 1 : cells[p] = IF p < k THEN kv[p] ELSE kv[p + Discard]
    BY <1>4, <1>a
  <2>2. /\ nCur <= L /\ (nCur < L => k <= nCur)
        /\ \A p \in 0 .. nCur - 1 : kv[p] = conv[IF nCur = L \/ p < k THEN p + 1 ELSE p + 1 + L - nCur]
    BY DEF Window
  <2> HIDE DEF c, cells, k, L
  <2>3. c \in Nat /\ c < L
    BY <1>1, <2>1, <2>2
  <2>4. ASSUME NEW p \in 0 .. c - 1
        PROVE  cells[p] = conv[IF c = L \/ p < k THEN p + 1 ELSE p + 1 + L - c]
    <3>1. CASE p < k
      <4>1. p \in 0 .. nCur - 1
        BY <1>1, <2>1
      <4> QED BY <2>1, <2>2, <3>1, <4>1
    <3>2. CASE ~(p < k)
      <4>1. p + Discard \in 0 .. nCur - 1 /\ ~(p + Discard < k)
        BY <1>1, <2>1, <3>2
      <4>2. (IF nCur = L \/ p + Discard < k THEN p + Discard + 1 ELSE p + Discard + 1 + L - nCur)
              = p + 1 + L - c
        BY <1>1, <2>1, <2>2, <3>2
      <4>3. kv[p + Discard] = conv[p + 1 + L - c]
        BY <2>2, <4>1, <4>2
      <4>4. (IF c = L \/ p < k THEN p + 1 ELSE p + 1 + L - c) = p + 1 + L - c
        BY <1>1, <2>3, <3>2
      <4> QED BY <2>1, <3>2, <4>3, <4>4
    <3> QED BY <3>1, <3>2
  <2>5. Window(cells, c, conv, k)
    BY <1>1, <2>1, <2>3, <2>4 DEF Window, L
  <2> QED BY <1>2, <2>5 DEF c, cells, k
<1> QED BY <1>3, <1>4

(* Chunks of the prompt, tokens, drafts and shifts keep the window. *)
LEMMA StreamWindow == TypeInv /\ WindowInv /\ Stream => WindowInv'
<1> SUFFICES ASSUME TypeInv, WindowInv, Stream PROVE WindowInv'
  OBVIOUS
<1>t. LlamaTypeOK /\ CountInv
  BY DEF TypeInv
<1>f. /\ Cells(kv) /\ rest \in Seq(Token) /\ Len(rest) \in Nat
      /\ drafts \in Seq(Nat) /\ Len(drafts) \in Nat
      /\ nCur \in 0 .. NCtx /\ nCur \in Nat /\ promptLen \in Nat
      /\ conv \in Seq(Token \cup Nat) /\ Len(conv) \in Nat
      /\ NCtx \in Nat \ {0} /\ Batch \in Nat \ {0} /\ NKeep \in Nat
  BY <1>t, TypeFacts, KeepType
<1>shift. ASSUME NEW force \in BOOLEAN, Dense(kv, nCur), Window(kv, nCur, conv, NKeep)
          PROVE  /\ Cells(ShiftedKv(force)) /\ ShiftedCur(force) \in Nat
                 /\ Dense(ShiftedKv(force), ShiftedCur(force))
                 /\ Window(ShiftedKv(force), ShiftedCur(force), conv, NKeep)
  <2>1. Cells(ShiftedKv(force)) /\ ShiftedCur(force) \in 0 .. nCur
    BY <1>f, ShiftCells
  <2>2. ShiftedCur(force) \in Nat
    BY <1>f, <2>1
  <2> QED BY <1>f, <1>shift, <2>1, <2>2, ShiftedWindow
<1>return. ASSUME Return PROVE WindowInv'
  BY <1>return DEF Return, WindowInv
<1>1. ASSUME NEW p \in Prompts, NEW max \in MaxTokens, NEW pivot \in BOOLEAN,
             Generate(p, max, pivot)
      PROVE  WindowInv'
  <2>1. PromptAhead' /\ (Remembered => CacheBegins')
    BY <1>1, <1>t, GenerateFacts
  <2>2. pc' = "ingest" /\ sound' = Remembered
    BY <1>1 DEF Generate
  <2> QED BY <2>1, <2>2 DEF WindowInv
<1>2. CASE IngestChunk
  <2> SUFFICES ASSUME sound, pc = "ingest", pc' = "ingest" PROVE CacheBegins' /\ PromptAhead'
    BY <1>2 DEF IngestChunk, WindowInv
  <2> DEFINE n == Lesser(Batch, Len(rest))
             toks == SubSeq(rest, 1, n)
  <2>1. n \in 0 .. Len(rest) /\ n \in Nat
    BY <1>f DEF Lesser
  <2>2. /\ nCur + n <= NCtx /\ kv' = Placed(kv, nCur, toks)
        /\ rest' = SubSeq(rest, n + 1, Len(rest)) /\ nCur' = nCur + n /\ conv' = conv
    BY <1>2 DEF IngestChunk
  <2>3. /\ toks \in Seq(Token) /\ Len(toks) = n
        /\ \A i \in 1 .. n : toks[i] = rest[i]
        /\ Len(SubSeq(rest, n + 1, Len(rest))) = Len(rest) - n
        /\ \A i \in 1 .. Len(rest) - n : SubSeq(rest, n + 1, Len(rest))[i] = rest[n + i]
    <3> HIDE DEF n
    <3> QED BY <1>f, <2>1, FirstTokens
  <2> HIDE DEF n, toks
  <2>4. /\ Dense(kv, nCur) /\ \A p \in 0 .. nCur - 1 : kv[p] = conv[p + 1]
        /\ nCur + Len(rest) = Len(conv)
        /\ \A i \in 1 .. Len(rest) : rest[i] = conv[nCur + i]
    BY DEF WindowInv, CacheBegins, PromptAhead
  <2>5. /\ \A i \in 1 .. n : kv'[nCur + i - 1] = toks[i]
        /\ \A p \in DOMAIN kv : p < nCur => kv'[p] = kv[p]
        /\ Dense(kv', nCur + n)
    <3>1. toks \in Seq(Token \cup Nat) /\ nCur + Len(toks) <= NCtx
      BY <2>2, <2>3, TokenText
    <3>2. /\ \A i \in 1 .. Len(toks) : Placed(kv, nCur, toks)[nCur + i - 1] = toks[i]
          /\ \A p \in DOMAIN kv : p < nCur => Placed(kv, nCur, toks)[p] = kv[p]
          /\ Dense(Placed(kv, nCur, toks), nCur + Len(toks))
      BY <1>f, <2>4, <3>1, PlacedCells
    <3> QED BY <2>2, <2>3, <3>2
  <2>6. ASSUME NEW p \in 0 .. nCur' - 1 PROVE kv'[p] = conv[p + 1]
    <3>1. CASE p < nCur
      <4>1. p \in 0 .. nCur - 1 /\ p \in DOMAIN kv
        BY <1>f, <2>4, <3>1 DEF Dense
      <4> QED BY <2>4, <2>5, <3>1, <4>1
    <3>2. CASE p >= nCur
      <4> DEFINE i == p - nCur + 1
      <4>1. i \in 1 .. n /\ i \in 1 .. Len(rest) /\ nCur + i - 1 = p /\ nCur + i = p + 1
        <5>1. nCur' = nCur + n /\ p \in Int /\ p < nCur + n
          BY <1>f, <2>1, <2>2
        <5>2. nCur \in Int /\ n \in 0 .. Len(rest)
          BY <1>f, <2>1
        <5> QED BY <1>f, <3>2, <5>1, <5>2
      <4> HIDE DEF i
      <4>2. kv'[p] = toks[i] /\ toks[i] = rest[i]
        BY <2>3, <2>5, <4>1
      <4>3. rest[i] = conv[p + 1]
        BY <2>4, <4>1
      <4> QED BY <4>2, <4>3
    <3> QED BY <1>f, <2>1, <2>2, <3>1, <3>2
  <2>7. CacheBegins'
    BY <2>2, <2>5, <2>6 DEF CacheBegins
  <2>8. nCur' + Len(rest') = Len(conv')
    BY <1>f, <2>1, <2>2, <2>3, <2>4
  <2>9. ASSUME NEW i \in 1 .. Len(rest') PROVE rest'[i] = conv'[nCur' + i]
    <3>1. n + i \in 1 .. Len(rest) /\ i \in 1 .. Len(rest) - n /\ nCur + (n + i) = nCur' + i
      BY <1>f, <2>1, <2>2, <2>3
    <3> QED BY <2>2, <2>3, <2>4, <3>1
  <2> QED BY <2>7, <2>8, <2>9 DEF PromptAhead
<1>3. CASE FirstSample
  <2> SUFFICES ASSUME sound, pc = "ingest", pc' = "loop", rest = << >>,
                      UNCHANGED <<kv, nCur, conv, promptLen>>
               PROVE  Dense(kv', nCur') /\ Window(kv, nCur, conv, NKeep)
    BY <1>3 DEF FirstSample, WindowInv, history, NKeep
  <2>1. /\ Dense(kv, nCur) /\ \A p \in 0 .. nCur - 1 : kv[p] = conv[p + 1]
        /\ nCur + Len(rest) = Len(conv)
    BY DEF WindowInv, CacheBegins, PromptAhead
  <2>2. Len(rest) = 0
    OBVIOUS
  <2>3. nCur = Len(conv)
    BY <1>f, <2>1, <2>2
  <2> QED BY <1>f, <2>1, <2>3 DEF Window
<1>4. CASE NextToken
  <2>1. /\ pc = "loop" /\ pc' = "decode" /\ kv' = ShiftedKv(FALSE) /\ nCur' = ShiftedCur(FALSE)
        /\ UNCHANGED <<conv, promptLen, sound>>
    BY <1>4 DEF NextToken, history
  <2> SUFFICES ASSUME sound PROVE Dense(kv', nCur') /\ Window(kv', nCur', conv, NKeep)
    BY <2>1 DEF WindowInv, NKeep
  <2>2. Dense(kv, nCur) /\ Window(kv, nCur, conv, NKeep)
    BY <2>1 DEF WindowInv
  <2> QED BY <1>f, <2>1, <2>2, ShiftedWindow
<1>5. CASE Decode
  <2>1. PICK emergency \in BOOLEAN :
          /\ (IF emergency THEN ShiftedCur(TRUE) ELSE nCur) + 1 + Len(drafts) <= NCtx
          /\ kv' = Placed(IF emergency THEN ShiftedKv(TRUE) ELSE kv,
                          IF emergency THEN ShiftedCur(TRUE) ELSE nCur,
                          <<Len(conv) + 1>> \o drafts)
          /\ nCur' = (IF emergency THEN ShiftedCur(TRUE) ELSE nCur) + 1
          /\ conv' = Append(conv, Len(conv) + 1)
    BY <1>5, DriverAssumption DEF Decode
  <2>2. pc = "decode" /\ pc' = "verify" /\ UNCHANGED <<promptLen, drafts, sound>>
    BY <1>5 DEF Decode
  <2> SUFFICES ASSUME sound
               PROVE  /\ Dense(kv', nCur' + Len(drafts)) /\ Window(kv', nCur', conv', NKeep)
                      /\ \A i \in 1 .. Len(drafts) : kv'[nCur' + i - 1] = drafts[i]
    BY <2>2 DEF WindowInv, NKeep
  <2>3. Dense(kv, nCur) /\ Window(kv, nCur, conv, NKeep)
    BY <2>2 DEF WindowInv
  <2> DEFINE at == IF emergency THEN ShiftedCur(TRUE) ELSE nCur
             cells == IF emergency THEN ShiftedKv(TRUE) ELSE kv
             x == Len(conv) + 1
             toks == <<x>> \o drafts
  <2>4. Cells(cells) /\ at \in Nat /\ Dense(cells, at) /\ Window(cells, at, conv, NKeep)
    <3>1. CASE emergency
      <4>1. /\ Cells(ShiftedKv(TRUE)) /\ ShiftedCur(TRUE) \in Nat
            /\ Dense(ShiftedKv(TRUE), ShiftedCur(TRUE))
            /\ Window(ShiftedKv(TRUE), ShiftedCur(TRUE), conv, NKeep)
        BY <2>3, <1>shift
      <4>2. at = ShiftedCur(TRUE) /\ cells = ShiftedKv(TRUE)
        BY <3>1
      <4> QED BY <4>1, <4>2
    <3>2. CASE ~emergency
      <4>1. at = nCur /\ cells = kv
        BY <3>2
      <4> QED BY <1>f, <2>3, <4>1
    <3> QED BY <3>1, <3>2
  <2>x. x \in Nat
    <3>1. Len(conv) \in Nat
      BY <1>f
    <3> QED BY <3>1
  <2>5. kv' = Placed(cells, at, toks) /\ nCur' = at + 1 /\ at + 1 + Len(drafts) <= NCtx
        /\ conv' = Append(conv, x) /\ x \in Nat
    BY <2>1, <2>x
  <2> HIDE DEF at, cells, x
  <2>6. /\ toks \in Seq(Nat) /\ toks \in Seq(Token \cup Nat) /\ Len(toks) = 1 + Len(drafts)
        /\ toks[1] = x /\ \A i \in 1 .. Len(drafts) : toks[1 + i] = drafts[i]
    <3>1. toks \in Seq(Nat) /\ Len(toks) = 1 + Len(drafts)
      BY <1>f, <2>5
    <3>2. toks \in Seq(Token \cup Nat)
      BY <3>1
    <3>3. toks[1] = x
      BY <1>f, <2>5
    <3>4. \A i \in 1 .. Len(drafts) : toks[1 + i] = drafts[i]
      BY <1>f, <2>5
    <3> QED BY <3>1, <3>2, <3>3, <3>4
  <2> HIDE DEF toks
  <2>7. /\ \A i \in 1 .. Len(toks) : kv'[at + i - 1] = toks[i]
        /\ \A p \in DOMAIN cells : p < at => kv'[p] = cells[p]
        /\ Dense(kv', at + Len(toks))
    <3>1. at + Len(toks) <= NCtx
      BY <1>f, <2>4, <2>5, <2>6
    <3>2. kv' = Placed(cells, at, toks)
      BY <2>5
    <3> QED BY <2>4, <2>6, <3>1, <3>2, PlacedCells
  <2>8. Dense(kv', nCur' + Len(drafts))
    <3>1. nCur' + Len(drafts) = at + Len(toks)
      BY <1>f, <2>4, <2>5, <2>6
    <3> QED BY <2>7, <3>1
  <2>9. ASSUME NEW i \in 1 .. Len(drafts) PROVE kv'[nCur' + i - 1] = drafts[i]
    <3>1. 1 + i \in 1 .. Len(toks) /\ at + (1 + i) - 1 = nCur' + i - 1
      BY <1>f, <2>4, <2>5, <2>6
    <3> QED BY <2>6, <2>7, <3>1
  <2>10. Window(kv', nCur', conv', NKeep)
    <3> DEFINE e == <<x>>
    <3>1. e \in Seq(Token \cup Nat) /\ Len(e) = 1 /\ e[1] = x /\ conv' = conv \o e
      BY <1>f, <2>5
    <3> HIDE DEF e
    <3>2. \A p \in 0 .. at - 1 : kv'[p] = cells[p]
      BY <2>4, <2>7 DEF Dense
    <3>3. \A i \in 1 .. Len(e) : kv'[at + i - 1] = e[i]
      <4>1. 1 \in 1 .. Len(toks) /\ at + 1 - 1 = at
        BY <1>f, <2>4, <2>6
      <4>2. kv'[at] = x
        BY <2>6, <2>7, <4>1
      <4> QED BY <2>4, <3>1, <4>2
    <3>4. Window(kv', at + Len(e), conv \o e, NKeep)
      BY <1>f, <2>4, <3>1, <3>2, <3>3, GrownWindow
    <3> QED BY <2>5, <3>1, <3>4
  <2> QED BY <2>8, <2>9, <2>10
<1>6. CASE Verify
  <2>1. PICK n \in 0 .. MaxDrafts : n <= Len(drafts) /\ nCur' = nCur + n /\ conv' = conv \o SubSeq(drafts, 1, n)
    BY <1>6 DEF Verify
  <2>2. /\ pc = "verify" /\ pc' = "loop" /\ kv' = Upto(kv, nCur')
        /\ UNCHANGED <<promptLen, sound>>
    BY <1>6 DEF Verify, RollBack
  <2> SUFFICES ASSUME sound PROVE Dense(kv', nCur') /\ Window(kv', nCur', conv', NKeep)
    BY <2>2 DEF WindowInv, NKeep
  <2>3. /\ Dense(kv, nCur + Len(drafts)) /\ Window(kv, nCur, conv, NKeep)
        /\ \A i \in 1 .. Len(drafts) : kv[nCur + i - 1] = drafts[i]
    BY <2>2 DEF WindowInv
  <2>4. n \in 0 .. Len(drafts) /\ n \in Nat /\ nCur' \in 0 .. nCur + Len(drafts) /\ nCur' \in Int
    BY <1>f, <2>1
  <2>5. /\ Dense(kv', nCur')
        /\ \A p \in DOMAIN kv : p < nCur' => kv'[p] = kv[p]
    <3> DEFINE c == nCur'
    <3>1. c \in 0 .. nCur + Len(drafts) /\ c \in Int /\ kv' = Upto(kv, c)
      BY <2>2, <2>4
    <3> HIDE DEF c
    <3>2. /\ Dense(Upto(kv, c), c)
          /\ \A p \in DOMAIN kv : p < c => Upto(kv, c)[p] = kv[p]
      BY <1>f, <2>3, <3>1, UptoCells
    <3> QED BY <3>1, <3>2 DEF c
  <2> DEFINE e == SubSeq(drafts, 1, n)
  <2>6. e \in Seq(Nat) /\ Len(e) = n /\ \A i \in 1 .. n : e[i] = drafts[i]
    BY <1>f, <2>4, FirstTokens
  <2> HIDE DEF e
  <2>7. e \in Seq(Token \cup Nat)
    BY <2>6
  <2>8. ASSUME NEW p \in 0 .. nCur' - 1 PROVE kv'[p] = kv[p]
    <3> DEFINE c == nCur'
               m == nCur + Len(drafts)
    <3>1. c \in 0 .. m /\ c \in Int /\ m \in Int /\ Dense(kv, m)
      <4>1. m \in Int
        BY <1>f
      <4>2. c \in 0 .. m /\ c \in Int
        BY <2>4
      <4>3. Dense(kv, m)
        BY <2>3
      <4> QED BY <4>1, <4>2, <4>3
    <3>p. p \in 0 .. c - 1
      OBVIOUS
    <3> HIDE DEF c, m
    <3>2. p \in 0 .. m - 1 /\ p < c
      BY <3>1, <3>p
    <3>3. p \in DOMAIN kv
      BY <3>1, <3>2 DEF Dense
    <3> QED BY <2>5, <3>2, <3>3 DEF c
  <2>9. \A p \in 0 .. nCur - 1 : kv'[p] = kv[p]
    BY <1>f, <2>1, <2>4, <2>8
  <2>10. ASSUME NEW i \in 1 .. Len(e) PROVE kv'[nCur + i - 1] = e[i]
    <3>1. i \in 1 .. n /\ i \in 1 .. Len(drafts) /\ nCur + i - 1 \in 0 .. nCur' - 1
      BY <1>f, <2>1, <2>4, <2>6
    <3> QED BY <2>3, <2>6, <2>8, <3>1
  <2>11. Window(kv', nCur + Len(e), conv \o e, NKeep)
    BY <1>f, <2>3, <2>7, <2>9, <2>10, GrownWindow
  <2>12. nCur + Len(e) = nCur' /\ conv \o e = conv'
    BY <2>1, <2>6 DEF e
  <2> QED BY <2>5, <2>11, <2>12
<1>7. ASSUME NEW pivot \in BOOLEAN, Rejected(pivot) PROVE WindowInv'
  BY <1>7, <1>return DEF Rejected
<1>8. CASE IngestFails \/ Stop \/ LastToken \/ DecodeFails \/ GiveUp \/ VerifyLast
  BY <1>8, <1>return DEF IngestFails, Stop, LastToken, DecodeFails, GiveUp, VerifyLast
<1> QED
  BY <1>1, <1>2, <1>3, <1>4, <1>5, <1>6, <1>7, <1>8 DEF Stream

(* Between two generations there is no window to keep. *)
LEMMA LinkWindow == TypeInv /\ WindowInv /\ [LinkNext]_linkVars => WindowInv'
<1> SUFFICES ASSUME TypeInv, WindowInv, LinkNext PROVE WindowInv'
  <2>1. ASSUME WindowInv, UNCHANGED linkVars PROVE WindowInv'
    BY <2>1 DEF WindowInv, CacheBegins, PromptAhead, Dense, Window, NKeep, linkVars, vars, call, history
  <2> QED BY <2>1
<1>idle. ASSUME pc = "idle", UNCHANGED call PROVE WindowInv'
  BY <1>idle DEF WindowInv, call
<1>1. CASE LoadModel \/ InjectSignals
  <2>1. UNCHANGED vars
    BY <1>1 DEF LoadModel, InjectSignals, linkVars
  <2> QED BY <2>1 DEF WindowInv, CacheBegins, PromptAhead, Dense, Window, NKeep, vars, call, history
<1>2. CASE CallStream
  BY <1>2, StreamWindow DEF CallStream
<1>3. CASE CallCache
  BY <1>3, <1>idle, CacheCalls DEF CallCache
<1>4. CASE ApplyBooster
  BY <1>4, <1>idle DEF ApplyBooster
<1>5. CASE Drop \/ NullContext
  BY <1>5, <1>idle DEF Drop, NullContext, Ended
<1> QED
  BY <1>1, <1>2, <1>3, <1>4, <1>5 DEF LinkNext

-----------------------------------------------------------------------------
(* Nothing is remembered over the kernel's C functions *)

\* A cache without a hole.
NoHole(cells) == \E n \in 0 .. NCtx : Dense(cells, n)

(* Nothing is remembered of the cache, which has no hole, nor of the dump, and *)
(* every prompt is decoded before the first token is sampled.               *)
FfiInv ==
    api = "ffi" =>
      /\ lastPrefilled = << >> /\ sound /\ engine # "lost"
      /\ pc = "idle" => NoHole(kv)
      /\ pc = "ingest" /\ rest = << >> => fresh
      /\ pc \in {"loop", "decode", "verify"} => fresh
      /\ file # NoFile => file.tokens = << >> /\ NoHole(file.cells)

(* What a cache without a hole begins with is remembered: nothing. *)
LEMMA NothingRemembered ==
    ASSUME NoHole(kv), lastPrefilled = << >>
    PROVE  Remembered
<1>1. PICK n \in 0 .. NCtx : Dense(kv, n)
  BY DEF NoHole
<1>2. NextPos(kv) = n
  BY <1>1, NextOfDense DEF Dense
<1>3. Len(lastPrefilled) = 0 /\ 1 .. Len(lastPrefilled) = {}
  OBVIOUS
<1>4. n \in Nat
  BY DriverAssumption
<1> QED
  BY <1>1, <1>2, <1>3, <1>4 DEF Remembered, Dense

(* A generation stays with its caller, and only NextToken begins a decode. *)
LEMMA StreamFrame == Stream => api' = api /\ (NextToken \/ pc' # "decode")
<1> SUFFICES ASSUME Stream PROVE api' = api /\ (NextToken \/ pc' # "decode")
  OBVIOUS
<1>1. ASSUME NEW p \in Prompts, NEW max \in MaxTokens, NEW pivot \in BOOLEAN,
             Generate(p, max, pivot)
      PROVE  api' = api /\ pc' # "decode"
  BY <1>1 DEF Generate
<1>2. ASSUME Return PROVE api' = api /\ pc' # "decode"
  BY <1>2 DEF Return
<1>3. ASSUME NEW pivot \in BOOLEAN, Rejected(pivot) PROVE Return
  BY <1>3 DEF Rejected
<1>4. CASE IngestChunk \/ FirstSample
  BY <1>4 DEF IngestChunk, FirstSample
<1>5. CASE Decode \/ Verify
  BY <1>5 DEF Decode, Verify
<1>6. CASE NextToken
  BY <1>6 DEF NextToken
<1>7. CASE IngestFails \/ Stop \/ LastToken \/ DecodeFails \/ GiveUp \/ VerifyLast
  <2>1. Return
    BY <1>7 DEF IngestFails, Stop, LastToken, DecodeFails, GiveUp, VerifyLast
  <2> QED BY <1>2, <2>1
<1> QED
  BY <1>1, <1>2, <1>3, <1>4, <1>5, <1>6, <1>7 DEF Stream

(* A step of a generation keeps that. *)
LEMMA StreamFfi == TypeInv /\ WindowInv /\ FfiInv /\ Stream /\ UNCHANGED engine => FfiInv'
<1> SUFFICES ASSUME TypeInv, WindowInv, FfiInv, Stream, UNCHANGED engine, api' = "ffi" PROVE FfiInv'
  BY DEF FfiInv
<1>t. LlamaTypeOK
  BY DEF TypeInv
<1>f. /\ Cells(kv) /\ nCur \in 0 .. NCtx /\ nCur \in Nat /\ promptLen \in Nat /\ Len(drafts) \in Nat
      /\ NCtx \in Nat
  BY <1>t, TypeFacts
<1>api. api = "ffi"
  BY StreamFrame
<1>i. /\ lastPrefilled = << >> /\ sound /\ engine # "lost"
      /\ pc = "idle" => NoHole(kv)
      /\ pc = "ingest" /\ rest = << >> => fresh
      /\ pc \in {"loop", "decode", "verify"} => fresh
      /\ file # NoFile => file.tokens = << >> /\ NoHole(file.cells)
  BY <1>api DEF FfiInv
<1>dense. /\ pc \in {"ingest", "loop", "decode"} => Dense(kv, nCur)
          /\ pc = "verify" => Dense(kv, nCur + Len(drafts))
  BY <1>i DEF WindowInv, CacheBegins
<1>some. ASSUME NEW cells, NEW n, Dense(cells, n) PROVE NoHole(cells)
  BY <1>some DEF NoHole, Dense
<1>upto. ASSUME NEW m, Dense(kv, m), NEW n \in 0 .. m, m \in Nat PROVE NoHole(Upto(kv, n))
  <2>1. n \in Int
    BY <1>upto
  <2>2. Dense(Upto(kv, n), n)
    BY <1>f, <1>upto, <2>1, UptoCells
  <2> QED BY <1>some, <2>2
<1>shift. ASSUME NEW force \in BOOLEAN, Dense(kv, nCur) PROVE NoHole(ShiftedKv(force))
  <2>1. Dense(ShiftedKv(force), ShiftedCur(force))
    BY <1>f, <1>shift, ShiftCells
  <2> QED BY <1>some, <2>1
<1>return. ASSUME Return, NoHole(kv') PROVE FfiInv'
  <2>1. /\ lastPrefilled' = << >> /\ pc' = "idle" /\ sound' = TRUE /\ file' = file
    BY <1>return DEF Return
  <2> QED BY <1>return, <1>i, <2>1 DEF FfiInv, NoHole, Dense
<1>go. ASSUME pc \in {"loop", "decode", "verify"}, pc' \in {"loop", "decode", "verify"},
              UNCHANGED <<lastPrefilled, file, sound, fresh>>
       PROVE  FfiInv'
  BY <1>go, <1>i DEF FfiInv, NoHole, Dense
<1>1. ASSUME NEW p \in Prompts, NEW max \in MaxTokens, NEW pivot \in BOOLEAN,
             Generate(p, max, pivot)
      PROVE  FfiInv'
  <2>1. pc = "idle" /\ pc' = "ingest" /\ sound' = Remembered /\ UNCHANGED <<lastPrefilled, file>>
    BY <1>1 DEF Generate
  <2>2. Remembered
    BY <1>i, <2>1, NothingRemembered
  <2>3. rest' # << >>
    BY <1>1, <1>t, <1>i, GenerateFacts
  <2> QED BY <1>i, <2>1, <2>2, <2>3 DEF FfiInv, NoHole, Dense
<1>2. CASE IngestChunk
  <2>1. pc = "ingest" /\ pc' = "ingest" /\ fresh' = TRUE /\ UNCHANGED <<lastPrefilled, file, sound>>
    BY <1>2 DEF IngestChunk
  <2> QED BY <1>i, <2>1 DEF FfiInv, NoHole, Dense
<1>3. CASE FirstSample
  <2>1. /\ pc = "ingest" /\ rest = << >> /\ pc' = "loop"
        /\ UNCHANGED <<lastPrefilled, file, sound, fresh>>
    BY <1>3 DEF FirstSample, history
  <2> QED BY <1>i, <2>1 DEF FfiInv, NoHole, Dense
<1>4. CASE NextToken \/ Decode \/ Verify
  <2>1. /\ pc \in {"loop", "decode", "verify"} /\ pc' \in {"loop", "decode", "verify"}
        /\ UNCHANGED <<lastPrefilled, file, sound, fresh>>
    BY <1>4 DEF NextToken, Decode, Verify, history
  <2> QED BY <1>go, <2>1
<1>5. ASSUME NEW pivot \in BOOLEAN, Rejected(pivot) PROVE FfiInv'
  <2>1. pc = "idle" /\ Return /\ kv' = IF pivot THEN kv ELSE Upto(kv, Len(lastPrefilled))
    BY <1>5 DEF Rejected
  <2>2. PICK m \in 0 .. NCtx : Dense(kv, m)
    BY <1>i, <2>1 DEF NoHole
  <2>3. Len(lastPrefilled) = 0 /\ m \in Nat /\ 0 \in 0 .. m
    BY <1>f, <1>i
  <2>4. NoHole(Upto(kv, 0)) /\ NoHole(kv)
    BY <1>upto, <1>some, <2>2, <2>3
  <2>5. NoHole(kv')
    <3>1. CASE pivot
      BY <2>1, <2>4, <3>1
    <3>2. CASE ~pivot
      BY <2>1, <2>3, <2>4, <3>2
    <3> QED BY <3>1, <3>2
  <2> QED BY <1>return, <2>1, <2>5
<1>6. CASE IngestFails \/ Stop \/ GiveUp
  <2>1. pc \in {"ingest", "loop", "verify"} /\ kv' = kv /\ Return
    BY <1>6 DEF IngestFails, Stop, GiveUp
  <2>2. NoHole(kv')
    BY <1>dense, <1>some, <2>1
  <2> QED BY <1>return, <2>1, <2>2
<1>7. CASE LastToken
  <2>1. pc = "loop" /\ kv' = ShiftedKv(FALSE) /\ Return
    BY <1>7 DEF LastToken
  <2> QED BY <1>dense, <1>return, <1>shift, <2>1
<1>8. CASE DecodeFails
  <2>1. pc = "decode" /\ kv' \in {ShiftedKv(TRUE), kv} /\ Return
    BY <1>8 DEF DecodeFails
  <2> QED BY <1>dense, <1>some, <1>return, <1>shift, <2>1
<1>9. CASE VerifyLast
  <2>1. PICK n \in 0 .. MaxDrafts : /\ \A i \in 1 .. n : i \in Confirmed
                                   /\ kv' = Upto(kv, nCur + n)
    BY <1>9 DEF VerifyLast, RollBack
  <2>2. pc = "verify" /\ Return
    BY <1>9 DEF VerifyLast
  <2>3. n \in Nat /\ n <= Len(drafts)
    <3>1. n \in Nat /\ drafts \in Seq(Nat)
      BY <1>t, DriverAssumption DEF LlamaTypeOK
    <3>2. n > 0 => n \in 1 .. n
      BY <3>1
    <3>3. n > 0 => n \in DOMAIN drafts
      BY <2>1, <3>2 DEF Confirmed
    <3> QED BY <1>f, <3>1, <3>3
  <2>4. nCur + n \in 0 .. nCur + Len(drafts) /\ nCur + Len(drafts) \in Nat
    BY <1>f, <2>3
  <2>5. NoHole(kv')
    BY <1>dense, <1>upto, <2>1, <2>2, <2>4
  <2> QED BY <1>return, <2>2, <2>5
<1> QED
  BY <1>1, <1>2, <1>3, <1>4, <1>5, <1>6, <1>7, <1>8, <1>9 DEF Stream

(* Linking an engine, a dump and a load keep it as well. *)
LEMMA LinkFfi == TypeInv /\ WindowInv /\ FfiInv /\ [LinkNext]_linkVars => FfiInv'
<1> SUFFICES ASSUME TypeInv, WindowInv, FfiInv, LinkNext, api' = "ffi" PROVE FfiInv'
  <2>1. ASSUME FfiInv, UNCHANGED linkVars PROVE FfiInv'
    BY <2>1 DEF FfiInv, NoHole, Dense, linkVars, vars, call, history
  <2> QED BY <2>1 DEF FfiInv
<1>idle. ASSUME api = "ffi", pc = "idle", UNCHANGED <<api, call, history>>, NoHole(kv'),
                lastPrefilled' = << >>, engine' # "lost",
                file' # NoFile => file'.tokens = << >> /\ NoHole(file'.cells)
         PROVE  FfiInv'
  <2>1. sound
    BY <1>idle DEF FfiInv
  <2> QED BY <1>idle, <2>1 DEF FfiInv, NoHole, Dense, call, history
<1>empty. NoHole(Empty)
  <2>1. Dense(Empty, 0) /\ 0 \in 0 .. NCtx
    BY EmptyCells, DriverAssumption
  <2> QED BY <2>1 DEF NoHole
<1>1. CASE LoadModel
  <2>1. engine' # "lost" /\ UNCHANGED vars
    BY <1>1, LinkedEngines DEF LoadModel
  <2>2. api = "ffi"
    BY <2>1 DEF vars
  <2> QED BY <2>1, <2>2 DEF FfiInv, NoHole, Dense, vars, call, history
<1>2. CASE CallStream
  BY <1>2, StreamFfi DEF CallStream
<1>3. CASE CallCache
  <2>1. Cache /\ UNCHANGED engine
    BY <1>3 DEF CallCache
  <2>2. pc = "idle" /\ UNCHANGED <<api, call, history>>
    BY <2>1, CacheCalls
  <2>3. /\ api = "ffi" /\ lastPrefilled = << >> /\ engine # "lost" /\ NoHole(kv)
        /\ file # NoFile => file.tokens = << >> /\ NoHole(file.cells)
    BY <2>2 DEF FfiInv
  <2>4. CASE DumpCache
    <3>1. file' = [cells |-> kv, tokens |-> lastPrefilled] /\ UNCHANGED <<kv, lastPrefilled>>
      BY <2>4 DEF DumpCache
    <3>2. file'.tokens = lastPrefilled /\ file'.cells = kv
      BY <3>1
    <3> QED BY <1>idle, <2>1, <2>2, <2>3, <3>1, <3>2
  <2>5. CASE LoadCache
    <3>1. file # NoFile /\ kv' = file.cells /\ lastPrefilled' = file.tokens /\ file' = file
      BY <2>5 DEF LoadCache
    <3> QED BY <1>idle, <2>1, <2>2, <2>3, <3>1
  <2>6. CASE LoadFails
    <3>1. kv' \in {kv, Empty} /\ UNCHANGED <<lastPrefilled, file>>
      BY <2>6 DEF LoadFails
    <3> QED BY <1>empty, <1>idle, <2>1, <2>2, <2>3, <3>1
  <2>7. ASSUME NEW p \in Prompts, Prefill(p) \/ PrefillFails(p) PROVE FALSE
    BY <2>3, <2>7 DEF Prefill, PrefillFails
  <2> QED BY <2>1, <2>4, <2>5, <2>6, <2>7 DEF Cache
<1>4. CASE InjectSignals
  <2>1. UNCHANGED linkVars
    BY <1>4 DEF InjectSignals
  <2> QED BY <2>1 DEF FfiInv, NoHole, Dense, linkVars, vars, call, history
<1>5. CASE ApplyBooster
  BY <1>5 DEF ApplyBooster
<1>6. CASE Drop \/ NullContext
  <2>1. /\ pc = "idle" /\ engine' = "none" /\ kv' = Empty /\ lastPrefilled' = << >>
        /\ UNCHANGED <<api, file, call, history>>
    BY <1>6 DEF Drop, NullContext, Ended
  <2>2. api = "ffi" /\ (file # NoFile => file.tokens = << >> /\ NoHole(file.cells))
    BY <2>1 DEF FfiInv
  <2> QED BY <1>empty, <1>idle, <2>1, <2>2
<1> QED
  BY <1>1, <1>2, <1>3, <1>4, <1>5, <1>6 DEF LinkNext

-----------------------------------------------------------------------------
(* What every behaviour of an engine keeps *)

(* The invariant holds of an engine that is not there yet. *)
LEMMA LinkInitInv == LinkInit => TypeInv /\ WindowInv /\ FfiInv
<1> SUFFICES ASSUME LinkInit PROVE TypeInv /\ WindowInv /\ FfiInv
  OBVIOUS
<1>1. TypeInv
  BY LinkInitTypes
<1>2. /\ pc = "idle" /\ kv = Empty /\ lastPrefilled = << >> /\ file = NoFile /\ sound
      /\ engine = "none"
  BY DEF LinkInit, Init
<1>3. WindowInv
  BY <1>2 DEF WindowInv
<1>4. NoHole(Empty)
  <2>1. Dense(Empty, 0) /\ 0 \in 0 .. NCtx
    BY EmptyCells, DriverAssumption
  <2> QED BY <2>1 DEF NoHole
<1>5. FfiInv
  BY <1>2, <1>4 DEF FfiInv
<1> QED BY <1>1, <1>3, <1>5

(* The invariant of the llama engine is inductive: types and budgets, the   *)
(* window of the conversation in the cache, and what the C functions leave.  *)
THEOREM EngineInductive == LinkSpec => [](TypeInv /\ WindowInv /\ FfiInv)
<1> DEFINE Inv == TypeInv /\ WindowInv /\ FfiInv
<1>1. LinkInit => Inv
  BY LinkInitInv
<1>2. Inv /\ [LinkNext]_linkVars => Inv'
  BY LinkTypes, LinkWindow, LinkFfi
<1> QED BY <1>1, <1>2, PTL DEF LinkSpec

(* Every variable keeps its type and the cache its size, whatever the calls  *)
(* of an engine and however each ends (stream.rs, lib.rs).                  *)
THEOREM EngineTyped == LinkSpec => []LlamaTypeOK
<1>1. TypeInv => LlamaTypeOK
  BY DEF TypeInv
<1> QED BY <1>1, EngineInductive, PTL

(* A generation overruns max_tokens by no more than one batch of drafts, for *)
(* every number of drafts and every think block (speculative.rs, stream.rs). *)
THEOREM BudgetIsKept == LinkSpec => []BudgetKept
<1>1. TypeInv => BudgetKept
  <2> SUFFICES ASSUME TypeInv, pc # "idle" PROVE nGen <= budget + MaxDrafts
    BY DEF BudgetKept
  <2>1. nGen \in Nat /\ budget \in Nat /\ MaxDrafts \in Nat
        /\ pc \in {"idle", "ingest", "loop", "decode", "verify"}
    BY TypeFacts DEF TypeInv, LlamaTypeOK
  <2>2. /\ pc = "ingest" => nGen = 0
        /\ pc = "loop" => nGen <= budget + MaxDrafts
        /\ pc = "decode" => nGen < budget
        /\ pc = "verify" => nGen <= budget
    BY DEF TypeInv, CountInv
  <2> QED BY <2>1, <2>2
<1> QED BY <1>1, EngineInductive, PTL

(* The driver's own counter n_cur never parts from the cache: not through a  *)
(* shift, a draft, a roll-back or a prefix that is kept (context.rs).       *)
THEOREM CounterIsNext == LinkSpec => []Contiguous
<1>1. TypeInv /\ WindowInv => Contiguous
  <2> SUFFICES ASSUME TypeInv, WindowInv, sound, pc # "idle"
               PROVE  DOMAIN kv = 0 .. (IF pc = "verify" THEN nCur + Len(drafts) ELSE nCur) - 1
    BY DEF Contiguous
  <2>1. pc \in {"ingest", "loop", "decode", "verify"}
    BY DEF TypeInv, LlamaTypeOK
  <2>2. pc \in {"ingest", "loop", "decode"} => Dense(kv, nCur)
    BY DEF WindowInv, CacheBegins
  <2>3. pc = "verify" => Dense(kv, nCur + Len(drafts))
    BY DEF WindowInv
  <2> QED BY <2>1, <2>2, <2>3 DEF Dense
<1> QED BY <1>1, EngineInductive, PTL

(* However often the window is moved and drafts are rolled back, the model   *)
(* sees the head of the conversation and its newest tokens (context.rs).    *)
THEOREM CacheIsWindow == LinkSpec => []SlidingWindow
<1>1. TypeInv /\ WindowInv => SlidingWindow
  <2> SUFFICES ASSUME TypeInv, WindowInv, sound, pc = "loop" PROVE SlidingWindow
    BY DEF SlidingWindow
  <2>1. Window(kv, nCur, conv, NKeep) /\ nCur \in Nat /\ Len(conv) \in Nat /\ NKeep \in Nat
    <3>1. promptLen \in Nat /\ nCur \in 0 .. NCtx /\ NCtx \in Nat /\ Len(conv) \in Nat
      BY TypeFacts DEF TypeInv
    <3> QED BY <3>1, KeepType DEF WindowInv
  <2> DEFINE k == NKeep
             keep == IF nCur = Len(conv) THEN nCur ELSE k
  <2>2. /\ nCur <= Len(conv) /\ (nCur < Len(conv) => k <= nCur)
        /\ \A p \in 0 .. nCur - 1 :
             kv[p] = conv[IF nCur = Len(conv) \/ p < k THEN p + 1 ELSE p + 1 + Len(conv) - nCur]
    BY <2>1 DEF Window
  <2>3. k \in Nat
    BY <2>1
  <2> HIDE DEF k
  <2>4. keep <= nCur /\ nCur <= Len(conv)
    BY <2>1, <2>2, <2>3
  <2>5. ASSUME NEW p \in 0 .. nCur - 1
        PROVE  kv[p] = conv[IF p < keep THEN p + 1 ELSE p + 1 + Len(conv) - nCur]
    <3>1. CASE nCur = Len(conv)
      <4>1. p < keep
        BY <2>1, <3>1
      <4> QED BY <2>2, <3>1, <4>1
    <3>2. CASE nCur # Len(conv)
      <4>1. keep = k
        BY <3>2
      <4> QED BY <2>2, <3>2, <4>1
    <3> QED BY <3>1, <3>2
  <2> QED BY <2>4, <2>5 DEF SlidingWindow, k
<1> QED BY <1>1, EngineInductive, PTL

(* Behind the kernel's C functions no prompt is ever matched with a cache    *)
(* that is not there: all of it is decoded before a token (lib.rs).         *)
THEOREM FfiRemembersNothing == LinkSpec => []FfiIsCold
<1>1. FfiInv => FfiIsCold
  BY DEF FfiInv, FfiIsCold
<1> QED BY <1>1, EngineInductive, PTL

(* Half of the context, which a shift keeps at most, and what it drops are  *)
(* less than the context.                                                  *)
RoomToShift == Greater(NCtx \div 2, 1) + Discard < NCtx

RoomInv == Shifting /\ pc = "decode" => nCur + 1 + Len(drafts) <= NCtx

(* The step that chooses a token leaves room for it and for its drafts.     *)
LEMMA NextTokenRoom == TypeInv /\ RoomToShift /\ NextToken => RoomInv'
<1> SUFFICES ASSUME TypeInv, RoomToShift, NextToken, Shifting
             PROVE  nCur' + 1 + Len(drafts') <= NCtx
  BY DEF RoomInv
<1>1. /\ Cells(kv) /\ nCur \in 0 .. NCtx /\ promptLen \in Nat /\ NCtx \in Nat /\ Discard \in Nat \ {0}
  BY TypeFacts DEF TypeInv
<1>2. Margin \in Nat /\ NCtx \div 2 \in Nat
  BY DriverAssumption
<1> DEFINE cur == ShiftedCur(FALSE)
           keep == NKeep
           half == Greater(NCtx \div 2, 1)
           shifts == Shifts(FALSE)
<1>3. /\ nCur' = cur
      /\ \E d \in 0 .. DraftCap(cur), good \in 0 .. MaxDrafts :
           drafts' = [i \in 1 .. d |-> IF i <= good THEN Len(conv) + 1 + i ELSE Wrong]
  BY DEF NextToken
<1>4. /\ cur \in 0 .. nCur
      /\ shifts => cur = nCur - Discard
      /\ ~shifts => cur = nCur
  BY <1>1, ShiftCells
<1>5. keep \in Nat /\ keep <= half
  BY <1>1, KeepType
<1>6. half \in Nat /\ half + Discard < NCtx
  BY <1>2 DEF RoomToShift, Greater
<1>7. ~shifts => nCur < NCtx - Margin \/ nCur <= keep + Discard
  <2>1. ~shifts => ~(nCur >= NCtx - Margin) \/ ~(keep + Discard < nCur)
    BY DEF Shifts
  <2> HIDE DEF shifts, keep
  <2> QED BY <1>1, <1>2, <1>5, <2>1
<1> HIDE DEF keep, half, shifts, cur
<1>8. cur \in 0 .. NCtx /\ cur < NCtx
  BY <1>1, <1>2, <1>4, <1>5, <1>6, <1>7
<1>9. DraftCap(cur) \in 0 .. MaxDrafts /\ (DraftCap(cur) > 0 => cur + 2 + DraftCap(cur) <= NCtx)
  BY <1>8, DraftRoom
<1> DEFINE cap == DraftCap(cur)
<1>10. PICK d \in 0 .. cap : Len(drafts') = d
  <2>1. PICK d \in 0 .. cap, good \in 0 .. MaxDrafts :
          drafts' = [i \in 1 .. d |-> IF i <= good THEN Len(conv) + 1 + i ELSE Wrong]
    BY <1>3
  <2>2. cap \in 0 .. MaxDrafts /\ MaxDrafts \in Nat
    BY <1>9, DriverAssumption
  <2> HIDE DEF cap
  <2>3. d \in Nat
    BY <2>2
  <2> QED BY <2>1, <2>3
<1>11. cap \in Nat /\ (cap > 0 => cur + 2 + cap <= NCtx)
  BY <1>9, DriverAssumption
<1> HIDE DEF cap
<1>12. cur + 1 + d <= NCtx
  BY <1>1, <1>8, <1>10, <1>11
<1> QED BY <1>3, <1>10, <1>12

(* No other step begins a decode, or moves the counter before it.           *)
LEMMA LinkRoom == TypeInv /\ RoomToShift /\ RoomInv /\ [LinkNext]_linkVars => RoomInv'
<1> SUFFICES ASSUME TypeInv, RoomToShift, RoomInv, LinkNext PROVE RoomInv'
  BY DEF RoomInv, linkVars, vars, call
<1>1. ASSUME pc' # "decode" PROVE RoomInv'
  BY <1>1 DEF RoomInv
<1>2. ASSUME UNCHANGED call PROVE RoomInv'
  BY <1>2 DEF RoomInv, call
<1>3. CASE CallStream
  <2>1. NextToken \/ pc' # "decode"
    BY <1>3, StreamFrame DEF CallStream
  <2> QED BY <1>1, <2>1, NextTokenRoom
<1>4. CASE CallCache
  BY <1>2, <1>4, CacheCalls DEF CallCache
<1>5. CASE LoadModel \/ InjectSignals \/ ApplyBooster \/ Drop \/ NullContext
  BY <1>2, <1>5 DEF LoadModel, InjectSignals, ApplyBooster, Drop, NullContext, Ended, linkVars, vars
<1> QED BY <1>3, <1>4, <1>5 DEF LinkNext

(* Where there is room to shift, shift_context makes room for every token   *)
(* and its drafts, and no generation is cut short by a full context         *)
(* (context.rs, "Extreme" excluded: it discards half of the context).       *)
THEOREM RoomForEveryToken == ASSUME RoomToShift PROVE LinkSpec => []NeverFull
<1>1. LinkInit => TypeInv /\ RoomInv
  BY LinkInitTypes DEF LinkInit, Init, RoomInv
<1>2. TypeInv /\ RoomInv /\ [LinkNext]_linkVars => (TypeInv /\ RoomInv)'
  BY LinkTypes, LinkRoom
<1>3. RoomInv => NeverFull
  BY DEF RoomInv, NeverFull
<1> QED BY <1>1, <1>2, <1>3, PTL DEF LinkSpec
=============================================================================
