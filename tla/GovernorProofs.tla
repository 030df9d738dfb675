---------------------------- MODULE GovernorProofs ----------------------------
(***************************************************************************)
(* Proofs about what processes share through files, and about the VRAM     *)
(* arbiter: types, what it counts, and who waits for its lock.             *)
(*                                                                         *)
(* What a process still has to do is a sequence of steps, and steps insert *)
(* others.  The invariants say that the sequence is a path: every step     *)
(* finds what it needs, and leaves what the next one finds.  Each property *)
(* has its own rules of what may be known between two steps.               *)
(***************************************************************************)
EXTENDS GovernorProperties, SequenceTheorems, FiniteSetTheorems, WellFoundedInduction, TLAPS

-----------------------------------------------------------------------------
(***************************************************************************)
(* What is left of a program is a sequence of steps.  A path through it    *)
(* has a label before and after each step: what is known when the program  *)
(* is there, and what is known wherever an error of the step is caught.    *)
(* `rules' are the triples of a label, a step and a label that may follow. *)
(***************************************************************************)
Words ==
    {"", "open", "fill", "rename", "remove", "writable", "readonly",
     "loadPerm", "loadBoost", "loadSys", "loadReg", "probe", "orBlank", "catch", "require",
     "change", "tune", "saved", "edit", "editPerm", "lock", "unlock", "total", "syncIfZero",
     "calibrateIfZero", "allocate", "free", "fit", "forget",
     "regAdd", "regRemove", "regContext", "regPurge"}

(* The stores, or none. *)
Places == {"", "perm", "boost", "sys", "reg"}

(* The files of a store, or none. *)
Extensions == {"", "json", "bin", "json.tmp", "bin.tmp"}

(* A step is what to do, and to which file. *)
Steps == Words \X Places \X Extensions

(* What may be known: of what the process has read and chosen, ...         *)
TypeClaims == {"perm", "boost", "read", "chosen"}

(* ... of the arbiter's lock and of the fingerprint, ...                   *)
LockClaims == {"free", "sure", "json", "tmp", "pres"}

(* ... of the process registry, ...                                        *)
RegClaims == {"listed", "others", "self", "holding"}

(* ... of the files of a store and what was found of the silicon, ...      *)
FileClaims ==
    {"calm", "jsonTorn", "jsonWhole", "binTorn", "tmpTorn", "tmpWhole", "bintmpTorn",
     "bintmpWhole", "probed", "lost"}

(* ... and of a setting and the copy that the process has of it.           *)
SettingClaims == {"even", "mine", "meant", "same", "both", "setTorn", "setBinTorn"}

(* All that may be known. *)
Claims == TypeClaims \cup LockClaims \cup RegClaims \cup FileClaims \cup SettingClaims

(* What is known now, and what wherever an error is caught. *)
Label == [now : SUBSET Claims, then : SUBSET Claims]

(* s is a path from l to e: every step may follow the label before it. *)
Path(rules, s, l, e) ==
    /\ s \in Seq(Steps)
    /\ \E h \in [0..Len(s) -> Label] :
        /\ h[0] = l /\ h[Len(s)] = e
        /\ \A i \in 1..Len(s) : <<h[i - 1], s[i], h[i]>> \in rules

(* The calls that look at an error. *)
Catchers == {"catch", "require"}

(* An error goes to the next call that looks at it, with what is known     *)
(* there whether or not there was one.                                     *)
Throwing(rules) ==
    \A a, b \in Label, x \in Steps :
        <<a, x, b>> \in rules =>
            IF x[1] \in Catchers THEN a.now \subseteq a.then ELSE b.then = a.then

-----------------------------------------------------------------------------
(* Nothing to do: nothing else is known. *)
LEMMA PathNil ==
    ASSUME NEW rules, NEW l \in Label
    PROVE  Path(rules, <<>>, l, l)
<1>1. <<>> \in Seq(Steps) /\ Len(<<>>) = 0
  OBVIOUS
<1> DEFINE h == [i \in 0..0 |-> l]
<1>2. h \in [0..0 -> Label] /\ h[0] = l
  OBVIOUS
<1>3. \A i \in 1..0 : <<h[i - 1], <<>>[i], h[i]>> \in rules
  OBVIOUS
<1> HIDE DEF h
<1> QED
  BY <1>1, <1>2, <1>3 DEF Path

(* The end of a path through nothing is its start. *)
LEMMA PathOfNil ==
    ASSUME NEW rules, NEW l, NEW e, Path(rules, <<>>, l, e)
    PROVE  l = e /\ l \in Label
<1>1. Len(<<>>) = 0
  OBVIOUS
<1> QED
  BY <1>1 DEF Path

(* A path through one step. *)
LEMMA PathOne ==
    ASSUME NEW rules, NEW l \in Label, NEW m \in Label, NEW x \in Steps,
           <<l, x, m>> \in rules
    PROVE  Path(rules, <<x>>, l, m)
<1> DEFINE h == [i \in 0..1 |-> IF i = 0 THEN l ELSE m]
<1>1. <<x>> \in Seq(Steps) /\ Len(<<x>>) = 1 /\ <<x>>[1] = x
  OBVIOUS
<1>2. h \in [0..1 -> Label] /\ h[0] = l /\ h[1] = m
  OBVIOUS
<1>3. \A i \in 1..1 : <<h[i - 1], <<x>>[i], h[i]>> \in rules
  <2>1. \A i \in 1..1 : i = 1 /\ i - 1 = 0
    OBVIOUS
  <2> HIDE DEF h
  <2> QED
    BY <1>1, <1>2, <2>1
<1> HIDE DEF h
<1> QED
  BY <1>1, <1>2, <1>3 DEF Path

(* Paths that meet are one path. *)
LEMMA PathCat ==
    ASSUME NEW rules, NEW s, NEW t, NEW l, NEW m, NEW e,
           Path(rules, s, l, m), Path(rules, t, m, e)
    PROVE  Path(rules, s \o t, l, e)
<1> USE DEF Path
<1>1. PICK f \in [0..Len(s) -> Label] :
        /\ f[0] = l /\ f[Len(s)] = m
        /\ \A i \in 1..Len(s) : <<f[i - 1], s[i], f[i]>> \in rules
  OBVIOUS
<1>2. PICK g \in [0..Len(t) -> Label] :
        /\ g[0] = m /\ g[Len(t)] = e
        /\ \A i \in 1..Len(t) : <<g[i - 1], t[i], g[i]>> \in rules
  OBVIOUS
<1> DEFINE n == Len(s)
           k == Len(t)
           h == [i \in 0..(n + k) |-> IF i <= n THEN f[i] ELSE g[i - n]]
<1>3. /\ s \in Seq(Steps) /\ t \in Seq(Steps)
      /\ s \o t \in Seq(Steps) /\ Len(s \o t) = n + k /\ n \in Nat /\ k \in Nat
      /\ \A i \in 1..(n + k) : (s \o t)[i] = IF i <= n THEN s[i] ELSE t[i - n]
  BY ConcatProperties, LenProperties
<1>a. f \in [0..n -> Label] /\ f[0] = l /\ f[n] = m /\ \A i \in 1..n : <<f[i - 1], s[i], f[i]>> \in rules
  BY <1>1
<1>b. g \in [0..k -> Label] /\ g[0] = m /\ g[k] = e /\ \A i \in 1..k : <<g[i - 1], t[i], g[i]>> \in rules
  BY <1>2
<1> HIDE DEF n, k
<1>4. h \in [0..(n + k) -> Label]
  <2>1. \A i \in 0..(n + k) : IF i <= n THEN i \in 0..n ELSE i - n \in 0..k
    BY <1>3
  <2> QED
    BY <2>1, <1>a, <1>b
<1>5. h[0] = l /\ h[n + k] = e
  <2>1. 0 \in 0..(n + k) /\ n + k \in 0..(n + k) /\ 0 <= n
    BY <1>3
  <2>2. CASE k = 0
    <3>1. n + k <= n /\ n + k = n
      BY <2>2, <1>3
    <3> QED
      BY <2>1, <2>2, <3>1, <1>a, <1>b
  <2>3. CASE k # 0
    <3>1. ~(n + k <= n) /\ (n + k) - n = k
      BY <2>3, <1>3
    <3> QED
      BY <2>1, <3>1, <1>a, <1>b
  <2> QED
    BY <2>2, <2>3
<1>6. \A i \in 1..(n + k) : <<h[i - 1], (s \o t)[i], h[i]>> \in rules
  <2> SUFFICES ASSUME NEW i \in 1..(n + k) PROVE <<h[i - 1], (s \o t)[i], h[i]>> \in rules
    OBVIOUS
  <2>1. i \in 0..(n + k) /\ i - 1 \in 0..(n + k) /\ i \in Int
    BY <1>3
  <2>2. CASE i <= n
    <3>1. i \in 1..n /\ i - 1 <= n
      BY <2>2, <1>3
    <3>2. h[i - 1] = f[i - 1] /\ h[i] = f[i]
      BY <3>1, <2>1, <2>2
    <3> QED
      BY <1>3, <3>1, <3>2, <1>a, <2>2
  <2>3. CASE i = n + 1
    <3>1. i - 1 = n /\ ~(i <= n) /\ i - n = 1 /\ 1 \in 1..k /\ 1 - 1 = 0
      BY <2>3, <1>3
    <3>2. h[i - 1] = f[n] /\ h[i] = g[1]
      BY <3>1, <2>1, <1>3
    <3> QED
      BY <1>3, <3>1, <3>2, <1>a, <1>b
  <2>4. CASE i > n + 1
    <3>1. ~(i <= n) /\ ~(i - 1 <= n) /\ i - n \in 1..k /\ (i - n) - 1 = (i - 1) - n
      BY <2>4, <1>3
    <3>2. h[i - 1] = g[(i - n) - 1] /\ h[i] = g[i - n]
      BY <3>1, <2>1
    <3> QED
      BY <1>3, <3>1, <3>2, <1>b
  <2>5. i <= n \/ i = n + 1 \/ i > n + 1
    BY <2>1, <1>3
  <2> HIDE DEF h
  <2> QED
    BY <2>2, <2>3, <2>4, <2>5
<1> HIDE DEF h
<1> QED
  BY <1>3, <1>4, <1>5, <1>6

(* A path goes through the first step. *)
LEMMA PathHead ==
    ASSUME NEW rules, NEW s, NEW l, NEW e, Path(rules, s, l, e), s # <<>>
    PROVE  /\ Head(s) \in Steps /\ Tail(s) \in Seq(Steps)
           /\ \E m \in Label : <<l, Head(s), m>> \in rules /\ Path(rules, Tail(s), m, e)
<1> DEFINE n == Len(s)
           t == Tail(s)
<1>1. s \in Seq(Steps) /\ n \in Nat /\ n > 0 /\ s[1] = Head(s)
  BY LenProperties, EmptySeq DEF Path
<1>2. t \in Seq(Steps) /\ Len(t) = n - 1 /\ \A i \in 1..(n - 1) : t[i] = s[i + 1]
  BY <1>1, HeadTailProperties
<1>3. PICK h \in [0..n -> Label] :
        /\ h[0] = l /\ h[n] = e
        /\ \A i \in 1..n : <<h[i - 1], s[i], h[i]>> \in rules
  BY DEF Path
<1>h. Head(s) \in Steps
  BY <1>1
<1> HIDE DEF n, t
<1> DEFINE g == [i \in 0..(n - 1) |-> h[i + 1]]
<1>4. g \in [0..(n - 1) -> Label] /\ g[0] = h[1] /\ g[n - 1] = e /\ h[1] \in Label
  <2>1. \A i \in 0..(n - 1) : i + 1 \in 0..n
    BY <1>1
  <2>2. 0 \in 0..(n - 1) /\ n - 1 \in 0..(n - 1) /\ (n - 1) + 1 = n /\ 0 + 1 = 1 /\ 1 \in 0..n
    BY <1>1
  <2> QED
    BY <1>3, <2>1, <2>2
<1>5. \A i \in 1..(n - 1) : <<g[i - 1], t[i], g[i]>> \in rules
  <2> SUFFICES ASSUME NEW i \in 1..(n - 1) PROVE <<g[i - 1], t[i], g[i]>> \in rules
    OBVIOUS
  <2>1. i \in 0..(n - 1) /\ i - 1 \in 0..(n - 1) /\ i + 1 \in 1..n /\ (i - 1) + 1 = i /\ (i + 1) - 1 = i
    BY <1>1
  <2>2. g[i - 1] = h[i] /\ g[i] = h[i + 1]
    BY <2>1
  <2> QED
    BY <1>2, <1>3, <2>1, <2>2
<1> HIDE DEF g
<1>6. Path(rules, t, h[1], e)
  BY <1>2, <1>4, <1>5 DEF Path
<1>7. <<l, Head(s), h[1]>> \in rules
  <2>1. 1 \in 1..n /\ 1 - 1 = 0
    BY <1>1
  <2> QED
    BY <2>1, <1>1, <1>3
<1> QED
  BY <1>2, <1>4, <1>6, <1>7, <1>h DEF t

(* Steps that need nothing and leave what is known. *)
LEMMA PathStay ==
    ASSUME NEW rules, NEW l \in Label, NEW s \in Seq(Steps),
           \A i \in 1..Len(s) : <<l, s[i], l>> \in rules
    PROVE  Path(rules, s, l, l)
<1> DEFINE n == Len(s)
           h == [i \in 0..n |-> l]
<1>1. n \in Nat
  BY LenProperties
<1>2. \A i \in 1..n : <<l, s[i], l>> \in rules
  OBVIOUS
<1> HIDE DEF n
<1>3. h \in [0..n -> Label] /\ h[0] = l /\ h[n] = l /\ \A i \in 1..n : i - 1 \in 0..n /\ i \in 0..n
  BY <1>1
<1>4. \A i \in 1..n : h[i - 1] = l /\ h[i] = l
  BY <1>1, <1>3
<1> HIDE DEF h
<1> QED
  BY <1>2, <1>3, <1>4 DEF Path, n

(* A path from its end to a place in it. *)
LEMMA PathFrom ==
    ASSUME NEW rules, NEW s \in Seq(Steps), NEW k \in 1..Len(s),
           NEW h \in [0..Len(s) -> Label],
           \A i \in 1..Len(s) : <<h[i - 1], s[i], h[i]>> \in rules
    PROVE  Path(rules, SubSeq(s, k, Len(s)), h[k - 1], h[Len(s)])
<1> DEFINE n == Len(s)
           t == SubSeq(s, k, n)
           g == [i \in 0..((n - k) + 1) |-> h[(k - 1) + i]]
<1>1. n \in Nat /\ k \in 1..n /\ \A i \in k..n : s[i] \in Steps
  BY LenProperties, ElementOfSeq
<1>2. h \in [0..n -> Label] /\ \A i \in 1..n : <<h[i - 1], s[i], h[i]>> \in rules
  OBVIOUS
<1>3. /\ t \in Seq(Steps) /\ Len(t) = (n - k) + 1
      /\ \A i \in 1..((n - k) + 1) : t[i] = s[(k - 1) + i]
  <2>0. k \in Int /\ n \in Int /\ k <= n
    BY <1>1
  <2>1. /\ t \in Seq(Steps)
        /\ Len(t) = IF k <= n THEN n-k+1 ELSE 0
        /\ \A i \in 1 .. n-k+1 : t[i] = s[k+i-1]
    <3> HIDE DEF n
    <3> QED
      BY <1>1, <2>0, SubSeqProperties
  <2> HIDE DEF n, t
  <2>2. \A i \in Int : k+i-1 = (k - 1) + i
    BY <2>0
  <2>3. n-k+1 = (n - k) + 1
    BY <2>0
  <2> QED
    BY <2>0, <2>1, <2>2, <2>3
<1> HIDE DEF n, t
<1>4. \A i \in 0..((n - k) + 1) : (k - 1) + i \in 0..n
  BY <1>1
<1>5. g \in [0..((n - k) + 1) -> Label]
  BY <1>2, <1>4
<1>6. g[0] = h[k - 1] /\ g[(n - k) + 1] = h[n]
  <2>1. 0 \in 0..((n - k) + 1) /\ (n - k) + 1 \in 0..((n - k) + 1)
        /\ (k - 1) + 0 = k - 1 /\ (k - 1) + ((n - k) + 1) = n
    BY <1>1
  <2> QED
    BY <2>1
<1>7. \A i \in 1..((n - k) + 1) : <<g[i - 1], t[i], g[i]>> \in rules
  <2> SUFFICES ASSUME NEW i \in 1..((n - k) + 1) PROVE <<g[i - 1], t[i], g[i]>> \in rules
    OBVIOUS
  <2>1. /\ i \in 0..((n - k) + 1) /\ i - 1 \in 0..((n - k) + 1)
        /\ (k - 1) + i \in 1..n /\ (k - 1) + (i - 1) = ((k - 1) + i) - 1
    BY <1>1
  <2>2. g[i - 1] = h[((k - 1) + i) - 1] /\ g[i] = h[(k - 1) + i]
    BY <2>1
  <2> QED
    BY <1>2, <1>3, <2>1, <2>2
<1> HIDE DEF g
<1>8. Path(rules, t, h[k - 1], h[n])
  BY <1>3, <1>5, <1>6, <1>7 DEF Path
<1> QED
  BY <1>8 DEF n, t

(* The least of some numbers is one of them. *)
LEMMA MinElement ==
    ASSUME NEW S \in SUBSET Nat, S # {}
    PROVE  Min(S) \in S /\ \A y \in S : Min(S) <= y
<1> DEFINE Less == OpToRel(<, Nat)
<1>1. IsWellFoundedOn(Less, Nat)
  BY Zenon, NatLessThanWellFounded
<1>2. \A x, y \in Nat : <<y, x>> \in Less <=> y < x
  BY Zenon DEF OpToRel
<1> HIDE DEF Less
<1>3. \E x \in S : \A y \in S : <<y, x>> \notin Less
  BY <1>1, WFMin
<1>4. \E x \in S : \A y \in S : ~(y < x)
  BY <1>2, <1>3, Zenon
<1>5. \E x \in S : \A y \in S : x <= y
  BY <1>4
<1> QED
  BY <1>5 DEF Min

(* What is caught is the rest of the path, from what was promised.         *)
LEMMA PathCut ==
    ASSUME NEW rules, NEW s, NEW l, NEW e, Path(rules, s, l, e), Throwing(rules),
           e.now \subseteq e.then
    PROVE  \E a \in Label : a.now \subseteq l.then /\ Path(rules, Caught(s), a, e)
<1> DEFINE n == Len(s)
           C == {i \in 1..n : s[i][1] \in Catchers}
<1>1. s \in Seq(Steps) /\ n \in Nat
  BY LenProperties DEF Path
<1>2. PICK h \in [0..n -> Label] :
        /\ h[0] = l /\ h[n] = e
        /\ \A i \in 1..n : <<h[i - 1], s[i], h[i]>> \in rules
  BY DEF Path
<1>e. \A i \in 1..n : s[i] \in Steps
  BY <1>1
<1>c. Caught(s) = IF C = {} THEN <<>> ELSE SubSeq(s, Min(C), n)
  BY Zenon DEF Caught, Catchers
<1>s. n = Len(s)
  OBVIOUS
<1> HIDE DEF n
<1>3. ASSUME NEW k \in 0..n, \A i \in 1..k : i \notin C
      PROVE  h[k].then = l.then
  <2> DEFINE B == {j \in 0..k : h[j].then # l.then}
  <2> SUFFICES ASSUME B # {} PROVE FALSE
    BY <1>1
  <2>1. B \in SUBSET Nat
    BY <1>1
  <2>2. Min(B) \in B /\ \A y \in B : Min(B) <= y
    BY <2>1, MinElement
  <2> DEFINE b == Min(B)
  <2>3. b \in 0..k /\ h[b].then # l.then /\ b # 0
    BY <2>2, <1>2
  <2>4. b - 1 \in 0..k /\ b - 1 \notin B
    <3>1. b \in Int /\ k \in Int /\ ~(b <= b - 1) /\ b - 1 \in 0..k
      BY <2>3, <1>1
    <3> HIDE DEF b
    <3> QED
      BY <2>2, <3>1 DEF b
  <2>5. h[b - 1].then = l.then
    BY <2>4
  <2> HIDE DEF b, B
  <2>6. b \in 1..n /\ b \notin C /\ b - 1 \in 0..n /\ b \in 0..n
    BY <2>3, <2>4, <1>1, <1>3
  <2>7. s[b][1] \notin Catchers
    BY <2>6
  <2>8. h[b].then = h[b - 1].then
    <3>1. <<h[b - 1], s[b], h[b]>> \in rules /\ s[b] \in Steps /\ h[b - 1] \in Label /\ h[b] \in Label
      BY <2>6, <1>2, <1>e
    <3> QED
      BY <3>1, <2>7 DEF Throwing
  <2> QED
    BY <2>3, <2>5, <2>8
<1>4. CASE C = {}
  <2>1. e.then = l.then /\ e \in Label
    BY <1>1, <1>2, <1>3, <1>4
  <2> QED
    BY <2>1, <1>4, <1>c, PathNil
<1>5. CASE C # {}
  <2> DEFINE c == Min(C)
  <2>0. C \in SUBSET Nat
    BY <1>1
  <2>1. c \in C /\ \A i \in C : c <= i
    <3> HIDE DEF C
    <3> QED
      BY <1>5, <2>0, MinElement
  <2> HIDE DEF c
  <2>2. c \in 1..n /\ s[c][1] \in Catchers /\ c - 1 \in 0..n /\ \A i \in 1..(c - 1) : i \notin C
    BY <2>1, <1>1
  <2>3. h[c - 1].then = l.then
    BY <2>2, <1>3
  <2>4. h[c - 1].now \subseteq h[c - 1].then /\ h[c - 1] \in Label
    <3>1. <<h[c - 1], s[c], h[c]>> \in rules /\ s[c] \in Steps /\ h[c - 1] \in Label /\ h[c] \in Label
      BY <2>2, <1>2, <1>e
    <3> QED
      BY <3>1, <2>2 DEF Throwing
  <2>5. Path(rules, SubSeq(s, c, n), h[c - 1], h[n])
    BY <2>2, <1>1, <1>2, <1>s, PathFrom
  <2> QED
    BY <2>3, <2>4, <2>5, <1>2, <1>5, <1>c DEF c
<1> QED
  BY <1>4, <1>5

(* Paths through a few steps. *)
LEMMA PathTwo ==
    ASSUME NEW rules, NEW l \in Label, NEW a \in Label, NEW e \in Label,
           NEW x \in Steps, NEW y \in Steps,
           <<l, x, a>> \in rules, <<a, y, e>> \in rules
    PROVE  Path(rules, <<x, y>>, l, e)
<1>1. Path(rules, <<x>>, l, a)
  BY PathOne, Zenon
<1>o. Path(rules, <<y>>, a, e)
  BY PathOne, Zenon
<1>2. <<x>> \o <<y>> = <<x, y>>
  <2> DEFINE u == <<x>> \o <<y>>
             all == <<x, y>>
  <2>1. all \in Seq(Steps) /\ Len(all) = 2 /\ all[1] = x /\ all[2] = y
    OBVIOUS
  <2>2. <<x>> \in Seq(Steps) /\ Len(<<x>>) = 1 /\ <<x>>[1] = x
    OBVIOUS
  <2>3. <<y>> \in Seq(Steps) /\ Len(<<y>>) = 1 /\ <<y>>[1] = y
    OBVIOUS
  <2>4. u \in Seq(Steps) /\ Len(u) = 1 + 1
        /\ \A i \in 1..(1 + 1) : u[i] = IF i <= 1 THEN <<x>>[i] ELSE <<y>>[i - 1]
    BY <2>2, <2>3, ConcatProperties
  <2> HIDE DEF u, all
  <2>5. \A i \in 1..2 : u[i] = all[i]
    BY <2>1, <2>2, <2>3, <2>4
  <2>6. u = all
    BY <2>1, <2>4, <2>5, SeqEqual
  <2> QED
    BY <2>6 DEF u, all
<1> QED
  BY <1>1, <1>o, <1>2, PathCat, Zenon

(* A path of three steps. *)
LEMMA PathThree ==
    ASSUME NEW rules, NEW l \in Label, NEW a \in Label, NEW b \in Label, NEW e \in Label,
           NEW x \in Steps, NEW y \in Steps, NEW z \in Steps,
           <<l, x, a>> \in rules, <<a, y, b>> \in rules, <<b, z, e>> \in rules
    PROVE  Path(rules, <<x, y, z>>, l, e)
<1>1. Path(rules, <<x, y>>, l, b)
  BY PathOne, PathTwo, Zenon
<1>o. Path(rules, <<z>>, b, e)
  BY PathOne, Zenon
<1>2. <<x, y>> \o <<z>> = <<x, y, z>>
  <2> DEFINE u == <<x, y>> \o <<z>>
             all == <<x, y, z>>
  <2>1. all \in Seq(Steps) /\ Len(all) = 3 /\ all[1] = x /\ all[2] = y /\ all[3] = z
    OBVIOUS
  <2>2. <<x, y>> \in Seq(Steps) /\ Len(<<x, y>>) = 2 /\ <<x, y>>[1] = x /\ <<x, y>>[2] = y
    OBVIOUS
  <2>3. <<z>> \in Seq(Steps) /\ Len(<<z>>) = 1 /\ <<z>>[1] = z
    OBVIOUS
  <2>4. u \in Seq(Steps) /\ Len(u) = 2 + 1
        /\ \A i \in 1..(2 + 1) : u[i] = IF i <= 2 THEN <<x, y>>[i] ELSE <<z>>[i - 2]
    BY <2>2, <2>3, ConcatProperties
  <2> HIDE DEF u, all
  <2>5. \A i \in 1..3 : u[i] = all[i]
    BY <2>1, <2>2, <2>3, <2>4
  <2>6. u = all
    BY <2>1, <2>4, <2>5, SeqEqual
  <2> QED
    BY <2>6 DEF u, all
<1> QED
  BY <1>1, <1>o, <1>2, PathCat, Zenon

(* A path of four steps. *)
LEMMA PathFour ==
    ASSUME NEW rules, NEW l \in Label, NEW a \in Label, NEW b \in Label, NEW c \in Label,
           NEW e \in Label,
           NEW w \in Steps, NEW x \in Steps, NEW y \in Steps, NEW z \in Steps,
           <<l, w, a>> \in rules, <<a, x, b>> \in rules, <<b, y, c>> \in rules,
           <<c, z, e>> \in rules
    PROVE  Path(rules, <<w, x, y, z>>, l, e)
<1>1. Path(rules, <<w, x, y>>, l, c)
  BY PathOne, PathThree, Zenon
<1>o. Path(rules, <<z>>, c, e)
  BY PathOne, Zenon
<1>2. <<w, x, y>> \o <<z>> = <<w, x, y, z>>
  <2> DEFINE u == <<w, x, y>> \o <<z>>
             all == <<w, x, y, z>>
  <2>1. all \in Seq(Steps) /\ Len(all) = 4 /\ all[1] = w /\ all[2] = x /\ all[3] = y /\ all[4] = z
    OBVIOUS
  <2>2. <<w, x, y>> \in Seq(Steps) /\ Len(<<w, x, y>>) = 3 /\ <<w, x, y>>[1] = w /\ <<w, x, y>>[2] = x /\ <<w, x, y>>[3] = y
    OBVIOUS
  <2>3. <<z>> \in Seq(Steps) /\ Len(<<z>>) = 1 /\ <<z>>[1] = z
    OBVIOUS
  <2>4. u \in Seq(Steps) /\ Len(u) = 3 + 1
        /\ \A i \in 1..(3 + 1) : u[i] = IF i <= 3 THEN <<w, x, y>>[i] ELSE <<z>>[i - 3]
    BY <2>2, <2>3, ConcatProperties
  <2> HIDE DEF u, all
  <2>5. \A i \in 1..4 : u[i] = all[i]
    BY <2>1, <2>2, <2>3, <2>4
  <2>6. u = all
    BY <2>1, <2>4, <2>5, SeqEqual
  <2> QED
    BY <2>6 DEF u, all
<1> QED
  BY <1>1, <1>o, <1>2, PathCat, Zenon

(* A path of five steps. *)
LEMMA PathFive ==
    ASSUME NEW rules, NEW l \in Label, NEW a \in Label, NEW b \in Label, NEW c \in Label,
           NEW d \in Label, NEW e \in Label,
           NEW v \in Steps, NEW w \in Steps, NEW x \in Steps, NEW y \in Steps, NEW z \in Steps,
           <<l, v, a>> \in rules, <<a, w, b>> \in rules, <<b, x, c>> \in rules,
           <<c, y, d>> \in rules, <<d, z, e>> \in rules
    PROVE  Path(rules, <<v, w, x, y, z>>, l, e)
<1>1. Path(rules, <<v, w, x, y>>, l, d)
  BY PathOne, PathFour, Zenon
<1>o. Path(rules, <<z>>, d, e)
  BY PathOne, Zenon
<1>2. <<v, w, x, y>> \o <<z>> = <<v, w, x, y, z>>
  <2> DEFINE u == <<v, w, x, y>> \o <<z>>
             all == <<v, w, x, y, z>>
  <2>1. all \in Seq(Steps) /\ Len(all) = 5 /\ all[1] = v /\ all[2] = w /\ all[3] = x /\ all[4] = y /\ all[5] = z
    OBVIOUS
  <2>2. <<v, w, x, y>> \in Seq(Steps) /\ Len(<<v, w, x, y>>) = 4 /\ <<v, w, x, y>>[1] = v /\ <<v, w, x, y>>[2] = w /\ <<v, w, x, y>>[3] = x /\ <<v, w, x, y>>[4] = y
    OBVIOUS
  <2>3. <<z>> \in Seq(Steps) /\ Len(<<z>>) = 1 /\ <<z>>[1] = z
    OBVIOUS
  <2>4. u \in Seq(Steps) /\ Len(u) = 4 + 1
        /\ \A i \in 1..(4 + 1) : u[i] = IF i <= 4 THEN <<v, w, x, y>>[i] ELSE <<z>>[i - 4]
    BY <2>2, <2>3, ConcatProperties
  <2> HIDE DEF u, all
  <2>5. \A i \in 1..5 : u[i] = all[i]
    <3> SUFFICES ASSUME NEW i \in 1..5 PROVE u[i] = all[i]
      OBVIOUS
    <3>1. CASE i = 5
      <4>1. i \in 1..(4 + 1) /\ ~(i <= 4) /\ i - 4 = 1
        BY <3>1
      <4> QED
        BY <3>1, <4>1, <2>1, <2>3, <2>4
    <3>2. CASE i # 5
      <4>1. i \in 1..(4 + 1) /\ i <= 4 /\ i \in 1..4
        BY <3>2
      <4>2. u[i] = <<v, w, x, y>>[i]
        BY <4>1, <2>4
      <4>3. i = 1 \/ i = 2 \/ i = 3 \/ i = 4
        BY <4>1
      <4> QED
        BY <4>2, <4>3, <2>1, <2>2
    <3> QED
      BY <3>1, <3>2
  <2>7. Len(u) = 5 /\ Len(all) = 5
    BY <2>1, <2>4
  <2>6. u = all
    BY <2>1, <2>4, <2>5, <2>7, SeqEqual
  <2> QED
    BY <2>6 DEF u, all
<1> QED
  BY <1>1, <1>o, <1>2, PathCat, Zenon

(* A step in the place of the first one, where as much or more is known. *)
LEMMA PathNewHead ==
    ASSUME NEW rules, NEW s, NEW l, NEW e, Path(rules, s, l, e), s # <<>>, NEW x \in Steps,
           NEW k \in Label,
           \A m \in Label : <<l, Head(s), m>> \in rules => <<k, x, m>> \in rules
    PROVE  Path(rules, [s EXCEPT ![1] = x], k, e)
<1>1. s \in Seq(Steps)
  BY DEF Path
<1>2. PICK m \in Label : <<l, Head(s), m>> \in rules /\ Path(rules, Tail(s), m, e)
  BY PathHead
<1>3. Path(rules, <<x>>, k, m)
  BY <1>2, PathOne
<1>4. Path(rules, <<x>> \o Tail(s), k, e)
  BY <1>2, <1>3, PathCat
<1>5. <<x>> \o Tail(s) = [s EXCEPT ![1] = x]
  <2>1. <<x>> \in Seq(Steps) /\ Tail(s) \in Seq(Steps) /\ Len(Tail(s)) = Len(s) - 1
        /\ \A i \in 1..Len(Tail(s)) : Tail(s)[i] = s[i + 1]
    BY <1>1, HeadTailProperties
  <2>2. Len(s) \in Nat /\ Len(s) > 0 /\ 1 \in 1..Len(s)
    BY <1>1, LenProperties, EmptySeq
  <2> DEFINE u == <<x>> \o Tail(s)
             w == [s EXCEPT ![1] = x]
             n == Len(s)
  <2>3. u \in Seq(Steps) /\ Len(u) = n /\ \A i \in 1..n : u[i] = IF i = 1 THEN x ELSE s[i]
    <3>1. Len(<<x>>) = 1 /\ <<x>>[1] = x
      OBVIOUS
    <3>2. u \in Seq(Steps) /\ Len(u) = 1 + Len(Tail(s)) /\
          \A i \in 1 .. 1 + Len(Tail(s)) : u[i] = IF i <= 1 THEN <<x>>[i] ELSE Tail(s)[i - 1]
      BY <2>1, <3>1, ConcatProperties
    <3> HIDE DEF u
    <3>3. \A i \in 1..n : i <= 1 => i = 1
      OBVIOUS
    <3>4. \A i \in 1..n : ~(i <= 1) => i - 1 \in 1..Len(Tail(s)) /\ (i - 1) + 1 = i
      BY <2>1, <2>2
    <3>5. 1 + Len(Tail(s)) = n
      BY <2>1, <2>2
    <3> QED
      BY <2>1, <3>1, <3>2, <3>3, <3>4, <3>5
  <2>4. w \in Seq(Steps) /\ Len(w) = n /\ \A i \in 1..n : w[i] = IF i = 1 THEN x ELSE s[i]
    BY <1>1, <2>2, ExceptSeq
  <2> HIDE DEF u, w, n
  <2>5. u = w
    BY <2>3, <2>4, SeqEqual
  <2> QED
    BY <2>5 DEF u, w
<1> QED
  BY <1>4, <1>5

(* A step in the place of the first one. *)
LEMMA PathHeadReplaced ==
    ASSUME NEW rules, NEW s, NEW l, NEW e, Path(rules, s, l, e), s # <<>>, NEW x \in Steps,
           \A m \in Label : <<l, Head(s), m>> \in rules => <<l, x, m>> \in rules,
           l \in Label
    PROVE  Path(rules, [s EXCEPT ![1] = x], l, e)
  BY PathNewHead

-----------------------------------------------------------------------------
(* Types *)

(* The operations on the permissions. *)
PermOps == {"readPerm", "setPerm", "editPerm"}

(* The operations that a process may begin. *)
Ops ==
    {"boot", "readBoost", "putBoost", "setBoost", "resetBoost", "editBoost", "calibrate",
     "updateField", "discover", "applyBooster", "request", "release", "ps"} \cup PermOps

(* What an operation may be asked to change. *)
Requests(op) ==
    CASE op \in {"setBoost", "editBoost", "updateField"} -> {c \in Changes : c[1] = "boost"}
      [] op \in {"setPerm", "editPerm"} -> {c \in Changes : c[1] = "perm"}
      [] op = "boot" -> {<<"boost", "tune", "">>}
      [] op = "resetBoost" -> {<<"boost", "reset", "">>}
      [] op = "putBoost" -> {<<"boost", "all", BoosterDefault>>}
      [] op \in {"request", "release"} -> {"engine"} \X Engines \X {""}
      [] OTHER -> {}

(* What a process may be doing. *)
ActType ==
    [op : Ops \cup {"idle"}, todo : Seq(Steps), perm : PermControl \cup {None},
     boost : BoosterControl \cup {None}, sys : Silicon \cup {None},
     reg : (SUBSET Pids) \cup {None}, chg : {None} \cup UNION {Requests(op) : op \in Ops},
     base : SUBSET (BoosterControl \cup PermControl)]

(* What the arbiter of a process may be. *)
MemType ==
    [total : {0, Vram}, alloc : Int, active : [Engines -> Nat], held : BOOLEAN,
     dna : Int \cup {None}, ctx : Int \cup {None}, booted : BOOLEAN]

(* What a file of the store s may hold. *)
FileType(s) ==
    {Absent, Torn} \cup
        CASE s = "boost" -> BoosterControl
          [] s = "perm" -> PermControl
          [] s = "reg" -> SUBSET Pids
          [] OTHER -> Silicon \cup {None}

(* The values from which a change of op may start. *)
BaseType(op) == SUBSET (IF op \in PermOps THEN PermControl ELSE BoosterControl)

(* Every file holds what its store may hold. *)
FileTypes ==
    /\ file \in [Files -> UNION {FileType(s) : s \in Stores}]
    /\ \A f \in Files : file[f] \in FileType(f[1])

(* The values that the settings may have are values of the settings. *)
OkTypes ==
    /\ ok \in [Settings \cup {"sys"} -> SUBSET (BoosterControl \cup PermControl \cup Silicon \cup {Absent})]
    /\ ok["boost"] \subseteq BoosterControl /\ ok["perm"] \subseteq PermControl

(* What a process was asked to change fits its operation. *)
ActTypes ==
    /\ act \in [Procs -> ActType]
    /\ \A p \in Procs :
        /\ act[p].chg \in Requests(act[p].op) \cup {None}
        /\ act[p].base \in BaseType(act[p].op)

(* Counters are numbers within their bounds, and a process was started again after a crash. *)
CountTypes ==
    /\ gen \in [Procs -> Nat] /\ crashes \in 0..MaxCrashes /\ ops \in 0..MaxOps
    /\ \A p \in Procs : gen[p] <= crashes

(* The types of all variables: only files of the fingerprint are locked. *)
Types ==
    /\ FileTypes /\ OkTypes /\ ActTypes /\ CountTypes
    /\ locked \subseteq {<<"sys", "json">>, <<"sys", "bin">>}
    /\ mem \in [Procs -> MemType]
    /\ mixed \in [Stores -> BOOLEAN]

-----------------------------------------------------------------------------
(* What the rules of the booster give *)

(* A probe finds the memory of the card, or none. *)
LEMMA VramOfTyped == \A silicon : VramOf(silicon) \in {0, Vram} /\ Vram \in Nat
  BY BoosterAssumption DEF VramOf

(* The defaults and the optimum are settings. *)
LEMMA DefaultsTyped ==
    /\ BoosterDefault \in BoosterControl /\ PermDefault \in PermControl
    /\ \A silicon : Optimal(silicon) \in BoosterControl
<1>1. BoosterDefault \in BoosterControl /\ PermDefault \in PermControl
  BY DEF BoosterDefault, BoosterControl, PermDefault, PermControl, BoosterMode, FeatureState
<1>2. ASSUME NEW silicon PROVE Optimal(silicon) \in BoosterControl
  <2> DEFINE vram == VramOf(silicon)
             mode == CASE vram >= 2400 -> "max_boost"
                   [] vram >= 800 /\ vram < 2400 -> "balance"
                   [] vram >= 200 /\ vram < 800 -> "multitasking"
                   [] vram < 200 -> "edge"
             flash == IF vram > 0 THEN "On" ELSE "Auto"
             spec == IF vram >= 800 THEN "Auto" ELSE "Off"
             layers == IF vram > 0 THEN -1 ELSE 0
  <2>1. vram \in Nat
    BY VramOfTyped
  <2>2. Optimal(silicon) = [BoosterDefault EXCEPT !.mode = mode, !.flash = flash, !.spec = spec, !.layers = layers]
    BY Zenon DEF Optimal
  <2> HIDE DEF vram
  <2>3. mode \in BoosterMode /\ flash \in FeatureState /\ spec \in FeatureState /\ layers \in {-1, 0}
    BY <2>1 DEF BoosterMode, FeatureState
  <2> HIDE DEF mode, flash, spec, layers
  <2> QED
    BY <2>2, <2>3, <1>1 DEF BoosterControl
<1> QED
  BY <1>1, <1>2

(* Tuning and resolving settings gives settings. *)
LEMMA TuneTyped ==
    ASSUME NEW c \in BoosterControl, NEW silicon
    PROVE  Tune(c, silicon) \in BoosterControl /\ Resolve(c, silicon) \in BoosterControl
<1> DEFINE flash == IF c.flash # "Auto" THEN c.flash ELSE IF HasNvidia(silicon) THEN "On" ELSE "Off"
           turbo == IF c.turbo # "Auto" THEN c.turbo ELSE IF VramOf(silicon) < 800 THEN "On" ELSE "Off"
           turbo2 == IF VramOf(silicon) < 1200 THEN "On" ELSE c.turbo
           flash2 == IF c.flash = "Auto" THEN "On" ELSE c.flash
<1>1. flash \in FeatureState /\ turbo \in FeatureState /\ turbo2 \in FeatureState /\ flash2 \in FeatureState
  BY DEF FeatureState, BoosterControl
<1>2. Tune(c, silicon) = [c EXCEPT !.flash = flash, !.turbo = turbo]
  BY DEF Tune, BoosterControl
<1>3. Resolve(c, silicon) = IF c.spec # "On" THEN c ELSE [c EXCEPT !.turbo = turbo2, !.flash = flash2]
  BY DEF Resolve, BoosterControl
<1> HIDE DEF flash, turbo, turbo2, flash2
<1> QED
  BY <1>1, <1>2, <1>3 DEF BoosterControl

(* What users set in a store has the type of its fields. *)
LEMMA SetTyped ==
    ASSUME NEW chg \in Changes
    PROVE  /\ chg[1] \in {"boost", "perm"}
           /\ chg[2] \notin {"tune", "reset", "all"}
           /\ chg[1] = "boost" =>
                \A c \in BoosterControl : [c EXCEPT ![chg[2]] = chg[3]] \in BoosterControl
           /\ chg[1] = "perm" =>
                \A c \in PermControl : [c EXCEPT ![chg[2]] = chg[3]] \in PermControl
<1> DEFINE Goal ==
           /\ chg[1] \in {"boost", "perm"}
           /\ chg[2] \notin {"tune", "reset", "all"}
           /\ chg[1] = "boost" =>
                \A c \in BoosterControl : [c EXCEPT ![chg[2]] = chg[3]] \in BoosterControl
           /\ chg[1] = "perm" =>
                \A c \in PermControl : [c EXCEPT ![chg[2]] = chg[3]] \in PermControl
<1>1. chg \in MenuChanges
  BY ChangesAssumption
<1>2. CASE chg \in EngineModes \cup NeuralModes
  <2>1. PICK m \in BoosterMode : chg = <<"boost", "mode", m>>
    BY <1>2 DEF EngineModes, NeuralModes, BoosterMode
  <2>2. \A c \in BoosterControl : [c EXCEPT !["mode"] = m] \in BoosterControl
    BY DEF BoosterControl
  <2> QED
    BY <2>1, <2>2
<1>3. CASE chg \in ComputeDevices
  <2>1. PICK m \in {-1, 0} : chg = <<"boost", "layers", m>>
    BY <1>3 DEF ComputeDevices
  <2>2. \A c \in BoosterControl : [c EXCEPT !["layers"] = m] \in BoosterControl
    BY DEF BoosterControl
  <2> QED
    BY <2>1, <2>2
<1>4. CASE chg \in {"boost"} \X {"turbo", "flash", "spec"} \X FeatureState
  <2>1. PICK f \in {"turbo", "flash", "spec"}, v \in FeatureState : chg = <<"boost", f, v>>
    BY <1>4
  <2>2. \A c \in BoosterControl : [c EXCEPT ![f] = v] \in BoosterControl
    BY DEF BoosterControl
  <2> QED
    BY <2>1, <2>2
<1>5. CASE chg \in {"boost"} \X {"reclaim"} \X BOOLEAN
  <2>1. PICK v \in BOOLEAN : chg = <<"boost", "reclaim", v>>
    BY <1>5
  <2>2. \A c \in BoosterControl : [c EXCEPT !["reclaim"] = v] \in BoosterControl
    BY DEF BoosterControl
  <2> QED
    BY <2>1, <2>2
<1>6. CASE chg \in {"perm"} \X ActiveModels \X {"m1", "m2"}
  <2>1. PICK f \in {"chat", "embed"}, v \in {"m1", "m2"} : chg = <<"perm", f, v>>
    BY <1>6 DEF ActiveModels
  <2>2. \A c \in PermControl : [c EXCEPT ![f] = v] \in PermControl
    BY DEF PermControl
  <2> QED
    BY <2>1, <2>2
<1>7. CASE chg \in {"perm"} \X {"lazy"} \X {"true", "false"}
  <2>1. PICK v \in {"true", "false"} : chg = <<"perm", "lazy", v>>
    BY <1>7
  <2>2. \A c \in PermControl : [c EXCEPT !["lazy"] = v] \in PermControl
    BY DEF PermControl
  <2> QED
    BY <2>1, <2>2
<1> QED
  BY <1>1, <1>2, <1>3, <1>4, <1>5, <1>6, <1>7, Zenon DEF MenuChanges, FeatureStates, PermissionChanges

(* So has what a change makes of them, of what was read or, for a reset,   *)
(* of anything.                                                            *)
LEMMA ChangedTyped ==
    ASSUME NEW op \in Ops, NEW chg \in Requests(op), NEW silicon, NEW c,
           op \in {"setBoost", "editBoost", "updateField", "boot"} => c \in BoosterControl,
           op \in {"setPerm", "editPerm"} => c \in PermControl
    PROVE  /\ op \in PermOps => chg[1] = "perm" /\ Changed(chg, c, silicon) \in PermControl
           /\ op \notin PermOps /\ op \notin {"request", "release"}
                => chg[1] = "boost" /\ Changed(chg, c, silicon) \in BoosterControl
<1>1. CASE op \in {"setBoost", "editBoost", "updateField"}
  <2>1. chg \in Changes /\ chg[1] = "boost" /\ op \notin PermOps
    BY Zenon, <1>1 DEF Requests, PermOps
  <2>2. Changed(chg, c, silicon) = [c EXCEPT ![chg[2]] = chg[3]]
    BY <2>1, SetTyped DEF Changed
  <2> QED
    BY <1>1, <2>1, <2>2, SetTyped
<1>2. CASE op \in {"setPerm", "editPerm"}
  <2>1. chg \in Changes /\ chg[1] = "perm" /\ op \in PermOps
    BY Zenon, <1>2 DEF Requests, PermOps
  <2>2. Changed(chg, c, silicon) = [c EXCEPT ![chg[2]] = chg[3]]
    BY <2>1, SetTyped DEF Changed
  <2> QED
    BY <1>2, <2>1, <2>2, SetTyped
<1>3. CASE op = "boot"
  <2>1. chg = <<"boost", "tune", "">> /\ op \notin PermOps
    BY Zenon, <1>3 DEF Requests, PermOps
  <2>2. Changed(chg, c, silicon) = Resolve(Tune(c, silicon), silicon)
    BY Zenon, <2>1 DEF Changed
  <2> QED
    BY Zenon, <1>3, <2>1, <2>2, TuneTyped
<1>4. CASE op = "resetBoost"
  <2>1. chg = <<"boost", "reset", "">> /\ op \notin PermOps
    BY Zenon, <1>4 DEF Requests, PermOps
  <2>2. Changed(chg, c, silicon) = Optimal(silicon)
    BY Zenon, <2>1 DEF Changed
  <2> QED
    BY Zenon, <2>1, <2>2, DefaultsTyped
<1>5. CASE op = "putBoost"
  <2>1. chg = <<"boost", "all", BoosterDefault>> /\ op \notin PermOps
    BY <1>5 DEF Requests, PermOps
  <2>2. Changed(chg, c, silicon) = BoosterDefault
    BY <2>1 DEF Changed
  <2> QED
    BY <2>1, <2>2, DefaultsTyped
<1>6. CASE op \in {"request", "release"}
  BY <1>6 DEF PermOps
<1>7. CASE op \notin {"setBoost", "editBoost", "updateField", "setPerm", "editPerm", "boot",
                      "resetBoost", "putBoost", "request", "release"}
  BY Zenon, <1>7 DEF Requests
<1> QED
  BY <1>1, <1>2, <1>3, <1>4, <1>5, <1>6, <1>7

(* What a user means is a value of the setting. *)
LEMMA IntendedTyped ==
    ASSUME NEW op \in Ops, NEW chg \in Requests(op), NEW values \in BaseType(op),
           op \notin {"request", "release"}
    PROVE  Intended(chg, values) \in BaseType(op)
<1> SUFFICES ASSUME NEW c \in values
             PROVE  Changed(chg, c, "probed") \in IF op \in PermOps THEN PermControl ELSE BoosterControl
  BY DEF Intended, BaseType
<1>1. c \in IF op \in PermOps THEN PermControl ELSE BoosterControl
  BY DEF BaseType
<1>2. op \in {"setBoost", "editBoost", "updateField", "boot"} => c \in BoosterControl
  BY <1>1 DEF PermOps
<1>3. op \in {"setPerm", "editPerm"} => c \in PermControl
  BY <1>1 DEF PermOps
<1> QED
  BY <1>2, <1>3, ChangedTyped

(* The window is a number. *)
LEMMA EnvelopeTyped ==
    ASSUME NEW c \in BoosterControl, NEW total \in Nat, NEW others \in Int, NEW cap \in Int
    PROVE  Envelope(c, total, others, cap) \in Int
<1>1. Vram \in Nat /\ Ram \in Nat /\ Weights \in Nat /\ PerK \in Nat /\ PerK > 0
  BY BoosterAssumption
<1> DEFINE margin == Margin(c, total)
           Tokens(room) == (AtLeast(room, 0) * 1024) \div PerK
<1>2. \A a, b \in Int : AtLeast(a, b) \in Int /\ AtMost(a, b) \in Int
  BY DEF AtLeast, AtMost
<1>d. /\ total \div 10 \in Int /\ total \div 20 \in Int /\ total \div 100 \in Int /\ total \div 200 \in Int
      /\ (total * 30) \div 100 \in Int /\ (total * 15) \div 100 \in Int
  OBVIOUS
<1>3. margin \in Int
  <2>1. AtLeast(total \div 100, 25) \in Int
    BY <1>2, <1>d
  <2>2. c.mode \in BoosterMode
    BY DEF BoosterControl
  <2>3. ModeMargin(c.mode, total) \in Int
    BY <2>1, <2>2, <1>2, <1>d DEF ModeMargin, BoosterMode
  <2> DEFINE q == total \div 200
             mm == ModeMargin(c.mode, total)
  <2>q. q \in Int
    BY <1>d
  <2> HIDE DEF q
  <2>4. AtLeast(q, 25) \in Int /\ AtLeast(q, 60) \in Int
    BY <1>2, <2>q
  <2>m. mm \in Int
    BY <2>3
  <2> HIDE DEF mm
  <2>5. AtLeast(mm, 25) \in Int /\ AtLeast(mm, 60) \in Int
    BY <1>2, <2>m
  <2> DEFINE floor == IF c.mode \in {"ultra_max_boost", "hyper_cluster"} THEN 25 ELSE 60
  <2>6. margin = IF c.reclaim THEN AtLeast(q, floor)
                 ELSE IF total < 2400 THEN AtLeast(mm, floor) ELSE mm
    BY Zenon DEF Margin, q, mm
  <2>7. floor = 25 \/ floor = 60
    OBVIOUS
  <2> HIDE DEF floor, margin
  <2>8. AtLeast(q, floor) \in Int /\ AtLeast(mm, floor) \in Int
    BY <2>4, <2>5, <2>7, Zenon
  <2>9. margin = AtLeast(q, floor) \/ margin = AtLeast(mm, floor) \/ margin = mm
    BY <2>6
  <2> QED
    BY <2>m, <2>8, <2>9, Zenon
<1> HIDE DEF margin
<1>4. ASSUME NEW room \in Int PROVE Tokens(room) \in Int
  <2> DEFINE k == AtLeast(room, 0)
  <2>1. k \in Int
    BY <1>2
  <2> HIDE DEF k
  <2>2. (k * 1024) \div PerK \in Int
    BY <1>1, <2>1
  <2> QED
    BY <2>2 DEF k
<1> HIDE DEF Tokens
<1>5. total # 0 => ((total + Ram) * (total - margin)) \div total - Weights \in Int
  <2> SUFFICES ASSUME total # 0 PROVE ((total + Ram) * (total - margin)) \div total \in Int
    BY <1>1
  <2>1. (total + Ram) * (total - margin) \in Int
    BY <1>1, <1>3
  <2> QED
    BY <2>1
<1>6. total - margin - others - Weights \in Int
  BY <1>1, <1>3
<1>7. Envelope(c, total, others, cap) =
        IF c.layers = 0 THEN cap
        ELSE IF total = 0 THEN 0
        ELSE IF c.reclaim \/ Weights > total - margin
        THEN AtMost(Tokens(((total + Ram) * (total - margin)) \div total - Weights), cap)
        ELSE AtMost(Tokens(total - margin - others - Weights), cap)
  BY Zenon DEF Envelope, Tokens, margin
<1> DEFINE hybrid == c.reclaim \/ Weights > total - margin
           a == ((total + Ram) * (total - margin)) \div total - Weights
           b == total - margin - others - Weights
<1>8. total # 0 => AtMost(Tokens(a), cap) \in Int
  BY <1>2, <1>4, <1>5
<1>9. AtMost(Tokens(b), cap) \in Int
  BY <1>2, <1>4, <1>6
<1>10. Envelope(c, total, others, cap) =
        IF c.layers = 0 THEN cap ELSE IF total = 0 THEN 0
        ELSE IF hybrid THEN AtMost(Tokens(a), cap) ELSE AtMost(Tokens(b), cap)
  BY <1>7
<1> HIDE DEF hybrid, a, b
<1> QED
  BY <1>8, <1>9, <1>10

(* What the model was trained for is a number. *)
LEMMA TruthTyped == Truth \in Int
  BY GovernorAssumption DEF Truth

-----------------------------------------------------------------------------
(* What a step does to the process that takes it *)

(* The other processes go on with what they do. *)
Others(p) == \A q \in Procs \ {p} : act'[q] = act[q]

(* p is as a, but for what it has to do. *)
Became(p, a, todo) ==
    /\ act' \in [Procs -> ActType] /\ Others(p)
    /\ act'[p].op = a.op /\ act'[p].todo = todo /\ act'[p].perm = a.perm
    /\ act'[p].boost = a.boost /\ act'[p].sys = a.sys /\ act'[p].reg = a.reg
    /\ act'[p].chg = a.chg /\ act'[p].base = a.base

(* Assigning an entry of `act'. *)
LEMMA BecameTyped ==
    ASSUME act \in [Procs -> ActType], NEW p \in Procs, NEW a \in ActType, NEW todo \in Seq(Steps),
           act' = [act EXCEPT ![p] = [a EXCEPT !.todo = todo]]
    PROVE  Became(p, a, todo)
<1> DEFINE b == [a EXCEPT !.todo = todo]
<1>1. b \in ActType /\ b.todo = todo /\ b.op = a.op /\ b.perm = a.perm /\ b.boost = a.boost
      /\ b.sys = a.sys /\ b.reg = a.reg /\ b.chg = a.chg /\ b.base = a.base
  BY DEF ActType
<1>2. act' = [act EXCEPT ![p] = b]
  OBVIOUS
<1> HIDE DEF b
<1>3. act' \in [Procs -> ActType] /\ act'[p] = b /\ \A q \in Procs \ {p} : act'[q] = act[q]
  BY <1>1, <1>2
<1> QED
  BY <1>1, <1>3 DEF Became, Others

(* A step that inserts `more' before the rest. *)
LEMMA ContinueEffect ==
    ASSUME act \in [Procs -> ActType], NEW p \in Procs, NEW a \in ActType, a.todo # <<>>,
           NEW more \in Seq(Steps), Continue(p, a, more)
    PROVE  Became(p, a, more \o Tail(a.todo))
<1>1. a.todo \in Seq(Steps)
  BY DEF ActType
<1>2. more \o Tail(a.todo) \in Seq(Steps)
  BY <1>1, HeadTailProperties, ConcatProperties
<1>3. act' = [act EXCEPT ![p] = [a EXCEPT !.todo = more \o Tail(a.todo)]]
  BY DEF Continue, ActType
<1> QED
  BY <1>2, <1>3, BecameTyped

(* With nothing to insert, the rest is left. *)
LEMMA ContinueNil ==
    ASSUME act \in [Procs -> ActType], NEW p \in Procs, NEW a \in ActType, a.todo # <<>>,
           Continue(p, a, <<>>)
    PROVE  Became(p, a, Tail(a.todo))
<1>1. a.todo \in Seq(Steps) /\ <<>> \in Seq(Steps)
  BY DEF ActType
<1>2. Tail(a.todo) \in Seq(Steps) /\ <<>> \o Tail(a.todo) = Tail(a.todo)
  BY <1>1, HeadTailProperties, ConcatEmptySeq
<1> QED
  BY <1>1, <1>2, ContinueEffect

(* What is left after an error is a sequence of steps. *)
LEMMA CaughtTyped ==
    ASSUME NEW s \in Seq(Steps) PROVE Caught(s) \in Seq(Steps)
<1> DEFINE C == {i \in 1..Len(s) : s[i][1] \in {"catch", "require"}}
<1>1. Caught(s) = IF C = {} THEN <<>> ELSE SubSeq(s, Min(C), Len(s))
  BY Zenon DEF Caught
<1>2. CASE C = {}
  BY <1>1, <1>2
<1>3. CASE C # {}
  <2>0. Len(s) \in Nat
    BY LenProperties
  <2>1. C \in SUBSET Nat
    BY <2>0
  <2>2. Min(C) \in C
    <3> HIDE DEF C
    <3> QED
      BY <1>3, <2>1, MinElement
  <2>3. Min(C) \in 1..Len(s)
    BY <2>2
  <2> DEFINE m == Min(C)
  <2> HIDE DEF m, C
  <2>4. m \in Int /\ Len(s) \in Int /\ \A i \in m..Len(s) : s[i] \in Steps
    <3>1. \A i \in m..Len(s) : i \in 1..Len(s)
      BY <2>0, <2>3 DEF m
    <3> QED
      BY <2>0, <2>3, <3>1, ElementOfSeq DEF m
  <2>5. SubSeq(s, m, Len(s)) \in Seq(Steps)
    BY <2>4, SubSeqProperties
  <2> QED
    BY <1>1, <1>3, <2>5 DEF m
<1> QED
  BY <1>2, <1>3

(* An error: what is left goes on from where it is caught, with no fingerprint. *)
LEMMA ThrowEffect ==
    ASSUME act \in [Procs -> ActType], NEW p \in Procs, Throw(p)
    PROVE  /\ act' \in [Procs -> ActType] /\ Others(p)
           /\ act'[p].op = act[p].op /\ act'[p].todo = Caught(act[p].todo)
           /\ act'[p].perm = act[p].perm /\ act'[p].boost = act[p].boost /\ act'[p].sys = None
           /\ act'[p].reg = act[p].reg /\ act'[p].chg = act[p].chg /\ act'[p].base = act[p].base
<1> DEFINE a == [act[p] EXCEPT !.sys = None]
           todo == Caught(act[p].todo)
<1>0. act[p] \in ActType /\ act[p].todo \in Seq(Steps)
  BY DEF ActType
<1>1. a \in ActType /\ a.sys = None /\ a.op = act[p].op /\ a.perm = act[p].perm
      /\ a.boost = act[p].boost /\ a.reg = act[p].reg /\ a.chg = act[p].chg /\ a.base = act[p].base
  BY <1>0 DEF ActType
<1>2. todo \in Seq(Steps)
  BY <1>0, CaughtTyped
<1>3. act' = [act EXCEPT ![p] = [act[p] EXCEPT !.todo = todo, !.sys = None]]
  BY Zenon DEF Throw
<1> HIDE DEF todo
<1>4. [act[p] EXCEPT !.todo = todo, !.sys = None] = [a EXCEPT !.todo = todo]
  BY <1>0 DEF ActType
<1>5. act' = [act EXCEPT ![p] = [a EXCEPT !.todo = todo]]
  BY <1>3, <1>4
<1> HIDE DEF a
<1>6. Became(p, a, todo)
  BY <1>1, <1>2, <1>5, BecameTyped
<1> QED
  BY <1>1, <1>6 DEF Became, todo

(* A process may be idle. *)
LEMMA IdleTyped == Idle \in ActType /\ Idle.op = "idle" /\ Idle.todo = <<>> /\ Idle.chg = None /\ Idle.base = {}
<1>1. <<>> \in Seq(Steps)
  OBVIOUS
<1> QED
  BY <1>1 DEF Idle, ActType

(* A process that ends or crashes does nothing. *)
LEMMA IdleEffect ==
    ASSUME act \in [Procs -> ActType], NEW p \in Procs, act' = [act EXCEPT ![p] = Idle]
    PROVE  /\ act' \in [Procs -> ActType] /\ Others(p) /\ act'[p] = Idle
  BY IdleTyped DEF Others

-----------------------------------------------------------------------------
(* What has been read and chosen, along a program *)

(* The operations that change what the user asks for. *)
ChangeOps ==
    {"setPerm", "putBoost", "setBoost", "resetBoost", "editBoost", "editPerm", "updateField"}

(* Steps that an operation may take at all. *)
Fits(op, x) ==
    /\ x[1] \in {"open", "fill"} => <<x[2], x[3]>> \in Files
    /\ x[1] = "rename" => x[2] = "sys" /\ x[3] \in {"json", "bin"}
    /\ x[1] = "remove" => x[2] \in {"boost", "sys"} /\ x[3] = "bin"
    /\ x[1] = "allocate" => op = "request"
    /\ x[1] = "free" => op = "release"
    /\ x[1] = "change" => op \in ChangeOps
    /\ x[1] = "saved" => op \in ChangeOps \cup {"boot"}
    /\ x[1] = "tune" => op = "boot"
    /\ x[1] = "edit" => op = "editBoost"
    /\ x[1] = "editPerm" => op = "editPerm"

(* What must be known of the types of what a step uses. *)
TypeNeeds(op, x) ==
    CASE x[1] = "fill" -> IF x[2] = "boost" THEN {"boost"} ELSE IF x[2] = "perm" THEN {"perm"}
                          ELSE IF x[2] = "reg" THEN {"read"} ELSE {}
      [] x[1] = "change" ->
            {"chosen"} \cup (IF op \in PermOps THEN {"perm"}
                             ELSE IF op \in {"setBoost", "editBoost", "updateField"} THEN {"boost"}
                             ELSE {})
      [] x[1] \in {"tune", "fit", "edit"} -> {"boost"}
      [] x[1] = "editPerm" -> {"perm"}
      [] x[1] \in {"saved", "allocate", "free"} -> {"chosen"}
      [] x[1] \in {"regAdd", "regRemove", "regContext", "regPurge"} -> {"read"}
      [] OTHER -> {}

(* What is read by a step. *)
TypeGains(x) ==
    CASE x[1] = "loadPerm" -> {"perm"}
      [] x[1] = "loadBoost" -> {"boost"}
      [] x[1] = "loadReg" -> {"read"}
      [] OTHER -> {}

(* Steps that may end in an error. *)
Fails(x) == x[1] \in {"rename", "loadSys"} \/ (x[1] = "open" /\ x[2] = "sys")

(* Step x of op may follow l, and m may follow it. *)
TypeRule(op, l, x, m) ==
    /\ Fits(op, x)
    /\ TypeNeeds(op, x) \subseteq l.now
    /\ m.now \subseteq l.now \cup TypeGains(x)
    /\ Fails(x) => l.then \subseteq l.now \cap m.now
    /\ IF x[1] \in Catchers THEN l.now \subseteq l.then ELSE m.then = l.then

(* The rules of op. *)
TypeRules(op) == {t \in Label \X Steps \X Label : TypeRule(op, t[1], t[2], t[3])}

(* A label. *)
Knowing(N, T) == [now |-> N, then |-> T]

(* What N says of a is so. *)
KnowsTypes(a, N) ==
    /\ "perm" \in N => a.perm \in PermControl
    /\ "boost" \in N => a.boost \in BoosterControl
    /\ "read" \in N => a.reg \in SUBSET Pids
    /\ "chosen" \in N => a.chg \in Requests(a.op)

(* What is left of the program of p is a path, from what is known of p. *)
TypeWalk(p) ==
    IF act[p].op = "idle" THEN act[p].todo = <<>>
    ELSE \E l, e \in Label :
            /\ KnowsTypes(act[p], l.now) /\ e.now \subseteq e.then
            /\ Path(TypeRules(act[p].op), act[p].todo, l, e)

(* The inductive invariant: types, and a path for every process. *)
TypeInv == Types /\ \A p \in Procs : TypeWalk(p)

-----------------------------------------------------------------------------
(* Rules *)

(* The parts of a label. *)
LEMMA KnowingLabel ==
    \A N, T \in SUBSET Claims :
        Knowing(N, T) \in Label /\ Knowing(N, T).now = N /\ Knowing(N, T).then = T
  BY DEF Knowing, Label

(* The rules, spelled out. *)
LEMMA TypeRulesDef ==
    ASSUME NEW op, NEW l \in Label, NEW m \in Label, NEW x \in Steps
    PROVE  <<l, x, m>> \in TypeRules(op) <=> TypeRule(op, l, x, m)
<1> DEFINE t == <<l, x, m>>
<1>1. t \in Label \X Steps \X Label /\ t[1] = l /\ t[2] = x /\ t[3] = m
  OBVIOUS
<1>2. t \in TypeRules(op) <=> TypeRule(op, t[1], t[2], t[3])
  <2> HIDE DEF t
  <2> QED
    BY <1>1 DEF TypeRules
<1> QED
  BY <1>1, <1>2

(* The rules keep what is promised where errors are caught. *)
LEMMA TypeThrowing == ASSUME NEW op PROVE Throwing(TypeRules(op))
  BY TypeRulesDef DEF Throwing, TypeRule

(* A step that keeps what is known. *)
LEMMA TypeStays ==
    ASSUME NEW op, NEW N \in SUBSET Claims, NEW T \in SUBSET Claims, NEW x \in Steps,
           Fits(op, x), TypeNeeds(op, x) \subseteq N, x[1] \notin Catchers,
           Fails(x) => T \subseteq N
    PROVE  <<Knowing(N, T), x, Knowing(N, T)>> \in TypeRules(op)
<1>1. TypeRule(op, Knowing(N, T), x, Knowing(N, T))
  BY KnowingLabel DEF TypeRule
<1> QED
  BY <1>1, KnowingLabel, TypeRulesDef

(* A step that cannot fail, after which something else is known. *)
LEMMA TypeGain ==
    ASSUME NEW op, NEW N \in SUBSET Claims, NEW T \in SUBSET Claims, NEW x \in Steps,
           NEW M \in SUBSET Claims,
           Fits(op, x), TypeNeeds(op, x) \subseteq N, x[1] \notin Catchers, ~Fails(x),
           M \subseteq N \cup TypeGains(x)
    PROVE  <<Knowing(N, T), x, Knowing(M, T)>> \in TypeRules(op)
<1>1. TypeRule(op, Knowing(N, T), x, Knowing(M, T))
  BY KnowingLabel DEF TypeRule
<1> QED
  BY <1>1, KnowingLabel, TypeRulesDef

(* Where an error is caught, what was promised is known; a new promise is made. *)
LEMMA TypeCatch ==
    ASSUME NEW op, NEW N \in SUBSET Claims, NEW T \in SUBSET Claims, NEW V \in SUBSET Claims,
           N \subseteq T, NEW what \in Catchers
    PROVE  <<Knowing(N, T), Do(what), Knowing(N, V)>> \in TypeRules(op)
<1> DEFINE x == Do(what)
<1>0. x \in Steps /\ x[1] = what
  BY Zenon DEF Do, Steps, Catchers, Words, Places, Extensions
<1>1. Fits(op, x) /\ TypeNeeds(op, x) = {} /\ ~Fails(x)
  BY <1>0 DEF Fits, TypeNeeds, Fails, Catchers
<1> HIDE DEF x
<1>2. TypeRule(op, Knowing(N, T), x, Knowing(N, V))
  BY <1>0, <1>1, KnowingLabel DEF TypeRule
<1> QED
  BY <1>0, <1>2, KnowingLabel, TypeRulesDef DEF x

(* Steps that need nothing. *)
PlainSteps ==
    {"probe", "writable", "readonly", "lock", "unlock", "total", "forget", "orBlank",
     "syncIfZero", "calibrateIfZero", "loadPerm", "loadBoost", "loadReg"}

(* Such a call fits every operation. *)
LEMMA PlainFits ==
    ASSUME NEW op, NEW what \in PlainSteps \cup {"loadSys"}
    PROVE  Do(what) \in Steps /\ Do(what)[1] = what /\ Fits(op, Do(what))
           /\ TypeNeeds(op, Do(what)) = {} /\ what \notin Catchers
           /\ (Fails(Do(what)) => what = "loadSys")
<1> DEFINE x == Do(what)
<1>0. x \in Steps /\ x[1] = what
  BY Zenon DEF Do, Steps, PlainSteps, Words, Places, Extensions
<1>1. Fits(op, x) /\ TypeNeeds(op, x) = {} /\ what \notin Catchers /\ (Fails(x) => what = "loadSys")
  <2> HIDE DEF x
  <2> QED
    BY <1>0 DEF Fits, TypeNeeds, Fails, PlainSteps, Catchers
<1> QED
  BY <1>0, <1>1

(* Such a call keeps what is known, or part of it. *)
LEMMA TypePlain ==
    ASSUME NEW op, NEW N \in SUBSET Claims, NEW T \in SUBSET Claims, NEW what \in PlainSteps,
           NEW M \in SUBSET N
    PROVE  Do(what) \in Steps /\ <<Knowing(N, T), Do(what), Knowing(M, T)>> \in TypeRules(op)
<1>1. Do(what) \in Steps /\ Fits(op, Do(what)) /\ TypeNeeds(op, Do(what)) = {}
      /\ Do(what)[1] \notin Catchers /\ (Fails(Do(what)) => what = "loadSys")
  BY PlainFits
<1>2. ~Fails(Do(what))
  BY <1>1 DEF PlainSteps
<1> QED
  BY <1>1, <1>2, TypeGain

(* Loading the fingerprint keeps what is known. *)
LEMMA TypeLoadSys ==
    ASSUME NEW op, NEW N \in SUBSET Claims, NEW T \in SUBSET Claims, T \subseteq N
    PROVE  Do("loadSys") \in Steps /\ <<Knowing(N, T), Do("loadSys"), Knowing(N, T)>> \in TypeRules(op)
<1>1. Do("loadSys") \in Steps /\ Fits(op, Do("loadSys")) /\ TypeNeeds(op, Do("loadSys")) = {}
      /\ Do("loadSys")[1] \notin Catchers
  BY PlainFits
<1> QED
  BY <1>1, TypeStays

(* A load adds what it reads. *)
LEMMA TypeLoad ==
    ASSUME NEW op, NEW N \in SUBSET Claims, NEW T \in SUBSET Claims, NEW M \in SUBSET Claims,
           NEW what \in {"loadPerm", "loadBoost", "loadReg"},
           M \subseteq N \cup TypeGains(Do(what))
    PROVE  Do(what) \in Steps /\ <<Knowing(N, T), Do(what), Knowing(M, T)>> \in TypeRules(op)
<1>1. Do(what) \in Steps /\ Fits(op, Do(what)) /\ TypeNeeds(op, Do(what)) = {}
      /\ Do(what)[1] \notin Catchers /\ (Fails(Do(what)) => what = "loadSys")
  BY PlainFits DEF PlainSteps
<1>2. ~Fails(Do(what))
  BY <1>1
<1> QED
  BY <1>1, <1>2, TypeGain

(* What the loads read. *)
LEMMA LoadGains ==
    /\ TypeGains(Do("loadPerm")) = {"perm"} /\ TypeGains(Do("loadBoost")) = {"boost"}
    /\ TypeGains(Do("loadReg")) = {"read"}
  BY DEF TypeGains, Do

-----------------------------------------------------------------------------
(* Parts of programs *)

(* Opening and filling a file is a path. *)
LEMMA TypePut ==
    ASSUME NEW op, NEW N \in SUBSET Claims, NEW T \in SUBSET Claims, NEW s, NEW e,
           <<s, e>> \in Files, s = "boost" => "boost" \in N, s = "perm" => "perm" \in N,
           s = "reg" => "read" \in N, s = "sys" => T \subseteq N
    PROVE  Path(TypeRules(op), Put(s, e), Knowing(N, T), Knowing(N, T))
<1> DEFINE x == <<"open", s, e>>
           y == <<"fill", s, e>>
<1>0. s \in Places /\ e \in Extensions
  BY Zenon DEF Files, Settings, Places, Extensions
<1>1. x \in Steps /\ x[1] = "open" /\ x[2] = s /\ x[3] = e
  BY Zenon, <1>0 DEF Steps, Words
<1>2. y \in Steps /\ y[1] = "fill" /\ y[2] = s /\ y[3] = e
  BY Zenon, <1>0 DEF Steps, Words
<1>3. Put(s, e) = <<x, y>>
  BY DEF Put
<1> HIDE DEF x, y
<1>4. Fits(op, x) /\ TypeNeeds(op, x) = {} /\ x[1] \notin Catchers /\ (Fails(x) => s = "sys")
  BY <1>1 DEF Fits, TypeNeeds, Catchers, Fails
<1>5. Fits(op, y) /\ TypeNeeds(op, y) \subseteq N /\ y[1] \notin Catchers /\ ~Fails(y)
  BY <1>2 DEF Fits, TypeNeeds, Catchers, Fails
<1>6. <<Knowing(N, T), x, Knowing(N, T)>> \in TypeRules(op) /\ <<Knowing(N, T), y, Knowing(N, T)>> \in TypeRules(op)
  BY <1>1, <1>2, <1>4, <1>5, TypeStays
<1> QED
  BY <1>1, <1>2, <1>3, <1>6, KnowingLabel, PathTwo

(* Saving both files of a store is a path. *)
LEMMA TypeSavePlain ==
    ASSUME NEW op, NEW N \in SUBSET Claims, NEW T \in SUBSET Claims, NEW s \in {"boost", "perm", "sys"},
           s = "boost" => "boost" \in N, s = "perm" => "perm" \in N, s = "sys" => T \subseteq N
    PROVE  Path(TypeRules(op), SavePlain(s), Knowing(N, T), Knowing(N, T))
<1>1. <<s, "json">> \in Files /\ <<s, "bin">> \in Files
  BY DEF Files, Settings
<1>2. Path(TypeRules(op), Put(s, "json"), Knowing(N, T), Knowing(N, T))
      /\ Path(TypeRules(op), Put(s, "bin"), Knowing(N, T), Knowing(N, T))
  BY <1>1, TypePut
<1> QED
  BY <1>2, PathCat DEF SavePlain

(* Saving by temporary files is a path. *)
LEMMA TypeSaveAtomic ==
    ASSUME NEW op, NEW N \in SUBSET Claims, NEW T \in SUBSET Claims, T \subseteq N
    PROVE  Path(TypeRules(op), SaveAtomic("sys"), Knowing(N, T), Knowing(N, T))
<1> DEFINE x == <<"rename", "sys", "json">>
           y == <<"rename", "sys", "bin">>
           l == Knowing(N, T)
<1>1. <<"sys", "json.tmp">> \in Files /\ <<"sys", "bin.tmp">> \in Files
  BY DEF Files, Settings
<1>2. Path(TypeRules(op), Put("sys", "json.tmp"), l, l)
  BY <1>1, TypePut
<1>3. Path(TypeRules(op), Put("sys", "bin.tmp"), l, l)
  BY <1>1, TypePut
<1>4. x \in Steps /\ x[1] = "rename" /\ x[2] = "sys" /\ x[3] = "json"
  BY Zenon DEF Steps, Words, Places, Extensions
<1>5. y \in Steps /\ y[1] = "rename" /\ y[2] = "sys" /\ y[3] = "bin"
  BY Zenon DEF Steps, Words, Places, Extensions
<1>6. SaveAtomic("sys") = (Put("sys", "json.tmp") \o Put("sys", "bin.tmp")) \o <<x, y>>
  BY DEF SaveAtomic
<1> HIDE DEF x, y
<1>7. Fits(op, x) /\ TypeNeeds(op, x) = {} /\ x[1] \notin Catchers
  BY <1>4 DEF Fits, TypeNeeds, Catchers
<1>8. Fits(op, y) /\ TypeNeeds(op, y) = {} /\ y[1] \notin Catchers
  BY <1>5 DEF Fits, TypeNeeds, Catchers
<1>9. <<l, x, l>> \in TypeRules(op) /\ <<l, y, l>> \in TypeRules(op)
  BY <1>4, <1>5, <1>7, <1>8, TypeStays
<1>10. Path(TypeRules(op), <<x, y>>, l, l)
  BY <1>4, <1>5, <1>9, KnowingLabel, PathTwo
<1>11. Path(TypeRules(op), Put("sys", "json.tmp") \o Put("sys", "bin.tmp"), l, l)
  BY <1>2, <1>3, PathCat
<1> QED
  BY <1>6, <1>10, <1>11, PathCat

(* The recovery scan is a path. *)
LEMMA TypeAutoCalibrate ==
    ASSUME NEW op, NEW N \in SUBSET Claims, NEW T \in SUBSET Claims, T \subseteq N
    PROVE  Path(TypeRules(op), AutoCalibrate, Knowing(N, T), Knowing(N, T))
<1> DEFINE M == N \cup {"boost"}
           l == Knowing(N, T)
           m == Knowing(M, T)
           R == TypeRules(op)
<1>0. M \in SUBSET Claims /\ N \in SUBSET M /\ "boost" \in M
  BY DEF Claims, TypeClaims
<1>k. l \in Label /\ m \in Label
  BY <1>0, KnowingLabel
<1>1. Path(R, <<Do("probe")>>, l, l)
  BY <1>k, TypePlain, PathOne DEF PlainSteps
<1>2. Path(R, SaveAtomic("sys"), l, l)
  BY TypeSaveAtomic
<1>3. Path(R, <<Do("loadBoost")>>, l, m)
  BY <1>0, <1>k, TypeLoad, LoadGains, PathOne
<1>4. Path(R, SavePlain("boost"), m, m)
  BY <1>0, TypeSavePlain
<1>5. Path(R, <<Do("lock"), Do("total"), Do("unlock")>>, m, l)
  <2> DEFINE c == Do("lock")
             d == Do("total")
             u == Do("unlock")
  <2>1. c \in Steps /\ <<m, c, m>> \in R
    BY <1>0, TypePlain DEF PlainSteps
  <2>2. d \in Steps /\ <<m, d, m>> \in R
    BY <1>0, TypePlain DEF PlainSteps
  <2>3. u \in Steps /\ <<m, u, l>> \in R
    BY <1>0, TypePlain DEF PlainSteps
  <2>4. Path(R, <<c, d, u>>, m, l)
    <3> HIDE DEF c, d, u, R, l, m
    <3> QED
      BY <2>1, <2>2, <2>3, <1>k, PathThree
  <2> QED
    BY <2>4
<1>6. AutoCalibrate = (((<<Do("probe")>> \o SaveAtomic("sys")) \o <<Do("loadBoost")>>) \o SavePlain("boost"))
                        \o <<Do("lock"), Do("total"), Do("unlock")>>
  BY DEF AutoCalibrate
<1> HIDE DEF l, m, R
<1>7. Path(R, <<Do("probe")>> \o SaveAtomic("sys"), l, l)
  BY <1>1, <1>2, PathCat
<1>8. Path(R, (<<Do("probe")>> \o SaveAtomic("sys")) \o <<Do("loadBoost")>>, l, m)
  BY <1>3, <1>7, PathCat
<1>9. Path(R, ((<<Do("probe")>> \o SaveAtomic("sys")) \o <<Do("loadBoost")>>) \o SavePlain("boost"), l, m)
  BY <1>4, <1>8, PathCat
<1>10. Path(R, AutoCalibrate, l, l)
  BY <1>5, <1>6, <1>9, PathCat
<1> QED
  BY <1>10 DEF l, R

(* The recovery of the binary copy is a path. *)
LEMMA TypeHeal ==
    ASSUME NEW op, NEW N \in SUBSET Claims, NEW T \in SUBSET Claims, T \subseteq N
    PROVE  Path(TypeRules(op), Heal, Knowing(N, T), Knowing(N, T))
<1> DEFINE l == Knowing(N, T)
           x == <<"remove", "sys", "bin">>
           R == TypeRules(op)
<1>k. l \in Label
  BY KnowingLabel
<1>1. x \in Steps /\ x[1] = "remove" /\ x[2] = "sys" /\ x[3] = "bin"
  BY Zenon DEF Steps, Words, Places, Extensions
<1>2. Heal = <<x, Do("probe")>> \o SaveAtomic("sys")
  BY DEF Heal
<1> HIDE DEF x
<1>3. Fits(op, x) /\ TypeNeeds(op, x) = {} /\ x[1] \notin Catchers /\ ~Fails(x)
  BY <1>1 DEF Fits, TypeNeeds, Catchers, Fails
<1>4. <<l, x, l>> \in R
  BY <1>1, <1>3, TypeStays
<1>5. Path(R, <<x, Do("probe")>>, l, l)
  BY <1>k, <1>1, <1>4, TypePlain, PathTwo DEF PlainSteps
<1>6. Path(R, SaveAtomic("sys"), l, l)
  BY TypeSaveAtomic
<1> QED
  BY <1>2, <1>5, <1>6, PathCat

(* The start of the hardware orchestrator is a path. *)
LEMMA TypePersist ==
    ASSUME NEW op, NEW N \in SUBSET Claims, NEW T \in SUBSET Claims, T \subseteq N
    PROVE  Path(TypeRules(op), Persist, Knowing(N, T), Knowing(N, T))
<1> DEFINE l == Knowing(N, T)
           R == TypeRules(op)
<1>k. l \in Label
  BY KnowingLabel
<1>1. Path(R, <<Do("probe"), Do("writable")>>, l, l)
  BY <1>k, TypePlain, PathTwo DEF PlainSteps
<1>2. Path(R, SavePlain("sys"), l, l)
  BY TypeSavePlain
<1>3. Path(R, <<Do("readonly")>>, l, l)
  BY <1>k, TypePlain, PathOne DEF PlainSteps
<1>4. Persist = (<<Do("probe"), Do("writable")>> \o SavePlain("sys")) \o <<Do("readonly")>>
  BY DEF Persist
<1> HIDE DEF l, R
<1>5. Path(R, <<Do("probe"), Do("writable")>> \o SavePlain("sys"), l, l)
  BY <1>1, <1>2, PathCat
<1>6. Path(R, Persist, l, l)
  BY <1>3, <1>4, <1>5, PathCat
<1> QED
  BY <1>6 DEF l, R

(* The synchronisation of the total is a path. *)
LEMMA TypeSyncTotal ==
    ASSUME NEW op, NEW N \in SUBSET Claims, NEW V \in SUBSET Claims
    PROVE  Path(TypeRules(op), SyncTotal, Knowing(N, N), Knowing(N, V))
<1>k. Knowing(N, N) \in Label /\ Knowing(N, V) \in Label /\ Do("catch") \in Steps
  BY Zenon, KnowingLabel DEF Do, Steps, Words, Places, Extensions
<1>1. Do("loadSys") \in Steps /\ <<Knowing(N, N), Do("loadSys"), Knowing(N, N)>> \in TypeRules(op)
  BY TypeLoadSys
<1>2. <<Knowing(N, N), Do("catch"), Knowing(N, V)>> \in TypeRules(op)
  BY TypeCatch DEF Catchers
<1>3. Do("total") \in Steps /\ <<Knowing(N, V), Do("total"), Knowing(N, V)>> \in TypeRules(op)
  BY TypePlain DEF PlainSteps
<1> QED
  BY <1>k, <1>1, <1>2, <1>3, PathThree DEF SyncTotal

(* A negotiation of the context is a path. *)
LEMMA TypeNegotiate ==
    ASSUME NEW op, NEW N \in SUBSET Claims, "boost" \in N
    PROVE  Path(TypeRules(op), Negotiate, Knowing(N, N), Knowing(N, N))
<1> DEFINE l == Knowing(N, N)
           M == N \cup {"read"}
           m == Knowing(M, N)
           x == Do("fit")
           y == Do("regContext")
           R == TypeRules(op)
<1>0. M \in SUBSET Claims /\ N \in SUBSET M /\ "read" \in M
  BY DEF Claims, TypeClaims
<1>k. l \in Label /\ m \in Label
  BY <1>0, KnowingLabel
<1>1. Path(R, <<Do("lock")>>, l, l)
  BY <1>k, TypePlain, PathOne DEF PlainSteps
<1>2. Path(R, SyncTotal, l, l)
  BY TypeSyncTotal
<1>3. x \in Steps /\ x[1] = "fit" /\ y \in Steps /\ y[1] = "regContext"
  BY Zenon DEF Do, Steps, Words, Places, Extensions
<1>n. Negotiate = ((<<Do("lock")>> \o SyncTotal) \o <<Do("calibrateIfZero"), x>>) \o <<Do("loadReg"), y, Do("unlock")>>
  BY DEF Negotiate
<1> HIDE DEF x, y
<1>4. <<l, x, l>> \in R
  <2>1. Fits(op, x) /\ TypeNeeds(op, x) = {"boost"} /\ x[1] \notin Catchers /\ ~Fails(x)
    BY <1>3 DEF Fits, TypeNeeds, Catchers, Fails
  <2> QED
    BY <1>3, <2>1, TypeStays
<1>5. <<m, y, m>> \in R
  <2>1. Fits(op, y) /\ TypeNeeds(op, y) = {"read"} /\ y[1] \notin Catchers /\ ~Fails(y)
    BY <1>3 DEF Fits, TypeNeeds, Catchers, Fails
  <2> QED
    BY <1>0, <1>3, <2>1, TypeStays
<1>6. Path(R, <<Do("calibrateIfZero"), x>>, l, l)
  BY <1>k, <1>3, <1>4, TypePlain, PathTwo DEF PlainSteps
<1>7. Do("loadReg") \in Steps /\ <<l, Do("loadReg"), m>> \in R
  BY <1>0, TypeLoad, LoadGains
<1>8. Do("unlock") \in Steps /\ <<m, Do("unlock"), l>> \in R
  BY <1>0, TypePlain DEF PlainSteps
<1>9. Path(R, <<Do("loadReg"), y, Do("unlock")>>, l, l)
  BY <1>k, <1>3, <1>5, <1>7, <1>8, PathThree
<1> HIDE DEF l, R
<1>10. Path(R, <<Do("lock")>> \o SyncTotal, l, l)
  BY <1>1, <1>2, PathCat
<1>11. Path(R, (<<Do("lock")>> \o SyncTotal) \o <<Do("calibrateIfZero"), x>>, l, l)
  BY <1>6, <1>10, PathCat
<1>12. Path(R, Negotiate, l, l)
  BY <1>n, <1>9, <1>11, PathCat
<1> QED
  BY <1>12 DEF l, R

-----------------------------------------------------------------------------
(* Programs *)

(* Operations that are told what to change when they begin. *)
Told == {"setPerm", "putBoost", "setBoost", "resetBoost", "updateField", "request", "release"}

(* What is known where an operation begins. *)
Start(op) == IF op \in Told THEN {"chosen"} ELSE {}

(* A step that asks for something, and after which less is remembered. *)
LEMMA TypeAsks ==
    ASSUME NEW op, NEW N \in SUBSET Claims, NEW T \in SUBSET Claims, NEW M \in SUBSET N,
           NEW what \in {"change", "tune", "edit", "editPerm", "allocate", "free",
                         "regRemove", "regPurge", "saved", "regAdd"},
           Fits(op, Do(what)), TypeNeeds(op, Do(what)) \subseteq N
    PROVE  Do(what) \in Steps /\ <<Knowing(N, T), Do(what), Knowing(M, T)>> \in TypeRules(op)
<1>1. Do(what) \in Steps /\ Do(what)[1] \notin Catchers /\ ~Fails(Do(what))
  BY Zenon DEF Do, Steps, Words, Places, Extensions, Catchers, Fails
<1>2. M \subseteq N \cup TypeGains(Do(what)) /\ M \in SUBSET Claims
  OBVIOUS
<1> QED
  BY <1>1, <1>2, TypeGain

(* The boot is a path. *)
LEMMA TypeMainBoot ==
    \E l, e \in Label : l.now = {} /\ e.now \subseteq e.then /\ Path(TypeRules("boot"), MainBoot, l, e)
<1> DEFINE R == TypeRules("boot")
           B == {"boost"}
           l == Knowing({}, {})
           m == Knowing({}, B)
           n == Knowing(B, B)
<1>0. {} \in SUBSET Claims /\ B \in SUBSET Claims
  BY DEF Claims, TypeClaims
<1>k. l \in Label /\ m \in Label /\ n \in Label /\ Do("catch") \in Steps
  BY Zenon, <1>0, KnowingLabel DEF Do, Steps, Words, Places, Extensions
<1>1. Do("loadSys") \in Steps /\ <<l, Do("loadSys"), l>> \in R /\ <<n, Do("loadSys"), n>> \in R
  BY <1>0, TypeLoadSys
<1>2. <<l, Do("catch"), m>> \in R /\ <<n, Do("catch"), n>> \in R
  BY <1>0, TypeCatch DEF Catchers
<1>3. Do("loadBoost") \in Steps /\ <<m, Do("loadBoost"), n>> \in R
  BY <1>0, TypeLoad, LoadGains
<1>4. Fits("boot", Do("tune")) /\ TypeNeeds("boot", Do("tune")) = {"boost"}
  BY DEF Fits, TypeNeeds, Do
<1>5. Do("tune") \in Steps /\ <<n, Do("tune"), n>> \in R
  BY <1>0, <1>4, TypeAsks
<1>6. Path(R, <<Do("loadSys"), Do("catch")>>, l, m)
  BY <1>k, <1>1, <1>2, PathTwo
<1>7. Path(R, Ignite, m, n)
  BY <1>k, <1>1, <1>2, <1>3, <1>5, PathFour DEF Ignite
<1>8. Path(R, MainBoot, l, n)
  BY <1>6, <1>7, PathCat DEF MainBoot
<1> QED
  BY <1>0, <1>8, KnowingLabel

(* Load something, and change it. *)
LEMMA TypeLoadChange ==
    ASSUME NEW op \in {"setPerm", "setBoost", "updateField"}, NEW T \in SUBSET Claims,
           NEW what, what = IF op = "setPerm" THEN "loadPerm" ELSE "loadBoost",
           NEW M \in SUBSET Claims, M = {"chosen"}
    PROVE  Path(TypeRules(op), <<Do(what), Do("change")>>, Knowing(M, T), Knowing(M, T))
<1> DEFINE s == IF op = "setPerm" THEN "perm" ELSE "boost"
           N == {"chosen", s}
           R == TypeRules(op)
<1>0. N \in SUBSET Claims /\ M \in SUBSET N
  BY DEF Claims, TypeClaims
<1>k. Knowing(M, T) \in Label /\ Knowing(N, T) \in Label
  BY <1>0, KnowingLabel
<1>g. N \subseteq M \cup TypeGains(Do(what)) /\ what \in {"loadPerm", "loadBoost", "loadReg"}
  BY LoadGains
<1>1. Do(what) \in Steps /\ <<Knowing(M, T), Do(what), Knowing(N, T)>> \in R
  BY <1>0, <1>g, TypeLoad
<1>2. Fits(op, Do("change")) /\ TypeNeeds(op, Do("change")) \subseteq N
  BY DEF Fits, TypeNeeds, Do, PermOps, ChangeOps
<1>3. Do("change") \in Steps /\ <<Knowing(N, T), Do("change"), Knowing(M, T)>> \in R
  BY <1>0, <1>2, TypeAsks
<1> QED
  BY <1>k, <1>1, <1>3, PathTwo

(* The update of a field is a path. *)
LEMMA TypeUpdateField ==
    \E l \in Label : l.now = {"chosen"} /\ l.now \subseteq l.then /\ Path(TypeRules("updateField"), UpdateField, l, l)
<1> DEFINE R == TypeRules("updateField")
           C == {"chosen"}
           l == Knowing(C, C)
<1>0. C \in SUBSET Claims /\ <<"sys", "json">> \in Files
  BY DEF Claims, TypeClaims, Files, Settings
<1>1. Path(R, Persist, l, l)
  BY <1>0, TypePersist
<1>2. Path(R, <<Do("loadBoost"), Do("change")>>, l, l)
  BY <1>0, TypeLoadChange
<1>3. Path(R, Put("sys", "json"), l, l)
  BY <1>0, TypePut
<1>4. UpdateField = (Persist \o <<Do("loadBoost"), Do("change")>>) \o Put("sys", "json")
  BY DEF UpdateField
<1>k. l \in Label /\ l.now = C /\ l.then = C
  BY <1>0, KnowingLabel
<1> HIDE DEF l, R
<1>5. Path(R, Persist \o <<Do("loadBoost"), Do("change")>>, l, l)
  BY <1>1, <1>2, PathCat
<1>6. Path(R, UpdateField, l, l)
  BY <1>3, <1>4, <1>5, PathCat
<1> QED
  BY <1>6, <1>k DEF R

(* A copy that is changed again and again. *)
LEMMA TypeMenus ==
    /\ \A T \in SUBSET Claims : Path(TypeRules("editBoost"), BoosterMenu, Knowing({}, T), Knowing({}, T))
    /\ \A T \in SUBSET Claims : Path(TypeRules("editPerm"), PermissionMenu, Knowing({}, T), Knowing({}, T))
<1> DEFINE B == {"boost"}
           P == {"perm"}
<1>0. {} \in SUBSET Claims /\ B \in SUBSET Claims /\ P \in SUBSET Claims /\ {} \in SUBSET B /\ {} \in SUBSET P
  BY DEF Claims, TypeClaims
<1>1. ASSUME NEW T \in SUBSET Claims
      PROVE  Path(TypeRules("editBoost"), BoosterMenu, Knowing({}, T), Knowing({}, T))
  <2> DEFINE R == TypeRules("editBoost")
  <2>1. Do("loadBoost") \in Steps /\ <<Knowing({}, T), Do("loadBoost"), Knowing(B, T)>> \in R
    BY <1>0, TypeLoad, LoadGains
  <2>2. Fits("editBoost", Do("edit")) /\ TypeNeeds("editBoost", Do("edit")) = {"boost"}
    BY DEF Fits, TypeNeeds, Do
  <2>3. Do("edit") \in Steps /\ <<Knowing(B, T), Do("edit"), Knowing({}, T)>> \in R
    BY <1>0, <2>2, TypeAsks
  <2> QED
    BY <1>0, <2>1, <2>3, KnowingLabel, PathTwo DEF BoosterMenu
<1>2. ASSUME NEW T \in SUBSET Claims
      PROVE  Path(TypeRules("editPerm"), PermissionMenu, Knowing({}, T), Knowing({}, T))
  <2> DEFINE R == TypeRules("editPerm")
  <2>1. Do("loadPerm") \in Steps /\ <<Knowing({}, T), Do("loadPerm"), Knowing(P, T)>> \in R
    BY <1>0, TypeLoad, LoadGains
  <2>2. Fits("editPerm", Do("editPerm")) /\ TypeNeeds("editPerm", Do("editPerm")) = {"perm"}
    BY DEF Fits, TypeNeeds, Do
  <2>3. Do("editPerm") \in Steps /\ <<Knowing(P, T), Do("editPerm"), Knowing({}, T)>> \in R
    BY <1>0, <2>2, TypeAsks
  <2> QED
    BY <1>0, <2>1, <2>3, KnowingLabel, PathTwo DEF PermissionMenu
<1> QED
  BY <1>1, <1>2

(* Loading a model is a path. *)
LEMMA TypeDiscover ==
    \E l, e \in Label : l.now = {} /\ e.now \subseteq e.then /\ Path(TypeRules("discover"), Discover, l, e)
<1> DEFINE R == TypeRules("discover")
           B == {"boost"}
           l == Knowing({}, {})
           m == Knowing({}, B)
           n == Knowing(B, B)
<1>0. {} \in SUBSET Claims /\ B \in SUBSET Claims
  BY DEF Claims, TypeClaims
<1>k. l \in Label /\ m \in Label /\ n \in Label /\ Do("require") \in Steps
  BY Zenon, <1>0, KnowingLabel DEF Do, Steps, Words, Places, Extensions
<1>1. Do("loadBoost") \in Steps /\ <<l, Do("loadBoost"), l>> \in R /\ <<m, Do("loadBoost"), n>> \in R
  BY <1>0, TypeLoad, LoadGains
<1>2. Do("loadSys") \in Steps /\ <<l, Do("loadSys"), l>> \in R
  BY <1>0, TypeLoadSys
<1>3. <<l, Do("require"), m>> \in R
  BY <1>0, TypeCatch DEF Catchers
<1>4. Do("forget") \in Steps /\ <<m, Do("forget"), m>> \in R
  BY <1>0, TypePlain DEF PlainSteps
<1> DEFINE s == <<Do("loadBoost"), Do("loadSys"), Do("require"), Do("forget"), Do("loadBoost")>>
<1>5. Path(R, s, l, n)
  BY <1>k, <1>1, <1>2, <1>3, <1>4, PathFive
<1>6. Path(R, Negotiate, n, n)
  BY <1>0, TypeNegotiate
<1>7. Discover = s \o Negotiate
  BY DEF Discover
<1> HIDE DEF s
<1>8. Path(R, Discover, l, n)
  BY <1>5, <1>6, <1>7, PathCat
<1> QED
  BY <1>0, <1>8, KnowingLabel

(* Applying the booster is a path. *)
LEMMA TypeApply ==
    \E l, e \in Label : l.now = {} /\ e.now \subseteq e.then /\ Path(TypeRules("applyBooster"), ApplyBooster, l, e)
<1> DEFINE R == TypeRules("applyBooster")
           B == {"boost"}
           m == Knowing({}, B)
           n == Knowing(B, B)
<1>0. {} \in SUBSET Claims /\ B \in SUBSET Claims
  BY DEF Claims, TypeClaims
<1>k. m \in Label /\ n \in Label
  BY <1>0, KnowingLabel
<1>1. Do("loadBoost") \in Steps /\ <<m, Do("loadBoost"), n>> \in R
  BY <1>0, TypeLoad, LoadGains
<1>2. Path(R, <<Do("loadBoost")>>, m, n)
  BY <1>k, <1>1, PathOne
<1>3. Path(R, Negotiate, n, n)
  BY <1>0, TypeNegotiate
<1>4. Path(R, ApplyBooster, m, n)
  BY <1>2, <1>3, PathCat DEF ApplyBooster
<1> QED
  BY <1>0, <1>4, KnowingLabel

(* Requesting and releasing VRAM are paths. *)
LEMMA TypeArbiterOps ==
    /\ \E l \in Label : l.now = {"chosen"} /\ l.now \subseteq l.then /\ Path(TypeRules("request"), RequestVram, l, l)
    /\ \E l \in Label : l.now = {"chosen"} /\ l.now \subseteq l.then /\ Path(TypeRules("release"), ReleaseVram, l, l)
<1> DEFINE C == {"chosen"}
           D == {"chosen", "read"}
           l == Knowing(C, C)
           m == Knowing(D, C)
<1>0. C \in SUBSET Claims /\ D \in SUBSET Claims /\ C \in SUBSET C /\ C \in SUBSET D /\ D \in SUBSET D
  BY DEF Claims, TypeClaims
<1>k. l \in Label /\ l.now = C /\ l.then = C /\ m \in Label
  BY <1>0, KnowingLabel
<1>1. Path(TypeRules("request"), RequestVram, l, l)
  <2> DEFINE R == TypeRules("request")
  <2>1. Do("lock") \in Steps /\ <<l, Do("lock"), l>> \in R
    BY <1>0, TypePlain DEF PlainSteps
  <2>2. Do("syncIfZero") \in Steps /\ <<l, Do("syncIfZero"), l>> \in R
    BY <1>0, TypePlain DEF PlainSteps
  <2>3. Do("loadBoost") \in Steps /\ <<l, Do("loadBoost"), l>> \in R
    BY <1>0, TypePlain DEF PlainSteps
  <2>4. Do("unlock") \in Steps /\ <<l, Do("unlock"), l>> \in R
    BY <1>0, TypePlain DEF PlainSteps
  <2>5. Fits("request", Do("allocate")) /\ TypeNeeds("request", Do("allocate")) = {"chosen"}
    BY DEF Fits, TypeNeeds, Do
  <2>6. Do("allocate") \in Steps /\ <<l, Do("allocate"), l>> \in R
    BY <1>0, <2>5, TypeAsks
  <2> HIDE DEF l, R
  <2> QED
    BY <1>k, <2>1, <2>2, <2>3, <2>4, <2>6, PathFive DEF RequestVram, R
<1>2. Path(TypeRules("release"), ReleaseVram, l, l)
  <2> DEFINE R == TypeRules("release")
  <2>1. Do("lock") \in Steps /\ <<l, Do("lock"), l>> \in R
    BY <1>0, TypePlain DEF PlainSteps
  <2>2. Fits("release", Do("free")) /\ TypeNeeds("release", Do("free")) = {"chosen"}
    BY DEF Fits, TypeNeeds, Do
  <2>3. Do("free") \in Steps /\ <<l, Do("free"), l>> \in R
    BY <1>0, <2>2, TypeAsks
  <2>4. Do("loadReg") \in Steps /\ <<l, Do("loadReg"), m>> \in R
    BY <1>0, TypeLoad, LoadGains
  <2>5. Fits("release", Do("regRemove")) /\ TypeNeeds("release", Do("regRemove")) = {"read"}
    BY DEF Fits, TypeNeeds, Do
  <2>6. Do("regRemove") \in Steps /\ <<m, Do("regRemove"), m>> \in R
    BY <1>0, <2>5, TypeAsks
  <2>7. Do("unlock") \in Steps /\ <<m, Do("unlock"), l>> \in R
    BY <1>0, TypePlain DEF PlainSteps
  <2> HIDE DEF l, m, R
  <2> QED
    BY <1>k, <2>1, <2>3, <2>4, <2>6, <2>7, PathFive DEF ReleaseVram, R
<1> HIDE DEF l
<1> QED
  BY <1>k, <1>1, <1>2

(* The list of processes is a path. *)
LEMMA TypePs ==
    \E l, e \in Label : l.now = {} /\ e.now \subseteq e.then /\ Path(TypeRules("ps"), Ps, l, e)
<1> DEFINE R == TypeRules("ps")
           D == {"read"}
           l == Knowing({}, {})
           m == Knowing(D, {})
<1>0. {} \in SUBSET Claims /\ D \in SUBSET Claims /\ {} \in SUBSET D
  BY DEF Claims, TypeClaims
<1>k. l \in Label /\ m \in Label
  BY <1>0, KnowingLabel
<1>1. Do("loadReg") \in Steps /\ <<l, Do("loadReg"), m>> \in R
  BY <1>0, TypeLoad, LoadGains
<1>2. Fits("ps", Do("regPurge")) /\ TypeNeeds("ps", Do("regPurge")) = {"read"}
  BY DEF Fits, TypeNeeds, Do
<1>3. Do("regPurge") \in Steps /\ <<m, Do("regPurge"), l>> \in R
  BY <1>0, <1>2, TypeAsks
<1>4. Path(R, Ps, l, l)
  BY <1>k, <1>1, <1>3, PathTwo DEF Ps
<1> QED
  BY <1>0, <1>4, KnowingLabel

(* Storing and resetting the booster are paths. *)
LEMMA TypePutReset ==
    /\ \E l \in Label : l.now = {"chosen"} /\ l.now \subseteq l.then /\ Path(TypeRules("putBoost"), <<Do("change")>>, l, l)
    /\ \E l \in Label : l.now = {"chosen"} /\ l.now \subseteq l.then /\ Path(TypeRules("resetBoost"), ResetBooster, l, l)
<1> DEFINE C == {"chosen"}
           l == Knowing(C, C)
<1>0. C \in SUBSET Claims /\ C \in SUBSET C
  BY DEF Claims, TypeClaims
<1>k. l \in Label /\ l.now = C /\ l.then = C /\ Do("catch") \in Steps
  BY Zenon, <1>0, KnowingLabel DEF Do, Steps, Words, Places, Extensions
<1>1. /\ Fits("putBoost", Do("change")) /\ TypeNeeds("putBoost", Do("change")) = C
      /\ Fits("resetBoost", Do("change")) /\ TypeNeeds("resetBoost", Do("change")) = C
  BY DEF Fits, TypeNeeds, Do, PermOps, ChangeOps
<1>2. Do("change") \in Steps /\ <<l, Do("change"), l>> \in TypeRules("putBoost")
  BY <1>0, <1>1, TypeAsks
<1>3. <<l, Do("change"), l>> \in TypeRules("resetBoost")
  BY <1>0, <1>1, TypeAsks
<1>4. Do("loadSys") \in Steps /\ <<l, Do("loadSys"), l>> \in TypeRules("resetBoost")
  BY <1>0, TypeLoadSys
<1>5. <<l, Do("catch"), l>> \in TypeRules("resetBoost")
  BY <1>0, TypeCatch DEF Catchers
<1> HIDE DEF l
<1>6. Path(TypeRules("putBoost"), <<Do("change")>>, l, l)
  BY <1>k, <1>2, PathOne
<1>7. Path(TypeRules("resetBoost"), ResetBooster, l, l)
  BY <1>k, <1>2, <1>3, <1>4, <1>5, PathThree DEF ResetBooster
<1> QED
  BY <1>k, <1>6, <1>7

(* Every program is a path, from what is known where it begins. *)
LEMMA TypeProgram ==
    ASSUME NEW op \in Ops
    PROVE  \E l, e \in Label : l.now = Start(op) /\ e.now \subseteq e.then /\ Path(TypeRules(op), Program(op), l, e)
<1> DEFINE C == {"chosen"}
           z == Knowing({}, {})
           c == Knowing(C, C)
           Goal == \E l, e \in Label : l.now = Start(op) /\ e.now \subseteq e.then /\ Path(TypeRules(op), Program(op), l, e)
<1>0. {} \in SUBSET Claims /\ C \in SUBSET Claims
  BY DEF Claims, TypeClaims
<1>k. z \in Label /\ z.now = {} /\ z.then = {} /\ c \in Label /\ c.now = C /\ c.then = C
  BY <1>0, KnowingLabel
<1>1. CASE op = "boot"
  <2>1. Start(op) = {} /\ Program(op) = MainBoot
    BY <1>1 DEF Start, Told, Program
  <2> QED
    BY <1>1, <2>1, TypeMainBoot
<1>2. CASE op = "readPerm"
  <2>1. Start(op) = {} /\ Program(op) = <<Do("loadPerm")>>
    BY <1>2 DEF Start, Told, Program
  <2>2. Path(TypeRules(op), <<Do("loadPerm")>>, z, z)
    BY <1>0, <1>k, TypePlain, PathOne DEF PlainSteps
  <2> QED
    BY <1>k, <2>1, <2>2
<1>3. CASE op = "readBoost"
  <2>1. Start(op) = {} /\ Program(op) = <<Do("loadBoost")>>
    BY <1>3 DEF Start, Told, Program
  <2>2. Path(TypeRules(op), <<Do("loadBoost")>>, z, z)
    BY <1>0, <1>k, TypePlain, PathOne DEF PlainSteps
  <2> QED
    BY <1>k, <2>1, <2>2
<1>4. CASE op = "setPerm"
  <2>1. Start(op) = C /\ Program(op) = <<Do("loadPerm"), Do("change")>>
    BY <1>4 DEF Start, Told, Program, UpdatePermission
  <2>2. Path(TypeRules(op), <<Do("loadPerm"), Do("change")>>, c, c)
    BY <1>0, <1>4, TypeLoadChange
  <2> QED
    BY <1>k, <2>1, <2>2
<1>5. CASE op = "setBoost"
  <2>1. Start(op) = C /\ Program(op) = <<Do("loadBoost"), Do("change")>>
    BY <1>5 DEF Start, Told, Program, UpdateBooster, MenuPass
  <2>2. Path(TypeRules(op), <<Do("loadBoost"), Do("change")>>, c, c)
    BY <1>0, <1>5, TypeLoadChange
  <2> QED
    BY <1>k, <2>1, <2>2
<1>6. CASE op = "putBoost"
  <2>1. Start(op) = C /\ Program(op) = <<Do("change")>>
    BY <1>6 DEF Start, Told, Program
  <2> QED
    BY <1>6, <2>1, TypePutReset
<1>7. CASE op = "resetBoost"
  <2>1. Start(op) = C /\ Program(op) = ResetBooster
    BY <1>7 DEF Start, Told, Program
  <2> QED
    BY <1>7, <2>1, TypePutReset
<1>8. CASE op = "editBoost"
  <2>1. Start(op) = {} /\ Program(op) = BoosterMenu
    BY <1>8 DEF Start, Told, Program
  <2> QED
    BY <1>0, <1>8, <1>k, <2>1, TypeMenus
<1>9. CASE op = "editPerm"
  <2>1. Start(op) = {} /\ Program(op) = PermissionMenu
    BY <1>9 DEF Start, Told, Program
  <2> QED
    BY <1>0, <1>9, <1>k, <2>1, TypeMenus
<1>10. CASE op = "calibrate"
  <2>1. Start(op) = {} /\ Program(op) = AutoCalibrate
    BY <1>10 DEF Start, Told, Program
  <2>2. Path(TypeRules(op), AutoCalibrate, z, z)
    BY <1>0, TypeAutoCalibrate
  <2> QED
    BY <1>k, <2>1, <2>2
<1>11. CASE op = "updateField"
  <2>1. Start(op) = C /\ Program(op) = UpdateField
    BY <1>11 DEF Start, Told, Program
  <2> QED
    BY <1>11, <2>1, TypeUpdateField
<1>12. CASE op = "discover"
  <2>1. Start(op) = {} /\ Program(op) = Discover
    BY <1>12 DEF Start, Told, Program
  <2> QED
    BY <1>12, <2>1, TypeDiscover
<1>13. CASE op = "applyBooster"
  <2>1. Start(op) = {} /\ Program(op) = ApplyBooster
    BY <1>13 DEF Start, Told, Program
  <2> QED
    BY <1>13, <2>1, TypeApply
<1>14. CASE op = "request"
  <2>1. Start(op) = C /\ Program(op) = RequestVram
    BY <1>14 DEF Start, Told, Program
  <2> QED
    BY <1>14, <2>1, TypeArbiterOps
<1>15. CASE op = "release"
  <2>1. Start(op) = C /\ Program(op) = ReleaseVram
    BY <1>15 DEF Start, Told, Program
  <2> QED
    BY <1>15, <2>1, TypeArbiterOps
<1>16. CASE op = "ps"
  <2>1. Start(op) = {} /\ Program(op) = Ps
    BY <1>16 DEF Start, Told, Program
  <2> QED
    BY <1>16, <2>1, TypePs
<1> QED
  BY <1>1, <1>2, <1>3, <1>4, <1>5, <1>6, <1>7, <1>8, <1>9, <1>10, <1>11, <1>12, <1>13, <1>14,
     <1>15, <1>16, Zenon DEF Ops, PermOps

(* After a store is written less may be remembered. *)
LEMMA TypeSaveDrop ==
    ASSUME NEW op, NEW N \in SUBSET Claims, NEW T \in SUBSET Claims, NEW M \in SUBSET N,
           NEW s \in {"boost", "perm"}, s \in N
    PROVE  Path(TypeRules(op), SavePlain(s), Knowing(N, T), Knowing(M, T))
<1> DEFINE x == <<"open", s, "bin">>
           y == <<"fill", s, "bin">>
           l == Knowing(N, T)
           m == Knowing(M, T)
           R == TypeRules(op)
<1>k. l \in Label /\ m \in Label
  BY KnowingLabel
<1>0. <<s, "json">> \in Files /\ <<s, "bin">> \in Files /\ s \in Places
  BY Zenon DEF Files, Settings, Places
<1>1. Path(R, Put(s, "json"), l, l)
  BY <1>0, TypePut
<1>2. x \in Steps /\ x[1] = "open" /\ x[2] = s /\ x[3] = "bin"
  BY Zenon, <1>0 DEF Steps, Words, Extensions
<1>3. y \in Steps /\ y[1] = "fill" /\ y[2] = s /\ y[3] = "bin"
  BY Zenon, <1>0 DEF Steps, Words, Extensions
<1>4. SavePlain(s) = Put(s, "json") \o <<x, y>>
  BY DEF SavePlain, Put
<1> HIDE DEF x, y
<1>5. Fits(op, x) /\ TypeNeeds(op, x) = {} /\ x[1] \notin Catchers /\ ~Fails(x)
  BY <1>0, <1>2 DEF Fits, TypeNeeds, Catchers, Fails
<1>6. Fits(op, y) /\ TypeNeeds(op, y) \subseteq N /\ y[1] \notin Catchers /\ ~Fails(y)
  BY <1>0, <1>3 DEF Fits, TypeNeeds, Catchers, Fails
<1>7. <<l, x, l>> \in R
  BY <1>2, <1>5, TypeStays
<1>8. <<l, y, m>> \in R
  BY <1>3, <1>6, TypeGain
<1>9. Path(R, <<x, y>>, l, m)
  BY <1>k, <1>2, <1>3, <1>7, <1>8, PathTwo
<1> QED
  BY <1>1, <1>4, <1>9, PathCat

-----------------------------------------------------------------------------
(* A step, and what is left *)

(* p is before a step, with what is known before it, after it and at the end. *)
Goes(p, l, m, e) ==
    /\ l \in Label /\ m \in Label /\ e \in Label /\ e.now \subseteq e.then
    /\ KnowsTypes(act[p], l.now)
    /\ TypeRule(act[p].op, l, Head(act[p].todo), m)
    /\ Path(TypeRules(act[p].op), act[p].todo, l, e)
    /\ Path(TypeRules(act[p].op), Tail(act[p].todo), m, e)

(* A process that is not at its end is before a step. *)
LEMMA TypeHere ==
    ASSUME TypeInv, NEW p \in Procs, act[p].todo # <<>>
    PROVE  /\ act[p] \in ActType /\ act[p].todo \in Seq(Steps) /\ Head(act[p].todo) \in Steps
           /\ Tail(act[p].todo) \in Seq(Steps)
           /\ act[p].op \in Ops /\ act[p].op # "idle"
           /\ act[p].chg \in Requests(act[p].op) \cup {None} /\ act[p].base \in BaseType(act[p].op)
           /\ \E l, m, e \in Label : Goes(p, l, m, e)
<1>1. act[p] \in ActType /\ act[p].todo \in Seq(Steps)
      /\ act[p].chg \in Requests(act[p].op) \cup {None} /\ act[p].base \in BaseType(act[p].op)
  BY DEF TypeInv, Types, ActTypes, ActType
<1>2. act[p].op \in Ops /\ act[p].op # "idle"
  BY <1>1 DEF TypeInv, TypeWalk, ActType
<1>3. PICK l, e \in Label :
            /\ KnowsTypes(act[p], l.now) /\ e.now \subseteq e.then
            /\ Path(TypeRules(act[p].op), act[p].todo, l, e)
  BY <1>2 DEF TypeInv, TypeWalk
<1>4. Head(act[p].todo) \in Steps /\ Tail(act[p].todo) \in Seq(Steps)
  BY <1>3, PathHead
<1>5. PICK m \in Label : <<l, Head(act[p].todo), m>> \in TypeRules(act[p].op)
                         /\ Path(TypeRules(act[p].op), Tail(act[p].todo), m, e)
  BY <1>3, PathHead
<1>6. TypeRule(act[p].op, l, Head(act[p].todo), m)
  BY <1>4, <1>5, TypeRulesDef
<1>7. Goes(p, l, m, e)
  BY <1>3, <1>5, <1>6 DEF Goes
<1> QED
  BY <1>1, <1>2, <1>4, <1>7

(* Processes that did nothing are where they were. *)
LEMMA TypeOthers ==
    ASSUME TypeInv, NEW p \in Procs, Others(p), NEW q \in Procs, q # p
    PROVE  TypeWalk(q)'
  BY DEF TypeInv, TypeWalk, Others

(* p became a, which is on a path. *)
LEMMA TypeBecame ==
    ASSUME TypeInv, NEW p \in Procs, act[p].op # "idle",
           NEW a \in ActType, NEW todo, Became(p, a, todo),
           a.op = act[p].op,
           a.chg \in Requests(a.op) \cup {None}, a.base \in BaseType(a.op),
           NEW l \in Label, NEW e \in Label, e.now \subseteq e.then,
           KnowsTypes(a, l.now), Path(TypeRules(act[p].op), todo, l, e)
    PROVE  ActTypes' /\ \A q \in Procs : TypeWalk(q)'
<1>1. ActTypes'
  <2>1. ASSUME NEW q \in Procs
        PROVE  act'[q].chg \in Requests(act'[q].op) \cup {None} /\ act'[q].base \in BaseType(act'[q].op)
    <3>1. CASE q = p
      BY <3>1 DEF Became
    <3>2. CASE q # p
      BY <3>2 DEF Became, Others, TypeInv, Types, ActTypes
    <3> QED
      BY <3>1, <3>2
  <2> QED
    BY <2>1 DEF ActTypes, Became
<1>2. TypeWalk(p)'
  <2>1. KnowsTypes(act'[p], l.now)
    BY DEF KnowsTypes, Became
  <2>2. Path(TypeRules(act'[p].op), act'[p].todo, l, e) /\ act'[p].op # "idle"
    BY DEF Became
  <2> QED
    BY <2>1, <2>2 DEF TypeWalk
<1>3. \A q \in Procs : q # p => TypeWalk(q)'
  BY TypeOthers DEF Became
<1> QED
  BY <1>1, <1>2, <1>3

(* p has become a and does more before the rest. *)
LEMMA TypeContinue ==
    ASSUME TypeInv, NEW p \in Procs, act[p].todo # <<>>, act[p].op # "idle",
           NEW a \in ActType, a.todo = act[p].todo, a.op = act[p].op,
           a.chg \in Requests(a.op) \cup {None}, a.base \in BaseType(a.op),
           NEW more, Continue(p, a, more),
           NEW l \in Label, NEW m \in Label, NEW e \in Label, e.now \subseteq e.then,
           KnowsTypes(a, l.now),
           Path(TypeRules(act[p].op), more, l, m),
           Path(TypeRules(act[p].op), Tail(act[p].todo), m, e)
    PROVE  ActTypes' /\ \A q \in Procs : TypeWalk(q)'
<1>1. more \in Seq(Steps)
  BY DEF Path
<1>2. act \in [Procs -> ActType]
  BY DEF TypeInv, Types, ActTypes
<1>3. Became(p, a, more \o Tail(act[p].todo))
  BY <1>1, <1>2, ContinueEffect
<1>4. Path(TypeRules(act[p].op), more \o Tail(act[p].todo), l, e)
  BY PathCat
<1> QED
  BY <1>3, <1>4, TypeBecame

(* p has become a and goes on. *)
LEMMA TypeSkip ==
    ASSUME TypeInv, NEW p \in Procs, act[p].todo # <<>>, act[p].op # "idle",
           NEW a \in ActType, a.todo = act[p].todo, a.op = act[p].op,
           a.chg \in Requests(a.op) \cup {None}, a.base \in BaseType(a.op),
           Continue(p, a, <<>>),
           NEW l \in Label, NEW m \in Label, NEW e \in Label, Goes(p, l, m, e),
           KnowsTypes(a, m.now)
    PROVE  ActTypes' /\ \A q \in Procs : TypeWalk(q)'
<1>1. Path(TypeRules(act[p].op), <<>>, m, m)
  BY PathNil
<1> QED
  BY <1>1, TypeContinue DEF Goes

(* An error of p. *)
LEMMA TypeThrow ==
    ASSUME TypeInv, NEW p \in Procs, act[p].todo # <<>>, Throw(p), Fails(Head(act[p].todo))
    PROVE  ActTypes' /\ \A q \in Procs : TypeWalk(q)'
<1>1. act[p] \in ActType /\ act[p].op # "idle"
      /\ act[p].chg \in Requests(act[p].op) \cup {None} /\ act[p].base \in BaseType(act[p].op)
  BY TypeHere
<1>2. PICK l, m, e \in Label : Goes(p, l, m, e)
  BY TypeHere
<1>3. PICK k \in Label : k.now \subseteq l.then /\ Path(TypeRules(act[p].op), Caught(act[p].todo), k, e)
  BY <1>2, TypeThrowing, PathCut DEF Goes
<1>4. k.now \subseteq l.now
  BY <1>2, <1>3 DEF Goes, TypeRule
<1> DEFINE a == [act[p] EXCEPT !.sys = None]
<1>5. a \in ActType /\ a.op = act[p].op /\ a.perm = act[p].perm /\ a.boost = act[p].boost
      /\ a.reg = act[p].reg /\ a.chg = act[p].chg /\ a.base = act[p].base /\ a.sys = None
  BY <1>1 DEF ActType
<1> HIDE DEF a
<1>6. Became(p, a, Caught(act[p].todo))
  <2>1. act \in [Procs -> ActType]
    BY DEF TypeInv, Types, ActTypes
  <2> QED
    BY <1>5, <2>1, ThrowEffect DEF Became
<1>7. KnowsTypes(a, k.now)
  BY <1>2, <1>4, <1>5 DEF KnowsTypes, Goes
<1> QED
  BY <1>1, <1>2, <1>3, <1>5, <1>6, <1>7, TypeBecame DEF Goes

-----------------------------------------------------------------------------
(* Files *)

(* A step that changes nothing that the invariant speaks of keeps it. *)
LEMMA TypeSame ==
    ASSUME TypeInv, ActTypes', \A q \in Procs : TypeWalk(q)',
           UNCHANGED mem, UNCHANGED history, FileTypes',
           locked' \subseteq {<<"sys", "json">>, <<"sys", "bin">>}
    PROVE  TypeInv'
<1>1. UNCHANGED gen /\ UNCHANGED crashes /\ UNCHANGED ok /\ UNCHANGED mixed /\ UNCHANGED ops
  BY DEF history
<1> QED
  BY <1>1 DEF TypeInv, Types, OkTypes, CountTypes

(* A step that changes only what p read keeps the invariant. *)
LEMMA TypeGot ==
    ASSUME TypeInv, ActTypes', \A q \in Procs : TypeWalk(q)',
           UNCHANGED file, UNCHANGED locked, UNCHANGED mem, UNCHANGED history
    PROVE  TypeInv'
  BY TypeSame DEF TypeInv, Types, FileTypes

(* A file is written. *)
LEMMA FileWritten ==
    ASSUME FileTypes, NEW f \in Files, NEW c \in FileType(f[1]), file' = [file EXCEPT ![f] = c]
    PROVE  FileTypes'
<1>1. f[1] \in Stores
  BY DEF Files, Settings, Stores
<1>2. c \in UNION {FileType(s) : s \in Stores}
  BY <1>1
<1> QED
  BY <1>2 DEF FileTypes

(* Any file may be absent or torn. *)
LEMMA AbsentTyped == \A s : Absent \in FileType(s) /\ Torn \in FileType(s)
  BY DEF FileType

(* At a step, its name is known. *)
LEMMA AtHead ==
    ASSUME NEW p, NEW what, At(p, what)
    PROVE  act[p].todo # <<>> /\ Head(act[p].todo)[1] = what
  BY DEF At

(* Opening a file keeps the invariant. *)
LEMMA TypeOpen ==
    ASSUME TypeInv, NEW p \in Procs, Open(p) PROVE TypeInv'
<1> DEFINE x == Head(act[p].todo)
<1>1. act[p].todo # <<>> /\ x[1] = "open"
  BY AtHead DEF Open, Turn
<1>2. PICK l, m, e \in Label : Goes(p, l, m, e)
  BY <1>1, TypeHere
<1>3. /\ act[p] \in ActType /\ act[p].op # "idle" /\ x \in Steps
      /\ act[p].chg \in Requests(act[p].op) \cup {None} /\ act[p].base \in BaseType(act[p].op)
  BY <1>1, TypeHere
<1>4. Target(p) \in Files /\ Target(p) = <<x[2], x[3]>> /\ Target(p)[1] = x[2]
  BY <1>1, <1>2 DEF Goes, TypeRule, Fits, Target
<1>5. UNCHANGED locked /\ UNCHANGED mem /\ UNCHANGED history
  BY DEF Open
<1>6. locked' \subseteq {<<"sys", "json">>, <<"sys", "bin">>} /\ FileTypes
  BY <1>5 DEF TypeInv, Types
<1>7. CASE Target(p) \in locked
  <2>1. x[2] = "sys"
    BY <1>4, <1>5, <1>6, <1>7
  <2>2. Throw(p) /\ UNCHANGED file
    BY <1>7 DEF Open
  <2>3. Fails(x)
    BY <1>1, <2>1 DEF Fails
  <2>4. ActTypes' /\ \A q \in Procs : TypeWalk(q)'
    BY <1>1, <2>2, <2>3, TypeThrow
  <2> QED
    BY <2>2, <2>4, <1>5, TypeGot
<1>8. CASE Target(p) \notin locked
  <2>1. file' = [file EXCEPT ![Target(p)] = Torn] /\ Continue(p, act[p], <<>>)
    BY <1>8 DEF Open
  <2>2. FileTypes'
    BY <1>4, <1>6, <2>1, AbsentTyped, FileWritten
  <2>3. KnowsTypes(act[p], m.now)
    BY <1>1, <1>2 DEF Goes, TypeRule, TypeGains, KnowsTypes
  <2>4. ActTypes' /\ \A q \in Procs : TypeWalk(q)'
    BY <1>1, <1>2, <1>3, <2>1, <2>3, TypeSkip
  <2> QED
    BY <1>5, <1>6, <2>2, <2>4, TypeSame
<1> QED
  BY <1>7, <1>8

(* Filling a file keeps the invariant. *)
LEMMA TypeFill ==
    ASSUME TypeInv, NEW p \in Procs, Fill(p) PROVE TypeInv'
<1> DEFINE x == Head(act[p].todo)
           f == Target(p)
           new == act[p][f[1]]
<1>1. act[p].todo # <<>> /\ x[1] = "fill"
  BY AtHead DEF Fill, Turn
<1>2. PICK l, m, e \in Label : Goes(p, l, m, e)
  BY <1>1, TypeHere
<1>3. /\ act[p] \in ActType /\ act[p].op # "idle" /\ x \in Steps
      /\ act[p].chg \in Requests(act[p].op) \cup {None} /\ act[p].base \in BaseType(act[p].op)
  BY <1>1, TypeHere
<1>4. f \in Files /\ f = <<x[2], x[3]>> /\ f[1] = x[2]
  BY <1>1, <1>2 DEF Goes, TypeRule, Fits, Target
<1>5. UNCHANGED locked /\ UNCHANGED mem /\ UNCHANGED history /\ Continue(p, act[p], <<>>)
  BY DEF Fill
<1>6. locked' \subseteq {<<"sys", "json">>, <<"sys", "bin">>} /\ FileTypes
  BY <1>5 DEF TypeInv, Types
<1>n. new \in FileType(f[1])
  <2>1. CASE x[2] = "boost"
    <3>1. new = act[p].boost /\ act[p].boost \in BoosterControl
      BY <1>1, <1>2, <1>4, <2>1 DEF Goes, TypeRule, TypeNeeds, KnowsTypes
    <3> QED
      BY <1>4, <2>1, <3>1 DEF FileType
  <2>2. CASE x[2] = "perm"
    <3>1. new = act[p].perm /\ act[p].perm \in PermControl
      BY <1>1, <1>2, <1>4, <2>2 DEF Goes, TypeRule, TypeNeeds, KnowsTypes
    <3> QED
      BY <1>4, <2>2, <3>1 DEF FileType
  <2>3. CASE x[2] = "reg"
    <3>1. new = act[p].reg /\ act[p].reg \in SUBSET Pids
      BY <1>1, <1>2, <1>4, <2>3 DEF Goes, TypeRule, TypeNeeds, KnowsTypes
    <3> QED
      BY <1>4, <2>3, <3>1 DEF FileType
  <2>4. CASE x[2] = "sys"
    <3>1. new = act[p].sys /\ act[p].sys \in Silicon \cup {None}
      BY <1>3, <1>4, <2>4 DEF ActType
    <3> QED
      BY <1>4, <2>4, <3>1 DEF FileType
  <2> QED
    BY <1>4, <2>1, <2>2, <2>3, <2>4 DEF Files, Settings
<1>c. PICK c : file' = [file EXCEPT ![f] = c] /\ c \in {new, Absent, Torn}
  BY DEF Fill
<1>7. FileTypes'
  <2>1. c \in FileType(f[1])
    BY <1>n, <1>c, AbsentTyped
  <2> QED
    BY <1>4, <1>6, <1>c, <2>1, FileWritten
<1>8. KnowsTypes(act[p], m.now)
  BY <1>1, <1>2 DEF Goes, TypeRule, TypeGains, KnowsTypes
<1>9. ActTypes' /\ \A q \in Procs : TypeWalk(q)'
  BY <1>1, <1>2, <1>3, <1>5, <1>8, TypeSkip
<1> QED
  BY <1>5, <1>6, <1>7, <1>9, TypeSame

(* Removing a file keeps the invariant. *)
LEMMA TypeRemove ==
    ASSUME TypeInv, NEW p \in Procs, RemoveFile(p) PROVE TypeInv'
<1> DEFINE x == Head(act[p].todo)
<1>1. act[p].todo # <<>> /\ x[1] = "remove"
  BY AtHead DEF RemoveFile, Turn
<1>2. PICK l, m, e \in Label : Goes(p, l, m, e)
  BY <1>1, TypeHere
<1>3. /\ act[p] \in ActType /\ act[p].op # "idle"
      /\ act[p].chg \in Requests(act[p].op) \cup {None} /\ act[p].base \in BaseType(act[p].op)
  BY <1>1, TypeHere
<1>4. Target(p) \in Files
  BY <1>1, <1>2 DEF Goes, TypeRule, Fits, Target, Files, Settings
<1>5. UNCHANGED locked /\ UNCHANGED mem /\ UNCHANGED history /\ Continue(p, act[p], <<>>)
      /\ file' = [file EXCEPT ![Target(p)] = Absent]
  BY DEF RemoveFile
<1>6. locked' \subseteq {<<"sys", "json">>, <<"sys", "bin">>} /\ FileTypes
  BY <1>5 DEF TypeInv, Types
<1>7. FileTypes'
  BY <1>4, <1>5, <1>6, AbsentTyped, FileWritten
<1>8. KnowsTypes(act[p], m.now)
  BY <1>1, <1>2 DEF Goes, TypeRule, TypeGains, KnowsTypes
<1>9. ActTypes' /\ \A q \in Procs : TypeWalk(q)'
  BY <1>1, <1>2, <1>3, <1>5, <1>8, TypeSkip
<1> QED
  BY <1>5, <1>6, <1>7, <1>9, TypeSame

(* Locking and unlocking the files of the fingerprint keep the invariant. *)
LEMMA TypeSetFileLock ==
    ASSUME TypeInv, NEW p \in Procs, SetFileLock(p) PROVE TypeInv'
<1> DEFINE x == Head(act[p].todo)
<1>1. act[p].todo # <<>> /\ x[1] \in {"writable", "readonly"}
  BY AtHead DEF SetFileLock, Turn
<1>2. PICK l, m, e \in Label : Goes(p, l, m, e)
  BY <1>1, TypeHere
<1>3. /\ act[p] \in ActType /\ act[p].op # "idle"
      /\ act[p].chg \in Requests(act[p].op) \cup {None} /\ act[p].base \in BaseType(act[p].op)
  BY <1>1, TypeHere
<1>5. UNCHANGED file /\ UNCHANGED mem /\ UNCHANGED history /\ Continue(p, act[p], <<>>)
  BY DEF SetFileLock
<1>6. locked' \subseteq {<<"sys", "json">>, <<"sys", "bin">>} /\ FileTypes'
  BY <1>5 DEF TypeInv, Types, SetFileLock, FileTypes
<1>8. KnowsTypes(act[p], m.now)
  BY <1>1, <1>2 DEF Goes, TypeRule, TypeGains, KnowsTypes
<1>9. ActTypes' /\ \A q \in Procs : TypeWalk(q)'
  BY <1>1, <1>2, <1>3, <1>5, <1>8, TypeSkip
<1> QED
  BY <1>5, <1>6, <1>9, TypeSame

(* Who has the temporary file open goes on under the new name. *)
Follows(a, b, x, y) ==
    /\ b \in ActType /\ b.op = a.op /\ b.perm = a.perm /\ b.boost = a.boost /\ b.sys = a.sys
    /\ b.reg = a.reg /\ b.chg = a.chg /\ b.base = a.base
    /\ \/ b.todo = a.todo
       \/ a.todo # <<>> /\ Head(a.todo) = x /\ b.todo = [a.todo EXCEPT ![1] = y]

(* A process that writes under the new name is of the same type. *)
LEMMA FollowTyped ==
    ASSUME NEW a \in ActType, NEW x, NEW y \in Steps
    PROVE  Follows(a, IF a.todo # <<>> /\ Head(a.todo) = x THEN [a EXCEPT !.todo[1] = y] ELSE a, x, y)
<1>1. CASE a.todo # <<>> /\ Head(a.todo) = x
  <2> DEFINE s == [a.todo EXCEPT ![1] = y]
             b == [a EXCEPT !.todo = s]
  <2>1. a.todo \in Seq(Steps)
    BY DEF ActType
  <2>2. 1 \in 1..Len(a.todo)
    BY <1>1, <2>1, EmptySeq, LenProperties
  <2>3. s \in Seq(Steps)
    BY <2>1, <2>2, ExceptSeq
  <2>4. [a EXCEPT !.todo[1] = y] = b
    BY DEF ActType
  <2> HIDE DEF s
  <2>5. b \in ActType /\ b.op = a.op /\ b.perm = a.perm /\ b.boost = a.boost /\ b.sys = a.sys
        /\ b.reg = a.reg /\ b.chg = a.chg /\ b.base = a.base /\ b.todo = s
    BY <2>3 DEF ActType
  <2> HIDE DEF b
  <2> QED
    BY <1>1, <2>4, <2>5 DEF Follows, s
<1>2. CASE ~(a.todo # <<>> /\ Head(a.todo) = x)
  BY <1>2 DEF Follows
<1> QED
  BY <1>1, <1>2

(* What a rename that finds its file does. *)
LEMMA RenameEffect ==
    ASSUME act \in [Procs -> ActType], NEW p \in Procs, Rename(p), NEW ext \in {"json", "bin"},
           Target(p) = <<"sys", ext>>, act[p].todo # <<>>,
           file[<<"sys", IF ext = "json" THEN "json.tmp" ELSE "bin.tmp">>] # Absent
    PROVE  LET tmp == IF ext = "json" THEN "json.tmp" ELSE "bin.tmp" IN
           /\ act' \in [Procs -> ActType]
           /\ act'[p] = [act[p] EXCEPT !.todo = Tail(act[p].todo)]
           /\ \A q \in Procs : q # p => Follows(act[q], act'[q], <<"fill", "sys", tmp>>, <<"fill", "sys", ext>>)
           /\ file' = [file EXCEPT ![<<"sys", ext>>] = file[<<"sys", tmp>>], ![<<"sys", tmp>>] = Absent]
           /\ locked' = locked \ {<<"sys", ext>>}
<1> DEFINE tmp == IF ext = "json" THEN "json.tmp" ELSE "bin.tmp"
           f == <<"sys", ext>>
           x == <<"fill", "sys", tmp>>
           y == <<"fill", "sys", ext>>
           F(a) == IF a.todo # <<>> /\ Head(a.todo) = x THEN [a EXCEPT !.todo[1] = y] ELSE a
           a0 == [act[p] EXCEPT !.todo = Tail(act[p].todo)]
<1>1. Tmp(f) = <<"sys", tmp>> /\ f[1] = "sys" /\ f[2] = ext /\ Tmp(f)[2] = tmp
  BY DEF Tmp
<1>2. /\ file' = [file EXCEPT ![f] = file[Tmp(f)], ![Tmp(f)] = Absent]
      /\ locked' = locked \ {f}
      /\ act' = [q \in Procs |-> IF q = p THEN a0 ELSE F(act[q])]
  BY <1>1 DEF Rename
<1>3. a0 \in ActType
  <2>1. act[p] \in ActType /\ act[p].todo \in Seq(Steps)
    BY DEF ActType
  <2>2. Tail(act[p].todo) \in Seq(Steps)
    BY <2>1, HeadTailProperties
  <2> QED
    BY <2>1, <2>2 DEF ActType
<1>y. y \in Steps
  BY Zenon DEF Steps, Words, Places, Extensions
<1>4. \A q \in Procs : Follows(act[q], F(act[q]), x, y)
  BY <1>y, FollowTyped
<1>5. \A q \in Procs : F(act[q]) \in ActType
  BY <1>4 DEF Follows
<1> HIDE DEF F, a0, x, y
<1>6. act' \in [Procs -> ActType] /\ act'[p] = a0 /\ \A q \in Procs : q # p => act'[q] = F(act[q])
  BY <1>2, <1>3, <1>5
<1>7. \A q \in Procs : q # p => Follows(act[q], act'[q], x, y)
  BY <1>4, <1>6
<1> QED
  BY <1>1, <1>2, <1>6, <1>7 DEF a0, x, y

(* It has the same path before it. *)
LEMMA TypeFollow ==
    ASSUME TypeInv, NEW q \in Procs, act' \in [Procs -> ActType], NEW ext \in {"json", "bin"},
           NEW tmp \in {"json.tmp", "bin.tmp"},
           Follows(act[q], act'[q], <<"fill", "sys", tmp>>, <<"fill", "sys", ext>>)
    PROVE  TypeWalk(q)' /\ act'[q].chg = act[q].chg /\ act'[q].base = act[q].base /\ act'[q].op = act[q].op
<1> DEFINE a == act[q]
           x == <<"fill", "sys", tmp>>
           y == <<"fill", "sys", ext>>
<1>1. /\ act'[q].op = a.op /\ act'[q].perm = a.perm /\ act'[q].boost = a.boost
      /\ act'[q].reg = a.reg /\ act'[q].chg = a.chg /\ act'[q].base = a.base
  BY DEF Follows
<1>2. CASE act'[q].todo = a.todo
  BY <1>1, <1>2 DEF TypeInv, TypeWalk, KnowsTypes
<1>3. CASE a.todo # <<>> /\ Head(a.todo) = x /\ act'[q].todo = [a.todo EXCEPT ![1] = y]
  <2>1. act[q].op # "idle"
    BY <1>3, TypeHere
  <2>2. PICK l, m, e \in Label : Goes(q, l, m, e)
    BY <1>3, TypeHere
  <2>3. x \in Steps /\ y \in Steps /\ x[1] = "fill" /\ x[2] = "sys" /\ y[1] = "fill" /\ y[2] = "sys" /\ y[3] = ext
    BY Zenon DEF Steps, Words, Places, Extensions
  <2>4. <<"sys", ext>> \in Files
    BY DEF Files, Settings
  <2> HIDE DEF x, y
  <2>5. \A k \in Label : <<l, x, k>> \in TypeRules(a.op) => <<l, y, k>> \in TypeRules(a.op)
    <3> SUFFICES ASSUME NEW k \in Label, TypeRule(a.op, l, x, k) PROVE TypeRule(a.op, l, y, k)
      BY <2>3, TypeRulesDef
    <3> QED
      BY <2>3, <2>4 DEF TypeRule, Fits, TypeNeeds, TypeGains, Fails, Catchers
  <2>6. Path(TypeRules(a.op), a.todo, l, e)
    BY <2>2 DEF Goes
  <2>7. Path(TypeRules(a.op), [a.todo EXCEPT ![1] = y], l, e)
    BY <1>3, <2>3, <2>5, <2>6, PathHeadReplaced
  <2>8. KnowsTypes(act'[q], l.now)
    BY <1>1, <2>2 DEF Goes, KnowsTypes
  <2>9. e.now \subseteq e.then
    BY <2>2 DEF Goes
  <2>10. Path(TypeRules(act'[q].op), act'[q].todo, l, e) /\ act'[q].op # "idle"
    BY <1>1, <1>3, <2>1, <2>7
  <2>11. \E l1, e1 \in Label :
            /\ KnowsTypes(act'[q], l1.now) /\ e1.now \subseteq e1.then
            /\ Path(TypeRules(act'[q].op), act'[q].todo, l1, e1)
    BY <2>8, <2>9, <2>10
  <2> QED
    BY <1>1, <2>10, <2>11 DEF TypeWalk
<1> QED
  BY <1>1, <1>2, <1>3 DEF Follows, x, y

(* Renaming a file keeps the invariant. *)
LEMMA TypeRename ==
    ASSUME TypeInv, NEW p \in Procs, Rename(p) PROVE TypeInv'
<1> DEFINE x == Head(act[p].todo)
           ext == x[3]
           tmp == IF ext = "json" THEN "json.tmp" ELSE "bin.tmp"
<1>1. act[p].todo # <<>> /\ x[1] = "rename"
  BY AtHead DEF Rename, Turn
<1>2. PICK l, m, e \in Label : Goes(p, l, m, e)
  BY <1>1, TypeHere
<1>3. /\ act[p] \in ActType /\ act[p].op # "idle"
      /\ act[p].chg \in Requests(act[p].op) \cup {None} /\ act[p].base \in BaseType(act[p].op)
  BY <1>1, TypeHere
<1>4. x[2] = "sys" /\ ext \in {"json", "bin"} /\ Target(p) = <<"sys", ext>>
  BY <1>1, <1>2 DEF Goes, TypeRule, Fits, Target
<1>5. UNCHANGED mem /\ UNCHANGED history
  BY DEF Rename
<1>f. <<"sys", ext>> \in Files /\ <<"sys", tmp>> \in Files /\ FileTypes
  BY <1>4 DEF Files, Settings, TypeInv, Types
<1>t. Tmp(Target(p)) = <<"sys", tmp>>
  BY <1>4 DEF Tmp
<1>6. CASE file[<<"sys", tmp>>] = Absent
  <2>1. Throw(p) /\ UNCHANGED file /\ UNCHANGED locked
    BY <1>6, <1>t DEF Rename
  <2>2. Fails(x)
    BY <1>1 DEF Fails
  <2>3. ActTypes' /\ \A q \in Procs : TypeWalk(q)'
    BY <1>1, <2>1, <2>2, TypeThrow
  <2> QED
    BY <1>5, <2>1, <2>3, TypeGot
<1>7. CASE file[<<"sys", tmp>>] # Absent
  <2>0. act \in [Procs -> ActType]
    BY DEF TypeInv, Types, ActTypes
  <2> HIDE DEF tmp, ext
  <2>1. /\ act' \in [Procs -> ActType]
        /\ act'[p] = [act[p] EXCEPT !.todo = Tail(act[p].todo)]
        /\ \A q \in Procs : q # p => Follows(act[q], act'[q], <<"fill", "sys", tmp>>, <<"fill", "sys", ext>>)
        /\ file' = [file EXCEPT ![<<"sys", ext>>] = file[<<"sys", tmp>>], ![<<"sys", tmp>>] = Absent]
        /\ locked' = locked \ {<<"sys", ext>>}
    BY <1>1, <1>4, <1>7, <2>0, RenameEffect DEF tmp
  <2>2. \A q \in Procs : q # p => TypeWalk(q)' /\ act'[q].chg = act[q].chg
                                  /\ act'[q].base = act[q].base /\ act'[q].op = act[q].op
    BY <1>4, <2>1, TypeFollow DEF tmp
  <2>3. /\ act'[p].todo = Tail(act[p].todo) /\ act'[p].op = act[p].op /\ act'[p].perm = act[p].perm
        /\ act'[p].boost = act[p].boost /\ act'[p].reg = act[p].reg /\ act'[p].chg = act[p].chg
        /\ act'[p].base = act[p].base
    BY <1>3, <2>1 DEF ActType
  <2>4. TypeWalk(p)'
    <3>1. KnowsTypes(act'[p], m.now)
      BY <1>1, <1>2, <2>3 DEF Goes, TypeRule, TypeGains, KnowsTypes
    <3>2. Path(TypeRules(act'[p].op), act'[p].todo, m, e) /\ e.now \subseteq e.then /\ act'[p].op # "idle"
      BY <1>2, <1>3, <2>3 DEF Goes
    <3>3. \E l1, e1 \in Label :
            /\ KnowsTypes(act'[p], l1.now) /\ e1.now \subseteq e1.then
            /\ Path(TypeRules(act'[p].op), act'[p].todo, l1, e1)
      BY <3>1, <3>2
    <3> QED
      BY <3>2, <3>3 DEF TypeWalk
  <2>5. ActTypes'
    <3>1. \A q \in Procs : act'[q].chg = act[q].chg /\ act'[q].base = act[q].base /\ act'[q].op = act[q].op
      BY <2>2, <2>3
    <3> QED
      BY <2>1, <3>1 DEF ActTypes, TypeInv, Types
  <2>6. FileTypes'
    <3> DEFINE c == file[<<"sys", tmp>>]
               f1 == <<"sys", ext>>
               f2 == <<"sys", tmp>>
    <3>1. f1[1] = "sys" /\ f2[1] = "sys" /\ f1 \in Files /\ f2 \in Files
      BY <1>f DEF tmp
    <3>2. c \in FileType("sys") /\ Absent \in FileType("sys") /\ "sys" \in Stores
      BY <1>f, <3>1, AbsentTyped DEF FileTypes, Stores, tmp
    <3>3. file' = [file EXCEPT ![f1] = c, ![f2] = Absent]
      BY <2>1
    <3>4. c \in UNION {FileType(s) : s \in Stores} /\ Absent \in UNION {FileType(s) : s \in Stores}
      BY <3>2
    <3> HIDE DEF c, f1, f2
    <3> QED
      BY <1>f, <3>1, <3>2, <3>3, <3>4 DEF FileTypes
  <2>7. locked' \subseteq {<<"sys", "json">>, <<"sys", "bin">>}
    BY <2>1 DEF TypeInv, Types
  <2>8. \A q \in Procs : TypeWalk(q)'
    BY <2>2, <2>4
  <2> QED
    BY <1>5, <2>5, <2>6, <2>7, <2>8, TypeSame
<1> QED
  BY <1>6, <1>7

-----------------------------------------------------------------------------
(* Loads *)

(* The parts of a label are sets of claims. *)
LEMMA LabelParts ==
    ASSUME NEW l \in Label
    PROVE  l.now \in SUBSET Claims /\ l.then \in SUBSET Claims /\ Knowing(l.now, l.then) = l
  BY DEF Label, Knowing

(* Loading the permissions keeps the invariant. *)
LEMMA TypeLoadPerm ==
    ASSUME TypeInv, NEW p \in Procs, LoadPerm(p) PROVE TypeInv'
<1> DEFINE x == Head(act[p].todo)
           json == <<"perm", "json">>
           c == IF Whole(json) THEN file[json] ELSE PermDefault
           a == [act[p] EXCEPT !.perm = c]
           more == IF file[json] = Absent THEN SavePlain("perm") ELSE <<>>
           R == TypeRules(act[p].op)
<1>1. act[p].todo # <<>> /\ x[1] = "loadPerm"
  BY AtHead DEF LoadPerm, Turn
<1>2. PICK l, m, e \in Label : Goes(p, l, m, e)
  BY <1>1, TypeHere
<1>3. /\ act[p] \in ActType /\ act[p].op # "idle"
      /\ act[p].chg \in Requests(act[p].op) \cup {None} /\ act[p].base \in BaseType(act[p].op)
  BY <1>1, TypeHere
<1>4. Continue(p, a, more) /\ UNCHANGED file /\ UNCHANGED locked /\ UNCHANGED mem /\ UNCHANGED history
  BY DEF LoadPerm, Got
<1>c. c \in PermControl
  <2>1. json \in Files /\ json[1] = "perm"
    BY DEF Files, Settings
  <2>2. file[json] \in FileType("perm")
    BY <2>1 DEF TypeInv, Types, FileTypes
  <2> HIDE DEF json
  <2>3. Whole(json) => file[json] \in PermControl
    BY <2>2 DEF FileType, Whole
  <2> QED
    BY <2>3, DefaultsTyped
<1> HIDE DEF c
<1>5. /\ a \in ActType /\ a.perm = c /\ a.op = act[p].op /\ a.todo = act[p].todo /\ a.boost = act[p].boost
      /\ a.reg = act[p].reg /\ a.chg = act[p].chg /\ a.base = act[p].base
  BY <1>3, <1>c DEF ActType
<1> HIDE DEF a
<1> DEFINE N == m.now \cup {"perm"}
           k == IF more = <<>> THEN m ELSE Knowing(N, m.then)
<1>6. m \in Label /\ e \in Label /\ e.now \subseteq e.then /\ m.now \subseteq l.now \cup {"perm"}
      /\ Path(R, Tail(act[p].todo), m, e)
  BY <1>1, <1>2 DEF Goes, TypeRule, TypeGains
<1>7. N \in SUBSET Claims /\ m.then \in SUBSET Claims /\ m.now \in SUBSET N /\ Knowing(m.now, m.then) = m
      /\ "perm" \in N
  BY <1>6, LabelParts DEF Claims, TypeClaims
<1>8. Path(R, SavePlain("perm"), Knowing(N, m.then), m)
  BY <1>7, TypeSaveDrop
<1>9. Path(R, <<>>, m, m)
  BY <1>6, PathNil
<1>10. KnowsTypes(a, N) /\ KnowsTypes(a, m.now)
  BY <1>2, <1>c, <1>5, <1>6 DEF Goes, KnowsTypes
<1>11. k \in Label /\ KnowsTypes(a, k.now) /\ Path(R, more, k, m)
  <2>1. CASE more = <<>>
    BY <2>1, <1>6, <1>9, <1>10
  <2>2. CASE more # <<>>
    <3>1. more = SavePlain("perm")
      BY <2>2
    <3> QED
      BY <2>2, <3>1, <1>7, <1>8, <1>10, KnowingLabel
  <2> QED
    BY <2>1, <2>2
<1> HIDE DEF more, k
<1>12. ActTypes' /\ \A q \in Procs : TypeWalk(q)'
  BY <1>1, <1>3, <1>4, <1>5, <1>6, <1>11, TypeContinue
<1> QED
  BY <1>4, <1>12, TypeGot

(* What was loaded of the booster. *)
LEMMA TypeTake ==
    ASSUME TypeInv, NEW p \in Procs, At(p, "loadBoost"), NEW c \in BoosterControl,
           NEW more, more \in {<<>>, SavePlain("boost"), <<<<"remove", "boost", "bin">>>>},
           Got(p, [act[p] EXCEPT !.boost = c], more)
    PROVE  TypeInv'
<1> DEFINE x == Head(act[p].todo)
           a == [act[p] EXCEPT !.boost = c]
           R == TypeRules(act[p].op)
           r == <<"remove", "boost", "bin">>
<1>1. act[p].todo # <<>> /\ x[1] = "loadBoost"
  BY AtHead
<1>2. PICK l, m, e \in Label : Goes(p, l, m, e)
  BY <1>1, TypeHere
<1>3. /\ act[p] \in ActType /\ act[p].op # "idle"
      /\ act[p].chg \in Requests(act[p].op) \cup {None} /\ act[p].base \in BaseType(act[p].op)
  BY <1>1, TypeHere
<1>4. Continue(p, a, more) /\ UNCHANGED file /\ UNCHANGED locked /\ UNCHANGED mem /\ UNCHANGED history
  BY DEF Got
<1>5. /\ a \in ActType /\ a.boost = c /\ a.op = act[p].op /\ a.todo = act[p].todo /\ a.perm = act[p].perm
      /\ a.reg = act[p].reg /\ a.chg = act[p].chg /\ a.base = act[p].base
  BY <1>3 DEF ActType
<1> HIDE DEF a
<1> DEFINE N == m.now \cup {"boost"}
           k == IF more = SavePlain("boost") THEN Knowing(N, m.then) ELSE m
<1>6. m \in Label /\ e \in Label /\ e.now \subseteq e.then /\ m.now \subseteq l.now \cup {"boost"}
      /\ Path(R, Tail(act[p].todo), m, e)
  BY <1>1, <1>2 DEF Goes, TypeRule, TypeGains
<1>7. N \in SUBSET Claims /\ m.then \in SUBSET Claims /\ m.now \in SUBSET N /\ m.now \in SUBSET Claims
      /\ Knowing(m.now, m.then) = m /\ "boost" \in N
  BY <1>6, LabelParts DEF Claims, TypeClaims
<1>8. Path(R, SavePlain("boost"), Knowing(N, m.then), m)
  BY <1>7, TypeSaveDrop
<1>9. Path(R, <<>>, m, m)
  BY <1>6, PathNil
<1>r. Path(R, <<r>>, m, m)
  <2>1. r \in Steps /\ r[1] = "remove" /\ r[2] = "boost" /\ r[3] = "bin"
    BY Zenon DEF Steps, Words, Places, Extensions
  <2> HIDE DEF r
  <2>2. Fits(act[p].op, r) /\ TypeNeeds(act[p].op, r) = {} /\ r[1] \notin Catchers /\ ~Fails(r)
    BY <2>1 DEF Fits, TypeNeeds, Catchers, Fails
  <2>3. <<Knowing(m.now, m.then), r, Knowing(m.now, m.then)>> \in R
    BY <2>1, <2>2, <1>7, TypeStays
  <2> QED
    BY <2>1, <2>3, <1>6, <1>7, PathOne
<1>10. KnowsTypes(a, N) /\ KnowsTypes(a, m.now)
  BY <1>2, <1>5, <1>6 DEF Goes, KnowsTypes
<1>11. k \in Label /\ KnowsTypes(a, k.now) /\ Path(R, more, k, m)
  <2>1. CASE more = SavePlain("boost")
    BY <2>1, <1>7, <1>8, <1>10, KnowingLabel
  <2>2. CASE more # SavePlain("boost")
    BY <2>2, <1>6, <1>9, <1>r, <1>10
  <2> QED
    BY <2>1, <2>2
<1> HIDE DEF k
<1>12. ActTypes' /\ \A q \in Procs : TypeWalk(q)'
  BY <1>1, <1>3, <1>4, <1>5, <1>6, <1>11, TypeContinue
<1> QED
  BY <1>4, <1>12, TypeGot

(* Loading the booster keeps the invariant. *)
LEMMA TypeLoadBoost ==
    ASSUME TypeInv, NEW p \in Procs, LoadBoost(p) PROVE TypeInv'
<1> DEFINE json == <<"boost", "json">>
           bin == <<"boost", "bin">>
<1>1. At(p, "loadBoost")
  BY DEF LoadBoost, Turn
<1>2. Whole(json) => file[json] \in BoosterControl
  <2>1. json \in Files /\ json[1] = "boost"
    BY DEF Files, Settings
  <2>2. file[json] \in FileType("boost")
    BY <2>1 DEF TypeInv, Types, FileTypes
  <2> QED
    BY <2>2 DEF FileType, Whole
<1>3. CASE Whole(json)
  <2>1. Got(p, [act[p] EXCEPT !.boost = file[json]], SavePlain("boost"))
    BY <1>3 DEF LoadBoost
  <2> QED
    BY <1>1, <1>2, <1>3, <2>1, TypeTake
<1>4. CASE ~Whole(json)
  <2>1. Got(p, [act[p] EXCEPT !.boost = BoosterDefault],
            IF file[bin] = Absent THEN <<>> ELSE <<<<"remove", "boost", "bin">>>>)
    BY <1>4 DEF LoadBoost
  <2>2. BoosterDefault \in BoosterControl
    BY DefaultsTyped
  <2>3. CASE file[bin] = Absent
    BY <1>1, <2>1, <2>2, <2>3, TypeTake
  <2>4. CASE file[bin] # Absent
    BY <1>1, <2>1, <2>2, <2>4, TypeTake
  <2> QED
    BY <2>3, <2>4
<1> QED
  BY <1>3, <1>4

(* Sequences of a few elements. *)
LEMMA ShortSeqs ==
    ASSUME NEW x \in Steps, NEW y \in Steps
    PROVE  <<x>> \in Seq(Steps) /\ <<x>> # <<>> /\ <<x, y>> \in Seq(Steps) /\ <<x, y>> # <<>>
  OBVIOUS

(* One step, and nothing after it. *)
LEMMA OneStep ==
    ASSUME NEW x \in Steps
    PROVE  <<x>> \in Seq(Steps) /\ <<x>> # <<>> /\ Tail(<<x>>) = <<>>
<1> DEFINE s == <<x>>
<1>1. s \in Seq(Steps) /\ s # <<>> /\ Len(s) = 1
  OBVIOUS
<1> HIDE DEF s
<1>2. Tail(s) \in Seq(Steps) /\ Len(Tail(s)) = Len(s) - 1
  BY <1>1, HeadTailProperties
<1>3. Len(Tail(s)) = 0
  BY <1>1, <1>2
<1>4. Tail(s) = <<>>
  BY <1>2, <1>3, EmptySeq
<1> QED
  BY <1>1, <1>4 DEF s
(* A call is a step. *)
LEMMA DoStep == ASSUME NEW what \in Words PROVE Do(what) \in Steps
  BY Zenon DEF Do, Steps, Words, Places, Extensions

(* What loading the fingerprint comes to, and is done before the rest. *)
SysLoads ==
    {<<>>, Heal, Heal \o <<Do("catch"), Do("orBlank")>>, AutoCalibrate \o <<Do("loadSys")>>}

(* Loading the fingerprint: what was read, and what is inserted. *)
LEMMA LoadSysEffect ==
    ASSUME NEW p, LoadSys(p)
    PROVE  /\ At(p, "loadSys")
           /\ \E more \in SysLoads :
                \/ \E c \in Silicon : Got(p, [act[p] EXCEPT !.sys = c], more) /\ more = <<>>
                \/ Got(p, act[p], more) /\ more # <<>>
<1>0. At(p, "loadSys")
  BY DEF LoadSys, Turn
<1>s. "probed" \in Silicon /\ "blank" \in Silicon
  BY DEF Silicon
<1>m. <<>> \in SysLoads /\ Heal \in SysLoads /\ Heal \o <<Do("catch"), Do("orBlank")>> \in SysLoads
      /\ AutoCalibrate \o <<Do("loadSys")>> \in SysLoads
  BY Zenon DEF SysLoads
<1> DEFINE json == file[<<"sys", "json">>]
           bin == file[<<"sys", "bin">>]
<1>h. Heal \o <<Do("catch"), Do("orBlank")>> # <<>> /\ Heal # <<>> /\ AutoCalibrate \o <<Do("loadSys")>> # <<>>
      /\ Heal \o <<>> = Heal
  <2>1. Heal \in Seq(Steps) /\ AutoCalibrate \in Seq(Steps)
    <3>1. {} \in SUBSET Claims
      OBVIOUS
    <3>2. Path(TypeRules("boot"), Heal, Knowing({}, {}), Knowing({}, {}))
      BY <3>1, TypeHeal
    <3>3. Path(TypeRules("boot"), AutoCalibrate, Knowing({}, {}), Knowing({}, {}))
      BY <3>1, TypeAutoCalibrate
    <3> QED
      BY <3>2, <3>3 DEF Path
  <2> DEFINE u == <<Do("catch"), Do("orBlank")>>
             v == <<Do("loadSys")>>
             r == <<<<"remove", "sys", "bin">>, Do("probe")>>
  <2>3. u \in Seq(Steps) /\ u # <<>> /\ v \in Seq(Steps) /\ v # <<>>
    <3> DEFINE c == Do("catch")
               o == Do("orBlank")
               g == Do("loadSys")
    <3>1. c \in Steps /\ o \in Steps /\ g \in Steps
      BY Zenon, DoStep DEF Words
    <3> HIDE DEF c, o, g
    <3>2. <<c, o>> \in Seq(Steps) /\ <<c, o>> # <<>> /\ <<g>> \in Seq(Steps) /\ <<g>> # <<>>
      BY <3>1, ShortSeqs
    <3> QED
      BY <3>2 DEF c, o, g
  <2>4. r \in Seq(Steps) /\ r # <<>> /\ SaveAtomic("sys") \in Seq(Steps)
    <3> DEFINE a == <<"remove", "sys", "bin">>
               b == Do("probe")
    <3>a. a \in Steps /\ b \in Steps
      BY Zenon, DoStep DEF Steps, Words, Places, Extensions
    <3> HIDE DEF a, b
    <3>b. <<a, b>> \in Seq(Steps) /\ <<a, b>> # <<>>
      BY <3>a, ShortSeqs
    <3>1. r \in Seq(Steps) /\ r # <<>>
      BY <3>b DEF a, b, r
    <3>2. Path(TypeRules("boot"), SaveAtomic("sys"), Knowing({}, {}), Knowing({}, {}))
      BY TypeSaveAtomic
    <3> QED
      BY <3>1, <3>2 DEF Path
  <2>5. Heal = r \o SaveAtomic("sys")
    BY DEF Heal
  <2> HIDE DEF u, v, r
  <2>6. Heal # <<>>
    BY <2>4, <2>5, ConcatEqualIffEmpty
  <2>7. Heal \o u # <<>> /\ AutoCalibrate \o v # <<>> /\ Heal \o <<>> = Heal
    BY <2>1, <2>3, ConcatEqualIffEmpty, ConcatEmptySeq
  <2> QED
    BY <2>6, <2>7 DEF u, v
<1>b. ASSUME NEW more, FromBinary(p, more)
      PROVE  Got(p, [act[p] EXCEPT !.sys = "probed"], <<>>) \/ Got(p, act[p], Heal \o more)
  BY <1>b, Zenon DEF FromBinary
<1>1. \/ Got(p, [act[p] EXCEPT !.sys = "probed"], <<>>)
      \/ Got(p, [act[p] EXCEPT !.sys = "blank"], <<>>)
      \/ FromBinary(p, <<Do("catch"), Do("orBlank")>>)
      \/ Got(p, act[p], AutoCalibrate \o <<Do("loadSys")>>)
      \/ FromBinary(p, <<>>)
  <2>1. CASE json \notin {Absent, Torn}
    BY <2>1, Zenon DEF LoadSys
  <2>2. CASE json = Torn /\ bin = Absent
    BY <2>2, GovernorAssumption, Zenon DEF LoadSys
  <2>3. CASE json = Torn /\ bin # Absent
    BY <2>3, GovernorAssumption, Zenon DEF LoadSys
  <2>4. CASE json = Absent /\ bin = Absent
    BY <2>4, GovernorAssumption, Zenon DEF LoadSys
  <2>5. CASE json = Absent /\ bin # Absent
    BY <2>5, GovernorAssumption, Zenon DEF LoadSys
  <2> QED
    BY <2>1, <2>2, <2>3, <2>4, <2>5
<1>2. \/ Got(p, [act[p] EXCEPT !.sys = "probed"], <<>>)
      \/ Got(p, [act[p] EXCEPT !.sys = "blank"], <<>>)
      \/ Got(p, act[p], Heal \o <<Do("catch"), Do("orBlank")>>)
      \/ Got(p, act[p], AutoCalibrate \o <<Do("loadSys")>>)
      \/ Got(p, act[p], Heal)
  BY <1>1, <1>b, <1>h, Zenon
<1> QED
  BY <1>0, <1>2, <1>s, <1>m, <1>h, Zenon

(* Loading the fingerprint keeps the invariant. *)
LEMMA TypeLoadSysStep ==
    ASSUME TypeInv, NEW p \in Procs, LoadSys(p) PROVE TypeInv'
<1> DEFINE x == Head(act[p].todo)
           R == TypeRules(act[p].op)
<1>1. act[p].todo # <<>> /\ x[1] = "loadSys"
  BY AtHead, LoadSysEffect
<1>2. PICK l, m, e \in Label : Goes(p, l, m, e)
  BY <1>1, TypeHere
<1>3. /\ act[p] \in ActType /\ act[p].op # "idle"
      /\ act[p].chg \in Requests(act[p].op) \cup {None} /\ act[p].base \in BaseType(act[p].op)
  BY <1>1, TypeHere
<1>4. PICK more \in SysLoads :
        \/ \E c \in Silicon : Got(p, [act[p] EXCEPT !.sys = c], more) /\ more = <<>>
        \/ Got(p, act[p], more) /\ more # <<>>
  BY LoadSysEffect
<1>6. m \in Label /\ e \in Label /\ e.now \subseteq e.then /\ m.now \subseteq l.now /\ m.then \subseteq m.now
      /\ Path(R, Tail(act[p].todo), m, e)
  BY <1>1, <1>2 DEF Goes, TypeRule, TypeGains, Fails, Catchers
<1> DEFINE N == m.now
           T == m.then
<1>7. N \in SUBSET Claims /\ T \in SUBSET Claims /\ T \subseteq N /\ Knowing(N, T) = m
      /\ Knowing(N, N) \in Label /\ Knowing(N, N).now = N
  BY <1>6, LabelParts, KnowingLabel
<1>8. KnowsTypes(act[p], N)
  BY <1>2, <1>6 DEF Goes, KnowsTypes
<1>9. CASE \E c \in Silicon : Got(p, [act[p] EXCEPT !.sys = c], <<>>)
  <2>1. PICK c \in Silicon : Got(p, [act[p] EXCEPT !.sys = c], <<>>)
    BY <1>9
  <2> DEFINE a == [act[p] EXCEPT !.sys = c]
  <2>2. /\ a \in ActType /\ a.op = act[p].op /\ a.todo = act[p].todo /\ a.perm = act[p].perm
        /\ a.boost = act[p].boost /\ a.reg = act[p].reg /\ a.chg = act[p].chg /\ a.base = act[p].base
    BY <1>3 DEF ActType
  <2>3. Continue(p, a, <<>>) /\ UNCHANGED file /\ UNCHANGED locked /\ UNCHANGED mem /\ UNCHANGED history
    BY <2>1 DEF Got
  <2> HIDE DEF a
  <2>4. KnowsTypes(a, N)
    BY <1>8, <2>2 DEF KnowsTypes
  <2>5. ActTypes' /\ \A q \in Procs : TypeWalk(q)'
    BY <1>1, <1>2, <1>3, <2>2, <2>3, <2>4, TypeSkip
  <2> QED
    BY <2>3, <2>5, TypeGot
<1>10. CASE Got(p, act[p], more) /\ more # <<>>
  <2>1. Continue(p, act[p], more) /\ UNCHANGED file /\ UNCHANGED locked /\ UNCHANGED mem /\ UNCHANGED history
    BY <1>10 DEF Got
  <2>2. Path(R, Heal, m, m) /\ Path(R, AutoCalibrate, m, m)
    BY <1>7, TypeHeal, TypeAutoCalibrate
  <2>3. Path(R, Heal, Knowing(N, N), Knowing(N, N))
    BY <1>7, TypeHeal
  <2>4. Path(R, <<Do("loadSys")>>, m, m)
    BY <1>6, <1>7, TypeLoadSys, PathOne
  <2>5. Path(R, <<Do("catch"), Do("orBlank")>>, Knowing(N, N), m)
    <3>1. <<Knowing(N, N), Do("catch"), m>> \in R /\ Do("catch") \in Steps
      BY Zenon, <1>7, TypeCatch DEF Catchers, Do, Steps, Words, Places, Extensions
    <3>2. Do("orBlank") \in Steps /\ <<m, Do("orBlank"), m>> \in R
      BY <1>7, TypePlain DEF PlainSteps
    <3> QED
      BY <1>6, <1>7, <3>1, <3>2, PathTwo
  <2>6. Path(R, Heal \o <<Do("catch"), Do("orBlank")>>, Knowing(N, N), m)
    BY <2>3, <2>5, PathCat
  <2>7. Path(R, AutoCalibrate \o <<Do("loadSys")>>, m, m)
    BY <2>2, <2>4, PathCat
  <2>8. \E k \in Label : k.now = N /\ Path(R, more, k, m)
    BY <1>6, <1>7, <1>10, <2>2, <2>6, <2>7 DEF SysLoads
  <2>9. PICK k \in Label : k.now = N /\ Path(R, more, k, m)
    BY <2>8
  <2>10. KnowsTypes(act[p], k.now)
    BY <1>8, <2>9
  <2>11. ActTypes' /\ \A q \in Procs : TypeWalk(q)'
    BY <1>1, <1>3, <1>6, <2>1, <2>9, <2>10, TypeContinue
  <2> QED
    BY <2>1, <2>11, TypeGot
<1> QED
  BY <1>4, <1>9, <1>10

(* p has become a, by a step that asks for nothing more than it keeps. *)
LEMMA TypeGotOn ==
    ASSUME TypeInv, NEW p \in Procs, act[p].todo # <<>>, NEW a \in ActType,
           a.op = act[p].op, a.todo = act[p].todo, a.perm = act[p].perm, a.boost = act[p].boost,
           a.reg = act[p].reg, a.chg = act[p].chg, a.base = act[p].base,
           TypeGains(Head(act[p].todo)) = {}, Got(p, a, <<>>)
    PROVE  TypeInv'
<1>1. PICK l, m, e \in Label : Goes(p, l, m, e)
  BY TypeHere
<1>2. /\ act[p] \in ActType /\ act[p].op # "idle"
      /\ act[p].chg \in Requests(act[p].op) \cup {None} /\ act[p].base \in BaseType(act[p].op)
  BY TypeHere
<1>3. KnowsTypes(a, m.now)
  BY <1>1 DEF Goes, TypeRule, KnowsTypes
<1>4. Continue(p, a, <<>>) /\ UNCHANGED file /\ UNCHANGED locked /\ UNCHANGED mem /\ UNCHANGED history
  BY DEF Got
<1>5. ActTypes' /\ \A q \in Procs : TypeWalk(q)'
  BY <1>1, <1>2, <1>3, <1>4, TypeSkip
<1> QED
  BY <1>4, <1>5, TypeGot

(* Loading the registry keeps the invariant. *)
LEMMA TypeLoadRegistry ==
    ASSUME TypeInv, NEW p \in Procs, LoadRegistry(p) PROVE TypeInv'
<1> DEFINE f == <<"reg", "json">>
           c == IF Whole(f) THEN file[f] ELSE {}
           a == [act[p] EXCEPT !.reg = c]
<1>1. act[p].todo # <<>> /\ Head(act[p].todo)[1] = "loadReg"
  BY AtHead DEF LoadRegistry, Turn
<1>2. PICK l, m, e \in Label : Goes(p, l, m, e)
  BY <1>1, TypeHere
<1>3. /\ act[p] \in ActType /\ act[p].op # "idle"
      /\ act[p].chg \in Requests(act[p].op) \cup {None} /\ act[p].base \in BaseType(act[p].op)
  BY <1>1, TypeHere
<1>c. c \in SUBSET Pids
  <2>1. f \in Files /\ f[1] = "reg"
    BY DEF Files, Settings
  <2>2. file[f] \in FileType("reg")
    BY <2>1 DEF TypeInv, Types, FileTypes
  <2> HIDE DEF f
  <2>3. Whole(f) => file[f] \in SUBSET Pids
    BY <2>2 DEF FileType, Whole
  <2> QED
    BY <2>3
<1>4. Got(p, a, <<>>)
  BY DEF LoadRegistry
<1> HIDE DEF c
<1>5. /\ a \in ActType /\ a.reg = c /\ a.op = act[p].op /\ a.todo = act[p].todo /\ a.perm = act[p].perm
      /\ a.boost = act[p].boost /\ a.chg = act[p].chg /\ a.base = act[p].base
  BY <1>3, <1>c DEF ActType
<1> HIDE DEF a
<1>6. KnowsTypes(a, m.now)
  BY <1>1, <1>2, <1>5, <1>c DEF Goes, TypeRule, TypeGains, KnowsTypes
<1>7. Continue(p, a, <<>>) /\ UNCHANGED file /\ UNCHANGED locked /\ UNCHANGED mem /\ UNCHANGED history
  BY <1>4 DEF Got
<1>8. ActTypes' /\ \A q \in Procs : TypeWalk(q)'
  BY <1>1, <1>2, <1>3, <1>5, <1>6, <1>7, TypeSkip
<1> QED
  BY <1>7, <1>8, TypeGot

(* Probing the hardware and looking at an error keep the invariant. *)
LEMMA TypeProbe ==
    ASSUME TypeInv, NEW p \in Procs, Probe(p) PROVE TypeInv'
<1> DEFINE x == Head(act[p].todo)
<1>1. act[p].todo # <<>> /\ x[1] \in {"probe", "orBlank", "catch", "require"}
  BY Zenon DEF Probe, At
<1>2. PICK l, m, e \in Label : Goes(p, l, m, e)
  BY <1>1, TypeHere
<1>3. /\ act[p] \in ActType /\ act[p].op # "idle"
      /\ act[p].chg \in Requests(act[p].op) \cup {None} /\ act[p].base \in BaseType(act[p].op)
  BY <1>1, TypeHere
<1>g. TypeGains(x) = {}
  BY <1>1 DEF TypeGains
<1>4. CASE \E c \in Silicon \cup {None} : Got(p, [act[p] EXCEPT !.sys = c], <<>>)
  <2>1. PICK c \in Silicon \cup {None} : Got(p, [act[p] EXCEPT !.sys = c], <<>>)
    BY <1>4
  <2> DEFINE a == [act[p] EXCEPT !.sys = c]
  <2>2. /\ a \in ActType /\ a.op = act[p].op /\ a.todo = act[p].todo /\ a.perm = act[p].perm
        /\ a.boost = act[p].boost /\ a.reg = act[p].reg /\ a.chg = act[p].chg /\ a.base = act[p].base
    BY <1>3 DEF ActType
  <2> HIDE DEF a
  <2> QED
    BY <1>1, <1>g, <2>1, <2>2, TypeGotOn DEF a
<1>5. CASE Got(p, act[p], <<>>)
  BY <1>1, <1>3, <1>g, <1>5, TypeGotOn
<1>6. CASE Got(p, [act[p] EXCEPT !.todo = <<Do("")>>], <<>>)
  <2> DEFINE s == <<Do("")>>
             a == [act[p] EXCEPT !.todo = s]
  <2>2. s \in Seq(Steps) /\ s # <<>> /\ Tail(s) = <<>>
    <3> DEFINE c == Do("")
    <3>1. c \in Steps
      BY Zenon, DoStep DEF Words
    <3> HIDE DEF c
    <3>2. <<c>> \in Seq(Steps) /\ <<c>> # <<>> /\ Tail(<<c>>) = <<>>
      BY <3>1, OneStep
    <3> QED
      BY Zenon, <3>2 DEF c
  <2> HIDE DEF s
  <2>3. /\ a \in ActType /\ a.op = act[p].op /\ a.todo = s /\ a.perm = act[p].perm
        /\ a.boost = act[p].boost /\ a.reg = act[p].reg /\ a.chg = act[p].chg /\ a.base = act[p].base
    BY <1>3, <2>2 DEF ActType
  <2>4. Continue(p, a, <<>>) /\ UNCHANGED file /\ UNCHANGED locked /\ UNCHANGED mem /\ UNCHANGED history
    BY Zenon, <1>6 DEF Got, s
  <2> HIDE DEF a
  <2>5. act \in [Procs -> ActType]
    BY DEF TypeInv, Types, ActTypes
  <2>6. Became(p, a, <<>>)
    BY <2>2, <2>3, <2>4, <2>5, ContinueNil
  <2> DEFINE z == Knowing({}, {})
  <2>7. z \in Label /\ z.now = {} /\ z.then = {}
    <3>1. {} \in SUBSET Claims
      OBVIOUS
    <3> QED
      BY <3>1, KnowingLabel
  <2> HIDE DEF z
  <2>8. Path(TypeRules(act[p].op), <<>>, z, z) /\ KnowsTypes(a, z.now)
    BY <2>7, PathNil DEF KnowsTypes
  <2>9. ActTypes' /\ \A q \in Procs : TypeWalk(q)'
    BY <1>3, <2>3, <2>6, <2>7, <2>8, TypeBecame
  <2> QED
    BY <2>4, <2>9, TypeGot
<1>7. \/ \E c \in Silicon \cup {None} : Got(p, [act[p] EXCEPT !.sys = c], <<>>)
      \/ Got(p, act[p], <<>>)
      \/ Got(p, [act[p] EXCEPT !.todo = <<Do("")>>], <<>>)
  <2>1. CASE At(p, "probe") /\ Got(p, [act[p] EXCEPT !.sys = "probed"], <<>>)
    BY Zenon, <2>1 DEF Silicon
  <2>2. CASE At(p, "orBlank") /\ Got(p, [act[p] EXCEPT !.sys = IF @ = None THEN "blank" ELSE @], <<>>)
    <3> DEFINE c == IF act[p].sys = None THEN "blank" ELSE act[p].sys
    <3>1. c \in Silicon \cup {None}
      BY <1>3 DEF ActType, Silicon
    <3>2. Got(p, [act[p] EXCEPT !.sys = c], <<>>)
      BY <2>2
    <3> QED
      BY Zenon, <3>1, <3>2
  <2>3. CASE At(p, "catch") /\ Got(p, act[p], <<>>)
    BY Zenon, <2>3
  <2>4. CASE At(p, "require") /\ Got(p, IF act[p].sys = None THEN [act[p] EXCEPT !.todo = <<Do("")>>]
                 ELSE act[p], <<>>)
    BY Zenon, <2>4
  <2> QED
    BY Zenon, <2>1, <2>2, <2>3, <2>4 DEF Probe
<1> QED
  BY Zenon, <1>4, <1>5, <1>6, <1>7

-----------------------------------------------------------------------------
(* Changes *)

(* The store of the settings that an operation changes. *)
StoreOf(op) == IF op \in PermOps THEN "perm" ELSE "boost"

(* p takes a setting, new and of a choice, and writes it. *)
LEMMA TypeWrite ==
    ASSUME TypeInv, NEW p \in Procs, act[p].todo # <<>>,
           NEW l \in Label, NEW m \in Label, NEW e \in Label, Goes(p, l, m, e),
           m.now \subseteq l.now, act[p].op \in ChangeOps \cup {"boot"},
           NEW s, s = StoreOf(act[p].op),
           NEW new, IF s = "perm" THEN new \in PermControl ELSE new \in BoosterControl,
           NEW chg \in Requests(act[p].op),
           Continue(p, [act[p] EXCEPT ![s] = new, !.chg = chg, !.base = ok[s]],
                    SavePlain(s) \o <<Do("saved")>>)
    PROVE  ActTypes' /\ \A q \in Procs : TypeWalk(q)'
<1> DEFINE op == act[p].op
           a == [act[p] EXCEPT ![s] = new, !.chg = chg, !.base = ok[s]]
           R == TypeRules(op)
           N == m.now \cup {s, "chosen"}
           T == m.then
<1>1. act[p] \in ActType /\ op # "idle" /\ op \in Ops
  BY Zenon, TypeHere
<1>2. s \in {"boost", "perm"}
  BY Zenon DEF StoreOf
<1>3. ok[s] \in BaseType(op)
  <2>1. ok["boost"] \subseteq BoosterControl /\ ok["perm"] \subseteq PermControl
    BY Zenon DEF TypeInv, Types, OkTypes
  <2> QED
    BY Zenon, <2>1, <1>2 DEF StoreOf, BaseType
<1>c. chg \in {None} \cup UNION {Requests(o) : o \in Ops}
  BY Zenon, <1>1
<1>b. ok[s] \in SUBSET (BoosterControl \cup PermControl)
  BY Zenon, <1>3 DEF BaseType
<1>4. /\ a \in ActType /\ a.op = act[p].op /\ a.todo = act[p].todo /\ a.reg = act[p].reg
      /\ a.chg = chg /\ a.base = ok[s]
      /\ IF s = "perm" THEN a.perm = new /\ a.boost = act[p].boost
         ELSE a.boost = new /\ a.perm = act[p].perm
  <2> DEFINE b == ok[s]
  <2>b. b \in SUBSET (BoosterControl \cup PermControl)
    BY Zenon, <1>b
  <2>a. a = [act[p] EXCEPT ![s] = new, !.chg = chg, !.base = b]
    OBVIOUS
  <2> HIDE DEF b, a
  <2>1. CASE s = "perm"
    <3>1. a = [act[p] EXCEPT !.perm = new, !.chg = chg, !.base = b]
      BY Zenon, <2>a, <2>1
    <3>2. new \in PermControl
      BY Zenon, <2>1
    <3> QED
      BY Zenon, <1>1, <1>c, <2>1, <2>b, <3>1, <3>2 DEF ActType, b
  <2>2. CASE s = "boost"
    <3>1. a = [act[p] EXCEPT !.boost = new, !.chg = chg, !.base = b]
      BY Zenon, <2>a, <2>2
    <3>2. new \in BoosterControl
      BY Zenon, <2>2
    <3> QED
      BY Zenon, <1>1, <1>c, <2>2, <2>b, <3>1, <3>2 DEF ActType, b
  <2> QED
    BY Zenon, <1>2, <2>1, <2>2
<1>5. Continue(p, a, SavePlain(s) \o <<Do("saved")>>)
  OBVIOUS
<1> HIDE DEF a
<1>6. N \in SUBSET Claims /\ T \in SUBSET Claims /\ m.now \in SUBSET N /\ Knowing(m.now, T) = m
      /\ s \in N /\ "chosen" \in N
  BY Zenon, <1>2, LabelParts DEF Claims, TypeClaims
<1>7. KnowsTypes(a, N)
  <2>1. KnowsTypes(act[p], m.now)
    BY Zenon DEF Goes, KnowsTypes
  <2> QED
    BY Zenon, <2>1, <1>2, <1>4 DEF KnowsTypes
<1>8. Path(R, SavePlain(s), Knowing(N, T), Knowing(N, T))
  BY Zenon, <1>2, <1>6, TypeSavePlain
<1>9. Do("saved") \in Steps /\ <<Knowing(N, T), Do("saved"), m>> \in R
  <2>1. Fits(op, Do("saved")) /\ TypeNeeds(op, Do("saved")) = {"chosen"}
    BY Zenon DEF Fits, TypeNeeds, Do
  <2> QED
    BY Zenon, <1>6, <2>1, TypeAsks
<1>10. Knowing(N, T) \in Label /\ Knowing(N, T).now = N
  BY Zenon, <1>6, KnowingLabel
<1>11. Path(R, <<Do("saved")>>, Knowing(N, T), m)
  BY Zenon, <1>9, <1>10, PathOne
<1>12. Path(R, SavePlain(s) \o <<Do("saved")>>, Knowing(N, T), m)
  BY Zenon, <1>8, <1>11, PathCat
<1>13. a.chg \in Requests(a.op) \cup {None} /\ a.base \in BaseType(a.op)
  BY Zenon, <1>3, <1>4
<1>14. e.now \subseteq e.then /\ Path(R, Tail(act[p].todo), m, e)
  BY Zenon DEF Goes
<1> DEFINE k == Knowing(N, T)
           more == SavePlain(s) \o <<Do("saved")>>
<1>15. k \in Label /\ KnowsTypes(a, k.now) /\ Path(R, more, k, m) /\ Continue(p, a, more)
  BY Zenon, <1>5, <1>7, <1>10, <1>12
<1> HIDE DEF k, more, N, T
<1> QED
  BY Zenon, <1>1, <1>4, <1>13, <1>14, <1>15, TypeContinue

(* The values of a setting that changes. *)
LEMMA OkTyped ==
    ASSUME OkTypes, NEW s \in Settings, NEW S,
           IF s = "perm" THEN S \subseteq PermControl ELSE S \subseteq BoosterControl,
           ok' = [ok EXCEPT ![s] = S]
    PROVE  OkTypes'
  BY DEF OkTypes, Settings

(* The other variables keep their types. *)
LEMMA TypeKept ==
    ASSUME TypeInv, ActTypes', \A q \in Procs : TypeWalk(q)', OkTypes',
           UNCHANGED file, UNCHANGED locked, UNCHANGED mem, UNCHANGED gen, UNCHANGED crashes,
           UNCHANGED mixed, UNCHANGED ops
    PROVE  TypeInv'
  BY DEF TypeInv, Types, FileTypes, CountTypes

(* A change of a setting keeps the invariant. *)
LEMMA TypeChange ==
    ASSUME TypeInv, NEW p \in Procs, Change(p) PROVE TypeInv'
<1> DEFINE x == Head(act[p].todo)
           a == act[p]
           op == act[p].op
           tunes == At(p, "tune")
           chg == IF tunes THEN <<"boost", "tune", "">> ELSE a.chg
           s == chg[1]
           silicon == IF a.sys = None THEN "blank" ELSE a.sys
           new == IF tunes /\ a.sys = None THEN a.boost ELSE Changed(chg, a[s], silicon)
<1>1. act[p].todo # <<>> /\ x[1] \in {"change", "tune"} /\ (tunes <=> x[1] = "tune")
  BY Zenon DEF Change, At
<1>2. PICK l, m, e \in Label : Goes(p, l, m, e)
  BY <1>1, TypeHere
<1>3. a \in ActType /\ op # "idle" /\ op \in Ops
  BY <1>1, TypeHere
<1>4. /\ m.now \subseteq l.now /\ TypeNeeds(op, x) \subseteq l.now /\ Fits(op, x) /\ KnowsTypes(a, l.now)
  BY <1>1, <1>2 DEF Goes, TypeRule, TypeGains
<1>5. op \in ChangeOps \cup {"boot"} /\ (tunes => op = "boot") /\ op \notin {"request", "release"}
  BY <1>1, <1>4 DEF Fits, ChangeOps
<1>6. chg \in Requests(op)
  <2>1. CASE tunes
    BY Zenon, <2>1, <1>5 DEF Requests
  <2>2. CASE ~tunes
    <3>1. "chosen" \in l.now
      BY <1>1, <1>4, <2>2 DEF TypeNeeds
    <3> QED
      BY <2>2, <3>1, <1>4 DEF KnowsTypes
  <2> QED
    BY Zenon, <2>1, <2>2
<1>7. /\ op \in {"setBoost", "editBoost", "updateField", "boot"} => a.boost \in BoosterControl
      /\ op \in {"setPerm", "editPerm"} => a.perm \in PermControl
  <2>1. op \in {"setBoost", "editBoost", "updateField", "boot"} => "boost" \in l.now
    <3>1. op = "boot" => tunes
      BY <1>1, <1>4 DEF Fits, ChangeOps
    <3> QED
      BY <1>1, <1>4, <3>1 DEF TypeNeeds, PermOps
  <2>2. op \in {"setPerm", "editPerm"} => "perm" \in l.now
    <3>1. op \in {"setPerm", "editPerm"} => ~tunes
      BY <1>5
    <3> QED
      BY <1>1, <1>4, <3>1 DEF TypeNeeds, PermOps
  <2> QED
    BY <2>1, <2>2, <1>4 DEF KnowsTypes
<1>s. s = StoreOf(op)
  <2> HIDE DEF chg
  <2>1. ASSUME op \in PermOps PROVE chg[1] = "perm"
    <3>1. op \in {"setPerm", "editPerm"} /\ op \notin {"setBoost", "editBoost", "updateField", "boot"}
      BY <1>5, <2>1 DEF PermOps, ChangeOps
    <3> QED
      BY <2>1, <3>1, <1>3, <1>6, <1>7, ChangedTyped
  <2>2. ASSUME op \notin PermOps PROVE chg[1] = "boost"
    <3>1. op \notin {"setPerm", "editPerm"}
      BY <2>2 DEF PermOps
    <3> QED
      BY <2>2, <3>1, <1>3, <1>5, <1>6, <1>7, ChangedTyped
  <2> QED
    BY <2>1, <2>2 DEF StoreOf
<1>8. IF s = "perm" THEN new \in PermControl ELSE new \in BoosterControl
  <2> HIDE DEF chg, silicon
  <2>1. CASE tunes /\ a.sys = None
    <3>1. op = "boot" /\ s = "boost" /\ new = a.boost
      BY <2>1, <1>5, <1>s DEF StoreOf, PermOps
    <3> QED
      BY <3>1, <1>7
  <2>2. CASE ~(tunes /\ a.sys = None)
    <3>1. new = Changed(chg, a[s], silicon)
      BY <2>2
    <3>2. CASE op \in PermOps
      <4>1. s = "perm" /\ a[s] = a.perm
        BY <3>2, <1>s DEF StoreOf
      <4>2. op \notin {"setBoost", "editBoost", "updateField", "boot"}
        BY <3>2 DEF PermOps
      <4>3. Changed(chg, a.perm, silicon) \in PermControl
        BY <3>2, <4>2, <1>3, <1>6, <1>7, ChangedTyped
      <4> QED
        BY <3>1, <4>1, <4>3
    <3>3. CASE op \notin PermOps
      <4>1. s = "boost" /\ a[s] = a.boost
        BY <3>3, <1>s DEF StoreOf
      <4>2. op \notin {"setPerm", "editPerm"}
        BY <3>3 DEF PermOps
      <4>3. Changed(chg, a.boost, silicon) \in BoosterControl
        BY <3>3, <4>2, <1>3, <1>5, <1>6, <1>7, ChangedTyped
      <4> QED
        BY <3>1, <4>1, <4>3
    <3> QED
      BY <3>2, <3>3
  <2> QED
    BY <2>1, <2>2
<1>9. /\ Continue(p, [a EXCEPT ![s] = new, !.chg = chg, !.base = ok[s]], SavePlain(s) \o <<Do("saved")>>)
      /\ ok' = [ok EXCEPT ![s] = @ \cup Intended(chg, @)]
      /\ UNCHANGED file /\ UNCHANGED locked /\ UNCHANGED mem /\ UNCHANGED gen /\ UNCHANGED crashes
      /\ UNCHANGED mixed /\ UNCHANGED ops
  BY Zenon DEF Change
<1> HIDE DEF chg, new, tunes
<1>10. ActTypes' /\ \A q \in Procs : TypeWalk(q)'
  BY Zenon, <1>1, <1>2, <1>4, <1>5, <1>6, <1>s, <1>8, <1>9, TypeWrite
<1>11. OkTypes'
  <2>1. s \in Settings
    BY <1>s DEF StoreOf, Settings
  <2>2. OkTypes
    BY DEF TypeInv, Types
  <2> DEFINE S == ok[s] \cup Intended(chg, ok[s])
  <2>3. ok' = [ok EXCEPT ![s] = S]
    BY Zenon, <1>9
  <2>4. ok[s] \in BaseType(op)
    BY <1>s, <2>2 DEF OkTypes, StoreOf, BaseType
  <2>5. Intended(chg, ok[s]) \in BaseType(op)
    BY <2>4, <1>3, <1>5, <1>6, IntendedTyped
  <2>6. IF s = "perm" THEN S \subseteq PermControl ELSE S \subseteq BoosterControl
    BY <2>4, <2>5, <1>s DEF BaseType, StoreOf
  <2> HIDE DEF S
  <2> QED
    BY <2>1, <2>2, <2>3, <2>6, OkTyped
<1> QED
  BY Zenon, <1>9, <1>10, <1>11, TypeKept

(* The end of a save keeps the invariant. *)
LEMMA TypeSaved ==
    ASSUME TypeInv, NEW p \in Procs, Saved(p) PROVE TypeInv'
<1> DEFINE x == Head(act[p].todo)
           op == act[p].op
           chg == act[p].chg
           s == chg[1]
           a == [act[p] EXCEPT !.base = {}]
<1>1. act[p].todo # <<>> /\ x[1] = "saved"
  BY AtHead DEF Saved
<1>2. PICK l, m, e \in Label : Goes(p, l, m, e)
  BY <1>1, TypeHere
<1>3. act[p] \in ActType /\ op # "idle" /\ op \in Ops /\ act[p].base \in BaseType(op)
  BY <1>1, TypeHere
<1>4. m.now \subseteq l.now /\ op \in ChangeOps \cup {"boot"} /\ chg \in Requests(op)
  BY <1>1, <1>2 DEF Goes, TypeRule, TypeGains, TypeNeeds, Fits, KnowsTypes
<1>5. op \notin {"request", "release"}
  BY <1>4 DEF ChangeOps
<1>s. s = StoreOf(op)
  <2> HIDE DEF chg
  <2> PICK c \in PermControl : TRUE
    BY DefaultsTyped
  <2>0. \E b \in BoosterControl : TRUE
    BY DefaultsTyped
  <2>1. ASSUME op \in PermOps PROVE chg[1] = "perm"
    <3>1. op \notin {"setBoost", "editBoost", "updateField", "boot"}
      BY <2>1 DEF PermOps
    <3> QED
      BY <2>1, <3>1, <1>3, <1>4, ChangedTyped
  <2>2. ASSUME op \notin PermOps PROVE chg[1] = "boost"
    <3>1. op \notin {"setPerm", "editPerm"}
      BY <2>2 DEF PermOps
    <3> QED
      BY <2>0, <2>2, <3>1, <1>3, <1>4, <1>5, ChangedTyped
  <2> QED
    BY <2>1, <2>2 DEF StoreOf
<1>6. /\ ok' = [ok EXCEPT ![s] = Intended(chg, act[p].base)] /\ Continue(p, a, <<>>)
      /\ UNCHANGED file /\ UNCHANGED locked /\ UNCHANGED mem /\ UNCHANGED gen /\ UNCHANGED crashes
      /\ UNCHANGED mixed /\ UNCHANGED ops
  BY DEF Saved
<1>7. OkTypes'
  <2>1. s \in Settings
    BY <1>s DEF StoreOf, Settings
  <2>2. OkTypes
    BY DEF TypeInv, Types
  <2> DEFINE S == Intended(chg, act[p].base)
  <2>3. S \in BaseType(op)
    BY <1>3, <1>4, <1>5, IntendedTyped
  <2>4. IF s = "perm" THEN S \subseteq PermControl ELSE S \subseteq BoosterControl
    BY <2>3, <1>s DEF BaseType, StoreOf
  <2>5. ok' = [ok EXCEPT ![s] = S]
    BY <1>6
  <2> HIDE DEF S
  <2> QED
    BY <2>1, <2>2, <2>4, <2>5, OkTyped
<1>8. /\ a \in ActType /\ a.op = op /\ a.todo = act[p].todo /\ a.perm = act[p].perm
      /\ a.boost = act[p].boost /\ a.reg = act[p].reg /\ a.chg = chg /\ a.base = {}
  BY <1>3 DEF ActType
<1> HIDE DEF a
<1>9. KnowsTypes(a, m.now)
  BY <1>2, <1>4, <1>8 DEF Goes, KnowsTypes
<1>10. a.chg \in Requests(a.op) \cup {None} /\ a.base \in BaseType(a.op)
  BY <1>4, <1>8 DEF BaseType
<1>11. ActTypes' /\ \A q \in Procs : TypeWalk(q)'
  BY <1>1, <1>2, <1>3, <1>6, <1>8, <1>9, <1>10, TypeSkip
<1> QED
  BY <1>6, <1>7, <1>11, TypeKept

(* An operation is begun, or a change in a menu is. *)
LEMMA TypeCounted ==
    ASSUME TypeInv, ActTypes', \A q \in Procs : TypeWalk(q)', ops < MaxOps, ops' = ops + 1,
           mixed' \in [Stores -> BOOLEAN],
           UNCHANGED file, UNCHANGED locked, UNCHANGED mem, UNCHANGED gen, UNCHANGED crashes, UNCHANGED ok
    PROVE  TypeInv'
<1>1. ops' \in 0..MaxOps
  BY GovernorAssumption DEF TypeInv, Types, CountTypes
<1> QED
  BY <1>1 DEF TypeInv, Types, FileTypes, CountTypes, OkTypes

(* The menu of the booster keeps the invariant. *)
LEMMA TypeEdit ==
    ASSUME TypeInv, NEW p \in Procs, Edit(p) PROVE TypeInv'
<1> DEFINE x == Head(act[p].todo)
           op == act[p].op
           todo == act[p].todo
           R == TypeRules(op)
<1>1. todo # <<>> /\ x[1] = "edit"
  BY AtHead DEF Edit, Turn
<1>2. PICK l, m, e \in Label : Goes(p, l, m, e)
  BY <1>1, TypeHere
<1>3. act[p] \in ActType /\ op # "idle" /\ op \in Ops /\ act[p].base \in BaseType(op)
  BY <1>1, TypeHere
<1>4. /\ TypeGains(x) = {} /\ op = "editBoost" /\ "boost" \in l.now /\ l \in Label
      /\ KnowsTypes(act[p], l.now) /\ Path(R, todo, l, e) /\ e.now \subseteq e.then
  BY <1>1, <1>2 DEF Goes, TypeRule, TypeGains, TypeNeeds, Fits
<1>5. CASE Got(p, act[p], <<>>)
  BY <1>1, <1>3, <1>4, <1>5, TypeGotOn
<1>6. ASSUME NEW chg \in Changes, ops < MaxOps, chg[1] = "boost", ops' = ops + 1,
             act' = [act EXCEPT ![p].chg = chg, ![p].todo = <<Do("change")>> \o @],
             UNCHANGED <<file, locked, mem, gen, crashes, ok, mixed>>
      PROVE  TypeInv'
  <2> DEFINE more == <<Do("change")>> \o todo
             a == [act[p] EXCEPT !.chg = chg]
             N == l.now \cup {"chosen"}
             T == l.then
  <2>1. N \in SUBSET Claims /\ T \in SUBSET Claims /\ Knowing(l.now, T) = l /\ l.now \in SUBSET N
        /\ {"boost", "chosen"} \subseteq N
    BY <1>4, LabelParts DEF Claims, TypeClaims
  <2>2. Fits(op, Do("change")) /\ TypeNeeds(op, Do("change")) \subseteq N
    BY <1>4, <2>1 DEF Fits, TypeNeeds, Do, ChangeOps, PermOps
  <2>3. Do("change") \in Steps /\ <<Knowing(N, T), Do("change"), l>> \in R
    BY <2>1, <2>2, TypeAsks
  <2>4. Knowing(N, T) \in Label /\ Knowing(N, T).now = N
    BY <2>1, KnowingLabel
  <2>5. Path(R, <<Do("change")>>, Knowing(N, T), l)
    BY <1>4, <2>3, <2>4, PathOne
  <2>6. Path(R, more, Knowing(N, T), e)
    BY <1>4, <2>5, PathCat
  <2>7. more \in Seq(Steps)
    BY <2>6 DEF Path
  <2>c. chg \in Requests(op)
    BY <1>4, <1>6 DEF Requests
  <2>8. /\ a \in ActType /\ a.op = op /\ a.perm = act[p].perm
        /\ a.boost = act[p].boost /\ a.reg = act[p].reg /\ a.chg = chg /\ a.base = act[p].base
    BY <1>3, <2>c DEF ActType
  <2>9. act \in [Procs -> ActType]
    BY DEF TypeInv, Types, ActTypes
  <2>10. act' = [act EXCEPT ![p] = [a EXCEPT !.todo = more]]
    BY <1>3, <1>6, <2>9 DEF ActType
  <2> HIDE DEF a, more
  <2>11. Became(p, a, more)
    BY <2>7, <2>8, <2>9, <2>10, BecameTyped
  <2>12. KnowsTypes(a, N)
    BY <1>4, <2>8, <2>c DEF KnowsTypes
  <2> DEFINE k == Knowing(N, T)
  <2>13. k \in Label /\ KnowsTypes(a, k.now) /\ Path(R, more, k, e)
    BY <2>4, <2>6, <2>12
  <2> HIDE DEF k
  <2>14. a.chg \in Requests(a.op) \cup {None} /\ a.base \in BaseType(a.op)
    BY <1>3, <2>8, <2>c
  <2>15. ActTypes' /\ \A q \in Procs : TypeWalk(q)'
    BY <1>3, <1>4, <2>8, <2>11, <2>13, <2>14, TypeBecame
  <2>16. mixed' \in [Stores -> BOOLEAN]
    BY <1>6 DEF TypeInv, Types
  <2> QED
    BY <1>6, <2>15, <2>16, TypeCounted
<1> QED
  BY <1>5, <1>6 DEF Edit

(* The menu of permissions begins again after a choice. *)
LEMMA TypeMenuAgain ==
    ASSUME NEW more \in {UpdatePermission \o <<Do("loadPerm")>>, <<Do("change")>>}
    PROVE  LET C == {"chosen", "perm"} IN
           /\ C \in SUBSET Claims
           /\ Path(TypeRules("editPerm"), more \o PermissionMenu, Knowing(C, {}), Knowing({}, {}))
<1> DEFINE C == {"chosen", "perm"}
           R == TypeRules("editPerm")
           l == Knowing(C, {})
           z == Knowing({}, {})
<1>0. C \in SUBSET Claims /\ {} \in SUBSET Claims /\ {} \in SUBSET C /\ C \in SUBSET C
  BY DEF Claims, TypeClaims
<1>k. l \in Label /\ z \in Label
  BY <1>0, KnowingLabel
<1>1. Fits("editPerm", Do("change")) /\ TypeNeeds("editPerm", Do("change")) \subseteq C
  BY Zenon DEF Fits, TypeNeeds, Do, PermOps, ChangeOps
<1>2. Do("change") \in Steps /\ <<l, Do("change"), z>> \in R
  BY <1>0, <1>1, TypeAsks
<1>3. Do("loadPerm") \in Steps /\ <<l, Do("loadPerm"), l>> \in R /\ <<z, Do("loadPerm"), z>> \in R
  BY <1>0, TypePlain DEF PlainSteps
<1>4. Path(R, PermissionMenu, z, z)
  BY <1>0, TypeMenus
<1> HIDE DEF l, z, R
<1>5. Path(R, <<Do("change")>>, l, z)
  BY <1>k, <1>2, PathOne
<1>6. Path(R, UpdatePermission \o <<Do("loadPerm")>>, l, z)
  <2>1. Path(R, UpdatePermission, l, z)
    BY <1>k, <1>2, <1>3, PathTwo DEF UpdatePermission
  <2>2. Path(R, <<Do("loadPerm")>>, z, z)
    BY <1>k, <1>3, PathOne
  <2> QED
    BY <2>1, <2>2, PathCat
<1>7. Path(R, more, l, z)
  BY <1>5, <1>6
<1>8. Path(R, more \o PermissionMenu, l, z)
  BY <1>4, <1>7, PathCat
<1> QED
  BY <1>0, <1>8 DEF l, z, R

(* The menu of the permissions keeps the invariant. *)
LEMMA TypeEditPermission ==
    ASSUME TypeInv, NEW p \in Procs, EditPermission(p) PROVE TypeInv'
<1> DEFINE x == Head(act[p].todo)
           op == act[p].op
           todo == act[p].todo
           R == TypeRules(op)
<1>1. todo # <<>> /\ x[1] = "editPerm"
  BY AtHead DEF EditPermission, Turn
<1>2. PICK l, m, e \in Label : Goes(p, l, m, e)
  BY <1>1, TypeHere
<1>3. act[p] \in ActType /\ op # "idle" /\ op \in Ops /\ act[p].base \in BaseType(op)
  BY <1>1, TypeHere
<1>4. /\ TypeGains(x) = {} /\ op = "editPerm" /\ act[p].perm \in PermControl
  BY <1>1, <1>2 DEF Goes, TypeRule, TypeGains, TypeNeeds, Fits, KnowsTypes
<1>5. CASE Got(p, act[p], <<>>)
  BY <1>1, <1>3, <1>4, <1>5, TypeGotOn
<1>6. ASSUME NEW chg \in Changes, ops < MaxOps, chg[1] = "perm", ops' = ops + 1,
             act' = [act EXCEPT ![p].chg = chg,
                                ![p].todo = (IF chg[2] \in ActiveModels
                                             THEN UpdatePermission \o <<Do("loadPerm")>>
                                             ELSE <<Do("change")>>) \o PermissionMenu],
             UNCHANGED <<file, locked, mem, gen, crashes, ok, mixed>>
      PROVE  TypeInv'
  <2> DEFINE first == IF chg[2] \in ActiveModels THEN UpdatePermission \o <<Do("loadPerm")>>
                      ELSE <<Do("change")>>
             more == first \o PermissionMenu
             a == [act[p] EXCEPT !.chg = chg]
             N == {"chosen", "perm"}
             l1 == Knowing(N, {})
             e1 == Knowing({}, {})
  <2>0. act' = [act EXCEPT ![p].chg = chg, ![p].todo = more]
    BY <1>6
  <2>1. first \in {UpdatePermission \o <<Do("loadPerm")>>, <<Do("change")>>}
    OBVIOUS
  <2> HIDE DEF first
  <2>2. N \in SUBSET Claims /\ Path(R, more, l1, e1)
    BY <1>4, <2>1, TypeMenuAgain
  <2>3. l1 \in Label /\ l1.now = N /\ e1 \in Label /\ e1.now = {} /\ e1.then = {}
    <3>1. {} \in SUBSET Claims
      OBVIOUS
    <3> QED
      BY <2>2, <3>1, KnowingLabel
  <2>7. more \in Seq(Steps)
    BY <2>2 DEF Path
  <2>c. chg \in Requests(op)
    BY <1>4, <1>6 DEF Requests
  <2>8. /\ a \in ActType /\ a.op = op /\ a.perm = act[p].perm
        /\ a.boost = act[p].boost /\ a.reg = act[p].reg /\ a.chg = chg /\ a.base = act[p].base
    BY <1>3, <2>c DEF ActType
  <2>9. act \in [Procs -> ActType]
    BY DEF TypeInv, Types, ActTypes
  <2> HIDE DEF more
  <2>10. act' = [act EXCEPT ![p] = [a EXCEPT !.todo = more]]
    BY <1>3, <2>0, <2>9 DEF ActType
  <2> HIDE DEF a, l1, e1
  <2>11. Became(p, a, more)
    BY <2>7, <2>8, <2>9, <2>10, BecameTyped
  <2>12. KnowsTypes(a, l1.now)
    BY <1>4, <2>3, <2>8, <2>c DEF KnowsTypes
  <2>14. a.chg \in Requests(a.op) \cup {None} /\ a.base \in BaseType(a.op)
    BY <1>3, <2>8, <2>c
  <2>15. ActTypes' /\ \A q \in Procs : TypeWalk(q)'
    BY <1>3, <2>2, <2>3, <2>8, <2>11, <2>12, <2>14, TypeBecame
  <2>16. mixed' \in [Stores -> BOOLEAN]
    BY <1>6 DEF TypeInv, Types
  <2> QED
    BY <1>6, <2>15, <2>16, TypeCounted
<1> QED
  BY <1>5, <1>6 DEF EditPermission

-----------------------------------------------------------------------------
(* The arbiter *)

(* A step of the arbiter keeps the invariant. *)
LEMMA TypeArbiter ==
    ASSUME TypeInv, NEW p \in Procs, act[p].todo # <<>>, NEW m0 \in MemType,
           NEW more, Arbiter(p, m0, more),
           NEW l \in Label, NEW m \in Label, NEW e \in Label, e.now \subseteq e.then,
           KnowsTypes(act[p], l.now),
           Path(TypeRules(act[p].op), more, l, m),
           Path(TypeRules(act[p].op), Tail(act[p].todo), m, e)
    PROVE  TypeInv'
<1>1. /\ act[p] \in ActType /\ act[p].op # "idle"
      /\ act[p].chg \in Requests(act[p].op) \cup {None} /\ act[p].base \in BaseType(act[p].op)
  BY TypeHere
<1>2. /\ mem' = [mem EXCEPT ![p] = m0] /\ Continue(p, act[p], more)
      /\ UNCHANGED file /\ UNCHANGED locked /\ UNCHANGED history
  BY DEF Arbiter
<1>3. ActTypes' /\ \A q \in Procs : TypeWalk(q)'
  BY <1>1, <1>2, TypeContinue
<1>4. mem' \in [Procs -> MemType]
  BY <1>2 DEF TypeInv, Types
<1>5. UNCHANGED gen /\ UNCHANGED crashes /\ UNCHANGED ok /\ UNCHANGED mixed /\ UNCHANGED ops
  BY <1>2 DEF history
<1> QED
  BY <1>2, <1>3, <1>4, <1>5 DEF TypeInv, Types, FileTypes, OkTypes, CountTypes

(* With nothing more to do. *)
LEMMA TypeArbiterOn ==
    ASSUME TypeInv, NEW p \in Procs, act[p].todo # <<>>, NEW m0 \in MemType,
           Arbiter(p, m0, <<>>), TypeGains(Head(act[p].todo)) = {}
    PROVE  TypeInv'
<1>1. PICK l, m, e \in Label : Goes(p, l, m, e)
  BY TypeHere
<1>2. KnowsTypes(act[p], m.now) /\ e.now \subseteq e.then /\ Path(TypeRules(act[p].op), Tail(act[p].todo), m, e)
  BY <1>1 DEF Goes, TypeRule, KnowsTypes
<1>3. Path(TypeRules(act[p].op), <<>>, m, m)
  BY PathNil
<1> QED
  BY <1>2, <1>3, TypeArbiter

(* Taking and returning the arbiter's lock keep the invariant. *)
LEMMA TypeLock ==
    ASSUME TypeInv, NEW p \in Procs, Lock(p) PROVE TypeInv'
<1>0. mem[p] \in MemType
  BY DEF TypeInv, Types
<1>1. CASE At(p, "lock") /\ Arbiter(p, [mem[p] EXCEPT !.held = TRUE], <<>>)
  <2>1. act[p].todo # <<>> /\ TypeGains(Head(act[p].todo)) = {}
    BY <1>1 DEF At, TypeGains
  <2> DEFINE m0 == [mem[p] EXCEPT !.held = TRUE]
  <2>2. m0 \in MemType
    BY <1>0 DEF MemType
  <2> HIDE DEF m0
  <2> QED
    BY <1>1, <2>1, <2>2, TypeArbiterOn DEF m0
<1>2. CASE At(p, "unlock") /\ Arbiter(p, [mem[p] EXCEPT !.held = FALSE], <<>>)
  <2>1. act[p].todo # <<>> /\ TypeGains(Head(act[p].todo)) = {}
    BY <1>2 DEF At, TypeGains
  <2> DEFINE m0 == [mem[p] EXCEPT !.held = FALSE]
  <2>2. m0 \in MemType
    BY <1>0 DEF MemType
  <2> HIDE DEF m0
  <2> QED
    BY <1>2, <2>1, <2>2, TypeArbiterOn DEF m0
<1> QED
  BY <1>1, <1>2 DEF Lock

-----------------------------------------------------------------------------
(* What is granted, counted *)

(* What n grants to the engines of S, counted one by one. *)
Grants(n, S) == UNION {{e} \X (1..n[e]) : e \in S}

(* Grants are finitely many. *)
LEMMA GrantsFinite ==
    ASSUME NEW n \in [Engines -> Nat], NEW S \in SUBSET Engines
    PROVE  IsFiniteSet(Grants(n, S)) /\ Cardinality(Grants(n, S)) \in Nat
<1> DEFINE f == [e \in S |-> {e} \X (1..n[e])]
           T == {{e} \X (1..n[e]) : e \in S}
<1>1. IsFiniteSet(S)
  BY GovernorAssumption, FS_Subset
<1>2. f \in Surjection(S, T)
  BY DEF Surjection
<1>3. IsFiniteSet(T)
  <2> HIDE DEF f, T
  <2> QED
    BY <1>1, <1>2, FS_Surjection
<1>4. \A t \in T : IsFiniteSet(t)
  <2> SUFFICES ASSUME NEW e \in S PROVE IsFiniteSet({e} \X (1..n[e]))
    OBVIOUS
  <2>1. IsFiniteSet({e})
    BY FS_Singleton
  <2>2. n[e] \in Int /\ 1 \in Int
    OBVIOUS
  <2>3. IsFiniteSet(1..n[e])
    BY <2>2, FS_Interval
  <2> QED
    BY <2>1, <2>3, FS_Product
<1>5. IsFiniteSet(UNION T)
  <2> HIDE DEF T
  <2> QED
    BY <1>3, <1>4, FS_UNION
<1> QED
  BY <1>5, FS_CardinalityType DEF Grants

(* The grants of an engine and of the others. *)
LEMMA GrantsSplit ==
    ASSUME NEW n \in [Engines -> Nat], NEW e \in Engines
    PROVE  Cardinality(Grants(n, Engines)) = Cardinality(Grants(n, Engines \ {e})) + n[e]
<1> DEFINE A == Grants(n, Engines \ {e})
           B == {e} \X (1..n[e])
<1>1. Grants(n, Engines) = A \cup B
  BY DEF Grants
<1>2. A \cap B = {}
  BY DEF Grants
<1>3. IsFiniteSet(A) /\ Cardinality(A) \in Nat
  BY GrantsFinite
<1>4. IsFiniteSet(B) /\ Cardinality(B) = n[e]
  <2>1. IsFiniteSet({e}) /\ Cardinality({e}) = 1
    BY FS_Singleton
  <2>2. n[e] \in Int /\ 1 \in Int /\ n[e] \in Nat
    OBVIOUS
  <2>3. IsFiniteSet(1..n[e]) /\ Cardinality(1..n[e]) = IF 1 > n[e] THEN 0 ELSE n[e]-1+1
    BY <2>2, FS_Interval
  <2>4. Cardinality(1..n[e]) = n[e]
    BY <2>2, <2>3
  <2>5. IsFiniteSet(B) /\ Cardinality(B) = 1 * n[e]
    BY <2>1, <2>3, <2>4, FS_Product
  <2> QED
    BY <2>2, <2>5
<1> HIDE DEF A, B
<1>5. Cardinality(A \cup B) = Cardinality(A) + Cardinality(B) - Cardinality(A \cap B)
  BY <1>3, <1>4, FS_Union
<1>6. Cardinality({}) = 0
  BY FS_EmptySet
<1>7. n[e] \in Nat
  OBVIOUS
<1>8. Cardinality(A \cap B) = 0
  BY <1>2, <1>6, Zenon
<1>9. Cardinality(Grants(n, Engines)) = Cardinality(A \cup B)
  BY <1>1
<1> DEFINE g == Cardinality(A)
           c == Cardinality(A \cup B)
<1>10. c = g + n[e] - 0 /\ g \in Nat
  BY <1>3, <1>4, <1>5, <1>8
<1>11. c = Cardinality(Grants(n, Engines)) /\ g = Cardinality(Grants(n, Engines \ {e}))
  BY <1>9 DEF A
<1> HIDE DEF g, c
<1> QED
  BY <1>7, <1>10, <1>11

(* What the other engines hold is not changed by what one is granted. *)
LEMMA GrantsOthers ==
    ASSUME NEW n \in [Engines -> Nat], NEW e \in Engines, NEW k \in Nat
    PROVE  Cardinality(Grants([n EXCEPT ![e] = k], Engines)) + n[e] = Cardinality(Grants(n, Engines)) + k
<1> DEFINE o == [n EXCEPT ![e] = k]
<1>1. o \in [Engines -> Nat] /\ o[e] = k /\ \A d \in Engines \ {e} : o[d] = n[d]
  OBVIOUS
<1> HIDE DEF o
<1>2. Grants(o, Engines \ {e}) = Grants(n, Engines \ {e})
  BY <1>1 DEF Grants
<1> DEFINE g == Cardinality(Grants(n, Engines \ {e}))
<1>3. g \in Nat
  BY GrantsFinite
<1>4. Cardinality(Grants(o, Engines)) = g + k
  BY <1>1, <1>2, GrantsSplit
<1>5. Cardinality(Grants(n, Engines)) = g + n[e]
  BY GrantsSplit
<1>6. n[e] \in Nat
  OBVIOUS
<1> HIDE DEF g
<1> QED
  BY <1>3, <1>4, <1>5, <1>6 DEF o

(* The sum of the grants is a number. *)
LEMMA TakenIs ==
    ASSUME NEW m \in MemType, NEW S \in SUBSET Engines
    PROVE  Taken(m, S) = Cardinality(Grants(m.active, S)) /\ Taken(m, S) \in Nat
<1>1. m.active \in [Engines -> Nat]
  BY DEF MemType
<1>2. Taken(m, S) = Cardinality(Grants(m.active, S))
  BY DEF Taken, Grants
<1> QED
  BY <1>1, <1>2, GrantsFinite

-----------------------------------------------------------------------------
(* Steps of the arbiter *)

(* Synchronising the total keeps the invariant. *)
LEMMA TypeSync ==
    ASSUME TypeInv, NEW p \in Procs, Sync(p) PROVE TypeInv'
<1> DEFINE R == TypeRules(act[p].op)
<1>0. mem[p] \in MemType
  BY DEF TypeInv, Types
<1>1. CASE At(p, "total") /\ Arbiter(p, [mem[p] EXCEPT !.total =
                        IF act[p].sys = None THEN @ ELSE VramOf(act[p].sys)], <<>>)
  <2>1. act[p].todo # <<>> /\ TypeGains(Head(act[p].todo)) = {}
    BY <1>1 DEF At, TypeGains
  <2> DEFINE n == IF act[p].sys = None THEN mem[p].total ELSE VramOf(act[p].sys)
             m0 == [mem[p] EXCEPT !.total = n]
  <2>2. n \in {0, Vram}
    BY <1>0, VramOfTyped DEF MemType
  <2>3. Arbiter(p, m0, <<>>)
    BY <1>1
  <2> HIDE DEF n
  <2>4. m0 \in MemType
    BY <1>0, <2>2 DEF MemType
  <2> HIDE DEF m0
  <2> QED
    BY <2>1, <2>3, <2>4, TypeArbiterOn
<1>2. CASE At(p, "syncIfZero") /\ Arbiter(p, mem[p], IF mem[p].total # 0 THEN <<>>
                             ELSE SyncTotal \o <<Do("calibrateIfZero")>>)
  <2>1. act[p].todo # <<>> /\ TypeGains(Head(act[p].todo)) = {}
        /\ Head(act[p].todo)[1] \notin Catchers
    BY <1>2 DEF At, TypeGains, Catchers
  <2>2. CASE mem[p].total # 0
    <3>1. Arbiter(p, mem[p], <<>>)
      BY <1>2, <2>2
    <3> QED
      BY <1>0, <2>1, <3>1, TypeArbiterOn
  <2>3. CASE mem[p].total = 0
    <3>1. PICK l, m, e \in Label : Goes(p, l, m, e)
      BY <2>1, TypeHere
    <3>2. KnowsTypes(act[p], m.now) /\ e.now \subseteq e.then /\ Path(R, Tail(act[p].todo), m, e)
      BY <2>1, <3>1 DEF Goes, TypeRule, KnowsTypes
    <3> DEFINE N == m.now
               k == Knowing(N, N)
               more == SyncTotal \o <<Do("calibrateIfZero")>>
    <3>3. N \in SUBSET Claims /\ m.then \in SUBSET Claims /\ Knowing(N, m.then) = m
      BY LabelParts
    <3>4. k \in Label /\ k.now = N
      BY <3>3, KnowingLabel
    <3>5. Path(R, SyncTotal, k, m)
      BY <3>3, TypeSyncTotal
    <3>6. Path(R, <<Do("calibrateIfZero")>>, m, m)
      BY <3>3, TypePlain, PathOne DEF PlainSteps
    <3>7. Path(R, more, k, m)
      BY <3>5, <3>6, PathCat
    <3>8. Arbiter(p, mem[p], more)
      BY <1>2, <2>3
    <3> HIDE DEF k, more
    <3> QED
      BY <1>0, <2>1, <3>2, <3>4, <3>7, <3>8, TypeArbiter
  <2> QED
    BY <2>2, <2>3
<1>3. CASE At(p, "calibrateIfZero") /\ Arbiter(p, mem[p], IF act[p].sys # None \/ mem[p].total # 0 THEN <<>>
                             ELSE AutoCalibrate \o <<Do("catch")>>)
  <2>1. act[p].todo # <<>> /\ TypeGains(Head(act[p].todo)) = {}
        /\ Head(act[p].todo)[1] \notin Catchers
    BY <1>3 DEF At, TypeGains, Catchers
  <2>2. CASE act[p].sys # None \/ mem[p].total # 0
    <3>1. Arbiter(p, mem[p], <<>>)
      BY <1>3, <2>2
    <3> QED
      BY <1>0, <2>1, <3>1, TypeArbiterOn
  <2>3. CASE ~(act[p].sys # None \/ mem[p].total # 0)
    <3>1. PICK l, m, e \in Label : Goes(p, l, m, e)
      BY <2>1, TypeHere
    <3>2. KnowsTypes(act[p], m.now) /\ e.now \subseteq e.then /\ Path(R, Tail(act[p].todo), m, e)
      BY <2>1, <3>1 DEF Goes, TypeRule, KnowsTypes
    <3> DEFINE N == m.now
               k == Knowing(N, N)
               more == AutoCalibrate \o <<Do("catch")>>
    <3>3. N \in SUBSET Claims /\ m.then \in SUBSET Claims /\ Knowing(N, m.then) = m
      BY LabelParts
    <3>4. k \in Label /\ k.now = N
      BY <3>3, KnowingLabel
    <3>5. Path(R, AutoCalibrate, k, k)
      BY <3>3, TypeAutoCalibrate
    <3>6. Path(R, <<Do("catch")>>, k, m)
      <4>1. Do("catch") \in Steps
        BY Zenon, DoStep DEF Words
      <4>2. <<k, Do("catch"), m>> \in R
        BY <3>3, TypeCatch DEF Catchers
      <4> QED
        BY <3>4, <4>1, <4>2, PathOne
    <3>7. Path(R, more, k, m)
      BY <3>5, <3>6, PathCat
    <3>8. Arbiter(p, mem[p], more)
      BY <1>3, <2>3
    <3> HIDE DEF k, more
    <3> QED
      BY <1>0, <2>1, <3>2, <3>4, <3>7, <3>8, TypeArbiter
  <2> QED
    BY <2>2, <2>3
<1> QED
  BY <1>1, <1>2, <1>3 DEF Sync

(* What allocate and free do to the arbiter. *)
LEMMA AllocateEffect ==
    ASSUME TypeInv, NEW p \in Procs, Allocate(p)
    PROVE  LET e == act[p].chg[2] IN
           /\ act[p].todo # <<>> /\ Head(act[p].todo)[1] = "allocate"
           /\ e \in Engines /\ Demand[e] \in Nat
           /\ \/ Arbiter(p, mem[p], <<>>)
              \/ \E m0 \in MemType :
                    /\ m0.alloc = mem[p].alloc + Demand[e]
                    /\ m0.active = [mem[p].active EXCEPT ![e] = Demand[e]]
                    /\ m0.held = mem[p].held /\ m0.booted = mem[p].booted
                    /\ Arbiter(p, m0, <<Do("loadReg"), Do("regAdd")>>)
<1> DEFINE e == act[p].chg[2]
           m == mem[p]
           m0 == [m EXCEPT !.alloc = @ + Demand[e], !.active[e] = Demand[e]]
<1>0. m \in MemType
  BY DEF TypeInv, Types
<1>1. act[p].todo # <<>> /\ Head(act[p].todo)[1] = "allocate"
  BY AtHead DEF Allocate
<1>2. e \in Engines
  <2>1. PICK l, k, n \in Label : Goes(p, l, k, n)
    BY <1>1, TypeHere
  <2>2. act[p].op = "request" /\ act[p].chg \in Requests("request")
    BY <1>1, <2>1 DEF Goes, TypeRule, Fits, TypeNeeds, KnowsTypes
  <2> QED
    BY Zenon, <2>2 DEF Requests
<1>3. Demand[e] \in Nat
  BY <1>2, GovernorAssumption
<1>4. \/ Arbiter(p, m, <<>>)
      \/ Arbiter(p, m0, <<Do("loadReg"), Do("regAdd")>>)
  BY Zenon DEF Allocate
<1> DEFINE a == m.alloc + Demand[e]
           b == [m.active EXCEPT ![e] = Demand[e]]
<1>5. a \in Int /\ b \in [Engines -> Nat]
  BY <1>0, <1>2, <1>3 DEF MemType
<1>6. m0 = [m EXCEPT !.alloc = a, !.active = b]
  BY <1>0 DEF MemType
<1> HIDE DEF a, b, m0, e, m
<1>7. m0 \in MemType /\ m0.alloc = a /\ m0.active = b /\ m0.held = m.held /\ m0.booted = m.booted
  BY <1>0, <1>5, <1>6 DEF MemType
<1> QED
  BY <1>1, <1>2, <1>3, <1>4, <1>7 DEF a, b, e, m

(* A release: the entry of the engine is zero, and it is subtracted from the load. *)
LEMMA FreeEffect ==
    ASSUME TypeInv, NEW p \in Procs, Free(p)
    PROVE  LET e == act[p].chg[2] IN
           /\ act[p].todo # <<>> /\ Head(act[p].todo)[1] = "free"
           /\ e \in Engines
           /\ \E m0 \in MemType :
                /\ m0.alloc = mem[p].alloc - mem[p].active[e]
                /\ m0.active = [mem[p].active EXCEPT ![e] = 0]
                /\ m0.held = mem[p].held /\ m0.booted = mem[p].booted
                /\ Arbiter(p, m0, <<>>)
<1> DEFINE e == act[p].chg[2]
           m == mem[p]
           m0 == [m EXCEPT !.alloc = @ - mem[p].active[e], !.active[e] = 0]
<1>0. m \in MemType
  BY DEF TypeInv, Types
<1>1. act[p].todo # <<>> /\ Head(act[p].todo)[1] = "free"
  BY AtHead DEF Free
<1>2. e \in Engines
  <2>1. PICK l, k, n \in Label : Goes(p, l, k, n)
    BY <1>1, TypeHere
  <2>2. act[p].op = "release" /\ act[p].chg \in Requests("release")
    BY <1>1, <2>1 DEF Goes, TypeRule, Fits, TypeNeeds, KnowsTypes
  <2> QED
    BY Zenon, <2>2 DEF Requests
<1>4. Arbiter(p, m0, <<>>)
  BY DEF Free
<1> DEFINE a == m.alloc - m.active[e]
           b == [m.active EXCEPT ![e] = 0]
<1>5. a \in Int /\ b \in [Engines -> Nat]
  BY <1>0, <1>2 DEF MemType
<1>6. m0 = [m EXCEPT !.alloc = a, !.active = b]
  BY <1>0 DEF MemType
<1> HIDE DEF a, b, m0, e, m
<1>7. m0 \in MemType /\ m0.alloc = a /\ m0.active = b /\ m0.held = m.held /\ m0.booted = m.booted
  BY <1>0, <1>5, <1>6 DEF MemType
<1> QED
  BY <1>1, <1>2, <1>4, <1>7 DEF a, b, e, m

(* A request of VRAM keeps the invariant. *)
LEMMA TypeAllocate ==
    ASSUME TypeInv, NEW p \in Procs, Allocate(p) PROVE TypeInv'
<1> DEFINE R == TypeRules(act[p].op)
<1>0. mem[p] \in MemType
  BY DEF TypeInv, Types
<1>1. act[p].todo # <<>> /\ Head(act[p].todo)[1] = "allocate"
  BY AllocateEffect
<1>2. TypeGains(Head(act[p].todo)) = {} /\ Head(act[p].todo)[1] \notin Catchers
  BY <1>1 DEF TypeGains, Catchers
<1>3. CASE Arbiter(p, mem[p], <<>>)
  BY <1>0, <1>1, <1>2, <1>3, TypeArbiterOn
<1>4. ASSUME NEW m0 \in MemType, Arbiter(p, m0, <<Do("loadReg"), Do("regAdd")>>)
      PROVE  TypeInv'
  <2>1. PICK l, m, e \in Label : Goes(p, l, m, e)
    BY <1>1, TypeHere
  <2>2. KnowsTypes(act[p], m.now) /\ e.now \subseteq e.then /\ Path(R, Tail(act[p].todo), m, e)
    BY <1>2, <2>1 DEF Goes, TypeRule, KnowsTypes
  <2> DEFINE N == m.now \cup {"read"}
             k == Knowing(N, m.then)
             more == <<Do("loadReg"), Do("regAdd")>>
  <2>3. N \in SUBSET Claims /\ m.then \in SUBSET Claims /\ m.now \in SUBSET Claims
        /\ m.now \in SUBSET N /\ Knowing(m.now, m.then) = m /\ "read" \in N
    BY LabelParts DEF Claims, TypeClaims
  <2>4. k \in Label
    BY <2>3, KnowingLabel
  <2>5. Do("loadReg") \in Steps /\ <<m, Do("loadReg"), k>> \in R
    BY <2>3, TypeLoad, LoadGains
  <2>6. Fits(act[p].op, Do("regAdd")) /\ TypeNeeds(act[p].op, Do("regAdd")) = {"read"}
    BY DEF Fits, TypeNeeds, Do
  <2>7. Do("regAdd") \in Steps /\ <<k, Do("regAdd"), m>> \in R
    BY <2>3, <2>6, TypeAsks
  <2>8. Path(R, more, m, m)
    BY <2>4, <2>5, <2>7, PathTwo
  <2>9. Arbiter(p, m0, more)
    BY <1>4
  <2> HIDE DEF k, more
  <2> QED
    BY <1>1, <2>2, <2>8, <2>9, TypeArbiter
<1> QED
  BY <1>3, <1>4, AllocateEffect

(* A release of VRAM keeps the invariant. *)
LEMMA TypeFree ==
    ASSUME TypeInv, NEW p \in Procs, Free(p) PROVE TypeInv'
<1>1. act[p].todo # <<>> /\ Head(act[p].todo)[1] = "free"
  BY FreeEffect
<1>2. TypeGains(Head(act[p].todo)) = {}
  BY <1>1 DEF TypeGains
<1>3. \E m0 \in MemType : Arbiter(p, m0, <<>>)
  BY FreeEffect
<1> QED
  BY <1>1, <1>2, <1>3, TypeArbiterOn

(* Fitting the context keeps the invariant. *)
LEMMA TypeFit ==
    ASSUME TypeInv, NEW p \in Procs, Fit(p) PROVE TypeInv'
<1> DEFINE m == mem[p]
           others == Taken(m, Engines \ {"llama", "onnx", "whisper"})
           cap == IF m.dna = None THEN Truth ELSE m.dna
           ctx == Envelope(act[p].boost, m.total, others, cap)
<1>0. m \in MemType
  BY DEF TypeInv, Types
<1>1. CASE At(p, "fit") /\ Arbiter(p, [m EXCEPT !.ctx = ctx, !.dna = IF @ = None THEN ctx ELSE @], <<>>)
  <2>1. act[p].todo # <<>> /\ Head(act[p].todo)[1] = "fit" /\ TypeGains(Head(act[p].todo)) = {}
    BY <1>1 DEF At, TypeGains
  <2>2. act[p].boost \in BoosterControl
    <3>1. PICK l, k, n \in Label : Goes(p, l, k, n)
      BY <2>1, TypeHere
    <3> QED
      BY <2>1, <3>1 DEF Goes, TypeRule, TypeNeeds, KnowsTypes
  <2>3. others \in Int
    <3>1. Engines \ {"llama", "onnx", "whisper"} \in SUBSET Engines
      OBVIOUS
    <3>2. others \in Nat
      BY <1>0, <3>1, TakenIs
    <3> QED
      BY <3>2
  <2>4. cap \in Int
    BY <1>0, TruthTyped DEF MemType
  <2>5. m.total \in Nat
    BY <1>0, VramOfTyped DEF MemType
  <2> HIDE DEF others, cap
  <2>6. ctx \in Int
    BY <2>2, <2>3, <2>4, <2>5, EnvelopeTyped
  <2> DEFINE dna == IF m.dna = None THEN ctx ELSE m.dna
             m0 == [m EXCEPT !.ctx = ctx, !.dna = dna]
  <2>7. Arbiter(p, m0, <<>>)
    BY <1>1 DEF others, cap
  <2> HIDE DEF ctx
  <2>8. dna \in Int \cup {None}
    BY <1>0, <2>6 DEF MemType
  <2> HIDE DEF dna
  <2>9. m0 \in MemType
    BY <1>0, <2>6, <2>8 DEF MemType
  <2> HIDE DEF m0
  <2> QED
    BY <2>1, <2>7, <2>9, TypeArbiterOn
<1>2. CASE At(p, "forget") /\ Arbiter(p, [m EXCEPT !.dna = None], <<>>)
  <2>1. act[p].todo # <<>> /\ TypeGains(Head(act[p].todo)) = {}
    BY <1>2 DEF At, TypeGains
  <2> DEFINE m0 == [m EXCEPT !.dna = None]
  <2>2. m0 \in MemType
    BY <1>0 DEF MemType
  <2>3. Arbiter(p, m0, <<>>)
    BY <1>2
  <2> HIDE DEF m0
  <2> QED
    BY <2>1, <2>2, <2>3, TypeArbiterOn
<1> QED
  BY <1>1, <1>2 DEF Fit

-----------------------------------------------------------------------------
(* The registry *)

(* After the registry is written it need not be remembered. *)
LEMMA TypePutReg ==
    ASSUME NEW op, NEW m \in Label
    PROVE  LET N == m.now \cup {"read"} IN
           /\ N \in SUBSET Claims /\ Knowing(N, m.then) \in Label /\ Knowing(N, m.then).now = N
           /\ Path(TypeRules(op), Put("reg", "json"), Knowing(N, m.then), m)
<1> DEFINE N == m.now \cup {"read"}
           k == Knowing(N, m.then)
           x == <<"open", "reg", "json">>
           y == <<"fill", "reg", "json">>
           R == TypeRules(op)
<1>1. N \in SUBSET Claims /\ m.then \in SUBSET Claims /\ m.now \in SUBSET Claims
      /\ Knowing(m.now, m.then) = m /\ "read" \in N /\ N \in SUBSET N /\ m.now \in SUBSET N
  BY LabelParts DEF Claims, TypeClaims
<1>2. k \in Label /\ k.now = N
  BY <1>1, KnowingLabel
<1>3. x \in Steps /\ x[1] = "open" /\ x[2] = "reg" /\ x[3] = "json"
  BY Zenon DEF Steps, Words, Places, Extensions
<1>4. y \in Steps /\ y[1] = "fill" /\ y[2] = "reg" /\ y[3] = "json"
  BY Zenon DEF Steps, Words, Places, Extensions
<1>5. Put("reg", "json") = <<x, y>>
  BY DEF Put
<1> HIDE DEF x, y
<1>6. Fits(op, x) /\ TypeNeeds(op, x) = {} /\ x[1] \notin Catchers /\ ~Fails(x)
  BY <1>3 DEF Fits, TypeNeeds, Catchers, Fails, Files, Settings
<1>7. Fits(op, y) /\ TypeNeeds(op, y) = {"read"} /\ y[1] \notin Catchers /\ ~Fails(y)
  BY <1>4 DEF Fits, TypeNeeds, Catchers, Fails, Files, Settings
<1>8. <<k, x, k>> \in R
  BY <1>1, <1>3, <1>6, TypeStays
<1>9. <<k, y, m>> \in R
  BY <1>1, <1>4, <1>7, TypeGain
<1> HIDE DEF k, N
<1>10. Path(R, <<x, y>>, k, m)
  BY <1>2, <1>3, <1>4, <1>8, <1>9, PathTwo
<1> QED
  BY <1>1, <1>2, <1>5, <1>10 DEF k, N

(* Writing the registry keeps the invariant. *)
LEMMA TypeWriteReg ==
    ASSUME TypeInv, NEW p \in Procs, act[p].todo # <<>>,
           NEW l \in Label, NEW m \in Label, NEW e \in Label, Goes(p, l, m, e),
           m.now \subseteq l.now, NEW pids \in SUBSET Pids,
           Got(p, [act[p] EXCEPT !.reg = pids], Put("reg", "json"))
    PROVE  TypeInv'
<1> DEFINE a == [act[p] EXCEPT !.reg = pids]
           N == m.now \cup {"read"}
           k == Knowing(N, m.then)
           R == TypeRules(act[p].op)
<1>1. /\ act[p] \in ActType /\ act[p].op # "idle"
      /\ act[p].chg \in Requests(act[p].op) \cup {None} /\ act[p].base \in BaseType(act[p].op)
  BY TypeHere
<1>2. Continue(p, a, Put("reg", "json")) /\ UNCHANGED file /\ UNCHANGED locked /\ UNCHANGED mem /\ UNCHANGED history
  BY DEF Got
<1>3. /\ a \in ActType /\ a.reg = pids /\ a.op = act[p].op /\ a.todo = act[p].todo /\ a.perm = act[p].perm
      /\ a.boost = act[p].boost /\ a.chg = act[p].chg /\ a.base = act[p].base
  BY <1>1 DEF ActType
<1> HIDE DEF a
<1>4. k \in Label /\ k.now = N /\ Path(R, Put("reg", "json"), k, m)
  BY TypePutReg
<1>5. KnowsTypes(a, N)
  BY <1>3 DEF Goes, KnowsTypes
<1>6. e.now \subseteq e.then /\ Path(R, Tail(act[p].todo), m, e)
  BY DEF Goes
<1> HIDE DEF k
<1>7. ActTypes' /\ \A q \in Procs : TypeWalk(q)'
  BY <1>1, <1>2, <1>3, <1>4, <1>5, <1>6, TypeContinue
<1> QED
  BY <1>2, <1>7, TypeGot

(* A process has a pid. *)
LEMMA PidTyped ==
    ASSUME Types, NEW p \in Procs PROVE Pid(p) \in Pids
<1>1. gen[p] \in Nat /\ gen[p] <= crashes /\ crashes \in 0..MaxCrashes /\ MaxCrashes \in Nat
  BY GovernorAssumption DEF Types, CountTypes
<1>2. gen[p] \in 0..MaxCrashes
  BY <1>1
<1> QED
  BY <1>2 DEF Pid, Pids

(* The steps of the registry keep the invariant. *)
LEMMA TypeRegistry ==
    ASSUME TypeInv, NEW p \in Procs, Registry(p) PROVE TypeInv'
<1> DEFINE a == act[p]
           x == Head(a.todo)
           dead == {pid \in a.reg : ~Alive(pid)}
<1>1. a.todo # <<>> /\ x[1] \in {"regAdd", "regRemove", "regContext", "regPurge"}
  BY DEF Registry, At
<1>2. PICK l, m, e \in Label : Goes(p, l, m, e)
  BY <1>1, TypeHere
<1>3. a \in ActType
  BY <1>1, TypeHere
<1>4. m.now \subseteq l.now /\ a.reg \in SUBSET Pids /\ TypeGains(x) = {}
  BY <1>1, <1>2 DEF Goes, TypeRule, TypeGains, TypeNeeds, KnowsTypes
<1>5. Pid(p) \in Pids
  BY PidTyped DEF TypeInv
<1>6. ASSUME NEW pids \in SUBSET Pids, Got(p, [a EXCEPT !.reg = pids], Put("reg", "json"))
      PROVE  TypeInv'
  BY <1>1, <1>2, <1>4, <1>6, TypeWriteReg
<1>7. CASE Got(p, a, <<>>)
  BY <1>1, <1>3, <1>4, <1>7, TypeGotOn
<1>8. \/ \E pids \in {a.reg \cup {Pid(p)}, a.reg \ {Pid(p)}, a.reg, a.reg \ dead} :
            Got(p, [a EXCEPT !.reg = pids], Put("reg", "json"))
      \/ Got(p, a, <<>>)
  BY DEF Registry
<1>9. a.reg \cup {Pid(p)} \in SUBSET Pids /\ a.reg \ {Pid(p)} \in SUBSET Pids /\ a.reg \ dead \in SUBSET Pids
  BY <1>4, <1>5
<1> HIDE DEF dead
<1> QED
  BY <1>4, <1>6, <1>7, <1>8, <1>9

-----------------------------------------------------------------------------
(* Operations begin and end *)

(* What the beginning of an operation sets. *)
LEMMA EnterEffect ==
    ASSUME act \in [Procs -> ActType], NEW p \in Procs, NEW op \in Ops,
           NEW chg \in Requests(op) \cup {None}, Enter(p, op, chg)
    PROVE  /\ act[p].op = "idle" /\ act' \in [Procs -> ActType] /\ Others(p)
           /\ act'[p].op = op /\ act'[p].todo = Program(op) /\ act'[p].chg = chg
           /\ act'[p].base = {} /\ act'[p].reg = None /\ act'[p].sys = None
           /\ mixed' = Overlap(p, op)
           /\ UNCHANGED file /\ UNCHANGED locked /\ UNCHANGED mem /\ UNCHANGED gen
           /\ UNCHANGED crashes /\ UNCHANGED ok
<1> DEFINE a == [Idle EXCEPT !.op = op, !.todo = Program(op), !.chg = chg]
           s == Program(op)
<1>1. s \in Seq(Steps)
  BY TypeProgram DEF Path
<1>2. a = [Idle EXCEPT !.op = op, !.todo = s, !.chg = chg]
  OBVIOUS
<1>3. Idle \in ActType /\ Idle.base = {} /\ Idle.reg = None /\ Idle.sys = None
  BY IdleTyped DEF Idle
<1> HIDE DEF s
<1>c. chg \in {None} \cup UNION {Requests(o) : o \in Ops}
  OBVIOUS
<1>4. a \in ActType /\ a.op = op /\ a.todo = s /\ a.chg = chg /\ a.base = {} /\ a.reg = None /\ a.sys = None
  BY <1>1, <1>2, <1>3, <1>c DEF ActType
<1>5. act' = [act EXCEPT ![p] = a] /\ act[p].op = "idle" /\ mixed' = Overlap(p, op)
      /\ UNCHANGED file /\ UNCHANGED locked /\ UNCHANGED mem /\ UNCHANGED gen
      /\ UNCHANGED crashes /\ UNCHANGED ok
  BY DEF Enter
<1> HIDE DEF a
<1> QED
  BY <1>4, <1>5 DEF Others, s

(* The beginning of an operation keeps the invariant. *)
LEMMA TypeEnter ==
    ASSUME TypeInv, NEW p \in Procs, NEW op \in Ops, NEW chg, Enter(p, op, chg),
           IF op \in Told THEN chg \in Requests(op) ELSE chg = None,
           ops < MaxOps, ops' = ops + 1
    PROVE  TypeInv'
<1>1. act \in [Procs -> ActType] /\ chg \in Requests(op) \cup {None}
  BY DEF TypeInv, Types, ActTypes
<1>2. /\ act[p].op = "idle" /\ act' \in [Procs -> ActType] /\ Others(p)
      /\ act'[p].op = op /\ act'[p].todo = Program(op) /\ act'[p].chg = chg
      /\ act'[p].base = {} /\ mixed' = Overlap(p, op)
      /\ UNCHANGED file /\ UNCHANGED locked /\ UNCHANGED mem /\ UNCHANGED gen
      /\ UNCHANGED crashes /\ UNCHANGED ok
  BY <1>1, EnterEffect
<1>3. ActTypes'
  <2>1. ASSUME NEW q \in Procs
        PROVE  act'[q].chg \in Requests(act'[q].op) \cup {None} /\ act'[q].base \in BaseType(act'[q].op)
    <3>1. CASE q = p
      BY <1>1, <1>2, <3>1 DEF BaseType
    <3>2. CASE q # p
      BY <1>2, <3>2 DEF Others, TypeInv, Types, ActTypes
    <3> QED
      BY <3>1, <3>2
  <2> QED
    BY <1>2, <2>1 DEF ActTypes
<1>4. TypeWalk(p)'
  <2>1. PICK l, e \in Label : l.now = Start(op) /\ e.now \subseteq e.then /\ Path(TypeRules(op), Program(op), l, e)
    BY TypeProgram
  <2>2. KnowsTypes(act'[p], l.now)
    BY <1>2, <2>1 DEF KnowsTypes, Start
  <2>3. op # "idle"
    BY DEF Ops, PermOps
  <2>4. \E l1, e1 \in Label :
            /\ KnowsTypes(act'[p], l1.now) /\ e1.now \subseteq e1.then
            /\ Path(TypeRules(act'[p].op), act'[p].todo, l1, e1)
    BY <1>2, <2>1, <2>2
  <2> QED
    BY <1>2, <2>3, <2>4 DEF TypeWalk
<1>5. \A q \in Procs : TypeWalk(q)'
  BY <1>2, <1>4, TypeOthers
<1>6. mixed' \in [Stores -> BOOLEAN]
  BY <1>2 DEF Overlap, TypeInv, Types
<1> QED
  BY <1>2, <1>3, <1>5, <1>6, TypeCounted

(* Which operations begin, and with what. *)
LEMMA BeginEffect ==
    ASSUME NEW p \in Procs, Boot(p) \/ Begin(p)
    PROVE  /\ ops < MaxOps /\ ops' = ops + 1 /\ Settled
           /\ \E op \in Ops : \E chg :
                /\ IF op \in Told THEN chg \in Requests(op) ELSE chg = None
                /\ Enter(p, op, chg)
                /\ IF op = "boot" THEN ~mem[p].booted ELSE mem[p].booted
<1> DEFINE Enters(op, chg) ==
                /\ op \in Ops
                /\ IF op \in Told THEN chg \in Requests(op) ELSE chg = None
                /\ Enter(p, op, chg)
                /\ IF op = "boot" THEN ~mem[p].booted ELSE mem[p].booted
<1>0. ops < MaxOps /\ ops' = ops + 1 /\ Settled
  BY Zenon DEF Boot, Begin
<1>1. CASE Boot(p)
  <2>1. Enters("boot", None)
    BY <1>1 DEF Boot, Ops, Told
  <2> QED
    BY <1>0, <2>1
<1>2. CASE Begin(p)
  <2>b. mem[p].booted
    BY Zenon, <1>2 DEF Begin
  <2>1. ASSUME NEW op \in {"readPerm", "readBoost", "editBoost", "editPerm", "calibrate",
                     "discover", "ps"}, Enter(p, op, None)
        PROVE  Enters(op, None)
    BY <2>1, <2>b DEF Ops, PermOps, Told
  <2>2. ASSUME Enter(p, "applyBooster", None)
        PROVE  Enters("applyBooster", None)
    BY <2>2, <2>b DEF Ops, Told
  <2>3. ASSUME Enter(p, "resetBoost", <<"boost", "reset", "">>)
        PROVE  Enters("resetBoost", <<"boost", "reset", "">>)
    BY Zenon, <2>3, <2>b DEF Ops, Told, Requests
  <2>4. ASSUME Enter(p, "putBoost", <<"boost", "all", BoosterDefault>>)
        PROVE  Enters("putBoost", <<"boost", "all", BoosterDefault>>)
    BY <2>4, <2>b DEF Ops, Told, Requests
  <2>5. ASSUME NEW chg \in Changes, chg[1] = "perm", Enter(p, "setPerm", chg)
        PROVE  Enters("setPerm", chg)
    BY <2>5, <2>b DEF Ops, PermOps, Told, Requests
  <2>6. ASSUME NEW chg \in Changes, chg[1] # "perm", Enter(p, "setBoost", chg)
        PROVE  Enters("setBoost", chg)
    <3>1. chg[1] = "boost"
      BY <2>6, SetTyped
    <3> QED
      BY <2>6, <2>b, <3>1 DEF Ops, Told, Requests
  <2>7. ASSUME NEW chg \in Changes, chg[1] = "boost", Enter(p, "updateField", chg)
        PROVE  Enters("updateField", chg)
    BY <2>7, <2>b DEF Ops, Told, Requests
  <2>8. ASSUME NEW e \in Engines, Enter(p, "request", <<"engine", e, "">>)
        PROVE  Enters("request", <<"engine", e, "">>)
    BY Zenon, <2>8, <2>b DEF Ops, Told, Requests
  <2>9. ASSUME NEW e \in Engines, Enter(p, "release", <<"engine", e, "">>)
        PROVE  Enters("release", <<"engine", e, "">>)
    BY Zenon, <2>9, <2>b DEF Ops, Told, Requests
  <2> HIDE DEF Enters
  <2>10. \E op, chg : Enters(op, chg)
    <3>1. \/ \E op \in {"readPerm", "readBoost", "editBoost", "editPerm", "calibrate",
                     "discover", "ps"} : Enter(p, op, None)
          \/ Enter(p, "applyBooster", None)
          \/ Enter(p, "resetBoost", <<"boost", "reset", "">>)
          \/ Enter(p, "putBoost", <<"boost", "all", BoosterDefault>>)
          \/ \E chg \in Changes :
                \/ Enter(p, IF chg[1] = "perm" THEN "setPerm" ELSE "setBoost", chg)
                \/ chg[1] = "boost" /\ Enter(p, "updateField", chg)
          \/ \E e \in Engines :
                \/ Enter(p, "request", <<"engine", e, "">>)
                \/ Enter(p, "release", <<"engine", e, "">>)
      BY <1>2, Zenon DEF Begin
    <3>2. ASSUME NEW chg \in Changes, Enter(p, IF chg[1] = "perm" THEN "setPerm" ELSE "setBoost", chg)
          PROVE  (Enter(p, "setPerm", chg) /\ chg[1] = "perm") \/ (Enter(p, "setBoost", chg) /\ chg[1] # "perm")
      <4> DEFINE o == IF chg[1] = "perm" THEN "setPerm" ELSE "setBoost"
      <4>2. Enter(p, o, chg)
        BY <3>2
      <4>3. CASE chg[1] = "perm"
        <5>1. o = "setPerm"
          BY <4>3, Zenon
        <5> HIDE DEF o
        <5>2. Enter(p, "setPerm", chg)
          BY <4>2, <5>1, Zenon
        <5> QED
          BY <4>3, <5>2, Zenon
      <4>4. CASE chg[1] # "perm"
        <5>1. o = "setBoost"
          BY <4>4, Zenon
        <5> HIDE DEF o
        <5>2. Enter(p, "setBoost", chg)
          BY <4>2, <5>1, Zenon
        <5> QED
          BY <4>4, <5>2, Zenon
      <4> QED
        BY <4>3, <4>4, Zenon
    <3> QED
      BY <2>1, <2>2, <2>3, <2>4, <2>5, <2>6, <2>7, <2>8, <2>9, <3>1, <3>2, Zenon
  <2> QED
    BY <1>0, <2>10 DEF Enters
<1> QED
  BY <1>1, <1>2

(* A process that is done, or gone, is idle. *)
LEMMA TypeIdle ==
    ASSUME TypeInv, NEW p \in Procs, act' = [act EXCEPT ![p] = Idle]
    PROVE  ActTypes' /\ \A q \in Procs : TypeWalk(q)'
<1>1. act \in [Procs -> ActType]
  BY DEF TypeInv, Types, ActTypes
<1>2. act' \in [Procs -> ActType] /\ Others(p) /\ act'[p] = Idle
  BY <1>1, IdleEffect
<1>3. ActTypes'
  <2>1. ASSUME NEW q \in Procs
        PROVE  act'[q].chg \in Requests(act'[q].op) \cup {None} /\ act'[q].base \in BaseType(act'[q].op)
    <3>1. CASE q = p
      BY <1>2, <3>1, IdleTyped DEF BaseType
    <3>2. CASE q # p
      BY <1>2, <3>2 DEF Others, TypeInv, Types, ActTypes
    <3> QED
      BY <3>1, <3>2
  <2> QED
    BY <1>2, <2>1 DEF ActTypes
<1>4. TypeWalk(p)'
  BY <1>2, IdleTyped DEF TypeWalk
<1> QED
  BY <1>2, <1>3, <1>4, TypeOthers

(* A new arbiter is an arbiter. *)
LEMMA NewArbiterTyped ==
    /\ NewArbiter \in MemType /\ NewArbiter.alloc = 0 /\ NewArbiter.active = [e \in Engines |-> 0]
    /\ NewArbiter.held = FALSE /\ NewArbiter.booted = FALSE
<1>1. [e \in Engines |-> 0] \in [Engines -> Nat]
  OBVIOUS
<1> QED
  BY <1>1 DEF NewArbiter, MemType

(* The end of an operation keeps the invariant. *)
LEMMA TypeEnd ==
    ASSUME TypeInv, NEW p \in Procs, End(p) PROVE TypeInv'
<1>1. act' = [act EXCEPT ![p] = Idle] /\ mem' = [mem EXCEPT ![p].booted = TRUE]
      /\ UNCHANGED file /\ UNCHANGED locked /\ UNCHANGED history
  BY DEF End
<1>2. ActTypes' /\ \A q \in Procs : TypeWalk(q)'
  BY <1>1, TypeIdle
<1>3. mem' \in [Procs -> MemType]
  <2>1. mem \in [Procs -> MemType] /\ mem[p] \in MemType
    BY DEF TypeInv, Types
  <2> DEFINE m0 == [mem[p] EXCEPT !.booted = TRUE]
  <2>2. m0 \in MemType
    BY <2>1 DEF MemType
  <2>3. mem' = [mem EXCEPT ![p] = m0]
    BY <1>1, <2>1
  <2> HIDE DEF m0
  <2> QED
    BY <2>1, <2>2, <2>3
<1>4. UNCHANGED gen /\ UNCHANGED crashes /\ UNCHANGED ok /\ UNCHANGED mixed /\ UNCHANGED ops
  BY <1>1 DEF history
<1> QED
  BY <1>1, <1>2, <1>3, <1>4 DEF TypeInv, Types, FileTypes, OkTypes, CountTypes

(* A crash keeps the invariant. *)
LEMMA TypeCrash ==
    ASSUME TypeInv, NEW p \in Procs, Crash(p) PROVE TypeInv'
<1>1. /\ act' = [act EXCEPT ![p] = Idle] /\ mem' = [mem EXCEPT ![p] = NewArbiter]
      /\ crashes < MaxCrashes /\ crashes' = crashes + 1 /\ gen' = [gen EXCEPT ![p] = gen[p] + 1]
      /\ UNCHANGED file /\ UNCHANGED locked /\ UNCHANGED mixed /\ UNCHANGED ops
      /\ ok' = [s \in Settings \cup {"sys"} |->
                  ok[s] \cup IF s \in Settings \cap Touches(act[p].op) THEN {Default(s)} ELSE {}]
  BY DEF Crash
<1>2. ActTypes' /\ \A q \in Procs : TypeWalk(q)'
  BY <1>1, TypeIdle
<1>3. mem' \in [Procs -> MemType]
  BY <1>1, NewArbiterTyped DEF TypeInv, Types
<1>4. CountTypes'
  <2>1. /\ gen \in [Procs -> Nat] /\ crashes \in 0..MaxCrashes /\ ops \in 0..MaxOps
        /\ (\A q \in Procs : gen[q] <= crashes) /\ MaxCrashes \in Nat
    BY GovernorAssumption DEF TypeInv, Types, CountTypes
  <2>2. crashes' \in 0..MaxCrashes
    BY <1>1, <2>1
  <2>3. \A q \in Procs : gen'[q] \in Nat /\ gen'[q] <= crashes'
    <3> SUFFICES ASSUME NEW q \in Procs PROVE gen'[q] \in Nat /\ gen'[q] <= crashes'
      OBVIOUS
    <3>1. gen'[q] = IF q = p THEN gen[p] + 1 ELSE gen[q]
      BY <1>1, <2>1
    <3>2. gen[q] \in Nat /\ gen[p] \in Nat /\ gen[q] <= crashes /\ gen[p] <= crashes /\ crashes \in Nat
      BY <2>1
    <3> QED
      BY <1>1, <3>1, <3>2
  <2>4. gen' \in [Procs -> Nat]
    BY <1>1, <2>1, <2>3
  <2> QED
    BY <1>1, <2>1, <2>2, <2>3, <2>4 DEF CountTypes
<1>5. OkTypes'
  <2> DEFINE all == BoosterControl \cup PermControl \cup Silicon \cup {Absent}
             new(s) == ok[s] \cup IF s \in Settings \cap Touches(act[p].op) THEN {Default(s)} ELSE {}
  <2>1. /\ ok \in [Settings \cup {"sys"} -> SUBSET all]
        /\ ok["boost"] \subseteq BoosterControl /\ ok["perm"] \subseteq PermControl
    BY DEF TypeInv, Types, OkTypes
  <2>2. Default("boost") \in BoosterControl /\ Default("perm") \in PermControl
    BY DefaultsTyped DEF Default
  <2>3. new("boost") \subseteq BoosterControl /\ new("perm") \subseteq PermControl
    BY <2>1, <2>2
  <2>4. \A s \in Settings \cup {"sys"} : new(s) \in SUBSET all
    BY <2>1, <2>3 DEF Settings
  <2>5. ok' = [s \in Settings \cup {"sys"} |-> new(s)]
    BY <1>1
  <2> HIDE DEF all, new
  <2>6. ok' \in [Settings \cup {"sys"} -> SUBSET all]
    BY <2>4, <2>5
  <2>7. ok'["boost"] = new("boost") /\ ok'["perm"] = new("perm")
    BY <2>5 DEF Settings
  <2> QED
    BY <2>3, <2>6, <2>7 DEF OkTypes, all
<1> QED
  BY <1>1, <1>2, <1>3, <1>4, <1>5 DEF TypeInv, Types, FileTypes

-----------------------------------------------------------------------------
(* At first *)

(* The window of the model that is loaded at first is a number. *)
LEMMA LoadedTyped ==
    /\ Loaded \in MemType /\ Loaded.alloc = 0 /\ Loaded.active = [e \in Engines |-> 0]
    /\ Loaded.held = FALSE /\ Loaded.booted = TRUE
<1> DEFINE ctx == Envelope(Optimal("probed"), Vram, 0, Truth)
<1>1. ctx \in Int
  BY EnvelopeTyped, DefaultsTyped, TruthTyped, BoosterAssumption
<1>2. Loaded = [NewArbiter EXCEPT !.total = Vram, !.booted = TRUE, !.dna = ctx, !.ctx = ctx]
  BY DEF Loaded
<1> HIDE DEF ctx
<1> QED
  BY <1>1, <1>2, NewArbiterTyped DEF MemType

(* Before the first start, and after a reset of the booster. *)
LEMMA FileInit ==
    ASSUME Init
    PROVE  /\ FileTypes
           /\ ok["sys"] = {file[<<"sys", "bin">>]} /\ file[<<"sys", "bin">>] \in {"probed", Absent}
           /\ file[<<"sys", "json">>] \in {"probed", Absent}
           /\ file[<<"reg", "json">>] = Absent
           /\ file[<<"boost", "bin">>] = file[<<"boost", "json">>]
           /\ file[<<"boost", "json">>] \in {Absent, Optimal("probed")}
           /\ file[<<"perm", "json">>] = Absent
           /\ Whole(<<"boost", "json">>) <=> file[<<"boost", "json">>] # Absent
<1> DEFINE K == {<<"sys", "bin">>, <<"sys", "json">>, <<"reg", "json">>, <<"boost", "bin">>,
                 <<"boost", "json">>, <<"perm", "json">>}
<1>0. K \subseteq Files
  BY DEF Files, Settings
<1>1. ok["sys"] = {file[<<"sys", "bin">>]}
  BY Zenon DEF Init
<1>2. FileTypes /\ file[<<"sys", "bin">>] \in {"probed", Absent}
      /\ file[<<"sys", "json">>] \in {"probed", Absent}
      /\ file[<<"reg", "json">>] = Absent
      /\ file[<<"boost", "bin">>] = file[<<"boost", "json">>]
      /\ file[<<"boost", "json">>] \in {Absent, Optimal("probed")}
      /\ file[<<"perm", "json">>] = Absent
  <2>1. CASE FirstStart
    <3>1. file = [f \in Files |-> Absent]
      BY <2>1 DEF FirstStart
    <3>2. \A f \in Files : file[f] = Absent /\ f[1] \in Stores
      BY <3>1 DEF Files, Settings, Stores
    <3>3. FileTypes
      BY <3>1, <3>2, AbsentTyped DEF FileTypes, Stores
    <3> QED
      BY <1>0, <3>2, <3>3
  <2>2. CASE Running
    <3>1. PICK truth \in Found :
            file = [f \in Files |->
                CASE f[1] = "boost" -> Optimal("probed")
                  [] f \in {<<"sys", "json">>, <<"sys", "bin">>} -> truth[f[2]]
                  [] OTHER -> Absent]
      BY <2>2, Zenon DEF Running
    <3> DEFINE best == Optimal("probed")
    <3>2. best \in BoosterControl
      BY DefaultsTyped
    <3>3. truth["json"] \in {"probed", Absent} /\ truth["bin"] \in {"probed", Absent}
      BY GovernorAssumption
    <3>4. ASSUME NEW f \in Files
          PROVE  file[f] = CASE f[1] = "boost" -> best
                  [] f \in {<<"sys", "json">>, <<"sys", "bin">>} -> truth[f[2]]
                  [] OTHER -> Absent
      BY <3>1, Zenon
    <3> HIDE DEF best
    <3>5. file[<<"boost", "json">>] = best /\ file[<<"boost", "bin">>] = best
      BY <1>0, <3>4
    <3>6. file[<<"sys", "json">>] = truth["json"] /\ file[<<"sys", "bin">>] = truth["bin"]
      BY <1>0, <3>4
    <3>7. file[<<"reg", "json">>] = Absent /\ file[<<"perm", "json">>] = Absent
      BY <1>0, <3>4
    <3>8. ASSUME NEW f \in Files PROVE file[f] \in FileType(f[1]) /\ f[1] \in Stores
      <4>1. f[1] \in Stores
        BY DEF Files, Settings, Stores
      <4>2. CASE f[1] = "boost"
        BY <3>2, <3>4, <4>1, <4>2 DEF FileType
      <4>3. CASE f \in {<<"sys", "json">>, <<"sys", "bin">>}
        BY <3>3, <3>6, <4>1, <4>3 DEF FileType, Silicon
      <4>4. CASE f[1] # "boost" /\ f \notin {<<"sys", "json">>, <<"sys", "bin">>}
        BY <3>4, <4>1, <4>4, AbsentTyped
      <4> QED
        BY <4>2, <4>3, <4>4
    <3>9. FileTypes
      <4>1. file = [f \in Files |-> file[f]]
        BY <3>1
      <4> QED
        BY <3>8, <4>1 DEF FileTypes
    <3> QED
      BY <3>3, <3>5, <3>6, <3>7, <3>9 DEF best
  <2> QED
    BY <2>1, <2>2 DEF Init
<1>3. Whole(<<"boost", "json">>) <=> file[<<"boost", "json">>] # Absent
  <2>1. Optimal("probed") # Torn /\ Absent # Torn
    BY DefaultsTyped, GovernorAssumption
  <2> HIDE DEF K
  <2> QED
    BY <1>2, <2>1 DEF Whole
<1> QED
  BY <1>1, <1>2, <1>3

(* Nobody holds anything of an arbiter, and nobody the lock. *)
LEMMA MemInit ==
    ASSUME Init
    PROVE  /\ mem \in [Procs -> MemType]
           /\ \A p \in Procs : mem[p].alloc = 0 /\ mem[p].active = [e \in Engines |-> 0]
                               /\ mem[p].held = FALSE
           /\ FirstStart => \A p \in Procs : mem[p].booted = FALSE
<1> DEFINE fresh == [NewArbiter EXCEPT !.booted = TRUE]
<1>1. fresh \in MemType /\ fresh.alloc = 0 /\ fresh.active = [e \in Engines |-> 0] /\ fresh.held = FALSE
  BY NewArbiterTyped DEF MemType
<1> HIDE DEF fresh
<1>2. CASE FirstStart
  BY <1>2, NewArbiterTyped DEF FirstStart
<1>3. CASE Running /\ ~FirstStart
  <2>1. PICK q : mem = [p \in Procs |-> IF p = q THEN Loaded ELSE fresh]
    BY <1>3 DEF Running, fresh
  <2> QED
    BY <1>1, <1>3, <2>1, LoadedTyped
<1> QED
  BY <1>2, <1>3 DEF Init

(* What the settings may be at first. *)
LEMMA OkInit ==
    ASSUME Init
    PROVE  OkTypes /\ ok["perm"] = {PermDefault}
           /\ ok["boost"] = {IF Whole(<<"boost", "json">>) THEN file[<<"boost", "json">>] ELSE BoosterDefault}
<1>1. ok = [s \in Settings \cup {"sys"} |->
                IF s = "sys" THEN {file[<<s, "bin">>]}
                ELSE IF Whole(<<s, "json">>) THEN {file[<<s, "json">>]}
                ELSE {Default(s)}]
  BY Zenon DEF Init
<1>2. "perm" \in Settings \cup {"sys"} /\ "boost" \in Settings \cup {"sys"} /\ "sys" \in Settings \cup {"sys"}
      /\ \A s \in Settings \cup {"sys"} : s \in {"perm", "boost", "sys"}
  BY DEF Settings
<1>3. ~Whole(<<"perm", "json">>)
  BY FileInit DEF Whole
<1>4. ok["perm"] = {PermDefault}
  BY <1>1, <1>2, <1>3 DEF Default
<1>5. ok["boost"] = {IF Whole(<<"boost", "json">>) THEN file[<<"boost", "json">>] ELSE BoosterDefault}
  BY <1>1, <1>2 DEF Default
<1>6. PermDefault \in PermControl /\ BoosterDefault \in BoosterControl /\ Optimal("probed") \in BoosterControl
  BY DefaultsTyped
<1>7. ok["perm"] \subseteq PermControl /\ ok["boost"] \subseteq BoosterControl
      /\ ok["sys"] \subseteq Silicon \cup {Absent}
  <2>1. Whole(<<"boost", "json">>) => file[<<"boost", "json">>] = Optimal("probed")
    BY FileInit
  <2>2. ok["sys"] \subseteq Silicon \cup {Absent}
    BY FileInit DEF Silicon
  <2> QED
    BY <1>4, <1>5, <1>6, <2>1, <2>2
<1>8. ok \in [Settings \cup {"sys"} -> SUBSET (BoosterControl \cup PermControl \cup Silicon \cup {Absent})]
  <2>1. \A s \in Settings \cup {"sys"} : ok[s] \subseteq BoosterControl \cup PermControl \cup Silicon \cup {Absent}
    BY <1>2, <1>7
  <2>2. ok = [s \in Settings \cup {"sys"} |-> ok[s]]
    BY <1>1, Zenon
  <2> QED
    BY <2>1, <2>2
<1> QED
  BY <1>4, <1>5, <1>7, <1>8 DEF OkTypes

(* At first nothing is to be done. *)
LEMMA TypeInit ==
    ASSUME Init PROVE TypeInv
<1>1. FileTypes /\ OkTypes /\ mem \in [Procs -> MemType]
  BY FileInit, OkInit, MemInit
<1>2. act \in [Procs -> ActType] /\ \A p \in Procs : act[p] = Idle
  BY IdleTyped DEF Init
<1>3. ActTypes /\ \A p \in Procs : TypeWalk(p)
  BY <1>2, IdleTyped DEF ActTypes, TypeWalk, BaseType
<1>4. CountTypes
  BY GovernorAssumption DEF Init, CountTypes
<1>5. locked \subseteq {<<"sys", "json">>, <<"sys", "bin">>} /\ mixed \in [Stores -> BOOLEAN]
  BY DEF Init
<1> QED
  BY <1>1, <1>3, <1>4, <1>5 DEF TypeInv, Types

-----------------------------------------------------------------------------
(* Every step keeps the types and the paths. *)
LEMMA TypeNext ==
    ASSUME TypeInv, [Next]_vars PROVE TypeInv'
<1>1. ASSUME NEW p \in Procs, Step(p)
      PROVE  TypeInv'
  BY <1>1, TypeOpen, TypeFill, TypeRename, TypeRemove, TypeSetFileLock, TypeLoadPerm, TypeLoadBoost,
     TypeLoadSysStep, TypeLoadRegistry, TypeProbe, TypeChange, TypeSaved, TypeLock, TypeSync,
     TypeAllocate, TypeFree, TypeFit, TypeRegistry, TypeEnd, Zenon DEF Step
<1>2. ASSUME NEW p \in Procs, Boot(p) \/ Begin(p)
      PROVE  TypeInv'
  BY <1>2, BeginEffect, TypeEnter
<1>3. CASE UNCHANGED vars
  <2>1. UNCHANGED file /\ UNCHANGED locked /\ UNCHANGED act /\ UNCHANGED mem /\ UNCHANGED gen
        /\ UNCHANGED crashes /\ UNCHANGED ok /\ UNCHANGED mixed /\ UNCHANGED ops
    BY <1>3 DEF vars
  <2> QED
    BY <2>1 DEF TypeInv, Types, FileTypes, OkTypes, ActTypes, CountTypes, TypeWalk
<1> QED
  BY <1>1, <1>2, <1>3, TypeEdit, TypeEditPermission, TypeCrash, Zenon DEF Next

(* The types, and a path before every process. *)
LEMMA TypesKept == Spec => []TypeInv
<1>1. Init => TypeInv
  BY TypeInit
<1>2. TypeInv /\ [Next]_vars => TypeInv'
  BY TypeNext
<1> QED
  BY <1>1, <1>2, PTL DEF Spec

(* The arbiter knows no card or the card, not a sum of probes, and the     *)
(* settings have the types of their fields, in every file and process,     *)
(* whatever interleaves and crashes.                                       *)
THEOREM GovernorTypesHold == Spec => []GovTypeOK
<1>1. TypeInv => GovTypeOK
  <2> SUFFICES ASSUME TypeInv PROVE GovTypeOK
    OBVIOUS
  <2>1. locked \subseteq Files
    BY DEF TypeInv, Types, Files
  <2>2. \A p \in Procs : mem[p].total \in {0, Vram} /\ mem[p].held \in BOOLEAN
    BY DEF TypeInv, Types, MemType
  <2>3. \A p \in Procs : act[p].boost \in BoosterControl \cup {None}
    BY DEF TypeInv, Types, ActTypes, ActType
  <2>4. \A f \in Files : f[1] = "boost" => file[f] \in BoosterControl \cup {Absent, Torn}
    <3> SUFFICES ASSUME NEW f \in Files, f[1] = "boost"
                 PROVE  file[f] \in BoosterControl \cup {Absent, Torn}
      OBVIOUS
    <3>1. file[f] \in FileType("boost")
      BY DEF TypeInv, Types, FileTypes
    <3> QED
      BY <3>1 DEF FileType
  <2>5. ok["boost"] \subseteq BoosterControl /\ ops \in 0..MaxOps
    BY DEF TypeInv, Types, OkTypes, CountTypes
  <2> QED
    BY <2>1, <2>2, <2>3, <2>4, <2>5 DEF GovTypeOK
<1> QED
  BY <1>1, TypesKept, PTL

-----------------------------------------------------------------------------
(* What the arbiter counts *)

(* An arbiter that granted nothing. *)
LEMMA NothingTaken ==
    ASSUME NEW m, m.active = [e \in Engines |-> 0] PROVE Taken(m, Engines) = 0
<1>1. UNION {{e} \X (1..m.active[e]) : e \in Engines} = {}
  <2>1. \A e \in Engines : m.active[e] = 0 /\ {e} \X (1..m.active[e]) = {}
    OBVIOUS
  <2> QED
    BY <2>1
<1> QED
  BY <1>1, FS_EmptySet DEF Taken

(* What the arbiters of the others count is not changed by a step of p. *)
LEMMA CountsKept ==
    ASSUME NeverUndercounts, NEW p \in Procs, TypeInv,
           \A q \in Procs \ {p} : mem'[q] = mem[q],
           mem'[p].alloc >= Taken(mem'[p], Engines)
    PROVE  NeverUndercounts'
  BY DEF NeverUndercounts, Taken

(* An arbiter with the same grants and the same load. *)
LEMMA CountsSame ==
    ASSUME NeverUndercounts, NEW p \in Procs, TypeInv, NEW m0,
           m0.alloc = mem[p].alloc, m0.active = mem[p].active,
           mem' = [mem EXCEPT ![p] = m0]
    PROVE  NeverUndercounts'
<1>1. (\A q \in Procs \ {p} : mem'[q] = mem[q]) /\ mem'[p] = m0
  BY DEF TypeInv, Types
<1>2. m0.alloc >= Taken(m0, Engines)
  BY DEF NeverUndercounts, Taken
<1> QED
  BY <1>1, <1>2, CountsKept

(* A grant replaces the entry of the engine and adds to the load, so the   *)
(* load may only be too high.                                              *)
LEMMA CountsAllocate ==
    ASSUME NeverUndercounts, TypeInv, NEW p \in Procs, Allocate(p) PROVE NeverUndercounts'
<1> DEFINE e == act[p].chg[2]
<1>1. /\ e \in Engines /\ Demand[e] \in Nat
      /\ \/ Arbiter(p, mem[p], <<>>)
         \/ \E m0 \in MemType :
               /\ m0.alloc = mem[p].alloc + Demand[e]
               /\ m0.active = [mem[p].active EXCEPT ![e] = Demand[e]]
               /\ Arbiter(p, m0, <<Do("loadReg"), Do("regAdd")>>)
  BY AllocateEffect
<1>2. CASE Arbiter(p, mem[p], <<>>)
  BY <1>2, CountsSame DEF Arbiter
<1>3. ASSUME NEW m0 \in MemType,
             m0.alloc = mem[p].alloc + Demand[e],
             m0.active = [mem[p].active EXCEPT ![e] = Demand[e]],
             Arbiter(p, m0, <<Do("loadReg"), Do("regAdd")>>)
      PROVE  NeverUndercounts'
  <2> HIDE DEF e
  <2>0. mem \in [Procs -> MemType] /\ mem[p] \in MemType /\ mem[p].active \in [Engines -> Nat] /\ mem[p].alloc \in Int
    BY DEF TypeInv, Types, MemType
  <2> DEFINE n == mem[p].active
             old == Taken(mem[p], Engines)
             new == Taken(m0, Engines)
             k == n[e]
             d == Demand[e]
  <2>1. new + k = old + d /\ new \in Nat /\ old \in Nat
    <3>1. new = Cardinality(Grants(m0.active, Engines)) /\ old = Cardinality(Grants(n, Engines))
          /\ new \in Nat /\ old \in Nat
      BY <1>3, <2>0, TakenIs
    <3>2. Cardinality(Grants([n EXCEPT ![e] = d], Engines)) + n[e] = Cardinality(Grants(n, Engines)) + d
      BY <1>1, <2>0, GrantsOthers
    <3> QED
      BY <1>3, <3>1, <3>2
  <2>2. k \in Nat /\ mem[p].alloc >= old /\ d \in Nat
    BY <1>1, <2>0 DEF NeverUndercounts
  <2> HIDE DEF old, new, k, d
  <2>3. mem[p].alloc + d >= new
    BY <2>0, <2>1, <2>2
  <2>4. mem' = [mem EXCEPT ![p] = m0]
    BY <1>3 DEF Arbiter
  <2>5. (\A q \in Procs \ {p} : mem'[q] = mem[q]) /\ mem'[p] = m0
    BY <2>0, <2>4
  <2>6. m0.alloc >= Taken(m0, Engines)
    BY <1>3, <2>3 DEF new, d
  <2> QED
    BY <2>5, <2>6, CountsKept
<1> QED
  BY <1>1, <1>2, <1>3

(* A return takes from the load what the engine's entry says. *)
LEMMA CountsFree ==
    ASSUME NeverUndercounts, TypeInv, NEW p \in Procs, Free(p) PROVE NeverUndercounts'
<1> DEFINE e == act[p].chg[2]
<1>1. e \in Engines
  BY FreeEffect
<1>2. PICK m0 \in MemType :
               /\ m0.alloc = mem[p].alloc - mem[p].active[e]
               /\ m0.active = [mem[p].active EXCEPT ![e] = 0]
               /\ Arbiter(p, m0, <<>>)
  BY FreeEffect
<1> HIDE DEF e
<1>3. mem \in [Procs -> MemType] /\ mem[p] \in MemType /\ mem[p].active \in [Engines -> Nat] /\ mem[p].alloc \in Int
  BY DEF TypeInv, Types, MemType
<1> DEFINE n == mem[p].active
           old == Taken(mem[p], Engines)
           new == Taken(m0, Engines)
           k == n[e]
<1>4. new + k = old + 0 /\ new \in Nat /\ old \in Nat
  <2>1. new = Cardinality(Grants(m0.active, Engines)) /\ old = Cardinality(Grants(n, Engines))
        /\ new \in Nat /\ old \in Nat
    BY <1>2, <1>3, TakenIs
  <2>2. Cardinality(Grants([n EXCEPT ![e] = 0], Engines)) + n[e] = Cardinality(Grants(n, Engines)) + 0
    BY <1>1, <1>3, GrantsOthers
  <2> QED
    BY <1>2, <2>1, <2>2
<1>5. k \in Nat /\ mem[p].alloc >= old
  BY <1>1, <1>3 DEF NeverUndercounts
<1>6. m0.alloc >= new
  <2>1. m0.alloc = mem[p].alloc - k
    BY <1>2
  <2> HIDE DEF old, new, k
  <2> QED
    BY <1>3, <1>4, <1>5, <2>1
<1>7. (\A q \in Procs \ {p} : mem'[q] = mem[q]) /\ mem'[p] = m0
  BY <1>2, <1>3 DEF Arbiter
<1> QED
  BY <1>6, <1>7, CountsKept

(* A step that is no grant, return or crash leaves grants and load. *)
LEMMA CountsQuiet ==
    ASSUME NeverUndercounts, TypeInv, NEW p \in Procs,
           Lock(p) \/ Sync(p) \/ Fit(p) \/ End(p)
    PROVE  NeverUndercounts'
<1>1. mem \in [Procs -> MemType] /\ mem[p] \in MemType
  BY DEF TypeInv, Types
<1>2. \E m0 : m0.alloc = mem[p].alloc /\ m0.active = mem[p].active /\ mem' = [mem EXCEPT ![p] = m0]
  <2> DEFINE Keeps(m0) == m0.alloc = mem[p].alloc /\ m0.active = mem[p].active
  <2>1. ASSUME NEW x PROVE Keeps([mem[p] EXCEPT !.held = x]) /\ Keeps([mem[p] EXCEPT !.total = x])
                           /\ Keeps([mem[p] EXCEPT !.dna = x]) /\ Keeps([mem[p] EXCEPT !.booted = x])
    BY <1>1 DEF MemType
  <2>2. ASSUME NEW x, NEW y PROVE Keeps([mem[p] EXCEPT !.ctx = x, !.dna = y])
    BY <1>1 DEF MemType
  <2>3. Keeps(mem[p])
    OBVIOUS
  <2> DEFINE Sets(m0) == mem' = [mem EXCEPT ![p] = m0]
  <2>a. \A m0, more : Arbiter(p, m0, more) => Sets(m0)
    BY DEF Arbiter
  <2> SUFFICES \E m0 : Keeps(m0) /\ Sets(m0)
    OBVIOUS
  <2> DEFINE Held(x) == [mem[p] EXCEPT !.held = x]
             Total(x) == [mem[p] EXCEPT !.total = x]
             Window(x, y) == [mem[p] EXCEPT !.ctx = x, !.dna = y]
             Forgot(x) == [mem[p] EXCEPT !.dna = x]
             Booted(x) == [mem[p] EXCEPT !.booted = x]
  <2>4. CASE Lock(p)
    <3>1. \E x : Sets(Held(x))
      BY <2>4, <2>a DEF Lock
    <3> HIDE DEF Sets, Held
    <3> QED
      BY <2>1, <3>1 DEF Held
  <2>5. CASE Sync(p)
    <3>1. Sets(mem[p]) \/ \E x : Sets(Total(x))
      <4>1. CASE At(p, "total") /\ Arbiter(p, [mem[p] EXCEPT !.total =
                        IF act[p].sys = None THEN @ ELSE VramOf(act[p].sys)], <<>>)
        <5> DEFINE t == IF act[p].sys = None THEN mem[p].total ELSE VramOf(act[p].sys)
        <5>1. Arbiter(p, Total(t), <<>>)
          BY <4>1
        <5> HIDE DEF t, Total
        <5>2. Sets(Total(t))
          BY <5>1, <2>a, Zenon
        <5> HIDE DEF Sets
        <5> QED
          BY <5>2
      <4>2. CASE \E more : Arbiter(p, mem[p], more)
        BY <4>2, <2>a, Zenon
      <4> QED
        BY <2>5, <4>1, <4>2, Zenon DEF Sync
    <3> HIDE DEF Sets, Total
    <3> QED
      BY <2>1, <2>3, <3>1 DEF Total
  <2>6. CASE Fit(p)
    <3>1. (\E x, y : Sets(Window(x, y))) \/ \E x : Sets(Forgot(x))
      <4> DEFINE m == mem[p]
                 others == Taken(m, Engines \ {"llama", "onnx", "whisper"})
                 ctx == Envelope(act[p].boost, m.total, others, IF m.dna = None THEN Truth ELSE m.dna)
                 dna == IF m.dna = None THEN ctx ELSE m.dna
      <4>1. \/ Arbiter(p, [m EXCEPT !.ctx = ctx, !.dna = IF @ = None THEN ctx ELSE @], <<>>)
            \/ Arbiter(p, [m EXCEPT !.dna = None], <<>>)
        BY <2>6, Zenon DEF Fit
      <4> HIDE DEF others, ctx
      <4>2. [m EXCEPT !.ctx = ctx, !.dna = IF @ = None THEN ctx ELSE @] = Window(ctx, dna)
        BY <1>1 DEF MemType
      <4>3. Sets(Window(ctx, dna)) \/ Sets(Forgot(None))
        <5> HIDE DEF Window, Sets
        <5> QED
          BY <2>a, <4>1, <4>2, Zenon DEF Forgot
      <4> HIDE DEF Sets, Window, Forgot
      <4> QED
        BY <4>3
    <3> HIDE DEF Sets, Window, Forgot
    <3> QED
      BY Zenon, <2>1, <2>2, <3>1 DEF Window, Forgot
  <2>7. CASE End(p)
    <3>1. Sets(Booted(TRUE))
      BY <2>7, <1>1 DEF End
    <3> HIDE DEF Sets
    <3> QED
      BY <2>1, <3>1
  <2> QED
    BY <2>4, <2>5, <2>6, <2>7
<1> QED
  BY <1>2, CountsSame

(* Steps that do not touch the arbiter. *)
LEMMA ArbiterLeft ==
    ASSUME NEW p \in Procs,
           \/ Open(p) \/ Fill(p) \/ Rename(p) \/ RemoveFile(p) \/ SetFileLock(p)
           \/ LoadPerm(p) \/ LoadBoost(p) \/ LoadSys(p) \/ LoadRegistry(p)
           \/ Probe(p) \/ Change(p) \/ Saved(p) \/ Registry(p)
           \/ Edit(p) \/ EditPermission(p) \/ Boot(p) \/ Begin(p)
    PROVE  UNCHANGED mem
<1>1. CASE Open(p) \/ Fill(p) \/ Rename(p) \/ RemoveFile(p) \/ SetFileLock(p)
  BY <1>1 DEF Open, Fill, Rename, RemoveFile, SetFileLock
<1>2. CASE LoadPerm(p) \/ LoadBoost(p) \/ LoadSys(p) \/ LoadRegistry(p)
  <2>1. \A a, more : Got(p, a, more) => UNCHANGED mem
    BY DEF Got
  <2>2. CASE LoadPerm(p) \/ LoadRegistry(p)
    BY <2>1, <2>2, Zenon DEF LoadPerm, LoadRegistry
  <2>3. CASE LoadBoost(p)
    BY <2>1, <2>3, Zenon DEF LoadBoost
  <2>4. CASE LoadSys(p)
    BY <2>1, <2>4, LoadSysEffect
  <2> QED
    BY <1>2, <2>2, <2>3, <2>4
<1>3. CASE Probe(p) \/ Registry(p)
  <2>1. \A a, more : Got(p, a, more) => UNCHANGED mem
    BY DEF Got
  <2>2. CASE Probe(p)
    BY <2>1, <2>2, Zenon DEF Probe
  <2>3. CASE Registry(p)
    BY <2>1, <2>3, Zenon DEF Registry
  <2> QED
    BY <1>3, <2>2, <2>3
<1>4. CASE Change(p) \/ Saved(p)
  BY Zenon, <1>4 DEF Change, Saved
<1>5. CASE Edit(p) \/ EditPermission(p)
  BY <1>5 DEF Edit, EditPermission, Got
<1>6. CASE Boot(p) \/ Begin(p)
  BY Zenon, <1>6, BeginEffect DEF Enter
<1> QED
  BY <1>1, <1>2, <1>3, <1>4, <1>5, <1>6

(* However engines request and return VRAM, twice, never requested or      *)
(* after another one, the arbiter does not promise memory that is taken.   *)
THEOREM NothingUndercounted == Spec => []NeverUndercounts
<1>1. Init => NeverUndercounts
  <2> SUFFICES ASSUME Init, NEW p \in Procs PROVE mem[p].alloc >= Taken(mem[p], Engines)
    BY DEF NeverUndercounts
  <2>1. mem[p].alloc = 0 /\ Taken(mem[p], Engines) = 0
    BY MemInit, NothingTaken
  <2> QED
    BY <2>1
<1>2. NeverUndercounts /\ TypeInv /\ [Next]_vars => NeverUndercounts'
  <2> SUFFICES ASSUME NeverUndercounts, TypeInv, [Next]_vars PROVE NeverUndercounts'
    OBVIOUS
  <2>1. CASE UNCHANGED mem
    BY <2>1 DEF NeverUndercounts, Taken
  <2>2. ASSUME NEW p \in Procs, Crash(p)
        PROVE  NeverUndercounts'
    <3>1. mem' = [mem EXCEPT ![p] = NewArbiter]
      BY <2>2 DEF Crash
    <3>2. (\A q \in Procs \ {p} : mem'[q] = mem[q]) /\ mem'[p] = NewArbiter
      BY <3>1 DEF TypeInv, Types
    <3>3. NewArbiter.alloc = 0 /\ Taken(NewArbiter, Engines) = 0
      BY NewArbiterTyped, NothingTaken
    <3> QED
      BY <3>2, <3>3, CountsKept
  <2>3. CASE UNCHANGED vars
    BY <2>1, <2>3 DEF vars
  <2>4. ASSUME NEW p \in Procs, Step(p) \/ Edit(p) \/ EditPermission(p) \/ Boot(p) \/ Begin(p)
        PROVE  NeverUndercounts'
    <3>1. \/ UNCHANGED mem \/ Allocate(p) \/ Free(p)
          \/ Lock(p) \/ Sync(p) \/ Fit(p) \/ End(p)
      BY <2>4, ArbiterLeft, Zenon DEF Step
    <3> QED
      BY <2>1, <3>1, CountsAllocate, CountsFree, CountsQuiet
  <2> QED
    BY <2>2, <2>3, <2>4 DEF Next
<1> QED
  BY <1>1, <1>2, TypesKept, PTL DEF Spec

-----------------------------------------------------------------------------
(***************************************************************************)
(* What a step touches.  Three kinds of steps: those of the settings, of   *)
(* the registry, and of the fingerprint and the arbiter's lock.  The menu  *)
(* of the permissions is a kind of its own.                                *)
(***************************************************************************)
SettingSteps ==
    {x \in Steps :
        \/ x[1] \in {"loadPerm", "loadBoost", "change", "tune", "saved", "edit",
                     "total", "fit", "forget", "writable", "readonly"}
        \/ x[1] \in {"open", "fill", "remove"} /\ x[2] \in Settings}

(* The steps that read or write the process registry, or grant VRAM. *)
RegistrySteps ==
    {x \in Steps :
        \/ x[1] \in {"loadReg", "regAdd", "regRemove", "regContext", "regPurge", "allocate", "free"}
        \/ x[1] \in {"open", "fill"} /\ x[2] = "reg"}

(* The steps of the fingerprint and of the arbiter's lock. *)
SiliconSteps ==
    {x \in Steps :
        \/ x[1] \in {"probe", "orBlank", "catch", "require", "loadSys", "rename", "lock", "unlock",
                     "syncIfZero", "calibrateIfZero"}
        \/ x[1] \in {"open", "fill", "remove"} /\ x[2] = "sys"}

(* p did a step, and what was inserted comes before the rest. *)
Moved(p, more) ==
    /\ more \in Seq(Steps) /\ act' \in [Procs -> ActType] /\ Others(p)
    /\ act'[p].op = act[p].op /\ act'[p].todo = more \o Tail(act[p].todo)

(* The files of a store are as they were. *)
StoreKept(s) == \A f \in Files : f[1] = s => file'[f] = file[f]

(* The arbiters' locks, and who has started, stay. *)
LockKept == \A q \in Procs : mem'[q].held = mem[q].held /\ mem'[q].booted = mem[q].booted

(* What is granted to the engines stays. *)
GrantsKept == \A q \in Procs : mem'[q].active = mem[q].active

(* Crashes and overlaps stay. *)
HistoryKept == UNCHANGED gen /\ UNCHANGED crashes /\ UNCHANGED mixed

(* Sequences of one or two elements. *)
LEMMA FewOf ==
    ASSUME NEW S, NEW x \in S, NEW y \in S
    PROVE  <<>> \in Seq(S) /\ <<x>> \in Seq(S) /\ <<x, y>> \in Seq(S)
  OBVIOUS

(* A setting is saved by steps of the settings. *)
LEMMA SavePlainSteps ==
    ASSUME NEW s \in Settings
    PROVE  SavePlain(s) \in Seq(SettingSteps)
<1>1. ASSUME NEW e \in {"json", "bin"} PROVE Put(s, e) \in Seq(SettingSteps)
  <2> DEFINE x == <<"open", s, e>>
             y == <<"fill", s, e>>
  <2>1. x \in SettingSteps /\ y \in SettingSteps
    BY Zenon DEF SettingSteps, Steps, Words, Places, Extensions, Settings
  <2>2. Put(s, e) = <<x, y>>
    BY DEF Put
  <2> HIDE DEF x, y
  <2> QED
    BY <2>1, <2>2, FewOf
<1> QED
  BY <1>1, ConcatProperties DEF SavePlain

(* A call of the settings. *)
LEMMA SettingCall ==
    ASSUME NEW what \in {"loadPerm", "change", "saved", "edit"}
    PROVE  Do(what) \in SettingSteps
  BY Zenon DEF Do, SettingSteps, Steps, Words, Places, Extensions

(* A step of a process that is not at its end is one of these. *)
LEMMA Kinds ==
    ASSUME NEW p \in Procs, Step(p) \/ Edit(p) \/ EditPermission(p), ~End(p)
    PROVE  LET w == Head(act[p].todo)[1] IN
           /\ act[p].todo # <<>>
           /\ w = "open" => Open(p)
           /\ w = "fill" => Fill(p)
           /\ w = "rename" => Rename(p)
           /\ w = "remove" => RemoveFile(p)
           /\ w \in {"writable", "readonly"} => SetFileLock(p)
           /\ w = "loadPerm" => LoadPerm(p)
           /\ w = "loadBoost" => LoadBoost(p)
           /\ w = "loadSys" => LoadSys(p)
           /\ w = "loadReg" => LoadRegistry(p)
           /\ w \in {"probe", "orBlank", "catch", "require"} => Probe(p)
           /\ w \in {"change", "tune"} => Change(p)
           /\ w = "saved" => Saved(p)
           /\ w \in {"lock", "unlock"} => Lock(p)
           /\ w \in {"total", "syncIfZero", "calibrateIfZero"} => Sync(p)
           /\ w = "allocate" => Allocate(p)
           /\ w = "free" => Free(p)
           /\ w \in {"fit", "forget"} => Fit(p)
           /\ w \in {"regAdd", "regRemove", "regContext", "regPurge"} => Registry(p)
           /\ w = "edit" => Edit(p)
           /\ w = "editPerm" => EditPermission(p)
<1> DEFINE w == Head(act[p].todo)[1]
           some == act[p].todo # <<>>
<1>1. Open(p) => some /\ w = "open"
  BY AtHead DEF Open, Turn
<1>2. Fill(p) => some /\ w = "fill"
  BY AtHead DEF Fill, Turn
<1>3. Rename(p) => some /\ w = "rename"
  BY AtHead DEF Rename, Turn
<1>4. RemoveFile(p) => some /\ w = "remove"
  BY AtHead DEF RemoveFile, Turn
<1>5. SetFileLock(p) => some /\ w \in {"writable", "readonly"}
  BY AtHead DEF SetFileLock, Turn
<1>6. LoadPerm(p) => some /\ w = "loadPerm"
  BY AtHead DEF LoadPerm, Turn
<1>7. LoadBoost(p) => some /\ w = "loadBoost"
  BY AtHead DEF LoadBoost, Turn
<1>8. LoadSys(p) => some /\ w = "loadSys"
  BY AtHead DEF LoadSys, Turn
<1>9. LoadRegistry(p) => some /\ w = "loadReg"
  BY AtHead DEF LoadRegistry, Turn
<1>10. Probe(p) => some /\ w \in {"probe", "orBlank", "catch", "require"}
  BY Zenon DEF Probe, At
<1>11. Change(p) => some /\ w \in {"change", "tune"}
  BY Zenon DEF Change, At
<1>12. Saved(p) => some /\ w = "saved"
  BY DEF Saved, At
<1>13. Lock(p) => some /\ w \in {"lock", "unlock"}
  BY DEF Lock, At
<1>14. Sync(p) => some /\ w \in {"total", "syncIfZero", "calibrateIfZero"}
  BY DEF Sync, At
<1>15. Allocate(p) => some /\ w = "allocate"
  BY AtHead DEF Allocate
<1>16. Free(p) => some /\ w = "free"
  BY AtHead DEF Free
<1>17. Fit(p) => some /\ w \in {"fit", "forget"}
  BY DEF Fit, At
<1>18. Registry(p) => some /\ w \in {"regAdd", "regRemove", "regContext", "regPurge"}
  BY DEF Registry, At
<1>19. Edit(p) => some /\ w = "edit"
  BY AtHead DEF Edit, Turn
<1>20. EditPermission(p) => some /\ w = "editPerm"
  BY AtHead DEF EditPermission, Turn
<1> HIDE DEF w, some
<1>21. \/ Open(p) \/ Fill(p) \/ Rename(p) \/ RemoveFile(p) \/ SetFileLock(p)
       \/ LoadPerm(p) \/ LoadBoost(p) \/ LoadSys(p) \/ LoadRegistry(p)
       \/ Probe(p) \/ Change(p) \/ Saved(p)
       \/ Lock(p) \/ Sync(p) \/ Allocate(p) \/ Free(p) \/ Fit(p) \/ Registry(p)
       \/ Edit(p) \/ EditPermission(p)
  BY Zenon DEF Step
<1>22. some
  BY <1>1, <1>2, <1>3, <1>4, <1>5, <1>6, <1>7, <1>8, <1>9, <1>10, <1>11, <1>12, <1>13, <1>14,
     <1>15, <1>16, <1>17, <1>18, <1>19, <1>20, <1>21, Zenon
<1>23. /\ w = "open" => Open(p)
       /\ w = "fill" => Fill(p)
       /\ w = "rename" => Rename(p)
       /\ w = "remove" => RemoveFile(p)
       /\ w \in {"writable", "readonly"} => SetFileLock(p)
       /\ w = "loadPerm" => LoadPerm(p)
       /\ w = "loadBoost" => LoadBoost(p)
       /\ w = "loadSys" => LoadSys(p)
       /\ w = "loadReg" => LoadRegistry(p)
       /\ w \in {"probe", "orBlank", "catch", "require"} => Probe(p)
       /\ w \in {"change", "tune"} => Change(p)
  BY <1>1, <1>2, <1>3, <1>4, <1>5, <1>6, <1>7, <1>8, <1>9, <1>10, <1>11, <1>12, <1>13, <1>14,
     <1>15, <1>16, <1>17, <1>18, <1>19, <1>20, <1>21
<1>24. /\ w = "saved" => Saved(p)
       /\ w \in {"lock", "unlock"} => Lock(p)
       /\ w \in {"total", "syncIfZero", "calibrateIfZero"} => Sync(p)
       /\ w = "allocate" => Allocate(p)
       /\ w = "free" => Free(p)
       /\ w \in {"fit", "forget"} => Fit(p)
       /\ w \in {"regAdd", "regRemove", "regContext", "regPurge"} => Registry(p)
       /\ w = "edit" => Edit(p)
       /\ w = "editPerm" => EditPermission(p)
  BY <1>1, <1>2, <1>3, <1>4, <1>5, <1>6, <1>7, <1>8, <1>9, <1>10, <1>11, <1>12, <1>13, <1>14,
     <1>15, <1>16, <1>17, <1>18, <1>19, <1>20, <1>21
<1> QED
  BY <1>22, <1>23, <1>24, Zenon DEF w, some

(* p became a, and something is inserted. *)
LEMMA MovedBy ==
    ASSUME TypeInv, NEW p \in Procs, act[p].todo # <<>>, NEW a \in ActType,
           a.op = act[p].op, a.todo = act[p].todo, NEW more \in Seq(Steps), Continue(p, a, more)
    PROVE  /\ Moved(p, more)
           /\ act'[p].perm = a.perm /\ act'[p].boost = a.boost /\ act'[p].sys = a.sys
           /\ act'[p].reg = a.reg /\ act'[p].chg = a.chg /\ act'[p].base = a.base
<1>1. act \in [Procs -> ActType]
  BY DEF TypeInv, Types, ActTypes
<1>2. Became(p, a, more \o Tail(a.todo))
  BY <1>1, ContinueEffect
<1> QED
  BY <1>2 DEF Became, Moved

(* The arbiter of p is m0, and something is inserted. *)
LEMMA MovedArbiter ==
    ASSUME TypeInv, NEW p \in Procs, act[p].todo # <<>>, NEW m0, NEW more \in Seq(Steps),
           Arbiter(p, m0, more)
    PROVE  /\ Moved(p, more) /\ HistoryKept /\ UNCHANGED file
           /\ act'[p].perm = act[p].perm /\ act'[p].boost = act[p].boost /\ act'[p].sys = act[p].sys
           /\ act'[p].reg = act[p].reg /\ act'[p].chg = act[p].chg /\ act'[p].base = act[p].base
           /\ mem'[p] = m0 /\ \A q \in Procs \ {p} : mem'[q] = mem[q]
<1>1. act[p] \in ActType
  BY DEF TypeInv, Types, ActTypes
<1>2. Continue(p, act[p], more) /\ mem' = [mem EXCEPT ![p] = m0] /\ UNCHANGED file /\ UNCHANGED history
  BY DEF Arbiter
<1>3. HistoryKept
  BY <1>2 DEF history, HistoryKept
<1>4. mem'[p] = m0 /\ \A q \in Procs \ {p} : mem'[q] = mem[q]
  BY <1>2 DEF TypeInv, Types
<1> QED
  BY <1>1, <1>2, <1>3, <1>4, MovedBy

-----------------------------------------------------------------------------
(* Steps of the settings *)

(* What a step of the settings does to the rest: nothing. *)
Elsewhere(p) ==
    /\ act'[p].sys = act[p].sys /\ act'[p].reg = act[p].reg
    /\ LockKept /\ GrantsKept /\ HistoryKept
    /\ StoreKept("sys") /\ StoreKept("reg")

(* p did a step of the settings. *)
SettingMove(p) == \E more \in Seq(SettingSteps) : Moved(p, more) /\ Elsewhere(p)

(* Settings are sequences of steps. *)
LEMMA SettingSeqs ==
    /\ \A s \in Seq(SettingSteps) : s \in Seq(Steps)
    /\ <<>> \in Seq(SettingSteps)
  BY DEF SettingSteps

(* A step that leaves the files of the fingerprint and the registry. *)
LEMMA SettingGot ==
    ASSUME TypeInv, NEW p \in Procs, act[p].todo # <<>>, NEW a \in ActType,
           a.op = act[p].op, a.todo = act[p].todo, a.sys = act[p].sys, a.reg = act[p].reg,
           NEW more \in Seq(SettingSteps), Continue(p, a, more),
           StoreKept("sys"), StoreKept("reg"), UNCHANGED mem, HistoryKept
    PROVE  SettingMove(p)
<1>1. more \in Seq(Steps)
  BY SettingSeqs
<1>2. Moved(p, more) /\ act'[p].sys = a.sys /\ act'[p].reg = a.reg
  BY <1>1, MovedBy
<1>3. LockKept /\ GrantsKept
  BY DEF LockKept, GrantsKept
<1> QED
  BY <1>2, <1>3 DEF SettingMove, Elsewhere

(* Files of a setting are no files of the rest. *)
LEMMA SettingFile ==
    ASSUME TypeInv, NEW f \in Files, f[1] \in Settings, NEW c, file' = [file EXCEPT ![f] = c]
    PROVE  StoreKept("sys") /\ StoreKept("reg")
<1>1. file \in [Files -> UNION {FileType(s) : s \in Stores}]
  BY DEF TypeInv, Types, FileTypes
<1>2. f[1] \notin {"sys", "reg"}
  BY DEF Settings
<1>3. \A g \in Files : g # f => file'[g] = file[g]
  BY <1>1
<1> QED
  BY <1>2, <1>3 DEF StoreKept

(* Opening, filling and removing a file of a setting. *)
LEMMA SettingFiles ==
    ASSUME TypeInv, NEW p \in Procs, act[p].todo # <<>>,
           Head(act[p].todo)[2] \in Settings, Open(p) \/ Fill(p) \/ RemoveFile(p)
    PROVE  SettingMove(p)
<1> DEFINE x == Head(act[p].todo)
           f == Target(p)
<1>1. x[1] \in {"open", "fill", "remove"}
  BY AtHead DEF Open, Fill, RemoveFile, Turn
<1>2. PICK l, m, e \in Label : Goes(p, l, m, e)
  BY TypeHere
<1>3. f \in Files /\ f[1] \in Settings /\ f[1] # "sys"
  BY <1>1, <1>2 DEF Goes, TypeRule, Fits, Target, Files, Settings
<1>4. act[p] \in ActType
  BY TypeHere
<1>5. f \notin locked
  BY <1>3 DEF TypeInv, Types
<1>6. /\ \E c : file' = [file EXCEPT ![f] = c]
      /\ Continue(p, act[p], <<>>) /\ UNCHANGED mem /\ UNCHANGED history
  <2>1. CASE Open(p)
    BY <1>5, <2>1 DEF Open
  <2>2. CASE Fill(p)
    BY <2>2 DEF Fill
  <2>3. CASE RemoveFile(p)
    BY <2>3 DEF RemoveFile
  <2> QED
    BY <2>1, <2>2, <2>3
<1>7. HistoryKept
  BY <1>6 DEF history, HistoryKept
<1> QED
  BY <1>3, <1>4, <1>6, <1>7, SettingFile, SettingSeqs, SettingGot

(* Nothing is changed but what p read. *)
LEMMA SettingRead ==
    ASSUME TypeInv, NEW p \in Procs, act[p].todo # <<>>, NEW a \in ActType,
           a.op = act[p].op, a.todo = act[p].todo, a.sys = act[p].sys, a.reg = act[p].reg,
           NEW more \in Seq(SettingSteps), Got(p, a, more)
    PROVE  SettingMove(p)
<1>1. Continue(p, a, more) /\ UNCHANGED file /\ UNCHANGED mem /\ UNCHANGED history
  BY DEF Got
<1>2. HistoryKept /\ StoreKept("sys") /\ StoreKept("reg")
  BY <1>1 DEF history, HistoryKept, StoreKept
<1> QED
  BY <1>1, <1>2, SettingGot

(* A change of an arbiter that keeps its lock and its grants. *)
LEMMA SettingArbiter ==
    ASSUME TypeInv, NEW p \in Procs, act[p].todo # <<>>, NEW m0,
           m0.held = mem[p].held, m0.booted = mem[p].booted, m0.active = mem[p].active,
           Arbiter(p, m0, <<>>)
    PROVE  SettingMove(p)
<1>1. Moved(p, <<>>) /\ HistoryKept /\ UNCHANGED file /\ act'[p].sys = act[p].sys /\ act'[p].reg = act[p].reg
      /\ mem'[p] = m0 /\ \A q \in Procs \ {p} : mem'[q] = mem[q]
  <2>1. <<>> \in Seq(Steps)
    OBVIOUS
  <2> QED
    BY <2>1, MovedArbiter
<1>2. LockKept /\ GrantsKept
  BY <1>1 DEF LockKept, GrantsKept
<1>3. StoreKept("sys") /\ StoreKept("reg")
  BY <1>1 DEF StoreKept
<1> QED
  BY <1>1, <1>2, <1>3, SettingSeqs DEF SettingMove, Elsewhere

(* Locking files changes none. *)
LEMMA SettingLocks ==
    ASSUME TypeInv, NEW p \in Procs, act[p].todo # <<>>, SetFileLock(p)
    PROVE  SettingMove(p)
<1>1. act[p] \in ActType
  BY TypeHere
<1>2. Continue(p, act[p], <<>>) /\ UNCHANGED file /\ UNCHANGED mem /\ UNCHANGED history
  BY DEF SetFileLock
<1>3. HistoryKept /\ StoreKept("sys") /\ StoreKept("reg")
  BY <1>2 DEF history, HistoryKept, StoreKept
<1> QED
  BY <1>1, <1>2, <1>3, SettingSeqs, SettingGot

(* Loading a setting. *)
LEMMA SettingLoads ==
    ASSUME TypeInv, NEW p \in Procs, act[p].todo # <<>>, LoadPerm(p) \/ LoadBoost(p)
    PROVE  SettingMove(p)
<1>1. act[p] \in ActType
  BY TypeHere
<1>p. SavePlain("perm") \in Seq(SettingSteps) /\ SavePlain("boost") \in Seq(SettingSteps)
  BY SavePlainSteps DEF Settings
<1>r. <<<<"remove", "boost", "bin">>>> \in Seq(SettingSteps)
  <2> DEFINE x == <<"remove", "boost", "bin">>
  <2>1. x \in SettingSteps
    BY Zenon DEF SettingSteps, Steps, Words, Places, Extensions, Settings
  <2> HIDE DEF x
  <2>2. <<x>> \in Seq(SettingSteps)
    BY <2>1, FewOf
  <2> QED
    BY <2>2 DEF x
<1>2. CASE LoadPerm(p)
  <2> DEFINE json == <<"perm", "json">>
             c == IF Whole(json) THEN file[json] ELSE PermDefault
             a == [act[p] EXCEPT !.perm = c]
             more == IF file[json] = Absent THEN SavePlain("perm") ELSE <<>>
  <2>1. Got(p, a, more)
    BY <1>2, Zenon DEF LoadPerm
  <2>2. c \in PermControl
    <3>1. json \in Files /\ json[1] = "perm"
      BY DEF Files, Settings
    <3>2. file[json] \in FileType("perm")
      BY <3>1 DEF TypeInv, Types, FileTypes
    <3> HIDE DEF json
    <3>3. Whole(json) => file[json] \in PermControl
      BY <3>2 DEF FileType, Whole
    <3> QED
      BY <3>3, DefaultsTyped
  <2>3. more \in Seq(SettingSteps)
    BY <1>p, SettingSeqs
  <2> HIDE DEF c, more
  <2>4. a \in ActType /\ a.op = act[p].op /\ a.todo = act[p].todo /\ a.sys = act[p].sys /\ a.reg = act[p].reg
    BY <1>1, <2>2 DEF ActType
  <2> HIDE DEF a
  <2> QED
    BY <2>1, <2>3, <2>4, SettingRead
<1>3. CASE LoadBoost(p)
  <2> DEFINE json == <<"boost", "json">>
             bin == <<"boost", "bin">>
             Take(c) == [act[p] EXCEPT !.boost = c]
             more == IF file[bin] = Absent THEN <<>> ELSE <<<<"remove", "boost", "bin">>>>
  <2>1. json \in Files /\ json[1] = "boost"
    BY DEF Files, Settings
  <2>2. file[json] \in FileType("boost")
    BY <2>1 DEF TypeInv, Types, FileTypes
  <2>3. \/ Whole(json) /\ Got(p, Take(file[json]), SavePlain("boost"))
        \/ Got(p, Take(BoosterDefault), more)
    BY <1>3, Zenon DEF LoadBoost
  <2>4. more \in Seq(SettingSteps)
    BY <1>r, SettingSeqs
  <2> HIDE DEF json, bin, more
  <2>5. Whole(json) => file[json] \in BoosterControl
    BY <2>2 DEF FileType, Whole
  <2>6. \E c \in BoosterControl, s \in Seq(SettingSteps) : Got(p, Take(c), s)
    <3> HIDE DEF Take
    <3> QED
      BY <1>p, <2>3, <2>4, <2>5, DefaultsTyped, SettingSeqs
  <2>7. PICK c \in BoosterControl, s \in Seq(SettingSteps) : Got(p, Take(c), s)
    BY <2>6
  <2> DEFINE a == Take(c)
  <2>8. a \in ActType /\ a.op = act[p].op /\ a.todo = act[p].todo /\ a.sys = act[p].sys /\ a.reg = act[p].reg
    BY <1>1 DEF ActType
  <2>9. Got(p, a, s)
    BY <2>7
  <2> HIDE DEF a
  <2> QED
    BY <2>8, <2>9, SettingRead
<1> QED
  BY <1>2, <1>3

(* What is changed is a setting. *)
LEMMA ChosenStore ==
    ASSUME NEW op \in ChangeOps \cup {"boot"}, NEW chg \in Requests(op)
    PROVE  chg[1] \in Settings
<1>1. \A c \in Changes : c[1] \in Settings
  BY SetTyped DEF Settings
<1>2. CASE op \in {"setBoost", "editBoost", "updateField", "setPerm", "editPerm"}
  <2>1. chg \in Changes
    BY Zenon, <1>2 DEF Requests
  <2> QED
    BY <1>1, <2>1
<1>3. CASE op \notin {"setBoost", "editBoost", "updateField", "setPerm", "editPerm"}
  <2>1. op \in {"boot", "putBoost", "resetBoost"}
    BY <1>3 DEF ChangeOps
  <2>2. CASE op = "boot"
    <3>1. chg = <<"boost", "tune", "">>
      BY Zenon, <2>2 DEF Requests
    <3> QED
      BY Zenon, <3>1 DEF Settings
  <2>3. CASE op = "putBoost"
    <3>1. chg = <<"boost", "all", BoosterDefault>>
      BY <2>3 DEF Requests
    <3> QED
      BY <3>1 DEF Settings
  <2>4. CASE op = "resetBoost"
    <3>1. chg = <<"boost", "reset", "">>
      BY Zenon, <2>4 DEF Requests
    <3> QED
      BY Zenon, <3>1 DEF Settings
  <2> QED
    BY <2>1, <2>2, <2>3, <2>4
<1> QED
  BY <1>2, <1>3

(* A process that changes a setting keeps what it read of the rest. *)
LEMMA WrittenField ==
    ASSUME NEW b \in ActType, NEW s \in Settings, NEW new, NEW chg, NEW base, NEW todo
    PROVE  LET a == [b EXCEPT ![s] = new, !.chg = chg, !.base = base]
               c == [a EXCEPT !.todo = todo]
           IN  /\ a.todo = b.todo
               /\ c.op = b.op /\ c.todo = todo /\ c.sys = b.sys /\ c.reg = b.reg
  BY DEF ActType, Settings

(* A change, or a tuning. *)
LEMMA SettingChange ==
    ASSUME TypeInv, TypeInv', NEW p \in Procs, Change(p)
    PROVE  SettingMove(p)
<1> DEFINE x == Head(act[p].todo)
           b == act[p]
           op == act[p].op
           tunes == At(p, "tune")
           chg == IF tunes THEN <<"boost", "tune", "">> ELSE b.chg
           s == chg[1]
           new == IF tunes /\ b.sys = None THEN b.boost
                  ELSE Changed(chg, b[s], IF b.sys = None THEN "blank" ELSE b.sys)
           a == [b EXCEPT ![s] = new, !.chg = chg, !.base = ok[s]]
           more == SavePlain(s) \o <<Do("saved")>>
           todo == more \o Tail(b.todo)
<1>1. act[p].todo # <<>> /\ x[1] \in {"change", "tune"} /\ (tunes <=> x[1] = "tune")
  BY Zenon DEF Change, At
<1>2. PICK l, m, e \in Label : Goes(p, l, m, e)
  BY <1>1, TypeHere
<1>3. b \in ActType /\ act \in [Procs -> ActType] /\ act' \in [Procs -> ActType]
      /\ Tail(b.todo) \in Seq(Steps)
  BY <1>1, TypeHere DEF TypeInv, Types, ActTypes
<1>4. /\ TypeNeeds(op, x) \subseteq l.now /\ Fits(op, x) /\ KnowsTypes(b, l.now)
  BY <1>1, <1>2 DEF Goes, TypeRule
<1>5. op \in ChangeOps \cup {"boot"} /\ (tunes => op = "boot")
  BY <1>1, <1>4 DEF Fits, ChangeOps
<1>6. s \in Settings
  <2>1. CASE tunes
    BY <2>1 DEF Settings
  <2>2. CASE ~tunes
    <3>1. b.chg \in Requests(op)
      BY <1>1, <1>4, <2>2 DEF TypeNeeds, KnowsTypes
    <3> QED
      BY <1>5, <2>2, <3>1, ChosenStore
  <2> QED
    BY <2>1, <2>2
<1>7. /\ Continue(p, a, more)
      /\ UNCHANGED file /\ UNCHANGED mem /\ UNCHANGED gen /\ UNCHANGED crashes /\ UNCHANGED mixed
  BY Zenon DEF Change
<1> HIDE DEF chg, new, tunes, x
<1>8. more \in Seq(SettingSteps)
  <2> DEFINE d == Do("saved")
  <2>1. d \in SettingSteps
    BY SettingCall
  <2> HIDE DEF d
  <2>2. <<d>> \in Seq(SettingSteps)
    BY <2>1, FewOf
  <2> QED
    BY <1>6, <2>2, SavePlainSteps, ConcatProperties DEF d
<1> HIDE DEF more
<1>9. /\ a.todo = b.todo
      /\ [a EXCEPT !.todo = todo].op = b.op /\ [a EXCEPT !.todo = todo].todo = todo
      /\ [a EXCEPT !.todo = todo].sys = b.sys /\ [a EXCEPT !.todo = todo].reg = b.reg
  <2> DEFINE new0 == new
             chg0 == chg
             base0 == ok[s]
  <2>1. a = [b EXCEPT ![s] = new0, !.chg = chg0, !.base = base0]
    BY DEF a
  <2> HIDE DEF b, todo, s, new0, chg0, base0, a
  <2> QED
    BY Zenon, <1>3, <1>6, <2>1 DEF ActType, Settings
<1>10. act' = [act EXCEPT ![p] = [a EXCEPT !.todo = todo]]
  BY Zenon, <1>7, <1>9 DEF Continue
<1> HIDE DEF a
<1>11. act'[p] = [a EXCEPT !.todo = todo] /\ Others(p)
  BY <1>3, <1>10 DEF Others
<1>12. more \in Seq(Steps)
  BY <1>8, SettingSeqs
<1>13. Moved(p, more) /\ act'[p].sys = b.sys /\ act'[p].reg = b.reg
  BY <1>3, <1>9, <1>11, <1>12 DEF Moved
<1>14. Elsewhere(p)
  BY <1>7, <1>13 DEF Elsewhere, LockKept, GrantsKept, HistoryKept, StoreKept
<1> QED
  BY <1>8, <1>13, <1>14 DEF SettingMove

(* What is put before a whole sequence, relative to its rest. *)
LEMMA BeforeAll ==
    ASSUME NEW s \in Seq(SettingSteps), NEW todo \in Seq(Steps), todo # <<>>,
           Head(todo) \in SettingSteps
    PROVE  /\ s \o <<Head(todo)>> \in Seq(SettingSteps)
           /\ s \o todo = (s \o <<Head(todo)>>) \o Tail(todo)
<1> DEFINE x == Head(todo)
           t == Tail(todo)
<1>1. x \in SettingSteps /\ x \in Steps /\ s \in Seq(Steps)
  BY SettingSeqs DEF SettingSteps
<1>2. t \in Seq(Steps) /\ Len(t) = Len(todo) - 1 /\ \A i \in 1..Len(t) : t[i] = todo[i + 1]
  BY HeadTailProperties
<1>3. todo[1] = x /\ Len(todo) \in Nat /\ Len(todo) > 0
  BY LenProperties, EmptySeq
<1>4. <<x>> \in Seq(SettingSteps) /\ <<x>> \in Seq(Steps) /\ Len(<<x>>) = 1 /\ <<x>>[1] = x
  <2> HIDE DEF x
  <2> QED
    BY <1>1
<1> HIDE DEF x, t
<1>5. <<x>> \o t = todo
  <2> DEFINE u == <<x>> \o t
             n == Len(t)
  <2>1. u \in Seq(Steps) /\ Len(u) = 1 + n
        /\ \A i \in 1..(1 + n) : u[i] = IF i <= 1 THEN <<x>>[i] ELSE t[i - 1]
    BY <1>2, <1>4, ConcatProperties
  <2>2. n \in Nat /\ Len(todo) = 1 + n /\ \A i \in 1..n : t[i] = todo[i + 1]
    BY <1>2, <1>3
  <2> HIDE DEF u, n
  <2>3. \A i \in 1..(1 + n) : u[i] = todo[i]
    <3> SUFFICES ASSUME NEW i \in 1..(1 + n) PROVE u[i] = todo[i]
      OBVIOUS
    <3>1. CASE i = 1
      BY <3>1, <1>3, <1>4, <2>1
    <3>2. CASE i # 1
      <4>1. ~(i <= 1) /\ i - 1 \in 1..n /\ (i - 1) + 1 = i
        BY <2>2, <3>2
      <4> QED
        BY <4>1, <2>1, <2>2
    <3> QED
      BY <3>1, <3>2
  <2>4. u = todo
    BY <2>1, <2>2, <2>3, SeqEqual
  <2> QED
    BY <2>4 DEF u
<1>6. (s \o <<x>>) \o t = s \o (<<x>> \o t)
  BY <1>1, <1>2, <1>4, ConcatAssociative
<1>7. s \o <<x>> \in Seq(SettingSteps)
  BY <1>4, ConcatProperties
<1> QED
  BY <1>5, <1>6, <1>7 DEF x, t

(* The end of a save. *)
LEMMA SettingSaved ==
    ASSUME TypeInv, NEW p \in Procs, act[p].todo # <<>>, Saved(p)
    PROVE  SettingMove(p)
<1> DEFINE a == [act[p] EXCEPT !.base = {}]
<1>1. act[p] \in ActType
  BY TypeHere
<1>2. Continue(p, a, <<>>) /\ UNCHANGED file /\ UNCHANGED mem /\ UNCHANGED gen /\ UNCHANGED crashes
      /\ UNCHANGED mixed
  BY Zenon DEF Saved
<1>3. a \in ActType /\ a.op = act[p].op /\ a.todo = act[p].todo /\ a.sys = act[p].sys /\ a.reg = act[p].reg
  BY <1>1 DEF ActType
<1> HIDE DEF a
<1>4. HistoryKept /\ StoreKept("sys") /\ StoreKept("reg")
  BY <1>2 DEF HistoryKept, StoreKept
<1> QED
  BY <1>2, <1>3, <1>4, SettingSeqs, SettingGot

(* A choice in a menu. *)
LEMMA SettingChoice ==
    ASSUME TypeInv, TypeInv', NEW p \in Procs, act[p].todo # <<>>, NEW chg,
           NEW more \in Seq(SettingSteps), NEW rest, rest = more \o Tail(act[p].todo),
           act' = [act EXCEPT ![p].chg = chg, ![p].todo = rest],
           UNCHANGED file, UNCHANGED mem, UNCHANGED gen, UNCHANGED crashes, UNCHANGED mixed
    PROVE  SettingMove(p)
<1>1. act \in [Procs -> ActType] /\ act' \in [Procs -> ActType] /\ act[p] \in ActType
  BY DEF TypeInv, Types, ActTypes
<1>2. act'[p] = [[act[p] EXCEPT !.chg = chg] EXCEPT !.todo = rest] /\ Others(p)
  BY <1>1 DEF Others
<1>3. act'[p].op = act[p].op /\ act'[p].todo = rest /\ act'[p].sys = act[p].sys /\ act'[p].reg = act[p].reg
  BY <1>1, <1>2 DEF ActType
<1>4. more \in Seq(Steps)
  BY SettingSeqs
<1>5. Moved(p, more)
  BY <1>1, <1>2, <1>3, <1>4 DEF Moved
<1>6. Elsewhere(p)
  BY <1>3 DEF Elsewhere, LockKept, GrantsKept, HistoryKept, StoreKept
<1> QED
  BY <1>5, <1>6 DEF SettingMove

(* The menu of the booster. *)
LEMMA SettingEdit ==
    ASSUME TypeInv, TypeInv', NEW p \in Procs, act[p].todo # <<>>, Edit(p)
    PROVE  SettingMove(p)
<1> DEFINE todo == act[p].todo
           c == Do("change")
<1>1. act[p] \in ActType /\ todo \in Seq(Steps)
  BY TypeHere
<1>2. CASE Got(p, act[p], <<>>)
  BY <1>1, <1>2, SettingSeqs, SettingRead
<1>3. ASSUME NEW chg \in Changes,
             act' = [act EXCEPT ![p].chg = chg, ![p].todo = <<Do("change")>> \o @],
             UNCHANGED <<file, locked, mem, gen, crashes, ok, mixed>>
      PROVE  SettingMove(p)
  <2>1. c \in SettingSteps
    BY SettingCall
  <2> HIDE DEF c
  <2>2. <<c>> \in Seq(SettingSteps)
    BY <2>1, FewOf
  <2>3. Head(todo) \in SettingSteps
    BY AtHead, TypeHere DEF Edit, Turn, SettingSteps
  <2> DEFINE more == <<c>> \o <<Head(todo)>>
  <2>4. more \in Seq(SettingSteps) /\ <<c>> \o todo = more \o Tail(todo)
    BY <1>1, <2>2, <2>3, BeforeAll
  <2> DEFINE rest == <<c>> \o todo
  <2>5. act' = [act EXCEPT ![p].chg = chg, ![p].todo = rest]
    <3>1. act' = [act EXCEPT ![p].chg = chg, ![p].todo = <<c>> \o @]
      BY <1>3 DEF c
    <3> QED
      BY <1>1, <3>1 DEF ActType, TypeInv, Types, ActTypes
  <2> HIDE DEF more, rest
  <2>6. rest = more \o Tail(act[p].todo)
    BY <2>4 DEF rest
  <2> QED
    BY <1>3, <2>4, <2>5, <2>6, SettingChoice
<1> QED
  BY <1>2, <1>3 DEF Edit

(* Two steps, one after the other. *)
LEMMA TwoSteps ==
    ASSUME NEW x \in Steps, NEW y \in Steps
    PROVE  <<x>> \o <<y>> = <<x, y>>
<1> DEFINE u == <<x>> \o <<y>>
           all == <<x, y>>
<1>1. all \in Seq(Steps) /\ Len(all) = 2 /\ all[1] = x /\ all[2] = y
  OBVIOUS
<1>2. <<x>> \in Seq(Steps) /\ Len(<<x>>) = 1 /\ <<x>>[1] = x
  OBVIOUS
<1>3. <<y>> \in Seq(Steps) /\ Len(<<y>>) = 1 /\ <<y>>[1] = y
  OBVIOUS
<1>4. u \in Seq(Steps) /\ Len(u) = 1 + 1
      /\ \A i \in 1..(1 + 1) : u[i] = IF i <= 1 THEN <<x>>[i] ELSE <<y>>[i - 1]
  BY <1>2, <1>3, ConcatProperties
<1> HIDE DEF u, all
<1>5. \A i \in 1..2 : u[i] = all[i]
  BY <1>1, <1>2, <1>3, <1>4
<1>6. u = all
  BY <1>1, <1>4, <1>5, SeqEqual
<1> QED
  BY <1>6 DEF u, all

(* The menu of the permissions begins again: what was left is forgotten.   *)
MenuMove(p) ==
    /\ \E more \in Seq(SettingSteps) : act'[p].todo = more \o <<Do("editPerm")>>
    /\ Elsewhere(p)
    /\ act' \in [Procs -> ActType] /\ Others(p) /\ act'[p].op = act[p].op

(* A choice in it, or none. *)
LEMMA SettingEditPermission ==
    ASSUME TypeInv, TypeInv', NEW p \in Procs, act[p].todo # <<>>, EditPermission(p)
    PROVE  SettingMove(p) \/ MenuMove(p)
<1> DEFINE c == Do("change")
           d == Do("loadPerm")
           k == Do("editPerm")
<1>1. act[p] \in ActType /\ act[p].todo \in Seq(Steps)
  BY TypeHere
<1>2. CASE Got(p, act[p], <<>>)
  BY <1>1, <1>2, SettingSeqs, SettingRead
<1>3. ASSUME NEW chg \in Changes,
             act' = [act EXCEPT ![p].chg = chg,
                                ![p].todo = (IF chg[2] \in ActiveModels
                                             THEN UpdatePermission \o <<Do("loadPerm")>>
                                             ELSE <<Do("change")>>) \o PermissionMenu],
             UNCHANGED <<file, locked, mem, gen, crashes, ok, mixed>>
      PROVE  MenuMove(p)
  <2>1. c \in SettingSteps /\ d \in SettingSteps /\ k \in Steps
    BY Zenon, SettingCall, DoStep DEF Words
  <2>2. UpdatePermission = <<d, c>> /\ PermissionMenu = <<d, k>>
    BY DEF UpdatePermission, PermissionMenu
  <2> DEFINE first == IF chg[2] \in ActiveModels THEN UpdatePermission \o <<d>> ELSE <<c>>
             more == first \o <<d>>
             rest == more \o <<k>>
  <2>c. c \in Steps /\ d \in Steps
    BY <2>1 DEF SettingSteps
  <2>o. <<d>> \o <<k>> = <<d, k>>
    <3> HIDE DEF d, k
    <3> QED
      BY <2>1, <2>c, TwoSteps
  <2> HIDE DEF c, d, k
  <2>4. <<d, c>> \in Seq(SettingSteps) /\ <<d>> \in Seq(SettingSteps) /\ <<c>> \in Seq(SettingSteps)
    BY <2>1, FewOf
  <2>5. first \in Seq(SettingSteps)
    BY <2>2, <2>4, ConcatProperties
  <2> HIDE DEF first
  <2>6. more \in Seq(SettingSteps)
    BY <2>4, <2>5, ConcatProperties
  <2>a. first \o PermissionMenu = rest
    <3>1. first \in Seq(Steps) /\ <<d>> \in Seq(Steps) /\ <<k>> \in Seq(Steps)
      BY <2>1, <2>c, <2>5, SettingSeqs, FewOf
    <3>2. (first \o <<d>>) \o <<k>> = first \o (<<d>> \o <<k>>)
      BY <3>1, ConcatAssociative
    <3> QED
      BY <2>2, <2>o, <3>2
  <2>3. act' = [act EXCEPT ![p].chg = chg, ![p].todo = rest]
    <3> DEFINE r0 == first \o PermissionMenu
    <3>1. act' = [act EXCEPT ![p].chg = chg, ![p].todo = r0]
      BY <1>3 DEF first, c, d
    <3> HIDE DEF r0, rest
    <3>2. r0 = rest
      BY <2>a DEF r0
    <3> QED
      BY <3>1, <3>2
  <2>q. rest = more \o <<k>>
    OBVIOUS
  <2> HIDE DEF more
  <2> HIDE DEF rest
  <2>7. act \in [Procs -> ActType] /\ act' \in [Procs -> ActType]
    BY DEF TypeInv, Types, ActTypes
  <2>8. act'[p] = [[act[p] EXCEPT !.chg = chg] EXCEPT !.todo = rest] /\ Others(p)
    BY <2>3, <2>7 DEF Others
  <2>9. act'[p].op = act[p].op /\ act'[p].todo = rest /\ act'[p].sys = act[p].sys /\ act'[p].reg = act[p].reg
    BY <1>1, <2>8 DEF ActType
  <2>10. Elsewhere(p)
    BY <1>3, <2>9 DEF Elsewhere, LockKept, GrantsKept, HistoryKept, StoreKept
  <2> QED
    BY <2>6, <2>7, <2>8, <2>9, <2>10, <2>q DEF MenuMove, k
<1> QED
  BY <1>2, <1>3 DEF EditPermission

(* The total is that of the card. *)
LEMMA SettingTotal ==
    ASSUME TypeInv, NEW p \in Procs, act[p].todo # <<>>, Head(act[p].todo)[1] = "total", Sync(p)
    PROVE  SettingMove(p)
<1>0. mem[p] \in MemType
  BY DEF TypeInv, Types
<1> DEFINE n == IF act[p].sys = None THEN mem[p].total ELSE VramOf(act[p].sys)
           m0 == [mem[p] EXCEPT !.total = n]
<1>1. Arbiter(p, m0, <<>>)
  BY DEF Sync, At
<1> HIDE DEF n
<1>2. m0.held = mem[p].held /\ m0.booted = mem[p].booted /\ m0.active = mem[p].active
  BY <1>0 DEF MemType
<1> HIDE DEF m0
<1> QED
  BY <1>1, <1>2, SettingArbiter

(* The window is fitted, or what is known of the model is forgotten. *)
LEMMA SettingFit ==
    ASSUME TypeInv, NEW p \in Procs, act[p].todo # <<>>, Fit(p)
    PROVE  SettingMove(p)
<1>0. mem[p] \in MemType
  BY DEF TypeInv, Types
<1>1. \E ctx, dna : Arbiter(p, [mem[p] EXCEPT !.ctx = ctx, !.dna = dna], <<>>)
                   \/ Arbiter(p, [mem[p] EXCEPT !.dna = dna], <<>>)
  BY <1>0, Zenon DEF Fit
<1>2. PICK ctx, dna : Arbiter(p, [mem[p] EXCEPT !.ctx = ctx, !.dna = dna], <<>>)
                   \/ Arbiter(p, [mem[p] EXCEPT !.dna = dna], <<>>)
  BY Zenon, <1>1
<1> DEFINE m0 == [mem[p] EXCEPT !.ctx = ctx, !.dna = dna]
           m1 == [mem[p] EXCEPT !.dna = dna]
<1>3. Arbiter(p, m0, <<>>) \/ Arbiter(p, m1, <<>>)
  BY <1>2
<1>4. m0.held = mem[p].held /\ m0.booted = mem[p].booted /\ m0.active = mem[p].active
      /\ m1.held = mem[p].held /\ m1.booted = mem[p].booted /\ m1.active = mem[p].active
  BY <1>0 DEF MemType
<1> HIDE DEF m0, m1
<1> QED
  BY <1>3, <1>4, SettingArbiter

(* What a step of the settings does. *)
LEMMA SettingEffect ==
    ASSUME TypeInv, TypeInv', NEW p \in Procs, Step(p) \/ Edit(p) \/ EditPermission(p), ~End(p),
           Head(act[p].todo) \in SettingSteps \/ Head(act[p].todo)[1] = "editPerm"
    PROVE  SettingMove(p) \/ (MenuMove(p) /\ Head(act[p].todo)[1] = "editPerm")
<1> DEFINE x == Head(act[p].todo)
<1>1. act[p].todo # <<>>
  BY Kinds
<1>2. \/ x[1] \in {"open", "fill", "remove"} /\ x[2] \in Settings /\ (Open(p) \/ Fill(p) \/ RemoveFile(p))
      \/ SetFileLock(p) \/ LoadPerm(p) \/ LoadBoost(p) \/ Change(p) \/ Saved(p)
      \/ x[1] = "total" /\ Sync(p)
      \/ Fit(p) \/ Edit(p) \/ (EditPermission(p) /\ x[1] = "editPerm")
  BY Kinds DEF SettingSteps
<1> QED
  BY <1>1, <1>2, SettingFiles, SettingLocks, SettingLoads, SettingChange, SettingSaved, SettingTotal,
     SettingFit, SettingEdit, SettingEditPermission

-----------------------------------------------------------------------------
(* Steps of the registry *)

(* What they do to the fingerprint and the arbiter's lock: nothing. *)
RegistryMove(p) ==
    \E more \in Seq(RegistrySteps) :
        /\ Moved(p, more) /\ act'[p].sys = act[p].sys
        /\ LockKept /\ HistoryKept /\ StoreKept("sys")

(* They are steps. *)
LEMMA RegistrySeqs ==
    /\ \A s \in Seq(RegistrySteps) : s \in Seq(Steps)
    /\ <<>> \in Seq(RegistrySteps)
    /\ Put("reg", "json") \in Seq(RegistrySteps)
    /\ <<Do("loadReg"), Do("regAdd")>> \in Seq(RegistrySteps)
<1> DEFINE x == <<"open", "reg", "json">>
           y == <<"fill", "reg", "json">>
           c == Do("loadReg")
           d == Do("regAdd")
<1>1. x \in RegistrySteps /\ y \in RegistrySteps
  BY Zenon DEF RegistrySteps, Steps, Words, Places, Extensions
<1>2. c \in RegistrySteps /\ d \in RegistrySteps
  BY Zenon DEF Do, RegistrySteps, Steps, Words, Places, Extensions
<1>3. Put("reg", "json") = <<x, y>>
  BY DEF Put
<1> HIDE DEF x, y, c, d
<1>4. <<x, y>> \in Seq(RegistrySteps) /\ <<c, d>> \in Seq(RegistrySteps)
  BY <1>1, <1>2, FewOf
<1>5. /\ \A s \in Seq(RegistrySteps) : s \in Seq(Steps)
      /\ <<>> \in Seq(RegistrySteps)
  BY DEF RegistrySteps
<1> QED
  BY <1>3, <1>4, <1>5 DEF c, d

(* A step that changes no more than what p read. *)
LEMMA RegistryGot ==
    ASSUME TypeInv, NEW p \in Procs, act[p].todo # <<>>, NEW a \in ActType,
           a.op = act[p].op, a.todo = act[p].todo, a.sys = act[p].sys,
           NEW more \in Seq(RegistrySteps), Got(p, a, more)
    PROVE  RegistryMove(p)
<1>1. Continue(p, a, more) /\ UNCHANGED file /\ UNCHANGED mem /\ UNCHANGED history
  BY DEF Got
<1>2. HistoryKept /\ StoreKept("sys") /\ LockKept
  BY <1>1 DEF history, HistoryKept, StoreKept, LockKept
<1>3. more \in Seq(Steps)
  BY RegistrySeqs
<1>4. Moved(p, more) /\ act'[p].sys = a.sys
  BY <1>1, <1>3, MovedBy
<1> QED
  BY <1>2, <1>4 DEF RegistryMove

(* A grant or a return. *)
LEMMA RegistryArbiter ==
    ASSUME TypeInv, NEW p \in Procs, act[p].todo # <<>>, NEW m0,
           m0.held = mem[p].held, m0.booted = mem[p].booted,
           NEW more \in Seq(RegistrySteps), Arbiter(p, m0, more)
    PROVE  RegistryMove(p)
<1>1. more \in Seq(Steps)
  BY RegistrySeqs
<1>2. Moved(p, more) /\ HistoryKept /\ UNCHANGED file /\ act'[p].sys = act[p].sys
      /\ mem'[p] = m0 /\ \A q \in Procs \ {p} : mem'[q] = mem[q]
  BY <1>1, MovedArbiter
<1>3. LockKept /\ StoreKept("sys")
  BY <1>2 DEF LockKept, StoreKept
<1> QED
  BY <1>2, <1>3 DEF RegistryMove

(* Opening and filling the registry's file. *)
LEMMA RegistryFiles ==
    ASSUME TypeInv, NEW p \in Procs, act[p].todo # <<>>,
           Head(act[p].todo)[2] = "reg", Open(p) \/ Fill(p)
    PROVE  RegistryMove(p)
<1> DEFINE x == Head(act[p].todo)
           f == Target(p)
<1>1. x[1] \in {"open", "fill"}
  BY AtHead DEF Open, Fill, Turn
<1>2. PICK l, m, e \in Label : Goes(p, l, m, e)
  BY TypeHere
<1>3. f \in Files /\ f[1] = "reg"
  BY <1>1, <1>2 DEF Goes, TypeRule, Fits, Target, Files, Settings
<1>4. act[p] \in ActType
  BY TypeHere
<1>5. f \notin locked
  BY <1>3 DEF TypeInv, Types
<1>6. /\ \E c : file' = [file EXCEPT ![f] = c]
      /\ Continue(p, act[p], <<>>) /\ UNCHANGED mem /\ UNCHANGED history
  <2>1. CASE Open(p)
    BY <1>5, <2>1 DEF Open
  <2>2. CASE Fill(p)
    BY <2>2 DEF Fill
  <2> QED
    BY <2>1, <2>2
<1>7. HistoryKept /\ LockKept
  BY <1>6 DEF history, HistoryKept, LockKept
<1>8. StoreKept("sys")
  <2>1. file \in [Files -> UNION {FileType(s) : s \in Stores}]
    BY DEF TypeInv, Types, FileTypes
  <2>2. \A g \in Files : g # f => file'[g] = file[g]
    BY <1>6, <2>1
  <2> QED
    BY <1>3, <2>2 DEF StoreKept
<1>9. <<>> \in Seq(Steps)
  OBVIOUS
<1>10. Moved(p, <<>>) /\ act'[p].sys = act[p].sys
  BY <1>4, <1>6, <1>9, MovedBy
<1> QED
  BY <1>7, <1>8, <1>10, RegistrySeqs DEF RegistryMove

(* What the process remembers of the registry. *)
LEMMA RegistryWritten ==
    ASSUME NEW a \in ActType, NEW pids \in SUBSET Pids
    PROVE  LET b == [a EXCEPT !.reg = pids] IN
           b \in ActType /\ b.op = a.op /\ b.todo = a.todo /\ b.sys = a.sys /\ b.reg = pids
  BY DEF ActType

(* What a step of the registry does. *)
LEMMA RegistryEffect ==
    ASSUME TypeInv, NEW p \in Procs, Step(p) \/ Edit(p) \/ EditPermission(p), ~End(p),
           Head(act[p].todo) \in RegistrySteps
    PROVE  RegistryMove(p)
<1> DEFINE x == Head(act[p].todo)
           a == act[p]
<1>1. a.todo # <<>>
  BY Kinds
<1>2. a \in ActType
  BY <1>1, TypeHere
<1>3. \/ x[2] = "reg" /\ (Open(p) \/ Fill(p))
      \/ LoadRegistry(p) \/ Allocate(p) \/ Free(p) \/ Registry(p)
  BY Kinds DEF RegistrySteps
<1>4. CASE LoadRegistry(p)
  <2> DEFINE f == <<"reg", "json">>
             r == IF Whole(f) THEN file[f] ELSE {}
  <2>1. Got(p, [a EXCEPT !.reg = r], <<>>)
    BY <1>4, Zenon DEF LoadRegistry
  <2>2. f \in Files /\ f[1] = "reg"
    BY DEF Files, Settings
  <2>3. file[f] \in FileType("reg")
    BY <2>2 DEF TypeInv, Types, FileTypes
  <2> HIDE DEF f
  <2>4. r \in SUBSET Pids
    BY <2>3 DEF FileType, Whole
  <2> HIDE DEF r
  <2> DEFINE b == [a EXCEPT !.reg = r]
  <2>5. b \in ActType /\ b.op = a.op /\ b.todo = a.todo /\ b.sys = a.sys
    BY <1>2, <2>4, RegistryWritten
  <2> HIDE DEF b
  <2> QED
    BY <1>1, <2>1, <2>5, RegistrySeqs, RegistryGot DEF b
<1>5. CASE Allocate(p)
  <2>1. \/ Arbiter(p, mem[p], <<>>)
        \/ \E m0 \in MemType :
              /\ m0.held = mem[p].held /\ m0.booted = mem[p].booted
              /\ Arbiter(p, m0, <<Do("loadReg"), Do("regAdd")>>)
    BY <1>5, AllocateEffect
  <2> QED
    BY <1>1, <2>1, RegistrySeqs, RegistryArbiter
<1>6. CASE Free(p)
  <2>1. \E m0 \in MemType : m0.held = mem[p].held /\ m0.booted = mem[p].booted /\ Arbiter(p, m0, <<>>)
    BY <1>6, FreeEffect
  <2> QED
    BY <1>1, <2>1, RegistrySeqs, RegistryArbiter
<1>7. CASE Registry(p)
  <2> DEFINE dead == {pid \in a.reg : ~Alive(pid)}
  <2>1. \/ \E pids \in {a.reg \cup {Pid(p)}, a.reg \ {Pid(p)}, a.reg, a.reg \ dead} :
              Got(p, [a EXCEPT !.reg = pids], Put("reg", "json"))
        \/ Got(p, a, <<>>)
    BY <1>7 DEF Registry
  <2>2. a.reg \in SUBSET Pids /\ Pid(p) \in Pids
    <3>1. x[1] \in {"regAdd", "regRemove", "regContext", "regPurge"}
      BY <1>7 DEF Registry, At
    <3>2. PICK l, m, e \in Label : Goes(p, l, m, e)
      BY <1>1, TypeHere
    <3> QED
      BY <3>1, <3>2, PidTyped DEF Goes, TypeRule, TypeNeeds, KnowsTypes, TypeInv
  <2>3. a.reg \cup {Pid(p)} \in SUBSET Pids /\ a.reg \ {Pid(p)} \in SUBSET Pids /\ a.reg \ dead \in SUBSET Pids
    BY <2>2
  <2>4. ASSUME NEW pids \in SUBSET Pids, Got(p, [a EXCEPT !.reg = pids], Put("reg", "json"))
        PROVE  RegistryMove(p)
    <3> DEFINE b == [a EXCEPT !.reg = pids]
    <3>1. b \in ActType /\ b.op = a.op /\ b.todo = a.todo /\ b.sys = a.sys
      BY <1>2, RegistryWritten
    <3>2. Got(p, b, Put("reg", "json"))
      BY <2>4
    <3> HIDE DEF b
    <3> QED
      BY <1>1, <3>1, <3>2, RegistrySeqs, RegistryGot
  <2>5. CASE Got(p, a, <<>>)
    BY <1>1, <1>2, <2>5, RegistrySeqs, RegistryGot
  <2> HIDE DEF dead
  <2> QED
    BY <2>1, <2>2, <2>3, <2>4, <2>5
<1> QED
  BY <1>1, <1>3, <1>4, <1>5, <1>6, <1>7, RegistryFiles

-----------------------------------------------------------------------------
(***************************************************************************)
(* The arbiter's lock and the fingerprint, along a program.  `free': the   *)
(* process does not hold the lock; `sure': it has a fingerprint; `json'    *)
(* and `tmp': the JSON file is there, or its temporary file; `pres': the   *)
(* JSON file or the binary one is there.                                   *)
(***************************************************************************)
LockNeeds(x) ==
    CASE x[1] = "lock" -> {"free"}
      [] x[1] = "syncIfZero" -> {"pres"}
      [] x[1] = "calibrateIfZero" -> {"sure"}
      [] x[1] = "rename" -> IF x[3] = "json" THEN {"tmp"} ELSE {"json"}
      [] x[1] \in {"open", "fill", "remove"} /\ x[2] = "sys" /\ x[3] = "bin" -> {"json"}
      [] x[1] \in {"require", "editPerm"} -> {"free", "pres"}
      [] OTHER -> {}

(* What a step adds to what is known. *)
LockGains(x) ==
    CASE x[1] = "unlock" -> {"free"}
      [] x[1] = "loadSys" -> {"sure", "pres"}
      [] x[1] \in {"probe", "orBlank"} -> {"sure"}
      [] x[1] = "rename" /\ x[3] = "json" -> {"json", "pres"}
      [] x[1] = "open" /\ x[2] = "sys" /\ x[3] = "json" -> {"json", "tmp", "pres"}
      [] x[1] = "open" /\ x[2] = "sys" /\ x[3] = "json.tmp" -> {"tmp"}
      [] OTHER -> {}

(* What a step takes from it. *)
LockLoses(x) == IF x[1] = "lock" THEN {"free"} ELSE {}

(* A rename fails when another process renamed the file: it is there then. *)
(* A file fails to open when it is read-only.                              *)
LockFails(x) ==
    x[1] = "rename" \/ (x[1] = "open" /\ x[2] = "sys" /\ x[3] \in {"json", "bin"})

(* What is known when it failed. *)
StillThere(x) == IF x[1] = "rename" THEN {"json", "pres"} ELSE {}

(* An error leaves no fingerprint.  Loading the fingerprint takes the lock *)
(* when no file of it is there, and fails only then.                       *)
LockRule(l, x, m) ==
    /\ LockNeeds(x) \subseteq l.now
    /\ m.now \subseteq (l.now \ LockLoses(x)) \cup LockGains(x)
    /\ IF x[1] \in Catchers THEN l.now \subseteq l.then ELSE m.then = l.then
    /\ LockFails(x) => l.then \subseteq (l.now \cup StillThere(x)) \ {"sure"}
    /\ x[1] = "loadSys" =>
          \/ "pres" \in l.now
          \/ "free" \in l.now /\ l.then \subseteq (l.now \cup {"json", "pres"}) \ {"sure"}

(* The rules as a set of label, step, label. *)
LockRules == {t \in Label \X Steps \X Label : LockRule(t[1], t[2], t[3])}

(* The rules, spelled out. *)
LEMMA LockRulesDef ==
    ASSUME NEW l \in Label, NEW m \in Label, NEW x \in Steps
    PROVE  <<l, x, m>> \in LockRules <=> LockRule(l, x, m)
<1> DEFINE t == <<l, x, m>>
<1>1. t \in Label \X Steps \X Label /\ t[1] = l /\ t[2] = x /\ t[3] = m
  OBVIOUS
<1>2. t \in LockRules <=> LockRule(t[1], t[2], t[3])
  <2> HIDE DEF t
  <2> QED
    BY <1>1 DEF LockRules
<1> QED
  BY <1>1, <1>2

(* The rules keep what is promised where errors are caught. *)
LEMMA LockThrowing == Throwing(LockRules)
  BY LockRulesDef DEF Throwing, LockRule

(* A step that is no catcher and no load of the fingerprint. *)
LEMMA LockTriple ==
    ASSUME NEW N \in SUBSET Claims, NEW T \in SUBSET Claims, NEW M \in SUBSET Claims,
           NEW x \in Steps, x[1] \notin Catchers, x[1] # "loadSys",
           LockNeeds(x) \subseteq N, M \subseteq (N \ LockLoses(x)) \cup LockGains(x),
           LockFails(x) => T \subseteq (N \cup StillThere(x)) \ {"sure"}
    PROVE  <<Knowing(N, T), x, Knowing(M, T)>> \in LockRules
<1>1. LockRule(Knowing(N, T), x, Knowing(M, T))
  BY KnowingLabel DEF LockRule
<1> QED
  BY <1>1, KnowingLabel, LockRulesDef

(* Where an error is caught, what was promised is known. *)
LEMMA LockCatch ==
    ASSUME NEW N \in SUBSET Claims, NEW T \in SUBSET Claims, NEW V \in SUBSET Claims,
           N \subseteq T, NEW what \in Catchers, what = "require" => {"free", "pres"} \subseteq N
    PROVE  Do(what) \in Steps /\ <<Knowing(N, T), Do(what), Knowing(N, V)>> \in LockRules
<1> DEFINE x == Do(what)
<1>0. x \in Steps /\ x[1] = what
  BY Zenon DEF Do, Steps, Catchers, Words, Places, Extensions
<1>1. LockNeeds(x) \subseteq N /\ LockLoses(x) = {} /\ ~LockFails(x) /\ x[1] # "loadSys" /\ x[1] \in Catchers
  BY <1>0 DEF LockNeeds, LockLoses, LockFails, Catchers
<1> HIDE DEF x
<1>2. LockRule(Knowing(N, T), x, Knowing(N, V))
  BY <1>0, <1>1, KnowingLabel DEF LockRule
<1> QED
  BY <1>0, <1>2, KnowingLabel, LockRulesDef DEF x

(* Loading the fingerprint, where a file of it is there or the lock is free. *)
LEMMA LockLoad ==
    ASSUME NEW N \in SUBSET Claims, NEW T \in SUBSET Claims, NEW M \in SUBSET Claims,
           M \subseteq N \cup {"sure", "pres"},
           "pres" \in N \/ ("free" \in N /\ T \subseteq (N \cup {"json", "pres"}) \ {"sure"})
    PROVE  Do("loadSys") \in Steps /\ <<Knowing(N, T), Do("loadSys"), Knowing(M, T)>> \in LockRules
<1> DEFINE x == Do("loadSys")
<1>0. x \in Steps /\ x[1] = "loadSys"
  BY Zenon DEF Do, Steps, Words, Places, Extensions
<1>1. LockNeeds(x) = {} /\ LockLoses(x) = {} /\ LockGains(x) = {"sure", "pres"} /\ ~LockFails(x)
      /\ x[1] \notin Catchers
  BY <1>0 DEF LockNeeds, LockLoses, LockGains, LockFails, Catchers
<1> HIDE DEF x
<1>2. LockRule(Knowing(N, T), x, Knowing(M, T))
  BY <1>0, <1>1, KnowingLabel DEF LockRule
<1> QED
  BY <1>0, <1>2, KnowingLabel, LockRulesDef DEF x

(* Steps that have nothing to do with it. *)
LEMMA LockNeutral ==
    ASSUME NEW x \in SettingSteps \cup RegistrySteps
    PROVE  /\ x \in Steps /\ x[1] \notin Catchers /\ x[1] # "loadSys"
           /\ LockNeeds(x) = {} /\ LockGains(x) = {} /\ LockLoses(x) = {} /\ ~LockFails(x)
<1>1. x \in Steps /\ x[1] \notin Catchers /\ x[1] # "loadSys"
  BY DEF SettingSteps, RegistrySteps, Catchers
<1>2. x[1] \in {"open", "fill", "remove"} => x[2] # "sys"
  BY DEF SettingSteps, RegistrySteps, Settings
<1>3. x[1] \notin {"lock", "unlock", "syncIfZero", "calibrateIfZero", "rename", "require", "editPerm",
                   "probe", "orBlank"}
  BY DEF SettingSteps, RegistrySteps
<1> QED
  BY <1>1, <1>2, <1>3 DEF LockNeeds, LockGains, LockLoses, LockFails

(* They keep what is known, or part of it. *)
LEMMA LockStays ==
    ASSUME NEW N \in SUBSET Claims, NEW T \in SUBSET Claims, NEW M \in SUBSET N,
           NEW x \in SettingSteps \cup RegistrySteps
    PROVE  x \in Steps /\ <<Knowing(N, T), x, Knowing(M, T)>> \in LockRules
<1>1. /\ x \in Steps /\ x[1] \notin Catchers /\ x[1] # "loadSys"
      /\ LockNeeds(x) = {} /\ LockGains(x) = {} /\ LockLoses(x) = {} /\ ~LockFails(x)
  BY LockNeutral
<1>2. LockNeeds(x) \subseteq N /\ M \subseteq (N \ LockLoses(x)) \cup LockGains(x) /\ M \in SUBSET Claims
  BY <1>1
<1> QED
  BY <1>1, <1>2, LockTriple

(* Sequences of them are paths. *)
LEMMA LockPlainPath ==
    ASSUME NEW l \in Label, NEW s, s \in Seq(SettingSteps) \/ s \in Seq(RegistrySteps)
    PROVE  Path(LockRules, s, l, l)
<1>1. s \in Seq(Steps)
  BY SettingSeqs, RegistrySeqs
<1>2. \A i \in 1..Len(s) : s[i] \in SettingSteps \cup RegistrySteps
  BY ElementOfSeq
<1>3. l.now \in SUBSET Claims /\ l.then \in SUBSET Claims /\ Knowing(l.now, l.then) = l
  BY LabelParts
<1>4. \A i \in 1..Len(s) : <<l, s[i], l>> \in LockRules
  <2> SUFFICES ASSUME NEW i \in 1..Len(s) PROVE <<l, s[i], l>> \in LockRules
    OBVIOUS
  <2>1. s[i] \in SettingSteps \cup RegistrySteps /\ l.now \in SUBSET l.now
    BY <1>2
  <2>2. <<Knowing(l.now, l.then), s[i], Knowing(l.now, l.then)>> \in LockRules
    BY <1>3, <2>1, LockStays
  <2> QED
    BY <1>3, <2>2
<1> QED
  BY <1>1, <1>4, PathStay

(* Calls that have nothing to do with it. *)
PlainCalls ==
    {"loadPerm", "loadBoost", "change", "tune", "saved", "edit", "total", "fit", "forget",
     "writable", "readonly", "loadReg", "regAdd", "regRemove", "regContext", "regPurge",
     "allocate", "free"}

(* They are steps that keep what is known, or part of it. *)
LEMMA LockPlain ==
    ASSUME NEW N \in SUBSET Claims, NEW T \in SUBSET Claims, NEW M \in SUBSET N,
           NEW what \in PlainCalls
    PROVE  Do(what) \in Steps /\ <<Knowing(N, T), Do(what), Knowing(M, T)>> \in LockRules
<1>1. Do(what) \in SettingSteps \cup RegistrySteps
  BY Zenon DEF PlainCalls, Do, SettingSteps, RegistrySteps, Steps, Words, Places, Extensions
<1> QED
  BY <1>1, LockStays

(* Calls of the arbiter and of the prober, and what they need and give. *)
LEMMA LockCall ==
    ASSUME NEW N \in SUBSET Claims, NEW T \in SUBSET Claims, NEW M \in SUBSET Claims,
           NEW what \in {"lock", "unlock", "syncIfZero", "calibrateIfZero", "probe", "orBlank",
                         "editPerm"},
           what = "lock" => "free" \in N /\ M \subseteq N \ {"free"},
           what = "unlock" => M \subseteq N \cup {"free"},
           what = "syncIfZero" => "pres" \in N,
           what = "calibrateIfZero" => "sure" \in N,
           what \in {"syncIfZero", "calibrateIfZero"} => M \subseteq N,
           what = "editPerm" => {"free", "pres"} \subseteq N /\ M \subseteq N,
           what \in {"probe", "orBlank"} => M \subseteq N \cup {"sure"}
    PROVE  Do(what) \in Steps /\ <<Knowing(N, T), Do(what), Knowing(M, T)>> \in LockRules
<1> DEFINE x == Do(what)
<1>0. x \in Steps /\ x[1] = what
  BY Zenon DEF Do, Steps, Words, Places, Extensions
<1>1. x[1] \notin Catchers /\ x[1] # "loadSys" /\ ~LockFails(x)
  BY <1>0 DEF LockFails, Catchers
<1>2. LockNeeds(x) \subseteq N /\ M \subseteq (N \ LockLoses(x)) \cup LockGains(x)
  <2> HIDE DEF x
  <2> QED
    BY <1>0 DEF LockNeeds, LockLoses, LockGains
<1> HIDE DEF x
<1>3. <<Knowing(N, T), x, Knowing(M, T)>> \in LockRules
  BY <1>0, <1>1, <1>2, LockTriple
<1> QED
  BY <1>0, <1>3 DEF x

(* Steps on the files of the fingerprint. *)
LEMMA LockFile ==
    ASSUME NEW N \in SUBSET Claims, NEW T \in SUBSET Claims, NEW M \in SUBSET Claims,
           NEW what \in {"open", "fill", "remove", "rename"},
           NEW ext \in {"json", "bin", "json.tmp", "bin.tmp"},
           what = "rename" => ext \in {"json", "bin"} /\ T \subseteq (N \cup {"json", "pres"}) \ {"sure"},
           what = "rename" /\ ext = "json" => "tmp" \in N,
           ext = "bin" => "json" \in N,
           what = "open" /\ ext \in {"json", "bin"} => T \subseteq N \ {"sure"},
           M \subseteq N \cup (IF what = "rename" /\ ext = "json" THEN {"json", "pres"}
                               ELSE IF what = "open" /\ ext = "json" THEN {"json", "tmp", "pres"}
                               ELSE IF what = "open" /\ ext = "json.tmp" THEN {"tmp"} ELSE {})
    PROVE  <<what, "sys", ext>> \in Steps
           /\ <<Knowing(N, T), <<what, "sys", ext>>, Knowing(M, T)>> \in LockRules
<1> DEFINE x == <<what, "sys", ext>>
<1>0. x \in Steps /\ x[1] = what /\ x[2] = "sys" /\ x[3] = ext
  BY Zenon DEF Steps, Words, Places, Extensions
<1>1. x[1] \notin Catchers /\ x[1] # "loadSys"
  BY <1>0 DEF Catchers
<1> HIDE DEF x
<1>2. LockNeeds(x) \subseteq N
  BY <1>0 DEF LockNeeds
<1>3. LockLoses(x) = {}
  BY <1>0 DEF LockLoses
<1>4. LockGains(x) = IF what = "rename" /\ ext = "json" THEN {"json", "pres"}
                     ELSE IF what = "open" /\ ext = "json" THEN {"json", "tmp", "pres"}
                     ELSE IF what = "open" /\ ext = "json.tmp" THEN {"tmp"} ELSE {}
  BY <1>0 DEF LockGains
<1>5. LockFails(x) => T \subseteq (N \cup StillThere(x)) \ {"sure"}
  BY <1>0 DEF LockFails, StillThere
<1>6. <<Knowing(N, T), x, Knowing(M, T)>> \in LockRules
  BY <1>0, <1>1, <1>2, <1>3, <1>4, <1>5, LockTriple
<1> QED
  BY <1>0, <1>6 DEF x

-----------------------------------------------------------------------------
(* Parts of programs *)

(* After a save by temporary files the JSON file is there, or was renamed  *)
(* by another process.                                                     *)
LEMMA LockSaveAtomic ==
    ASSUME NEW N \in SUBSET Claims, NEW T \in SUBSET Claims, NEW M \in SUBSET Claims,
           T \subseteq (N \cup {"json", "pres"}) \ {"sure"}, M \subseteq N \cup {"json", "pres"}
    PROVE  Path(LockRules, SaveAtomic("sys"), Knowing(N, T), Knowing(M, T))
<1> DEFINE N1 == N \cup {"tmp"}
           N2 == N \cup {"tmp", "json", "pres"}
           l == Knowing(N, T)
           l1 == Knowing(N1, T)
           l2 == Knowing(N2, T)
           m == Knowing(M, T)
           a == <<"open", "sys", "json.tmp">>
           b == <<"fill", "sys", "json.tmp">>
           c == <<"open", "sys", "bin.tmp">>
           d == <<"fill", "sys", "bin.tmp">>
           x == <<"rename", "sys", "json">>
           y == <<"rename", "sys", "bin">>
<1>0. N1 \in SUBSET Claims /\ N2 \in SUBSET Claims
  BY DEF Claims, LockClaims
<1>k. l \in Label /\ l1 \in Label /\ l2 \in Label /\ m \in Label
  BY <1>0, KnowingLabel
<1>1. a \in Steps /\ <<l, a, l1>> \in LockRules
  BY <1>0, LockFile
<1>2. b \in Steps /\ <<l1, b, l1>> \in LockRules
  BY <1>0, LockFile
<1>3. c \in Steps /\ <<l1, c, l1>> \in LockRules
  BY <1>0, LockFile
<1>4. d \in Steps /\ <<l1, d, l1>> \in LockRules
  BY <1>0, LockFile
<1>5. x \in Steps /\ <<l1, x, l2>> \in LockRules
  BY <1>0, LockFile
<1>6. y \in Steps /\ <<l2, y, m>> \in LockRules
  BY <1>0, LockFile
<1>7. SaveAtomic("sys") = (<<a, b>> \o <<c, d>>) \o <<x, y>>
  BY DEF SaveAtomic, Put
<1> HIDE DEF l, l1, l2, m, a, b, c, d, x, y
<1>8. Path(LockRules, <<a, b>>, l, l1) /\ Path(LockRules, <<c, d>>, l1, l1)
      /\ Path(LockRules, <<x, y>>, l1, m)
  BY <1>k, <1>1, <1>2, <1>3, <1>4, <1>5, <1>6, PathTwo
<1>9. Path(LockRules, <<a, b>> \o <<c, d>>, l, l1)
  BY <1>8, PathCat
<1>10. Path(LockRules, SaveAtomic("sys"), l, m)
  BY <1>7, <1>8, <1>9, PathCat
<1> QED
  BY <1>10 DEF l, m

(* The recovery scan takes the lock, which is free then. *)
LEMMA LockAutoCalibrate ==
    ASSUME NEW N \in SUBSET Claims, NEW T \in SUBSET Claims, NEW M \in SUBSET Claims,
           "free" \in N,
           T \subseteq (N \cup {"json", "pres"}) \ {"sure"}, M \subseteq N \cup {"sure", "json", "pres"}
    PROVE  Path(LockRules, AutoCalibrate, Knowing(N, T), Knowing(M, T))
<1> DEFINE N1 == N \cup {"sure"}
           N2 == N \cup {"sure", "json", "pres"}
           N3 == N2 \ {"free"}
           l == Knowing(N, T)
           l1 == Knowing(N1, T)
           l2 == Knowing(N2, T)
           l3 == Knowing(N3, T)
           m == Knowing(M, T)
           a == Do("probe")
           b == Do("loadBoost")
           c == Do("lock")
           d == Do("total")
           u == Do("unlock")
<1>0. N1 \in SUBSET Claims /\ N2 \in SUBSET Claims /\ N3 \in SUBSET Claims
      /\ N2 \in SUBSET N2 /\ N3 \in SUBSET N3
  BY DEF Claims, LockClaims
<1>k. l \in Label /\ l1 \in Label /\ l2 \in Label /\ l3 \in Label /\ m \in Label
  BY <1>0, KnowingLabel
<1>1. a \in Steps /\ <<l, a, l1>> \in LockRules
  BY <1>0, LockCall
<1>2. Path(LockRules, SaveAtomic("sys"), l1, l2)
  BY <1>0, LockSaveAtomic
<1>3. b \in Steps /\ <<l2, b, l2>> \in LockRules
  BY <1>0, LockPlain DEF PlainCalls
<1>4. Path(LockRules, SavePlain("boost"), l2, l2)
  BY <1>k, SavePlainSteps, LockPlainPath DEF Settings
<1>5. c \in Steps /\ <<l2, c, l3>> \in LockRules
  BY <1>0, LockCall
<1>6. d \in Steps /\ <<l3, d, l3>> \in LockRules
  BY <1>0, LockPlain DEF PlainCalls
<1>7. u \in Steps /\ <<l3, u, m>> \in LockRules
  <2>1. M \subseteq N3 \cup {"free"}
    OBVIOUS
  <2> QED
    BY <1>0, <2>1, LockCall
<1>8. AutoCalibrate = (((<<a>> \o SaveAtomic("sys")) \o <<b>>) \o SavePlain("boost")) \o <<c, d, u>>
  BY DEF AutoCalibrate
<1> HIDE DEF l, l1, l2, l3, m, a, b, c, d, u
<1>9. Path(LockRules, <<a>>, l, l1) /\ Path(LockRules, <<b>>, l2, l2)
  BY <1>k, <1>1, <1>3, PathOne
<1>10. Path(LockRules, <<c, d, u>>, l2, m)
  BY <1>k, <1>5, <1>6, <1>7, PathThree
<1>11. Path(LockRules, <<a>> \o SaveAtomic("sys"), l, l2)
  BY <1>2, <1>9, PathCat
<1>12. Path(LockRules, (<<a>> \o SaveAtomic("sys")) \o <<b>>, l, l2)
  BY <1>9, <1>11, PathCat
<1>13. Path(LockRules, ((<<a>> \o SaveAtomic("sys")) \o <<b>>) \o SavePlain("boost"), l, l2)
  BY <1>4, <1>12, PathCat
<1>14. Path(LockRules, AutoCalibrate, l, m)
  BY <1>8, <1>10, <1>13, PathCat
<1> QED
  BY <1>14 DEF l, m

(* The binary copy is removed, and written again, where the JSON file is there. *)
LEMMA LockHeal ==
    ASSUME NEW N \in SUBSET Claims, NEW T \in SUBSET Claims, NEW M \in SUBSET N,
           "json" \in N, T \subseteq (N \cup {"pres"}) \ {"sure"}
    PROVE  Path(LockRules, Heal, Knowing(N, T), Knowing(M, T))
<1> DEFINE l == Knowing(N, T)
           m == Knowing(M, T)
           x == <<"remove", "sys", "bin">>
           a == Do("probe")
<1>k. l \in Label /\ m \in Label
  BY KnowingLabel
<1>1. x \in Steps /\ <<l, x, l>> \in LockRules
  BY LockFile
<1>2. a \in Steps /\ <<l, a, l>> \in LockRules
  <2>1. N \subseteq N \cup {"sure"}
    OBVIOUS
  <2> QED
    BY <2>1, LockCall
<1>3. Path(LockRules, SaveAtomic("sys"), l, m)
  BY LockSaveAtomic
<1>4. Heal = <<x, a>> \o SaveAtomic("sys")
  BY DEF Heal
<1> HIDE DEF l, m, x, a
<1>5. Path(LockRules, <<x, a>>, l, l)
  BY <1>k, <1>1, <1>2, PathTwo
<1>6. Path(LockRules, Heal, l, m)
  BY <1>3, <1>4, <1>5, PathCat
<1> QED
  BY <1>6 DEF l, m

(* The synchronisation of the total finds a fingerprint, where one is there. *)
LEMMA LockSyncTotal ==
    ASSUME NEW N \in SUBSET Claims, NEW V \in SUBSET Claims, "pres" \in N
    PROVE  LET T == N \cup {"sure"} IN
           T \in SUBSET Claims /\ Path(LockRules, SyncTotal, Knowing(N, T), Knowing(T, V))
<1> DEFINE T == N \cup {"sure"}
           l == Knowing(N, T)
           k == Knowing(T, T)
           m == Knowing(T, V)
           a == Do("loadSys")
           b == Do("catch")
           c == Do("total")
<1>0. T \in SUBSET Claims /\ T \in SUBSET T
  BY DEF Claims, LockClaims
<1>k. l \in Label /\ k \in Label /\ m \in Label
  BY <1>0, KnowingLabel
<1>1. a \in Steps /\ <<l, a, k>> \in LockRules
  BY <1>0, LockLoad
<1>2. b \in Steps /\ <<k, b, m>> \in LockRules
  BY <1>0, LockCatch DEF Catchers
<1>3. c \in Steps /\ <<m, c, m>> \in LockRules
  BY <1>0, LockPlain DEF PlainCalls
<1>4. SyncTotal = <<a, b, c>>
  BY DEF SyncTotal
<1> HIDE DEF l, k, m, a, b, c
<1>5. Path(LockRules, SyncTotal, l, m)
  BY <1>k, <1>1, <1>2, <1>3, <1>4, PathThree
<1> QED
  BY <1>0, <1>5 DEF l, m

(* What operations find, but the boot, and all leave: the lock is free and *)
(* a file of the fingerprint is there.                                     *)
Both == {"free", "pres"}

(* A negotiation ends with the lock free. *)
LEMMA LockNegotiate ==
    /\ Both \in SUBSET Claims /\ {"pres", "sure"} \in SUBSET Claims
    /\ Path(LockRules, Negotiate, Knowing(Both, {"pres", "sure"}), Knowing(Both, Both))
<1> DEFINE S == {"pres", "sure"}
           P == {"pres"}
           l == Knowing(Both, S)
           k == Knowing(P, S)
           n == Knowing(S, Both)
           m == Knowing(Both, Both)
           a == Do("lock")
           b == Do("calibrateIfZero")
           c == Do("fit")
           d == Do("loadReg")
           r == Do("regContext")
           u == Do("unlock")
<1>0. Both \in SUBSET Claims /\ S \in SUBSET Claims /\ P \in SUBSET Claims /\ S \in SUBSET S
  BY DEF Claims, LockClaims, Both
<1>k. l \in Label /\ k \in Label /\ n \in Label /\ m \in Label
  BY <1>0, KnowingLabel
<1>1. a \in Steps /\ <<l, a, k>> \in LockRules
  <2>1. "free" \in Both /\ P \subseteq Both \ {"free"}
    BY DEF Both
  <2> QED
    BY <1>0, <2>1, LockCall
<1>2. Path(LockRules, SyncTotal, k, n)
  <2>1. P \cup {"sure"} = S /\ "pres" \in P
    OBVIOUS
  <2> HIDE DEF P, S
  <2> QED
    BY <1>0, <2>1, LockSyncTotal
<1>3. b \in Steps /\ <<n, b, n>> \in LockRules
  BY <1>0, LockCall
<1>4. c \in Steps /\ <<n, c, n>> \in LockRules
  BY <1>0, LockPlain DEF PlainCalls
<1>5. d \in Steps /\ <<n, d, n>> \in LockRules
  BY <1>0, LockPlain DEF PlainCalls
<1>6. r \in Steps /\ <<n, r, n>> \in LockRules
  BY <1>0, LockPlain DEF PlainCalls
<1>7. u \in Steps /\ <<n, u, m>> \in LockRules
  <2>1. Both \subseteq S \cup {"free"}
    BY DEF Both
  <2> QED
    BY <1>0, <2>1, LockCall
<1>8. Negotiate = ((<<a>> \o SyncTotal) \o <<b, c>>) \o <<d, r, u>>
  BY DEF Negotiate
<1> HIDE DEF l, k, n, m, a, b, c, d, r, u
<1>9. Path(LockRules, <<a>>, l, k) /\ Path(LockRules, <<b, c>>, n, n) /\ Path(LockRules, <<d, r, u>>, n, m)
  BY <1>k, <1>1, <1>3, <1>4, <1>5, <1>6, <1>7, PathOne, PathTwo, PathThree
<1>10. Path(LockRules, <<a>> \o SyncTotal, l, n)
  BY <1>2, <1>9, PathCat
<1>11. Path(LockRules, (<<a>> \o SyncTotal) \o <<b, c>>, l, n)
  BY <1>9, <1>10, PathCat
<1>12. Path(LockRules, Negotiate, l, m)
  BY <1>8, <1>9, <1>11, PathCat
<1> QED
  BY <1>0, <1>12 DEF l, m

(* The boot leaves a file of the fingerprint. *)
LEMMA LockMainBoot ==
    {"free"} \in SUBSET Claims
    /\ Path(LockRules, MainBoot, Knowing({"free"}, Both), Knowing(Both, Both))
<1> DEFINE F == {"free"}
           l == Knowing(F, Both)
           m == Knowing(Both, Both)
           a == Do("loadSys")
           b == Do("catch")
           c == Do("loadBoost")
           d == Do("tune")
<1>0. F \in SUBSET Claims /\ Both \in SUBSET Claims /\ Both \in SUBSET Both
  BY DEF Claims, LockClaims, Both
<1>k. l \in Label /\ m \in Label
  BY <1>0, KnowingLabel
<1>1. a \in Steps /\ <<l, a, m>> \in LockRules
  <2>1. Both \subseteq F \cup {"sure", "pres"} /\ "free" \in F /\ Both \subseteq (F \cup {"json", "pres"}) \ {"sure"}
    BY DEF Both
  <2> QED
    BY <1>0, <2>1, LockLoad
<1>2. <<m, a, m>> \in LockRules
  <2>1. Both \subseteq Both \cup {"sure", "pres"} /\ "pres" \in Both
    BY DEF Both
  <2> QED
    BY <1>0, <2>1, LockLoad
<1>3. b \in Steps /\ <<m, b, m>> \in LockRules
  BY <1>0, LockCatch DEF Catchers
<1>4. c \in Steps /\ <<m, c, m>> \in LockRules
  BY <1>0, LockPlain DEF PlainCalls
<1>5. d \in Steps /\ <<m, d, m>> \in LockRules
  BY <1>0, LockPlain DEF PlainCalls
<1>6. MainBoot = <<a, b>> \o <<c, a, b, d>>
  BY DEF MainBoot, Ignite
<1> HIDE DEF l, m, a, b, c, d
<1>7. Path(LockRules, <<a, b>>, l, m)
  BY <1>k, <1>1, <1>3, PathTwo
<1>8. Path(LockRules, <<c, a, b, d>>, m, m)
  BY <1>k, <1>1, <1>2, <1>3, <1>4, <1>5, PathFour
<1>9. Path(LockRules, MainBoot, l, m)
  BY <1>6, <1>7, <1>8, PathCat
<1> QED
  BY <1>0, <1>9 DEF l, m

(* Loading a model, and applying the booster to it. *)
LEMMA LockModels ==
    /\ Path(LockRules, Discover, Knowing(Both, Both), Knowing(Both, Both))
    /\ Path(LockRules, ApplyBooster, Knowing(Both, {"pres", "sure"}), Knowing(Both, Both))
<1> DEFINE S == {"pres", "sure"}
           l == Knowing(Both, Both)
           k == Knowing(Both, S)
           a == Do("loadBoost")
           b == Do("loadSys")
           c == Do("require")
           d == Do("forget")
<1>0. Both \in SUBSET Claims /\ S \in SUBSET Claims /\ Both \in SUBSET Both
  BY LockNegotiate
<1>k. l \in Label /\ k \in Label
  BY <1>0, KnowingLabel
<1>n. Path(LockRules, Negotiate, k, l)
  BY LockNegotiate
<1>1. a \in Steps /\ <<l, a, l>> \in LockRules
  BY <1>0, LockPlain DEF PlainCalls
<1>2. b \in Steps /\ <<l, b, l>> \in LockRules
  <2>1. Both \subseteq Both \cup {"sure", "pres"} /\ "pres" \in Both
    BY DEF Both
  <2> QED
    BY <1>0, <2>1, LockLoad
<1>3. c \in Steps /\ <<l, c, k>> \in LockRules
  BY <1>0, LockCatch DEF Catchers, Both
<1>4. d \in Steps /\ <<k, d, k>> \in LockRules
  BY <1>0, LockPlain DEF PlainCalls
<1>5. <<k, a, k>> \in LockRules
  BY <1>0, LockPlain DEF PlainCalls
<1>6. Discover = <<a, b, c, d, a>> \o Negotiate /\ ApplyBooster = <<a>> \o Negotiate
  BY DEF Discover, ApplyBooster
<1> HIDE DEF l, k, a, b, c, d
<1>7. Path(LockRules, <<a, b, c, d, a>>, l, k)
  BY <1>k, <1>1, <1>2, <1>3, <1>4, <1>5, PathFive
<1>8. Path(LockRules, <<a>>, k, k)
  BY <1>k, <1>1, <1>5, PathOne
<1>9. Path(LockRules, Discover, l, l) /\ Path(LockRules, ApplyBooster, k, l)
  BY <1>n, <1>6, <1>7, <1>8, PathCat
<1> QED
  BY <1>9 DEF l, k, S

(* The update of a field, which writes the fingerprint in place. *)
LEMMA LockUpdateField ==
    Path(LockRules, UpdateField, Knowing(Both, Both), Knowing(Both, Both))
<1> DEFINE N == Both \cup {"json"}
           l == Knowing(Both, Both)
           n == Knowing(N, Both)
           a == Do("probe")
           b == Do("writable")
           oj == <<"open", "sys", "json">>
           fj == <<"fill", "sys", "json">>
           ob == <<"open", "sys", "bin">>
           fb == <<"fill", "sys", "bin">>
           c == Do("readonly")
           d == Do("loadBoost")
           g == Do("change")
<1>0. Both \in SUBSET Claims /\ N \in SUBSET Claims /\ Both \in SUBSET Both /\ Both \in SUBSET N /\ N \in SUBSET N
      /\ "sure" \notin Both /\ "json" \in N
  BY DEF Claims, LockClaims, Both
<1>k. l \in Label /\ n \in Label
  BY <1>0, KnowingLabel
<1>1. a \in Steps /\ <<l, a, l>> \in LockRules
  <2>1. Both \subseteq Both \cup {"sure"}
    OBVIOUS
  <2> QED
    BY <1>0, <2>1, LockCall
<1>2. b \in Steps /\ <<l, b, l>> \in LockRules
  BY <1>0, LockPlain DEF PlainCalls
<1>3. oj \in Steps /\ <<l, oj, n>> \in LockRules
  <2>1. Both \subseteq Both \ {"sure"} /\ N \subseteq Both \cup {"json", "tmp", "pres"}
    BY <1>0
  <2> HIDE DEF N
  <2> QED
    BY <1>0, <2>1, LockFile
<1>4. fj \in Steps /\ <<n, fj, n>> \in LockRules /\ <<n, fj, l>> \in LockRules
  <2> HIDE DEF N
  <2>1. <<n, fj, n>> \in LockRules
    BY <1>0, LockFile
  <2>2. fj \in Steps /\ <<n, fj, l>> \in LockRules
    BY <1>0, LockFile
  <2> QED
    BY <2>1, <2>2
<1>5. ob \in Steps /\ <<n, ob, n>> \in LockRules
  <2>1. Both \subseteq N \ {"sure"}
    BY <1>0
  <2> HIDE DEF N
  <2> QED
    BY <1>0, <2>1, LockFile
<1>6. fb \in Steps /\ <<n, fb, l>> \in LockRules
  <2> HIDE DEF N
  <2> QED
    BY <1>0, LockFile
<1>7. c \in Steps /\ <<l, c, l>> \in LockRules
  BY <1>0, LockPlain DEF PlainCalls
<1>8. d \in Steps /\ <<l, d, l>> \in LockRules
  BY <1>0, LockPlain DEF PlainCalls
<1>9. g \in Steps /\ <<l, g, l>> \in LockRules
  BY <1>0, LockPlain DEF PlainCalls
<1>10. UpdateField = (((<<a, b>> \o (<<oj, fj>> \o <<ob, fb>>)) \o <<c>>) \o <<d, g>>) \o <<oj, fj>>
  BY DEF UpdateField, Persist, SavePlain, Put
<1> HIDE DEF l, n, a, b, oj, fj, ob, fb, c, d, g
<1>11. /\ Path(LockRules, <<a, b>>, l, l) /\ Path(LockRules, <<oj, fj>>, l, n)
       /\ Path(LockRules, <<ob, fb>>, n, l) /\ Path(LockRules, <<c>>, l, l)
       /\ Path(LockRules, <<d, g>>, l, l) /\ Path(LockRules, <<oj, fj>>, l, l)
  BY <1>k, <1>1, <1>2, <1>3, <1>4, <1>5, <1>6, <1>7, <1>8, <1>9, PathOne, PathTwo
<1>12. Path(LockRules, <<oj, fj>> \o <<ob, fb>>, l, l)
  BY <1>11, PathCat
<1>13. Path(LockRules, <<a, b>> \o (<<oj, fj>> \o <<ob, fb>>), l, l)
  BY <1>11, <1>12, PathCat
<1>14. Path(LockRules, (<<a, b>> \o (<<oj, fj>> \o <<ob, fb>>)) \o <<c>>, l, l)
  BY <1>11, <1>13, PathCat
<1>15. Path(LockRules, ((<<a, b>> \o (<<oj, fj>> \o <<ob, fb>>)) \o <<c>>) \o <<d, g>>, l, l)
  BY <1>11, <1>14, PathCat
<1>16. Path(LockRules, UpdateField, l, l)
  BY <1>10, <1>11, <1>15, PathCat
<1> QED
  BY <1>16 DEF l

(* Requests and releases hold the lock, and free it. *)
LEMMA LockArbiterOps ==
    /\ Path(LockRules, RequestVram, Knowing(Both, Both), Knowing(Both, Both))
    /\ Path(LockRules, ReleaseVram, Knowing(Both, Both), Knowing(Both, Both))
<1> DEFINE P == {"pres"}
           l == Knowing(Both, Both)
           k == Knowing(P, Both)
           a == Do("lock")
           b == Do("syncIfZero")
           c == Do("loadBoost")
           d == Do("allocate")
           u == Do("unlock")
           f == Do("free")
           g == Do("loadReg")
           r == Do("regRemove")
<1>0. Both \in SUBSET Claims /\ P \in SUBSET Claims /\ P \in SUBSET P
  BY DEF Claims, LockClaims, Both
<1>k. l \in Label /\ k \in Label
  BY <1>0, KnowingLabel
<1>1. a \in Steps /\ <<l, a, k>> \in LockRules
  <2>1. "free" \in Both /\ P \subseteq Both \ {"free"}
    BY DEF Both
  <2> QED
    BY <1>0, <2>1, LockCall
<1>2. b \in Steps /\ <<k, b, k>> \in LockRules
  BY <1>0, LockCall
<1>3. c \in Steps /\ <<k, c, k>> \in LockRules
  BY <1>0, LockPlain DEF PlainCalls
<1>4. d \in Steps /\ <<k, d, k>> \in LockRules
  BY <1>0, LockPlain DEF PlainCalls
<1>5. f \in Steps /\ <<k, f, k>> \in LockRules
  BY <1>0, LockPlain DEF PlainCalls
<1>6. g \in Steps /\ <<k, g, k>> \in LockRules
  BY <1>0, LockPlain DEF PlainCalls
<1>7. r \in Steps /\ <<k, r, k>> \in LockRules
  BY <1>0, LockPlain DEF PlainCalls
<1>8. u \in Steps /\ <<k, u, l>> \in LockRules
  <2>1. Both \subseteq P \cup {"free"}
    BY DEF Both
  <2> QED
    BY <1>0, <2>1, LockCall
<1>9. RequestVram = <<a, b, c, d, u>> /\ ReleaseVram = <<a, f, g, r, u>>
  BY DEF RequestVram, ReleaseVram
<1> HIDE DEF l, k, a, b, c, d, u, f, g, r
<1>10. Path(LockRules, RequestVram, l, l)
  BY <1>k, <1>1, <1>2, <1>3, <1>4, <1>8, <1>9, PathFive
<1>11. Path(LockRules, ReleaseVram, l, l)
  BY <1>k, <1>1, <1>5, <1>6, <1>7, <1>8, <1>9, PathFive
<1> QED
  BY <1>10, <1>11 DEF l

(* Loading something and changing it, and loading the fingerprint before a *)
(* reset of the booster.                                                   *)
LEMMA LockSimple ==
    LET b == Knowing(Both, Both) IN
    /\ \A what \in PlainCalls : Path(LockRules, <<Do(what)>>, b, b)
    /\ \A what, after \in PlainCalls : Path(LockRules, <<Do(what), Do(after)>>, b, b)
    /\ Path(LockRules, PermissionMenu, b, b)
    /\ Path(LockRules, <<Do("editPerm")>>, b, b)
    /\ Path(LockRules, ResetBooster, b, b)
<1> DEFINE l == Knowing(Both, Both)
<1>0. Both \in SUBSET Claims /\ Both \in SUBSET Both
  BY DEF Claims, LockClaims, Both
<1>k. l \in Label
  BY <1>0, KnowingLabel
<1>1. \A what \in PlainCalls : Do(what) \in Steps /\ <<l, Do(what), l>> \in LockRules
  BY <1>0, LockPlain
<1>2. Do("editPerm") \in Steps /\ <<l, Do("editPerm"), l>> \in LockRules
  <2>1. Both = {"free", "pres"}
    BY DEF Both
  <2> QED
    BY <1>0, <2>1, LockCall
<1>3. Do("loadSys") \in Steps /\ <<l, Do("loadSys"), l>> \in LockRules
  <2>1. Both \subseteq Both \cup {"sure", "pres"} /\ "pres" \in Both
    BY DEF Both
  <2> QED
    BY <1>0, <2>1, LockLoad
<1>4. Do("catch") \in Steps /\ <<l, Do("catch"), l>> \in LockRules
  BY <1>0, LockCatch DEF Catchers
<1>5. Do("loadPerm") \in Steps /\ <<l, Do("loadPerm"), l>> \in LockRules
      /\ Do("change") \in Steps /\ <<l, Do("change"), l>> \in LockRules
  BY <1>1 DEF PlainCalls
<1> HIDE DEF l
<1>6. \A what \in PlainCalls : Path(LockRules, <<Do(what)>>, l, l)
  BY <1>k, <1>1, PathOne
<1>7. \A what, after \in PlainCalls : Path(LockRules, <<Do(what), Do(after)>>, l, l)
  BY <1>k, <1>1, PathTwo
<1>8. Path(LockRules, PermissionMenu, l, l)
  BY <1>k, <1>2, <1>5, PathTwo DEF PermissionMenu
<1>9. Path(LockRules, ResetBooster, l, l)
  BY <1>k, <1>3, <1>4, <1>5, PathThree DEF ResetBooster
<1>10. Path(LockRules, <<Do("editPerm")>>, l, l)
  BY <1>k, <1>2, PathOne
<1> QED
  BY <1>6, <1>7, <1>8, <1>9, <1>10 DEF l

(* The recovery scan that the user asks for. *)
LEMMA LockCalibrate == Path(LockRules, AutoCalibrate, Knowing(Both, Both), Knowing(Both, Both))
<1>1. Both \in SUBSET Claims /\ "free" \in Both /\ Both \subseteq (Both \cup {"json", "pres"}) \ {"sure"}
      /\ Both \subseteq Both \cup {"sure", "json", "pres"}
  BY DEF Claims, LockClaims, Both
<1> QED
  BY <1>1, LockAutoCalibrate

(* What is known where an operation begins. *)
AtStart(op) == IF op = "boot" THEN {"free"} ELSE Both

(* Every program is a path, which leaves the lock free and a file there.   *)
LEMMA LockProgram ==
    ASSUME NEW op \in Ops
    PROVE  \E l, e \in Label :
              /\ l.now = AtStart(op) /\ Both \subseteq e.now /\ e.now \subseteq e.then
              /\ Path(LockRules, Program(op), l, e)
<1> DEFINE b == Knowing(Both, Both)
           f == Knowing({"free"}, Both)
           k == Knowing(Both, {"pres", "sure"})
           Goal == \E l, e \in Label :
              /\ l.now = AtStart(op) /\ Both \subseteq e.now /\ e.now \subseteq e.then
              /\ Path(LockRules, Program(op), l, e)
<1>0. Both \in SUBSET Claims /\ {"free"} \in SUBSET Claims /\ {"pres", "sure"} \in SUBSET Claims
  BY LockNegotiate, LockMainBoot
<1>k. b \in Label /\ b.now = Both /\ b.then = Both /\ f \in Label /\ f.now = {"free"}
      /\ k \in Label /\ k.now = Both
  BY <1>0, KnowingLabel
<1>p. /\ Path(LockRules, MainBoot, f, b) /\ Path(LockRules, ApplyBooster, k, b)
      /\ Path(LockRules, Discover, b, b) /\ Path(LockRules, UpdateField, b, b)
      /\ Path(LockRules, AutoCalibrate, b, b) /\ Path(LockRules, ResetBooster, b, b)
      /\ Path(LockRules, RequestVram, b, b) /\ Path(LockRules, ReleaseVram, b, b)
      /\ Path(LockRules, PermissionMenu, b, b)
  BY LockMainBoot, LockModels, LockUpdateField, LockCalibrate, LockSimple, LockArbiterOps
<1>q. /\ Path(LockRules, <<Do("loadPerm")>>, b, b) /\ Path(LockRules, <<Do("loadBoost")>>, b, b)
      /\ Path(LockRules, <<Do("change")>>, b, b)
      /\ Path(LockRules, <<Do("loadPerm"), Do("change")>>, b, b)
      /\ Path(LockRules, <<Do("loadBoost"), Do("change")>>, b, b)
      /\ Path(LockRules, <<Do("loadBoost"), Do("edit")>>, b, b)
      /\ Path(LockRules, <<Do("loadReg"), Do("regPurge")>>, b, b)
  BY Zenon, LockSimple DEF PlainCalls
<1> HIDE DEF b, f, k
<1>1. CASE op = "boot"
  <2>1. AtStart(op) = {"free"} /\ Program(op) = MainBoot
    BY <1>1 DEF AtStart, Program
  <2> QED
    BY <2>1, <1>p, <1>k
<1>2. CASE op = "applyBooster"
  <2>1. AtStart(op) = Both /\ Program(op) = ApplyBooster
    BY <1>2 DEF AtStart, Program
  <2> QED
    BY <2>1, <1>p, <1>k
<1>3. CASE op \notin {"boot", "applyBooster"}
  <2>1. AtStart(op) = Both
    BY <1>3 DEF AtStart
  <2>2. Path(LockRules, Program(op), b, b)
    <3>1. CASE op = "readPerm"
      BY <3>1, <1>q DEF Program
    <3>2. CASE op = "readBoost"
      BY <3>2, <1>q DEF Program
    <3>3. CASE op = "setPerm"
      BY <3>3, <1>q DEF Program, UpdatePermission
    <3>4. CASE op = "setBoost"
      BY <3>4, <1>q DEF Program, UpdateBooster, MenuPass
    <3>5. CASE op = "putBoost"
      BY <3>5, <1>q DEF Program
    <3>6. CASE op = "resetBoost"
      BY <3>6, <1>p DEF Program
    <3>7. CASE op = "editBoost"
      BY <3>7, <1>q DEF Program, BoosterMenu
    <3>8. CASE op = "editPerm"
      BY <3>8, <1>p DEF Program
    <3>9. CASE op = "calibrate"
      BY <3>9, <1>p DEF Program
    <3>10. CASE op = "updateField"
      BY <3>10, <1>p DEF Program
    <3>11. CASE op = "discover"
      BY <3>11, <1>p DEF Program
    <3>12. CASE op = "request"
      BY <3>12, <1>p DEF Program
    <3>13. CASE op = "release"
      BY <3>13, <1>p DEF Program
    <3>14. CASE op = "ps"
      BY <3>14, <1>q DEF Program, Ps
    <3> QED
      BY <1>3, <3>1, <3>2, <3>3, <3>4, <3>5, <3>6, <3>7, <3>8, <3>9, <3>10, <3>11, <3>12, <3>13, <3>14
         DEF Ops, PermOps
  <2> QED
    BY <1>k, <2>1, <2>2
<1> QED
  BY <1>1, <1>2, <1>3

-----------------------------------------------------------------------------
(***************************************************************************)
(* The invariant of the lock.  The files of the fingerprint only come: the *)
(* JSON file is never removed, its temporary file only becomes it, and the *)
(* binary one is removed only while the JSON file is there.                *)
(***************************************************************************)
There == file[<<"sys", "json">>] # Absent

(* Where it is renamed from the temporary file, that one is gone. *)
TmpThere == file[<<"sys", "json.tmp">>] # Absent \/ There

(* A file of the fingerprint is there. *)
Present == There \/ file[<<"sys", "bin">>] # Absent

(* What N says of p is so. *)
KnowsLock(p, N) ==
    /\ "free" \in N => ~mem[p].held
    /\ "sure" \in N => act[p].sys # None
    /\ "json" \in N => There
    /\ "tmp" \in N => TmpThere
    /\ "pres" \in N => Present

(* What is left of the program of p is a path, from what is known of p. *)
LockWalk(p) ==
    act[p].op # "idle" =>
        \E l, e \in Label :
            /\ KnowsLock(p, l.now) /\ Both \subseteq e.now /\ e.now \subseteq e.then
            /\ Path(LockRules, act[p].todo, l, e)

(* The inductive invariant, beside that of the types. *)
LockInv ==
    /\ file[<<"sys", "bin">>] = Torn => There
    /\ \A p \in Procs :
        /\ mem[p].booted => Present
        /\ act[p].op = "idle" => ~mem[p].held
        /\ LockWalk(p)

(* No step takes a file of the fingerprint away. *)
FilesStay ==
    /\ There => There'
    /\ TmpThere => TmpThere'
    /\ Present => Present'
    /\ file'[<<"sys", "bin">>] = Torn => There'

(* p is before a step, with what is known before it, after it and at the end. *)
LockGoes(p, l, m, e) ==
    /\ l \in Label /\ m \in Label /\ e \in Label
    /\ Both \subseteq e.now /\ e.now \subseteq e.then
    /\ KnowsLock(p, l.now)
    /\ LockRule(l, Head(act[p].todo), m)
    /\ Path(LockRules, act[p].todo, l, e)
    /\ Path(LockRules, Tail(act[p].todo), m, e)

(* A process that is not at its end is before a step. *)
LEMMA LockHere ==
    ASSUME TypeInv, LockInv, NEW p \in Procs, act[p].todo # <<>>
    PROVE  \E l, m, e \in Label : LockGoes(p, l, m, e)
<1>0. act[p].op # "idle"
  BY TypeHere
<1>1. PICK l \in Label, e \in Label :
        /\ KnowsLock(p, l.now) /\ Both \subseteq e.now /\ e.now \subseteq e.then
        /\ Path(LockRules, act[p].todo, l, e)
  BY <1>0 DEF LockInv, LockWalk
<1>2. Head(act[p].todo) \in Steps
      /\ \E m \in Label : <<l, Head(act[p].todo), m>> \in LockRules /\ Path(LockRules, Tail(act[p].todo), m, e)
  BY <1>1, PathHead
<1>3. PICK m \in Label : <<l, Head(act[p].todo), m>> \in LockRules /\ Path(LockRules, Tail(act[p].todo), m, e)
  BY <1>2
<1>4. LockRule(l, Head(act[p].todo), m)
  BY <1>2, <1>3, LockRulesDef
<1>5. LockGoes(p, l, m, e)
  BY <1>1, <1>3, <1>4 DEF LockGoes
<1> QED
  BY <1>5

(* Processes that did nothing are where they were, when no file is taken away. *)
LEMMA LockOthers ==
    ASSUME LockInv, FilesStay, NEW q \in Procs, act'[q] = act[q], mem'[q].held = mem[q].held
    PROVE  LockWalk(q)' /\ (act'[q].op = "idle" => ~mem'[q].held)
<1>1. ASSUME NEW N, KnowsLock(q, N) PROVE KnowsLock(q, N)'
  BY <1>1 DEF KnowsLock, FilesStay
<1>2. ASSUME act'[q].op # "idle"
      PROVE  \E l, e \in Label :
                /\ KnowsLock(q, l.now)' /\ Both \subseteq e.now /\ e.now \subseteq e.then
                /\ Path(LockRules, act'[q].todo, l, e)
  <2>1. PICK l \in Label, e \in Label :
          /\ KnowsLock(q, l.now) /\ Both \subseteq e.now /\ e.now \subseteq e.then
          /\ Path(LockRules, act[q].todo, l, e)
    BY <1>2 DEF LockInv, LockWalk
  <2>2. KnowsLock(q, l.now)'
    BY <2>1, <1>1
  <2> QED
    BY <2>1, <2>2
<1>3. LockWalk(q)'
  BY <1>2 DEF LockWalk
<1> QED
  BY <1>3 DEF LockInv

(* A step of p, which goes on along a path from what is known then. *)
LEMMA LockOn ==
    ASSUME TypeInv, LockInv, FilesStay, NEW p \in Procs, Others(p),
           \A q \in Procs \ {p} : mem'[q].held = mem[q].held /\ mem'[q].booted = mem[q].booted,
           mem'[p].booted => Present',
           act'[p].op # "idle",
           NEW k \in Label, NEW e \in Label, KnowsLock(p, k.now)',
           Both \subseteq e.now, e.now \subseteq e.then,
           Path(LockRules, act'[p].todo, k, e)
    PROVE  LockInv'
<1>1. LockWalk(p)'
  BY DEF LockWalk
<1>2. \A q \in Procs \ {p} : act'[q] = act[q]
  BY DEF Others
<1>3. \A q \in Procs \ {p} : LockWalk(q)' /\ (act'[q].op = "idle" => ~mem'[q].held)
  BY <1>2, LockOthers
<1>4. \A q \in Procs : mem'[q].booted => Present'
  BY DEF LockInv, FilesStay
<1>5. \A q \in Procs : (mem[q].booted => Present)' /\ (act[q].op = "idle" => ~mem[q].held)' /\ LockWalk(q)'
  BY <1>1, <1>3, <1>4
<1> QED
  BY <1>5 DEF LockInv, FilesStay

(* A step that inserts something before the rest. *)
LEMMA LockMoved ==
    ASSUME TypeInv, LockInv, FilesStay, NEW p \in Procs, NEW more, Moved(p, more),
           act[p].todo # <<>>,
           \A q \in Procs \ {p} : mem'[q].held = mem[q].held /\ mem'[q].booted = mem[q].booted,
           mem'[p].booted = mem[p].booted,
           NEW l, NEW m, NEW e, LockGoes(p, l, m, e),
           NEW k \in Label, KnowsLock(p, k.now)', Path(LockRules, more, k, m)
    PROVE  LockInv'
<1>1. act'[p].op = act[p].op /\ act[p].op # "idle" /\ Others(p) /\ act'[p].todo = more \o Tail(act[p].todo)
  BY TypeHere DEF Moved
<1>2. Path(LockRules, act'[p].todo, k, e) /\ e \in Label /\ Both \subseteq e.now /\ e.now \subseteq e.then
  BY <1>1, PathCat DEF LockGoes
<1>3. mem'[p].booted => Present'
  BY DEF LockInv, FilesStay
<1> QED
  BY <1>1, <1>2, <1>3, LockOn

(* Where no file of the fingerprint changes, none is taken away. *)
LEMMA LockFilesKept ==
    ASSUME LockInv, StoreKept("sys") PROVE FilesStay
<1>1. \A e \in {"json", "bin", "json.tmp", "bin.tmp"} : <<"sys", e>> \in Files /\ <<"sys", e>>[1] = "sys"
  BY DEF Files
<1>2. \A e \in {"json", "bin", "json.tmp", "bin.tmp"} : file'[<<"sys", e>>] = file[<<"sys", e>>]
  BY <1>1 DEF StoreKept
<1> QED
  BY <1>2 DEF FilesStay, There, TmpThere, Present, LockInv

(* A step of the settings or of the registry keeps the invariant. *)
LEMMA LockSettings ==
    ASSUME TypeInv, LockInv, NEW p \in Procs, act[p].todo # <<>>, NEW more,
           more \in Seq(SettingSteps) \/ more \in Seq(RegistrySteps),
           Head(act[p].todo) \in SettingSteps \cup RegistrySteps \/ Head(act[p].todo)[1] = "editPerm",
           Moved(p, more), act'[p].sys = act[p].sys, LockKept, StoreKept("sys")
    PROVE  LockInv'
<1>0. FilesStay
  BY LockFilesKept
<1>1. PICK l \in Label, m \in Label, e \in Label : LockGoes(p, l, m, e)
  BY LockHere
<1>2. m.now \subseteq l.now /\ m.then = l.then
  <2>1. LockGains(Head(act[p].todo)) = {}
        /\ LockLoses(Head(act[p].todo)) = {} /\ Head(act[p].todo)[1] \notin Catchers
    <3>1. CASE Head(act[p].todo) \in SettingSteps \cup RegistrySteps
      BY <3>1, LockNeutral
    <3>2. CASE Head(act[p].todo)[1] = "editPerm"
      BY <3>2 DEF LockGains, LockLoses, Catchers
    <3> QED
      BY <3>1, <3>2
  <2>2. LockRule(l, Head(act[p].todo), m)
    BY <1>1 DEF LockGoes
  <2> QED
    BY <2>1, <2>2 DEF LockRule
<1>3. Path(LockRules, more, m, m)
  BY LockPlainPath
<1>4. KnowsLock(p, m.now)'
  <2>1. KnowsLock(p, l.now)
    BY <1>1 DEF LockGoes
  <2> QED
    BY <1>0, <1>2, <2>1 DEF KnowsLock, FilesStay, LockKept
<1> QED
  BY <1>0, <1>1, <1>3, <1>4, LockMoved DEF LockKept

(* The menu of the permissions begins again. *)
LEMMA LockMenu ==
    ASSUME TypeInv, LockInv, NEW p \in Procs, act[p].todo # <<>>,
           Head(act[p].todo)[1] = "editPerm", MenuMove(p)
    PROVE  LockInv'
<1> DEFINE b == Knowing(Both, Both)
<1>0. FilesStay
  BY LockFilesKept DEF MenuMove, Elsewhere
<1>k. b \in Label /\ b.now = Both /\ b.then = Both
  BY LockNegotiate, KnowingLabel
<1>1. PICK l \in Label, m \in Label, e \in Label : LockGoes(p, l, m, e)
  BY LockHere
<1>2. KnowsLock(p, Both)
  <2>1. LockNeeds(Head(act[p].todo)) = Both
    BY DEF LockNeeds, Both
  <2>2. Both \subseteq l.now /\ KnowsLock(p, l.now)
    BY <1>1, <2>1 DEF LockGoes, LockRule
  <2> QED
    BY <2>2 DEF KnowsLock
<1>3. KnowsLock(p, Both)'
  BY <1>0, <1>2 DEF KnowsLock, FilesStay, MenuMove, Elsewhere, LockKept
<1>4. PICK more \in Seq(SettingSteps) : act'[p].todo = more \o <<Do("editPerm")>>
  BY DEF MenuMove
<1>5. Path(LockRules, act'[p].todo, b, b)
  <2>1. Path(LockRules, more, b, b) /\ Path(LockRules, <<Do("editPerm")>>, b, b)
    BY <1>k, LockPlainPath, LockSimple
  <2> HIDE DEF b
  <2> QED
    BY <1>4, <2>1, PathCat
<1>6. act'[p].op # "idle" /\ Others(p)
  BY TypeHere DEF MenuMove
<1>7. /\ \A q \in Procs \ {p} : mem'[q].held = mem[q].held /\ mem'[q].booted = mem[q].booted
      /\ mem'[p].booted => Present'
  BY <1>0 DEF MenuMove, Elsewhere, LockKept, LockInv, FilesStay
<1> HIDE DEF b
<1>8. KnowsLock(p, b.now)'
  BY <1>3, <1>k
<1> QED
  BY <1>0, <1>k, <1>5, <1>6, <1>7, <1>8, LockOn

(* The steps of the settings and of the registry keep the invariant. *)
LEMMA LockElsewhere ==
    ASSUME TypeInv, TypeInv', LockInv, NEW p \in Procs, Step(p) \/ Edit(p) \/ EditPermission(p), ~End(p),
           Head(act[p].todo) \in SettingSteps \cup RegistrySteps \/ Head(act[p].todo)[1] = "editPerm"
    PROVE  LockInv'
<1>0. act[p].todo # <<>>
  BY Kinds
<1>1. CASE Head(act[p].todo) \in RegistrySteps
  <2>1. RegistryMove(p)
    BY <1>1, RegistryEffect
  <2> QED
    BY <1>0, <1>1, <2>1, LockSettings DEF RegistryMove
<1>2. CASE Head(act[p].todo) \notin RegistrySteps
  <2>1. SettingMove(p) \/ (MenuMove(p) /\ Head(act[p].todo)[1] = "editPerm")
    BY <1>2, SettingEffect
  <2>2. CASE MenuMove(p) /\ Head(act[p].todo)[1] = "editPerm"
    BY <1>0, <2>2, LockMenu
  <2>3. CASE SettingMove(p)
    BY <1>0, <2>3, LockSettings DEF SettingMove, Elsewhere
  <2> QED
    BY <2>1, <2>2, <2>3
<1> QED
  BY <1>1, <1>2

(* The end of an operation leaves the lock free, and a file there. *)
LEMMA LockEnd ==
    ASSUME TypeInv, LockInv, NEW p \in Procs, End(p) PROVE LockInv'
<1>0. act \in [Procs -> ActType] /\ mem \in [Procs -> MemType]
  BY DEF TypeInv, Types, ActTypes
<1>1. act' \in [Procs -> ActType] /\ Others(p) /\ act'[p] = Idle /\ UNCHANGED file
  BY <1>0, IdleEffect DEF End
<1>2. /\ \A q \in Procs \ {p} : mem'[q].held = mem[q].held /\ mem'[q].booted = mem[q].booted
      /\ mem'[p].held = mem[p].held
  BY <1>0 DEF End, MemType
<1>3. FilesStay
  BY <1>1, LockFilesKept DEF StoreKept
<1>4. ~mem[p].held /\ Present
  <2>1. PICK l \in Label, e \in Label :
          /\ KnowsLock(p, l.now) /\ Both \subseteq e.now
          /\ Path(LockRules, act[p].todo, l, e)
    BY DEF End, LockInv, LockWalk
  <2>2. l = e
    BY <2>1, PathOfNil DEF End
  <2> QED
    BY <2>1, <2>2 DEF KnowsLock, Both
<1>5. LockWalk(p)'
  BY <1>1, IdleTyped DEF LockWalk
<1>6. \A q \in Procs \ {p} : act'[q] = act[q]
  BY <1>1 DEF Others
<1>7. \A q \in Procs \ {p} : LockWalk(q)' /\ (act'[q].op = "idle" => ~mem'[q].held)
  BY <1>2, <1>3, <1>6, LockOthers
<1>8. Present'
  BY <1>3, <1>4 DEF FilesStay
<1>9. \A q \in Procs : (mem[q].booted => Present)' /\ (act[q].op = "idle" => ~mem[q].held)' /\ LockWalk(q)'
  BY <1>2, <1>4, <1>5, <1>7, <1>8
<1> QED
  BY <1>3, <1>9 DEF LockInv, FilesStay

(* A process that crashed is not there, nor is what it held. *)
LEMMA LockCrash ==
    ASSUME TypeInv, LockInv, NEW p \in Procs, Crash(p) PROVE LockInv'
<1>0. act \in [Procs -> ActType] /\ mem \in [Procs -> MemType]
  BY DEF TypeInv, Types, ActTypes
<1>1. act' \in [Procs -> ActType] /\ Others(p) /\ act'[p] = Idle /\ UNCHANGED file
  BY <1>0, IdleEffect DEF Crash
<1>2. /\ \A q \in Procs \ {p} : mem'[q].held = mem[q].held /\ mem'[q].booted = mem[q].booted
      /\ ~mem'[p].held /\ ~mem'[p].booted
  BY <1>0, NewArbiterTyped DEF Crash
<1>3. FilesStay
  BY <1>1, LockFilesKept DEF StoreKept
<1>5. LockWalk(p)'
  BY <1>1, IdleTyped DEF LockWalk
<1>6. \A q \in Procs \ {p} : act'[q] = act[q]
  BY <1>1 DEF Others
<1>7. \A q \in Procs \ {p} : LockWalk(q)' /\ (act'[q].op = "idle" => ~mem'[q].held)
  BY <1>2, <1>3, <1>6, LockOthers
<1>8. \A q \in Procs : (mem[q].booted => Present)'
  BY <1>2, <1>3 DEF FilesStay, LockInv
<1>9. \A q \in Procs : (mem[q].booted => Present)' /\ (act[q].op = "idle" => ~mem[q].held)' /\ LockWalk(q)'
  BY <1>2, <1>5, <1>7, <1>8
<1> QED
  BY <1>3, <1>9 DEF LockInv, FilesStay

(* An operation begins with the lock free and, but for the boot, with a    *)
(* file there.                                                             *)
LEMMA LockBegin ==
    ASSUME TypeInv, LockInv, NEW p \in Procs, Boot(p) \/ Begin(p) PROVE LockInv'
<1>0. act \in [Procs -> ActType]
  BY DEF TypeInv, Types, ActTypes
<1>1. PICK op \in Ops : \E chg :
        /\ IF op \in Told THEN chg \in Requests(op) ELSE chg = None
        /\ Enter(p, op, chg)
        /\ IF op = "boot" THEN ~mem[p].booted ELSE mem[p].booted
  BY BeginEffect
<1>2. PICK chg :
        /\ IF op \in Told THEN chg \in Requests(op) ELSE chg = None
        /\ Enter(p, op, chg)
        /\ IF op = "boot" THEN ~mem[p].booted ELSE mem[p].booted
  BY <1>1
<1>3. /\ act[p].op = "idle" /\ act' \in [Procs -> ActType] /\ Others(p)
      /\ act'[p].op = op /\ act'[p].todo = Program(op)
      /\ UNCHANGED file /\ UNCHANGED mem
  <2>1. chg \in Requests(op) \cup {None}
    BY <1>2
  <2> QED
    BY <1>0, <1>2, <2>1, EnterEffect
<1>4. FilesStay
  BY <1>3, LockFilesKept DEF StoreKept
<1>5. PICK l \in Label, e \in Label :
        /\ l.now = AtStart(op) /\ Both \subseteq e.now /\ e.now \subseteq e.then
        /\ Path(LockRules, Program(op), l, e)
  BY LockProgram
<1>6. ~mem[p].held /\ (op # "boot" => Present)
  BY <1>2, <1>3 DEF LockInv
<1>7. KnowsLock(p, l.now)'
  BY <1>3, <1>4, <1>5, <1>6 DEF KnowsLock, FilesStay, AtStart, Both
<1>8. mem'[p].booted => Present'
  BY <1>3, <1>4 DEF LockInv, FilesStay
<1>9. act'[p].op # "idle"
  BY <1>3 DEF Ops, PermOps
<1> QED
  BY <1>3, <1>4, <1>5, <1>7, <1>8, <1>9, LockOn

(* A step that changes nothing. *)
LEMMA LockStutter ==
    ASSUME LockInv, UNCHANGED vars PROVE LockInv'
<1>1. UNCHANGED file /\ UNCHANGED act /\ UNCHANGED mem
  BY DEF vars
<1>2. FilesStay
  BY <1>1, LockFilesKept DEF StoreKept
<1>3. \A q \in Procs : LockWalk(q)' /\ (act'[q].op = "idle" => ~mem'[q].held)
  BY <1>1, <1>2, LockOthers
<1> QED
  BY <1>1, <1>2, <1>3 DEF LockInv, FilesStay

-----------------------------------------------------------------------------
(* Steps on the files of the fingerprint *)

(* A file of the fingerprint is written. *)
LEMMA SysWritten ==
    ASSUME TypeInv, NEW ext \in {"json", "bin", "json.tmp", "bin.tmp"}, NEW c,
           file' = [file EXCEPT ![<<"sys", ext>>] = c]
    PROVE  \A x \in {"json", "bin", "json.tmp", "bin.tmp"} :
              file'[<<"sys", x>>] = IF x = ext THEN c ELSE file[<<"sys", x>>]
<1>1. \A x \in {"json", "bin", "json.tmp", "bin.tmp"} : <<"sys", x>> \in Files
  BY DEF Files
<1>2. \A x \in {"json", "bin", "json.tmp", "bin.tmp"} : <<"sys", x>> = <<"sys", ext>> => x = ext
  OBVIOUS
<1> QED
  BY <1>1, <1>2 DEF TypeInv, Types, FileTypes

(* An error: no fingerprint, and the rest from where it is caught. *)
LEMMA LockThrown ==
    ASSUME TypeInv, LockInv, NEW p \in Procs, act[p].todo # <<>>, Throw(p),
           LockFails(Head(act[p].todo)), Head(act[p].todo)[1] = "rename" => There,
           UNCHANGED file, UNCHANGED mem
    PROVE  LockInv'
<1>1. PICK l \in Label, m \in Label, e \in Label : LockGoes(p, l, m, e)
  BY LockHere
<1>2. l.then \subseteq (l.now \cup StillThere(Head(act[p].todo))) \ {"sure"}
  BY <1>1 DEF LockGoes, LockRule
<1>3. PICK a \in Label : a.now \subseteq l.then /\ Path(LockRules, Caught(act[p].todo), a, e)
  BY <1>1, PathCut, LockThrowing DEF LockGoes
<1>4. act \in [Procs -> ActType]
  BY DEF TypeInv, Types, ActTypes
<1>5. Others(p) /\ act'[p].op = act[p].op /\ act'[p].todo = Caught(act[p].todo)
  BY <1>4, ThrowEffect
<1>6. FilesStay
  BY LockFilesKept DEF StoreKept
<1>7. KnowsLock(p, a.now)'
  <2>1. KnowsLock(p, l.now)
    BY <1>1 DEF LockGoes
  <2>2. a.now \subseteq (l.now \cup {"json", "pres"}) /\ "sure" \notin a.now
        /\ (There \/ a.now \subseteq l.now)
    BY <1>2, <1>3 DEF StillThere
  <2> QED
    BY <2>1, <2>2 DEF KnowsLock, There, TmpThere, Present
<1>8. act'[p].op # "idle" /\ (mem'[p].booted => Present')
  BY <1>5, <1>6, TypeHere DEF LockInv, FilesStay
<1>9. Both \subseteq e.now /\ e.now \subseteq e.then /\ Path(LockRules, act'[p].todo, a, e)
  BY <1>1, <1>3, <1>5 DEF LockGoes
<1> QED
  BY <1>5, <1>6, <1>7, <1>8, <1>9, LockOn

(* A file is written, and p goes on. *)
LEMMA LockWrote ==
    ASSUME TypeInv, LockInv, FilesStay, NEW p \in Procs, act[p].todo # <<>>,
           Continue(p, act[p], <<>>), UNCHANGED mem,
           NEW l, NEW m, NEW e, LockGoes(p, l, m, e), KnowsLock(p, m.now)'
    PROVE  LockInv'
<1>1. <<>> \in Seq(Steps) /\ act[p] \in ActType
  BY TypeHere
<1>2. Moved(p, <<>>)
  BY <1>1, MovedBy
<1>3. m \in Label /\ Path(LockRules, <<>>, m, m)
  BY PathNil DEF LockGoes
<1> QED
  BY <1>2, <1>3, LockMoved

(* What is on the way where a file is read or written. *)
LEMMA SysPlace ==
    ASSUME TypeInv, NEW p \in Procs, act[p].todo # <<>>,
           Head(act[p].todo)[1] \in {"open", "fill", "remove"}, Head(act[p].todo)[2] = "sys"
    PROVE  /\ Head(act[p].todo)[3] \in {"json", "bin", "json.tmp", "bin.tmp"}
           /\ Head(act[p].todo)[1] = "remove" => Head(act[p].todo)[3] = "bin"
           /\ Target(p) = <<"sys", Head(act[p].todo)[3]>>
<1>1. Fits(act[p].op, Head(act[p].todo))
  BY TypeHere DEF Goes, TypeRule
<1>2. Head(act[p].todo)[1] # "remove" => <<"sys", Head(act[p].todo)[3]>> \in Files
  BY <1>1 DEF Fits
<1>3. Head(act[p].todo)[1] = "remove" => Head(act[p].todo)[3] = "bin"
  BY <1>1 DEF Fits
<1>4. \A x : <<"sys", x>> \in Files => x \in {"json", "bin", "json.tmp", "bin.tmp"}
  BY DEF Files, Settings
<1> QED
  BY <1>2, <1>3, <1>4 DEF Target

(* Opening a file of the fingerprint. *)
LEMMA LockOpen ==
    ASSUME TypeInv, LockInv, NEW p \in Procs, Open(p), Head(act[p].todo)[2] = "sys"
    PROVE  LockInv'
<1> DEFINE ext == Head(act[p].todo)[3]
<1>0. act[p].todo # <<>> /\ Head(act[p].todo)[1] = "open"
  BY AtHead DEF Open, Turn
<1>1. ext \in {"json", "bin", "json.tmp", "bin.tmp"} /\ Target(p) = <<"sys", ext>>
  BY <1>0, SysPlace
<1>2. PICK l \in Label, m \in Label, e \in Label : LockGoes(p, l, m, e)
  BY <1>0, LockHere
<1>3. KnowsLock(p, l.now) /\ LockRule(l, Head(act[p].todo), m)
  BY <1>2 DEF LockGoes
<1>m. UNCHANGED mem
  BY DEF Open
<1>4. CASE Target(p) \in locked
  <2>1. Throw(p) /\ UNCHANGED file
    BY <1>4 DEF Open
  <2>2. ext \in {"json", "bin"}
    BY <1>1, <1>4 DEF TypeInv, Types
  <2>3. LockFails(Head(act[p].todo))
    BY <1>0, <2>2 DEF LockFails
  <2> QED
    BY <1>0, <1>m, <2>1, <2>3, LockThrown
<1>5. CASE Target(p) \notin locked
  <2>1. file' = [file EXCEPT ![<<"sys", ext>>] = Torn] /\ Continue(p, act[p], <<>>)
    BY <1>1, <1>5 DEF Open
  <2> HIDE DEF ext
  <2>2. \A x \in {"json", "bin", "json.tmp", "bin.tmp"} :
          file'[<<"sys", x>>] = IF x = ext THEN Torn ELSE file[<<"sys", x>>]
    BY <1>1, <2>1, SysWritten, ZenonT(60)
  <2>3. Torn # Absent
    BY GovernorAssumption
  <2>4. ext = "bin" => There
    <3>1. ext = "bin" => "json" \in l.now
      BY <1>0, <1>3 DEF LockRule, LockNeeds, ext
    <3> QED
      BY <1>3, <3>1 DEF KnowsLock
  <2>5. /\ file'[<<"sys", "json">>] = IF ext = "json" THEN Torn ELSE file[<<"sys", "json">>]
        /\ file'[<<"sys", "bin">>] = IF ext = "bin" THEN Torn ELSE file[<<"sys", "bin">>]
        /\ file'[<<"sys", "json.tmp">>] = IF ext = "json.tmp" THEN Torn ELSE file[<<"sys", "json.tmp">>]
    BY <2>2
  <2>6. FilesStay
    BY <2>3, <2>4, <2>5 DEF FilesStay, There, TmpThere, Present, LockInv
  <2>7. m.now \subseteq l.now \cup (IF ext = "json" THEN {"json", "tmp", "pres"}
                                    ELSE IF ext = "json.tmp" THEN {"tmp"} ELSE {})
    <3>1. LockGains(Head(act[p].todo)) = IF ext = "json" THEN {"json", "tmp", "pres"}
                                         ELSE IF ext = "json.tmp" THEN {"tmp"} ELSE {}
      BY <1>0 DEF LockGains, ext
    <3> QED
      BY <1>3, <3>1 DEF LockRule
  <2>8. act'[p].sys = act[p].sys
    <3>1. <<>> \in Seq(Steps) /\ act[p] \in ActType
      BY <1>0, TypeHere
    <3> QED
      BY <1>0, <2>1, <3>1, MovedBy
  <2>9. KnowsLock(p, m.now)'
    BY <1>3, <1>m, <2>3, <2>5, <2>6, <2>7, <2>8 DEF KnowsLock, FilesStay, There, TmpThere, Present
  <2> QED
    BY <1>0, <1>2, <1>m, <2>1, <2>6, <2>9, LockWrote
<1> QED
  BY <1>4, <1>5

(* Filling a file of the fingerprint: what is absent stays absent. *)
LEMMA LockFill ==
    ASSUME TypeInv, LockInv, NEW p \in Procs, Fill(p), Head(act[p].todo)[2] = "sys"
    PROVE  LockInv'
<1> DEFINE ext == Head(act[p].todo)[3]
           f == <<"sys", ext>>
<1>0. act[p].todo # <<>> /\ Head(act[p].todo)[1] = "fill"
  BY AtHead DEF Fill, Turn
<1>1. ext \in {"json", "bin", "json.tmp", "bin.tmp"} /\ Target(p) = f
  BY <1>0, SysPlace
<1>2. PICK l \in Label, m \in Label, e \in Label : LockGoes(p, l, m, e)
  BY <1>0, LockHere
<1>3. KnowsLock(p, l.now) /\ LockRule(l, Head(act[p].todo), m)
  BY <1>2 DEF LockGoes
<1>m. UNCHANGED mem /\ Continue(p, act[p], <<>>)
  BY DEF Fill
<1>a. act[p] \in ActType
  BY <1>0, TypeHere
<1>4. PICK c : file' = [file EXCEPT ![f] = c] /\ (c = Absent <=> file[f] = Absent)
  <2>1. PICK c \in CASE file[f] = Torn -> {act[p].sys}
                      [] file[f] = Absent -> {Absent}
                      [] OTHER -> {act[p].sys, Torn} :
              file' = [file EXCEPT ![f] = c]
    <3>1. f[1] = "sys"
      OBVIOUS
    <3> HIDE DEF f
    <3> QED
      BY <1>1, <3>1 DEF Fill
  <2>2. act[p].sys # Absent /\ Torn # Absent
    BY <1>a, GovernorAssumption DEF ActType
  <2>3. c = Absent <=> file[f] = Absent
    <3> HIDE DEF f
    <3>1. CASE file[f] = Torn
      BY <2>1, <2>2, <3>1
    <3>2. CASE file[f] = Absent
      BY <2>1, <2>2, <3>2
    <3>3. CASE file[f] # Torn /\ file[f] # Absent
      <4>1. (CASE file[f] = Torn -> {act[p].sys}
                      [] file[f] = Absent -> {Absent}
                      [] OTHER -> {act[p].sys, Torn}) = {act[p].sys, Torn}
        BY <3>3
      <4> QED
        BY <2>1, <2>2, <3>3, <4>1
    <3> QED
      BY <3>1, <3>2, <3>3
  <2> QED
    BY <2>1, <2>3
<1>5. \A x \in {"json", "bin", "json.tmp", "bin.tmp"} :
          file'[<<"sys", x>>] = IF x = ext THEN c ELSE file[<<"sys", x>>]
  <2>1. file' = [file EXCEPT ![<<"sys", ext>>] = c]
    BY <1>4 DEF f
  <2> HIDE DEF ext, f
  <2> QED
    BY <1>1, <2>1, SysWritten, ZenonT(60)
<1>6. ext = "bin" => There
  <2>1. ext = "bin" => "json" \in l.now
    BY <1>0, <1>3 DEF LockRule, LockNeeds
  <2> QED
    BY <1>3, <2>1 DEF KnowsLock
<1>7. m.now \subseteq l.now
  <2>1. LockGains(Head(act[p].todo)) = {}
    BY <1>0 DEF LockGains
  <2> QED
    BY <1>3, <2>1 DEF LockRule
<1>8. act'[p].sys = act[p].sys
  <2>1. <<>> \in Seq(Steps)
    OBVIOUS
  <2> QED
    BY <1>0, <1>a, <1>m, <2>1, MovedBy
<1> HIDE DEF ext
<1>9. /\ file'[<<"sys", "json">>] = Absent <=> file[<<"sys", "json">>] = Absent
      /\ file'[<<"sys", "bin">>] = Absent <=> file[<<"sys", "bin">>] = Absent
      /\ file'[<<"sys", "json.tmp">>] = Absent <=> file[<<"sys", "json.tmp">>] = Absent
      /\ ext # "bin" => file'[<<"sys", "bin">>] = file[<<"sys", "bin">>]
  BY <1>4, <1>5 DEF f
<1>10. FilesStay
  BY <1>6, <1>9 DEF FilesStay, There, TmpThere, Present, LockInv
<1>11. KnowsLock(p, m.now)'
  BY <1>3, <1>m, <1>7, <1>8, <1>10 DEF KnowsLock, FilesStay
<1> QED
  BY <1>0, <1>2, <1>m, <1>10, <1>11, LockWrote

(* Removing the binary copy, where the JSON file is there. *)
LEMMA LockRemove ==
    ASSUME TypeInv, LockInv, NEW p \in Procs, RemoveFile(p), Head(act[p].todo)[2] = "sys"
    PROVE  LockInv'
<1>0. act[p].todo # <<>> /\ Head(act[p].todo)[1] = "remove"
  BY AtHead DEF RemoveFile, Turn
<1>1. Head(act[p].todo)[3] = "bin" /\ Target(p) = <<"sys", "bin">>
  BY <1>0, SysPlace
<1>2. PICK l \in Label, m \in Label, e \in Label : LockGoes(p, l, m, e)
  BY <1>0, LockHere
<1>3. KnowsLock(p, l.now) /\ LockRule(l, Head(act[p].todo), m)
  BY <1>2 DEF LockGoes
<1>m. UNCHANGED mem /\ Continue(p, act[p], <<>>) /\ file' = [file EXCEPT ![<<"sys", "bin">>] = Absent]
  BY <1>1 DEF RemoveFile
<1>5. \A x \in {"json", "bin", "json.tmp", "bin.tmp"} :
          file'[<<"sys", x>>] = IF x = "bin" THEN Absent ELSE file[<<"sys", x>>]
  BY <1>m, SysWritten, ZenonT(60)
<1>6. There
  <2>1. "json" \in l.now
    BY <1>0, <1>1, <1>3 DEF LockRule, LockNeeds
  <2> QED
    BY <1>3, <2>1 DEF KnowsLock
<1>7. m.now \subseteq l.now
  <2>1. LockGains(Head(act[p].todo)) = {}
    BY <1>0 DEF LockGains
  <2> QED
    BY <1>3, <2>1 DEF LockRule
<1>8. act'[p].sys = act[p].sys
  <2>1. <<>> \in Seq(Steps) /\ act[p] \in ActType
    BY <1>0, TypeHere
  <2> QED
    BY <1>0, <1>m, <2>1, MovedBy
<1>10. FilesStay
  BY <1>5, <1>6 DEF FilesStay, There, TmpThere, Present
<1>11. KnowsLock(p, m.now)'
  BY <1>3, <1>m, <1>7, <1>8, <1>10 DEF KnowsLock, FilesStay
<1> QED
  BY <1>0, <1>2, <1>m, <1>10, <1>11, LockWrote

(* Who writes to a temporary file that is renamed goes on along its path.  *)
LEMMA LockFollow ==
    ASSUME TypeInv, LockInv, FilesStay, UNCHANGED mem, NEW q \in Procs, NEW ext \in {"json", "bin"},
           There',
           NEW tmp \in {"json.tmp", "bin.tmp"},
           Follows(act[q], act'[q], <<"fill", "sys", tmp>>, <<"fill", "sys", ext>>)
    PROVE  LockWalk(q)' /\ (act'[q].op = "idle" => ~mem'[q].held)
<1> DEFINE a == act[q]
           x == <<"fill", "sys", tmp>>
           y == <<"fill", "sys", ext>>
<1>1. act'[q].op = a.op /\ act'[q].sys = a.sys
  BY DEF Follows
<1>2. act'[q].op = "idle" => ~mem'[q].held
  BY <1>1 DEF LockInv
<1>k. ASSUME NEW N, KnowsLock(q, N) PROVE KnowsLock(q, N)'
  BY <1>1, <1>k DEF KnowsLock, FilesStay
<1>3. CASE act'[q].todo = a.todo
  <2>1. ASSUME act'[q].op # "idle"
        PROVE  \E l, e \in Label :
                  /\ KnowsLock(q, l.now)' /\ Both \subseteq e.now /\ e.now \subseteq e.then
                  /\ Path(LockRules, act'[q].todo, l, e)
    <3>1. PICK l \in Label, e \in Label :
            /\ KnowsLock(q, l.now) /\ Both \subseteq e.now /\ e.now \subseteq e.then
            /\ Path(LockRules, a.todo, l, e)
      BY <1>1, <2>1 DEF LockInv, LockWalk
    <3>2. KnowsLock(q, l.now)'
      BY <1>k, <3>1
    <3> QED
      BY <1>3, <3>1, <3>2
  <2> QED
    BY <1>2, <2>1 DEF LockWalk
<1>4. CASE a.todo # <<>> /\ Head(a.todo) = x /\ act'[q].todo = [a.todo EXCEPT ![1] = y]
  <2>1. PICK l \in Label, m \in Label, e \in Label : LockGoes(q, l, m, e)
    BY <1>4, LockHere
  <2> DEFINE N == l.now \cup {"json"}
             k == Knowing(N, l.then)
  <2>2. N \in SUBSET Claims /\ l.then \in SUBSET Claims
    BY LabelParts DEF Claims, LockClaims
  <2>3. k \in Label /\ k.now = N /\ k.then = l.then
    BY <2>2, KnowingLabel
  <2>4. x \in Steps /\ y \in Steps /\ x[1] = "fill" /\ x[2] = "sys" /\ y[1] = "fill" /\ y[2] = "sys" /\ y[3] = ext
        /\ x[3] = tmp
    BY Zenon DEF Steps, Words, Places, Extensions
  <2> HIDE DEF k, x, y
  <2>5. \A n \in Label : <<l, x, n>> \in LockRules => <<k, y, n>> \in LockRules
    <3> SUFFICES ASSUME NEW n \in Label, LockRule(l, x, n) PROVE LockRule(k, y, n)
      BY <2>3, <2>4, LockRulesDef
    <3>1. LockNeeds(y) \subseteq {"json"} /\ LockGains(y) = {} /\ LockLoses(y) = {} /\ ~LockFails(y)
          /\ LockGains(x) = {} /\ LockLoses(x) = {} /\ x[1] \notin Catchers /\ y[1] \notin Catchers
          /\ x[1] # "loadSys" /\ y[1] # "loadSys"
      BY <2>4 DEF LockNeeds, LockGains, LockLoses, LockFails, Catchers
    <3>2. n.now \subseteq l.now /\ n.then = l.then
      BY <3>1 DEF LockRule
    <3> QED
      BY <2>3, <3>1, <3>2 DEF LockRule
  <2>6. Path(LockRules, a.todo, l, e) /\ e \in Label /\ Both \subseteq e.now /\ e.now \subseteq e.then
        /\ KnowsLock(q, l.now)
    BY <2>1 DEF LockGoes
  <2>7. Path(LockRules, act'[q].todo, k, e)
    BY <1>4, <2>3, <2>4, <2>5, <2>6, PathNewHead DEF x
  <2>8. KnowsLock(q, k.now)'
    <3>1. KnowsLock(q, l.now)'
      BY <1>k, <2>6
    <3> QED
      BY <2>3, <3>1 DEF KnowsLock
  <2> QED
    BY <1>2, <2>3, <2>6, <2>7, <2>8 DEF LockWalk
<1> QED
  BY <1>3, <1>4 DEF Follows, x, y

(* Renaming a file of the fingerprint. *)
LEMMA LockRename ==
    ASSUME TypeInv, LockInv, NEW p \in Procs, Rename(p)
    PROVE  LockInv'
<1> DEFINE x == Head(act[p].todo)
           ext == x[3]
           tmp == IF ext = "json" THEN "json.tmp" ELSE "bin.tmp"
<1>1. act[p].todo # <<>> /\ x[1] = "rename"
  BY AtHead DEF Rename, Turn
<1>2. Fits(act[p].op, x) /\ act[p] \in ActType /\ act[p].op # "idle"
  BY <1>1, TypeHere DEF Goes, TypeRule
<1>3. x[2] = "sys" /\ ext \in {"json", "bin"} /\ Target(p) = <<"sys", ext>>
  BY <1>1, <1>2 DEF Fits, Target
<1>t. Tmp(Target(p)) = <<"sys", tmp>>
  BY <1>3 DEF Tmp
<1>m. UNCHANGED mem
  BY DEF Rename
<1>4. PICK l \in Label, m \in Label, e \in Label : LockGoes(p, l, m, e)
  BY <1>1, LockHere
<1>5. KnowsLock(p, l.now) /\ LockRule(l, x, m)
  BY <1>4 DEF LockGoes
<1>6. /\ ext = "bin" => There
      /\ ext = "json" => TmpThere
  <2>1. /\ ext = "bin" => "json" \in l.now
        /\ ext = "json" => "tmp" \in l.now
    BY <1>1, <1>3, <1>5 DEF LockRule, LockNeeds
  <2> QED
    BY <1>5, <2>1 DEF KnowsLock
<1>7. CASE file[<<"sys", tmp>>] = Absent
  <2>1. Throw(p) /\ UNCHANGED file
    BY <1>7, <1>t DEF Rename
  <2>2. LockFails(x)
    BY <1>1 DEF LockFails
  <2>3. There
    BY <1>3, <1>6, <1>7 DEF TmpThere
  <2> QED
    BY <1>1, <1>m, <2>1, <2>2, <2>3, LockThrown
<1>8. CASE file[<<"sys", tmp>>] # Absent
  <2>0. act \in [Procs -> ActType] /\ file \in [Files -> UNION {FileType(s) : s \in Stores}]
    BY DEF TypeInv, Types, ActTypes, FileTypes
  <2>g. m.now \subseteq l.now \cup (IF ext = "json" THEN {"json", "pres"} ELSE {})
    <3>1. LockGains(x) = IF ext = "json" THEN {"json", "pres"} ELSE {}
      BY <1>1, <1>3 DEF LockGains
    <3> QED
      BY <1>5, <3>1 DEF LockRule
  <2>f. <<"sys", "json">> \in Files /\ <<"sys", "bin">> \in Files
        /\ <<"sys", "json.tmp">> \in Files /\ <<"sys", "bin.tmp">> \in Files
    BY DEF Files
  <2>x. tmp \in {"json.tmp", "bin.tmp"}
    OBVIOUS
  <2> HIDE DEF tmp, ext
  <2>1. /\ act' \in [Procs -> ActType]
        /\ act'[p] = [act[p] EXCEPT !.todo = Tail(act[p].todo)]
        /\ \A q \in Procs : q # p => Follows(act[q], act'[q], <<"fill", "sys", tmp>>, <<"fill", "sys", ext>>)
        /\ file' = [file EXCEPT ![<<"sys", ext>>] = file[<<"sys", tmp>>], ![<<"sys", tmp>>] = Absent]
    BY <1>1, <1>3, <1>8, <2>0, RenameEffect DEF tmp
  <2>2. FilesStay /\ There'
    <3>1. CASE ext = "json"
      <4>1. tmp = "json.tmp"
        BY <3>1 DEF tmp
      <4>2. file'[<<"sys", "json">>] = file[<<"sys", "json.tmp">>]
        BY <2>0, <2>1, <3>1, <2>f, <4>1
      <4>3. There'
        BY <1>8, <4>1, <4>2 DEF There
      <4> QED
        BY <4>3 DEF FilesStay, There, TmpThere, Present
    <3>2. CASE ext = "bin"
      <4>1. tmp = "bin.tmp"
        BY <3>2 DEF tmp
      <4>2. file'[<<"sys", "json">>] = file[<<"sys", "json">>]
        BY <2>0, <2>1, <3>2, <2>f, <4>1
      <4>3. There'
        BY <1>6, <3>2, <4>2 DEF There
      <4> QED
        BY <4>3 DEF FilesStay, There, TmpThere, Present
    <3> QED
      BY <1>3, <3>1, <3>2
  <2>3. \A q \in Procs : q # p => LockWalk(q)' /\ (act'[q].op = "idle" => ~mem'[q].held)
    BY <1>3, <1>m, <2>1, <2>2, <2>x, LockFollow
  <2>4. act'[p].todo = Tail(act[p].todo) /\ act'[p].op = act[p].op /\ act'[p].sys = act[p].sys
    BY <1>2, <2>1 DEF ActType
  <2>5. KnowsLock(p, m.now)'
    BY <1>5, <1>m, <2>2, <2>4, <2>g DEF KnowsLock, FilesStay, Present
  <2>6. Path(LockRules, act'[p].todo, m, e) /\ m \in Label /\ e \in Label
        /\ Both \subseteq e.now /\ e.now \subseteq e.then
    BY <1>4, <2>4 DEF LockGoes
  <2>7. LockWalk(p)'
    BY <2>5, <2>6 DEF LockWalk
  <2>8. \A q \in Procs : (mem[q].booted => Present)' /\ (act[q].op = "idle" => ~mem[q].held)' /\ LockWalk(q)'
    <3>1. \A q \in Procs : mem'[q].booted => Present'
      BY <1>m, <2>2 DEF LockInv, FilesStay
    <3>2. act'[p].op # "idle"
      BY <1>2, <2>4
    <3> QED
      BY <2>3, <2>7, <3>1, <3>2
  <2> QED
    BY <2>2, <2>8 DEF LockInv, FilesStay
<1> QED
  BY <1>7, <1>8

-----------------------------------------------------------------------------
(* Calls: the prober, errors that are looked at, and the arbiter's lock *)

(* A call that changes no file. *)
LEMMA LockRead ==
    ASSUME TypeInv, LockInv, NEW p \in Procs, act[p].todo # <<>>, NEW a \in ActType,
           a.op = act[p].op, a.todo = act[p].todo, NEW more \in Seq(Steps), Got(p, a, more),
           NEW l, NEW m, NEW e, LockGoes(p, l, m, e), NEW k \in Label,
           KnowsLock(p, k.now \ {"sure"}), "sure" \in k.now => a.sys # None,
           Path(LockRules, more, k, m)
    PROVE  LockInv'
<1>1. Continue(p, a, more) /\ UNCHANGED file /\ UNCHANGED mem
  BY DEF Got
<1>2. Moved(p, more) /\ act'[p].sys = a.sys
  BY <1>1, MovedBy
<1>3. FilesStay
  BY <1>1, LockFilesKept DEF StoreKept
<1>4. KnowsLock(p, k.now)'
  BY <1>1, <1>2, <1>3 DEF KnowsLock, FilesStay
<1> QED
  BY <1>1, <1>2, <1>3, <1>4, LockMoved

(* Probing the hardware, and looking at an error. *)
LEMMA LockProbe ==
    ASSUME TypeInv, LockInv, NEW p \in Procs, Probe(p)
    PROVE  LockInv'
<1> DEFINE x == Head(act[p].todo)
<1>0. act[p].todo # <<>>
  BY Zenon, AtHead DEF Probe
<1>1. PICK l \in Label, m \in Label, e \in Label : LockGoes(p, l, m, e)
  BY <1>0, LockHere
<1>2. KnowsLock(p, l.now) /\ LockRule(l, x, m)
  BY <1>1 DEF LockGoes
<1>3. act[p] \in ActType /\ <<>> \in Seq(Steps) /\ Path(LockRules, <<>>, m, m)
  BY <1>0, TypeHere, PathNil
<1>4. ASSUME NEW a \in ActType, a.op = act[p].op, a.todo = act[p].todo, Got(p, a, <<>>),
             LockLoses(x) = {},
             LockGains(x) \subseteq {"sure"},
             IF LockGains(x) = {} THEN a.sys = act[p].sys ELSE a.sys # None
      PROVE  LockInv'
  <2>1. m.now \subseteq l.now \cup {"sure"} /\ m.now \subseteq l.now \cup LockGains(x)
    BY <1>2, <1>4 DEF LockRule
  <2>2. "sure" \in m.now => a.sys # None
    BY <1>2, <1>4, <2>1 DEF KnowsLock
  <2>3. KnowsLock(p, m.now \ {"sure"})
    BY <1>2, <2>1 DEF KnowsLock
  <2> QED
    BY <1>0, <1>1, <1>3, <1>4, <2>2, <2>3, LockRead
<1>n. None \notin Silicon
  BY GovernorAssumption
<1>5. CASE At(p, "probe") /\ Got(p, [act[p] EXCEPT !.sys = "probed"], <<>>)
  <2> DEFINE a == [act[p] EXCEPT !.sys = "probed"]
  <2>1. a \in ActType /\ a.op = act[p].op /\ a.todo = act[p].todo /\ a.sys = "probed" /\ a.sys # None
    BY <1>3, <1>n DEF ActType, Silicon
  <2>2. LockLoses(x) = {} /\ LockGains(x) = {"sure"}
    BY <1>5, AtHead DEF LockLoses, LockGains
  <2>3. Got(p, a, <<>>)
    BY <1>5
  <2> HIDE DEF a, x
  <2> QED
    BY <1>4, <2>1, <2>2, <2>3
<1>6. CASE At(p, "orBlank") /\ Got(p, [act[p] EXCEPT !.sys = IF @ = None THEN "blank" ELSE @], <<>>)
  <2> DEFINE c == IF act[p].sys = None THEN "blank" ELSE act[p].sys
             a == [act[p] EXCEPT !.sys = c]
  <2>1. a \in ActType /\ a.op = act[p].op /\ a.todo = act[p].todo /\ a.sys = c /\ c # None
    BY <1>3, <1>n DEF ActType, Silicon
  <2>2. LockLoses(x) = {} /\ LockGains(x) = {"sure"}
    BY <1>6, AtHead DEF LockLoses, LockGains
  <2>3. Got(p, a, <<>>)
    BY <1>6
  <2> HIDE DEF a, x, c
  <2>4. a.sys # None
    BY <2>1
  <2> QED
    BY <1>4, <2>1, <2>2, <2>3, <2>4
<1>7. CASE At(p, "catch") /\ Got(p, act[p], <<>>)
  <2>1. LockLoses(x) = {} /\ LockGains(x) = {}
    BY <1>7, AtHead DEF LockLoses, LockGains
  <2> QED
    BY <1>3, <1>4, <1>7, <2>1
<1>8. CASE At(p, "require") /\ act[p].sys # None /\ Got(p, act[p], <<>>)
  <2>1. LockLoses(x) = {} /\ LockGains(x) = {}
    BY <1>8, AtHead DEF LockLoses, LockGains
  <2> QED
    BY <1>3, <1>4, <1>8, <2>1
<1>9. CASE At(p, "require") /\ Got(p, [act[p] EXCEPT !.todo = <<Do("")>>], <<>>)
  <2> DEFINE b == Knowing(Both, Both)
             u == <<Do("")>>
             a == [act[p] EXCEPT !.todo = u]
  <2>k. b \in Label /\ b.now = Both /\ b.then = Both
    BY LockNegotiate, KnowingLabel
  <2>1. KnowsLock(p, Both)
    <3>0. x[1] = "require"
      BY Zenon, <1>9, AtHead
    <3> HIDE DEF x
    <3>1. LockNeeds(x) = Both
      BY <3>0 DEF LockNeeds, Both
    <3> QED
      BY <1>2, <3>1 DEF LockRule, KnowsLock
  <2>u. u \in Seq(Steps) /\ u # <<>> /\ Tail(u) = <<>>
    BY Zenon, DoStep, OneStep DEF Words
  <2>2. Continue(p, a, <<>>) /\ UNCHANGED file /\ UNCHANGED mem
    BY Zenon, <1>9 DEF Got
  <2>3. a \in ActType /\ a.op = act[p].op /\ a.sys = act[p].sys /\ a.todo = u
    BY Zenon, <1>3, <2>u DEF ActType
  <2>4. act \in [Procs -> ActType]
    BY DEF TypeInv, Types, ActTypes
  <2> HIDE DEF u, a, b
  <2>5. Became(p, a, <<>>)
    BY <2>2, <2>3, <2>4, <2>u, ContinueNil
  <2>6. Others(p) /\ act'[p].op = act[p].op /\ act'[p].todo = <<>> /\ act'[p].sys = act[p].sys
    BY <2>3, <2>5 DEF Became
  <2>7. FilesStay
    BY <2>2, LockFilesKept DEF StoreKept
  <2>8. KnowsLock(p, b.now)'
    BY <2>1, <2>2, <2>6, <2>7, <2>k DEF KnowsLock, FilesStay
  <2>9. Path(LockRules, act'[p].todo, b, b)
    BY <2>6, <2>k, PathNil
  <2>10. act'[p].op # "idle" /\ (mem'[p].booted => Present')
    BY <1>0, <2>2, <2>6, <2>7, TypeHere DEF LockInv, FilesStay
  <2> QED
    BY <2>2, <2>6, <2>7, <2>8, <2>9, <2>10, <2>k, LockOn
<1> QED
  BY Zenon, <1>5, <1>6, <1>7, <1>8, <1>9 DEF Probe

(* The lock is taken, or left. *)
LEMMA LockTake ==
    ASSUME TypeInv, LockInv, NEW p \in Procs, Lock(p)
    PROVE  LockInv'
<1> DEFINE x == Head(act[p].todo)
<1>0. act[p].todo # <<>> /\ x[1] \in {"lock", "unlock"}
  BY AtHead DEF Lock
<1>1. PICK l \in Label, m \in Label, e \in Label : LockGoes(p, l, m, e)
  BY <1>0, LockHere
<1>2. KnowsLock(p, l.now) /\ LockRule(l, x, m)
  BY <1>1 DEF LockGoes
<1>3. <<>> \in Seq(Steps) /\ m \in Label /\ Path(LockRules, <<>>, m, m) /\ mem[p] \in MemType
  BY PathNil DEF TypeInv, Types
<1>4. ASSUME NEW h \in BOOLEAN, Arbiter(p, [mem[p] EXCEPT !.held = h], <<>>), "free" \in m.now => ~h,
             m.now \subseteq l.now \cup {"free"}
      PROVE  LockInv'
  <2> DEFINE m0 == [mem[p] EXCEPT !.held = h]
  <2>1. m0.held = h /\ m0.booted = mem[p].booted
    BY <1>3 DEF MemType
  <2> HIDE DEF m0
  <2>2. Arbiter(p, m0, <<>>)
    BY <1>4 DEF m0
  <2>3. /\ Moved(p, <<>>) /\ UNCHANGED file
        /\ act'[p].sys = act[p].sys
        /\ mem'[p] = m0 /\ \A q \in Procs \ {p} : mem'[q] = mem[q]
    BY <1>0, <1>3, <2>2, MovedArbiter
  <2>4. FilesStay
    BY <2>3, LockFilesKept DEF StoreKept
  <2>5. KnowsLock(p, m.now)'
    BY <1>2, <1>4, <2>1, <2>3, <2>4 DEF KnowsLock, FilesStay
  <2> QED
    BY <1>0, <1>1, <1>3, <2>1, <2>3, <2>4, <2>5, LockMoved
<1>5. CASE At(p, "lock") /\ Arbiter(p, [mem[p] EXCEPT !.held = TRUE], <<>>)
  <2>1. LockLoses(x) = {"free"} /\ LockGains(x) = {}
    BY <1>5, AtHead DEF LockLoses, LockGains
  <2>2. "free" \notin m.now /\ m.now \subseteq l.now \cup {"free"}
    BY <1>2, <2>1 DEF LockRule
  <2> QED
    BY <1>4, <1>5, <2>2
<1>6. CASE At(p, "unlock") /\ Arbiter(p, [mem[p] EXCEPT !.held = FALSE], <<>>)
  <2>1. LockLoses(x) = {} /\ LockGains(x) = {"free"}
    BY <1>6, AtHead DEF LockLoses, LockGains
  <2>2. m.now \subseteq l.now \cup {"free"}
    BY <1>2, <2>1 DEF LockRule
  <2> QED
    BY <1>4, <1>6, <2>2
<1> QED
  BY <1>5, <1>6 DEF Lock

(* A synchronisation under the lock finds a file of the fingerprint, so    *)
(* that there is nothing to be calibrated.                                 *)
LEMMA LockSync ==
    ASSUME TypeInv, LockInv, NEW p \in Procs, Sync(p),
           Head(act[p].todo)[1] \in {"syncIfZero", "calibrateIfZero"}
    PROVE  LockInv'
<1> DEFINE x == Head(act[p].todo)
           c == Do("calibrateIfZero")
<1>0. act[p].todo # <<>>
  BY AtHead DEF Sync
<1>1. PICK l \in Label, m \in Label, e \in Label : LockGoes(p, l, m, e)
  BY <1>0, LockHere
<1>2. KnowsLock(p, l.now) /\ LockRule(l, x, m)
  BY <1>1 DEF LockGoes
<1>3. m.now \subseteq l.now /\ m.then = l.then
  <2>1. LockGains(x) = {} /\ LockLoses(x) = {} /\ x[1] \notin Catchers
    BY DEF LockGains, LockLoses, Catchers
  <2> QED
    BY <1>2, <2>1 DEF LockRule
<1>4. ASSUME NEW more \in Seq(Steps), Arbiter(p, mem[p], more), NEW k \in Label, k.now \subseteq l.now,
             Path(LockRules, more, k, m)
      PROVE  LockInv'
  <2>1. /\ Moved(p, more) /\ UNCHANGED file
        /\ act'[p].sys = act[p].sys
        /\ \A q \in Procs : mem'[q] = mem[q]
    BY <1>0, <1>4, MovedArbiter
  <2>2. FilesStay
    BY <2>1, LockFilesKept DEF StoreKept
  <2>3. KnowsLock(p, k.now)'
    BY <1>2, <1>4, <2>1, <2>2 DEF KnowsLock, FilesStay
  <2> QED
    BY <1>0, <1>1, <1>4, <2>1, <2>2, <2>3, LockMoved
<1>5. CASE Arbiter(p, mem[p], <<>>)
  <2>1. Path(LockRules, <<>>, m, m) /\ m \in Label /\ <<>> \in Seq(Steps)
    BY <1>1, PathNil
  <2> QED
    BY <1>3, <1>4, <1>5, <2>1
<1>6. CASE x[1] = "syncIfZero" /\ Arbiter(p, mem[p], SyncTotal \o <<c>>)
  <2> DEFINE T == l.now \cup {"sure"}
             a == Knowing(l.now, T)
             b == Knowing(T, m.then)
  <2>1. "pres" \in l.now
    BY <1>2, <1>6 DEF LockRule, LockNeeds
  <2>2. T \in SUBSET Claims /\ l.now \in SUBSET Claims /\ m.now \in SUBSET Claims /\ m.then \in SUBSET Claims
        /\ m = Knowing(m.now, m.then) /\ m.now \subseteq T
    BY <1>1, <1>3, LabelParts DEF Claims, LockClaims
  <2>3. a \in Label /\ a.now = l.now /\ b \in Label
    BY <2>2, KnowingLabel
  <2>4. Path(LockRules, SyncTotal, a, b)
    BY <2>1, <2>2, LockSyncTotal
  <2>5. c \in Steps /\ <<b, c, Knowing(m.now, m.then)>> \in LockRules
    BY <2>2, LockCall
  <2> HIDE DEF a, b, c, T
  <2>6. Path(LockRules, <<c>>, b, m)
    BY <2>2, <2>3, <2>5, PathOne
  <2>7. Path(LockRules, SyncTotal \o <<c>>, a, m)
    BY <2>4, <2>6, PathCat
  <2>8. SyncTotal \o <<c>> \in Seq(Steps)
    BY <2>7 DEF Path
  <2> QED
    BY <1>4, <1>6, <2>3, <2>7, <2>8
<1>7. x[1] = "calibrateIfZero" => act[p].sys # None
  BY <1>2 DEF LockRule, LockNeeds, KnowsLock
<1>8. CASE x[1] = "syncIfZero"
  <2>1. At(p, "syncIfZero") /\ ~At(p, "total") /\ ~At(p, "calibrateIfZero")
    BY <1>8, <1>0 DEF At
  <2>2. Arbiter(p, mem[p], IF mem[p].total # 0 THEN <<>> ELSE SyncTotal \o <<c>>)
    BY <2>1 DEF Sync
  <2> HIDE DEF c
  <2> QED
    BY <1>5, <1>6, <1>8, <2>2
<1>9. CASE x[1] = "calibrateIfZero"
  <2>1. At(p, "calibrateIfZero") /\ ~At(p, "total") /\ ~At(p, "syncIfZero")
    BY <1>9, <1>0 DEF At
  <2>2. Arbiter(p, mem[p], IF act[p].sys # None \/ mem[p].total # 0 THEN <<>>
                           ELSE AutoCalibrate \o <<Do("catch")>>)
    BY <2>1 DEF Sync
  <2>3. act[p].sys # None
    BY <1>7, <1>9
  <2> QED
    BY <1>5, <2>2, <2>3
<1> QED
  BY <1>8, <1>9

(* Loading the fingerprint: a file gives it; the JSON file is torn and the *)
(* binary one is made anew; or none is there, and it is calibrated.        *)
LEMMA LockLoadEffect ==
    ASSUME NEW p, LoadSys(p), file[<<"sys", "bin">>] = Torn => There
    PROVE  \/ Present /\ \E c \in Silicon : Got(p, [act[p] EXCEPT !.sys = c], <<>>)
           \/ There /\ Got(p, act[p], Heal \o <<Do("catch"), Do("orBlank")>>)
           \/ ~Present /\ Got(p, act[p], AutoCalibrate \o <<Do("loadSys")>>)
<1> DEFINE json == file[<<"sys", "json">>]
           bin == file[<<"sys", "bin">>]
           Read(c) == Got(p, [act[p] EXCEPT !.sys = c], <<>>)
           Calibrated == Got(p, act[p], AutoCalibrate \o <<Do("loadSys")>>)
           Healed(more) == Got(p, act[p], Heal \o more)
           Caught2 == <<Do("catch"), Do("orBlank")>>
<1>1. /\ "probed" \in Silicon /\ "blank" \in Silicon
  BY DEF Silicon
<1>2. CASE json \notin {Absent, Torn}
  <2>1. Read("probed")
    BY <1>2 DEF LoadSys
  <2> QED
    BY <1>1, <1>2, <2>1 DEF Present, There
<1>3. CASE json = Torn /\ bin = Absent
  <2>0. json # Absent
    BY <1>3, GovernorAssumption
  <2>1. Read("blank")
    BY <1>3, <2>0 DEF LoadSys
  <2> QED
    BY <1>1, <2>0, <2>1 DEF Present, There
<1>4. CASE json = Torn /\ bin # Absent
  <2>0. json # Absent
    BY <1>4, GovernorAssumption
  <2>1. FromBinary(p, Caught2)
    BY <1>4, <2>0 DEF LoadSys
  <2>2. Read("probed") \/ Healed(Caught2)
    BY <2>1 DEF FromBinary
  <2> QED
    BY <1>1, <2>0, <2>2 DEF Present, There
<1>5. CASE json = Absent /\ bin # Absent
  <2>0. json # Torn
    BY <1>5, GovernorAssumption
  <2>1. FromBinary(p, <<>>)
    BY <1>5, <2>0 DEF LoadSys
  <2>2. Whole(<<"sys", "bin">>)
    BY <1>5 DEF Whole, There
  <2>3. Read("probed")
    BY <2>1, <2>2 DEF FromBinary
  <2> QED
    BY <1>1, <1>5, <2>3 DEF Present, There
<1>6. CASE json = Absent /\ bin = Absent
  <2>0. json # Torn
    BY <1>6, GovernorAssumption
  <2>1. Calibrated
    BY <1>6, <2>0 DEF LoadSys
  <2> QED
    BY <1>6, <2>1 DEF Present, There
<1> QED
  BY <1>2, <1>3, <1>4, <1>5, <1>6

(* Loading the fingerprint. *)
LEMMA LockLoadSys ==
    ASSUME TypeInv, LockInv, NEW p \in Procs, LoadSys(p)
    PROVE  LockInv'
<1> DEFINE x == Head(act[p].todo)
<1>0. act[p].todo # <<>> /\ x[1] = "loadSys"
  BY AtHead DEF LoadSys, Turn
<1>1. PICK l \in Label, m \in Label, e \in Label : LockGoes(p, l, m, e)
  BY <1>0, LockHere
<1>2. KnowsLock(p, l.now) /\ LockRule(l, x, m)
  BY <1>1 DEF LockGoes
<1>3. /\ m.now \subseteq l.now \cup {"sure", "pres"} /\ m.then = l.then
      /\ \/ "pres" \in l.now
         \/ "free" \in l.now /\ l.then \subseteq (l.now \cup {"json", "pres"}) \ {"sure"}
  <2>1. LockGains(x) = {"sure", "pres"} /\ LockLoses(x) = {} /\ x[1] \notin Catchers
    BY <1>0 DEF LockGains, LockLoses, Catchers
  <2> QED
    BY <1>0, <1>2, <2>1 DEF LockRule
<1>4. /\ l.now \in SUBSET Claims /\ l.then \in SUBSET Claims /\ m.now \in SUBSET Claims
      /\ m.then \in SUBSET Claims /\ Knowing(m.now, m.then) = m
  BY LabelParts
<1>5. act[p] \in ActType /\ <<>> \in Seq(Steps) /\ Path(LockRules, <<>>, m, m)
  BY <1>0, TypeHere, PathNil
<1> HIDE DEF x
<1>6. CASE Present /\ \E c \in Silicon : Got(p, [act[p] EXCEPT !.sys = c], <<>>)
  <2>1. PICK c \in Silicon : Got(p, [act[p] EXCEPT !.sys = c], <<>>)
    BY <1>6
  <2> DEFINE a == [act[p] EXCEPT !.sys = c]
  <2>2. a \in ActType /\ a.op = act[p].op /\ a.todo = act[p].todo /\ a.sys = c
    BY <1>5 DEF ActType
  <2>3. c # None
    BY GovernorAssumption
  <2>4. KnowsLock(p, m.now \ {"sure"})
    BY <1>2, <1>3, <1>6 DEF KnowsLock
  <2>5. Got(p, a, <<>>)
    BY <2>1
  <2> HIDE DEF a
  <2> QED
    BY <1>0, <1>1, <1>5, <2>2, <2>3, <2>4, <2>5, LockRead
<1>7. CASE There /\ Got(p, act[p], Heal \o <<Do("catch"), Do("orBlank")>>)
  <2> DEFINE N == l.now \cup {"json", "pres"}
             T == (l.now \ {"sure"}) \cup {"json", "pres"}
             k == Knowing(N, T)
             g == Knowing(T, T)
             h == Knowing(T, m.then)
             c == Do("catch")
             d == Do("orBlank")
  <2>1. N \in SUBSET Claims /\ T \in SUBSET Claims /\ T \in SUBSET N /\ T \subseteq T
        /\ "json" \in N /\ T \subseteq (N \cup {"pres"}) \ {"sure"}
        /\ m.now \subseteq T \cup {"sure"}
    BY <1>3, <1>4 DEF Claims, LockClaims
  <2>2. k \in Label /\ k.now = N /\ g \in Label /\ h \in Label
    BY <1>4, <2>1, KnowingLabel
  <2>3. Path(LockRules, Heal, k, g)
    BY <2>1, LockHeal
  <2>4. c \in Steps /\ <<g, c, h>> \in LockRules
    BY <1>4, <2>1, LockCatch DEF Catchers
  <2>5. d \in Steps /\ <<h, d, Knowing(m.now, m.then)>> \in LockRules
    BY <1>4, <2>1, LockCall
  <2>6. KnowsLock(p, N \ {"sure"}) /\ ("sure" \in N => act[p].sys # None)
    BY <1>2, <1>7 DEF KnowsLock, Present
  <2> HIDE DEF N, T, k, g, h, c, d
  <2>7. Path(LockRules, <<c, d>>, g, m)
    BY <1>4, <2>2, <2>4, <2>5, PathTwo
  <2>8. Path(LockRules, Heal \o <<c, d>>, k, m)
    BY <2>3, <2>7, PathCat
  <2>9. Heal \o <<c, d>> \in Seq(Steps) /\ Got(p, act[p], Heal \o <<c, d>>)
    BY <1>7, <2>8 DEF Path, c, d
  <2> QED
    BY <1>0, <1>1, <1>5, <2>2, <2>6, <2>8, <2>9, LockRead
<1>8. CASE ~Present /\ Got(p, act[p], AutoCalibrate \o <<Do("loadSys")>>)
  <2> DEFINE N == l.now \cup {"sure", "json", "pres"}
             h == Knowing(N, l.then)
             c == Do("loadSys")
  <2>1. "free" \in l.now /\ l.then \subseteq (l.now \cup {"json", "pres"}) \ {"sure"}
    BY <1>2, <1>3, <1>8 DEF KnowsLock
  <2>2. N \in SUBSET Claims /\ N \subseteq N /\ m.now \subseteq N \cup {"sure", "pres"} /\ "pres" \in N
    BY <1>3, <1>4 DEF Claims, LockClaims
  <2>3. h \in Label /\ Knowing(l.now, l.then) = l
    BY <1>4, <2>2, KnowingLabel, LabelParts
  <2>4. Path(LockRules, AutoCalibrate, Knowing(l.now, l.then), h)
    BY <1>4, <2>1, <2>2, LockAutoCalibrate
  <2>5. c \in Steps /\ <<h, c, Knowing(m.now, l.then)>> \in LockRules
    BY <1>4, <2>2, LockLoad
  <2> HIDE DEF N, h, c
  <2>6. Path(LockRules, <<c>>, h, m)
    BY <1>3, <1>4, <2>3, <2>5, PathOne
  <2>7. Path(LockRules, AutoCalibrate \o <<c>>, l, m)
    BY <2>3, <2>4, <2>6, PathCat
  <2>8. AutoCalibrate \o <<c>> \in Seq(Steps) /\ Got(p, act[p], AutoCalibrate \o <<c>>)
    BY <1>8, <2>7 DEF Path, c
  <2>9. KnowsLock(p, l.now \ {"sure"}) /\ ("sure" \in l.now => act[p].sys # None)
    BY <1>2 DEF KnowsLock
  <2> QED
    BY <1>0, <1>1, <1>5, <2>7, <2>8, <2>9, LockRead
<1>9. file[<<"sys", "bin">>] = Torn => There
  BY DEF LockInv
<1> QED
  BY <1>6, <1>7, <1>8, <1>9, LockLoadEffect

-----------------------------------------------------------------------------
(* The invariant *)

(* Every step of a process is of the settings, of the registry or of the   *)
(* fingerprint and the lock.                                               *)
LEMMA StepKinds ==
    ASSUME TypeInv, NEW p \in Procs, Step(p) \/ Edit(p) \/ EditPermission(p), ~End(p)
    PROVE  \/ Head(act[p].todo) \in SettingSteps \cup RegistrySteps
           \/ Head(act[p].todo)[1] = "editPerm"
           \/ Head(act[p].todo) \in SiliconSteps
<1> DEFINE x == Head(act[p].todo)
<1>1. act[p].todo # <<>>
  BY Kinds
<1>2. x \in Steps /\ Fits(act[p].op, x)
  BY <1>1, TypeHere DEF Goes, TypeRule
<1>3. x[1] # ""
  <2>1. SUFFICES ASSUME x[1] = "" PROVE FALSE
    OBVIOUS
  <2>2. \A what : At(p, what) => what = ""
    BY Zenon, <2>1 DEF At
  <2> HIDE DEF x
  <2> QED
    BY Zenon, <2>2 DEF Step, Edit, EditPermission, Open, Fill, Rename, RemoveFile, SetFileLock,
                LoadPerm, LoadBoost, LoadSys, LoadRegistry, Probe, Change, Saved,
                Lock, Sync, Allocate, Free, Fit, Registry, Turn
<1>4. x[1] \in Words /\ x[2] \in Places /\ x[3] \in Extensions
  BY <1>2 DEF Steps
<1>5. CASE x[1] \in {"open", "fill", "remove"}
  <2>1. <<x[2], x[3]>> \in Files \/ x[2] \in {"boost", "sys"}
    BY <1>2, <1>5 DEF Fits
  <2>2. x[2] \in {"perm", "boost", "sys", "reg"} /\ (x[1] = "remove" => x[2] # "reg")
    BY <1>2, <1>5, <2>1 DEF Files, Settings, Fits
  <2> HIDE DEF x
  <2> QED
    BY <1>2, <1>5, <2>2 DEF SettingSteps, RegistrySteps, SiliconSteps, Settings, x
<1>6. CASE x[1] \notin {"open", "fill", "remove"}
  <2> HIDE DEF x
  <2> QED
    BY Zenon, <1>2, <1>3, <1>4, <1>6 DEF Words, SettingSteps, RegistrySteps, SiliconSteps, x
<1> QED
  BY <1>5, <1>6

(* Every step keeps the invariant. *)
LEMMA LockNext ==
    ASSUME TypeInv, LockInv, [Next]_vars PROVE LockInv'
<1>0. TypeInv'
  BY TypeNext
<1>1. ASSUME NEW p \in Procs, Step(p) \/ Edit(p) \/ EditPermission(p), ~End(p)
      PROVE  LockInv'
  <2> DEFINE x == Head(act[p].todo)
  <2>1. CASE x \in SettingSteps \cup RegistrySteps \/ x[1] = "editPerm"
    BY <1>0, <1>1, <2>1, LockElsewhere
  <2>2. CASE x \in SiliconSteps
    <3>1. \/ x[1] \in {"probe", "orBlank", "catch", "require"}
          \/ x[1] = "loadSys" \/ x[1] = "rename" \/ x[1] \in {"lock", "unlock"}
          \/ x[1] \in {"syncIfZero", "calibrateIfZero"}
          \/ x[2] = "sys" /\ x[1] = "open"
          \/ x[2] = "sys" /\ x[1] = "fill"
          \/ x[2] = "sys" /\ x[1] = "remove"
      BY <2>2 DEF SiliconSteps
    <3>2. CASE x[1] \in {"probe", "orBlank", "catch", "require"}
      BY <1>1, <3>2, Kinds, LockProbe
    <3>3. CASE x[1] = "loadSys"
      BY <1>1, <3>3, Kinds, LockLoadSys
    <3>4. CASE x[1] = "rename"
      BY <1>1, <3>4, Kinds, LockRename
    <3>5. CASE x[1] \in {"lock", "unlock"}
      BY <1>1, <3>5, Kinds, LockTake
    <3>6. CASE x[1] \in {"syncIfZero", "calibrateIfZero"}
      BY <1>1, <3>6, Kinds, LockSync
    <3>7. CASE x[2] = "sys" /\ x[1] = "open"
      BY <1>1, <3>7, Kinds, LockOpen
    <3>8. CASE x[2] = "sys" /\ x[1] = "fill"
      BY <1>1, <3>8, Kinds, LockFill
    <3>9. CASE x[2] = "sys" /\ x[1] = "remove"
      BY <1>1, <3>9, Kinds, LockRemove
    <3> QED
      BY <3>1, <3>2, <3>3, <3>4, <3>5, <3>6, <3>7, <3>8, <3>9
  <2> QED
    BY <1>1, <2>1, <2>2, StepKinds
<1>2. ASSUME NEW p \in Procs, End(p) PROVE LockInv'
  BY <1>2, LockEnd
<1>3. ASSUME NEW p \in Procs, Boot(p) \/ Begin(p) PROVE LockInv'
  BY <1>3, LockBegin
<1>4. ASSUME NEW p \in Procs, Crash(p) PROVE LockInv'
  BY <1>4, LockCrash
<1>5. CASE UNCHANGED vars
  BY <1>5, LockStutter
<1>6. CASE Next
  BY <1>1, <1>2, <1>3, <1>4, <1>6 DEF Next
<1> QED
  BY <1>5, <1>6

(* Running processes find a file of the fingerprint: the user may delete   *)
(* one of its files, not both.                                             *)
FingerprintThere == \A truth \in Found : truth["json"] # Absent \/ truth["bin"] # Absent

(* At first the lock is free. *)
LEMMA LockInit ==
    ASSUME FingerprintThere, Init PROVE LockInv
<1>1. file[<<"sys", "bin">>] # Torn
  BY FileInit, GovernorAssumption DEF Silicon
<1>2. \A p \in Procs : ~mem[p].held /\ act[p].op = "idle"
  BY MemInit, IdleTyped DEF Init
<1>3. \A p \in Procs : mem[p].booted => Present
  <2>1. CASE FirstStart
    BY <2>1, MemInit
  <2>2. CASE Running
    <3>1. PICK truth \in Found :
            file = [f \in Files |->
                CASE f[1] = "boost" -> Optimal("probed")
                  [] f \in {<<"sys", "json">>, <<"sys", "bin">>} -> truth[f[2]]
                  [] OTHER -> Absent]
      BY <2>2 DEF Running
    <3>2. <<"sys", "json">> \in Files /\ <<"sys", "bin">> \in Files
          /\ <<"sys", "json">>[1] # "boost" /\ <<"sys", "bin">>[1] # "boost"
          /\ <<"sys", "json">>[2] = "json" /\ <<"sys", "bin">>[2] = "bin"
      BY DEF Files
    <3>3. file[<<"sys", "json">>] = truth["json"] /\ file[<<"sys", "bin">>] = truth["bin"]
      BY <3>1, <3>2
    <3> QED
      BY <3>3 DEF Present, There, FingerprintThere
  <2> QED
    BY <2>1, <2>2 DEF Init
<1> QED
  BY <1>1, <1>2, <1>3 DEF LockInv, LockWalk

(* Who is about to take the lock does not hold it. *)
LEMMA LockFree ==
    ASSUME TypeInv, LockInv PROVE NeverSelfLocked
<1> SUFFICES ASSUME NEW p \in Procs, At(p, "lock") PROVE ~mem[p].held
  BY DEF NeverSelfLocked
<1>1. act[p].todo # <<>> /\ Head(act[p].todo)[1] = "lock"
  BY AtHead
<1>2. PICK l \in Label, m \in Label, e \in Label : LockGoes(p, l, m, e)
  BY <1>1, LockHere
<1>3. LockNeeds(Head(act[p].todo)) = {"free"}
  BY <1>1 DEF LockNeeds
<1> QED
  BY <1>2, <1>3 DEF LockGoes, LockRule, KnowsLock

(* As long as running processes find a file of the fingerprint, no process *)
(* waits for the arbiter's lock while it holds it: files are torn, renamed *)
(* and written by others in between, and processes crash, but the recovery *)
(* scan, which takes the lock, is only begun with the lock free.           *)
THEOREM NobodyLocksItselfOut == FingerprintThere => (Spec => []NeverSelfLocked)
<1> SUFFICES ASSUME FingerprintThere PROVE Spec => []NeverSelfLocked
  OBVIOUS
<1>1. Init => TypeInv /\ LockInv
  BY TypeInit, LockInit
<1>2. (TypeInv /\ LockInv) /\ [Next]_vars => (TypeInv /\ LockInv)'
  BY TypeNext, LockNext
<1>3. TypeInv /\ LockInv => NeverSelfLocked
  BY LockFree
<1> QED
  BY <1>1, <1>2, <1>3, PTL DEF Spec
=============================================================================
