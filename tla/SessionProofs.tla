---------------------------- MODULE SessionProofs ----------------------------
(***************************************************************************)
(* What a terminal session promises, proved for every number of models,    *)
(* every set of texts and triggers, and sessions of every length; first,   *)
(* what the interceptor does to a text, however the engine cuts it: facts  *)
(* about the operators of ToolStream.                                      *)
(***************************************************************************)
EXTENDS SessionProperties, SequenceTheorems, WellFoundedInduction, TLAPS

-----------------------------------------------------------------------------
(* Places in a text *)

(* The least of some numbers is one of them. *)
LEMMA MinElement ==
    ASSUME NEW S \in SUBSET Nat, S # {}
    PROVE  Min(S) \in S /\ \A y \in S : Min(S) <= y
<1> DEFINE Less == OpToRel(<, Nat)
<1>1. IsWellFoundedOn(Less, Nat)
  BY NatLessThanWellFounded
<1>2. \A x, y \in Nat : <<y, x>> \in Less <=> y < x
  BY Zenon DEF OpToRel
<1> HIDE DEF Less
<1>3. \E x \in S : \A y \in S : <<y, x>> \notin Less
  BY <1>1, WFMin
<1>4. \E x \in S : \A y \in S : ~(y < x)
  BY <1>2, <1>3, Zenon
<1>5. \E x \in S : \A y \in S : x <= y
  BY <1>4
<1> QED
  BY <1>5 DEF Min

(* So is the greatest, when they have a bound. *)
LEMMA MaxElement ==
    ASSUME NEW n \in Nat, NEW S \in SUBSET (0..n), S # {}
    PROVE  Max(S) \in S
<1> DEFINE T == {n - x : x \in S}
<1>1. T \in SUBSET Nat /\ T # {}
  <2>1. \A x \in S : x \in Nat /\ n - x \in Nat
    OBVIOUS
  <2> QED
    BY <2>1
<1>2. PICK x \in S : Min(T) = n - x
  BY <1>1, MinElement
<1>3. \A y \in S : n - x <= n - y
  BY <1>1, <1>2, MinElement
<1>4. \A y \in S : x >= y
  BY <1>3
<1> QED
  BY <1>4 DEF Max

(* A text is what is before a place and what begins there. *)
LEMMA SplitAt ==
    ASSUME NEW S, NEW s \in Seq(S), NEW i \in 1..Len(s)
    PROVE  /\ Before(s, i) \in Seq(S) /\ From(s, i) \in Seq(S)
           /\ Before(s, i) \o From(s, i) = s
           /\ Len(From(s, i)) = Len(s) - i + 1
           /\ \A j \in 1..Len(From(s, i)) : From(s, i)[j] = s[i + j - 1]
<1>1. \A j \in 1..Len(s) : s[j] \in S
  BY ElementOfSeq
<1>2. SubSeq(s, 1, i - 1) \in Seq(S) /\ SubSeq(s, i, Len(s)) \in Seq(S)
  BY <1>1, SubSeqProperties
<1>3. SubSeq(s, 1, i - 1) \o SubSeq(s, (i - 1) + 1, Len(s)) = SubSeq(s, 1, Len(s))
  <2>1. 1 \in 1..(Len(s) + 1) /\ i - 1 \in (1 - 1)..Len(s) /\ Len(s) \in (i - 1)..Len(s)
    OBVIOUS
  <2> QED
    BY <2>1, ConcatAdjacentSubSeq
<1>4. SubSeq(s, 1, Len(s)) = s
  BY SubSeqFull
<1>5. /\ Len(SubSeq(s, i, Len(s))) = Len(s) - i + 1
      /\ \A j \in 1..(Len(s) - i + 1) : SubSeq(s, i, Len(s))[j] = s[i + j - 1]
  BY <1>1, SubSeqProperties
<1> QED
  BY <1>2, <1>3, <1>4, <1>5 DEF Before, From

(* The symbols of a prefix. *)
LEMMA PrefixSymbols ==
    ASSUME NEW S, NEW T, NEW s \in Seq(S), NEW t \in Seq(T), IsPrefix(s, t)
    PROVE  Len(s) <= Len(t) /\ \A j \in 1..Len(s) : s[j] = t[j]
<1>1. Len(s) <= Len(t) /\ SubSeq(s, 1, Len(s)) = SubSeq(t, 1, Len(s))
  BY DEF IsPrefix
<1>2. \A j \in 1..Len(s) : SubSeq(s, 1, Len(s))[j] = s[j]
  BY SubSeqProperties, ElementOfSeq
<1>3. \A j \in 1..Len(s) : SubSeq(t, 1, Len(s))[j] = t[j]
  <2>1. \A j \in 1..Len(s) : t[j] \in T
    BY <1>1, ElementOfSeq
  <2> QED
    BY <2>1, SubSeqProperties
<1> QED
  BY <1>1, <1>2, <1>3

(* A text that agrees with another one as far as it goes is a prefix. *)
LEMMA SamePrefix ==
    ASSUME NEW S, NEW T, NEW s \in Seq(S), NEW t \in Seq(T), Len(s) <= Len(t),
           \A j \in 1..Len(s) : s[j] = t[j]
    PROVE  IsPrefix(s, t)
<1> DEFINE a == SubSeq(s, 1, Len(s))
           b == SubSeq(t, 1, Len(s))
<1>1. a \in Seq(S) /\ Len(a) = Len(s) /\ \A j \in 1..Len(s) : a[j] = s[j]
  BY SubSeqProperties, ElementOfSeq
<1>2. b \in Seq(T) /\ Len(b) = Len(s) /\ \A j \in 1..Len(s) : b[j] = t[j]
  <2>1. \A j \in 1..Len(s) : t[j] \in T
    BY ElementOfSeq
  <2> QED
    BY <2>1, SubSeqProperties
<1> HIDE DEF a, b
<1>3. a \in Seq(S \cup T) /\ b \in Seq(S \cup T)
  BY <1>1, <1>2
<1>4. Len(a) = Len(b) /\ \A j \in 1..Len(a) : a[j] = b[j]
  BY <1>1, <1>2
<1>5. a = b
  BY <1>3, <1>4, SeqEqual
<1> QED
  BY <1>5 DEF IsPrefix, a, b

(* "<TRIGGER:" as a sequence. *)
LEMMA LegacyShape ==
    Legacy \in Seq({"<", "R"}) /\ Len(Legacy) = 2 /\ Legacy[1] = "<" /\ Legacy[2] = "R"
<1> DEFINE L == <<"<", "R">>
<1>1. L \in Seq({"<", "R"}) /\ Len(L) = 2 /\ L[1] = "<" /\ L[2] = "R"
  OBVIOUS
<1> QED
  BY <1>1 DEF Legacy

(* Where "<TRIGGER:" is. *)
LEMMA LegacyPlace ==
    ASSUME NEW S, NEW s \in Seq(S), NEW i \in Occurs(Legacy, s)
    PROVE  i + 1 \in 1..Len(s) /\ s[i] = "<" /\ s[i + 1] = "R"
<1>1. i \in 1..Len(s) /\ IsPrefix(Legacy, From(s, i))
  BY DEF Occurs
<1>2. Legacy \in Seq({"<", "R"}) /\ Len(Legacy) = 2 /\ Legacy[1] = "<" /\ Legacy[2] = "R"
  BY LegacyShape
<1>3. 2 <= Len(From(s, i)) /\ From(s, i)[1] = "<" /\ From(s, i)[2] = "R"
  BY <1>1, <1>2, SplitAt, PrefixSymbols, SMTT(30)
<1>4. /\ Len(From(s, i)) = Len(s) - i + 1 /\ 1 \in 1..Len(From(s, i)) /\ 2 \in 1..Len(From(s, i))
      /\ \A j \in 1..Len(From(s, i)) : From(s, i)[j] = s[i + j - 1]
  BY <1>1, <1>3, SplitAt
<1>5. i + 1 - 1 = i /\ i + 2 - 1 = i + 1 /\ i + 1 \in 1..Len(s)
  BY <1>1, <1>3, <1>4
<1> QED
  BY <1>3, <1>4, <1>5

(* The end of a trigger has no "<TRIGGER:" behind it. *)
EndIsLast(t) == \A i, j \in 1..Len(t) : t[i] = "E" /\ i < j => t[j] # "R"

(* A text that begins with "<TRIGGER:" and has its end, with no "<TRIGGER:" *)
(* behind that, has a header.                                              *)
LEMMA EndedIsHeaded ==
    ASSUME NEW S, NEW t \in Seq(S), IsLegacy(t), Has(t, {"E"}), EndIsLast(t)
    PROVE  Headed(t)
<1> DEFINE k == Max(Occurs(Legacy, t))
<1>1. Len(Legacy) = 2
  BY DEF Legacy
<1>2. 2 <= Len(t) /\ From(t, 1) = t
  BY <1>1, SubSeqFull DEF IsLegacy, IsPrefix, From
<1>3. 1 \in Occurs(Legacy, t) /\ Occurs(Legacy, t) \in SUBSET (0..Len(t))
  BY <1>2 DEF Occurs, IsLegacy
<1>4. k \in Occurs(Legacy, t)
  <2>1. Len(t) \in Nat
    OBVIOUS
  <2> QED
    BY <1>3, <2>1, MaxElement
<1>5. k \in 1..Len(t) /\ k + 1 \in 1..Len(t) /\ t[k + 1] = "R" /\ t[k] = "<"
  BY <1>4, LegacyPlace DEF Occurs
<1>6. PICK e \in 1..Len(t) : t[e] = "E"
  BY DEF Has, ToSet
<1>7. k < e
  BY <1>5, <1>6 DEF EndIsLast
<1> HIDE DEF k
<1>8. /\ e - k + 1 \in 1..Len(From(t, k)) /\ From(t, k)[e - k + 1] = t[k + (e - k + 1) - 1]
  BY <1>5, <1>6, <1>7, SplitAt
<1>9. /\ From(t, k) \in Seq(S) /\ e - k + 1 \in DOMAIN From(t, k) /\ From(t, k)[e - k + 1] = "E"
  BY <1>5, <1>6, <1>7, <1>8, SplitAt
<1>10. "E" \in ToSet(From(t, k)) \cap Greater
  BY <1>9 DEF ToSet, Greater
<1> QED
  BY <1>10 DEF Headed, Actual, Has, k

-----------------------------------------------------------------------------
(* The operators on streams *)

Fields == {"phase", "dyn", "gen", "passed", "cache", "json", "capture", "acc",
           "tool", "runs", "res", "eos", "go", "crashed"}

(* What the callback of a piece leaves alone. *)
Frame(r, s) ==
    /\ DOMAIN r = Fields
    /\ r.phase = s.phase /\ r.dyn = s.dyn /\ r.gen = s.gen /\ r.cache = s.cache
    /\ r.json = s.json /\ r.capture = s.capture /\ r.tool = s.tool
    /\ r.runs = s.runs /\ r.acc = s.acc /\ r.crashed = s.crashed

(* The callback sets eos, go and the result, and nothing else. *)
LEMMA CallbackFrame ==
    ASSUME NEW s, DOMAIN s = Fields, NEW text, NEW stop
    PROVE  /\ Frame(Callback(s, text, stop), s)
           /\ Callback(s, text, stop).passed = s.passed
<1> USE DEF Fields
<1>1. CASE Stopped(s, text, stop)
  <2>1. Callback(s, text, stop) = [s EXCEPT !.go = FALSE]
    BY <1>1 DEF Callback
  <2> QED
    BY <2>1 DEF Frame
<1>2. CASE ~Stopped(s, text, stop) /\ IsSuffix(StopText, s.res \o text)
  <2>1. Callback(s, text, stop) = [s EXCEPT !.eos = TRUE, !.go = FALSE]
    BY <1>2 DEF Callback
  <2> QED
    BY <2>1 DEF Frame
<1>3. CASE ~Stopped(s, text, stop) /\ ~IsSuffix(StopText, s.res \o text)
  <2>1. Callback(s, text, stop) =
            [s EXCEPT !.res = @ \o text, !.go = TRUE, !.eos = @ /\ text # <<"P">>]
    BY <1>3 DEF Callback
  <2> QED
    BY <2>1 DEF Frame
<1> QED
  BY <1>1, <1>2, <1>3

(* A text that is passed on is counted, and given to the callback. *)
LEMMA PassFrame ==
    ASSUME NEW s, DOMAIN s = Fields, NEW text, NEW stop
    PROVE  /\ Frame(Pass(s, text, stop), s)
           /\ Pass(s, text, stop).passed = s.passed \o text
<1> DEFINE r == [s EXCEPT !.passed = @ \o text]
<1>1. DOMAIN r = Fields /\ Frame(r, s) /\ r.passed = s.passed \o text
  BY DEF Frame, Fields
<1>2. Pass(s, text, stop) = Callback(r, text, stop)
  BY DEF Pass
<1> HIDE DEF r
<1>3. Frame(Callback(r, text, stop), r) /\ Callback(r, text, stop).passed = r.passed
  BY <1>1, CallbackFrame
<1> QED
  BY <1>1, <1>2, <1>3 DEF Frame

(* An empty text is not given to it. *)
LEMMA PassIfAnyFrame ==
    ASSUME NEW S, NEW s, DOMAIN s = Fields, s.passed \in Seq(S), NEW text \in Seq(S), NEW stop
    PROVE  /\ Frame(PassIfAny(s, text, stop), s)
           /\ PassIfAny(s, text, stop).passed = s.passed \o text
<1>1. CASE text = <<>>
  BY <1>1, ConcatEmptySeq DEF PassIfAny, Frame
<1>2. CASE text # <<>>
  BY <1>2, PassFrame DEF PassIfAny
<1> QED
  BY <1>1, <1>2
-----------------------------------------------------------------------------
(* The first phase *)

(* The symbols other than those of "<TRIGGER:" behind its '<', and its end. *)
Quiet(S) == S \ {"E", "R"}

IsStream(s, S) ==
    /\ DOMAIN s = Fields
    /\ s.gen \in Seq(S) /\ s.passed \in Seq(S) /\ s.cache \in Seq(S)
    /\ s.json \in Seq(S) /\ s.acc \in Seq(S) /\ s.dyn \in Seq(Seq(Quiet(S)))
    /\ s.capture \in BOOLEAN /\ s.tool \in {"none", "legacy", "cel"}

(* What was generated was passed on or is held. *)
Held(s) == IF s.capture THEN s.json ELSE s.cache
Balance(s) == s.gen = s.passed \o Held(s)

(* Without a capture the held text is the beginning of a trigger; while    *)
(* the engine goes on, a captured "<TRIGGER:" is without its end.          *)
Calm(s) ==
    /\ ~s.capture => s.json = <<>> /\ \A i \in 1..Len(s.cache) : s.cache[i] \notin {"E", "R"}
    /\ s.go => s.tool = "none"
    /\ s.go /\ s.capture /\ IsLegacy(s.json) =>
          \A i \in 1..Len(s.json) : s.json[i] # "E"

(* The header of the captured "<TRIGGER:" ends where the trigger ends. *)
Clash(json) ==
    Actual(json)[Min({i \in DOMAIN Actual(json) : Actual(json)[i] \in Greater})] = "E"

Taken(s) ==
    /\ s.tool # "none" => s.capture
    /\ s.tool = "legacy" => ~Clash(s.json)
    /\ s.tool = "cel" => ~IsLegacy(s.json)

Good(s, S) == IsStream(s, S) /\ Balance(s) /\ Calm(s) /\ Taken(s)

(* What a phase keeps. *)
Keeps(r, s) == r.phase = s.phase /\ r.dyn = s.dyn /\ r.runs = s.runs

(* Go changes one field. *)
LEMMA GoFrame ==
    ASSUME NEW s, DOMAIN s = Fields
    PROVE  /\ Frame(Go(s, TRUE), s) /\ Go(s, TRUE).passed = s.passed
           /\ Frame(Go(s, FALSE), s) /\ Go(s, FALSE).passed = s.passed
           /\ ~Go(s, FALSE).go
BY DEF Go, Frame, Fields

(* A callback after which the interceptor stops the engine. *)
LEMMA StopFrame ==
    ASSUME NEW s, DOMAIN s = Fields, NEW text, NEW stop
    PROVE  /\ Frame(Go(Callback(s, text, stop), FALSE), s)
           /\ Go(Callback(s, text, stop), FALSE).passed = s.passed
           /\ ~Go(Callback(s, text, stop), FALSE).go
<1> DEFINE c == Callback(s, text, stop)
<1>1. Frame(c, s) /\ c.passed = s.passed
  BY CallbackFrame
<1> HIDE DEF c
<1> DEFINE r == [c EXCEPT !.go = FALSE]
<1>2. Frame(r, s) /\ r.passed = s.passed /\ ~r.go
  BY <1>1 DEF Frame, Fields
<1>3. Go(c, FALSE) = r
  BY DEF Go
<1> HIDE DEF r
<1> QED
  BY <1>2, <1>3, Zenon DEF c

(* A trigger that is taken, or cannot be, changes no text. *)
LEMMA PayloadGood ==
    ASSUME NEW S, NEW s, IsStream(s, S), Balance(s), Taken(s), s.capture, NEW stop
    PROVE  /\ Good(Payload(s, stop), S) /\ Keeps(Payload(s, stop), s)
           /\ Payload(s, stop).capture /\ Payload(s, stop).passed = s.passed
<1>1. CASE Clash(s.json)
  <2>1. Payload(s, stop) = Go([s EXCEPT !.crashed = TRUE], FALSE)
    BY <1>1 DEF Payload, Clash
  <2>2. /\ DOMAIN Payload(s, stop) = Fields /\ Payload(s, stop).phase = s.phase
        /\ Payload(s, stop).dyn = s.dyn /\ Payload(s, stop).gen = s.gen
        /\ Payload(s, stop).cache = s.cache /\ Payload(s, stop).json = s.json
        /\ Payload(s, stop).capture = s.capture /\ Payload(s, stop).tool = s.tool
        /\ Payload(s, stop).runs = s.runs /\ Payload(s, stop).acc = s.acc /\ Payload(s, stop).passed = s.passed
        /\ ~Payload(s, stop).go
    BY <2>1 DEF Go, Fields, IsStream
  <2> QED
    BY <2>2 DEF Good, Frame, IsStream, Balance, Held, Calm, Taken, Keeps
<1>2. CASE ~Clash(s.json)
  <2> DEFINE t == [s EXCEPT !.tool = "legacy"]
  <2>1. /\ DOMAIN t = Fields /\ t.phase = s.phase /\ t.dyn = s.dyn /\ t.gen = s.gen /\ t.cache = s.cache
        /\ t.json = s.json /\ t.capture = s.capture /\ t.tool = "legacy" /\ t.runs = s.runs /\ t.acc = s.acc
        /\ t.passed = s.passed
    BY DEF Fields, IsStream
  <2>2. Payload(s, stop) = Go(Callback(t, <<"N">>, stop), FALSE)
    BY <1>2 DEF Payload, Clash
  <2> HIDE DEF t
  <2>3. Frame(Payload(s, stop), t) /\ Payload(s, stop).passed = t.passed /\ ~Payload(s, stop).go
    <3> DEFINE r == Go(Callback(t, <<"N">>, stop), FALSE)
    <3>1. DOMAIN t = Fields
      BY <2>1
    <3>2. Frame(r, t) /\ r.passed = t.passed /\ ~r.go
      BY <3>1, StopFrame
    <3>3. Payload(s, stop) = r
      BY <2>2
    <3> HIDE DEF r
    <3> QED
      BY <3>2, <3>3
  <2> QED
    BY <1>2, <2>1, <2>3 DEF Good, Frame, IsStream, Balance, Held, Calm, Taken, Keeps
<1> QED
  BY <1>1, <1>2

(* The end of the interceptor while a trigger is captured. *)
LEMMA CapturedGood ==
    ASSUME NEW S, NEW s, IsStream(s, S), Balance(s), s.capture, s.tool = "none",
           IsLegacy(s.json) => EndIsLast(s.json), NEW stop
    PROVE  /\ Good(Captured(s, stop), S) /\ Keeps(Captured(s, stop), s)
           /\ Captured(s, stop).capture /\ Captured(s, stop).passed = s.passed
<1>1. CASE ~Complete(s.json)
  <2>1. Captured(s, stop) = Go(s, TRUE)
    BY <1>1 DEF Captured
  <2>2. IsLegacy(s.json) => \A i \in 1..Len(s.json) : s.json[i] # "E"
    BY <1>1 DEF Complete, Has, ToSet
  <2>3. Frame(Captured(s, stop), s) /\ Captured(s, stop).passed = s.passed
    BY <2>1, GoFrame, Zenon DEF IsStream
  <2> QED
    BY <2>2, <2>3 DEF Good, Frame, IsStream, Balance, Held, Calm, Taken, Keeps
<1>2. CASE Complete(s.json) /\ Headed(s.json)
  <2>1. Captured(s, stop) = Payload(s, stop)
    BY <1>2 DEF Captured, Headed
  <2>2. Taken(s)
    BY DEF Taken
  <2> QED
    BY <2>1, <2>2, PayloadGood
<1>3. CASE Complete(s.json) /\ ~IsLegacy(s.json)
  <2> DEFINE t == [s EXCEPT !.tool = "cel"]
  <2>1. /\ DOMAIN t = Fields /\ t.phase = s.phase /\ t.dyn = s.dyn /\ t.gen = s.gen /\ t.cache = s.cache
        /\ t.json = s.json /\ t.capture = s.capture /\ t.tool = "cel" /\ t.runs = s.runs /\ t.acc = s.acc
        /\ t.passed = s.passed
    BY DEF Fields, IsStream
  <2>2. Captured(s, stop) = Go(Callback(t, <<"N">>, stop), FALSE)
    BY <1>3 DEF Captured, Headed
  <2> HIDE DEF t
  <2>3. Frame(Captured(s, stop), t) /\ Captured(s, stop).passed = t.passed /\ ~Captured(s, stop).go
    <3> DEFINE r == Go(Callback(t, <<"N">>, stop), FALSE)
    <3>1. DOMAIN t = Fields
      BY <2>1
    <3>2. Frame(r, t) /\ r.passed = t.passed /\ ~r.go
      BY <3>1, StopFrame
    <3>3. Captured(s, stop) = r
      BY <2>2
    <3> HIDE DEF r
    <3> QED
      BY <3>2, <3>3
  <2> QED
    BY <1>3, <2>1, <2>3 DEF Good, Frame, IsStream, Balance, Held, Calm, Taken, Keeps
<1>4. CASE Complete(s.json) /\ IsLegacy(s.json)
  <2>1. Has(s.json, {"E"})
    BY <1>4 DEF Complete
  <2> QED
    BY <1>2, <1>4, <2>1, EndedIsHeaded DEF IsStream
<1> QED
  BY <1>1, <1>3, <1>4

(* A capture begins at one of the places of the held text. *)
LEMMA CaptureKeeps ==
    ASSUME NEW S, NEW s, IsStream(s, S), Balance(s), ~s.capture, s.json = <<>>,
           NEW i \in 1..Len(s.cache), NEW stop
    PROVE  LET r == Capture(s, i, stop)
           IN  /\ IsStream(r, S) /\ Balance(r) /\ Keeps(r, s) /\ r.tool = s.tool
               /\ r.capture /\ r.json = From(s.cache, i) /\ r.cache = <<>>
               /\ r.passed = s.passed \o Before(s.cache, i)
<1> DEFINE t == [s EXCEPT !.capture = TRUE, !.json = @ \o From(s.cache, i), !.cache = <<>>]
           r == Capture(s, i, stop)
<1>1. /\ Before(s.cache, i) \in Seq(S) /\ From(s.cache, i) \in Seq(S)
      /\ Before(s.cache, i) \o From(s.cache, i) = s.cache
  <2>1. s.cache \in Seq(S)
    BY DEF IsStream
  <2> QED
    BY <2>1, SplitAt, ZenonT(40)
<1>2. s.json \o From(s.cache, i) = From(s.cache, i)
  BY <1>1, ConcatEmptySeq
<1>3. /\ DOMAIN t = Fields /\ t.phase = s.phase /\ t.dyn = s.dyn /\ t.gen = s.gen /\ t.cache = <<>>
      /\ t.json = From(s.cache, i) /\ t.capture /\ t.tool = s.tool /\ t.runs = s.runs /\ t.acc = s.acc
      /\ t.passed = s.passed
  BY <1>2 DEF IsStream, Fields
<1>4. r = PassIfAny(t, Before(s.cache, i), stop)
  BY DEF Capture
<1> HIDE DEF t, r
<1>5. Frame(r, t) /\ r.passed = s.passed \o Before(s.cache, i)
  <2>1. DOMAIN t = Fields /\ t.passed \in Seq(S)
    BY <1>3 DEF IsStream
  <2>2. /\ Frame(PassIfAny(t, Before(s.cache, i), stop), t)
        /\ PassIfAny(t, Before(s.cache, i), stop).passed = t.passed \o Before(s.cache, i)
    BY <1>1, <2>1, PassIfAnyFrame, Zenon
  <2> QED
    BY <1>3, <1>4, <2>2
<1>6. /\ s.passed \in Seq(S) /\ s.gen = s.passed \o s.cache
  BY DEF IsStream, Balance, Held
<1>7. s.gen = (s.passed \o Before(s.cache, i)) \o From(s.cache, i)
  <2>1. (s.passed \o Before(s.cache, i)) \o From(s.cache, i) = s.passed \o (Before(s.cache, i) \o From(s.cache, i))
    <3>1. s.passed \in Seq(S) /\ Before(s.cache, i) \in Seq(S) /\ From(s.cache, i) \in Seq(S)
      BY <1>1, <1>6
    <3> DEFINE one == s.passed
               two == Before(s.cache, i)
               three == From(s.cache, i)
    <3> HIDE DEF one, two, three
    <3>2. one \in Seq(S) /\ two \in Seq(S) /\ three \in Seq(S)
      BY <3>1 DEF one, two, three
    <3>3. (one \o two) \o three = one \o (two \o three)
      BY <3>2, ConcatAssociative, SMTT(30)
    <3> QED
      BY <3>3 DEF one, two, three
  <2> QED
    BY <1>1, <1>6, <2>1, Zenon
<1>8. r.passed \in Seq(S)
  BY <1>1, <1>5, <1>6, ConcatProperties
<1>9. IsStream(r, S)
  BY <1>1, <1>3, <1>5, <1>8 DEF IsStream, Frame
<1>10. Balance(r)
  BY <1>3, <1>5, <1>7 DEF Balance, Held, Frame
<1> QED
  BY <1>3, <1>5, <1>9, <1>10 DEF Frame, Keeps, r

(* Holding changes the held text only, and passes on the text before it. *)
LEMMA HoldFrame ==
    ASSUME NEW S, NEW s, IsStream(s, S), NEW i \in 1..Len(s.cache), NEW stop
    PROVE  LET t == [s EXCEPT !.cache = From(s.cache, i)]
               r == Hold(s, i, stop)
           IN  Frame(r, t) /\ r.passed = s.passed \o Before(s.cache, i)
<1> DEFINE t == [s EXCEPT !.cache = From(s.cache, i)]
           p == PassIfAny(t, Before(s.cache, i), stop)
           r == Hold(s, i, stop)
<1>1. Before(s.cache, i) \in Seq(S)
  <2>1. s.cache \in Seq(S)
    BY DEF IsStream
  <2> QED
    BY <2>1, SplitAt, Zenon
<1>2. DOMAIN t = Fields /\ t.passed = s.passed /\ s.passed \in Seq(S)
  BY DEF IsStream, Fields
<1>3. r = Go(p, TRUE)
  BY DEF Hold
<1>4. Frame(p, t) /\ p.passed = s.passed \o Before(s.cache, i)
  <2>1. DOMAIN t = Fields /\ t.passed \in Seq(S)
    BY <1>2
  <2> HIDE DEF t
  <2>2. /\ Frame(p, t) /\ p.passed = t.passed \o Before(s.cache, i)
    BY <1>1, <2>1, PassIfAnyFrame, Zenon
  <2> QED
    BY <1>2, <2>2
<1> HIDE DEF t, p, r
<1>5. Frame(r, p) /\ r.passed = p.passed
  <2>1. DOMAIN p = Fields
    BY <1>4 DEF Frame
  <2>2. Frame(Go(p, TRUE), p) /\ Go(p, TRUE).passed = p.passed
    BY <2>1, GoFrame
  <2> DEFINE q == Go(p, TRUE)
  <2> HIDE DEF q
  <2>3. r = q
    BY <1>3 DEF q
  <2> QED
    BY <2>2, <2>3, Zenon DEF q
<1>6. Frame(r, t) /\ r.passed = s.passed \o Before(s.cache, i)
  BY <1>4, <1>5 DEF Frame
<1> QED
  BY <1>6 DEF t, r

(* The text from one of the places is held. *)
LEMMA HoldGood ==
    ASSUME NEW S, NEW s, IsStream(s, S), Balance(s), ~s.capture, s.json = <<>>, s.tool = "none",
           NEW i \in 1..Len(s.cache),
           \A j \in 1..Len(From(s.cache, i)) : From(s.cache, i)[j] \notin {"E", "R"},
           NEW stop
    PROVE  Good(Hold(s, i, stop), S) /\ Keeps(Hold(s, i, stop), s)
<1> DEFINE t == [s EXCEPT !.cache = From(s.cache, i)]
           r == Hold(s, i, stop)
<1>1. /\ Before(s.cache, i) \in Seq(S) /\ From(s.cache, i) \in Seq(S)
      /\ Before(s.cache, i) \o From(s.cache, i) = s.cache
  <2> DEFINE c == s.cache
  <2>1. c \in Seq(S) /\ i \in 1..Len(c)
    BY DEF IsStream
  <2> HIDE DEF c
  <2>2. /\ Before(c, i) \in Seq(S) /\ From(c, i) \in Seq(S)
        /\ Before(c, i) \o From(c, i) = c
    BY ONLY <2>1, SplitAt, Zenon
  <2> QED
    BY <2>2 DEF c
<1>2. /\ DOMAIN t = Fields /\ t.phase = s.phase /\ t.dyn = s.dyn /\ t.gen = s.gen
      /\ t.cache = From(s.cache, i) /\ t.json = <<>> /\ ~t.capture /\ t.capture \in BOOLEAN
      /\ t.tool = "none" /\ t.runs = s.runs /\ t.acc = s.acc /\ t.passed = s.passed
  BY DEF IsStream, Fields
<1>3. Frame(r, t) /\ r.passed = s.passed \o Before(s.cache, i)
  BY HoldFrame
<1> HIDE DEF t, r
<1>6. /\ s.passed \in Seq(S) /\ s.gen = s.passed \o s.cache
  BY DEF IsStream, Balance, Held
<1>7. s.gen = (s.passed \o Before(s.cache, i)) \o From(s.cache, i)
  <2>1. (s.passed \o Before(s.cache, i)) \o From(s.cache, i) = s.passed \o (Before(s.cache, i) \o From(s.cache, i))
    <3>1. s.passed \in Seq(S) /\ Before(s.cache, i) \in Seq(S) /\ From(s.cache, i) \in Seq(S)
      BY <1>1, <1>6
    <3> DEFINE one == s.passed
               two == Before(s.cache, i)
               three == From(s.cache, i)
    <3> HIDE DEF one, two, three
    <3>2. one \in Seq(S) /\ two \in Seq(S) /\ three \in Seq(S)
      BY <3>1 DEF one, two, three
    <3>3. (one \o two) \o three = one \o (two \o three)
      BY <3>2, ConcatAssociative, SMTT(30)
    <3> QED
      BY <3>3 DEF one, two, three
  <2> QED
    BY <1>1, <1>6, <2>1, Zenon
<1>8. r.passed \in Seq(S)
  BY <1>1, <1>3, <1>6, ConcatProperties
<1>9. IsStream(r, S) /\ Keeps(r, s)
  BY <1>1, <1>2, <1>3, <1>8 DEF IsStream, Frame, Keeps
<1>10. Balance(r)
  BY <1>2, <1>3, <1>7 DEF Balance, Held, Frame
<1>11. Calm(r) /\ Taken(r)
  BY <1>2, <1>3 DEF Calm, Taken, Frame
<1> QED
  BY <1>9, <1>10, <1>11 DEF Good, r
-----------------------------------------------------------------------------
(* The interceptor *)

FullPlace(s) == FirstDyn(s, Occurs)
PartPlace(s) == FirstDyn(s, Begun)

(* Where the first trigger of the skills is, and where one is begun. *)
LEMMA PlacesInCache ==
    ASSUME NEW S, NEW s, IsStream(s, S)
    PROVE  /\ FullPlace(s) = 0 \/ FullPlace(s) \in 1..Len(s.cache)
           /\ PartPlace(s) = 0 \/ \E k \in 1..Len(s.dyn) : PartPlace(s) \in Begun(s.dyn[k], s.cache)
<1> DEFINE full == {k \in DOMAIN s.dyn : Occurs(s.dyn[k], s.cache) # {}}
           part == {k \in DOMAIN s.dyn : Begun(s.dyn[k], s.cache) # {}}
<1>1. s.dyn \in Seq(Seq(Quiet(S))) /\ s.cache \in Seq(S) /\ DOMAIN s.dyn = 1..Len(s.dyn)
  BY DEF IsStream
<1>2. full \in SUBSET Nat /\ part \in SUBSET Nat
  BY <1>1
<1>3. \A k : /\ Occurs(s.dyn[k], s.cache) \in SUBSET (1..Len(s.cache))
             /\ Begun(s.dyn[k], s.cache) \in SUBSET (1..Len(s.cache))
  BY DEF Occurs, Begun
<1>4. 1..Len(s.cache) \in SUBSET Nat
  BY <1>1
<1>5. FullPlace(s) = IF full = {} THEN 0 ELSE Min(Occurs(s.dyn[Min(full)], s.cache))
  BY Zenon DEF FullPlace, FirstDyn
<1>6. PartPlace(s) = IF part = {} THEN 0 ELSE Min(Begun(s.dyn[Min(part)], s.cache))
  BY Zenon DEF PartPlace, FirstDyn
<1>7. full # {} => Min(full) \in full
  BY <1>2, MinElement
<1>8. part # {} => Min(part) \in part
  BY <1>2, MinElement
<1>9. ASSUME full # {} PROVE FullPlace(s) \in 1..Len(s.cache)
  <2>1. Occurs(s.dyn[Min(full)], s.cache) # {} /\ Occurs(s.dyn[Min(full)], s.cache) \in SUBSET Nat
    BY <1>3, <1>4, <1>7, <1>9
  <2>2. Min(Occurs(s.dyn[Min(full)], s.cache)) \in Occurs(s.dyn[Min(full)], s.cache)
    BY <2>1, MinElement
  <2> HIDE DEF full
  <2> QED
    BY <1>3, <1>5, <1>9, <2>2
<1>10. ASSUME part # {}
       PROVE  \E k \in 1..Len(s.dyn) : PartPlace(s) \in Begun(s.dyn[k], s.cache)
  <2>1. Begun(s.dyn[Min(part)], s.cache) # {} /\ Begun(s.dyn[Min(part)], s.cache) \in SUBSET Nat
    BY <1>3, <1>4, <1>8, <1>10
  <2>2. Min(Begun(s.dyn[Min(part)], s.cache)) \in Begun(s.dyn[Min(part)], s.cache)
    BY <2>1, MinElement
  <2>3. Min(part) \in 1..Len(s.dyn)
    BY <1>1, <1>8, <1>10
  <2> HIDE DEF part
  <2> QED
    BY <1>6, <1>10, <2>2, <2>3
<1> HIDE DEF full, part
<1> QED
  BY <1>5, <1>6, <1>9, <1>10

(* The branches of the interceptor. *)
LEMMA ScanBranches ==
    ASSUME NEW s, NEW stop
    PROVE  LET legacy == Occurs(Legacy, s.cache)
               begun == Begun(Legacy, s.cache)
           IN  \/ /\ FullPlace(s) # 0
                  /\ Scan(s, stop) = Captured(Capture(s, FullPlace(s), stop), stop)
               \/ /\ FullPlace(s) = 0 /\ PartPlace(s) # 0
                  /\ Scan(s, stop) = Hold(s, PartPlace(s), stop)
               \/ /\ FullPlace(s) = 0 /\ PartPlace(s) = 0 /\ legacy # {}
                  /\ Scan(s, stop) = Pass(Capture(s, Min(legacy), stop), <<>>, stop)
               \/ /\ FullPlace(s) = 0 /\ PartPlace(s) = 0 /\ legacy = {} /\ begun # {}
                  /\ Scan(s, stop) = Hold(s, Min(begun), stop)
               \/ /\ FullPlace(s) = 0 /\ PartPlace(s) = 0 /\ legacy = {} /\ begun = {}
                  /\ Scan(s, stop) = Pass([s EXCEPT !.cache = <<>>], s.cache, stop)
<1> DEFINE full == FullPlace(s)
           part == PartPlace(s)
           legacy == Occurs(Legacy, s.cache)
           begun == Begun(Legacy, s.cache)
           one == Captured(Capture(s, full, stop), stop)
           two == Hold(s, part, stop)
           three == Pass(Capture(s, Min(legacy), stop), <<>>, stop)
           four == Hold(s, Min(begun), stop)
           five == Pass([s EXCEPT !.cache = <<>>], s.cache, stop)
<1>1. Scan(s, stop) =
          CASE full # 0 -> one
            [] full = 0 /\ part # 0 -> two
            [] full = 0 /\ part = 0 /\ legacy # {} -> three
            [] full = 0 /\ part = 0 /\ legacy = {} /\ begun # {} -> four
            [] OTHER -> five
  BY Zenon DEF Scan, FullPlace, PartPlace
<1> HIDE DEF full, part, legacy, begun, one, two, three, four, five
<1>2. \/ full # 0 /\ Scan(s, stop) = one
      \/ full = 0 /\ part # 0 /\ Scan(s, stop) = two
      \/ full = 0 /\ part = 0 /\ legacy # {} /\ Scan(s, stop) = three
      \/ full = 0 /\ part = 0 /\ legacy = {} /\ begun # {} /\ Scan(s, stop) = four
      \/ full = 0 /\ part = 0 /\ legacy = {} /\ begun = {} /\ Scan(s, stop) = five
  BY <1>1
<1> QED
  BY <1>2 DEF full, part, legacy, begun, one, two, three, four, five
(***************************************************************************)
(* The pieces: one that has the end of a trigger begins with it and has no *)
(* other, nor what follows the '<' of "<TRIGGER:".                         *)
(***************************************************************************)
Cut(p) == \A i, j \in 1..Len(p) : p[i] = "E" => i = 1 /\ p[j] # "R"

(* A text without ends or beginnings up to n, and a piece behind it. *)
Grown(t, n) ==
    /\ \A i \in 1..n : t[i] \notin {"E", "R"}
    /\ \A i, j \in (n + 1)..Len(t) : t[i] = "E" => t[j] # "R"

(* Behind a place of such a text the end of a trigger is the last. *)
LEMMA GrownTail ==
    ASSUME NEW S, NEW t \in Seq(S), NEW n \in 0..Len(t), Grown(t, n), NEW i \in 1..Len(t)
    PROVE  EndIsLast(From(t, i))
<1> DEFINE f == From(t, i)
<1>1. Len(f) = Len(t) - i + 1 /\ \A j \in 1..Len(f) : f[j] = t[i + j - 1]
  BY SplitAt
<1> HIDE DEF f
<1> SUFFICES ASSUME NEW a \in 1..Len(f), NEW b \in 1..Len(f), f[a] = "E", a < b
             PROVE  f[b] # "R"
  BY DEF EndIsLast, f
<1>2. i + a - 1 \in 1..Len(t) /\ i + b - 1 \in 1..Len(t) /\ i + a - 1 < i + b - 1
  BY <1>1
<1>3. t[i + a - 1] = "E" /\ f[b] = t[i + b - 1]
  BY <1>1
<1>4. i + a - 1 \in (n + 1)..Len(t) /\ i + b - 1 \in (n + 1)..Len(t)
  BY <1>2, <1>3 DEF Grown
<1> QED
  BY <1>3, <1>4 DEF Grown

(* What the interceptor does without a capture. *)
LEMMA ScanGood ==
    ASSUME NEW S, NEW s, IsStream(s, S), Balance(s), ~s.capture, s.json = <<>>,
           s.tool = "none", NEW n \in 0..Len(s.cache), Grown(s.cache, n), NEW stop
    PROVE  Good(Scan(s, stop), S) /\ Keeps(Scan(s, stop), s)
<1> DEFINE legacy == Occurs(Legacy, s.cache)
           begun == Begun(Legacy, s.cache)
<1>1. s.cache \in Seq(S) /\ Len(s.cache) \in Nat
  BY DEF IsStream
<1>2. legacy \in SUBSET (1..Len(s.cache)) /\ begun \in SUBSET (1..Len(s.cache))
  BY DEF Occurs, Begun
<1>3. legacy \in SUBSET Nat /\ begun \in SUBSET Nat
  BY <1>1, <1>2
<1>4. /\ legacy # {} => Min(legacy) \in legacy
      /\ begun # {} => Min(begun) \in begun
  BY <1>3, MinElement
<1>places. ASSUME NEW i \in 1..Len(s.cache)
           PROVE  /\ From(s.cache, i) \in Seq(S) /\ Len(From(s.cache, i)) = Len(s.cache) - i + 1
                  /\ \A j \in 1..Len(From(s.cache, i)) : From(s.cache, i)[j] = s.cache[i + j - 1]
  BY <1>1, SplitAt
<1>5. ASSUME FullPlace(s) # 0,
             Scan(s, stop) = Captured(Capture(s, FullPlace(s), stop), stop)
      PROVE  Good(Scan(s, stop), S) /\ Keeps(Scan(s, stop), s)
  <2> DEFINE i == FullPlace(s)
             r == Capture(s, i, stop)
  <2>1. i \in 1..Len(s.cache)
    BY <1>5, PlacesInCache
  <2> HIDE DEF i
  <2>2. /\ IsStream(r, S) /\ Balance(r) /\ Keeps(r, s) /\ r.tool = "none"
        /\ r.capture /\ r.json = From(s.cache, i)
    BY <2>1, CaptureKeeps, ZenonT(40)
  <2>3. EndIsLast(r.json)
    BY <1>1, <2>1, <2>2, GrownTail
  <2>4. Scan(s, stop) = Captured(r, stop)
    BY <1>5 DEF i
  <2> HIDE DEF r
  <2>5. Good(Captured(r, stop), S) /\ Keeps(Captured(r, stop), r)
    BY <2>2, <2>3, CapturedGood
  <2> QED
    BY <2>2, <2>4, <2>5 DEF Keeps
<1>6. ASSUME PartPlace(s) # 0, Scan(s, stop) = Hold(s, PartPlace(s), stop)
      PROVE  Good(Scan(s, stop), S) /\ Keeps(Scan(s, stop), s)
  <2> DEFINE i == PartPlace(s)
  <2>1. PICK k \in 1..Len(s.dyn) : i \in Begun(s.dyn[k], s.cache)
    BY <1>6, PlacesInCache
  <2> HIDE DEF i
  <2>2. i \in 1..Len(s.cache) /\ IsPrefix(From(s.cache, i), s.dyn[k])
    BY <2>1 DEF Begun
  <2>3. s.dyn[k] \in Seq(Quiet(S))
    BY ElementOfSeq DEF IsStream
  <2>4. \A j \in 1..Len(s.dyn[k]) : s.dyn[k][j] \notin {"E", "R"}
    <3>1. \A j \in 1..Len(s.dyn[k]) : s.dyn[k][j] \in Quiet(S)
      BY <2>3, ElementOfSeq
    <3> QED
      BY <3>1 DEF Quiet
  <2>5. \A j \in 1..Len(From(s.cache, i)) : From(s.cache, i)[j] \notin {"E", "R"}
    <3>1. /\ Len(From(s.cache, i)) <= Len(s.dyn[k])
          /\ \A j \in 1..Len(From(s.cache, i)) : From(s.cache, i)[j] = s.dyn[k][j]
      BY <1>places, <2>2, <2>3, PrefixSymbols
    <3>2. Len(From(s.cache, i)) \in Nat /\ Len(s.dyn[k]) \in Nat
      BY <1>places, <2>2, <2>3
    <3> QED
      BY <2>4, <3>1, <3>2
  <2>6. Good(Hold(s, i, stop), S) /\ Keeps(Hold(s, i, stop), s)
    BY <2>2, <2>5, HoldGood
  <2> QED
    BY <1>6, <2>6 DEF i
<1>7. ASSUME legacy # {}, Scan(s, stop) = Pass(Capture(s, Min(legacy), stop), <<>>, stop)
      PROVE  Good(Scan(s, stop), S) /\ Keeps(Scan(s, stop), s)
  <2> DEFINE i == Min(legacy)
             r == Capture(s, i, stop)
  <2>1. i \in legacy /\ i \in 1..Len(s.cache)
    BY <1>2, <1>4, <1>7
  <2>2. i + 1 \in 1..Len(s.cache) /\ s.cache[i + 1] = "R"
    BY <1>1, <2>1, LegacyPlace
  <2> HIDE DEF i, legacy
  <2>3. /\ IsStream(r, S) /\ Balance(r) /\ Keeps(r, s) /\ r.tool = "none"
        /\ r.capture /\ r.json = From(s.cache, i)
    BY <2>1, CaptureKeeps, ZenonT(40)
  <2>4. \A j \in 1..Len(s.cache) : s.cache[j] # "E"
    BY <1>1, <2>2 DEF Grown
  <2>5. \A j \in 1..Len(r.json) : r.json[j] # "E"
    <3>1. ASSUME NEW j \in 1..Len(From(s.cache, i)) PROVE From(s.cache, i)[j] # "E"
      <4>1. /\ From(s.cache, i)[j] = s.cache[i + j - 1]
            /\ Len(From(s.cache, i)) = Len(s.cache) - i + 1
        BY <1>places, <2>1
      <4>2. i + j - 1 \in 1..Len(s.cache)
        BY <1>1, <2>1, <4>1
      <4> QED
        BY <2>4, <4>1, <4>2
    <3> QED
      BY <2>3, <3>1
  <2>6. Scan(s, stop) = Pass(r, <<>>, stop)
    BY <1>7 DEF i
  <2> HIDE DEF r
  <2>7. Frame(Pass(r, <<>>, stop), r) /\ Pass(r, <<>>, stop).passed = r.passed \o <<>>
    BY <2>3, PassFrame DEF IsStream
  <2>8. r.passed \o <<>> = r.passed
    BY <2>3, ConcatEmptySeq DEF IsStream
  <2> QED
    BY <2>3, <2>5, <2>6, <2>7, <2>8 DEF Good, Frame, IsStream, Balance, Held, Calm, Taken, Keeps
<1>8. ASSUME legacy = {}, begun # {}, Scan(s, stop) = Hold(s, Min(begun), stop)
      PROVE  Good(Scan(s, stop), S) /\ Keeps(Scan(s, stop), s)
  <2> DEFINE i == Min(begun)
             f == From(s.cache, i)
  <2>1. i \in 1..Len(s.cache) /\ IsPrefix(f, Legacy) /\ ~IsPrefix(Legacy, f)
    <3>1. i \in begun /\ i \in 1..Len(s.cache) /\ i \notin legacy
      BY <1>2, <1>4, <1>8
    <3> QED
      BY <3>1 DEF Begun, Occurs
  <2> HIDE DEF i
  <2>2. f \in Seq(S)
    BY <1>places, <2>1
  <2>3. Legacy \in Seq({"<", "R"}) /\ Len(Legacy) = 2 /\ Legacy[1] = "<"
    BY LegacyShape
  <2> HIDE DEF f
  <2>4. Len(f) # 2
    BY <2>1, <2>3 DEF IsPrefix
  <2>5. Len(f) <= 2 /\ \A j \in 1..Len(f) : f[j] = Legacy[j]
    BY <2>1, <2>2, <2>3, PrefixSymbols
  <2>6. \A j \in 1..Len(f) : f[j] \notin {"E", "R"}
    BY <2>2, <2>3, <2>4, <2>5
  <2>7. Good(Hold(s, i, stop), S) /\ Keeps(Hold(s, i, stop), s)
    BY <2>1, <2>6, HoldGood DEF f
  <2> QED
    BY <1>8, <2>7 DEF i
<1>9. ASSUME Scan(s, stop) = Pass([s EXCEPT !.cache = <<>>], s.cache, stop)
      PROVE  Good(Scan(s, stop), S) /\ Keeps(Scan(s, stop), s)
  <2> DEFINE t == [s EXCEPT !.cache = <<>>]
             r == Pass(t, s.cache, stop)
  <2>1. /\ DOMAIN t = Fields /\ t.phase = s.phase /\ t.dyn = s.dyn /\ t.gen = s.gen
        /\ t.cache = <<>> /\ t.json = <<>> /\ ~t.capture /\ t.capture \in BOOLEAN
        /\ t.tool = "none" /\ t.runs = s.runs /\ t.acc = s.acc /\ t.passed = s.passed
    BY DEF IsStream, Fields
  <2> HIDE DEF t
  <2>2. Frame(r, t) /\ r.passed = s.passed \o s.cache
    <3> DEFINE text == s.cache
    <3> HIDE DEF text
    <3>1. DOMAIN t = Fields
      BY <2>1
    <3>2. Frame(Pass(t, text, stop), t) /\ Pass(t, text, stop).passed = t.passed \o text
      BY <3>1, PassFrame
    <3> QED
      BY <2>1, <3>2 DEF text
  <2> HIDE DEF r
  <2>3. /\ s.passed \in Seq(S) /\ s.gen = s.passed \o s.cache
    BY DEF IsStream, Balance, Held
  <2>4. r.passed \in Seq(S) /\ s.gen = r.passed \o <<>>
    BY <1>1, <2>2, <2>3, ConcatProperties, ConcatEmptySeq
  <2>5. Good(r, S) /\ Keeps(r, s)
    <3>1. <<>> \in Seq(S) /\ Len(<<>>) = 0
      OBVIOUS
    <3>2. IsStream(r, S) /\ Keeps(r, s)
      BY <2>1, <2>2, <2>4, <3>1 DEF IsStream, Frame, Keeps
    <3>3. Balance(r)
      BY <2>1, <2>2, <2>4 DEF Balance, Held, Frame
    <3>4. Calm(r)
      BY <2>1, <2>2, <3>1 DEF Calm, Frame
    <3>5. Taken(r)
      BY <2>1, <2>2 DEF Taken, Frame
    <3> QED
      BY <3>2, <3>3, <3>4, <3>5 DEF Good
  <2> QED
    BY <1>9, <2>5 DEF r, t
<1> QED
  BY <1>5, <1>6, <1>7, <1>8, <1>9, ScanBranches

(* What a piece makes of the held text. *)
LEMMA HeldGrown ==
    ASSUME NEW S, NEW t \in Seq(S), \A i \in 1..Len(t) : t[i] \notin {"E", "R"},
           NEW p \in Seq(S), Cut(p)
    PROVE  Grown(t \o p, Len(t)) /\ Len(t) \in 0..Len(t \o p)
<1>1. /\ Len(t \o p) = Len(t) + Len(p)
      /\ \A i \in 1..Len(t) : (t \o p)[i] = t[i]
      /\ \A i \in (Len(t) + 1)..(Len(t) + Len(p)) : (t \o p)[i] = p[i - Len(t)]
  BY ConcatProperties
<1>2. ASSUME NEW i \in (Len(t) + 1)..Len(t \o p), NEW j \in (Len(t) + 1)..Len(t \o p),
             (t \o p)[i] = "E"
      PROVE  (t \o p)[j] # "R"
  <2>1. i - Len(t) \in 1..Len(p) /\ j - Len(t) \in 1..Len(p)
    BY <1>1
  <2>2. p[i - Len(t)] = "E" /\ (t \o p)[j] = p[j - Len(t)]
    BY <1>1, <1>2
  <2> QED
    BY <2>1, <2>2 DEF Cut
<1> QED
  BY <1>1, <1>2 DEF Grown

(* A piece behind the captured text has the end of a trigger only as its   *)
(* first symbol, and the text before none.                                 *)
LEMMA CaptureGrown ==
    ASSUME NEW S, NEW t \in Seq(S), NEW p \in Seq(S), Cut(p),
           IsLegacy(t) => \A i \in 1..Len(t) : t[i] # "E", IsLegacy(t \o p)
    PROVE  EndIsLast(t \o p)
<1> DEFINE f == t \o p
<1>1. /\ f \in Seq(S) /\ Len(f) = Len(t) + Len(p)
      /\ \A i \in 1..Len(t) : f[i] = t[i]
      /\ \A i \in (Len(t) + 1)..(Len(t) + Len(p)) : f[i] = p[i - Len(t)]
  BY ConcatProperties
<1> HIDE DEF f
<1>2. \A i \in 1..Len(t) : t[i] # "E"
  <2>1. CASE IsLegacy(t)
    BY <2>1
  <2>2. CASE ~IsLegacy(t)
    <3>1. Legacy \in Seq({"<", "R"}) /\ Len(Legacy) = 2 /\ Legacy[1] = "<" /\ Legacy[2] = "R"
      BY LegacyShape
    <3>2. 2 <= Len(f) /\ f[1] = "<" /\ f[2] = "R"
      <4>1. IsPrefix(Legacy, f)
        BY DEF IsLegacy, f
      <4>2. Len(Legacy) <= Len(f) /\ \A i \in 1..Len(Legacy) : Legacy[i] = f[i]
        <5> DEFINE A == {"<", "R"}
        <5>1. Legacy \in Seq(A) /\ f \in Seq(S)
          BY <1>1, <3>1
        <5> HIDE DEF A
        <5> QED
          BY <4>1, <5>1, PrefixSymbols
      <4> QED
        BY <3>1, <4>2
    <3>3. Len(t) < 2
      <4> SUFFICES ASSUME 2 <= Len(t) PROVE FALSE
        OBVIOUS
      <4>1. t[1] = "<" /\ t[2] = "R"
        BY <1>1, <3>2
      <4>2. \A j \in 1..2 : SubSeq(t, 1, 2)[j] = t[j]
        BY SubSeqProperties, ElementOfSeq
      <4>3. SubSeq(t, 1, 2) \in Seq(S) /\ Len(SubSeq(t, 1, 2)) = 2
        BY SubSeqProperties, ElementOfSeq
      <4>4. SubSeq(Legacy, 1, 2) = Legacy
        BY <3>1, SubSeqFull
      <4>5. SubSeq(t, 1, 2) = Legacy
        <5>1. \A j \in 1..2 : SubSeq(t, 1, 2)[j] = Legacy[j]
          BY <3>1, <4>1, <4>2
        <5> DEFINE u == SubSeq(t, 1, 2)
        <5> HIDE DEF u
        <5>2. u \in Seq(S \cup {"<", "R"}) /\ Legacy \in Seq(S \cup {"<", "R"})
          BY <3>1, <4>3 DEF u
        <5>3. Len(u) = Len(Legacy) /\ \A j \in 1..Len(u) : u[j] = Legacy[j]
          BY <3>1, <4>3, <5>1 DEF u
        <5>4. u = Legacy
          BY <5>2, <5>3, SeqEqual
        <5> QED
          BY <5>4 DEF u
      <4> QED
        BY <2>2, <3>1, <4>4, <4>5 DEF IsLegacy, IsPrefix
    <3> QED
      BY <1>1, <3>2, <3>3
  <2> QED
    BY <2>1, <2>2
<1> SUFFICES ASSUME NEW i \in 1..Len(f), NEW j \in 1..Len(f), f[i] = "E", i < j
             PROVE  f[j] # "R"
  BY DEF EndIsLast, f
<1>3. i > Len(t)
  BY <1>1, <1>2, SMTT(30)
<1>4. i - Len(t) \in 1..Len(p) /\ j - Len(t) \in 1..Len(p)
  BY <1>1, <1>3
<1>5. p[i - Len(t)] = "E" /\ f[j] = p[j - Len(t)]
  BY <1>1, <1>3, <1>4
<1> QED
  BY <1>4, <1>5 DEF Cut

(* A piece comes behind the held text, or behind the captured one. *)
Fed(s, piece) == [s EXCEPT !.gen = @ \o piece, !.cache = @ \o piece]
FedCapture(s, piece) == [Fed(s, piece) EXCEPT !.json = @ \o piece]

LEMMA FedFrame ==
    ASSUME NEW S, NEW s, Good(s, S), s.go, NEW piece \in Seq(S), Cut(piece)
    PROVE  LET h == Fed(s, piece)
               j == FedCapture(s, piece)
           IN  /\ Keeps(h, s) /\ h.gen = s.gen \o piece /\ h.capture = s.capture
               /\ h.passed = s.passed
               /\ Keeps(j, s) /\ j.passed = s.passed
               /\ s.capture => /\ IsStream(j, S) /\ Balance(j) /\ j.capture /\ j.tool = "none"
                               /\ IsLegacy(j.json) => EndIsLast(j.json)
               /\ ~s.capture => /\ IsStream(h, S) /\ Balance(h) /\ h.json = <<>> /\ h.tool = "none"
                                /\ \E n \in 0..Len(h.cache) : Grown(h.cache, n)
<1> DEFINE h == Fed(s, piece)
           j == FedCapture(s, piece)
           more == Held(s) \o piece
<1>1. /\ DOMAIN s = Fields /\ s.gen \in Seq(S) /\ s.passed \in Seq(S) /\ s.cache \in Seq(S)
      /\ s.json \in Seq(S) /\ s.acc \in Seq(S) /\ s.dyn \in Seq(Seq(Quiet(S)))
      /\ s.capture \in BOOLEAN /\ s.tool = "none" /\ Held(s) \in Seq(S)
  BY DEF Good, IsStream, Calm, Held
<1>2. s.gen \o piece = s.passed \o more
  <2> DEFINE one == s.passed
             two == Held(s)
  <2>1. s.gen = one \o two /\ one \in Seq(S) /\ two \in Seq(S)
    BY <1>1 DEF Good, Balance
  <2> HIDE DEF one, two
  <2>2. (one \o two) \o piece = one \o (two \o piece)
    BY <2>1, ConcatAssociative
  <2> QED
    BY <2>1, <2>2, Zenon DEF one, two
<1>3. /\ s.gen \o piece \in Seq(S) /\ s.cache \o piece \in Seq(S) /\ s.json \o piece \in Seq(S)
  BY <1>1, ConcatProperties
<1>4. /\ DOMAIN h = Fields /\ h.phase = s.phase /\ h.dyn = s.dyn /\ h.gen = s.gen \o piece
      /\ h.cache = s.cache \o piece /\ h.json = s.json /\ h.capture = s.capture
      /\ h.tool = s.tool /\ h.runs = s.runs /\ h.acc = s.acc /\ h.passed = s.passed
  BY <1>1 DEF Fields, Fed
<1>5. /\ DOMAIN j = Fields /\ j.phase = s.phase /\ j.dyn = s.dyn /\ j.gen = s.gen \o piece
      /\ j.cache = s.cache \o piece /\ j.json = s.json \o piece /\ j.capture = s.capture
      /\ j.tool = s.tool /\ j.runs = s.runs /\ j.acc = s.acc /\ j.passed = s.passed
  BY <1>1 DEF Fields, Fed, FedCapture
<1> HIDE DEF h, j
<1>6. Keeps(h, s) /\ Keeps(j, s)
  BY <1>4, <1>5 DEF Keeps
<1>7. ASSUME s.capture
      PROVE  /\ IsStream(j, S) /\ Balance(j) /\ j.capture /\ j.tool = "none"
             /\ IsLegacy(j.json) => EndIsLast(j.json)
  <2>1. IsStream(j, S)
    BY <1>1, <1>3, <1>5 DEF IsStream
  <2>2. Balance(j)
    BY <1>2, <1>5, <1>7 DEF Balance, Held
  <2>3. IsLegacy(j.json) => EndIsLast(j.json)
    <3>1. IsLegacy(s.json) => \A i \in 1..Len(s.json) : s.json[i] # "E"
      BY <1>7 DEF Good, Calm
    <3> DEFINE t == s.json
    <3> HIDE DEF t
    <3>2. t \in Seq(S) /\ (IsLegacy(t) => \A i \in 1..Len(t) : t[i] # "E")
      BY <1>1, <3>1 DEF t
    <3>3. IsLegacy(t \o piece) => EndIsLast(t \o piece)
      BY <3>2, CaptureGrown
    <3> QED
      BY <1>5, <3>3 DEF t
  <2> QED
    BY <1>1, <1>5, <1>7, <2>1, <2>2, <2>3
<1>8. ASSUME ~s.capture
      PROVE  /\ IsStream(h, S) /\ Balance(h) /\ h.json = <<>> /\ h.tool = "none"
             /\ \E n \in 0..Len(h.cache) : Grown(h.cache, n)
  <2>1. IsStream(h, S)
    BY <1>1, <1>3, <1>4 DEF IsStream
  <2>2. Balance(h)
    BY <1>2, <1>4, <1>8 DEF Balance, Held
  <2>3. s.json = <<>> /\ \A i \in 1..Len(s.cache) : s.cache[i] \notin {"E", "R"}
    BY <1>8 DEF Good, Calm
  <2>4. \E n \in 0..Len(h.cache) : Grown(h.cache, n)
    <3> DEFINE t == s.cache
    <3> HIDE DEF t
    <3>1. t \in Seq(S) /\ \A i \in 1..Len(t) : t[i] \notin {"E", "R"}
      BY <1>1, <2>3 DEF t
    <3>2. Grown(t \o piece, Len(t)) /\ Len(t) \in 0..Len(t \o piece)
      BY <3>1, HeldGrown
    <3> QED
      BY <1>4, <3>2 DEF t
  <2> QED
    BY <1>1, <1>4, <2>1, <2>2, <2>3, <2>4
<1> QED
  BY <1>4, <1>5, <1>6, <1>7, <1>8 DEF h, j

(* One piece of the first phase. *)
LEMMA InterceptGood ==
    ASSUME NEW S, NEW s, Good(s, S), s.go, NEW piece \in Seq(S), Cut(piece), NEW stop
    PROVE  Good(Intercept(s, piece, stop), S) /\ Keeps(Intercept(s, piece, stop), s)
<1> DEFINE h == Fed(s, piece)
           j == FedCapture(s, piece)
<1>1. Intercept(s, piece, stop) = IF s.capture THEN Captured(j, stop) ELSE Scan(h, stop)
  BY Zenon DEF Intercept, Fed, FedCapture
<1>2. /\ Keeps(h, s) /\ h.capture = s.capture /\ Keeps(j, s)
      /\ s.capture => /\ IsStream(j, S) /\ Balance(j) /\ j.capture /\ j.tool = "none"
                      /\ IsLegacy(j.json) => EndIsLast(j.json)
      /\ ~s.capture => /\ IsStream(h, S) /\ Balance(h) /\ h.json = <<>> /\ h.tool = "none"
                       /\ \E n \in 0..Len(h.cache) : Grown(h.cache, n)
  BY FedFrame
<1> HIDE DEF h, j
<1>3. CASE s.capture
  <2>1. Good(Captured(j, stop), S) /\ Keeps(Captured(j, stop), j)
    BY <1>2, <1>3, CapturedGood
  <2> QED
    BY <1>1, <1>2, <1>3, <2>1 DEF Keeps
<1>4. CASE ~s.capture
  <2>1. Good(Scan(h, stop), S) /\ Keeps(Scan(h, stop), h)
    BY <1>2, <1>4, ScanGood
  <2> QED
    BY <1>1, <1>2, <1>4, <2>1 DEF Keeps
<1> QED
  BY <1>3, <1>4

-----------------------------------------------------------------------------
(* The other phases *)

(* A prompt's stream at its start. *)
LEMMA StartGood ==
    ASSUME NEW S, NEW dyn \in Seq(Seq(Quiet(S)))
    PROVE  /\ Good(Start(dyn), S) /\ Start(dyn).phase = "first" /\ Start(dyn).runs = 0
           /\ ~Start(dyn).crashed
<1> DEFINE s == Start(dyn)
<1>1. /\ DOMAIN s = Fields /\ s.phase = "first" /\ s.dyn = dyn /\ s.gen = <<>> /\ s.passed = <<>>
      /\ s.cache = <<>> /\ s.json = <<>> /\ s.acc = <<>> /\ s.capture = FALSE /\ s.tool = "none"
      /\ s.runs = 0
      /\ s.crashed = FALSE
  BY DEF Start, Fields
<1> HIDE DEF s
<1>2. <<>> \in Seq(S) /\ Len(<<>>) = 0 /\ <<>> \o <<>> = <<>>
  OBVIOUS
<1>3. IsStream(s, S)
  BY <1>1, <1>2 DEF IsStream
<1>4. Balance(s)
  BY <1>1, <1>2, Zenon DEF Balance, Held
<1>5. Calm(s) /\ Taken(s)
  BY <1>1, <1>2 DEF Calm, Taken
<1> QED
  BY <1>1, <1>3, <1>4, <1>5 DEF Good, s

(* What is kept of a text ends as the text does. *)
LEMMA TrimKeepsEnd ==
    ASSUME NEW S, NEW t \in Seq(S)
    PROVE  /\ Trim(t) \in Seq(S)
           /\ t # <<>> => Trim(t) # <<>> /\ Trim(t)[Len(Trim(t))] = t[Len(t)]
<1>1. CASE Len(t) > 3
  <2> DEFINE f == From(t, Len(t) - 1)
  <2>1. Len(t) - 1 \in 1..Len(t)
    BY <1>1
  <2>2. /\ f \in Seq(S) /\ Len(f) = Len(t) - (Len(t) - 1) + 1
        /\ \A j \in 1..Len(f) : f[j] = t[(Len(t) - 1) + j - 1]
    BY <2>1, SplitAt
  <2>3. Trim(t) = f
    BY <1>1 DEF Trim
  <2> HIDE DEF f
  <2>4. Len(f) = 2 /\ f[2] = t[Len(t)]
    BY <1>1, <2>2
  <2>5. f # <<>> /\ f[Len(f)] = t[Len(t)]
    BY <2>4
  <2> HIDE DEF f
  <2> QED
    BY <2>2, <2>3, <2>5 DEF f
<1>2. CASE ~(Len(t) > 3)
  BY <1>2 DEF Trim
<1> QED
  BY <1>1, <1>2

(* One piece of the final answer. *)
LEMMA FinalFrame ==
    ASSUME NEW S, NEW s, IsStream(s, S), NEW piece \in Seq(S), NEW stop
    PROVE  LET r == Final(s, piece, stop)
           IN  /\ IsStream(r, S) /\ Keeps(r, s) /\ r.tool = s.tool /\ r.crashed = s.crashed
               /\ r.acc = Trim(s.acc \o piece)
               /\ Occurs(Legacy, s.acc \o piece) # {} => r.passed = s.passed /\ ~r.go
               /\ Occurs(Legacy, s.acc \o piece) = {} => r.passed = s.passed \o piece
<1> DEFINE acc == s.acc \o piece
           h == [s EXCEPT !.gen = @ \o piece, !.acc = Trim(acc)]
           r == Final(s, piece, stop)
<1>1. s.gen \o piece \in Seq(S) /\ s.passed \o piece \in Seq(S) /\ acc \in Seq(S)
  BY ConcatProperties DEF IsStream
<1>trim. Trim(acc) \in Seq(S)
  BY <1>1, TrimKeepsEnd, Zenon
<1>2. /\ DOMAIN h = Fields /\ h.phase = s.phase /\ h.dyn = s.dyn /\ h.gen = s.gen \o piece
      /\ h.cache = s.cache /\ h.json = s.json /\ h.capture = s.capture /\ h.tool = s.tool
      /\ h.runs = s.runs /\ h.passed = s.passed /\ h.crashed = s.crashed /\ h.acc = Trim(acc)
  BY DEF IsStream, Fields
<1>3. r = IF Occurs(Legacy, acc) # {} THEN Go(h, FALSE) ELSE Pass(h, piece, stop)
  BY DEF Final
<1> HIDE DEF acc, h, r
<1>4. /\ Frame(r, h)
      /\ Occurs(Legacy, acc) # {} => r.passed = s.passed /\ ~r.go
      /\ Occurs(Legacy, acc) = {} => r.passed = s.passed \o piece
  <2>1. DOMAIN h = Fields
    BY <1>2
  <2>2. CASE Occurs(Legacy, acc) # {}
    <3>1. r = Go(h, FALSE)
      BY <1>3, <2>2
    <3>2. Frame(Go(h, FALSE), h) /\ Go(h, FALSE).passed = h.passed /\ ~Go(h, FALSE).go
      BY <2>1, GoFrame
    <3>3. Frame(r, h) /\ r.passed = h.passed /\ ~r.go
      BY <3>1, <3>2, Zenon
    <3> QED
      BY <1>2, <2>2, <3>3
  <2>3. CASE Occurs(Legacy, acc) = {}
    BY <1>2, <1>3, <2>1, <2>3, PassFrame
  <2> QED
    BY <2>2, <2>3
<1>5. IsStream(r, S)
  BY <1>1, <1>trim, <1>2, <1>4 DEF IsStream, Frame
<1> QED
  BY <1>2, <1>4, <1>5, Zenon DEF Frame, Keeps, acc, r

(* An unclosed trigger at the end of the first phase. *)
LEMMA FallbackKeeps ==
    ASSUME NEW S, NEW s, Good(s, S), ~s.crashed, NEW stop
    PROVE  LET r == Fallback(s, stop)
           IN  IsStream(r, S) /\ Keeps(r, s) /\ (r.crashed => r.tool = "none")
<1>1. CASE ~(s.capture /\ Headed(s.json) /\ Has(s.json, {"}"}))
  BY <1>1 DEF Fallback, Good, Keeps
<1>2. CASE s.capture /\ Headed(s.json) /\ Has(s.json, {"}"})
  <2> DEFINE r == Payload(s, stop)
  <2>1. IsStream(r, S) /\ Keeps(r, s)
    BY <1>2, PayloadGood DEF Good
  <2>2. r.crashed => r.tool = "none"
    <3>1. CASE Clash(s.json)
      <4>1. s.tool = "none"
        BY <1>2, <3>1 DEF Good, Taken, IsStream, Headed
      <4>2. r = Go([s EXCEPT !.crashed = TRUE], FALSE)
        BY <3>1 DEF Payload, Clash
      <4> QED
        BY <4>1, <4>2 DEF Go, Good, IsStream, Fields
    <3>2. CASE ~Clash(s.json)
      <4> DEFINE t == [s EXCEPT !.tool = "legacy"]
      <4>1. r = Go(Callback(t, <<"N">>, stop), FALSE)
        BY <3>2 DEF Payload, Clash
      <4>2. DOMAIN t = Fields /\ ~t.crashed
        BY DEF Good, IsStream, Fields
      <4> HIDE DEF t
      <4>3. Frame(Go(Callback(t, <<"N">>, stop), FALSE), t)
        BY <4>2, StopFrame
      <4> HIDE DEF r
      <4>4. Frame(r, t)
        BY <4>1, <4>3
      <4> QED
        BY <4>2, <4>4 DEF Frame
    <3> QED
      BY <3>1, <3>2
  <2>3. Fallback(s, stop) = r
    BY <1>2 DEF Fallback
  <2> QED
    BY <2>1, <2>2, <2>3
<1> QED
  BY <1>1, <1>2

(* The tool is run, and the final answer begins. *)
LEMMA RunToolFrame ==
    ASSUME NEW S, NEW s, IsStream(s, S), s.runs \in Nat, NEW planned, NEW stop
    PROVE  LET r == RunTool(s, planned, stop)
           IN  /\ IsStream(r, S) /\ r.phase = "final" /\ r.tool = "none"
               /\ r.runs \in {s.runs, s.runs + 1} /\ r.crashed = s.crashed
               /\ r.passed = <<>>
<1> DEFINE ran == [s EXCEPT !.runs = IF s.tool = "legacy" \/ planned THEN @ + 1 ELSE @]
           said == Callback(ran, <<"P">>, stop)
           noted == Callback(ran, <<"N">>, stop)
           told == CASE s.tool = "legacy" -> said
                     [] s.tool = "cel" /\ planned -> noted
                     [] OTHER -> ran
           r == [told EXCEPT !.phase = "final", !.gen = <<>>, !.passed = <<>>,
                             !.cache = <<>>, !.json = <<>>, !.capture = FALSE,
                             !.tool = "none", !.go = TRUE]
<1>1. /\ DOMAIN ran = Fields /\ ran.dyn = s.dyn /\ ran.runs \in {s.runs, s.runs + 1}
      /\ ran.crashed = s.crashed /\ ran.acc = s.acc
  BY DEF IsStream, Fields
<1>2. RunTool(s, planned, stop) = r
  BY DEF RunTool
<1> HIDE DEF ran
<1>3. Frame(told, ran)
  <2>1. Frame(ran, ran)
    BY <1>1 DEF Frame
  <2>2. Frame(said, ran) /\ Frame(noted, ran)
    BY <1>1, CallbackFrame
  <2> HIDE DEF said, noted
  <2> QED
    BY <2>1, <2>2
<1> HIDE DEF told
<1>4. /\ DOMAIN r = Fields /\ r.phase = "final" /\ r.dyn = s.dyn /\ r.gen = <<>> /\ r.passed = <<>>
      /\ r.cache = <<>> /\ r.json = <<>> /\ r.capture = FALSE /\ r.tool = "none"
      /\ r.runs = ran.runs /\ r.acc = s.acc /\ r.crashed = s.crashed
  BY <1>1, <1>3 DEF Frame, Fields
<1> HIDE DEF r
<1>5. <<>> \in Seq(S)
  OBVIOUS
<1>6. IsStream(r, S)
  BY <1>4, <1>5 DEF IsStream
<1> QED
  BY <1>1, <1>2, <1>4, <1>6

-----------------------------------------------------------------------------
(***************************************************************************)
(* The trigger that is looked for first.  A place of a text is apart from  *)
(* t when t cannot begin there, however the text goes on.                  *)
(***************************************************************************)
Apart(t, w, j) == \E k \in 1..Len(t) : j + k - 1 <= Len(w) /\ t[k] # w[j + k - 1]

(* A place where t neither is nor is begun is apart from it. *)
LEMMA NeitherIsApart ==
    ASSUME NEW S, NEW T, NEW t \in Seq(T), NEW w \in Seq(S), NEW j \in 1..Len(w),
           j \notin Occurs(t, w), j \notin Begun(t, w)
    PROVE  Apart(t, w, j)
<1> DEFINE f == From(w, j)
<1>1. /\ f \in Seq(S) /\ Len(f) = Len(w) - j + 1
      /\ \A k \in 1..Len(f) : f[k] = w[j + k - 1]
  BY SplitAt
<1>2. ~IsPrefix(t, f) /\ ~IsPrefix(f, t)
  BY DEF Occurs, Begun
<1> HIDE DEF f
<1> SUFFICES ASSUME ~Apart(t, w, j) PROVE FALSE
  OBVIOUS
<1>3. \A k \in 1..Len(t) : k <= Len(f) => t[k] = f[k]
  <2> SUFFICES ASSUME NEW k \in 1..Len(t), k <= Len(f) PROVE t[k] = f[k]
    OBVIOUS
  <2>1. k \in 1..Len(f) /\ j + k - 1 <= Len(w)
    BY <1>1
  <2>2. t[k] = w[j + k - 1]
    BY <2>1 DEF Apart
  <2> QED
    BY <1>1, <2>1, <2>2
<1>4. CASE Len(t) <= Len(f)
  <2>1. IsPrefix(t, f)
    BY <1>1, <1>3, <1>4, SamePrefix
  <2> QED
    BY <1>2, <2>1
<1>5. CASE Len(f) <= Len(t)
  <2>1. IsPrefix(f, t)
    BY <1>1, <1>3, <1>5, SamePrefix, SMTT(30)
  <2> QED
    BY <1>2, <2>1
<1>6. Len(t) \in Nat /\ Len(f) \in Nat
  BY <1>1
<1> QED
  BY <1>4, <1>5, <1>6

(* At a place that is apart from t it is not, and stays not. *)
LEMMA ApartStays ==
    ASSUME NEW S, NEW T, NEW t \in Seq(T), NEW w \in Seq(S), NEW p \in Seq(S),
           NEW j \in 1..Len(w), Apart(t, w, j)
    PROVE  /\ j \notin Occurs(t, w)
           /\ Apart(t, w \o p, j)
<1>1. PICK k \in 1..Len(t) : j + k - 1 <= Len(w) /\ t[k] # w[j + k - 1]
  BY DEF Apart
<1>2. j \notin Occurs(t, w)
  <2> SUFFICES ASSUME j \in Occurs(t, w) PROVE FALSE
    OBVIOUS
  <2> DEFINE f == From(w, j)
  <2>1. IsPrefix(t, f)
    BY DEF Occurs
  <2>2. /\ f \in Seq(S) /\ Len(f) = Len(w) - j + 1
        /\ \A i \in 1..Len(f) : f[i] = w[j + i - 1]
    BY SplitAt
  <2> HIDE DEF f
  <2>3. Len(t) <= Len(f) /\ \A i \in 1..Len(t) : t[i] = f[i]
    BY <2>1, <2>2, PrefixSymbols
  <2>4. k \in 1..Len(f)
    BY <2>2, <2>3
  <2> QED
    BY <1>1, <2>2, <2>3, <2>4
<1>3. /\ Len(w \o p) = Len(w) + Len(p) /\ j + k - 1 \in 1..Len(w)
      /\ (w \o p)[j + k - 1] = w[j + k - 1]
  BY <1>1, ConcatProperties
<1> QED
  BY <1>1, <1>2, <1>3 DEF Apart

(* Where t is in the first part of a text, it is in the whole. *)
LEMMA OccursInWhole ==
    ASSUME NEW S, NEW T, NEW t \in Seq(T), NEW a \in Seq(S), NEW b \in Seq(S),
           NEW j \in Occurs(t, a)
    PROVE  j \in Occurs(t, a \o b)
<1> DEFINE f == From(a, j)
           g == From(a \o b, j)
<1>1. j \in 1..Len(a) /\ IsPrefix(t, f)
  BY DEF Occurs
<1>2. /\ a \o b \in Seq(S) /\ Len(a \o b) = Len(a) + Len(b)
      /\ \A i \in 1..Len(a) : (a \o b)[i] = a[i]
  BY ConcatProperties
<1>3. j \in 1..Len(a \o b)
  BY <1>1, <1>2
<1>4. /\ f \in Seq(S) /\ Len(f) = Len(a) - j + 1
      /\ \A i \in 1..Len(f) : f[i] = a[j + i - 1]
  BY <1>1, SplitAt
<1>5. /\ g \in Seq(S) /\ Len(g) = Len(a \o b) - j + 1
      /\ \A i \in 1..Len(g) : g[i] = (a \o b)[j + i - 1]
  BY <1>2, <1>3, SplitAt
<1> HIDE DEF f, g
<1>6. Len(t) <= Len(f) /\ \A i \in 1..Len(t) : t[i] = f[i]
  BY <1>1, <1>4, PrefixSymbols
<1>7. Len(t) <= Len(g) /\ \A i \in 1..Len(t) : t[i] = g[i]
  <2>1. Len(t) <= Len(g)
    BY <1>1, <1>2, <1>4, <1>5, <1>6
  <2>2. ASSUME NEW i \in 1..Len(t) PROVE t[i] = g[i]
    <3>1. i \in 1..Len(f) /\ i \in 1..Len(g) /\ j + i - 1 \in 1..Len(a)
      BY <1>1, <1>2, <1>4, <1>5, <1>6
    <3> QED
      BY <1>2, <1>4, <1>5, <1>6, <3>1
  <2> QED
    BY <2>1, <2>2
<1>8. IsPrefix(t, g)
  BY <1>5, <1>7, SamePrefix
<1> QED
  BY <1>3, <1>8 DEF Occurs, g

(* Where t is in the second part of a text, it is in the whole. *)
LEMMA OccursBehind ==
    ASSUME NEW S, NEW T, NEW t \in Seq(T), NEW a \in Seq(S), NEW b \in Seq(S),
           NEW j \in 1..Len(b)
    PROVE  Len(a) + j \in Occurs(t, a \o b) <=> j \in Occurs(t, b)
<1> DEFINE f == From(b, j)
           g == From(a \o b, Len(a) + j)
<1>1. /\ a \o b \in Seq(S) /\ Len(a \o b) = Len(a) + Len(b)
      /\ \A i \in (Len(a) + 1)..(Len(a) + Len(b)) : (a \o b)[i] = b[i - Len(a)]
  BY ConcatProperties
<1>2. Len(a) + j \in 1..Len(a \o b)
  BY <1>1
<1>3. /\ f \in Seq(S) /\ Len(f) = Len(b) - j + 1
      /\ \A i \in 1..Len(f) : f[i] = b[j + i - 1]
  BY SplitAt
<1>4. /\ g \in Seq(S) /\ Len(g) = Len(a \o b) - (Len(a) + j) + 1
      /\ \A i \in 1..Len(g) : g[i] = (a \o b)[(Len(a) + j) + i - 1]
  BY <1>1, <1>2, SplitAt
<1> HIDE DEF f, g
<1>5. Len(f) = Len(g) /\ \A i \in 1..Len(f) : f[i] = g[i]
  <2>1. Len(f) = Len(g)
    BY <1>1, <1>3, <1>4
  <2>2. ASSUME NEW i \in 1..Len(f) PROVE f[i] = g[i]
    <3> DEFINE m == (Len(a) + j) + i - 1
    <3>1. /\ i \in 1..Len(g) /\ m \in (Len(a) + 1)..(Len(a) + Len(b))
          /\ m - Len(a) = j + i - 1
      BY <1>3, <2>1
    <3>2. g[i] = (a \o b)[m]
      BY <1>4, <3>1
    <3> HIDE DEF m
    <3> QED
      BY <1>1, <1>3, <3>1, <3>2
  <2> QED
    BY <2>1, <2>2
<1>6. f = g
  BY <1>3, <1>4, <1>5, SeqEqual
<1> QED
  BY <1>2, <1>6 DEF Occurs, f, g

(* A text whose places are apart from t does not have it. *)
LEMMA ApartHides ==
    ASSUME NEW S, NEW T, NEW t \in Seq(T), NEW p \in Seq(S), NEW h \in Seq(S),
           \A j \in 1..Len(p) : Apart(t, p \o h, j)
    PROVE  Occurs(t, p) = {}
<1> SUFFICES ASSUME NEW j \in Occurs(t, p) PROVE FALSE
  BY DEF Occurs
<1>1. j \in 1..Len(p) /\ j \in Occurs(t, p \o h)
  BY OccursInWhole DEF Occurs
<1>2. p \o h \in Seq(S) /\ j \in 1..Len(p \o h) /\ <<>> \in Seq(S)
  BY <1>1, ConcatProperties
<1>3. Apart(t, p \o h, j)
  BY <1>1
<1> QED
  BY <1>1, <1>2, <1>3, ApartStays

(* A place that is apart in the second part of a text is so in the whole. *)
LEMMA ApartBehind ==
    ASSUME NEW S, NEW T, NEW t \in Seq(T), NEW a \in Seq(S), NEW b \in Seq(S),
           NEW j \in 1..Len(b), Apart(t, b, j)
    PROVE  Apart(t, a \o b, Len(a) + j)
<1>1. PICK k \in 1..Len(t) : j + k - 1 <= Len(b) /\ t[k] # b[j + k - 1]
  BY DEF Apart
<1> DEFINE m == (Len(a) + j) + k - 1
<1>2. m \in (Len(a) + 1)..(Len(a) + Len(b)) /\ m - Len(a) = j + k - 1
  BY <1>1
<1>3. Len(a \o b) = Len(a) + Len(b) /\ (a \o b)[m] = b[m - Len(a)]
  BY <1>2, ConcatProperties
<1>4. m <= Len(a \o b) /\ t[k] # (a \o b)[m]
  BY <1>1, <1>2, <1>3
<1> QED
  BY <1>4 DEF Apart

-----------------------------------------------------------------------------
(* The trigger that is looked for first *)

Wanted(s) == IF s.dyn = <<>> THEN Legacy ELSE Head(s.dyn)

(* It is not in what was passed on, and cannot become so. *)
Hides(s) ==
    IF s.capture THEN Occurs(Wanted(s), s.passed) = {}
    ELSE \A j \in 1..Len(s.passed) : Apart(Wanted(s), s.gen, j)

(* It is a text. *)
LEMMA WantedIsText ==
    ASSUME NEW S, NEW s, IsStream(s, S)
    PROVE  /\ Wanted(s) \in Seq(S \cup {"<", "R"})
           /\ s.dyn # <<>> => 1 \in DOMAIN s.dyn /\ Wanted(s) = s.dyn[1]
<1>1. s.dyn \in Seq(Seq(Quiet(S)))
  BY DEF IsStream
<1>2. CASE s.dyn = <<>>
  <2>1. Wanted(s) = Legacy
    BY <1>2 DEF Wanted
  <2>2. Legacy \in Seq({"<", "R"})
    BY LegacyShape
  <2> QED
    BY <1>2, <2>1, <2>2
<1>3. CASE s.dyn # <<>>
  <2>1. Wanted(s) = Head(s.dyn)
    BY <1>3 DEF Wanted
  <2>2. Head(s.dyn) \in Seq(Quiet(S)) /\ Head(s.dyn) = s.dyn[1] /\ 1 \in DOMAIN s.dyn
    BY <1>1, <1>3
  <2>3. Head(s.dyn) \in Seq(S \cup {"<", "R"})
    BY <2>2 DEF Quiet
  <2> QED
    BY <2>1, <2>2, <2>3
<1> QED
  BY <1>2, <1>3

(* The place that is captured is not behind one of it. *)
LEMMA FullIsFirst ==
    ASSUME NEW S, NEW s, IsStream(s, S)
    PROVE  /\ FullPlace(s) # 0 =>
                 s.dyn # <<>> /\ \A j \in Occurs(Wanted(s), s.cache) : FullPlace(s) <= j
           /\ FullPlace(s) = 0 /\ s.dyn # <<>> => Occurs(Wanted(s), s.cache) = {}
<1> DEFINE hits == {k \in DOMAIN s.dyn : Occurs(s.dyn[k], s.cache) # {}}
           W == Occurs(Wanted(s), s.cache)
<1>1. s.dyn \in Seq(Seq(Quiet(S))) /\ DOMAIN s.dyn = 1..Len(s.dyn)
  BY DEF IsStream
<1>2. hits \in SUBSET Nat
  BY <1>1
<1>3. \A k : Occurs(s.dyn[k], s.cache) \in SUBSET Nat
  BY DEF Occurs, IsStream
<1>4. FullPlace(s) = IF hits = {} THEN 0 ELSE Min(Occurs(s.dyn[Min(hits)], s.cache))
  BY Zenon DEF FullPlace, FirstDyn
<1>5. s.dyn # <<>> /\ W # {} => 1 \in hits
  <2>1. s.dyn # <<>> => 1 \in DOMAIN s.dyn /\ Wanted(s) = s.dyn[1]
    BY WantedIsText
  <2> QED
    BY <2>1
<1>6. ASSUME hits # {}
      PROVE  /\ s.dyn # <<>> /\ FullPlace(s) # 0
             /\ \A j \in W : FullPlace(s) <= j
  <2>1. s.dyn # <<>>
    BY <1>1, <1>6
  <2>2. Min(hits) \in hits /\ \A k \in hits : Min(hits) <= k
    BY <1>2, <1>6, MinElement
  <2> DEFINE m == Min(hits)
             P == Occurs(s.dyn[m], s.cache)
  <2>3. P # {} /\ P \in SUBSET Nat /\ m \in 1..Len(s.dyn)
    BY <1>1, <1>3, <2>2
  <2>4. Min(P) \in P /\ \A j \in P : Min(P) <= j
    BY <2>3, MinElement
  <2>5. FullPlace(s) = Min(P) /\ Min(P) # 0
    BY <1>4, <1>6, <2>4 DEF Occurs
  <2>6. W # {} => P = W
    <3>1. s.dyn # <<>> => 1 \in DOMAIN s.dyn /\ Wanted(s) = s.dyn[1]
      BY WantedIsText
    <3> HIDE DEF hits, W
    <3>2. W # {} => m <= 1
      BY <1>5, <2>1, <2>2
    <3>3. W # {} => m = 1
      BY <2>3, <3>2
    <3> QED
      BY <2>1, <3>1, <3>3 DEF W
  <2> HIDE DEF P, W
  <2> QED
    BY <2>1, <2>4, <2>5, <2>6
<1> HIDE DEF hits, W
<1>7. hits = {} => FullPlace(s) = 0 /\ (s.dyn # <<>> => W = {})
  BY <1>4, <1>5
<1> QED
  BY <1>6, <1>7 DEF W

(* Nor is the place that is held behind one where it is begun. *)
LEMMA PartIsFirst ==
    ASSUME NEW S, NEW s, IsStream(s, S)
    PROVE  /\ PartPlace(s) # 0 =>
                 s.dyn # <<>> /\ \A j \in Begun(Wanted(s), s.cache) : PartPlace(s) <= j
           /\ PartPlace(s) = 0 /\ s.dyn # <<>> => Begun(Wanted(s), s.cache) = {}
<1> DEFINE hits == {k \in DOMAIN s.dyn : Begun(s.dyn[k], s.cache) # {}}
           W == Begun(Wanted(s), s.cache)
<1>1. s.dyn \in Seq(Seq(Quiet(S))) /\ DOMAIN s.dyn = 1..Len(s.dyn)
  BY DEF IsStream
<1>2. hits \in SUBSET Nat
  BY <1>1
<1>3. \A k : Begun(s.dyn[k], s.cache) \in SUBSET Nat
  BY DEF Begun, IsStream
<1>4. PartPlace(s) = IF hits = {} THEN 0 ELSE Min(Begun(s.dyn[Min(hits)], s.cache))
  BY Zenon DEF PartPlace, FirstDyn
<1>5. s.dyn # <<>> /\ W # {} => 1 \in hits
  <2>1. s.dyn # <<>> => 1 \in DOMAIN s.dyn /\ Wanted(s) = s.dyn[1]
    BY WantedIsText
  <2> QED
    BY <2>1
<1>6. ASSUME hits # {}
      PROVE  /\ s.dyn # <<>> /\ PartPlace(s) # 0
             /\ \A j \in W : PartPlace(s) <= j
  <2>1. s.dyn # <<>>
    BY <1>1, <1>6
  <2>2. Min(hits) \in hits /\ \A k \in hits : Min(hits) <= k
    BY <1>2, <1>6, MinElement
  <2> DEFINE m == Min(hits)
             P == Begun(s.dyn[m], s.cache)
  <2>3. P # {} /\ P \in SUBSET Nat /\ m \in 1..Len(s.dyn)
    BY <1>1, <1>3, <2>2
  <2>4. Min(P) \in P /\ \A j \in P : Min(P) <= j
    BY <2>3, MinElement
  <2>5. PartPlace(s) = Min(P) /\ Min(P) # 0
    BY <1>4, <1>6, <2>4 DEF Begun
  <2>6. W # {} => P = W
    <3>1. s.dyn # <<>> => 1 \in DOMAIN s.dyn /\ Wanted(s) = s.dyn[1]
      BY WantedIsText
    <3> HIDE DEF hits, W
    <3>2. W # {} => m <= 1
      BY <1>5, <2>1, <2>2
    <3>3. W # {} => m = 1
      BY <2>3, <3>2
    <3> QED
      BY <2>1, <3>1, <3>3 DEF W
  <2> HIDE DEF P, W
  <2> QED
    BY <2>1, <2>4, <2>5, <2>6
<1> HIDE DEF hits, W
<1>7. hits = {} => PartPlace(s) = 0 /\ (s.dyn # <<>> => W = {})
  BY <1>4, <1>5
<1> QED
  BY <1>6, <1>7 DEF W

(* Texts can be grouped as one likes. *)
Regroups(a, b, c) == (a \o b) \o c = a \o (b \o c)

LEMMA Regrouped ==
    ASSUME NEW A, NEW a \in Seq(A), NEW b \in Seq(A), NEW c \in Seq(A)
    PROVE  Regroups(a, b, c)
BY ConcatAssociative DEF Regroups

(* The text before a place, with what was passed on before it. *)
LEMMA PassedPlaces ==
    ASSUME NEW S, NEW T, NEW t \in Seq(T), NEW p \in Seq(S), NEW c \in Seq(S),
           \A j \in 1..Len(p) : Apart(t, p \o c, j), NEW i \in 1..Len(c)
    PROVE  /\ (\A j \in Occurs(t, c) : i <= j) => Occurs(t, p \o Before(c, i)) = {}
           /\ (\A j \in 1..(i - 1) : Apart(t, c, j)) =>
                 \A j \in 1..Len(p \o Before(c, i)) : Apart(t, p \o c, j)
<1> DEFINE b == Before(c, i)
           f == From(c, i)
<1>1. b \in Seq(S) /\ f \in Seq(S) /\ b \o f = c /\ Len(f) = Len(c) - i + 1
  BY SplitAt
<1> HIDE DEF b, f
<1>2. Len(b) = i - 1
  <2> b \in Seq(S) /\ f \in Seq(S)
    BY <1>1
  <2>1. Len(b \o f) = Len(b) + Len(f) /\ Len(b) \in Nat /\ Len(c) \in Nat
    BY ConcatProperties
  <2>2. Len(c) = Len(b) + (Len(c) - i + 1)
    BY <1>1, <2>1
  <2> QED
    BY <2>1, <2>2
<1>3. p \o b \in Seq(S) /\ Len(p \o b) = Len(p) + (i - 1) /\ (p \o b) \o f = p \o c
  <2> b \in Seq(S) /\ f \in Seq(S)
    BY <1>1
  <2>1. p \o b \in Seq(S) /\ Len(p \o b) = Len(p) + Len(b)
    BY ConcatProperties
  <2>2. Regroups(p, b, f)
    BY Regrouped
  <2> QED
    BY <1>1, <1>2, <2>1, <2>2 DEF Regroups
<1>4. \A j \in 1..Len(p \o b) : j \in 1..Len(p) \/ \E k \in 1..(i - 1) : j = Len(p) + k
  <2>1. ASSUME NEW j \in 1..Len(p \o b), j \notin 1..Len(p)
        PROVE  \E k \in 1..(i - 1) : j = Len(p) + k
    <3>1. j - Len(p) \in 1..(i - 1) /\ j = Len(p) + (j - Len(p))
      BY <1>3, <2>1
    <3> QED
      BY <3>1
  <2> QED
    BY <2>1
<1>5. ASSUME \A j \in Occurs(t, c) : i <= j, NEW j \in Occurs(t, p \o b) PROVE FALSE
  <2>1. j \in Occurs(t, p \o c) /\ j \in 1..Len(p \o b)
    <3>1. j \in Occurs(t, (p \o b) \o f) /\ j \in 1..Len(p \o b)
      BY <1>1, <1>3, OccursInWhole DEF Occurs
    <3> QED
      BY <1>3, <3>1
  <2>2. CASE j \in 1..Len(p)
    <3>1. p \o c \in Seq(S) /\ j \in 1..Len(p \o c) /\ <<>> \in Seq(S)
      BY <2>2, ConcatProperties
    <3>2. Apart(t, p \o c, j)
      BY <2>2
    <3>3. j \notin Occurs(t, p \o c)
      BY <3>1, <3>2, ApartStays
    <3> QED
      BY <2>1, <3>3
  <2>3. ASSUME NEW k \in 1..(i - 1), j = Len(p) + k PROVE FALSE
    <3>1. k \in 1..Len(b)
      BY <1>2
    <3>2. k \in Occurs(t, b)
      BY <1>1, <1>5, <2>3, <3>1, OccursBehind
    <3>3. k \in Occurs(t, b \o f)
      BY <1>1, <3>2, OccursInWhole
    <3>4. k \in Occurs(t, c)
      BY <1>1, <3>3
    <3>5. i <= k
      BY <1>5, <3>4
    <3> QED
      BY <3>5
  <2> QED
    BY <1>4, <2>1, <2>2, <2>3
<1>6. ASSUME \A j \in 1..(i - 1) : Apart(t, c, j), NEW j \in 1..Len(p \o b)
      PROVE  Apart(t, p \o c, j)
  <2>1. ASSUME NEW k \in 1..(i - 1), j = Len(p) + k PROVE Apart(t, p \o c, j)
    <3>1. k \in 1..Len(c) /\ Apart(t, c, k)
      BY <1>6
    <3>2. Apart(t, p \o c, Len(p) + k)
      BY <3>1, ApartBehind
    <3> QED
      BY <2>1, <3>2
  <2> QED
    BY <1>4, <2>1
<1>7. (\A j \in Occurs(t, c) : i <= j) => Occurs(t, p \o b) = {}
  BY <1>5
<1>8. (\A j \in 1..(i - 1) : Apart(t, c, j)) => \A j \in 1..Len(p \o b) : Apart(t, p \o c, j)
  BY <1>6
<1> QED
  BY <1>7, <1>8 DEF b

(* Scanning does not show it. *)
LEMMA ScanHides ==
    ASSUME NEW S, NEW s, IsStream(s, S), Balance(s), ~s.capture, s.json = <<>>,
           s.tool = "none", NEW n \in 0..Len(s.cache), Grown(s.cache, n), NEW stop,
           Hides(s)
    PROVE  Hides(Scan(s, stop))
<1> DEFINE t == Wanted(s)
           T == S \cup {"<", "R"}
           c == s.cache
           p == s.passed
           legacy == Occurs(Legacy, c)
           begun == Begun(Legacy, c)
           r == Scan(s, stop)
<1> SUFFICES Hides(r)
  OBVIOUS
<1>1. t \in Seq(T) /\ c \in Seq(S) /\ p \in Seq(S)
  BY WantedIsText DEF IsStream
<1>2. s.gen = p \o c /\ \A j \in 1..Len(p) : Apart(t, p \o c, j)
  BY DEF Balance, Held, Hides
<1>good. Good(r, S) /\ Keeps(r, s)
  BY ScanGood
<1>same. Wanted(r) = t
  BY <1>good DEF Keeps, Wanted
<1>dyn. s.dyn = <<>> => t = Legacy
  BY DEF Wanted
<1>full. /\ FullPlace(s) # 0 => s.dyn # <<>> /\ \A j \in Occurs(t, c) : FullPlace(s) <= j
         /\ FullPlace(s) = 0 /\ s.dyn # <<>> => Occurs(t, c) = {}
  BY FullIsFirst
<1>part. /\ PartPlace(s) # 0 => s.dyn # <<>> /\ \A j \in Begun(t, c) : PartPlace(s) <= j
         /\ PartPlace(s) = 0 /\ s.dyn # <<>> => Begun(t, c) = {}
  BY PartIsFirst
<1>legacy. /\ legacy \in SUBSET Nat /\ begun \in SUBSET Nat
           /\ legacy \in SUBSET (1..Len(c)) /\ begun \in SUBSET (1..Len(c))
  BY <1>1 DEF Occurs, Begun
<1>min. /\ legacy # {} => Min(legacy) \in legacy /\ \A j \in legacy : Min(legacy) <= j
        /\ begun # {} => Min(begun) \in begun /\ \A j \in begun : Min(begun) <= j
  BY <1>legacy, MinElement
<1>branch. \/ /\ FullPlace(s) # 0
              /\ r = Captured(Capture(s, FullPlace(s), stop), stop)
           \/ /\ FullPlace(s) = 0 /\ PartPlace(s) # 0
              /\ r = Hold(s, PartPlace(s), stop)
           \/ /\ FullPlace(s) = 0 /\ PartPlace(s) = 0 /\ legacy # {}
              /\ r = Pass(Capture(s, Min(legacy), stop), <<>>, stop)
           \/ /\ FullPlace(s) = 0 /\ PartPlace(s) = 0 /\ legacy = {} /\ begun # {}
              /\ r = Hold(s, Min(begun), stop)
           \/ /\ FullPlace(s) = 0 /\ PartPlace(s) = 0 /\ legacy = {} /\ begun = {}
              /\ r = Pass([s EXCEPT !.cache = <<>>], s.cache, stop)
  BY ScanBranches
<1>places. /\ FullPlace(s) # 0 => FullPlace(s) \in 1..Len(c)
           /\ PartPlace(s) # 0 => PartPlace(s) \in 1..Len(c)
  BY PlacesInCache DEF Begun
<1> HIDE DEF r, legacy, begun, t, T
<1>capture. ASSUME NEW i \in 1..Len(c), \A j \in Occurs(t, c) : i <= j,
                   r.capture, r.passed = p \o Before(c, i)
            PROVE  Hides(r)
  <2>1. Occurs(t, p \o Before(c, i)) = {}
    BY <1>1, <1>2, <1>capture, PassedPlaces
  <2> QED
    BY <1>same, <1>capture, <2>1 DEF Hides
<1>hold. ASSUME NEW i \in 1..Len(c), \A j \in 1..(i - 1) : j \notin Occurs(t, c) /\ j \notin Begun(t, c),
                r = Hold(s, i, stop)
         PROVE  Hides(r)
  <2>1. \A j \in 1..(i - 1) : Apart(t, c, j)
    <3>1. \A j \in 1..(i - 1) : j \in 1..Len(c)
      BY <1>1
    <3> QED
      BY <1>1, <1>hold, <3>1, NeitherIsApart
  <2>2. \A j \in 1..Len(p \o Before(c, i)) : Apart(t, p \o c, j)
    BY <1>1, <1>2, <2>1, PassedPlaces
  <2>3. ~r.capture /\ r.gen = s.gen /\ r.passed = p \o Before(c, i)
    <3> DEFINE h == Hold(s, i, stop)
               d == [s EXCEPT !.cache = From(s.cache, i)]
    <3>1. i \in 1..Len(s.cache) /\ ~d.capture /\ d.gen = s.gen
      BY DEF IsStream, Fields
    <3>2. Frame(h, d) /\ h.passed = s.passed \o Before(s.cache, i)
      BY <3>1, HoldFrame
    <3> HIDE DEF h, d
    <3> QED
      BY <1>hold, <3>1, <3>2 DEF h, Frame
  <2> QED
    BY <1>2, <1>same, <2>2, <2>3 DEF Hides
<1>1a. CASE FullPlace(s) # 0
  <2> DEFINE i == FullPlace(s)
             d == Capture(s, i, stop)
  <2>1. i \in 1..Len(s.cache) /\ \A j \in Occurs(t, c) : i <= j
    BY <1>1a, <1>places, <1>full
  <2>r. r = Captured(d, stop)
    BY <1>1a, <1>branch
  <2> HIDE DEF i
  <2>2. /\ IsStream(d, S) /\ Balance(d) /\ Keeps(d, s) /\ d.tool = "none"
        /\ d.capture /\ d.json = From(s.cache, i) /\ d.passed = s.passed \o Before(s.cache, i)
    BY <2>1, CaptureKeeps, ZenonT(40)
  <2>3. EndIsLast(d.json)
    BY <1>1, <2>1, <2>2, GrownTail
  <2> HIDE DEF d
  <2>4. Captured(d, stop).capture /\ Captured(d, stop).passed = d.passed
    BY <2>2, <2>3, CapturedGood
  <2> QED
    BY <1>capture, <2>r, <2>1, <2>2, <2>4
<1>2a. CASE FullPlace(s) = 0 /\ PartPlace(s) # 0
  <2> DEFINE i == PartPlace(s)
  <2>1. i \in 1..Len(c) /\ r = Hold(s, i, stop) /\ s.dyn # <<>>
    BY <1>2a, <1>places, <1>branch, <1>part
  <2>2. \A j \in 1..(i - 1) : j \notin Occurs(t, c) /\ j \notin Begun(t, c)
    <3>1. Occurs(t, c) = {} /\ \A j \in Begun(t, c) : i <= j
      BY <1>2a, <1>full, <1>part, <2>1
    <3> HIDE DEF i
    <3> QED
      BY <2>1, <3>1
  <2> HIDE DEF i
  <2> QED
    BY <1>hold, <2>1, <2>2
<1>3a. CASE FullPlace(s) = 0 /\ PartPlace(s) = 0 /\ legacy # {}
  <2> DEFINE i == Min(legacy)
             d == Capture(s, i, stop)
             e == Pass(d, <<>>, stop)
  <2>1. i \in 1..Len(s.cache)
    BY <1>3a, <1>legacy, <1>min
  <2>2. \A j \in Occurs(t, c) : i <= j
    <3>1. CASE s.dyn = <<>>
      BY <1>3a, <1>min, <1>dyn, <3>1 DEF legacy
    <3>2. CASE s.dyn # <<>>
      BY <1>3a, <1>full, <3>2
    <3> QED
      BY <3>1, <3>2
  <2>r. r = e
    BY <1>3a, <1>branch
  <2> HIDE DEF i
  <2>3. /\ IsStream(d, S) /\ d.capture /\ d.passed = s.passed \o Before(s.cache, i)
    BY <2>1, CaptureKeeps
  <2> HIDE DEF d
  <2>4. Frame(e, d) /\ e.passed = d.passed \o <<>>
    BY <2>3, PassFrame DEF IsStream
  <2>5. d.passed \o <<>> = d.passed
    BY <2>3, ConcatEmptySeq DEF IsStream
  <2> HIDE DEF e
  <2>6. r.capture /\ r.passed = p \o Before(c, i)
    BY <2>r, <2>3, <2>4, <2>5 DEF Frame
  <2> QED
    BY <1>capture, <2>1, <2>2, <2>6
<1>quiet. ASSUME FullPlace(s) = 0, PartPlace(s) = 0, legacy = {}
          PROVE  /\ Occurs(t, c) = {}
                 /\ Begun(t, c) = IF s.dyn = <<>> THEN begun ELSE {}
  BY <1>quiet, <1>full, <1>part, <1>dyn DEF legacy, begun
<1>4a. CASE FullPlace(s) = 0 /\ PartPlace(s) = 0 /\ legacy = {} /\ begun # {}
  <2> DEFINE i == Min(begun)
  <2>1. i \in 1..Len(c) /\ r = Hold(s, i, stop)
    BY <1>4a, <1>legacy, <1>min, <1>branch
  <2>2. \A j \in Begun(t, c) : i <= j
    BY <1>4a, <1>quiet, <1>min
  <2> HIDE DEF i
  <2>3. \A j \in 1..(i - 1) : j \notin Occurs(t, c) /\ j \notin Begun(t, c)
    BY <1>4a, <1>quiet, <2>1, <2>2
  <2> QED
    BY <1>hold, <2>1, <2>3
<1>5a. CASE FullPlace(s) = 0 /\ PartPlace(s) = 0 /\ legacy = {} /\ begun = {}
  <2> DEFINE d == [s EXCEPT !.cache = <<>>]
  <2>1. DOMAIN d = Fields /\ d.gen = s.gen /\ ~d.capture /\ d.passed = s.passed
    BY DEF IsStream, Fields
  <2>2. r = Pass(d, s.cache, stop)
    BY <1>5a, <1>branch
  <2> HIDE DEF d
  <2>3. ~r.capture /\ r.gen = s.gen /\ r.passed = p \o c
    <3> DEFINE e == Pass(d, s.cache, stop)
    <3>1. Frame(e, d) /\ e.passed = d.passed \o s.cache
      BY <2>1, PassFrame
    <3> HIDE DEF e
    <3> QED
      BY <2>1, <2>2, <3>1 DEF Frame, e
  <2>4. Occurs(t, c) = {} /\ Begun(t, c) = {}
    BY <1>5a, <1>quiet
  <2>5. ASSUME NEW j \in 1..Len(p \o c) PROVE Apart(t, p \o c, j)
    <3>1. CASE j \in 1..Len(p)
      BY <1>2, <3>1
    <3>2. CASE j \notin 1..Len(p)
      <4> DEFINE k == j - Len(p)
      <4>1. Len(p \o c) = Len(p) + Len(c) /\ Len(p) \in Nat /\ Len(c) \in Nat
        BY <1>1, ConcatProperties
      <4>2. k \in 1..Len(c) /\ j = Len(p) + k
        <5>1. j \in 1..(Len(p) + Len(c)) /\ ~(j <= Len(p))
          <6> DEFINE w == p \o c
          <6>1. j \in 1..Len(w) /\ Len(w) = Len(p) + Len(c)
            BY <4>1
          <6> HIDE DEF w, p, c
          <6> QED
            BY <3>2, <4>1, <6>1
        <5> HIDE DEF c, p
        <5> QED
          BY <4>1, <5>1
      <4> HIDE DEF k
      <4>3. Apart(t, c, k)
        BY <1>1, <2>4, <4>2, NeitherIsApart
      <4> QED
        BY <1>1, <4>2, <4>3, ApartBehind
    <3> QED
      BY <3>1, <3>2
  <2> QED
    BY <1>2, <1>same, <2>3, <2>5 DEF Hides
<1> QED
  BY <1>1a, <1>2a, <1>3a, <1>4a, <1>5a

(* A piece does not show it. *)
LEMMA InterceptHides ==
    ASSUME NEW S, NEW s, Good(s, S), s.go, Hides(s), NEW piece \in Seq(S), Cut(piece), NEW stop
    PROVE  Hides(Intercept(s, piece, stop))
<1> DEFINE h == Fed(s, piece)
           j == FedCapture(s, piece)
           r == Intercept(s, piece, stop)
           t == Wanted(s)
<1>1. r = IF s.capture THEN Captured(j, stop) ELSE Scan(h, stop)
  BY Zenon DEF Intercept, Fed, FedCapture
<1>2. /\ Keeps(h, s) /\ h.gen = s.gen \o piece /\ h.capture = s.capture /\ h.passed = s.passed
      /\ Keeps(j, s) /\ j.passed = s.passed
      /\ s.capture => /\ IsStream(j, S) /\ Balance(j) /\ j.capture /\ j.tool = "none"
                      /\ IsLegacy(j.json) => EndIsLast(j.json)
      /\ ~s.capture => /\ IsStream(h, S) /\ Balance(h) /\ h.json = <<>> /\ h.tool = "none"
                       /\ \E n \in 0..Len(h.cache) : Grown(h.cache, n)
  BY FedFrame
<1>3. Keeps(r, s)
  BY InterceptGood
<1>4. t \in Seq(S \cup {"<", "R"})
  BY WantedIsText DEF Good
<1>5. s.passed \in Seq(S) /\ s.cache \in Seq(S)
  BY DEF Good, IsStream
<1> HIDE DEF h, j, r
<1>6. CASE s.capture
  <2>1. Captured(j, stop).capture /\ Captured(j, stop).passed = j.passed
    BY <1>2, <1>6, CapturedGood
  <2>2. Occurs(t, s.passed) = {}
    BY <1>6 DEF Hides
  <2>3. r.capture /\ r.passed = s.passed /\ r.dyn = s.dyn
    BY <1>1, <1>2, <1>3, <1>6, <2>1 DEF Keeps
  <2> QED
    BY <2>2, <2>3 DEF Hides, Wanted, r
<1>7. CASE ~s.capture
  <2>1. \A k \in 1..Len(h.passed) : Apart(t, h.gen, k)
    <3> DEFINE p == s.passed
               c == s.cache
    <3>1. s.gen = p \o c /\ \A k \in 1..Len(p) : Apart(t, p \o c, k)
      BY <1>7 DEF Hides, Good, Balance, Held
    <3> HIDE DEF p, c
    <3>2. /\ p \in Seq(S) /\ c \in Seq(S) /\ p \o c \in Seq(S) /\ Len(p \o c) = Len(p) + Len(c)
          /\ Len(p) \in Nat /\ Len(c) \in Nat
      BY <1>5, ConcatProperties DEF p, c
    <3>3. \A k \in 1..Len(p) : k \in 1..Len(p \o c)
      BY <3>2
    <3>4. \A k \in 1..Len(p) : Apart(t, (p \o c) \o piece, k)
      <4> DEFINE w == p \o c
      <4>1. w \in Seq(S) /\ \A k \in 1..Len(p) : k \in 1..Len(w) /\ Apart(t, w, k)
        BY <3>1, <3>2, <3>3
      <4> HIDE DEF w, t
      <4>2. \A k \in 1..Len(p) : Apart(t, w \o piece, k)
        BY <1>4, <4>1, ApartStays
      <4> QED
        BY <4>2 DEF w
    <3> QED
      BY <1>2, <3>1, <3>4 DEF p
  <2>2. Hides(h)
    BY <1>2, <1>7, <2>1 DEF Hides, Wanted, Keeps
  <2>3. r = Scan(h, stop) /\ ~h.capture
    BY <1>1, <1>2, <1>7
  <2>4. Hides(Scan(h, stop))
    BY <1>2, <1>7, <2>2, <2>3, ScanHides
  <2> QED
    BY <2>3, <2>4 DEF r
<1> QED
  BY <1>6, <1>7

(* Two symbols that are "<TRIGGER:". *)
LEMMA LegacyAt ==
    ASSUME NEW S, NEW s \in Seq(S), NEW i \in 1..Len(s), i + 1 \in 1..Len(s),
           s[i] = "<", s[i + 1] = "R"
    PROVE  i \in Occurs(Legacy, s)
<1> DEFINE f == From(s, i)
<1>1. Legacy \in Seq({"<", "R"}) /\ Len(Legacy) = 2 /\ Legacy[1] = "<" /\ Legacy[2] = "R"
  BY LegacyShape
<1>2. /\ f \in Seq(S) /\ Len(f) = Len(s) - i + 1
      /\ \A j \in 1..Len(f) : f[j] = s[i + j - 1]
  BY SplitAt
<1> HIDE DEF f
<1>3. 2 <= Len(f) /\ f[1] = "<" /\ f[2] = "R"
  <2>1. 2 <= Len(f) /\ 1 \in 1..Len(f) /\ 2 \in 1..Len(f)
    BY <1>2
  <2>2. f[1] = s[i + 1 - 1] /\ f[2] = s[i + 2 - 1]
    BY <1>2, <2>1
  <2>3. i + 1 - 1 = i /\ i + 2 - 1 = i + 1
    OBVIOUS
  <2> QED
    BY <2>1, <2>2, <2>3
<1>4. Len(Legacy) <= Len(f) /\ \A j \in 1..Len(Legacy) : Legacy[j] = f[j]
  BY <1>1, <1>3
<1> DEFINE A == {"<", "R"}
<1> HIDE DEF A
<1>5. Legacy \in Seq(A)
  BY <1>1 DEF A
<1>6. IsPrefix(Legacy, f)
  BY <1>2, <1>4, <1>5, SamePrefix
<1> QED
  BY <1>6 DEF Occurs, f

-----------------------------------------------------------------------------
(***************************************************************************)
(* The final answer: what is kept of the text ends as the text that was    *)
(* passed on does, so that a "<TRIGGER:" in two pieces is seen.            *)
(***************************************************************************)
Follows(s) == s.passed # <<>> => s.acc # <<>> /\ s.acc[Len(s.acc)] = s.passed[Len(s.passed)]

Spotless(s) == Occurs(Legacy, s.passed) = {} /\ (s.go => Follows(s))

(* A "<TRIGGER:" that a piece completes is seen in what is kept. *)
LEMMA SeenInKept ==
    ASSUME NEW S, NEW a \in Seq(S), NEW p \in Seq(S), NEW q \in Seq(S),
           p # <<>> => a # <<>> /\ a[Len(a)] = p[Len(p)],
           Occurs(Legacy, p) = {}, Occurs(Legacy, a \o q) = {}
    PROVE  Occurs(Legacy, p \o q) = {}
<1> SUFFICES ASSUME NEW j \in Occurs(Legacy, p \o q) PROVE FALSE
  BY DEF Occurs
<1> DEFINE u == p \o q
           w == a \o q
<1>1. /\ u \in Seq(S) /\ Len(u) = Len(p) + Len(q) /\ \A i \in 1..Len(p) : u[i] = p[i]
      /\ \A i \in (Len(p) + 1)..(Len(p) + Len(q)) : u[i] = q[i - Len(p)]
  BY ConcatProperties
<1>2. /\ w \in Seq(S) /\ Len(w) = Len(a) + Len(q) /\ \A i \in 1..Len(a) : w[i] = a[i]
      /\ \A i \in (Len(a) + 1)..(Len(a) + Len(q)) : w[i] = q[i - Len(a)]
  BY ConcatProperties
<1>3. j \in Occurs(Legacy, u) /\ Occurs(Legacy, w) = {}
  OBVIOUS
<1> HIDE DEF u, w
<1>4. j \in 1..Len(u) /\ j + 1 \in 1..Len(u) /\ u[j] = "<" /\ u[j + 1] = "R"
  BY <1>1, <1>3, LegacyPlace DEF Occurs
<1>5. Len(p) \in Nat /\ Len(q) \in Nat /\ Len(a) \in Nat
  OBVIOUS
<1>6. CASE j + 1 <= Len(p)
  <2>1. j \in 1..Len(p) /\ j + 1 \in 1..Len(p) /\ p[j] = "<" /\ p[j + 1] = "R"
    BY <1>1, <1>4, <1>5, <1>6
  <2>2. j \in Occurs(Legacy, p)
    BY <2>1, LegacyAt
  <2> QED
    BY <2>2
<1>7. CASE j = Len(p)
  <2>1. p # <<>> /\ p[Len(p)] = "<"
    BY <1>1, <1>4, <1>7
  <2>2. a # <<>> /\ a[Len(a)] = "<" /\ Len(a) \in 1..Len(a)
    BY <2>1, <1>5
  <2>3. 1 \in 1..Len(q) /\ q[1] = "R"
    <3>1. j + 1 \in (Len(p) + 1)..(Len(p) + Len(q)) /\ j + 1 - Len(p) = 1
      BY <1>1, <1>4, <1>5, <1>7
    <3> QED
      BY <1>1, <1>4, <1>5, <3>1
  <2>4. Len(a) \in 1..Len(w) /\ Len(a) + 1 \in 1..Len(w)
    BY <1>2, <1>5, <2>2, <2>3
  <2>5. w[Len(a)] = "<"
    BY <1>2, <2>2
  <2>6. w[Len(a) + 1] = "R"
    <3> DEFINE m == Len(a) + 1
    <3>1. m \in (Len(a) + 1)..(Len(a) + Len(q)) /\ m - Len(a) = 1
      BY <1>5, <2>3
    <3> HIDE DEF m
    <3>2. w[m] = "R"
      BY <1>2, <2>3, <3>1
    <3> QED
      BY <3>2 DEF m
  <2>7. Len(a) \in Occurs(Legacy, w)
    BY <1>2, <2>4, <2>5, <2>6, LegacyAt
  <2> QED
    BY <1>3, <2>7
<1>8. CASE j > Len(p)
  <2> DEFINE k == j - Len(p)
  <2>1. k \in 1..Len(q) /\ k + 1 \in 1..Len(q)
    BY <1>1, <1>4, <1>5, <1>8
  <2>2. q[k] = "<"
    <3>1. j \in (Len(p) + 1)..(Len(p) + Len(q))
      BY <1>1, <1>4, <1>5, <1>8
    <3> QED
      BY <1>1, <1>4, <3>1
  <2>3. q[k + 1] = "R"
    <3>1. j + 1 \in (Len(p) + 1)..(Len(p) + Len(q)) /\ j + 1 - Len(p) = k + 1
      BY <1>1, <1>4, <1>5, <1>8
    <3> QED
      BY <1>1, <1>4, <3>1
  <2> HIDE DEF k
  <2> DEFINE m == Len(a) + k
             n == m + 1
  <2>4. /\ m \in (Len(a) + 1)..(Len(a) + Len(q)) /\ n \in (Len(a) + 1)..(Len(a) + Len(q))
        /\ m - Len(a) = k /\ n - Len(a) = k + 1 /\ m \in 1..Len(w) /\ n \in 1..Len(w)
    BY <1>2, <1>5, <2>1
  <2> HIDE DEF m, n
  <2>5. w[m] = "<" /\ w[n] = "R"
    BY <1>2, <2>2, <2>3, <2>4
  <2>6. m \in Occurs(Legacy, w)
    BY <1>2, <2>4, <2>5, LegacyAt DEF n
  <2> QED
    BY <1>3, <2>6
<1> QED
  BY <1>4, <1>5, <1>6, <1>7, <1>8

(* The ends of two texts, with the same piece behind them. *)
LEMMA SameEnd ==
    ASSUME NEW S, NEW a \in Seq(S), NEW p \in Seq(S), NEW q \in Seq(S),
           p # <<>> => a # <<>> /\ a[Len(a)] = p[Len(p)], p \o q # <<>>
    PROVE  a \o q # <<>> /\ (a \o q)[Len(a \o q)] = (p \o q)[Len(p \o q)]
<1> DEFINE u == p \o q
           w == a \o q
<1>1. /\ u \in Seq(S) /\ Len(u) = Len(p) + Len(q) /\ \A i \in 1..Len(p) : u[i] = p[i]
      /\ \A i \in (Len(p) + 1)..(Len(p) + Len(q)) : u[i] = q[i - Len(p)]
  BY ConcatProperties
<1>2. /\ w \in Seq(S) /\ Len(w) = Len(a) + Len(q) /\ \A i \in 1..Len(a) : w[i] = a[i]
      /\ \A i \in (Len(a) + 1)..(Len(a) + Len(q)) : w[i] = q[i - Len(a)]
  BY ConcatProperties
<1>3. u # <<>>
  OBVIOUS
<1> HIDE DEF u, w
<1>4. Len(p) \in Nat /\ Len(q) \in Nat /\ Len(a) \in Nat
  OBVIOUS
<1>5. CASE Len(q) = 0
  <2>1. p # <<>> /\ Len(u) = Len(p) /\ Len(w) = Len(a)
    BY <1>1, <1>2, <1>3, <1>4, <1>5
  <2>2. Len(p) \in 1..Len(p) /\ Len(a) \in 1..Len(a) /\ a[Len(a)] = p[Len(p)]
    BY <2>1
  <2> QED
    BY <1>1, <1>2, <2>1, <2>2, SMTT(30) DEF u, w
<1>6. CASE Len(q) # 0
  <2>1. /\ Len(u) \in (Len(p) + 1)..(Len(p) + Len(q)) /\ Len(w) \in (Len(a) + 1)..(Len(a) + Len(q))
        /\ Len(u) - Len(p) = Len(q) /\ Len(w) - Len(a) = Len(q)
    BY <1>1, <1>2, <1>4, <1>6
  <2>2. u[Len(u)] = q[Len(q)] /\ w[Len(w)] = q[Len(q)]
    BY <1>1, <1>2, <2>1
  <2>3. Len(w) # 0
    BY <1>2, <1>4, <1>6
  <2>4. w # <<>>
    BY <2>3
  <2> QED
    BY <2>2, <2>4 DEF u, w
<1> QED
  BY <1>5, <1>6

(* One piece of the final answer shows no "<TRIGGER:". *)
LEMMA FinalHides ==
    ASSUME NEW S, NEW s, IsStream(s, S), Spotless(s), s.go, NEW piece \in Seq(S), NEW stop
    PROVE  Spotless(Final(s, piece, stop))
<1> DEFINE r == Final(s, piece, stop)
           a == s.acc
           p == s.passed
<1>1. a \in Seq(S) /\ p \in Seq(S)
  BY DEF IsStream
<1>2. /\ r.acc = Trim(a \o piece)
      /\ Occurs(Legacy, a \o piece) # {} => r.passed = p /\ ~r.go
      /\ Occurs(Legacy, a \o piece) = {} => r.passed = p \o piece
  <2> DEFINE f == Final(s, piece, stop)
  <2>1. f.acc = Trim(s.acc \o piece)
    BY FinalFrame
  <2>2. Occurs(Legacy, s.acc \o piece) # {} => f.passed = s.passed /\ ~f.go
    BY FinalFrame
  <2>3. Occurs(Legacy, s.acc \o piece) = {} => f.passed = s.passed \o piece
    BY FinalFrame
  <2> QED
    BY <2>1, <2>2, <2>3
<1>3. /\ p # <<>> => a # <<>> /\ a[Len(a)] = p[Len(p)]
      /\ Occurs(Legacy, p) = {}
  BY DEF Spotless, Follows
<1> HIDE DEF r, a, p
<1>4. CASE Occurs(Legacy, a \o piece) # {}
  BY <1>2, <1>3, <1>4 DEF Spotless, r
<1>5. CASE Occurs(Legacy, a \o piece) = {}
  <2>1. Occurs(Legacy, p \o piece) = {}
    BY <1>1, <1>3, <1>5, SeenInKept
  <2>2. p \o piece # <<>> =>
            a \o piece # <<>> /\ (a \o piece)[Len(a \o piece)] = (p \o piece)[Len(p \o piece)]
    BY <1>1, <1>3, SameEnd
  <2> DEFINE w == a \o piece
             u == p \o piece
  <2>3. w \in Seq(S)
    BY <1>1, ConcatProperties
  <2>4. r.acc = Trim(w) /\ r.passed = u
    BY <1>2, <1>5
  <2>5. u # <<>> => w # <<>> /\ w[Len(w)] = u[Len(u)]
    BY <2>2
  <2> HIDE DEF w, u
  <2>6. u # <<>> => Trim(w) # <<>> /\ Trim(w)[Len(Trim(w))] = u[Len(u)]
    BY <2>3, <2>5, TrimKeepsEnd
  <2>7. Follows(r)
    BY <2>4, <2>6 DEF Follows
  <2>8. Occurs(Legacy, r.passed) = {}
    BY <2>1, <2>4 DEF u
  <2> QED
    BY <2>7, <2>8 DEF Spotless, r
<1> QED
  BY <1>4, <1>5

(* Nothing is shown at the start of a stream. *)
LEMMA StartHides == \A dyn : Hides(Start(dyn))
<1> SUFFICES ASSUME NEW dyn PROVE Hides(Start(dyn))
  OBVIOUS
<1>1. Start(dyn).passed = <<>> /\ ~Start(dyn).capture /\ Len(<<>>) = 0
  BY DEF Start
<1> QED
  BY <1>1 DEF Hides

(* Nor at the start of the final answer. *)
LEMMA EmptySpotless ==
    ASSUME NEW s, s.passed = <<>>
    PROVE  Spotless(s)
BY DEF Spotless, Follows, Occurs

(* What cannot become the trigger is not the trigger. *)
LEMMA HiddenIsAbsent ==
    ASSUME NEW S, NEW s, Good(s, S), Hides(s)
    PROVE  Occurs(Wanted(s), s.passed) = {}
<1>1. CASE s.capture
  BY <1>1 DEF Hides
<1>2. CASE ~s.capture
  <2> DEFINE t == Wanted(s)
             p == s.passed
             c == s.cache
  <2>1. t \in Seq(S \cup {"<", "R"})
    BY WantedIsText DEF Good
  <2>2. p \in Seq(S) /\ c \in Seq(S) /\ \A j \in 1..Len(p) : Apart(t, p \o c, j)
    BY <1>2 DEF Hides, Good, IsStream, Balance, Held
  <2> HIDE DEF t, p, c
  <2>3. Occurs(t, p) = {}
    BY <2>1, <2>2, ApartHides
  <2> QED
    BY <2>3 DEF t, p
<1> QED
  BY <1>1, <1>2

-----------------------------------------------------------------------------
(***************************************************************************)
(* The engine and the active model.  Before the dashboard there is no      *)
(* engine; without lazy_load_model the boot may load any model, but then   *)
(* no model is active.                                                     *)
(***************************************************************************)
Launching == {"launch", "menu", "local", "audit"}

EngineInv ==
    /\ engine \in [router : ModelOrNone, loaded : BOOLEAN]
    /\ active \in ModelOrNone /\ perm \in ModelOrNone
    /\ roster.cached \subseteq Models /\ disk \subseteq Models
    /\ at \in Launching => engine = NoEngine
    /\ at = "boot" /\ ~lazy => active = None \/ engine.loaded
    /\ at \in {"local", "audit"} => active \in Models
    /\ LoadedIsActive

(* At the start no engine is loaded. *)
LEMMA EngineInit == Init => EngineInv
BY SessionAssumption DEF Init, EngineInv, LoadedIsActive, NoEngine, NoRoster, ModelOrNone, Launching

(* What load_model leaves: an engine that is not loaded, or that of m. *)
LEMMA LoadResult ==
    ASSUME NEW m \in Models, NEW e \in [router : ModelOrNone, loaded : BOOLEAN], NEW f \in Load(m, e)
    PROVE  /\ f \in [router : ModelOrNone, loaded : BOOLEAN]
           /\ f.loaded => f.router = m
<1>1. CASE f = [e EXCEPT !.loaded = FALSE]
  BY <1>1
<1>2. CASE f = [router |-> m, loaded |-> TRUE]
  BY <1>2 DEF ModelOrNone
<1> QED
  BY <1>1, <1>2 DEF Load

(* No step loads an engine of another model than the active one. *)
LEMMA EngineStep == EngineInv /\ [Next]_vars => EngineInv'
<1> SUFFICES ASSUME EngineInv, [Next]_vars PROVE EngineInv'
  OBVIOUS
<1> USE SessionAssumption DEF EngineInv, LoadedIsActive, Launching
<1>keep. ASSUME UNCHANGED <<engine, active, settings, disk, roster>>,
                at' \notin Launching \cup {"boot"}
         PROVE  EngineInv'
  BY <1>keep DEF settings
<1>1. CASE LaunchMenu
  BY <1>1 DEF LaunchMenu, settings
<1>2. CASE StartChat \/ MenuChat
  BY <1>2 DEF StartChat, MenuChat, OpenDashboard, settings, ModelOrNone
<1>3. CASE MenuQuit \/ LaunchPullFails
  BY <1>3, <1>keep DEF MenuQuit, LaunchPullFails
<1>4. ASSUME NEW m \in Models, LaunchRun(m) PROVE EngineInv'
  <2>1. at' \in {"local", "audit"}
    BY <1>4 DEF LaunchRun
  <2> QED
    BY <1>4, <2>1 DEF LaunchRun, ModelOrNone, NoEngine
<1>5. CASE RunDenied
  BY <1>5, <1>keep DEF RunDenied
<1>6. CASE RunReady
  <2>1. disk' \subseteq Models
    BY <1>6 DEF RunReady
  <2>2. active \in Models /\ engine = NoEngine
    BY <1>6 DEF RunReady
  <2>3. CASE lazy
    BY <1>6, <2>1, <2>2, <2>3 DEF RunReady, settings, NoEngine
  <2>4. CASE ~lazy
    <3>1. PICK loaded \in BOOLEAN :
              /\ engine' = IF loaded THEN [router |-> active, loaded |-> TRUE]
                           ELSE [engine EXCEPT !.loaded = FALSE]
              /\ at' = IF loaded THEN "boot" ELSE "quit"
      BY <1>6, <2>4 DEF RunReady
    <3>2. CASE loaded
      BY <1>6, <2>1, <2>2, <3>1, <3>2 DEF RunReady, settings, ModelOrNone
    <3>3. CASE ~loaded
      BY <1>6, <2>1, <2>2, <3>1, <3>3 DEF RunReady, settings, NoEngine
    <3> QED
      BY <3>2, <3>3
  <2> QED
    BY <2>3, <2>4
<1>7. ASSUME NEW m \in Models, LaunchPull(m) \/ MenuPull(m) PROVE EngineInv'
  <2>1. /\ engine = NoEngine /\ Pull(m)
    BY <1>7 DEF LaunchPull, MenuPull
  <2>2. /\ disk' \subseteq Models /\ roster'.cached \subseteq Models /\ active' = m
    BY <2>1 DEF Pull
  <2>3. CASE engine' = [router |-> m, loaded |-> TRUE] /\ perm' = m /\ at' = "boot"
    BY <2>2, <2>3 DEF ModelOrNone
  <2>4. CASE UNCHANGED <<engine, perm>> /\ at' = "quit"
    BY <2>1, <2>2, <2>4 DEF ModelOrNone, NoEngine
  <2> QED
    BY <2>1, <2>3, <2>4 DEF Pull
<1>8. CASE Boot
  <2>1. roster'.cached \subseteq Models
    BY <1>8 DEF Boot, Listed
  <2>2. BootTargets \subseteq Models
    BY <2>1 DEF BootTargets
  <2>3. CASE engine' = engine
    BY <1>8, <2>1, <2>3 DEF Boot, settings
  <2>4. CASE engine' # engine
    <3>1. ~engine.loaded /\ ~lazy /\ \E m \in Models : engine' \in Load(m, engine)
      BY <1>8, <2>2, <2>4 DEF Boot
    <3>2. active = None
      BY <1>8, <3>1 DEF Boot
    <3>3. /\ engine' \in [router : ModelOrNone, loaded : BOOLEAN]
          /\ engine'.loaded => engine'.router \in Models
      BY <3>1, LoadResult
    <3> QED
      BY <1>8, <2>1, <3>2, <3>3 DEF Boot, settings
  <2> QED
    BY <2>3, <2>4
<1>9. CASE TakePivot
  BY <1>9, <1>keep DEF TakePivot, Take, Dispatch
<1>10. ASSUME NEW kind \in Commands, NEW fast \in BOOLEAN, EnterLine(kind, fast) PROVE EngineInv'
  BY <1>10, <1>keep DEF EnterLine, Take, Dispatch
<1>11. CASE Leave \/ CloseModels \/ EnterNothing \/ Flush
  BY <1>11, <1>keep DEF Leave, CloseModels, EnterNothing, Flush
<1>12. ASSUME NEW m \in Models, LoadEntry(m) PROVE EngineInv'
  BY <1>12, LoadResult DEF LoadEntry, Activate, Listed, ModelOrNone
<1>13. ASSUME NEW m \in Models, Download(m) PROVE EngineInv'
  <2>1. /\ at' = "models" /\ active' = m /\ perm' = m
        /\ disk' \subseteq Models /\ roster'.cached \subseteq Models
    BY <1>13 DEF Download, Listed
  <2>2. CASE engine' = [engine EXCEPT !.loaded = FALSE]
    BY <2>1, <2>2 DEF ModelOrNone
  <2>3. CASE engine' = [router |-> m, loaded |-> TRUE]
    BY <2>1, <2>3 DEF ModelOrNone
  <2> QED
    BY <1>13, <2>2, <2>3 DEF Download
<1>14. ASSUME NEW m \in Models, Delete(m) PROVE EngineInv'
  BY <1>14 DEF Delete, Listed, settings
<1>15. ASSUME NEW m \in Models, Switch(m) PROVE EngineInv'
  BY <1>15, LoadResult DEF Switch, NoEngine, ModelOrNone
<1>16. CASE BeginMessage \/ CtrlC \/ EndMessage
  BY <1>16, <1>keep DEF BeginMessage, CtrlC, EndMessage
<1>17. CASE Respond
  <2>1. at' \notin Launching \cup {"boot"} /\ UNCHANGED <<active, settings, disk, roster>>
    BY <1>17 DEF Respond
  <2>2. CASE engine' = engine
    BY <2>1, <2>2, <1>keep
  <2>3. CASE active \in roster.cached /\ engine' \in Load(active, engine)
    BY <2>1, <2>3, LoadResult DEF settings
  <2> QED
    BY <1>17, <2>2, <2>3 DEF Respond
<1>18. ASSUME NEW piece \in Pieces, Generate(piece) PROVE EngineInv'
  BY <1>18, <1>keep DEF Generate, Generating
<1>19. CASE EndPhase
  <2>1. at' \notin Launching \cup {"boot"} /\ UNCHANGED <<engine, active, settings, disk, roster>>
    BY <1>19 DEF EndPhase
  <2> QED
    BY <2>1, <1>keep
<1>20. CASE EngineFails
  BY <1>20, <1>keep DEF EngineFails
<1>21. CASE Instruct \/ Return
  BY <1>21, <1>keep DEF Instruct, Return
<1>22. CASE Restart
  BY <1>22 DEF Restart, NewProcess, NoEngine, NoRoster, settings, ModelOrNone
<1>23. CASE Others
  BY <1>23 DEF Others, ModelOrNone
<1>24. CASE UNCHANGED vars
  BY <1>24 DEF vars, settings
<1>25. CASE TypeLine \/ MenuKeys
  BY <1>25, <1>keep DEF TypeLine, Prompting, MenuKeys
<1> QED
  BY <1>1, <1>2, <1>3, <1>4, <1>5, <1>6, <1>7, <1>8, <1>9, <1>10, <1>11, <1>12, <1>13, <1>14, <1>15,
     <1>16, <1>17, <1>18, <1>19, <1>20, <1>21, <1>22, <1>23, <1>24, <1>25 DEF Next, System, User

(***************************************************************************)
(* A loaded engine is that of the active model (CoreEngine::load_model and *)
(* its callers).                                                           *)
(***************************************************************************)
THEOREM LoadedEngineIsActive == Spec => []LoadedIsActive
<1>1. EngineInv => LoadedIsActive
  BY DEF EngineInv
<1> QED
  BY EngineInit, EngineStep, <1>1, PTL DEF Spec

-----------------------------------------------------------------------------
(***************************************************************************)
(* The lines.  An instruction is put into an empty buffer, and the loop    *)
(* takes it before it reads another line: a pivot at the head of the       *)
(* buffer, which is merged behind the lines after it, is alone in it.  A   *)
(* line that a prompt waited for is taken, or the first that this prompt   *)
(* will read; so whatever is thrown away elsewhere is not such a line.     *)
(***************************************************************************)
Answering == {"message", "loading", "stream", "answered", "paused"}

PasteLine == [kind : Commands \cup {"pivot"}, id : Nat]

(* Numbers up to n, each greater than the one before. *)
Queue(q, n) ==
    /\ \A i, j \in 1..Len(q) : i < j => q[i] < q[j]
    /\ \A i \in 1..Len(q) : q[i] \in 1..n

(* The lines that a message has, or that wait for one. *)
Chosen == done \o Ids(paste)

(* The line that the prompt waits for. *)
AtHead(id) == Prompting /\ inquire = <<>> /\ tty # <<>> /\ Head(tty) = id

LinesInv ==
    /\ heard \in Seq({"awaited", "behind", "ahead"})
    /\ paste \in Seq(PasteLine) /\ done \in Seq(Nat)
    /\ inquire \in Seq(Nat) /\ tty \in Seq(Nat)
    /\ at \in Answering => paste = <<>>
    /\ PivotWaits => Len(paste) = 1 /\ at # "reading"
    /\ Queue(Chosen \o (inquire \o tty), Len(heard))
    /\ \A id \in 1..Len(heard) : heard[id] = "awaited" =>
          AtHead(id) \/ \E i \in 1..Len(Chosen) : Chosen[i] = id

(* Numbers put together, as SequenceTheorems has it: what the elements are. *)
LEMMA NatConcat ==
    \A s, t \in Seq(Nat) :
        /\ s \o t \in Seq(Nat) /\ Len(s) \in Nat /\ Len(t) \in Nat
        /\ Len(s \o t) = Len(s) + Len(t)
        /\ \A i \in 1..(Len(s) + Len(t)) :
              (s \o t)[i] = IF i <= Len(s) THEN s[i] ELSE t[i - Len(s)]
<1> SUFFICES ASSUME NEW s \in Seq(Nat), NEW t \in Seq(Nat)
             PROVE  /\ s \o t \in Seq(Nat) /\ Len(s) \in Nat /\ Len(t) \in Nat
                    /\ Len(s \o t) = Len(s) + Len(t)
                    /\ \A i \in 1..(Len(s) + Len(t)) :
                          (s \o t)[i] = IF i <= Len(s) THEN s[i] ELSE t[i - Len(s)]
  OBVIOUS
<1>1. Len(s) \in Nat /\ Len(t) \in Nat
  OBVIOUS
<1> QED
  BY <1>1, ConcatProperties

(* And that it does not matter which are put together first. *)
LEMMA NatAssoc == \A s, t, u \in Seq(Nat) : (s \o t) \o u = s \o (t \o u)
BY ConcatAssociative

(* What is taken out of the middle of a queue leaves a queue. *)
LEMMA QueueWithout ==
    ASSUME NEW c \in Seq(Nat), NEW x \in Seq(Nat), NEW a \in Seq(Nat), NEW n \in Nat,
           Queue(c \o (x \o a), n)
    PROVE  Queue(c \o a, n)
<1> DEFINE lc == Len(c)
           lx == Len(x)
           la == Len(a)
           xa == x \o a
           k == c \o xa
           r == c \o a
           Old(i) == IF i <= lc THEN i ELSE i + lx
<1>1. /\ lc \in Nat /\ lx \in Nat /\ la \in Nat /\ Len(xa) = lx + la /\ xa \in Seq(Nat)
      /\ c \in Seq(Nat)
  BY NatConcat
<1>2. \A i \in 1..(lx + la) : xa[i] = IF i <= lx THEN x[i] ELSE a[i - lx]
  BY NatConcat
<1> HIDE DEF xa
<1>3. /\ Len(k) = lc + (lx + la)
      /\ \A i \in 1..(lc + (lx + la)) : k[i] = IF i <= lc THEN c[i] ELSE xa[i - lc]
  <2>1. /\ Len(c \o xa) = Len(c) + Len(xa)
        /\ \A i \in 1..(Len(c) + Len(xa)) :
              (c \o xa)[i] = IF i <= Len(c) THEN c[i] ELSE xa[i - Len(c)]
    BY <1>1, NatConcat, Zenon
  <2> QED
    BY <1>1, <2>1
<1>4. /\ Len(r) = lc + la
      /\ \A i \in 1..(lc + la) : r[i] = IF i <= lc THEN c[i] ELSE a[i - lc]
  BY NatConcat
<1>5. Queue(k, n)
  BY DEF xa
<1> HIDE DEF k, r, lc, lx, la
<1>6. \A i \in 1..(lc + la) : Old(i) \in 1..(lc + lx + la) /\ r[i] = k[Old(i)]
  <2> SUFFICES ASSUME NEW i \in 1..(lc + la) PROVE Old(i) \in 1..(lc + lx + la) /\ r[i] = k[Old(i)]
    OBVIOUS
  <2>1. CASE i <= lc
    <3>1. i \in 1..(lc + (lx + la)) /\ i \in 1..(lc + lx + la)
      BY <1>1, <2>1
    <3> QED
      BY <2>1, <3>1, <1>3, <1>4
  <2>2. CASE ~(i <= lc)
    <3>1. /\ i + lx \in 1..(lc + (lx + la)) /\ i + lx \in 1..(lc + lx + la) /\ ~(i + lx <= lc)
          /\ (i + lx) - lc \in 1..(lx + la) /\ ~((i + lx) - lc <= lx)
          /\ ((i + lx) - lc) - lx = i - lc
      BY <1>1, <2>2
    <3>2. k[i + lx] = xa[(i + lx) - lc]
      BY <3>1, <1>3
    <3>3. xa[(i + lx) - lc] = a[i - lc]
      BY <3>1, <1>2
    <3>4. r[i] = a[i - lc]
      BY <2>2, <1>4
    <3> QED
      BY <2>2, <3>1, <3>2, <3>3, <3>4
  <2> QED
    BY <2>1, <2>2
<1>7. \A i, j \in 1..(lc + la) : i < j => Old(i) < Old(j)
  BY <1>1
<1>8. Len(k) = lc + lx + la /\ Len(r) = lc + la
  BY <1>1, <1>3, <1>4
<1> HIDE DEF Old
<1>9. Queue(r, n)
  BY <1>5, <1>6, <1>7, <1>8 DEF Queue
<1> QED
  BY <1>9 DEF r

(* The number after the last goes behind a queue. *)
LEMMA QueueMore ==
    ASSUME NEW q \in Seq(Nat), NEW n \in Nat, Queue(q, n)
    PROVE  Append(q, n + 1) \in Seq(Nat) /\ Queue(Append(q, n + 1), n + 1)
<1> DEFINE r == Append(q, n + 1)
<1>1. /\ r \in Seq(Nat) /\ Len(r) = Len(q) + 1
      /\ \A i \in 1..Len(q) : r[i] = q[i]
      /\ r[Len(q) + 1] = n + 1
  BY AppendProperties
<1>2. Len(q) \in Nat
  OBVIOUS
<1> HIDE DEF r
<1>3. \A i \in 1..Len(r) : i \in 1..Len(q) \/ i = Len(q) + 1
  BY <1>1, <1>2
<1>4. \A i \in 1..Len(q) : r[i] \in 1..n
  BY <1>1 DEF Queue
<1>5. \A i \in 1..Len(r) : r[i] \in 1..(n + 1)
  BY <1>1, <1>3, <1>4
<1>6. ASSUME NEW i \in 1..Len(r), NEW j \in 1..Len(r), i < j PROVE r[i] < r[j]
  <2>1. i \in 1..Len(q)
    BY <1>1, <1>2, <1>6
  <2>2. CASE j \in 1..Len(q)
    BY <1>1, <1>6, <2>1, <2>2 DEF Queue
  <2>3. CASE j = Len(q) + 1
    BY <1>1, <1>4, <2>1, <2>3
  <2> QED
    BY <1>3, <2>2, <2>3
<1> QED
  BY <1>1, <1>5, <1>6 DEF Queue, r

(* The ids of a buffer go with its lines. *)
LEMMA IdsOfBuffer ==
    /\ Ids(<<>>) = <<>>
    /\ \A p \in Seq(PasteLine), l \in PasteLine :
          Ids(p) \in Seq(Nat) /\ Ids(Append(p, l)) = Ids(p) \o <<l.id>>
<1>1. Ids(<<>>) = <<>>
  BY DEF Ids
<1>2. ASSUME NEW p \in Seq(PasteLine), NEW l \in PasteLine
      PROVE  Ids(p) \in Seq(Nat) /\ Ids(Append(p, l)) = Ids(p) \o <<l.id>>
  <2>1. \A i \in 1..Len(p) : p[i].id \in Nat
    <3>1. \A q \in PasteLine : q.id \in Nat
      BY DEF PasteLine
    <3> QED
      BY <3>1, ElementOfSeq
  <2>2. Ids(p) \in Seq(Nat) /\ Len(Ids(p)) = Len(p)
    BY <2>1 DEF Ids
  <2>3. l.id \in Nat
    BY DEF PasteLine
  <2>4. Append(p, l) \in Seq(PasteLine) /\ Len(Append(p, l)) = Len(p) + 1
    OBVIOUS
  <2>5. Ids(Append(p, l)) = [i \in 1..(Len(p) + 1) |-> Append(p, l)[i].id]
    BY <2>4 DEF Ids
  <2>6. \A i \in 1..(Len(p) + 1) : Append(p, l)[i].id = IF i <= Len(p) THEN Ids(p)[i] ELSE l.id
    BY DEF Ids
  <2>7. /\ Ids(p) \o <<l.id>> \in Seq(Nat) /\ Len(Ids(p) \o <<l.id>>) = Len(p) + 1
        /\ \A i \in 1..(Len(p) + 1) :
              (Ids(p) \o <<l.id>>)[i] = IF i <= Len(p) THEN Ids(p)[i] ELSE l.id
    <3>1. <<l.id>> \in Seq(Nat) /\ Len(<<l.id>>) = 1 /\ <<l.id>>[1] = l.id
      BY <2>3
    <3>2. \A i \in 1..(Len(p) + 1) : i > Len(p) => i - Len(p) = 1
      OBVIOUS
    <3> QED
      BY <2>2, <3>1, <3>2, ConcatProperties
  <2>8. Ids(Append(p, l)) \in Seq(Nat) /\ Len(Ids(Append(p, l))) = Len(p) + 1
    BY <2>1, <2>3, <2>5, <2>6, <2>7 DEF Ids
  <2>9. \A i \in 1..(Len(p) + 1) : Ids(Append(p, l))[i] = (Ids(p) \o <<l.id>>)[i]
    BY <2>5, <2>6, <2>7
  <2> QED
    BY <2>2, <2>7, <2>8, <2>9, SeqEqual
<1> QED
  BY <1>1, <1>2

(* The prompt takes the first of the lines that are still to be read. *)
LEMMA NextLineTakes ==
    ASSUME inquire \in Seq(Nat), tty \in Seq(Nat), NEW id \in Nat, NextLine(id)
    PROVE  /\ inquire' \in Seq(Nat) /\ tty' \in Seq(Nat)
           /\ inquire \o tty = <<id>> \o (inquire' \o tty')
           /\ \A a : AtHead(a) => a = id
<1> DEFINE i == inquire
           t == tty
           j == inquire'
           u == tty'
<1>1. i \in Seq(Nat) /\ t \in Seq(Nat) /\ <<id>> \in Seq(Nat)
  OBVIOUS
<1>2. CASE i # <<>> /\ id = Head(i) /\ j = Tail(i) /\ u = t
  <2> HIDE DEF i, t, j, u
  <2>1. j \in Seq(Nat) /\ i = <<id>> \o j
    <3>1. /\ j \in Seq(Nat) /\ Len(j) = Len(i) - 1
          /\ \A k \in 1..Len(j) : j[k] = i[k + 1]
      BY <1>1, <1>2, HeadTailProperties
    <3>2. Len(i) \in Nat \ {0} /\ i[1] = id
      BY <1>1, <1>2, EmptySeq
    <3>3. /\ <<id>> \o j \in Seq(Nat) /\ Len(<<id>> \o j) = 1 + Len(j)
          /\ \A k \in 1..(1 + Len(j)) : (<<id>> \o j)[k] = IF k <= 1 THEN id ELSE j[k - 1]
      BY <1>1, <3>1, ConcatProperties
    <3>4. ASSUME NEW k \in 1..Len(i) PROVE i[k] = (<<id>> \o j)[k]
      <4>1. k \in 1..(1 + Len(j)) /\ Len(j) \in Nat
        BY <3>1, <3>2
      <4>2. CASE k <= 1
        BY <4>1, <4>2, <3>2, <3>3
      <4>3. CASE ~(k <= 1)
        <5>1. k - 1 \in 1..Len(j) /\ (k - 1) + 1 = k
          BY <4>1, <4>3
        <5> QED
          BY <4>1, <4>3, <5>1, <3>1, <3>3
      <4> QED
        BY <4>2, <4>3
    <3>5. Len(i) = Len(<<id>> \o j)
      BY <3>1, <3>2, <3>3
    <3> QED
      BY <1>1, <3>1, <3>3, <3>4, <3>5, SeqEqual
  <2>2. i \o t = <<id>> \o (j \o t)
    BY <1>1, <2>1, ConcatAssociative
  <2>3. \A a : AtHead(a) => a = id
    BY <1>2 DEF AtHead, i
  <2> QED
    BY <1>1, <1>2, <2>1, <2>2, <2>3 DEF i, t, j, u
<1>3. ASSUME i = <<>>, t # <<>>, id = Head(t), NEW n \in 1..Len(t),
             j = SubSeq(t, 2, n), u = SubSeq(t, n + 1, Len(t))
      PROVE  /\ inquire' \in Seq(Nat) /\ tty' \in Seq(Nat)
             /\ inquire \o tty = <<id>> \o (inquire' \o tty')
             /\ \A a : AtHead(a) => a = id
  <2> HIDE DEF i, t, j, u
  <2>1. Len(t) \in Nat \ {0} /\ t[1] = id /\ \A k \in 1..Len(t) : t[k] \in Nat
    BY <1>1, <1>3, EmptySeq, ElementOfSeq
  <2>2. j \in Seq(Nat)
    <3>1. \A k \in 2..n : t[k] \in Nat
      BY <2>1
    <3> QED
      BY <1>3, <3>1, SubSeqProperties
  <2>3. u \in Seq(Nat)
    <3>1. \A k \in (n + 1)..Len(t) : t[k] \in Nat
      BY <2>1
    <3> QED
      BY <1>3, <2>1, <3>1, SubSeqProperties
  <2>4. j \o u = SubSeq(t, 2, Len(t))
    <3>1. 2 \in 1..(Len(t) + 1) /\ n \in (2 - 1)..Len(t) /\ Len(t) \in n..Len(t)
      BY <2>1
    <3> QED
      BY <1>1, <1>3, <3>1, ConcatAdjacentSubSeq
  <2>5. t = <<id>> \o (j \o u)
    <3>1. 1 \in 1..Len(t) /\ Len(t) \in 1..Len(t) /\ 1 + 1 = 2
      BY <2>1
    <3>2. SubSeq(t, 1, Len(t)) = <<t[1]>> \o SubSeq(t, 1 + 1, Len(t))
      BY <1>1, <3>1, SubSeqRecursiveFirst
    <3>3. SubSeq(t, 1, Len(t)) = t
      BY <1>1, SubSeqFull
    <3> QED
      BY <2>1, <2>4, <3>1, <3>2, <3>3
  <2>6. i \o t = t
    BY <1>1, <1>3, ConcatEmptySeq
  <2>7. \A a : AtHead(a) => a = id
    BY <1>3 DEF AtHead, t
  <2> QED
    BY <2>2, <2>3, <2>5, <2>6, <2>7 DEF i, t, j, u
<1> QED
  BY <1>2, <1>3 DEF NextLine

(* At the start nothing was entered. *)
LEMMA LinesInit == Init => LinesInv
<1> SUFFICES ASSUME Init PROVE LinesInv
  OBVIOUS
<1>1. /\ paste = <<>> /\ done = <<>> /\ heard = <<>> /\ at = "launch"
      /\ tty = <<>> /\ inquire = <<>>
  BY DEF Init
<1>2. Chosen \o (inquire \o tty) = <<>>
  BY <1>1, IdsOfBuffer, ConcatEmptySeq DEF Chosen
<1>3. Len(<<>>) = 0 /\ 1..0 = {}
  OBVIOUS
<1>4. Queue(<<>>, 0)
  BY <1>3 DEF Queue
<1> QED
  BY <1>1, <1>2, <1>3, <1>4 DEF LinesInv, PivotWaits, Answering

(* What Kept is made of. *)
LEMMA KeptParts ==
    ASSUME LinesInv
    PROVE  /\ Ids(paste) \in Seq(Nat) /\ Chosen \in Seq(Nat) /\ Len(heard) \in Nat
           /\ inquire \o tty \in Seq(Nat)
           /\ Kept = Chosen \o (inquire \o tty)
           /\ Kept = (Chosen \o inquire) \o tty
           /\ Chosen \o inquire \in Seq(Nat) /\ Kept \in Seq(Nat)
<1> DEFINE d == done
           p == Ids(paste)
           i == inquire
           t == tty
<1>1. /\ d \in Seq(Nat) /\ i \in Seq(Nat) /\ t \in Seq(Nat) /\ Len(heard) \in Nat
  BY DEF LinesInv
<1>2. p \in Seq(Nat)
  <2>1. \A l \in PasteLine : l.id \in Nat
    BY DEF PasteLine
  <2>2. \A k \in 1..Len(paste) : paste[k].id \in Nat
    BY <2>1, ElementOfSeq DEF LinesInv
  <2>3. paste \in Seq(PasteLine)
    BY DEF LinesInv
  <2> QED
    BY <2>2, <2>3, SMTT(30) DEF Ids
<1> HIDE DEF d, p, i, t
<1>3. d \o p \in Seq(Nat) /\ i \o t \in Seq(Nat)
  BY <1>1, <1>2, NatConcat
<1>4. (d \o p) \o i \in Seq(Nat) /\ ((d \o p) \o i) \o t = (d \o p) \o (i \o t)
  <2>1. (d \o p) \o i \in Seq(Nat)
    BY <1>1, <1>3, NatConcat
  <2>2. ((d \o p) \o i) \o t = (d \o p) \o (i \o t)
    BY <1>1, <1>3, NatAssoc, Zenon
  <2> QED
    BY <2>1, <2>2
<1>5. ((d \o p) \o i) \o t \in Seq(Nat)
  BY <1>1, <1>4, NatConcat
<1> QED
  BY <1>1, <1>2, <1>3, <1>4, <1>5 DEF Kept, Chosen, d, p, i, t

(* A line is put behind those of the buffer, or taken with them. *)
LEMMA LinesStep == LinesInv /\ [Next]_vars => LinesInv'
<1> SUFFICES ASSUME LinesInv, [Next]_vars PROVE LinesInv'
  OBVIOUS
<1> USE DEF Answering
<1>keep. ASSUME UNCHANGED lines, at' \in Answering => at \in Answering,
                at' = "reading" => at = "reading", \A id : AtHead(id) => Prompting'
         PROVE  LinesInv'
  BY <1>keep DEF LinesInv, lines, input, PivotWaits, Chosen, AtHead, Ids, Queue
<1>types. /\ paste \in Seq(PasteLine) /\ done \in Seq(Nat) /\ inquire \in Seq(Nat) /\ tty \in Seq(Nat)
          /\ Ids(paste) \in Seq(Nat) /\ Chosen \in Seq(Nat) /\ Len(heard) \in Nat
          /\ Chosen \o inquire \in Seq(Nat)
          /\ Queue(Chosen \o (inquire \o tty), Len(heard))
          /\ Queue((Chosen \o inquire) \o tty, Len(heard))
  BY KeptParts DEF LinesInv
(* Lines are thrown away while none is awaited. *)
<1>drop. ASSUME ~Prompting, UNCHANGED <<paste, inquire, heard, done>>, tty' \in Seq(Nat),
                NEW x \in Seq(Nat), tty = x \o tty', at' \in Answering => at \in Answering,
                at' = "reading" => ~PivotWaits
         PROVE  LinesInv'
  <2> DEFINE c == Chosen \o inquire
             u == tty'
  <2>1. c \in Seq(Nat) /\ u \in Seq(Nat) /\ Queue(c \o (x \o u), Len(heard))
    BY <1>types, <1>drop
  <2> HIDE DEF c, u
  <2>2. Queue(c \o u, Len(heard))
    BY <1>types, <2>1, QueueWithout
  <2>3. c \o u = Chosen \o (inquire \o u)
    <3>1. Chosen \in Seq(Nat) /\ inquire \in Seq(Nat) /\ u \in Seq(Nat)
      BY <1>types, <2>1
    <3>2. (Chosen \o inquire) \o u = Chosen \o (inquire \o u)
      BY <3>1, NatAssoc, Zenon
    <3> QED
      BY <3>2 DEF c
  <2>4. Chosen' = Chosen
    BY <1>drop DEF Chosen, Ids
  <2>5. (Chosen \o (inquire \o tty))' = Chosen \o (inquire \o u)
    BY <1>drop, <2>4 DEF u
  <2> QED
    BY <1>drop, <2>2, <2>3, <2>4, <2>5 DEF LinesInv, AtHead, PivotWaits
(* A line is read and taken or put into the buffer. *)
<1>read. ASSUME NEW id \in 1..Len(heard), NextLine(id), heard' = heard,
                paste' \in Seq(PasteLine), done' \in Seq(Nat), Chosen' = Chosen \o <<id>>,
                at' \in Answering => paste' = <<>>,
                PivotWaits' => Len(paste') = 1 /\ at' # "reading"
         PROVE  LinesInv'
  <2>1. id \in Nat
    BY <1>types
  <2>2. /\ inquire' \in Seq(Nat) /\ tty' \in Seq(Nat)
        /\ inquire \o tty = <<id>> \o (inquire' \o tty')
        /\ \A a : AtHead(a) => a = id
    BY <1>read, <1>types, <2>1, NextLineTakes
  <2> DEFINE c == Chosen
             a == inquire' \o tty'
             one == <<id>>
  <2>3. c \in Seq(Nat) /\ a \in Seq(Nat) /\ one \in Seq(Nat)
    BY <1>types, <2>1, <2>2, ConcatProperties
  <2>4. Chosen' = c \o one /\ inquire \o tty = one \o a
    BY <1>read, <2>2
  <2> HIDE DEF c, a, one
  <2>5. (c \o one) \o a = c \o (one \o a)
    BY <2>3, NatAssoc, Zenon
  <2>6. Queue(c \o (one \o a), Len(heard))
    BY <1>types, <2>4 DEF c
  <2>7. (Chosen \o (inquire \o tty))' = (c \o one) \o a
    BY <2>4 DEF a
  <2>8. /\ Len(c \o one) = Len(c) + 1
        /\ \A k \in 1..(Len(c) + 1) : (c \o one)[k] = IF k <= Len(c) THEN c[k] ELSE one[k - Len(c)]
    BY <2>3, ConcatProperties DEF one
  <2>9. ASSUME NEW b \in 1..Len(heard), heard[b] = "awaited"
        PROVE  \E k \in 1..Len(c \o one) : (c \o one)[k] = b
    <3>1. CASE AtHead(b)
      <4>1. b = id
        BY <2>2, <3>1
      <4>2. Len(c) + 1 \in 1..(Len(c) + 1) /\ ~(Len(c) + 1 <= Len(c)) /\ (Len(c) + 1) - Len(c) = 1
        BY <2>3
      <4>3. (c \o one)[Len(c) + 1] = one[1]
        BY <2>8, <4>2
      <4> QED
        BY <2>8, <4>1, <4>2, <4>3 DEF one
    <3>2. CASE \E k \in 1..Len(c) : c[k] = b
      <4>1. PICK k \in 1..Len(c) : c[k] = b
        BY <3>2
      <4>2. k \in 1..(Len(c) + 1) /\ k <= Len(c)
        BY <2>3
      <4> QED
        BY <2>8, <4>1, <4>2
    <3> QED
      BY <2>9, <3>1, <3>2 DEF LinesInv, c
  <2> QED
    BY <1>read, <1>types, <2>2, <2>4, <2>5, <2>6, <2>7, <2>9 DEF LinesInv
<1>buffer. ASSUME NEW kind \in Commands \cup {"pivot"}, NEW id \in 1..Len(heard), NextLine(id),
                  heard' = heard, UNCHANGED done, paste' = Append(paste, Line(kind, id)),
                  at' = "prompt", PivotWaits' => Len(paste') = 1
           PROVE  LinesInv'
  <2>1. Line(kind, id) \in PasteLine /\ Line(kind, id).id = id
    BY <1>types, <1>buffer DEF Line, PasteLine
  <2>2. paste' \in Seq(PasteLine) /\ Ids(paste') = Ids(paste) \o <<id>>
    BY <1>types, <1>buffer, <2>1, IdsOfBuffer
  <2> DEFINE d == done
             p == Ids(paste)
             one == <<id>>
  <2>3. d \in Seq(Nat) /\ p \in Seq(Nat) /\ one \in Seq(Nat)
    BY <1>types
  <2>4. Chosen' = d \o (p \o one) /\ Chosen = d \o p
    BY <1>buffer, <2>2 DEF Chosen, Ids
  <2> HIDE DEF d, p, one
  <2>5. d \o (p \o one) = (d \o p) \o one
    BY <2>3, NatAssoc, Zenon
  <2>6. Chosen' = Chosen \o <<id>>
    BY <2>4, <2>5 DEF one
  <2> QED
    BY <1>types, <1>buffer, <2>2, <2>6, <1>read
<1>taken. ASSUME NEW id \in 1..Len(heard), NextLine(id), heard' = heard,
                 done' = done \o Ids(paste) \o <<id>>, paste' = <<>>
          PROVE  LinesInv'
  <2>1. Chosen' = done' \o <<>>
    BY <1>taken, IdsOfBuffer DEF Chosen, Ids
  <2>2. Chosen \o <<id>> \in Seq(Nat) /\ done' = Chosen \o <<id>>
    <3>1. <<id>> \in Seq(Nat)
      BY <1>types
    <3> QED
      BY <1>types, <1>taken, <3>1, ConcatProperties DEF Chosen
  <2>3. Chosen' = Chosen \o <<id>>
    BY <2>1, <2>2, ConcatEmptySeq
  <2>4. paste' \in Seq(PasteLine) /\ ~PivotWaits'
    BY <1>taken DEF PivotWaits
  <2> QED
    BY <1>types, <1>taken, <2>2, <2>3, <2>4, <1>read
<1>1. CASE TakePivot
  <2>1. /\ Len(paste) = 1 /\ paste \in Seq(PasteLine)
    BY <1>1 DEF TakePivot, LinesInv
  <2>2. /\ Tail(paste) = <<>> /\ Head(paste) = paste[1]
    <3>1. Tail(paste) \in Seq(PasteLine) /\ Len(Tail(paste)) = 0 /\ Head(paste) = paste[1]
      BY <2>1, HeadTailProperties
    <3> QED
      BY <3>1, EmptySeq
  <2>3. Ids(paste) = <<Head(paste).id>>
    <3>1. DOMAIN paste = 1..1
      BY <2>1
    <3>2. Ids(paste) = [i \in 1..1 |-> paste[i].id]
      BY <3>1 DEF Ids
    <3>3. \A i \in 1..1 : paste[i].id = Head(paste).id
      BY <2>2
    <3> QED
      BY <3>2, <3>3
  <2>4. done \o Ids(Tail(paste)) \o <<Head(paste).id>> = Chosen
    BY <1>types, <2>2, <2>3, IdsOfBuffer, ConcatEmptySeq DEF Chosen
  <2>5. done' = Chosen /\ paste' = <<>> /\ UNCHANGED <<heard, inquire, tty>>
    BY <1>1, <2>4 DEF TakePivot, Take, input
  <2>6. Chosen' = Chosen
    <3>1. Chosen' = done' \o <<>>
      BY <2>5, IdsOfBuffer DEF Chosen, Ids
    <3> QED
      BY <1>types, <2>5, <3>1, ConcatEmptySeq
  <2>7. ~Prompting /\ paste' \in Seq(PasteLine) /\ ~PivotWaits'
    BY <1>1, <2>5 DEF TakePivot, Prompting, PivotWaits
  <2>8. (Chosen \o (inquire \o tty))' = Chosen \o (inquire \o tty)
    BY <2>5, <2>6
  <2> QED
    BY <1>types, <2>5, <2>6, <2>7, <2>8 DEF LinesInv, AtHead
<1>2. ASSUME NEW kind \in Commands, NEW fast \in BOOLEAN, EnterLine(kind, fast) PROVE LinesInv'
  <2>1. at = "reading" /\ heard' = heard
    BY <1>2 DEF EnterLine
  <2>2. PICK id \in 1..Len(heard) :
            /\ NextLine(id)
            /\ IF fast THEN /\ paste' = Append(paste, Line(kind, id))
                            /\ at' = "prompt" /\ UNCHANGED done
               ELSE Take(paste, Line(kind, id))
    BY <1>2 DEF EnterLine
  <2>3. CASE fast
    <3>1. /\ paste' = Append(paste, Line(kind, id)) /\ UNCHANGED done /\ at' = "prompt"
      BY <2>2, <2>3
    <3>2. CASE PivotWaits'
      <4>1. Line(kind, id) \in PasteLine /\ Line(kind, id).kind # "pivot"
        BY <1>types DEF Line, PasteLine, Commands
      <4>2. Head(paste') = IF paste = <<>> THEN Line(kind, id) ELSE Head(paste)
        BY <1>types, <3>1, <4>1, HeadTailAppend
      <4>3. PivotWaits
        BY <3>2, <4>1, <4>2 DEF PivotWaits
      <4> QED
        BY <2>1, <4>3 DEF LinesInv
    <3> QED
      BY <2>1, <2>2, <3>1, <3>2, <1>buffer
  <2>4. CASE ~fast
    <3>1. done' = done \o Ids(paste) \o <<id>> /\ paste' = <<>>
      BY <2>2, <2>4 DEF Take, Line
    <3> QED
      BY <2>1, <2>2, <3>1, <1>taken
  <2> QED
    BY <2>3, <2>4
<1>3. CASE Instruct
  <2>1. /\ paste = <<>> /\ heard' = heard /\ UNCHANGED done /\ at' = "prompt"
    BY <1>3 DEF Instruct, LinesInv
  <2>2. PICK id \in 1..Len(heard) : NextLine(id) /\ paste' = Append(paste, Line("pivot", id))
    BY <1>3 DEF Instruct
  <2>3. Len(paste') = 1
    BY <2>1, <2>2
  <2> QED
    BY <2>1, <2>2, <2>3, <1>buffer
<1>4. CASE Restart
  <2>1. /\ paste' = <<>> /\ done' = <<>> /\ heard' = <<>> /\ tty' = <<>> /\ inquire' = <<>>
        /\ at' = "launch"
    BY <1>4 DEF Restart, NewProcess
  <2>2. (Chosen \o (inquire \o tty))' = <<>>
    BY <2>1, IdsOfBuffer, ConcatEmptySeq DEF Chosen, Ids
  <2>3. Len(<<>>) = 0 /\ 1..0 = {}
    OBVIOUS
  <2>4. Queue(<<>>, 0)
    BY <2>3 DEF Queue
  <2> QED
    BY <2>1, <2>2, <2>3, <2>4 DEF LinesInv, PivotWaits
<1>5. CASE LaunchMenu \/ StartChat \/ MenuChat \/ MenuQuit \/ LaunchPullFails \/ RunDenied \/ RunReady
  BY <1>5, <1>keep DEF LaunchMenu, StartChat, MenuChat, OpenDashboard, MenuQuit, LaunchPullFails,
                       RunDenied, RunReady, AtHead, Prompting
<1>6. ASSUME NEW m \in Models, LaunchRun(m) \/ LaunchPull(m) \/ MenuPull(m) PROVE LinesInv'
  BY <1>6, <1>keep DEF LaunchRun, LaunchPull, MenuPull, Pull, AtHead, Prompting
<1>7. ASSUME NEW m \in Models, LoadEntry(m) \/ Download(m) \/ Delete(m) \/ Switch(m) PROVE LinesInv'
  BY <1>7, <1>keep DEF LoadEntry, Download, Delete, Switch, AtHead, Prompting
<1>8. CASE Boot \/ CloseModels \/ Others
  BY <1>8, <1>keep DEF Boot, CloseModels, Others, AtHead, Prompting
<1>9. CASE BeginMessage \/ Respond \/ CtrlC \/ EngineFails \/ EndMessage
  <2>1. at \in Answering /\ ~Prompting /\ UNCHANGED lines /\ at' # "reading"
    BY <1>9 DEF BeginMessage, Respond, CtrlC, EngineFails, Generating, EndMessage, Prompting
  <2> QED
    BY <2>1, <1>keep DEF AtHead
<1>10. ASSUME NEW piece \in Pieces, Generate(piece) PROVE LinesInv'
  <2>1. /\ at = "stream" /\ ~Prompting /\ KeysForgotten /\ at' # "reading"
        /\ UNCHANGED <<paste, inquire, heard, done>>
    BY <1>10 DEF Generate, Generating, Prompting
  <2>2. CASE tty' = tty
    <3>1. tty = <<>> \o tty' /\ <<>> \in Seq(Nat)
      BY <1>types, <2>2, ConcatEmptySeq
    <3> QED
      BY <1>types, <2>1, <2>2, <3>1, <1>drop
  <2>3. CASE tty # <<>> /\ tty' = Tail(tty)
    <3> DEFINE t == tty
    <3>1. t \in Seq(Nat) /\ t # <<>> /\ tty' = Tail(t)
      BY <1>types, <2>3
    <3> HIDE DEF t
    <3>2. Tail(t) \in Seq(Nat) /\ Len(t) \in Nat \ {0} /\ Tail(t) = SubSeq(t, 2, Len(t)) /\ t[1] \in Nat
      BY <3>1, HeadTailProperties, TailIsSubSeq, EmptySeq
    <3>3. SubSeq(t, 1, Len(t)) = <<t[1]>> \o SubSeq(t, 1 + 1, Len(t))
      <4>1. 1 \in 1..Len(t) /\ Len(t) \in 1..Len(t)
        BY <3>2
      <4> QED
        BY <3>1, <4>1, SubSeqRecursiveFirst
    <3>4. SubSeq(t, 1, Len(t)) = t /\ 1 + 1 = 2 /\ <<t[1]>> \in Seq(Nat)
      BY <3>1, <3>2, SubSeqFull
    <3>5. tty = <<t[1]>> \o tty'
      BY <3>1, <3>2, <3>3, <3>4 DEF t
    <3> QED
      BY <2>1, <3>1, <3>2, <3>4, <3>5, <1>drop
  <2> QED
    BY <2>1, <2>2, <2>3 DEF KeysForgotten
<1>11. CASE EndPhase
  <2>1. at \in Answering /\ ~Prompting /\ UNCHANGED lines /\ at' # "reading"
    BY <1>11 DEF EndPhase, Prompting
  <2> QED
    BY <2>1, <1>keep DEF AtHead
<1>12. CASE UNCHANGED vars
  BY <1>12, <1>keep DEF vars, lines, input, AtHead, Prompting
<1>13. CASE Flush
  <2>1. /\ ~Prompting /\ ~PivotWaits /\ tty' = <<>> /\ at' = "reading"
        /\ UNCHANGED <<paste, inquire, heard, done>>
    BY <1>13 DEF Flush, Prompting
  <2>2. tty = tty \o <<>> /\ <<>> \in Seq(Nat)
    BY <1>types, ConcatEmptySeq
  <2> QED
    BY <1>types, <2>1, <2>2, <1>drop
<1>14. CASE MenuKeys
  <2>1. /\ at \in {"models", "switch"} /\ UNCHANGED <<at, paste, heard, done>>
    BY <1>14 DEF MenuKeys
  <2>2. PICK id \in 1..Len(heard) : NextLine(id)
    BY <1>14 DEF MenuKeys
  <2>3. id \in Nat
    BY <1>types
  <2>4. /\ inquire' \in Seq(Nat) /\ tty' \in Seq(Nat)
        /\ inquire \o tty = <<id>> \o (inquire' \o tty')
    BY <1>types, <2>2, <2>3, NextLineTakes
  <2> DEFINE c == Chosen
             a == inquire' \o tty'
             one == <<id>>
  <2>5. /\ c \in Seq(Nat) /\ a \in Seq(Nat) /\ one \in Seq(Nat)
        /\ Queue(c \o (one \o a), Len(heard))
    BY <1>types, <2>3, <2>4, ConcatProperties
  <2> HIDE DEF c, a, one
  <2>6. Queue(c \o a, Len(heard))
    BY <1>types, <2>5, QueueWithout
  <2>7. Chosen' = Chosen
    BY <2>1 DEF Chosen, Ids
  <2>8. (Chosen \o (inquire \o tty))' = c \o a
    BY <2>7 DEF c, a
  <2> QED
    BY <2>1, <2>4, <2>6, <2>7, <2>8 DEF LinesInv, AtHead, Prompting, PivotWaits
<1>15. CASE TypeLine
  <2> DEFINE n == Len(heard)
             i == inquire
             t == tty
             c == Chosen
             kind == CASE Waiting -> "awaited"
                       [] Prompting /\ ~Waiting -> "behind"
                       [] OTHER -> "ahead"
  <2>1. /\ UNCHANGED <<at, paste, inquire, done>> /\ heard' = Append(heard, kind)
        /\ tty' = Append(tty, Len(heard'))
    BY <1>15 DEF TypeLine
  <2>2. kind \in {"awaited", "behind", "ahead"}
    BY DEF Waiting
  <2>3. kind = "awaited" => Prompting /\ i = <<>> /\ t = <<>>
    BY DEF Waiting
  <2> HIDE DEF n, i, t, c, kind
  <2>4. heard \in Seq({"awaited", "behind", "ahead"})
    BY DEF LinesInv
  <2>5. /\ heard' \in Seq({"awaited", "behind", "ahead"}) /\ Len(heard') = n + 1
        /\ \A b \in 1..n : heard'[b] = heard[b]
        /\ heard'[n + 1] = kind
    BY <2>1, <2>2, <2>4, AppendProperties DEF n
  <2>6. n \in Nat /\ i \in Seq(Nat) /\ t \in Seq(Nat) /\ c \in Seq(Nat) /\ c \o i \in Seq(Nat)
    BY <1>types DEF n, i, t, c
  <2>7. tty' = Append(t, n + 1) /\ n + 1 \in Nat
    BY <2>1, <2>5, <2>6 DEF t
  <2>8. Queue(c \o (i \o t), n) /\ i \o t \in Seq(Nat) /\ c \o (i \o t) \in Seq(Nat)
    BY <1>types, <2>6, ConcatProperties DEF n, i, t, c
  <2>9. c \o (i \o Append(t, n + 1)) = Append(c \o (i \o t), n + 1)
    <3> DEFINE one == <<n + 1>>
    <3>1. one \in Seq(Nat) /\ t \o one \in Seq(Nat)
      BY <2>6, <2>7, ConcatProperties
    <3>2. Append(t, n + 1) = t \o one /\ Append(c \o (i \o t), n + 1) = (c \o (i \o t)) \o one
      BY <2>6, <2>7, <2>8, AppendIsConcat
    <3> HIDE DEF one
    <3>3. i \o (t \o one) = (i \o t) \o one
      BY <2>6, <3>1, NatAssoc, Zenon
    <3>4. c \o ((i \o t) \o one) = (c \o (i \o t)) \o one
      BY <2>6, <2>8, <3>1, NatAssoc, Zenon
    <3> QED
      BY <3>2, <3>3, <3>4
  <2>10. Queue(Append(c \o (i \o t), n + 1), n + 1)
    BY <2>6, <2>8, QueueMore
  <2>11. Chosen' = c
    BY <2>1 DEF Chosen, Ids, c
  <2>12. (Chosen \o (inquire \o tty))' = Append(c \o (i \o t), n + 1)
    BY <2>1, <2>7, <2>9, <2>11 DEF i
  <2>13. ASSUME NEW b \in 1..Len(heard'), heard'[b] = "awaited"
         PROVE  AtHead(b)' \/ \E k \in 1..Len(Chosen') : Chosen'[k] = b
    <3>1. CASE b = n + 1
      <4>1. Prompting /\ i = <<>> /\ t = <<>>
        BY <2>3, <2>5, <2>13, <3>1
      <4>2. Prompting' /\ inquire' = <<>> /\ tty' = <<n + 1>>
        BY <2>1, <2>7, <4>1 DEF Prompting, i
      <4> QED
        BY <3>1, <4>2 DEF AtHead
    <3>2. CASE b # n + 1
      <4>1. b \in 1..n
        BY <2>5, <2>6, <3>2
      <4>2. heard[b] = "awaited"
        BY <2>5, <2>13, <4>1
      <4>3. CASE AtHead(b)
        <5>1. Prompting' /\ inquire' = <<>>
          BY <2>1, <4>3 DEF AtHead, Prompting
        <5>2. t # <<>> /\ Head(t) = b
          BY <4>3 DEF AtHead, t
        <5>3. Head(tty') = b /\ tty' # <<>>
          BY <2>6, <2>7, <5>2, HeadTailAppend, AppendProperties
        <5> QED
          BY <5>1, <5>3 DEF AtHead
      <4>4. CASE \E k \in 1..Len(Chosen) : Chosen[k] = b
        BY <2>11, <4>4 DEF c
      <4> QED
        BY <4>1, <4>2, <4>3, <4>4 DEF LinesInv, n
    <3> QED
      BY <3>1, <3>2
  <2>14. tty' \in Seq(Nat)
    BY <2>6, <2>7, AppendProperties
  <2> QED
    BY <2>1, <2>5, <2>10, <2>11, <2>12, <2>13, <2>14 DEF LinesInv, PivotWaits
<1>16. CASE EnterNothing \/ Leave \/ Return
  <2>1. /\ tty = <<>> /\ UNCHANGED lines /\ at' \notin Answering \cup {"reading"}
    BY <1>16 DEF EnterNothing, Leave, Return, Waiting
  <2> QED
    BY <2>1, <1>keep DEF AtHead
<1> QED
  BY <1>1, <1>2, <1>3, <1>4, <1>5, <1>6, <1>7, <1>8, <1>9, <1>10, <1>11, <1>12, <1>13, <1>14, <1>15, <1>16
     DEF Next, System, User

(***************************************************************************)
(* A line that a prompt waited for comes into the messages, and no line    *)
(* comes twice or before an earlier one, whatever the user types while no  *)
(* prompt waits (the input loop of the dashboard).                         *)
(***************************************************************************)
THEOREM AwaitedLinesAreKept == Spec => []AwaitedLinesCount
<1>1. LinesInv => AwaitedLinesCount
  <2> SUFFICES ASSUME LinesInv PROVE AwaitedLinesCount
    OBVIOUS
  <2> DEFINE c == Chosen
             a == inquire \o tty
             k == Kept
  <2>1. /\ c \in Seq(Nat) /\ a \in Seq(Nat) /\ k = c \o a /\ k \in Seq(Nat)
        /\ Queue(k, Len(heard)) /\ DOMAIN k = 1..Len(k) /\ DOMAIN heard = 1..Len(heard)
    <3>1. c \in Seq(Nat) /\ a \in Seq(Nat) /\ k = c \o a /\ k \in Seq(Nat)
      BY KeptParts
    <3>2. Queue(c \o a, Len(heard)) /\ DOMAIN heard = 1..Len(heard)
      BY DEF LinesInv
    <3> HIDE DEF k, c, a
    <3> QED
      BY <3>1, <3>2
  <2>2. ASSUME NEW id \in 1..Len(heard), heard[id] = "awaited" PROVE \E i \in 1..Len(k) : k[i] = id
    <3>1. AtHead(id) => a # <<>> /\ a[1] = id
      <4> SUFFICES ASSUME AtHead(id) PROVE a # <<>> /\ a[1] = id
        OBVIOUS
      <4>1. a = tty /\ tty \in Seq(Nat) /\ tty # <<>> /\ Head(tty) = id
        BY ConcatEmptySeq DEF AtHead, LinesInv
      <4> QED
        BY <4>1
    <3>2. AtHead(id) \/ \E i \in 1..Len(c) : c[i] = id
      BY <2>2 DEF LinesInv
    <3> HIDE DEF c, a, k
    <3>3. /\ Len(k) = Len(c) + Len(a)
          /\ \A i \in 1..(Len(c) + Len(a)) : k[i] = IF i <= Len(c) THEN c[i] ELSE a[i - Len(c)]
      BY <2>1, ConcatProperties
    <3>4. CASE a # <<>> /\ a[1] = id
      <4>1. /\ Len(c) + 1 \in 1..(Len(c) + Len(a)) /\ ~(Len(c) + 1 <= Len(c))
            /\ (Len(c) + 1) - Len(c) = 1
        BY <2>1, <3>4, EmptySeq
      <4> QED
        BY <3>3, <3>4, <4>1
    <3>5. CASE \E i \in 1..Len(c) : c[i] = id
      <4>1. PICK i \in 1..Len(c) : c[i] = id
        BY <3>5
      <4>2. i \in 1..(Len(c) + Len(a)) /\ i <= Len(c)
        BY <2>1
      <4> QED
        BY <3>3, <4>1, <4>2
    <3> QED
      BY <3>1, <3>2, <3>4, <3>5
  <2> HIDE DEF k
  <2> QED
    BY <2>1, <2>2 DEF AwaitedLinesCount, Queue, k
<1> QED
  BY LinesInit, LinesStep, <1>1, PTL DEF Spec

-----------------------------------------------------------------------------
(***************************************************************************)
(* The answer.  Until a trigger is taken, what was generated is what was   *)
(* passed on and what is held, no end of a trigger is held, and none of    *)
(* "<TRIGGER:" but its '<' is held outside a capture; that is what makes   *)
(* the next piece end a captured trigger only where it begins.  The        *)
(* trigger that is looked for first cannot begin in what was passed on,    *)
(* whatever comes; in the final answer what is kept ends as what was       *)
(* passed on does.                                                         *)
(***************************************************************************)
StreamInv ==
    /\ IsStream(stream, Symbols)
    /\ stream.runs \in {0, 1}
    /\ stream.phase \in {"first", "final", "done"}
    /\ stream.phase = "first" => stream.runs = 0 /\ Good(stream, Symbols) /\ Hides(stream)
    /\ stream.phase # "first" => stream.tool = "none"
    /\ stream.phase = "final" => Spotless(stream)
    /\ at = "stream" => ~stream.crashed /\ stream.phase # "done"

(* A piece is a text that was cut well. *)
LEMMA PieceIsCut == \A p \in Pieces : p \in Seq(Symbols) /\ Cut(p)
BY TextAssumption DEF Cut

(* A prompt's stream is good at its start. *)
LEMMA FreshStream ==
    ASSUME NEW dyn \in Grammars \cup {<<>>}, stream' = Start(dyn)
    PROVE  StreamInv'
<1>1. <<>> \in Seq(Seq(Quiet(Symbols)))
  OBVIOUS
<1>2. dyn \in Seq(Seq(Quiet(Symbols)))
  BY <1>1, TextAssumption DEF Quiet
<1>3. /\ Good(Start(dyn), Symbols) /\ Start(dyn).phase = "first" /\ Start(dyn).runs = 0
      /\ ~Start(dyn).crashed /\ Hides(Start(dyn))
  BY <1>2, StartGood, StartHides
<1> DEFINE s == Start(dyn)
<1> HIDE DEF s
<1>4. /\ Good(s, Symbols) /\ s.phase = "first" /\ s.runs = 0 /\ ~s.crashed /\ Hides(s) /\ stream' = s
  BY <1>3 DEF s
<1> QED
  BY <1>4 DEF StreamInv, Good

(* At the start there is no answer. *)
LEMMA StreamInit == Init => StreamInv
<1> SUFFICES ASSUME Init PROVE StreamInv
  OBVIOUS
<1>1. <<>> \in Seq(Seq(Quiet(Symbols)))
  OBVIOUS
<1>2. /\ Good(Start(<<>>), Symbols) /\ Start(<<>>).phase = "first" /\ Start(<<>>).runs = 0
      /\ ~Start(<<>>).crashed /\ Hides(Start(<<>>))
  BY <1>1, StartGood, StartHides
<1>3. stream = Start(<<>>)
  BY DEF Init, NoStream
<1> DEFINE s == Start(<<>>)
<1> HIDE DEF s
<1>4. /\ Good(s, Symbols) /\ s.phase = "first" /\ s.runs = 0 /\ ~s.crashed /\ Hides(s) /\ stream = s
  BY <1>2, <1>3 DEF s
<1> QED
  BY <1>4 DEF StreamInv, Good

(* The engine generates a piece. *)
LEMMA GenerateStep ==
    ASSUME StreamInv, NEW piece \in Pieces, Generate(piece)
    PROVE  StreamInv'
<1> DEFINE s == stream
           r == Feed(stream, piece, cancel)
<1>0. CASE SlicePanics(s, piece) /\ stream' = [s EXCEPT !.crashed = TRUE]
  <2>1. /\ s.phase = "final" /\ IsStream(s, Symbols) /\ s.runs \in {0, 1} /\ s.tool = "none"
        /\ Spotless(s) /\ at' = IF stream'.crashed THEN "crashed" ELSE at
    BY <1>0 DEF Generate, SlicePanics, StreamInv
  <2> DEFINE t == [s EXCEPT !.crashed = TRUE]
  <2>2. /\ IsStream(t, Symbols) /\ t.runs = s.runs /\ t.phase = "final" /\ t.tool = "none" /\ t.crashed
        /\ t.gen = s.gen /\ t.passed = s.passed /\ t.acc = s.acc /\ t.go = s.go
    BY <2>1 DEF IsStream, Fields
  <2>3. stream' = t
    BY <1>0
  <2> HIDE DEF t, s
  <2>4. Spotless(t)
    <3>1. Spotless(s) /\ t.passed = s.passed /\ t.acc = s.acc /\ t.go = s.go
      BY <2>1, <2>2 DEF s
    <3> QED
      BY <3>1 DEF Spotless, Follows
  <2> QED
    BY <2>1, <2>2, <2>3, <2>4 DEF StreamInv, s
<1> SUFFICES ASSUME stream' = r PROVE StreamInv'
  BY <1>0 DEF Generate
<1>1. /\ at = "stream" /\ s.phase # "done" /\ s.go /\ stream' = r
      /\ at' = IF r.crashed THEN "crashed" ELSE at
  BY DEF Generate, Generating
<1>2. piece \in Seq(Symbols) /\ Cut(piece)
  BY PieceIsCut
<1>3. CASE s.phase = "first"
  <2>1. r = Intercept(s, piece, cancel)
    BY <1>3 DEF Feed
  <2> HIDE DEF r, s
  <2>2. Good(s, Symbols) /\ s.go /\ s.runs = 0 /\ Hides(s)
    BY <1>1, <1>3 DEF StreamInv, s
  <2>3. Good(r, Symbols) /\ Keeps(r, s) /\ Hides(r)
    BY <1>2, <2>1, <2>2, InterceptGood, InterceptHides
  <2> QED
    BY <1>1, <1>3, <2>2, <2>3 DEF StreamInv, Good, Keeps
<1>4. CASE s.phase # "first"
  <2>1. r = Final(s, piece, cancel)
    BY <1>4 DEF Feed
  <2> HIDE DEF r, s
  <2>2. /\ IsStream(s, Symbols) /\ s.runs \in {0, 1} /\ s.tool = "none" /\ ~s.crashed
        /\ s.phase = "final" /\ s.go /\ Spotless(s)
    BY <1>1, <1>4 DEF StreamInv, s
  <2>3. IsStream(r, Symbols) /\ Keeps(r, s) /\ r.tool = s.tool /\ r.crashed = s.crashed
    BY <1>2, <2>1, <2>2, FinalFrame
  <2>4. Spotless(r)
    BY <1>2, <2>1, <2>2, FinalHides
  <2> QED
    BY <1>1, <1>4, <2>2, <2>3, <2>4 DEF StreamInv, Keeps
<1> QED
  BY <1>3, <1>4

(* The engine ends a phase. *)
LEMMA EndPhaseStep ==
    ASSUME StreamInv, EndPhase
    PROVE  StreamInv'
<1> DEFINE s == IF stream.phase = "first" THEN Fallback(stream, cancel) ELSE stream
<1>1. /\ at = "stream" /\ stream.phase # "done"
      /\ at' = CASE s.crashed -> "crashed"
                 [] ~s.crashed /\ s.tool = "none" -> "answered"
                 [] OTHER -> at
  BY DEF EndPhase
<1>2. PICK planned \in BOOLEAN :
          stream' = IF at' = at THEN RunTool(s, planned, cancel) ELSE [s EXCEPT !.phase = "done"]
  BY DEF EndPhase
<1>3. /\ IsStream(s, Symbols) /\ s.runs \in {0, 1} /\ (s.crashed => s.tool = "none")
      /\ (s.tool # "none" => s.runs = 0)
  <2>1. CASE stream.phase = "first"
    <3> DEFINE t == stream
    <3> HIDE DEF t
    <3>1. Good(t, Symbols) /\ ~t.crashed /\ t.runs = 0
      BY <1>1, <2>1 DEF StreamInv, t
    <3> DEFINE r == Fallback(t, cancel)
    <3>2. IsStream(r, Symbols) /\ Keeps(r, t) /\ (r.crashed => r.tool = "none")
      BY <3>1, FallbackKeeps
    <3> HIDE DEF r
    <3>3. s = r
      BY <2>1 DEF r, t
    <3> QED
      BY <3>1, <3>2, <3>3 DEF Keeps
  <2>2. CASE stream.phase # "first"
    BY <1>1, <2>2 DEF StreamInv
  <2> QED
    BY <2>1, <2>2
<1> HIDE DEF s
<1>4. CASE at' = at
  <2>1. s.runs = 0 /\ ~s.crashed
    BY <1>1, <1>3, <1>4
  <2> DEFINE r == RunTool(s, planned, cancel)
  <2>2. /\ IsStream(r, Symbols) /\ r.phase = "final" /\ r.tool = "none"
        /\ r.runs \in {s.runs, s.runs + 1} /\ r.crashed = s.crashed /\ r.passed = <<>>
    BY <1>3, <2>1, RunToolFrame
  <2> HIDE DEF r
  <2>3. stream' = r
    BY <1>2, <1>4 DEF r
  <2>4. Spotless(r)
    BY <2>2, EmptySpotless
  <2> QED
    BY <2>1, <2>2, <2>3, <2>4 DEF StreamInv
<1>5. CASE at' # at
  <2>1. s.tool = "none" /\ at' # "stream"
    BY <1>1, <1>3, <1>5
  <2>2. stream' = [s EXCEPT !.phase = "done"]
    BY <1>2, <1>5
  <2>3. /\ IsStream(stream', Symbols) /\ stream'.phase = "done" /\ stream'.tool = "none"
        /\ stream'.runs = s.runs
    BY <1>3, <2>1, <2>2 DEF IsStream, Fields
  <2> QED
    BY <1>3, <2>1, <2>3 DEF StreamInv
<1> QED
  BY <1>4, <1>5

(* No step takes from a text or runs a second tool. *)
LEMMA StreamStep == StreamInv /\ [Next]_vars => StreamInv'
<1> SUFFICES ASSUME StreamInv, [Next]_vars PROVE StreamInv'
  OBVIOUS
<1>keep. ASSUME UNCHANGED stream, at' # "stream" \/ at = "stream" PROVE StreamInv'
  BY <1>keep DEF StreamInv
<1>fresh. ASSUME stream' = NoStream PROVE StreamInv'
  BY <1>fresh, FreshStream DEF NoStream
<1>1. CASE LaunchMenu \/ StartChat \/ MenuChat \/ MenuQuit \/ LaunchPullFails \/ RunDenied \/ RunReady
  BY <1>1, <1>keep DEF LaunchMenu, StartChat, MenuChat, OpenDashboard, MenuQuit, LaunchPullFails,
                       RunDenied, RunReady, answering
<1>2. ASSUME NEW m \in Models, LaunchRun(m) \/ LaunchPull(m) \/ MenuPull(m) PROVE StreamInv'
  BY <1>2, <1>keep DEF LaunchRun, LaunchPull, MenuPull, Pull, answering
<1>3. ASSUME NEW m \in Models, LoadEntry(m) \/ Download(m) \/ Delete(m) \/ Switch(m)
      PROVE  StreamInv'
  BY <1>3, <1>keep DEF LoadEntry, Download, Delete, Switch, answering
<1>4. CASE Boot \/ Leave \/ CloseModels \/ Others \/ Instruct \/ Return \/ EnterNothing \/ Flush
           \/ TypeLine \/ MenuKeys
  BY <1>4, <1>keep DEF Boot, Leave, CloseModels, Others, Instruct, Return, EnterNothing, Flush,
                       TypeLine, MenuKeys, answering
<1>5. CASE TakePivot
  BY <1>5, <1>keep DEF TakePivot, Take, Dispatch, answering
<1>6. ASSUME NEW kind \in Commands, NEW fast \in BOOLEAN, EnterLine(kind, fast) PROVE StreamInv'
  BY <1>6, <1>keep DEF EnterLine, Take, Dispatch, answering
<1>7. CASE BeginMessage
  BY <1>7, <1>keep DEF BeginMessage
<1>8. CASE CtrlC
  BY <1>8, <1>keep DEF CtrlC
<1>9. CASE Respond
  <2>1. CASE UNCHANGED stream /\ at' = "answered"
    BY <2>1, <1>keep
  <2>2. CASE \E dyn \in Grammars : stream' = Start(dyn)
    BY <2>2, FreshStream
  <2> QED
    BY <1>9, <2>1, <2>2 DEF Respond
<1>10. ASSUME NEW piece \in Pieces, Generate(piece) PROVE StreamInv'
  BY <1>10, GenerateStep
<1>11. CASE EndPhase
  BY <1>11, EndPhaseStep
<1>12. CASE EngineFails
  <2>1. /\ at' = "answered" /\ stream.go /\ stream' = [stream EXCEPT !.phase = "done"]
    BY <1>12 DEF EngineFails, Generating
  <2>2. stream.tool = "none"
    BY <2>1 DEF StreamInv, Good, Calm
  <2>3. /\ IsStream(stream', Symbols) /\ stream'.phase = "done" /\ stream'.tool = "none"
        /\ stream'.runs = stream.runs
    BY <2>1, <2>2 DEF StreamInv, IsStream, Fields
  <2> QED
    BY <2>1, <2>3 DEF StreamInv
<1>13. CASE EndMessage
  BY <1>13, <1>fresh DEF EndMessage
<1>14. CASE Restart
  BY <1>14, <1>fresh DEF Restart, NewProcess
<1>15. CASE UNCHANGED vars
  BY <1>15, <1>keep DEF vars, answering
<1> QED
  BY <1>1, <1>2, <1>3, <1>4, <1>5, <1>6, <1>7, <1>8, <1>9, <1>10, <1>11, <1>12, <1>13, <1>14, <1>15
     DEF Next, System, User

(***************************************************************************)
(* Nothing of a text is lost, doubled or moved, however the engine cuts it *)
(* and whatever the skills' triggers are (the interceptor of               *)
(* CoreRouter::generate_stream).                                           *)
(***************************************************************************)
THEOREM TextIsWhole == Spec => []NothingLost
<1>1. StreamInv => NothingLost
  BY DEF StreamInv, Good, Balance, Held, NothingLost
<1> QED
  BY StreamInit, StreamStep, <1>1, PTL DEF Spec

(***************************************************************************)
(* A prompt runs one tool at most (the agentic loop of                     *)
(* CoreRouter::generate_stream).                                           *)
(***************************************************************************)
THEOREM OneToolAtMost == Spec => []OneTool
<1>1. StreamInv => OneTool
  BY DEF StreamInv, Good, Taken, OneTool
<1> QED
  BY StreamInit, StreamStep, <1>1, PTL DEF Spec

(***************************************************************************)
(* The trigger that is looked for first is never shown, however many       *)
(* pieces it comes in, nor "<TRIGGER:" in the final answer (the            *)
(* interceptor of CoreRouter::generate_stream, and trig_acc).              *)
(***************************************************************************)
THEOREM TriggerIsHidden == Spec => []TriggerHidden
<1>1. StreamInv => TriggerHidden
  <2> SUFFICES ASSUME StreamInv, at = "stream"
               PROVE  Occurs(IF stream.phase = "final" \/ stream.dyn = <<>> THEN Legacy
                             ELSE Head(stream.dyn), stream.passed) = {}
    BY DEF TriggerHidden
  <2>1. CASE stream.phase = "first"
    <3>1. Occurs(Wanted(stream), stream.passed) = {}
      BY <2>1, HiddenIsAbsent DEF StreamInv
    <3> QED
      BY <2>1, <3>1 DEF Wanted
  <2>2. CASE stream.phase = "final"
    BY <2>2 DEF StreamInv, Spotless
  <2> QED
    BY <2>1, <2>2 DEF StreamInv
<1> QED
  BY StreamInit, StreamStep, <1>1, PTL DEF Spec

-----------------------------------------------------------------------------
(***************************************************************************)
(* The types.  What the engine, the lines and the answer may be is in the  *)
(* invariants above.                                                       *)
(***************************************************************************)
Places == {"launch", "menu", "local", "audit", "boot", "prompt", "reading", "models",
           "switch", "message", "loading", "stream", "answered", "paused", "quit", "crashed"}

PlainTypes ==
    /\ at \in Places /\ lazy \in BOOLEAN /\ cancel \in BOOLEAN /\ steps \in 0..MaxSteps
    /\ roster \in [known : SUBSET Models, cached : SUBSET Models]
    /\ roster.cached \subseteq roster.known /\ disk \subseteq Models

(* No step leaves them. *)
LEMMA PlainTypesStep == PlainTypes /\ EngineInv /\ [Next]_vars => PlainTypes'
<1> SUFFICES ASSUME PlainTypes, EngineInv, [Next]_vars PROVE PlainTypes'
  OBVIOUS
<1> USE SessionAssumption DEF PlainTypes, Places
<1>keep. ASSUME UNCHANGED <<lazy, disk, roster, steps>>, cancel' \in BOOLEAN, at' \in Places
         PROVE  PlainTypes'
  BY <1>keep
<1>count. ASSUME Count PROVE steps' \in 0..MaxSteps
  BY <1>count DEF Count
<1>listed. ASSUME NEW d \in SUBSET Models
           PROVE  LET r == [known |-> Models, cached |-> d]
                  IN  /\ r \in [known : SUBSET Models, cached : SUBSET Models]
                      /\ r.cached \subseteq r.known
  OBVIOUS
<1>1. CASE LaunchMenu \/ StartChat \/ MenuChat \/ MenuQuit \/ LaunchPullFails \/ RunDenied
  BY <1>1, <1>keep DEF LaunchMenu, StartChat, MenuChat, OpenDashboard, MenuQuit, LaunchPullFails,
                       RunDenied, answering, settings
<1>2. CASE RunReady
  <2>1. /\ UNCHANGED <<lazy, roster, steps, cancel>> /\ at' \in {"boot", "quit"}
        /\ active \in Models /\ disk' \in {disk, disk \cup {active}}
    BY <1>2 DEF RunReady, settings, answering, EngineInv
  <2> QED
    BY <2>1
<1>3. ASSUME NEW m \in Models, LaunchRun(m) PROVE PlainTypes'
  BY <1>3, <1>keep DEF LaunchRun, answering
<1>4. ASSUME NEW m \in Models, LaunchPull(m) \/ MenuPull(m) PROVE PlainTypes'
  <2>1. Pull(m)
    BY <1>4 DEF LaunchPull, MenuPull
  <2>2. /\ UNCHANGED <<lazy, steps, cancel>> /\ at' \in {"boot", "quit"}
        /\ roster' = [known |-> {m}, cached |-> {m}] /\ disk' \in {disk, disk \cup {m}}
    BY <2>1 DEF Pull, answering
  <2> QED
    BY <2>2
<1>5. CASE Boot
  <2>1. UNCHANGED <<lazy, disk, steps, cancel>> /\ at' = "prompt"
        /\ roster' \in {roster, [known |-> Models, cached |-> disk]}
    BY <1>5 DEF Boot, settings, answering, Listed
  <2> QED
    BY <2>1, <1>listed
<1>6. CASE TakePivot
  BY <1>6, <1>keep DEF TakePivot, Take, Dispatch, answering, settings
<1>7. ASSUME NEW kind \in Commands, NEW fast \in BOOLEAN, EnterLine(kind, fast) PROVE PlainTypes'
  <2>1. /\ UNCHANGED <<lazy, disk, roster, cancel, steps>> /\ at' \in Places
    BY <1>7 DEF EnterLine, Take, Dispatch, answering, settings
  <2> QED
    BY <2>1
<1>8. CASE Leave \/ CloseModels \/ Return \/ EnterNothing \/ Flush \/ MenuKeys
  BY <1>8, <1>keep DEF Leave, CloseModels, Return, EnterNothing, Flush, MenuKeys, answering, settings
<1>9. ASSUME NEW m \in Models, LoadEntry(m) \/ Download(m) \/ Delete(m) PROVE PlainTypes'
  <2>1. /\ UNCHANGED <<at, lazy, cancel>> /\ steps' \in 0..MaxSteps
        /\ disk' \in SUBSET Models
        /\ roster' \in {[known |-> Models, cached |-> disk], [known |-> Models, cached |-> disk']}
    BY <1>9, <1>count DEF LoadEntry, Activate, Download, Delete, Listed, answering, settings
  <2> QED
    BY <2>1, <1>listed
<1>10. ASSUME NEW m \in Models, Switch(m) PROVE PlainTypes'
  <2>1. /\ UNCHANGED <<lazy, disk, roster, cancel>> /\ steps' \in 0..MaxSteps
        /\ at' \in {"crashed", "prompt"}
    BY <1>10, <1>count DEF Switch, answering
  <2> QED
    BY <2>1
<1>11. CASE BeginMessage \/ CtrlC
  BY <1>11, <1>keep DEF BeginMessage, CtrlC, settings
<1>12. CASE Respond
  <2>1. UNCHANGED <<lazy, disk, roster, steps, cancel>> /\ at' \in {"answered", "stream"}
    BY <1>12 DEF Respond, settings
  <2> QED
    BY <2>1
<1>13. ASSUME NEW piece \in Pieces, Generate(piece) PROVE PlainTypes'
  <2>1. /\ UNCHANGED <<lazy, disk, roster, cancel>> /\ steps' \in 0..MaxSteps
        /\ at' \in {"crashed", at}
    BY <1>13, <1>count DEF Generate, settings
  <2> QED
    BY <2>1
<1>14. CASE EndPhase
  <2>1. UNCHANGED <<lazy, disk, roster, steps, cancel>> /\ at' \in {"crashed", "answered", at}
    BY <1>14 DEF EndPhase, settings
  <2> QED
    BY <2>1
<1>15. CASE EngineFails \/ EndMessage
  BY <1>15, <1>keep DEF EngineFails, EndMessage, settings
<1>16. CASE Instruct
  BY <1>16, <1>keep DEF Instruct, settings, answering
<1>17. CASE Restart
  <2>1. /\ UNCHANGED <<lazy, disk>> /\ steps' \in 0..MaxSteps /\ at' = "launch" /\ cancel' = FALSE
        /\ roster' = [known |-> {}, cached |-> {}]
    BY <1>17, <1>count DEF Restart, NewProcess, NoRoster, settings
  <2> QED
    BY <2>1
<1>18. CASE Others
  <2>1. /\ UNCHANGED <<lazy, at, roster, cancel>> /\ steps' \in 0..MaxSteps /\ disk' \subseteq Models
    BY <1>18, <1>count DEF Others, answering
  <2> QED
    BY <2>1
<1>19. CASE UNCHANGED vars
  BY <1>19, <1>keep DEF vars
<1>20. CASE TypeLine
  BY <1>20, <1>count DEF TypeLine, settings, answering
<1> QED
  BY <1>1, <1>2, <1>3, <1>4, <1>5, <1>6, <1>7, <1>8, <1>9, <1>10, <1>11, <1>12, <1>13, <1>14, <1>15,
     <1>16, <1>17, <1>18, <1>19, <1>20 DEF Next, System, User

(* The lines that wait, or are still to be read, were entered. *)
LEMMA WaitingIds ==
    ASSUME LinesInv
    PROVE  /\ \A i \in DOMAIN paste : paste[i].id \in 1..Len(heard)
           /\ inquire \in Seq(1..Len(heard)) /\ tty \in Seq(1..Len(heard))
<1> DEFINE d == done
           p == Ids(paste)
           i == inquire
           t == tty
           n == Len(heard)
<1>1. /\ d \in Seq(Nat) /\ i \in Seq(Nat) /\ t \in Seq(Nat) /\ n \in Nat /\ p \in Seq(Nat)
  BY KeptParts DEF LinesInv
<1>2. /\ \A j \in 1..Len((d \o p) \o (i \o t)) : ((d \o p) \o (i \o t))[j] \in 1..n
  BY DEF LinesInv, Queue, Chosen
<1>3. DOMAIN paste = DOMAIN p /\ \A j \in DOMAIN paste : p[j] = paste[j].id
  BY DEF Ids
<1> HIDE DEF d, p, i, t, n
<1> DEFINE c == d \o p
           a == i \o t
           k == c \o a
<1>4. /\ c \in Seq(Nat) /\ Len(c) = Len(d) + Len(p)
      /\ \A j \in 1..(Len(d) + Len(p)) : c[j] = IF j <= Len(d) THEN d[j] ELSE p[j - Len(d)]
  BY <1>1, NatConcat
<1>5. /\ a \in Seq(Nat) /\ Len(a) = Len(i) + Len(t)
      /\ \A j \in 1..(Len(i) + Len(t)) : a[j] = IF j <= Len(i) THEN i[j] ELSE t[j - Len(i)]
  BY <1>1, NatConcat
<1> HIDE DEF c, a
<1>6. /\ k \in Seq(Nat) /\ Len(k) = Len(c) + Len(a)
      /\ \A j \in 1..(Len(c) + Len(a)) : k[j] = IF j <= Len(c) THEN c[j] ELSE a[j - Len(c)]
  BY <1>4, <1>5, NatConcat
<1>7. \A j \in 1..Len(k) : k[j] \in 1..n
  BY <1>2 DEF c, a
<1> HIDE DEF k
<1>8. Len(d) \in Nat /\ Len(p) \in Nat /\ Len(i) \in Nat /\ Len(t) \in Nat /\ Len(c) \in Nat /\ Len(a) \in Nat
  <2>1. \A q \in Seq(Nat) : Len(q) \in Nat
    OBVIOUS
  <2>2. c \in Seq(Nat) /\ a \in Seq(Nat)
    BY <1>4, <1>5
  <2> QED
    BY <1>1, <2>1, <2>2
<1>9. ASSUME NEW j \in 1..Len(c) PROVE c[j] \in 1..n
  <2>1. j \in 1..(Len(c) + Len(a)) /\ j <= Len(c)
    BY <1>8
  <2> QED
    BY <1>6, <1>7, <2>1
<1>10. ASSUME NEW j \in 1..Len(a) PROVE a[j] \in 1..n
  <2>1. /\ j + Len(c) \in 1..(Len(c) + Len(a)) /\ ~(j + Len(c) <= Len(c)) /\ (j + Len(c)) - Len(c) = j
    BY <1>8
  <2> QED
    BY <1>6, <1>7, <2>1
<1>11. ASSUME NEW j \in 1..Len(p) PROVE p[j] \in 1..n
  <2>1. /\ j + Len(d) \in 1..(Len(d) + Len(p)) /\ ~(j + Len(d) <= Len(d)) /\ (j + Len(d)) - Len(d) = j
    BY <1>8
  <2> QED
    BY <1>4, <1>9, <2>1
<1>12. \A j \in 1..Len(i) : i[j] \in 1..n
  BY <1>5, <1>8, <1>10
<1>13. ASSUME NEW j \in 1..Len(t) PROVE t[j] \in 1..n
  <2>1. /\ j + Len(i) \in 1..(Len(i) + Len(t)) /\ ~(j + Len(i) <= Len(i)) /\ (j + Len(i)) - Len(i) = j
    BY <1>8
  <2> QED
    BY <1>5, <1>10, <2>1
<1>14. i \in Seq(1..n) /\ t \in Seq(1..n)
  <2>1. ASSUME NEW q \in Seq(Nat), \A j \in 1..Len(q) : q[j] \in 1..n PROVE q \in Seq(1..n)
    <3>1. /\ q \in [1..Len(q) -> Nat] /\ Len(q) \in Nat
      BY LenProperties
    <3>2. q \in [1..Len(q) -> 1..n]
      BY <2>1, <3>1
    <3> DEFINE T == 1..n
               m == Len(q)
    <3>3. m \in Nat /\ q \in [1..m -> T]
      BY <3>1, <3>2
    <3> HIDE DEF T, m
    <3>4. Seq(T) = UNION {[1..b -> T] : b \in Nat}
      BY SeqDef, Zenon
    <3>5. q \in Seq(T)
      BY <3>3, <3>4, Zenon
    <3> QED
      BY <3>5 DEF T
  <2> QED
    BY <1>1, <1>12, <1>13, <2>1
<1>15. DOMAIN p = 1..Len(p)
  BY <1>1
<1> QED
  BY <1>3, <1>11, <1>14, <1>15 DEF i, t, n

(***************************************************************************)
(* Type correctness of the session.                                        *)
(***************************************************************************)
THEOREM SessionTypesHold == Spec => []SessionTypeOK
<1>1. Init => PlainTypes
  <2> SUFFICES ASSUME Init PROVE PlainTypes
    OBVIOUS
  <2>1. /\ at = "launch" /\ lazy \in BOOLEAN /\ cancel = FALSE /\ steps = 0 /\ disk \subseteq Models
        /\ roster = [known |-> {}, cached |-> {}]
    BY DEF Init, NoRoster
  <2>2. roster \in [known : SUBSET Models, cached : SUBSET Models] /\ roster.cached \subseteq roster.known
    BY <2>1
  <2>3. 0 \in 0..MaxSteps
    BY SessionAssumption
  <2> QED
    BY <2>1, <2>2, <2>3 DEF PlainTypes, Places
<1>2. Spec => [](PlainTypes /\ EngineInv)
  BY <1>1, EngineInit, EngineStep, PlainTypesStep, PTL DEF Spec
<1>3. Spec => [](LinesInv /\ StreamInv)
  BY LinesInit, LinesStep, StreamInit, StreamStep, PTL DEF Spec
<1>4. PlainTypes /\ EngineInv /\ LinesInv /\ StreamInv => SessionTypeOK
  <2> SUFFICES ASSUME PlainTypes, EngineInv, LinesInv, StreamInv PROVE SessionTypeOK
    OBVIOUS
  <2>1. stream.phase \in {"first", "final", "done"} /\ stream.tool \in {"none", "legacy", "cel"}
    BY DEF StreamInv, IsStream
  <2>2. /\ heard \in Seq({"awaited", "behind", "ahead"})
        /\ tty \in Seq(1..Len(heard)) /\ inquire \in Seq(1..Len(heard))
        /\ \A i \in DOMAIN paste : paste[i].id \in 1..Len(heard)
    BY WaitingIds DEF LinesInv
  <2>3. engine \in [router : ModelOrNone, loaded : BOOLEAN] /\ active \in ModelOrNone /\ perm \in ModelOrNone
    BY DEF EngineInv
  <2> QED
    BY <2>1, <2>2, <2>3 DEF SessionTypeOK, PlainTypes, Places
<1> QED
  BY <1>2, <1>3, <1>4, PTL
=============================================================================
