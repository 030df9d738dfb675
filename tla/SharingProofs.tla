---------------------------- MODULE SharingProofs ----------------------------
(***************************************************************************)
(* Proofs about what processes that do not overlap find in the files that  *)
(* they share: the registry of processes, then the two settings and the    *)
(* fingerprint of the hardware.  The paths and the effects of steps are    *)
(* those of GovernorProofs.                                                *)
(***************************************************************************)
EXTENDS GovernorProofs

(***************************************************************************)
(* The process registry, along a program of an operation that uses it.     *)
(* `listed': if the file lists the process, it holds VRAM; `others' and    *)
(* `self': the same for the copy that it read, of the other processes and  *)
(* of itself; `holding': it holds VRAM.                                    *)
(***************************************************************************)
NeutralSteps == Steps \ RegistrySteps

(* What a step of the registry needs: the copy that it writes is right but *)
(* for the process itself.                                                 *)
RegNeeds(x) ==
    CASE x[1] \in {"open", "fill"} -> {"others", "self"}
      [] x[1] = "allocate" -> {"listed"}
      [] x[1] = "regAdd" -> {"others", "holding"}
      [] x[1] = "regRemove" -> {"others"}
      [] x[1] \in {"regContext", "regPurge"} -> {"others", "self", "listed"}
      [] OTHER -> {}

(* What is known after it, where N was known. *)
RegGains(x, N) ==
    CASE x[1] \in {"open", "fill"} -> {"listed"}
      [] x[1] = "loadReg" -> {"others"} \cup (IF "listed" \in N THEN {"self"} ELSE {})
      [] x[1] \in {"regAdd", "regRemove"} -> {"self", "listed"}
      [] OTHER -> {}

(* What is no longer known. *)
RegLoses(x) ==
    CASE x[1] = "loadReg" -> {"self"}
      [] x[1] = "free" -> {"listed", "self", "holding"}
      [] OTHER -> {}

(* Between updates of the registry its file is right. *)
Rest == Knowing({"listed"}, {"listed"})

(* Only operations that use the registry take its steps. *)
RegRule(op, l, x, m) ==
    IF x \in RegistrySteps
    THEN /\ "reg" \in Touches(op)
         /\ RegNeeds(x) \subseteq l.now
         /\ m.now \subseteq (l.now \ RegLoses(x)) \cup RegGains(x, l.now)
         /\ m.then = l.then
    ELSE l = Rest /\ m = Rest

(* The rules as a set of label, step, label. *)
RegRules(op) == {t \in Label \X Steps \X Label : RegRule(op, t[1], t[2], t[3])}

(* The rules, spelled out. *)
LEMMA RegRulesDef ==
    ASSUME NEW op, NEW l \in Label, NEW m \in Label, NEW x \in Steps
    PROVE  <<l, x, m>> \in RegRules(op) <=> RegRule(op, l, x, m)
<1> DEFINE t == <<l, x, m>>
<1>1. t \in Label \X Steps \X Label /\ t[1] = l /\ t[2] = x /\ t[3] = m
  OBVIOUS
<1>2. t \in RegRules(op) <=> RegRule(op, t[1], t[2], t[3])
  <2> HIDE DEF t
  <2> QED
    BY <1>1 DEF RegRules
<1> QED
  BY <1>1, <1>2

(* The label between updates. *)
LEMMA RestLabel ==
    Rest \in Label /\ Rest.now = {"listed"} /\ Rest.then = {"listed"}
<1>1. {"listed"} \in SUBSET Claims
  BY DEF Claims, RegClaims
<1> QED
  BY <1>1, KnowingLabel DEF Rest

(* Steps of the registry look at no error. *)
LEMMA RegistryNoCatch ==
    ASSUME NEW x \in RegistrySteps PROVE x \in Steps /\ x[1] \notin Catchers
  BY DEF RegistrySteps, Catchers

(* The rules keep what is promised where errors are caught. *)
LEMMA RegThrowing == ASSUME NEW op PROVE Throwing(RegRules(op))
<1> SUFFICES ASSUME NEW a \in Label, NEW b \in Label, NEW x \in Steps, RegRule(op, a, x, b)
             PROVE  IF x[1] \in Catchers THEN a.now \subseteq a.then ELSE b.then = a.then
  BY RegRulesDef DEF Throwing
<1>1. CASE x \in RegistrySteps
  BY <1>1, RegistryNoCatch DEF RegRule
<1>2. CASE x \notin RegistrySteps
  BY <1>2, RestLabel DEF RegRule
<1> QED
  BY <1>1, <1>2

(* Sequences of other steps are paths between updates. *)
LEMMA RegStay ==
    ASSUME NEW op, NEW s \in Seq(NeutralSteps)
    PROVE  Path(RegRules(op), s, Rest, Rest)
<1>1. s \in Seq(Steps)
  BY DEF NeutralSteps
<1>2. \A i \in 1..Len(s) : s[i] \in NeutralSteps
  BY ElementOfSeq
<1>3. \A i \in 1..Len(s) : <<Rest, s[i], Rest>> \in RegRules(op)
  <2> SUFFICES ASSUME NEW i \in 1..Len(s) PROVE <<Rest, s[i], Rest>> \in RegRules(op)
    OBVIOUS
  <2>1. s[i] \in Steps /\ s[i] \notin RegistrySteps
    BY <1>2 DEF NeutralSteps
  <2>2. RegRule(op, Rest, s[i], Rest)
    BY <2>1 DEF RegRule
  <2> QED
    BY <2>1, <2>2, RestLabel, RegRulesDef
<1> QED
  BY <1>1, <1>3, RestLabel, PathStay

(* A step of the registry. *)
LEMMA RegTriple ==
    ASSUME NEW op, "reg" \in Touches(op), NEW x \in RegistrySteps,
           NEW N \in SUBSET Claims, NEW M \in SUBSET Claims, NEW T \in SUBSET Claims,
           RegNeeds(x) \subseteq N, M \subseteq (N \ RegLoses(x)) \cup RegGains(x, N)
    PROVE  x \in Steps /\ <<Knowing(N, T), x, Knowing(M, T)>> \in RegRules(op)
<1>1. x \in Steps
  BY DEF RegistrySteps
<1>2. RegRule(op, Knowing(N, T), x, Knowing(M, T))
  BY KnowingLabel DEF RegRule
<1> QED
  BY <1>1, <1>2, KnowingLabel, RegRulesDef

(* A call of the registry. *)
LEMMA RegCall ==
    ASSUME NEW op, "reg" \in Touches(op),
           NEW what \in {"loadReg", "regAdd", "regRemove", "regContext", "regPurge", "allocate", "free"},
           NEW N \in SUBSET Claims, NEW M \in SUBSET Claims, NEW T \in SUBSET Claims,
           what = "allocate" => "listed" \in N,
           what = "regAdd" => {"others", "holding"} \subseteq N,
           what = "regRemove" => "others" \in N,
           what \in {"regContext", "regPurge"} => {"others", "self", "listed"} \subseteq N,
           M \subseteq (CASE what = "loadReg" -> (N \ {"self"}) \cup {"others"}
                                                \cup (IF "listed" \in N THEN {"self"} ELSE {})
                          [] what = "free" -> N \ {"listed", "self", "holding"}
                          [] what \in {"regAdd", "regRemove"} -> N \cup {"self", "listed"}
                          [] OTHER -> N)
    PROVE  Do(what) \in Steps /\ <<Knowing(N, T), Do(what), Knowing(M, T)>> \in RegRules(op)
<1> DEFINE x == Do(what)
<1>0. x \in Steps /\ x[1] = what
  BY Zenon DEF Do, Steps, Words, Places, Extensions
<1>1. x \in RegistrySteps
  BY <1>0 DEF RegistrySteps
<1> HIDE DEF x
<1>2. RegNeeds(x) \subseteq N
  BY <1>0 DEF RegNeeds
<1>3. M \subseteq (N \ RegLoses(x)) \cup RegGains(x, N)
  <2>1. CASE what = "loadReg"
    BY <1>0, <2>1 DEF RegLoses, RegGains
  <2>2. CASE what = "free"
    BY <1>0, <2>2 DEF RegLoses, RegGains
  <2>3. CASE what \in {"regAdd", "regRemove"}
    BY <1>0, <2>3 DEF RegLoses, RegGains
  <2>4. CASE what \in {"regContext", "regPurge", "allocate"}
    BY <1>0, <2>4 DEF RegLoses, RegGains
  <2> QED
    BY <2>1, <2>2, <2>3, <2>4
<1>4. <<Knowing(N, T), x, Knowing(M, T)>> \in RegRules(op)
  BY <1>1, <1>2, <1>3, RegTriple
<1> QED
  BY <1>0, <1>4 DEF x

(* The copy is written: it is right of every process. *)
LEMMA RegPut ==
    ASSUME NEW op, "reg" \in Touches(op),
           NEW N \in SUBSET Claims, NEW M \in SUBSET Claims, NEW T \in SUBSET Claims,
           {"others", "self"} \subseteq N, M \subseteq N \cup {"listed"}
    PROVE  Path(RegRules(op), Put("reg", "json"), Knowing(N, T), Knowing(M, T))
<1> DEFINE x == <<"open", "reg", "json">>
           y == <<"fill", "reg", "json">>
           N1 == N \cup {"listed"}
           l == Knowing(N, T)
           k == Knowing(N1, T)
           m == Knowing(M, T)
<1>0. x[1] = "open" /\ y[1] = "fill"
  OBVIOUS
<1>1. x \in RegistrySteps /\ y \in RegistrySteps
  BY Zenon DEF RegistrySteps, Steps, Words, Places, Extensions
<1>2. Put("reg", "json") = <<x, y>>
  BY DEF Put
<1>3. N1 \in SUBSET Claims
  BY DEF Claims, RegClaims
<1> HIDE DEF x, y
<1>4. \A z \in {x, y} : RegNeeds(z) = {"others", "self"} /\ RegLoses(z) = {}
                        /\ \A K : RegGains(z, K) = {"listed"}
  BY <1>0 DEF RegNeeds, RegLoses, RegGains
<1>5. x \in Steps /\ <<l, x, k>> \in RegRules(op)
  BY <1>1, <1>3, <1>4, RegTriple
<1>6. y \in Steps /\ <<k, y, m>> \in RegRules(op)
  BY <1>1, <1>3, <1>4, RegTriple
<1>7. l \in Label /\ k \in Label /\ m \in Label
  BY <1>3, KnowingLabel
<1> HIDE DEF l, k, m
<1>8. Path(RegRules(op), <<x, y>>, l, m)
  BY <1>5, <1>6, <1>7, PathTwo
<1> QED
  BY <1>2, <1>8 DEF l, m

-----------------------------------------------------------------------------
(* Programs *)

(* Sequences of a few elements. *)
LEMMA SomeOf ==
    ASSUME NEW S, NEW v \in S, NEW w \in S, NEW x \in S, NEW y \in S, NEW z \in S
    PROVE  /\ <<v, w, x>> \in Seq(S) /\ <<v, w, x, y>> \in Seq(S) /\ <<v, w, x, y, z>> \in Seq(S)
  OBVIOUS

(* Calls that have nothing to do with the registry. *)
NeutralCalls ==
    Words \ {"loadReg", "regAdd", "regRemove", "regContext", "regPurge", "allocate", "free"}

(* They are steps. *)
LEMMA NeutralDo == ASSUME NEW what \in NeutralCalls PROVE Do(what) \in NeutralSteps
  BY Zenon DEF Do, NeutralCalls, NeutralSteps, RegistrySteps, Steps, Words, Places, Extensions

(* A few of them. *)
LEMMA NeutralFew ==
    ASSUME NEW a \in NeutralCalls, NEW b \in NeutralCalls, NEW c \in NeutralCalls,
           NEW d \in NeutralCalls, NEW e \in NeutralCalls
    PROVE  /\ <<Do(a)>> \in Seq(NeutralSteps) /\ <<Do(a), Do(b)>> \in Seq(NeutralSteps)
           /\ <<Do(a), Do(b), Do(c)>> \in Seq(NeutralSteps)
           /\ <<Do(a), Do(b), Do(c), Do(d)>> \in Seq(NeutralSteps)
           /\ <<Do(a), Do(b), Do(c), Do(d), Do(e)>> \in Seq(NeutralSteps)
  BY NeutralDo, FewOf, SomeOf

(* Steps on other files. *)
LEMMA NeutralFile ==
    ASSUME NEW what \in {"open", "fill", "rename", "remove"}, NEW s \in {"perm", "boost", "sys"},
           NEW e \in {"json", "bin", "json.tmp", "bin.tmp"}
    PROVE  <<what, s, e>> \in NeutralSteps
  BY Zenon DEF NeutralSteps, RegistrySteps, Steps, Words, Places, Extensions

(* Another file is written. *)
LEMMA NeutralPut ==
    ASSUME NEW s \in {"perm", "boost", "sys"}, NEW e \in {"json", "bin", "json.tmp", "bin.tmp"}
    PROVE  Put(s, e) \in Seq(NeutralSteps)
<1>1. <<"open", s, e>> \in NeutralSteps /\ <<"fill", s, e>> \in NeutralSteps
  BY NeutralFile
<1> QED
  BY <1>1, FewOf DEF Put

(* Sequences put together. *)
LEMMA NeutralCat ==
    ASSUME NEW s \in Seq(NeutralSteps), NEW t \in Seq(NeutralSteps)
    PROVE  s \o t \in Seq(NeutralSteps)
  BY ConcatProperties

(* Saves, and loads of the fingerprint. *)
LEMMA NeutralParts ==
    /\ \A s \in {"perm", "boost", "sys"} : SavePlain(s) \in Seq(NeutralSteps)
    /\ SaveAtomic("sys") \in Seq(NeutralSteps)
    /\ AutoCalibrate \in Seq(NeutralSteps)
    /\ SyncTotal \in Seq(NeutralSteps)
    /\ Heal \in Seq(NeutralSteps)
    /\ Persist \in Seq(NeutralSteps)
<1>w. {"probe", "writable", "readonly", "loadBoost", "lock", "unlock", "total", "loadSys", "catch"}
          \subseteq NeutralCalls
  BY DEF NeutralCalls, Words
<1>1. ASSUME NEW s \in {"perm", "boost", "sys"} PROVE SavePlain(s) \in Seq(NeutralSteps)
  BY NeutralPut, NeutralCat DEF SavePlain
<1>2. SaveAtomic("sys") \in Seq(NeutralSteps)
  <2>1. Put("sys", "json.tmp") \in Seq(NeutralSteps) /\ Put("sys", "bin.tmp") \in Seq(NeutralSteps)
    BY NeutralPut
  <2>2. <<"rename", "sys", "json">> \in NeutralSteps /\ <<"rename", "sys", "bin">> \in NeutralSteps
    BY NeutralFile
  <2>3. <<<<"rename", "sys", "json">>, <<"rename", "sys", "bin">>>> \in Seq(NeutralSteps)
    BY <2>2, FewOf
  <2> QED
    BY <2>1, <2>3, NeutralCat DEF SaveAtomic
<1>3. AutoCalibrate \in Seq(NeutralSteps)
  <2>1. <<Do("probe")>> \in Seq(NeutralSteps) /\ <<Do("loadBoost")>> \in Seq(NeutralSteps)
        /\ <<Do("lock"), Do("total"), Do("unlock")>> \in Seq(NeutralSteps)
    BY <1>w, NeutralFew
  <2>2. SavePlain("boost") \in Seq(NeutralSteps)
    BY <1>1
  <2> QED
    BY <1>2, <2>1, <2>2, NeutralCat DEF AutoCalibrate
<1>4. SyncTotal \in Seq(NeutralSteps)
  BY <1>w, NeutralFew DEF SyncTotal
<1>5. Heal \in Seq(NeutralSteps)
  <2>1. <<"remove", "sys", "bin">> \in NeutralSteps /\ Do("probe") \in NeutralSteps
    BY <1>w, NeutralFile, NeutralDo
  <2>2. <<<<"remove", "sys", "bin">>, Do("probe")>> \in Seq(NeutralSteps)
    BY <2>1, FewOf
  <2> QED
    BY <1>2, <2>2, NeutralCat DEF Heal
<1>6. Persist \in Seq(NeutralSteps)
  <2>1. <<Do("probe"), Do("writable")>> \in Seq(NeutralSteps) /\ <<Do("readonly")>> \in Seq(NeutralSteps)
    BY <1>w, NeutralFew
  <2>2. SavePlain("sys") \in Seq(NeutralSteps)
    BY <1>1
  <2> QED
    BY <2>1, <2>2, NeutralCat DEF Persist
<1> QED
  BY <1>1, <1>2, <1>3, <1>4, <1>5, <1>6

(* A negotiation: the entry of the process is written anew, if there is one. *)
LEMMA RegNegotiate ==
    ASSUME NEW op, "reg" \in Touches(op)
    PROVE  Path(RegRules(op), Negotiate, Rest, Rest)
<1> DEFINE N == {"listed", "others", "self"}
           k == Knowing(N, {"listed"})
           c == Do("loadReg")
           d == Do("regContext")
           u == Do("unlock")
           s1 == <<Do("lock")>>
           s3 == <<Do("calibrateIfZero"), Do("fit")>>
<1>w. {"lock", "calibrateIfZero", "fit", "unlock"} \subseteq NeutralCalls
  BY DEF NeutralCalls, Words
<1>0. N \in SUBSET Claims /\ {"listed"} \in SUBSET Claims
  BY DEF Claims, RegClaims
<1>1. s1 \in Seq(NeutralSteps) /\ s3 \in Seq(NeutralSteps) /\ <<u>> \in Seq(NeutralSteps)
  BY <1>w, NeutralFew
<1>2. SyncTotal \in Seq(NeutralSteps)
  BY NeutralParts
<1>3. c \in Steps /\ <<Rest, c, k>> \in RegRules(op)
  BY <1>0, RegCall DEF Rest
<1>4. d \in Steps /\ <<k, d, Rest>> \in RegRules(op)
  BY <1>0, RegCall DEF Rest
<1>5. k \in Label
  BY <1>0, KnowingLabel
<1>6. u \in Steps /\ <<Rest, u, Rest>> \in RegRules(op)
  <2>1. u \in Steps /\ u \notin RegistrySteps
    BY <1>w, NeutralDo DEF NeutralSteps
  <2> HIDE DEF u
  <2>2. RegRule(op, Rest, u, Rest)
    BY <2>1 DEF RegRule
  <2> QED
    BY <2>1, <2>2, RestLabel, RegRulesDef
<1>7. Negotiate = ((s1 \o SyncTotal) \o s3) \o <<c, d, u>>
  BY DEF Negotiate
<1> HIDE DEF N, k, c, d, u, s1, s3
<1>8. Path(RegRules(op), <<c, d, u>>, Rest, Rest)
  BY <1>3, <1>4, <1>5, <1>6, RestLabel, PathThree
<1>9. Path(RegRules(op), (s1 \o SyncTotal) \o s3, Rest, Rest)
  BY <1>1, <1>2, NeutralCat, RegStay
<1> QED
  BY <1>7, <1>8, <1>9, PathCat

(* A model is discovered, the settings are applied: negotiations. *)
LEMMA RegModels ==
    ASSUME NEW op, "reg" \in Touches(op)
    PROVE  /\ Path(RegRules(op), Discover, Rest, Rest)
           /\ Path(RegRules(op), ApplyBooster, Rest, Rest)
<1>w. {"loadBoost", "loadSys", "require", "forget"} \subseteq NeutralCalls
  BY DEF NeutralCalls, Words
<1>1. <<Do("loadBoost"), Do("loadSys"), Do("require"), Do("forget"), Do("loadBoost")>> \in Seq(NeutralSteps)
      /\ <<Do("loadBoost")>> \in Seq(NeutralSteps)
  BY <1>w, NeutralFew
<1>2. Path(RegRules(op), <<Do("loadBoost"), Do("loadSys"), Do("require"), Do("forget"), Do("loadBoost")>>,
           Rest, Rest)
      /\ Path(RegRules(op), <<Do("loadBoost")>>, Rest, Rest)
  BY <1>1, RegStay
<1> QED
  BY <1>2, RegNegotiate, PathCat DEF Discover, ApplyBooster

(* A grant is entered when it is made; where nothing was granted before,   *)
(* the copy that was read is right of the process all the same.            *)
LEMMA RegEntry ==
    ASSUME NEW op, "reg" \in Touches(op)
    PROVE  Path(RegRules(op), <<Do("loadReg"), Do("regAdd")>>, Knowing({"listed", "holding"}, {"listed"}), Rest)
<1> DEFINE L == {"listed", "holding"}
           N == {"listed", "holding", "others", "self"}
           l == Knowing(L, {"listed"})
           k == Knowing(N, {"listed"})
           c == Do("loadReg")
           d == Do("regAdd")
<1>0. L \in SUBSET Claims /\ N \in SUBSET Claims /\ {"listed"} \in SUBSET Claims
  BY DEF Claims, RegClaims
<1>1. c \in Steps /\ <<l, c, k>> \in RegRules(op)
  BY <1>0, RegCall
<1>2. d \in Steps /\ <<k, d, Rest>> \in RegRules(op)
  BY <1>0, RegCall DEF Rest
<1>3. l \in Label /\ k \in Label
  BY <1>0, KnowingLabel
<1> HIDE DEF k, c, d
<1>4. Path(RegRules(op), <<c, d>>, l, Rest)
  BY <1>1, <1>2, <1>3, RestLabel, PathTwo
<1> QED
  BY <1>4 DEF c, d

(* Requests, returns and the list of processes. *)
LEMMA RegArbiterOps ==
    ASSUME NEW op, "reg" \in Touches(op)
    PROVE  /\ Path(RegRules(op), RequestVram, Rest, Rest)
           /\ Path(RegRules(op), ReleaseVram, Rest, Rest)
           /\ Path(RegRules(op), Ps, Rest, Rest)
<1> DEFINE T == {"listed"}
           N == {"listed", "others", "self"}
           O == {"others"}
           k == Knowing(N, T)
           k0 == Knowing({}, T)
           k1 == Knowing(O, T)
           lock == Do("lock")
           unlock == Do("unlock")
           sync == Do("syncIfZero")
           boost == Do("loadBoost")
           grant == Do("allocate")
           free == Do("free")
           load == Do("loadReg")
           drop == Do("regRemove")
           purge == Do("regPurge")
<1>w. {"lock", "unlock", "syncIfZero", "loadBoost"} \subseteq NeutralCalls
  BY DEF NeutralCalls, Words
<1>0. N \in SUBSET Claims /\ T \in SUBSET Claims /\ {} \in SUBSET Claims /\ O \in SUBSET Claims
  BY DEF Claims, RegClaims
<1>k. k \in Label /\ k0 \in Label /\ k1 \in Label
  BY <1>0, KnowingLabel
<1>1. ASSUME NEW u \in {lock, unlock, sync, boost} PROVE u \in Steps /\ <<Rest, u, Rest>> \in RegRules(op)
  <2>1. u \in Steps /\ u \notin RegistrySteps
    BY <1>w, NeutralDo DEF NeutralSteps
  <2> HIDE DEF lock, unlock, sync, boost
  <2>2. RegRule(op, Rest, u, Rest)
    BY <2>1 DEF RegRule
  <2> QED
    BY <2>1, <2>2, RestLabel, RegRulesDef
<1>2. grant \in Steps /\ <<Rest, grant, Rest>> \in RegRules(op)
  BY <1>0, RegCall DEF Rest
<1>3. free \in Steps /\ <<Rest, free, k0>> \in RegRules(op)
  BY <1>0, RegCall DEF Rest
<1>4. load \in Steps /\ <<k0, load, k1>> \in RegRules(op) /\ <<Rest, load, k>> \in RegRules(op)
  BY <1>0, RegCall DEF Rest
<1>5. drop \in Steps /\ <<k1, drop, Rest>> \in RegRules(op)
  BY <1>0, RegCall DEF Rest
<1>6. purge \in Steps /\ <<k, purge, Rest>> \in RegRules(op)
  BY <1>0, RegCall DEF Rest
<1>7. /\ RequestVram = <<lock, sync, boost, grant, unlock>>
      /\ ReleaseVram = <<lock, free, load, drop, unlock>>
      /\ Ps = <<load, purge>>
  BY DEF RequestVram, ReleaseVram, Ps
<1> HIDE DEF k, k0, k1, lock, unlock, sync, boost, grant, free, load, drop, purge
<1>8. Path(RegRules(op), <<lock, sync, boost, grant, unlock>>, Rest, Rest)
  BY <1>1, <1>2, RestLabel, PathFive
<1>9. Path(RegRules(op), <<lock, free, load, drop, unlock>>, Rest, Rest)
  BY <1>k, <1>1, <1>3, <1>4, <1>5, RestLabel, PathFive
<1>10. Path(RegRules(op), <<load, purge>>, Rest, Rest)
  BY <1>k, <1>4, <1>6, RestLabel, PathTwo
<1> QED
  BY <1>7, <1>8, <1>9, <1>10

(* The other programs take no step of the registry. *)
LEMMA NeutralProgram ==
    ASSUME NEW op \in Ops, "reg" \notin Touches(op)
    PROVE  Program(op) \in Seq(NeutralSteps)
<1>w. {"loadBoost", "loadSys", "catch", "tune", "change", "loadPerm", "edit", "editPerm"} \subseteq NeutralCalls
  BY DEF NeutralCalls, Words
<1>1. op \in {"boot", "readBoost", "putBoost", "setBoost", "resetBoost", "editBoost", "calibrate",
              "updateField", "readPerm", "setPerm", "editPerm"}
  BY DEF Ops, PermOps, Touches
<1>2. MainBoot \in Seq(NeutralSteps)
  <2>1. <<Do("loadSys"), Do("catch")>> \in Seq(NeutralSteps)
        /\ <<Do("loadBoost"), Do("loadSys"), Do("catch"), Do("tune")>> \in Seq(NeutralSteps)
    BY <1>w, NeutralFew
  <2> QED
    BY <2>1, NeutralCat DEF MainBoot, Ignite
<1>3. UpdateField \in Seq(NeutralSteps)
  <2>1. <<Do("loadBoost"), Do("change")>> \in Seq(NeutralSteps)
    BY <1>w, NeutralFew
  <2>2. Persist \in Seq(NeutralSteps) /\ Put("sys", "json") \in Seq(NeutralSteps)
    BY NeutralParts, NeutralPut
  <2> QED
    BY <2>1, <2>2, NeutralCat DEF UpdateField
<1>4. AutoCalibrate \in Seq(NeutralSteps)
  BY NeutralParts
<1>5. /\ <<Do("loadSys"), Do("catch"), Do("change")>> \in Seq(NeutralSteps)
      /\ <<Do("loadBoost"), Do("change")>> \in Seq(NeutralSteps)
      /\ <<Do("loadPerm"), Do("change")>> \in Seq(NeutralSteps)
      /\ <<Do("loadBoost"), Do("edit")>> \in Seq(NeutralSteps)
      /\ <<Do("loadPerm"), Do("editPerm")>> \in Seq(NeutralSteps)
      /\ <<Do("loadPerm")>> \in Seq(NeutralSteps)
      /\ <<Do("loadBoost")>> \in Seq(NeutralSteps)
      /\ <<Do("change")>> \in Seq(NeutralSteps)
  BY <1>w, NeutralFew
<1>6. CASE op \in {"boot", "updateField", "calibrate"}
  BY <1>2, <1>3, <1>4, <1>6 DEF Program
<1>7. CASE op \in {"resetBoost", "setBoost", "setPerm", "editBoost", "editPerm"}
  BY <1>5, <1>7 DEF Program, ResetBooster, UpdateBooster, MenuPass, UpdatePermission, BoosterMenu,
                    PermissionMenu
<1>8. CASE op \in {"readPerm", "readBoost", "putBoost"}
  BY <1>5, <1>8 DEF Program
<1> QED
  BY <1>1, <1>6, <1>7, <1>8

(* Every program is a path between updates. *)
LEMMA RegProgram ==
    ASSUME NEW op \in Ops
    PROVE  Path(RegRules(op), Program(op), Rest, Rest)
<1>1. CASE "reg" \notin Touches(op)
  BY <1>1, NeutralProgram, RegStay
<1>2. CASE "reg" \in Touches(op)
  <2>1. op \in {"discover", "applyBooster", "request", "release", "ps"}
    BY <1>2 DEF Ops, PermOps, Touches
  <2>2. /\ op = "discover" => Program(op) = Discover
        /\ op = "applyBooster" => Program(op) = ApplyBooster
        /\ op = "request" => Program(op) = RequestVram
        /\ op = "release" => Program(op) = ReleaseVram
        /\ op = "ps" => Program(op) = Ps
    BY DEF Program
  <2> QED
    BY <1>2, <2>1, <2>2, RegModels, RegArbiterOps
<1> QED
  BY <1>1, <1>2

-----------------------------------------------------------------------------
(***************************************************************************)
(* The invariant of the registry.                                          *)
(***************************************************************************)
Holds(p) == \E e \in Engines : mem[p].active[e] # 0

(* The registry's file. *)
Listing == file[<<"reg", "json">>]

(* It lists p. *)
Lists(p) == Whole(<<"reg", "json">>) /\ Pid(p) \in Listing

(* p uses the registry. *)
Uses(p) == "reg" \in Touches(act[p].op)

(* Nobody has met another one in the registry. *)
Alone == ~mixed["reg"]

(* What N says of p is so, if p uses the registry and met nobody there. *)
KnowsReg(p, N) ==
    Alone /\ Uses(p) =>
        /\ "listed" \in N => (Lists(p) => Holds(p))
        /\ "others" \in N => \A q \in Procs \ {p} : act[p].reg # None /\ Pid(q) \in act[p].reg => Holds(q)
        /\ "self" \in N => (Pid(p) \in act[p].reg => Holds(p))
        /\ "holding" \in N => Holds(p)

(* What is left of the program of p is a path, from what is known of p. *)
RegWalk(p) ==
    act[p].op # "idle" =>
        \E l \in Label :
            KnowsReg(p, l.now) /\ Path(RegRules(act[p].op), act[p].todo, l, Rest)

(* Two processes that use the registry have met. *)
RegApart == Alone => \A p, q \in Procs : p # q => ~Uses(p) \/ ~Uses(q)

(* No process is listed, or read, that was not started yet. *)
Started(pids) == \A pid \in pids : pid[2] <= gen[pid[1]]

(* Nor is a process whose pid will come. *)
RegPids ==
    /\ Whole(<<"reg", "json">>) => Started(Listing)
    /\ \A p \in Procs : act[p].reg # None => Started(act[p].reg)

(* A process that does not use the registry is listed if it holds VRAM. *)
RegListed == Alone => \A p \in Procs : ~Uses(p) => (Lists(p) => Holds(p))

(* The inductive invariant, beside that of the types. *)
RegInv == RegApart /\ RegPids /\ RegListed /\ \A p \in Procs : RegWalk(p)

(* Nothing of the registry is changed. *)
RegKept ==
    /\ StoreKept("reg") /\ GrantsKept /\ HistoryKept
    /\ \A q \in Procs : act'[q].op = act[q].op /\ act'[q].reg = act[q].reg

(* The file of the registry is one. *)
LEMMA RegFile ==
    /\ <<"reg", "json">> \in Files
    /\ StoreKept("reg") => file'[<<"reg", "json">>] = file[<<"reg", "json">>]
<1>1. <<"reg", "json">> \in Files /\ <<"reg", "json">>[1] = "reg"
  BY DEF Files
<1> QED
  BY <1>1 DEF StoreKept

(* Then what is known stays so. *)
LEMMA RegKeeps ==
    ASSUME RegInv, RegKept
    PROVE  /\ RegApart' /\ RegPids' /\ RegListed'
           /\ \A q \in Procs : \A N : KnowsReg(q, N) => KnowsReg(q, N)'
<1>1. file'[<<"reg", "json">>] = file[<<"reg", "json">>]
  BY RegFile DEF RegKept
<1>2. gen' = gen /\ mixed' = mixed
  BY DEF RegKept, HistoryKept
<1>3. \A q \in Procs : /\ act'[q].op = act[q].op /\ act'[q].reg = act[q].reg
                       /\ mem'[q].active = mem[q].active
  BY DEF RegKept, GrantsKept
<1>4. Alone' <=> Alone
  BY <1>2 DEF Alone
<1>5. \A q \in Procs : (Uses(q)' <=> Uses(q)) /\ (Holds(q)' <=> Holds(q)) /\ (Lists(q)' <=> Lists(q))
                       /\ Pid(q)' = Pid(q)
  BY <1>1, <1>2, <1>3 DEF Uses, Holds, Lists, Listing, Whole, Pid
<1>6. RegApart'
  BY <1>4, <1>5 DEF RegApart, RegInv
<1>7. RegListed'
  BY <1>4, <1>5 DEF RegListed, RegInv
<1>8. RegPids'
  BY <1>1, <1>2, <1>3 DEF RegPids, RegInv, Started, Whole, Listing
<1>9. ASSUME NEW q \in Procs, NEW N, KnowsReg(q, N) PROVE KnowsReg(q, N)'
  BY <1>3, <1>4, <1>5, <1>9 DEF KnowsReg
<1> QED
  BY <1>6, <1>7, <1>8, <1>9

(* A process that is not at its end is before a step. *)
LEMMA RegHere ==
    ASSUME TypeInv, RegInv, NEW p \in Procs, act[p].todo # <<>>
    PROVE  /\ act[p].op # "idle" /\ Head(act[p].todo) \in Steps
           /\ \E l, m \in Label :
                /\ KnowsReg(p, l.now) /\ RegRule(act[p].op, l, Head(act[p].todo), m)
                /\ Path(RegRules(act[p].op), act[p].todo, l, Rest)
                /\ Path(RegRules(act[p].op), Tail(act[p].todo), m, Rest)
<1> DEFINE op == act[p].op
           x == Head(act[p].todo)
<1>0. op # "idle"
  BY TypeHere
<1>1. PICK l \in Label : KnowsReg(p, l.now) /\ Path(RegRules(op), act[p].todo, l, Rest)
  BY <1>0 DEF RegInv, RegWalk
<1>2. x \in Steps
      /\ \E m \in Label : <<l, x, m>> \in RegRules(op) /\ Path(RegRules(op), Tail(act[p].todo), m, Rest)
  BY <1>1, PathHead
<1>3. PICK m \in Label : <<l, x, m>> \in RegRules(op) /\ Path(RegRules(op), Tail(act[p].todo), m, Rest)
  BY <1>2
<1>4. RegRule(op, l, x, m)
  BY <1>2, <1>3, RegRulesDef
<1> HIDE DEF x
<1> QED
  BY <1>0, <1>1, <1>2, <1>3, <1>4 DEF x

(* Processes that did nothing are where they were. *)
LEMMA RegOthers ==
    ASSUME RegInv, NEW q \in Procs, act'[q] = act[q], \A N : KnowsReg(q, N) => KnowsReg(q, N)'
    PROVE  RegWalk(q)'
<1>1. ASSUME act'[q].op # "idle"
      PROVE  \E l \in Label : KnowsReg(q, l.now)' /\ Path(RegRules(act'[q].op), act'[q].todo, l, Rest)
  <2>1. PICK l \in Label : KnowsReg(q, l.now) /\ Path(RegRules(act[q].op), act[q].todo, l, Rest)
    BY <1>1 DEF RegInv, RegWalk
  <2> QED
    BY <2>1
<1> QED
  BY <1>1 DEF RegWalk

-----------------------------------------------------------------------------
(* Steps that have nothing to do with the registry *)

(* What is left then. *)
NeutralMove(p) ==
    /\ RegKept /\ Others(p)
    /\ \/ \E more \in Seq(NeutralSteps) : act'[p].todo = more \o Tail(act[p].todo)
       \/ act'[p].todo = Caught(act[p].todo)
       \/ act'[p].todo \in Seq(NeutralSteps)

(* Before and after such a step the registry is at rest. *)
LEMMA RegNeutral ==
    ASSUME TypeInv, RegInv, NEW p \in Procs, act[p].todo # <<>>,
           Head(act[p].todo) \notin RegistrySteps
    PROVE  /\ KnowsReg(p, Rest.now) /\ act[p].op # "idle"
           /\ Path(RegRules(act[p].op), act[p].todo, Rest, Rest)
           /\ Path(RegRules(act[p].op), Tail(act[p].todo), Rest, Rest)
<1>1. PICK l \in Label, m \in Label :
                /\ KnowsReg(p, l.now) /\ RegRule(act[p].op, l, Head(act[p].todo), m)
                /\ Path(RegRules(act[p].op), act[p].todo, l, Rest)
                /\ Path(RegRules(act[p].op), Tail(act[p].todo), m, Rest)
  BY RegHere
<1>2. l = Rest /\ m = Rest
  BY <1>1 DEF RegRule
<1> QED
  BY <1>1, <1>2, RegHere

(* Such a step keeps the invariant. *)
LEMMA RegNeutralKeeps ==
    ASSUME TypeInv, RegInv, NEW p \in Procs, act[p].todo # <<>>,
           Head(act[p].todo) \notin RegistrySteps, NeutralMove(p)
    PROVE  RegInv'
<1> DEFINE op == act[p].op
<1>1. /\ KnowsReg(p, Rest.now) /\ Path(RegRules(op), act[p].todo, Rest, Rest)
      /\ Path(RegRules(op), Tail(act[p].todo), Rest, Rest)
  BY RegNeutral
<1>2. /\ RegApart' /\ RegPids' /\ RegListed'
      /\ \A q \in Procs : \A N : KnowsReg(q, N) => KnowsReg(q, N)'
  BY RegKeeps DEF NeutralMove
<1>3. \A q \in Procs \ {p} : RegWalk(q)'
  BY <1>2, RegOthers DEF NeutralMove, Others
<1>4. act'[p].op = op
  BY DEF NeutralMove, RegKept
<1>5. \E a \in Label : a.now \subseteq Rest.now /\ Path(RegRules(op), act'[p].todo, a, Rest)
  <2>1. CASE \E more \in Seq(NeutralSteps) : act'[p].todo = more \o Tail(act[p].todo)
    <3>1. PICK more \in Seq(NeutralSteps) : act'[p].todo = more \o Tail(act[p].todo)
      BY <2>1
    <3>2. Path(RegRules(op), more, Rest, Rest)
      BY RegStay
    <3> HIDE DEF op
    <3>3. Path(RegRules(op), more \o Tail(act[p].todo), Rest, Rest)
      BY <1>1, <3>2, PathCat
    <3> QED
      BY <3>1, <3>3, RestLabel
  <2>2. CASE act'[p].todo = Caught(act[p].todo)
    <3>1. Throwing(RegRules(op)) /\ Rest.now \subseteq Rest.then /\ Rest.then = Rest.now
      BY RegThrowing, RestLabel
    <3> HIDE DEF op
    <3>2. \E a \in Label : a.now \subseteq Rest.then /\ Path(RegRules(op), Caught(act[p].todo), a, Rest)
      BY <1>1, <3>1, PathCut
    <3> QED
      BY <2>2, <3>1, <3>2
  <2>3. CASE act'[p].todo \in Seq(NeutralSteps)
    BY <2>3, RegStay, RestLabel
  <2> QED
    BY <2>1, <2>2, <2>3 DEF NeutralMove
<1>6. PICK a \in Label : a.now \subseteq Rest.now /\ Path(RegRules(op), act'[p].todo, a, Rest)
  BY <1>5
<1>7. KnowsReg(p, a.now)'
  <2>1. KnowsReg(p, Rest.now)'
    BY <1>1, <1>2
  <2> QED
    BY <1>6, <2>1 DEF KnowsReg
<1>8. RegWalk(p)'
  BY <1>4, <1>6, <1>7 DEF RegWalk
<1> QED
  BY <1>2, <1>3, <1>8 DEF RegInv

(* What is inserted by steps of the settings is no step of the registry. *)
LEMMA SettingNeutral == \A s \in Seq(SettingSteps) : s \in Seq(NeutralSteps)
<1>1. SettingSteps \subseteq NeutralSteps
  BY DEF SettingSteps, NeutralSteps, RegistrySteps, Settings
<1> QED
  BY <1>1

(* Some calls that are inserted. *)
LEMMA NeutralSome ==
    /\ <<Do("editPerm")>> \in Seq(NeutralSteps) /\ <<Do("loadSys")>> \in Seq(NeutralSteps)
    /\ <<Do("catch"), Do("orBlank")>> \in Seq(NeutralSteps)
    /\ <<Do("calibrateIfZero")>> \in Seq(NeutralSteps) /\ <<Do("catch")>> \in Seq(NeutralSteps)
<1>1. {"editPerm", "loadSys", "catch", "orBlank", "calibrateIfZero"} \subseteq NeutralCalls
  BY DEF NeutralCalls, Words
<1> QED
  BY <1>1, NeutralFew

(* A step of the settings changes nothing of the registry. *)
LEMMA RegSettings ==
    ASSUME TypeInv, NEW p \in Procs, SettingMove(p) \/ MenuMove(p)
    PROVE  NeutralMove(p)
<1>1. Elsewhere(p) /\ Others(p) /\ act'[p].op = act[p].op
  BY DEF SettingMove, MenuMove, Moved
<1>2. RegKept
  BY <1>1 DEF RegKept, Elsewhere, Others
<1>3. CASE SettingMove(p)
  <2>1. PICK more \in Seq(SettingSteps) : Moved(p, more)
    BY <1>3 DEF SettingMove
  <2>2. more \in Seq(NeutralSteps) /\ act'[p].todo = more \o Tail(act[p].todo)
    BY <2>1, SettingNeutral DEF Moved
  <2> QED
    BY <1>1, <1>2, <2>2 DEF NeutralMove
<1>4. CASE MenuMove(p)
  <2>1. PICK more \in Seq(SettingSteps) : act'[p].todo = more \o <<Do("editPerm")>>
    BY <1>4 DEF MenuMove
  <2>2. more \in Seq(NeutralSteps) /\ <<Do("editPerm")>> \in Seq(NeutralSteps)
    BY SettingNeutral, NeutralSome
  <2>3. act'[p].todo \in Seq(NeutralSteps)
    BY <2>1, <2>2, NeutralCat
  <2> QED
    BY <1>1, <1>2, <2>3 DEF NeutralMove
<1> QED
  BY <1>3, <1>4

(* p goes on, and nothing of the registry is changed. *)
LEMMA RegMoved ==
    ASSUME NEW p \in Procs, NEW more \in Seq(NeutralSteps), Moved(p, more),
           act'[p].reg = act[p].reg, StoreKept("reg"), GrantsKept, HistoryKept
    PROVE  NeutralMove(p)
<1>1. RegKept
  BY DEF RegKept, Moved, Others
<1> QED
  BY <1>1 DEF NeutralMove, Moved

(* The same, where only the process changed. *)
LEMMA RegGot ==
    ASSUME TypeInv, NEW p \in Procs, act[p].todo # <<>>, NEW a \in ActType,
           a.op = act[p].op, a.todo = act[p].todo, a.reg = act[p].reg,
           NEW more \in Seq(NeutralSteps), Got(p, a, more)
    PROVE  NeutralMove(p)
<1>1. Continue(p, a, more) /\ UNCHANGED file /\ UNCHANGED mem /\ UNCHANGED history
  BY DEF Got
<1>2. HistoryKept /\ StoreKept("reg") /\ GrantsKept
  BY <1>1 DEF history, HistoryKept, StoreKept, GrantsKept
<1>3. more \in Seq(Steps)
  BY DEF NeutralSteps
<1>4. Moved(p, more) /\ act'[p].reg = a.reg
  BY <1>1, <1>3, MovedBy
<1> QED
  BY <1>2, <1>4, RegMoved

(* Files of the fingerprint are no files of the registry. *)
LEMMA RegOtherFile ==
    ASSUME TypeInv, NEW f \in Files, f[1] # "reg", NEW c, file' = [file EXCEPT ![f] = c]
    PROVE  StoreKept("reg")
<1>1. file \in [Files -> UNION {FileType(s) : s \in Stores}]
  BY DEF TypeInv, Types, FileTypes
<1>2. \A g \in Files : g # f => file'[g] = file[g]
  BY <1>1
<1> QED
  BY <1>2 DEF StoreKept

(* An error changes nothing of the registry. *)
LEMMA RegThrown ==
    ASSUME TypeInv, NEW p \in Procs, Throw(p), UNCHANGED file, UNCHANGED mem, HistoryKept
    PROVE  NeutralMove(p)
<1>1. act \in [Procs -> ActType]
  BY DEF TypeInv, Types, ActTypes
<1>2. Others(p) /\ act'[p].op = act[p].op /\ act'[p].todo = Caught(act[p].todo) /\ act'[p].reg = act[p].reg
  BY <1>1, ThrowEffect
<1>3. StoreKept("reg") /\ GrantsKept
  BY DEF StoreKept, GrantsKept
<1>4. RegKept
  BY <1>2, <1>3 DEF RegKept, Others
<1> QED
  BY <1>2, <1>4 DEF NeutralMove

(* Opening, filling and removing a file of the fingerprint. *)
LEMMA RegSysFiles ==
    ASSUME TypeInv, NEW p \in Procs, Head(act[p].todo)[2] = "sys",
           Open(p) \/ Fill(p) \/ RemoveFile(p)
    PROVE  NeutralMove(p)
<1> DEFINE f == Target(p)
<1>1. act[p].todo # <<>> /\ Head(act[p].todo)[1] \in {"open", "fill", "remove"}
  BY AtHead DEF Open, Fill, RemoveFile, Turn
<1>2. f \in Files /\ f[1] = "sys"
  BY <1>1, SysPlace DEF Files
<1>3. act[p] \in ActType /\ <<>> \in Seq(Steps) /\ <<>> \in Seq(NeutralSteps)
  BY <1>1, TypeHere
<1>4. UNCHANGED mem /\ UNCHANGED history
  BY DEF Open, Fill, RemoveFile
<1>5. HistoryKept /\ GrantsKept
  BY <1>4 DEF history, HistoryKept, GrantsKept
<1>6. \/ Throw(p) /\ UNCHANGED file
      \/ Continue(p, act[p], <<>>) /\ \E c : file' = [file EXCEPT ![f] = c]
  <2>1. CASE Open(p)
    BY <2>1 DEF Open
  <2>2. CASE Fill(p)
    BY <2>2 DEF Fill
  <2>3. CASE RemoveFile(p)
    BY <2>3 DEF RemoveFile
  <2> QED
    BY <2>1, <2>2, <2>3
<1>7. CASE Throw(p) /\ UNCHANGED file
  BY <1>4, <1>5, <1>7, RegThrown
<1>8. CASE Continue(p, act[p], <<>>) /\ \E c : file' = [file EXCEPT ![f] = c]
  <2>1. StoreKept("reg")
    <3>1. f[1] # "reg"
      BY <1>2
    <3> HIDE DEF f
    <3> QED
      BY <1>2, <1>8, <3>1, RegOtherFile
  <2>2. Moved(p, <<>>) /\ act'[p].reg = act[p].reg
    BY <1>1, <1>3, <1>8, MovedBy
  <2> QED
    BY <1>3, <1>5, <2>1, <2>2, RegMoved
<1> QED
  BY <1>6, <1>7, <1>8

(* Loading the fingerprint. *)
LEMMA RegLoadSys ==
    ASSUME TypeInv, NEW p \in Procs, LoadSys(p)
    PROVE  NeutralMove(p)
<1>0. act[p].todo # <<>>
  BY AtHead DEF LoadSys, Turn
<1>1. act[p] \in ActType
  BY <1>0, TypeHere
<1>2. PICK more \in SysLoads :
        \/ \E c \in Silicon : Got(p, [act[p] EXCEPT !.sys = c], more)
        \/ Got(p, act[p], more)
  BY LoadSysEffect
<1>3. more \in Seq(NeutralSteps)
  <2>1. <<Do("catch"), Do("orBlank")>> \in Seq(NeutralSteps) /\ <<Do("loadSys")>> \in Seq(NeutralSteps)
    BY NeutralSome
  <2>2. <<>> \in Seq(NeutralSteps)
    OBVIOUS
  <2>3. \A s \in SysLoads : s \in Seq(NeutralSteps)
    BY <2>1, <2>2, NeutralParts, NeutralCat DEF SysLoads
  <2> QED
    BY <2>3
<1>4. CASE Got(p, act[p], more)
  BY <1>0, <1>1, <1>3, <1>4, RegGot
<1>5. CASE \E c \in Silicon : Got(p, [act[p] EXCEPT !.sys = c], more)
  <2>1. PICK c \in Silicon : Got(p, [act[p] EXCEPT !.sys = c], more)
    BY <1>5
  <2> DEFINE a == [act[p] EXCEPT !.sys = c]
  <2>2. a \in ActType /\ a.op = act[p].op /\ a.todo = act[p].todo /\ a.reg = act[p].reg
    BY <1>1 DEF ActType
  <2>3. Got(p, a, more)
    BY <2>1
  <2> HIDE DEF a
  <2> QED
    BY <1>0, <1>3, <2>2, <2>3, RegGot
<1> QED
  BY <1>2, <1>4, <1>5

(* Probing the hardware, and looking at an error: the operation ends there, *)
(* or goes on.                                                              *)
LEMMA RegProbe ==
    ASSUME TypeInv, NEW p \in Procs, Probe(p)
    PROVE  NeutralMove(p)
<1>0. act[p].todo # <<>>
  BY Zenon, AtHead DEF Probe
<1>1. act[p] \in ActType /\ <<>> \in Seq(NeutralSteps)
  BY <1>0, TypeHere
<1>2. ASSUME NEW c \in Silicon, Got(p, [act[p] EXCEPT !.sys = c], <<>>) PROVE NeutralMove(p)
  <2> DEFINE a == [act[p] EXCEPT !.sys = c]
  <2>2. a \in ActType /\ a.op = act[p].op /\ a.todo = act[p].todo /\ a.reg = act[p].reg
    BY <1>1 DEF ActType
  <2>3. Got(p, a, <<>>)
    BY <1>2
  <2> HIDE DEF a
  <2> QED
    BY <1>0, <1>1, <2>2, <2>3, RegGot
<1>3. CASE Got(p, act[p], <<>>)
  BY <1>0, <1>1, <1>3, RegGot
<1>4. CASE Got(p, [act[p] EXCEPT !.todo = <<Do("")>>], <<>>)
  <2> DEFINE u == <<Do("")>>
             a == [act[p] EXCEPT !.todo = u]
  <2>u. u \in Seq(Steps) /\ u # <<>> /\ Tail(u) = <<>>
    BY Zenon, DoStep, OneStep DEF Words
  <2>2. Continue(p, a, <<>>) /\ UNCHANGED file /\ UNCHANGED mem /\ UNCHANGED history
    BY Zenon, <1>4 DEF Got
  <2>3. a \in ActType /\ a.op = act[p].op /\ a.reg = act[p].reg /\ a.todo = u
    BY Zenon, <1>1, <2>u DEF ActType
  <2>4. act \in [Procs -> ActType]
    BY DEF TypeInv, Types, ActTypes
  <2> HIDE DEF u, a
  <2>5. Became(p, a, <<>>)
    BY <2>2, <2>3, <2>4, <2>u, ContinueNil
  <2>6. Others(p) /\ act'[p].op = act[p].op /\ act'[p].todo = <<>> /\ act'[p].reg = act[p].reg
    BY <2>3, <2>5 DEF Became
  <2>7. StoreKept("reg") /\ GrantsKept /\ HistoryKept
    BY <2>2 DEF StoreKept, GrantsKept, history, HistoryKept
  <2>8. RegKept
    BY <2>6, <2>7 DEF RegKept, Others
  <2> QED
    BY <1>1, <2>6, <2>8 DEF NeutralMove
<1>5. CASE Got(p, [act[p] EXCEPT !.sys = IF @ = None THEN "blank" ELSE @], <<>>)
  <2> DEFINE c == IF act[p].sys = None THEN "blank" ELSE act[p].sys
  <2>1. c \in Silicon /\ Got(p, [act[p] EXCEPT !.sys = c], <<>>)
    BY <1>1, <1>5 DEF ActType, Silicon
  <2> QED
    BY <1>2, <2>1
<1>6. "probed" \in Silicon
  BY DEF Silicon
<1> QED
  BY Zenon, <1>2, <1>3, <1>4, <1>5, <1>6 DEF Probe

(* The arbiter's lock, and its synchronisations. *)
LEMMA RegLocks ==
    ASSUME TypeInv, NEW p \in Procs, act[p].todo # <<>>,
           Lock(p) \/ (Sync(p) /\ Head(act[p].todo)[1] # "total")
    PROVE  NeutralMove(p)
<1>1. ASSUME NEW m0, m0.active = mem[p].active, NEW more \in Seq(NeutralSteps), Arbiter(p, m0, more)
      PROVE  NeutralMove(p)
  <2>1. more \in Seq(Steps)
    BY DEF NeutralSteps
  <2>2. /\ Moved(p, more) /\ HistoryKept /\ UNCHANGED file
        /\ act'[p].reg = act[p].reg
        /\ mem'[p] = m0 /\ \A q \in Procs \ {p} : mem'[q] = mem[q]
    BY <1>1, <2>1, MovedArbiter
  <2>3. GrantsKept /\ StoreKept("reg")
    BY <1>1, <2>2 DEF GrantsKept, StoreKept
  <2> QED
    BY <2>2, <2>3, RegMoved
<1>2. <<>> \in Seq(NeutralSteps) /\ mem[p] \in MemType
  BY DEF TypeInv, Types
<1>3. CASE Lock(p)
  <2>1. PICK h \in BOOLEAN : Arbiter(p, [mem[p] EXCEPT !.held = h], <<>>)
    BY <1>3 DEF Lock
  <2> DEFINE m0 == [mem[p] EXCEPT !.held = h]
  <2>2. m0.active = mem[p].active
    BY <1>2 DEF MemType
  <2>3. Arbiter(p, m0, <<>>)
    BY <2>1
  <2> HIDE DEF m0
  <2> QED
    BY <1>1, <1>2, <2>2, <2>3
<1>4. CASE Sync(p) /\ Head(act[p].todo)[1] # "total"
  <2>1. <<Do("calibrateIfZero")>> \in Seq(NeutralSteps) /\ <<Do("catch")>> \in Seq(NeutralSteps)
    BY NeutralSome
  <2>2. SyncTotal \o <<Do("calibrateIfZero")>> \in Seq(NeutralSteps)
        /\ AutoCalibrate \o <<Do("catch")>> \in Seq(NeutralSteps)
    BY <2>1, NeutralParts, NeutralCat
  <2>3. ~At(p, "total")
    BY <1>4, AtHead
  <2>4. \E more \in Seq(NeutralSteps) : Arbiter(p, mem[p], more)
    BY <1>2, <1>4, <2>2, <2>3 DEF Sync
  <2> QED
    BY <1>1, <2>4
<1> QED
  BY <1>3, <1>4

-----------------------------------------------------------------------------
(* Renaming a file of the fingerprint *)

(* Who goes on writing under the new name is where it was. *)
LEMMA RegFollow ==
    ASSUME TypeInv, RegInv, NEW q \in Procs, NEW ext \in {"json", "bin"},
           NEW tmp \in {"json.tmp", "bin.tmp"},
           Follows(act[q], act'[q], <<"fill", "sys", tmp>>, <<"fill", "sys", ext>>),
           \A N : KnowsReg(q, N) => KnowsReg(q, N)'
    PROVE  RegWalk(q)'
<1> DEFINE a == act[q]
           x == <<"fill", "sys", tmp>>
           y == <<"fill", "sys", ext>>
<1>1. act'[q].op = a.op
  BY DEF Follows
<1>2. ASSUME NEW l \in Label, KnowsReg(q, l.now), Path(RegRules(a.op), act'[q].todo, l, Rest)
      PROVE  RegWalk(q)'
  BY <1>1, <1>2 DEF RegWalk
<1>3. CASE act'[q].todo = a.todo
  <2>1. CASE a.op = "idle"
    BY <1>1, <2>1 DEF RegWalk
  <2>2. CASE a.op # "idle"
    BY <1>2, <1>3, <2>2 DEF RegInv, RegWalk
  <2> QED
    BY <2>1, <2>2
<1>4. CASE a.todo # <<>> /\ Head(a.todo) = x /\ act'[q].todo = [a.todo EXCEPT ![1] = y]
  <2>1. x \in Steps /\ y \in Steps /\ x \notin RegistrySteps /\ y \notin RegistrySteps
    <3>1. x \in Steps /\ y \in Steps /\ x[1] = "fill" /\ x[2] = "sys" /\ y[1] = "fill" /\ y[2] = "sys"
      BY Zenon DEF Steps, Words, Places, Extensions
    <3> HIDE DEF x, y
    <3> QED
      BY <3>1 DEF RegistrySteps
  <2>2. KnowsReg(q, Rest.now) /\ Path(RegRules(a.op), a.todo, Rest, Rest)
    BY <1>4, <2>1, RegNeutral
  <2> HIDE DEF x, y
  <2>3. \A n \in Label : <<Rest, x, n>> \in RegRules(a.op) => <<Rest, y, n>> \in RegRules(a.op)
    BY <2>1, RestLabel, RegRulesDef DEF RegRule
  <2>4. Path(RegRules(a.op), act'[q].todo, Rest, Rest)
    <3> HIDE DEF a
    <3> QED
      BY <1>4, <2>1, <2>2, <2>3, RestLabel, PathNewHead
  <2> QED
    BY <1>2, <2>2, <2>4, RestLabel
<1> QED
  BY <1>3, <1>4 DEF Follows

(* Renaming a file of the fingerprint changes nothing of the registry. *)
LEMMA RegRename ==
    ASSUME TypeInv, RegInv, NEW p \in Procs, Rename(p)
    PROVE  RegInv'
<1> DEFINE x == Head(act[p].todo)
           ext == x[3]
           tmp == IF ext = "json" THEN "json.tmp" ELSE "bin.tmp"
<1>1. act[p].todo # <<>> /\ x[1] = "rename"
  BY AtHead DEF Rename, Turn
<1>2. Fits(act[p].op, x) /\ act[p] \in ActType /\ act[p].op # "idle"
  BY <1>1, TypeHere DEF Goes, TypeRule
<1>3. x[2] = "sys" /\ ext \in {"json", "bin"} /\ Target(p) = <<"sys", ext>>
  BY <1>1, <1>2 DEF Fits, Target
<1>t. Tmp(Target(p)) = <<"sys", tmp>>
  BY <1>3 DEF Tmp
<1>m. UNCHANGED mem /\ HistoryKept
  BY DEF Rename, history, HistoryKept
<1>n. x \notin RegistrySteps
  BY <1>1 DEF RegistrySteps
<1>4. CASE file[<<"sys", tmp>>] = Absent
  <2>1. Throw(p) /\ UNCHANGED file
    BY <1>4, <1>t DEF Rename
  <2>2. NeutralMove(p)
    BY <1>m, <2>1, RegThrown
  <2> QED
    BY <1>1, <1>n, <2>2, RegNeutralKeeps
<1>5. CASE file[<<"sys", tmp>>] # Absent
  <2>0. act \in [Procs -> ActType] /\ file \in [Files -> UNION {FileType(s) : s \in Stores}]
    BY DEF TypeInv, Types, ActTypes, FileTypes
  <2>x. tmp \in {"json.tmp", "bin.tmp"}
    OBVIOUS
  <2> HIDE DEF tmp, ext
  <2>1. /\ act' \in [Procs -> ActType]
        /\ act'[p] = [act[p] EXCEPT !.todo = Tail(act[p].todo)]
        /\ \A q \in Procs : q # p => Follows(act[q], act'[q], <<"fill", "sys", tmp>>, <<"fill", "sys", ext>>)
        /\ file' = [file EXCEPT ![<<"sys", ext>>] = file[<<"sys", tmp>>], ![<<"sys", tmp>>] = Absent]
    BY <1>1, <1>3, <1>5, <2>0, RenameEffect DEF tmp
  <2>2. StoreKept("reg")
    <3>1. ASSUME NEW f \in Files, f[1] = "reg" PROVE file'[f] = file[f]
      <4>1. f # <<"sys", ext>> /\ f # <<"sys", tmp>>
        BY <3>1
      <4> QED
        BY <2>0, <2>1, <4>1
    <3> QED
      BY <3>1 DEF StoreKept
  <2>3. act'[p].todo = Tail(act[p].todo) /\ act'[p].op = act[p].op /\ act'[p].reg = act[p].reg
    BY <1>2, <2>1 DEF ActType
  <2>4. RegKept
    <3>1. \A q \in Procs : act'[q].op = act[q].op /\ act'[q].reg = act[q].reg
      BY <2>1, <2>3 DEF Follows
    <3> QED
      BY <1>m, <2>2, <3>1 DEF RegKept, GrantsKept
  <2>5. /\ RegApart' /\ RegPids' /\ RegListed'
        /\ \A q \in Procs : \A N : KnowsReg(q, N) => KnowsReg(q, N)'
    BY <2>4, RegKeeps
  <2>6. \A q \in Procs \ {p} : RegWalk(q)'
    BY <1>3, <2>1, <2>5, <2>x, RegFollow
  <2>7. KnowsReg(p, Rest.now) /\ Path(RegRules(act[p].op), Tail(act[p].todo), Rest, Rest)
    BY <1>1, <1>n, RegNeutral
  <2>8. RegWalk(p)'
    BY <2>3, <2>5, <2>7, RestLabel DEF RegWalk
  <2> QED
    BY <2>5, <2>6, <2>8 DEF RegInv
<1> QED
  BY <1>4, <1>5

-----------------------------------------------------------------------------
(* Steps of the registry *)

(* While nobody has met another one, the file is right of the other processes. *)
LEMMA RegRight ==
    ASSUME RegInv, NEW p \in Procs, Uses(p), Alone, NEW q \in Procs \ {p}, Lists(q)
    PROVE  Holds(q)
<1>1. ~Uses(q)
  BY DEF RegInv, RegApart
<1> QED
  BY <1>1 DEF RegInv, RegListed

(* A step of a process that uses the registry. *)
LEMMA RegOn ==
    ASSUME RegInv, NEW p \in Procs, Uses(p), Others(p), act'[p].op = act[p].op,
           UNCHANGED gen, UNCHANGED mixed, RegPids',
           \A q \in Procs \ {p} : Alone /\ Lists(q)' => Holds(q)',
           NEW k \in Label, KnowsReg(p, k.now)', Path(RegRules(act[p].op), act'[p].todo, k, Rest)
    PROVE  RegInv'
<1>1. (Alone' <=> Alone) /\ \A q \in Procs : Uses(q)' <=> Uses(q)
  BY DEF Alone, Uses, Others
<1>2. RegApart'
  BY <1>1 DEF RegInv, RegApart
<1>3. RegListed'
  BY <1>1 DEF RegListed
<1>4. RegWalk(p)'
  BY DEF RegWalk
<1>5. ASSUME NEW q \in Procs \ {p} PROVE RegWalk(q)'
  <2>1. \A N : KnowsReg(q, N)'
    BY <1>1, <1>2 DEF KnowsReg, RegApart
  <2> QED
    BY <2>1, RegOthers DEF Others
<1> QED
  BY <1>2, <1>3, <1>4, <1>5 DEF RegInv

(* What is known before a step of the registry, and after it. *)
LEMMA RegAt ==
    ASSUME TypeInv, RegInv, NEW p \in Procs, act[p].todo # <<>>,
           Head(act[p].todo) \in RegistrySteps
    PROVE  LET x == Head(act[p].todo) IN
           /\ Uses(p)
           /\ \E l, m \in Label :
                /\ KnowsReg(p, l.now) /\ RegNeeds(x) \subseteq l.now
                /\ m.now \subseteq (l.now \ RegLoses(x)) \cup RegGains(x, l.now) /\ m.then = l.then
                /\ Path(RegRules(act[p].op), Tail(act[p].todo), m, Rest)
  BY RegHere DEF RegRule, Uses

(* What was read of the registry is known where it is used. *)
LEMMA RegRead ==
    ASSUME TypeInv, NEW p \in Procs, act[p].todo # <<>>,
           "read" \in TypeNeeds(act[p].op, Head(act[p].todo))
    PROVE  act[p].reg \in SUBSET Pids /\ act[p].reg # None
<1>1. PICK l, m, e \in Label : Goes(p, l, m, e)
  BY TypeHere
<1>2. act[p].reg \in SUBSET Pids
  BY <1>1 DEF Goes, TypeRule, KnowsTypes
<1> QED
  BY <1>2, GovernorAssumption

(* Opening and filling the file of the registry: it becomes the copy of    *)
(* the process, or nothing.                                                *)
LEMMA RegWrite ==
    ASSUME TypeInv, RegInv, NEW p \in Procs, act[p].todo # <<>>,
           Head(act[p].todo)[2] = "reg", Open(p) \/ Fill(p)
    PROVE  RegInv'
<1> DEFINE x == Head(act[p].todo)
           f == Target(p)
           r == act[p].reg
<1>1. x[1] \in {"open", "fill"} /\ (Fill(p) => x[1] = "fill")
  BY AtHead DEF Open, Fill, Turn
<1>2. PICK lt, mt, et \in Label : Goes(p, lt, mt, et)
  BY TypeHere
<1>3. f = <<"reg", "json">> /\ f \in Files /\ f[1] = "reg"
  BY <1>1, <1>2 DEF Goes, TypeRule, Fits, Target, Files, Settings
<1>4. act[p] \in ActType /\ x \in Steps /\ <<>> \in Seq(Steps)
  BY TypeHere
<1>5. f \notin locked
  BY <1>3 DEF TypeInv, Types
<1>6. /\ \E c : file' = [file EXCEPT ![f] = c] /\ (c \in {Torn, Absent} \/ (c = r /\ r # None))
      /\ Continue(p, act[p], <<>>) /\ UNCHANGED mem /\ UNCHANGED history
  <2>1. CASE Open(p)
    BY <1>5, <2>1 DEF Open
  <2>2. CASE Fill(p)
    <3>1. r # None
      <4>1. "read" \in TypeNeeds(act[p].op, x)
        BY <1>1, <2>2 DEF TypeNeeds
      <4> QED
        BY <4>1, RegRead
    <3>2. act[p][f[1]] = r
      BY <1>3
    <3>3. \E c \in CASE file[f] = Torn -> {r}
                     [] file[f] = Absent -> {Absent}
                     [] OTHER -> {r, Torn} :
              file' = [file EXCEPT ![f] = c]
      BY <2>2, <3>2 DEF Fill
    <3>4. CASE file[f] = Torn
      BY <2>2, <3>1, <3>3, <3>4 DEF Fill
    <3>5. CASE file[f] # Torn /\ file[f] = Absent
      BY <2>2, <3>1, <3>3, <3>5 DEF Fill
    <3>6. CASE file[f] # Torn /\ file[f] # Absent
      <4>1. (CASE file[f] = Torn -> {r}
               [] file[f] = Absent -> {Absent}
               [] OTHER -> {r, Torn}) = {r, Torn}
        BY <3>6
      <4> QED
        BY <2>2, <3>1, <3>3, <4>1 DEF Fill
    <3> QED
      BY <3>4, <3>5, <3>6
  <2> QED
    BY <2>1, <2>2
<1>7. PICK c : file' = [file EXCEPT ![f] = c] /\ (c \in {Torn, Absent} \/ (c = r /\ r # None))
  BY <1>6
<1>8. Listing' = c
  <2>1. file \in [Files -> UNION {FileType(s) : s \in Stores}]
    BY DEF TypeInv, Types, FileTypes
  <2> HIDE DEF f
  <2>2. file'[f] = c
    BY <1>3, <1>7, <2>1
  <2> QED
    BY <1>3, <2>2 DEF Listing
<1>9. UNCHANGED gen /\ UNCHANGED mixed
  BY <1>6 DEF history
<1>10. Moved(p, <<>>) /\ act'[p].reg = r
  BY <1>4, <1>6, MovedBy
<1>11. Others(p) /\ act'[p].op = act[p].op /\ act'[p].todo = Tail(act[p].todo)
  <2>1. act[p].todo \in Seq(Steps) /\ Tail(act[p].todo) \in Seq(Steps)
    BY TypeHere
  <2> QED
    BY <1>10, <2>1 DEF Moved
<1> HIDE DEF f
<1>12. x \in RegistrySteps
  BY <1>1, <1>4 DEF RegistrySteps
<1>13. Uses(p)
  BY <1>12, RegAt
<1>14. PICK l, m \in Label :
          /\ KnowsReg(p, l.now) /\ RegNeeds(x) \subseteq l.now
          /\ m.now \subseteq (l.now \ RegLoses(x)) \cup RegGains(x, l.now) /\ m.then = l.then
          /\ Path(RegRules(act[p].op), Tail(act[p].todo), m, Rest)
  BY <1>12, RegAt
<1>15. {"others", "self"} \subseteq l.now /\ m.now \subseteq l.now \cup {"listed"}
  <2>1. RegNeeds(x) = {"others", "self"} /\ RegLoses(x) = {} /\ RegGains(x, l.now) = {"listed"}
    BY <1>1 DEF RegNeeds, RegLoses, RegGains
  <2> QED
    BY <1>14, <2>1
<1> HIDE DEF x
<1>16. (Alone' <=> Alone) /\ \A q \in Procs : (Holds(q)' <=> Holds(q)) /\ Pid(q)' = Pid(q)
  BY <1>6, <1>9 DEF Alone, Holds, Pid
<1>17. Whole(<<"reg", "json">>)' => c = r /\ r # None
  BY <1>7, <1>8 DEF Whole, Listing
<1>18. RegPids'
  <2>1. \A q \in Procs : act'[q].reg = act[q].reg
    BY <1>10, <1>11 DEF Others
  <2> QED
    BY <1>8, <1>9, <1>17, <2>1 DEF RegInv, RegPids, Started
<1>19. \A q \in Procs : Lists(q)' => Pid(q) \in r
  BY <1>8, <1>16, <1>17 DEF Lists
<1>20. \A q \in Procs \ {p} : Alone /\ Lists(q)' => Holds(q)'
  BY <1>13, <1>14, <1>15, <1>16, <1>17, <1>19 DEF KnowsReg, Lists
<1>21. KnowsReg(p, m.now)'
  <2> SUFFICES ASSUME Alone'
               PROVE  /\ "listed" \in m.now => (Lists(p) => Holds(p))'
                      /\ "others" \in m.now => \A q \in Procs \ {p} : (act[p].reg # None /\ Pid(q) \in act[p].reg => Holds(q))'
                      /\ "self" \in m.now => (Pid(p) \in act[p].reg => Holds(p))'
                      /\ "holding" \in m.now => Holds(p)'
    BY DEF KnowsReg
  <2>1. /\ \A q \in Procs : r # None /\ Pid(q) \in r => Holds(q)
        /\ "holding" \in l.now => Holds(p)
    BY <1>13, <1>14, <1>15, <1>16 DEF KnowsReg
  <2>2. Lists(p)' => Pid(p) \in r /\ r # None
    BY <1>17, <1>19 DEF Lists
  <2>3. Pid(p) \in r => Holds(p)
    BY <1>13, <1>14, <1>15, <1>16 DEF KnowsReg
  <2> HIDE DEF r
  <2> QED
    BY <1>10, <1>15, <1>16, <2>1, <2>2, <2>3
<1> QED
  BY <1>9, <1>11, <1>13, <1>14, <1>18, <1>20, <1>21, RegOn

(* Reading the file of the registry. *)
LEMMA RegLoadRegistry ==
    ASSUME TypeInv, RegInv, NEW p \in Procs, LoadRegistry(p)
    PROVE  RegInv'
<1> DEFINE x == Head(act[p].todo)
           f == <<"reg", "json">>
           r == IF Whole(f) THEN file[f] ELSE {}
           b == [act[p] EXCEPT !.reg = r]
<1>1. act[p].todo # <<>> /\ x[1] = "loadReg"
  BY AtHead DEF LoadRegistry, Turn
<1>2. act[p] \in ActType /\ x \in Steps /\ act[p].todo \in Seq(Steps) /\ Tail(act[p].todo) \in Seq(Steps)
      /\ <<>> \in Seq(Steps)
  BY <1>1, TypeHere
<1>3. Got(p, b, <<>>)
  BY Zenon DEF LoadRegistry
<1>4. r \in SUBSET Pids
  <2>1. file[f] \in FileType("reg")
    <3>1. f \in Files /\ f[1] = "reg"
      BY DEF Files, Settings
    <3> QED
      BY <3>1 DEF TypeInv, Types, FileTypes
  <2> QED
    BY <2>1 DEF FileType, Whole
<1>5. /\ \A q \in Procs : Pid(q) \in r => Lists(q)
      /\ Started(r)
  BY DEF Lists, Listing, RegInv, RegPids, Started
<1> HIDE DEF r, x
<1>6. b \in ActType /\ b.op = act[p].op /\ b.todo = act[p].todo /\ b.reg = r
  BY <1>2, <1>4, RegistryWritten
<1> HIDE DEF b
<1>7. Continue(p, b, <<>>) /\ UNCHANGED file /\ UNCHANGED mem /\ UNCHANGED gen /\ UNCHANGED mixed
  BY <1>3 DEF Got, history
<1>8. Moved(p, <<>>) /\ act'[p].reg = r
  BY <1>1, <1>2, <1>6, <1>7, MovedBy
<1>9. Others(p) /\ act'[p].op = act[p].op /\ act'[p].todo = Tail(act[p].todo)
  BY <1>2, <1>8 DEF Moved
<1>10. x \in RegistrySteps
  BY <1>1, <1>2 DEF RegistrySteps
<1>11. PICK l, m \in Label :
          /\ KnowsReg(p, l.now)
          /\ m.now \subseteq (l.now \ RegLoses(x)) \cup RegGains(x, l.now)
          /\ Path(RegRules(act[p].op), Tail(act[p].todo), m, Rest)
  BY <1>1, <1>10, RegAt DEF x
<1>12. Uses(p)
  BY <1>1, <1>10, RegAt DEF x
<1>13. m.now \subseteq (l.now \ {"self"}) \cup {"others"} \cup (IF "listed" \in l.now THEN {"self"} ELSE {})
  <2>1. RegLoses(x) = {"self"}
        /\ RegGains(x, l.now) = {"others"} \cup (IF "listed" \in l.now THEN {"self"} ELSE {})
    BY <1>1 DEF RegLoses, RegGains
  <2> QED
    BY <1>11, <2>1
<1>14. (Alone' <=> Alone) /\ \A q \in Procs : (Holds(q)' <=> Holds(q)) /\ (Lists(q)' <=> Lists(q)) /\ Pid(q)' = Pid(q)
  BY <1>7 DEF Alone, Holds, Pid, Lists, Listing, Whole
<1>15. RegPids'
  <2>1. (Whole(<<"reg", "json">>) => Started(Listing))'
    BY <1>7 DEF RegInv, RegPids, Started, Whole, Listing
  <2>2. \A q \in Procs : (act[q].reg # None => Started(act[q].reg))'
    BY <1>5, <1>7, <1>8, <1>9 DEF RegInv, RegPids, Started, Others
  <2> QED
    BY <2>1, <2>2 DEF RegPids
<1>16. Alone => \A q \in Procs \ {p} : Lists(q) => Holds(q)
  BY <1>12, RegRight
<1>17. KnowsReg(p, m.now)'
  <2> SUFFICES ASSUME Alone'
               PROVE  /\ "listed" \in m.now => (Lists(p) => Holds(p))'
                      /\ "others" \in m.now => \A q \in Procs \ {p} : (act[p].reg # None /\ Pid(q) \in act[p].reg => Holds(q))'
                      /\ "self" \in m.now => (Pid(p) \in act[p].reg => Holds(p))'
                      /\ "holding" \in m.now => Holds(p)'
    BY DEF KnowsReg
  <2>1. /\ "listed" \in l.now => (Lists(p) => Holds(p))
        /\ "holding" \in l.now => Holds(p)
    BY <1>11, <1>12, <1>14 DEF KnowsReg
  <2> QED
    BY <1>5, <1>8, <1>13, <1>14, <1>16, <2>1
<1> QED
  BY <1>7, <1>9, <1>11, <1>12, <1>14, <1>15, <1>16, <1>17, RegOn

(* A step of p that changes what is granted to it, and no file. *)
LEMMA RegArbiter ==
    ASSUME TypeInv, RegInv, NEW p \in Procs, act[p].todo # <<>>, Uses(p), NEW m0,
           NEW more \in Seq(Steps), Arbiter(p, m0, more),
           NEW k \in Label, NEW m \in Label,
           Path(RegRules(act[p].op), more, k, m), Path(RegRules(act[p].op), Tail(act[p].todo), m, Rest),
           Alone => /\ "listed" \in k.now => (Lists(p) => \E e \in Engines : m0.active[e] # 0)
                    /\ "others" \in k.now => \A q \in Procs \ {p} : act[p].reg # None /\ Pid(q) \in act[p].reg => Holds(q)
                    /\ "self" \in k.now => (Pid(p) \in act[p].reg => \E e \in Engines : m0.active[e] # 0)
                    /\ "holding" \in k.now => \E e \in Engines : m0.active[e] # 0
    PROVE  RegInv'
<1>1. /\ Moved(p, more) /\ HistoryKept /\ UNCHANGED file /\ act'[p].reg = act[p].reg
      /\ mem'[p] = m0 /\ \A q \in Procs \ {p} : mem'[q] = mem[q]
  BY MovedArbiter
<1>2. Others(p) /\ act'[p].op = act[p].op /\ act'[p].todo = more \o Tail(act[p].todo)
      /\ UNCHANGED gen /\ UNCHANGED mixed
  BY <1>1 DEF Moved, HistoryKept
<1>3. /\ Alone' <=> Alone
      /\ \A q \in Procs : (Lists(q)' <=> Lists(q)) /\ Pid(q)' = Pid(q)
      /\ \A q \in Procs \ {p} : Holds(q)' <=> Holds(q)
      /\ Holds(p)' <=> \E e \in Engines : m0.active[e] # 0
  BY <1>1, <1>2 DEF Alone, Holds, Pid, Lists, Listing, Whole
<1>4. RegPids'
  <2>1. \A q \in Procs : act'[q].reg = act[q].reg
    BY <1>1, <1>2 DEF Others
  <2> QED
    BY <1>1, <1>2, <2>1 DEF RegInv, RegPids, Started, Whole, Listing
<1>5. Path(RegRules(act[p].op), act'[p].todo, k, Rest)
  BY <1>2, PathCat
<1>6. KnowsReg(p, k.now)'
  BY <1>1, <1>3 DEF KnowsReg
<1>7. \A q \in Procs \ {p} : Alone /\ Lists(q)' => Holds(q)'
  BY <1>3, RegRight
<1> QED
  BY <1>2, <1>4, <1>5, <1>6, <1>7, RegOn

(* A grant: the process that is entered next holds VRAM. *)
LEMMA RegAllocate ==
    ASSUME TypeInv, RegInv, NEW p \in Procs, Allocate(p)
    PROVE  RegInv'
<1> DEFINE x == Head(act[p].todo)
           e == act[p].chg[2]
           op == act[p].op
<1>1. act[p].todo # <<>> /\ x[1] = "allocate" /\ e \in Engines
  BY AllocateEffect
<1>2. x \in Steps
  BY <1>1, TypeHere
<1> HIDE DEF x
<1>3. x \in RegistrySteps
  BY <1>1, <1>2 DEF RegistrySteps
<1>4. PICK l, m \in Label :
          /\ KnowsReg(p, l.now) /\ RegNeeds(x) \subseteq l.now
          /\ m.now \subseteq (l.now \ RegLoses(x)) \cup RegGains(x, l.now)
          /\ Path(RegRules(op), Tail(act[p].todo), m, Rest)
  BY <1>1, <1>3, RegAt DEF x
<1>5. Uses(p)
  BY <1>1, <1>3, RegAt DEF x
<1>6. "listed" \in l.now /\ m.now \subseteq l.now
  <2>1. RegNeeds(x) = {"listed"} /\ RegLoses(x) = {} /\ RegGains(x, l.now) = {}
    BY <1>1 DEF RegNeeds, RegLoses, RegGains
  <2> QED
    BY <1>4, <2>1
<1>7. CASE Arbiter(p, mem[p], <<>>)
  <2>1. <<>> \in Seq(Steps) /\ Path(RegRules(op), <<>>, m, m)
    BY PathNil
  <2>2. Alone => /\ "listed" \in m.now => (Lists(p) => Holds(p))
                 /\ "others" \in m.now => \A q \in Procs \ {p} : act[p].reg # None /\ Pid(q) \in act[p].reg => Holds(q)
                 /\ "self" \in m.now => (Pid(p) \in act[p].reg => Holds(p))
                 /\ "holding" \in m.now => Holds(p)
    BY <1>4, <1>5, <1>6 DEF KnowsReg
  <2> QED
    BY <1>1, <1>4, <1>5, <1>7, <2>1, <2>2, RegArbiter DEF Holds
<1>8. ASSUME NEW m0 \in MemType, m0.active = [mem[p].active EXCEPT ![e] = Demand[e]],
             Arbiter(p, m0, <<Do("loadReg"), Do("regAdd")>>)
      PROVE  RegInv'
  <2> DEFINE K == m.now \cup {"listed", "holding"}
             N == K \cup {"others", "self"}
             k == Knowing(K, m.then)
             n == Knowing(N, m.then)
             c == Do("loadReg")
             d == Do("regAdd")
  <2>1. K \in SUBSET Claims /\ N \in SUBSET Claims /\ m.now \in SUBSET Claims /\ m.then \in SUBSET Claims
        /\ m = Knowing(m.now, m.then)
    BY LabelParts DEF Claims, RegClaims
  <2>2. "reg" \in Touches(op)
    BY <1>5 DEF Uses
  <2>3. c \in Steps /\ <<k, c, n>> \in RegRules(op)
    BY <2>1, <2>2, RegCall
  <2>4. d \in Steps /\ <<n, d, m>> \in RegRules(op)
    BY <2>1, <2>2, RegCall
  <2>5. k \in Label /\ n \in Label /\ k.now = K
    BY <2>1, KnowingLabel
  <2> HIDE DEF k, n, c, d
  <2>6. Path(RegRules(op), <<c, d>>, k, m) /\ <<c, d>> \in Seq(Steps)
    BY <2>3, <2>4, <2>5, PathTwo
  <2>7. m0.active[e] # 0
    <3>1. mem[p].active \in [Engines -> Nat] /\ Demand[e] # 0
      BY <1>1, GovernorAssumption DEF TypeInv, Types, MemType
    <3> QED
      BY <1>1, <1>8, <3>1
  <2>8. \E g \in Engines : m0.active[g] # 0
    BY <1>1, <2>7
  <2>9. Alone => ("others" \in k.now => \A q \in Procs \ {p} : act[p].reg # None /\ Pid(q) \in act[p].reg => Holds(q))
    <3>1. "others" \in k.now => "others" \in l.now
      BY <1>6, <2>5
    <3> QED
      BY <1>4, <1>5, <3>1 DEF KnowsReg
  <2>10. Arbiter(p, m0, <<c, d>>)
    BY <1>8 DEF c, d
  <2> HIDE DEF op, e
  <2> QED
    BY <1>1, <1>4, <1>5, <2>5, <2>6, <2>8, <2>9, <2>10, RegArbiter DEF op
<1> QED
  BY <1>7, <1>8, AllocateEffect

(* A return: nothing is said of the process until its entry is removed. *)
LEMMA RegFree ==
    ASSUME TypeInv, RegInv, NEW p \in Procs, Free(p)
    PROVE  RegInv'
<1> DEFINE x == Head(act[p].todo)
           op == act[p].op
<1>1. act[p].todo # <<>> /\ x[1] = "free"
  BY FreeEffect
<1>2. x \in Steps
  BY <1>1, TypeHere
<1>3. PICK m0 \in MemType : Arbiter(p, m0, <<>>)
  BY FreeEffect
<1> HIDE DEF x
<1>4. x \in RegistrySteps
  BY <1>1, <1>2 DEF RegistrySteps
<1>5. PICK l, m \in Label :
          /\ KnowsReg(p, l.now)
          /\ m.now \subseteq (l.now \ RegLoses(x)) \cup RegGains(x, l.now)
          /\ Path(RegRules(op), Tail(act[p].todo), m, Rest)
  BY <1>1, <1>4, RegAt DEF x
<1>6. Uses(p)
  BY <1>1, <1>4, RegAt DEF x
<1>7. m.now \subseteq l.now \ {"listed", "self", "holding"}
  <2>1. RegLoses(x) = {"listed", "self", "holding"} /\ RegGains(x, l.now) = {}
    BY <1>1 DEF RegLoses, RegGains
  <2> QED
    BY <1>5, <2>1
<1>8. <<>> \in Seq(Steps) /\ Path(RegRules(op), <<>>, m, m)
  BY PathNil
<1>9. Alone => ("others" \in m.now => \A q \in Procs \ {p} : act[p].reg # None /\ Pid(q) \in act[p].reg => Holds(q))
  BY <1>5, <1>6, <1>7 DEF KnowsReg
<1>10. "listed" \notin m.now /\ "self" \notin m.now /\ "holding" \notin m.now
  BY <1>7
<1> QED
  BY <1>1, <1>3, <1>5, <1>6, <1>8, <1>9, <1>10, RegArbiter

(* The copy of the registry is changed, and written. *)
LEMMA RegUpdated ==
    ASSUME TypeInv, RegInv, NEW p \in Procs, act[p].todo # <<>>, Uses(p),
           NEW pids \in SUBSET Pids, Started(pids), NEW more \in Seq(Steps),
           Got(p, [act[p] EXCEPT !.reg = pids], more),
           NEW k \in Label, NEW m \in Label,
           Path(RegRules(act[p].op), more, k, m), Path(RegRules(act[p].op), Tail(act[p].todo), m, Rest),
           Alone => /\ "listed" \in k.now => (Lists(p) => Holds(p))
                    /\ "others" \in k.now => \A q \in Procs \ {p} : Pid(q) \in pids => Holds(q)
                    /\ "self" \in k.now => (Pid(p) \in pids => Holds(p))
                    /\ "holding" \in k.now => Holds(p)
    PROVE  RegInv'
<1> DEFINE b == [act[p] EXCEPT !.reg = pids]
<1>1. act[p] \in ActType
  BY TypeHere
<1>2. b \in ActType /\ b.op = act[p].op /\ b.todo = act[p].todo /\ b.reg = pids
  BY <1>1, RegistryWritten
<1> HIDE DEF b
<1>3. Continue(p, b, more) /\ UNCHANGED file /\ UNCHANGED mem /\ UNCHANGED gen /\ UNCHANGED mixed
  BY DEF Got, history, b
<1>4. Moved(p, more) /\ act'[p].reg = pids
  BY <1>2, <1>3, MovedBy
<1>5. Others(p) /\ act'[p].op = act[p].op /\ act'[p].todo = more \o Tail(act[p].todo)
  BY <1>4 DEF Moved
<1>6. (Alone' <=> Alone) /\ \A q \in Procs : (Holds(q)' <=> Holds(q)) /\ (Lists(q)' <=> Lists(q)) /\ Pid(q)' = Pid(q)
  BY <1>3 DEF Alone, Holds, Pid, Lists, Listing, Whole
<1>7. RegPids'
  <2>1. (Whole(<<"reg", "json">>) => Started(Listing))'
    BY <1>3 DEF RegInv, RegPids, Started, Whole, Listing
  <2>2. \A q \in Procs : (act[q].reg # None => Started(act[q].reg))'
    BY <1>3, <1>4, <1>5 DEF RegInv, RegPids, Started, Others
  <2> QED
    BY <2>1, <2>2 DEF RegPids
<1>8. Path(RegRules(act[p].op), act'[p].todo, k, Rest)
  BY <1>5, PathCat
<1>9. KnowsReg(p, k.now)'
  BY <1>4, <1>6 DEF KnowsReg
<1>10. \A q \in Procs \ {p} : Alone /\ Lists(q)' => Holds(q)'
  BY <1>6, RegRight
<1> QED
  BY <1>3, <1>5, <1>7, <1>8, <1>9, <1>10, RegOn

(* An entry is added or removed, a context is entered, the dead are removed. *)
LEMMA RegRegistry ==
    ASSUME TypeInv, RegInv, NEW p \in Procs, Registry(p)
    PROVE  RegInv'
<1> DEFINE a == act[p]
           x == Head(a.todo)
           op == a.op
           dead == {pid \in a.reg : ~Alive(pid)}
<1>1. a.todo # <<>> /\ x[1] \in {"regAdd", "regRemove", "regContext", "regPurge"}
  BY DEF Registry, At
<1>2. x \in Steps /\ a \in ActType
  BY <1>1, TypeHere
<1>3. a.reg \in SUBSET Pids /\ a.reg # None
  <2>1. "read" \in TypeNeeds(op, x)
    BY <1>1 DEF TypeNeeds
  <2> QED
    BY <1>1, <2>1, RegRead
<1>4. /\ x[1] = "regAdd" => Got(p, [a EXCEPT !.reg = a.reg \cup {Pid(p)}], Put("reg", "json"))
      /\ x[1] = "regRemove" => Got(p, [a EXCEPT !.reg = a.reg \ {Pid(p)}], Put("reg", "json"))
      /\ x[1] \in {"regContext", "regPurge"} =>
            \/ \E pids \in SUBSET a.reg : Got(p, [a EXCEPT !.reg = pids], Put("reg", "json"))
            \/ Got(p, a, <<>>)
  BY DEF Registry, At
<1> HIDE DEF x
<1>5. x \in RegistrySteps
  BY <1>1, <1>2 DEF RegistrySteps
<1>6. PICK l, m \in Label :
          /\ KnowsReg(p, l.now) /\ RegNeeds(x) \subseteq l.now
          /\ m.now \subseteq (l.now \ RegLoses(x)) \cup RegGains(x, l.now) /\ m.then = l.then
          /\ Path(RegRules(op), Tail(a.todo), m, Rest)
  BY <1>1, <1>5, RegAt DEF x
<1>7. Uses(p)
  BY <1>1, <1>5, RegAt DEF x
<1>8. "reg" \in Touches(op)
  BY <1>7 DEF Uses
<1>9. Started(a.reg) /\ Started(a.reg \cup {Pid(p)}) /\ \A pids \in SUBSET a.reg : Started(pids)
  <2>1. Started(a.reg)
    BY <1>3 DEF RegInv, RegPids
  <2>2. Pid(p)[2] <= gen[Pid(p)[1]]
    <3>1. gen[p] \in Nat
      BY DEF TypeInv, Types, CountTypes
    <3> QED
      BY <3>1 DEF Pid
  <2> QED
    BY <2>1, <2>2 DEF Started
<1>10. Pid(p) \in Pids /\ \A q \in Procs \ {p} : Pid(q) # Pid(p)
  <2>1. \A q \in Procs \ {p} : Pid(q) # Pid(p)
    BY DEF Pid
  <2> QED
    BY <2>1, PidTyped DEF TypeInv
<1> DEFINE N == l.now \cup (IF x[1] \in {"regAdd", "regRemove"} THEN {"self"} ELSE {})
           k == Knowing(N, l.then)
<1>11. N \in SUBSET Claims /\ l.then \in SUBSET Claims /\ m.now \in SUBSET Claims /\ m = Knowing(m.now, l.then)
  <2>1. l.now \in SUBSET Claims /\ l.then \in SUBSET Claims /\ m.now \in SUBSET Claims
        /\ m = Knowing(m.now, m.then)
    BY LabelParts
  <2> QED
    BY <1>6, <2>1 DEF Claims, RegClaims
<1>12. k \in Label /\ k.now = N
  BY <1>11, KnowingLabel
<1>13. /\ x[1] = "regAdd" => {"others", "holding"} \subseteq l.now
       /\ x[1] = "regRemove" => "others" \in l.now
       /\ x[1] \in {"regContext", "regPurge"} => {"others", "self", "listed"} \subseteq l.now
  BY <1>6 DEF RegNeeds
<1>14. m.now \subseteq l.now \cup (IF x[1] \in {"regAdd", "regRemove"} THEN {"self", "listed"} ELSE {})
  <2>1. RegLoses(x) = {}
    BY <1>1 DEF RegLoses
  <2>2. RegGains(x, l.now) = IF x[1] \in {"regAdd", "regRemove"} THEN {"self", "listed"} ELSE {}
    BY <1>1 DEF RegGains
  <2> QED
    BY <1>6, <2>1, <2>2
<1>15. {"others", "self"} \subseteq N /\ m.now \subseteq N \cup {"listed"}
  BY <1>1, <1>13, <1>14
<1>16. Path(RegRules(op), Put("reg", "json"), k, m) /\ Put("reg", "json") \in Seq(Steps)
  <2>1. Path(RegRules(op), Put("reg", "json"), k, m)
    <3> HIDE DEF N
    <3> QED
      BY <1>8, <1>11, <1>15, RegPut
  <2> QED
    BY <2>1 DEF Path
<1>17. Alone => /\ "listed" \in l.now => (Lists(p) => Holds(p))
                /\ "others" \in l.now => \A q \in Procs \ {p} : Pid(q) \in a.reg => Holds(q)
                /\ "self" \in l.now => (Pid(p) \in a.reg => Holds(p))
                /\ "holding" \in l.now => Holds(p)
  BY <1>3, <1>6, <1>7 DEF KnowsReg
<1> HIDE DEF k, op
<1>18. ASSUME NEW pids \in SUBSET Pids, Started(pids), Got(p, [a EXCEPT !.reg = pids], Put("reg", "json")),
              \A q \in Procs \ {p} : Pid(q) \in pids => Pid(q) \in a.reg,
              Alone => (Pid(p) \in pids => Holds(p))
       PROVE  RegInv'
  <2>1. Alone => /\ "listed" \in k.now => (Lists(p) => Holds(p))
                 /\ "others" \in k.now => \A q \in Procs \ {p} : Pid(q) \in pids => Holds(q)
                 /\ "self" \in k.now => (Pid(p) \in pids => Holds(p))
                 /\ "holding" \in k.now => Holds(p)
    BY <1>12, <1>17, <1>18
  <2> QED
    BY <1>1, <1>6, <1>7, <1>12, <1>16, <1>18, <2>1, RegUpdated DEF op
<1>19. CASE x[1] = "regAdd"
  <2> DEFINE pids == a.reg \cup {Pid(p)}
  <2>1. pids \in SUBSET Pids /\ Started(pids)
    BY <1>3, <1>9, <1>10
  <2>2. (\A q \in Procs \ {p} : Pid(q) \in pids => Pid(q) \in a.reg) /\ (Alone => Holds(p))
    BY <1>10, <1>13, <1>17, <1>19
  <2>3. Got(p, [a EXCEPT !.reg = pids], Put("reg", "json"))
    BY <1>4, <1>19
  <2> HIDE DEF pids
  <2> QED
    BY <1>18, <2>1, <2>2, <2>3
<1>20. CASE x[1] = "regRemove"
  <2> DEFINE pids == a.reg \ {Pid(p)}
  <2>1. pids \in SUBSET Pids /\ Started(pids)
    BY <1>3, <1>9
  <2>2. (\A q \in Procs \ {p} : Pid(q) \in pids => Pid(q) \in a.reg) /\ Pid(p) \notin pids
    OBVIOUS
  <2>3. Got(p, [a EXCEPT !.reg = pids], Put("reg", "json"))
    BY <1>4, <1>20
  <2> HIDE DEF pids
  <2> QED
    BY <1>18, <2>1, <2>2, <2>3
<1>21. CASE x[1] \in {"regContext", "regPurge"}
  <2>1. ASSUME NEW pids \in SUBSET a.reg, Got(p, [a EXCEPT !.reg = pids], Put("reg", "json"))
        PROVE  RegInv'
    <3>1. pids \in SUBSET Pids /\ Started(pids)
      BY <1>3, <1>9
    <3>2. (\A q \in Procs \ {p} : Pid(q) \in pids => Pid(q) \in a.reg) /\ (Alone => (Pid(p) \in pids => Holds(p)))
      BY <1>13, <1>17, <1>21
    <3> QED
      BY <1>18, <2>1, <3>1, <3>2
  <2>2. CASE Got(p, a, <<>>)
    <3>1. [a EXCEPT !.reg = a.reg] = a
      BY <1>2 DEF ActType
    <3>2. m.now \subseteq l.now
      BY <1>14, <1>21
    <3>3. Alone => /\ "listed" \in m.now => (Lists(p) => Holds(p))
                   /\ "others" \in m.now => \A q \in Procs \ {p} : Pid(q) \in a.reg => Holds(q)
                   /\ "self" \in m.now => (Pid(p) \in a.reg => Holds(p))
                   /\ "holding" \in m.now => Holds(p)
      BY <1>17, <3>2
    <3>4. <<>> \in Seq(Steps) /\ Path(RegRules(op), <<>>, m, m)
      BY PathNil
    <3>5. Got(p, [a EXCEPT !.reg = a.reg], <<>>)
      BY <2>2, <3>1
    <3> QED
      BY <1>1, <1>3, <1>6, <1>7, <1>9, <3>3, <3>4, <3>5, RegUpdated DEF op
  <2> QED
    BY <1>4, <1>21, <2>1, <2>2
<1> QED
  BY <1>1, <1>19, <1>20, <1>21

-----------------------------------------------------------------------------
(* Operations begin and end *)

(* A process that does nothing does not use the registry. *)
LEMMA IdleUses == \A p \in Procs : act[p].op = "idle" => ~Uses(p)
  BY DEF Uses, Touches

(* A process ends, or crashes, and the others are where they were. *)
LEMMA RegIdle ==
    ASSUME TypeInv, RegInv, NEW p \in Procs, act' = [act EXCEPT ![p] = Idle],
           \A q \in Procs \ {p} : mem'[q].active = mem[q].active,
           UNCHANGED file, UNCHANGED mixed, RegPids',
           \A q \in Procs \ {p} : Pid(q)' = Pid(q),
           \A q \in Procs \ {p} : act[q].reg # None /\ Pid(p)' \in act[q].reg
                                    => Pid(p)' = Pid(p) /\ mem'[p].active = mem[p].active,
           Alone => (Lists(p)' => Holds(p)')
    PROVE  RegInv'
<1>0. act \in [Procs -> ActType]
  BY DEF TypeInv, Types, ActTypes
<1>1. act' \in [Procs -> ActType] /\ Others(p) /\ act'[p] = Idle
  BY <1>0, IdleEffect
<1>2. (Alone' <=> Alone) /\ \A q \in Procs \ {p} : (Uses(q)' <=> Uses(q)) /\ (Holds(q)' <=> Holds(q))
                                                    /\ (Lists(q)' <=> Lists(q))
  BY <1>1 DEF Alone, Uses, Holds, Lists, Listing, Whole, Others
<1>3. ~Uses(p)'
  BY <1>1, IdleTyped DEF Uses, Touches
<1>4. RegApart'
  BY <1>2, <1>3 DEF RegInv, RegApart
<1>5. RegListed'
  BY <1>2 DEF RegInv, RegListed
<1>6. RegWalk(p)'
  BY <1>1, IdleTyped DEF RegWalk
<1>7. ASSUME NEW q \in Procs \ {p}, NEW l \in Label, act[q].op # "idle", KnowsReg(q, l.now)
      PROVE  KnowsReg(q, l.now)'
  <2> SUFFICES ASSUME Alone', Uses(q)'
               PROVE  /\ "listed" \in l.now => (Lists(q) => Holds(q))'
                      /\ "others" \in l.now => \A o \in Procs \ {q} : (act[q].reg # None /\ Pid(o) \in act[q].reg => Holds(o))'
                      /\ "self" \in l.now => (Pid(q) \in act[q].reg => Holds(q))'
                      /\ "holding" \in l.now => Holds(q)'
    BY DEF KnowsReg
  <2>1. /\ "listed" \in l.now => (Lists(q) => Holds(q))
        /\ "others" \in l.now => \A o \in Procs \ {q} : act[q].reg # None /\ Pid(o) \in act[q].reg => Holds(o)
        /\ "self" \in l.now => (Pid(q) \in act[q].reg => Holds(q))
        /\ "holding" \in l.now => Holds(q)
    BY <1>2, <1>7 DEF KnowsReg
  <2>2. act'[q] = act[q]
    BY <1>1 DEF Others
  <2>3. ASSUME "others" \in l.now, NEW o \in Procs \ {q}, act[q].reg # None, Pid(o)' \in act[q].reg PROVE Holds(o)'
    <3>1. CASE o # p
      BY <1>2, <2>1, <2>3, <3>1
    <3>2. CASE o = p
      BY <2>1, <2>3, <3>2 DEF Holds
    <3> QED
      BY <3>1, <3>2
  <2> QED
    BY <1>2, <2>1, <2>2, <2>3
<1>8. ASSUME NEW q \in Procs \ {p} PROVE RegWalk(q)'
  <2>1. act'[q] = act[q]
    BY <1>1 DEF Others
  <2>2. ASSUME act[q].op # "idle"
        PROVE  \E l \in Label : KnowsReg(q, l.now)' /\ Path(RegRules(act[q].op), act[q].todo, l, Rest)
    <3>1. PICK l \in Label : KnowsReg(q, l.now) /\ Path(RegRules(act[q].op), act[q].todo, l, Rest)
      BY <2>2 DEF RegInv, RegWalk
    <3> QED
      BY <1>7, <2>2, <3>1
  <2> QED
    BY <2>1, <2>2 DEF RegWalk
<1> QED
  BY <1>4, <1>5, <1>6, <1>8 DEF RegInv

(* The end of an operation: if the process is listed, it holds VRAM. *)
LEMMA RegEnd ==
    ASSUME TypeInv, RegInv, NEW p \in Procs, End(p) PROVE RegInv'
<1>1. act' = [act EXCEPT ![p] = Idle] /\ UNCHANGED file /\ UNCHANGED gen /\ UNCHANGED mixed
  BY DEF End, history
<1>2. \A q \in Procs : mem'[q].active = mem[q].active
  <2>1. mem \in [Procs -> MemType] /\ mem' = [mem EXCEPT ![p].booted = TRUE]
    BY DEF End, TypeInv, Types
  <2> QED
    BY <2>1 DEF MemType
<1>3. Alone => (Lists(p) => Holds(p))
  <2>1. CASE ~Uses(p)
    BY <2>1 DEF RegInv, RegListed
  <2>2. CASE Uses(p)
    <3>1. PICK l \in Label : KnowsReg(p, l.now) /\ Path(RegRules(act[p].op), act[p].todo, l, Rest)
      BY DEF End, RegInv, RegWalk
    <3>2. l = Rest
      BY <3>1, PathOfNil DEF End
    <3> QED
      BY <2>2, <3>1, <3>2, RestLabel DEF KnowsReg
  <2> QED
    BY <2>1, <2>2
<1>4. \A q \in Procs : Pid(q)' = Pid(q) /\ (Lists(q)' <=> Lists(q)) /\ (Holds(q)' <=> Holds(q))
  BY <1>1, <1>2 DEF Pid, Lists, Listing, Whole, Holds
<1>5. RegPids'
  <2>1. act' \in [Procs -> ActType] /\ Others(p) /\ act'[p] = Idle
    BY <1>1, IdleEffect DEF TypeInv, Types, ActTypes
  <2>2. \A q \in Procs : act'[q].reg = act[q].reg \/ act'[q].reg = None
    BY <2>1 DEF Others, Idle
  <2> QED
    BY <1>1, <2>2 DEF RegInv, RegPids, Started, Whole, Listing
<1>6. \A q \in Procs \ {p} : act[q].reg # None /\ Pid(p)' \in act[q].reg
                            => Pid(p)' = Pid(p) /\ mem'[p].active = mem[p].active
  BY <1>2, <1>4
<1>7. Alone => (Lists(p)' => Holds(p)')
  BY <1>3, <1>4
<1>8. \A q \in Procs \ {p} : mem'[q].active = mem[q].active /\ Pid(q)' = Pid(q)
  BY <1>2, <1>4
<1> QED
  BY <1>1, <1>5, <1>6, <1>7, <1>8, RegIdle

(* A process that crashed comes again with a pid that nobody has seen. *)
LEMMA RegCrash ==
    ASSUME TypeInv, RegInv, NEW p \in Procs, Crash(p) PROVE RegInv'
<1>1. act' = [act EXCEPT ![p] = Idle] /\ UNCHANGED file /\ UNCHANGED mixed
      /\ mem' = [mem EXCEPT ![p] = NewArbiter] /\ gen' = [gen EXCEPT ![p] = gen[p] + 1]
  BY DEF Crash
<1>2. gen \in [Procs -> Nat] /\ mem \in [Procs -> MemType]
  BY DEF TypeInv, Types, CountTypes
<1>3. \A q \in Procs \ {p} : mem'[q].active = mem[q].active /\ gen'[q] = gen[q] /\ Pid(q)' = Pid(q)
  BY <1>1, <1>2 DEF Pid
<1>4. gen'[p] = gen[p] + 1 /\ Pid(p)' = <<p, gen[p] + 1>>
  BY <1>1, <1>2 DEF Pid
<1>5. ASSUME NEW pids, Started(pids) PROVE Pid(p)' \notin pids
  <2>1. gen[p] \in Nat /\ Pid(p)'[1] = p /\ Pid(p)'[2] = gen[p] + 1
    BY <1>2, <1>4
  <2>2. ~(gen[p] + 1 <= gen[p])
    BY <2>1
  <2> QED
    BY <1>5, <2>1, <2>2 DEF Started
<1>6. ASSUME NEW pids, pids \in SUBSET Pids, Started(pids) PROVE Started(pids)'
  <2> SUFFICES ASSUME NEW pid \in pids PROVE pid[2] <= gen'[pid[1]]
    BY DEF Started
  <2>1. pid \in Pids /\ pid[2] <= gen[pid[1]]
    BY <1>6 DEF Started
  <2>2. pid[1] \in Procs /\ pid[2] \in Nat
    BY <2>1, GovernorAssumption DEF Pids
  <2>3. gen[pid[1]] \in Nat /\ (gen'[pid[1]] = gen[pid[1]] \/ gen'[pid[1]] = gen[pid[1]] + 1)
    BY <1>1, <1>2, <2>2
  <2> QED
    BY <2>1, <2>2, <2>3
<1>7. act' \in [Procs -> ActType] /\ Others(p) /\ act'[p] = Idle /\ act \in [Procs -> ActType]
  BY <1>1, IdleEffect DEF TypeInv, Types, ActTypes
<1>8. RegPids'
  <2>1. ASSUME Whole(<<"reg", "json">>)' PROVE Started(Listing)'
    <3>1. Listing' = Listing /\ Whole(<<"reg", "json">>)
      BY <1>1, <2>1 DEF Listing, Whole
    <3>2. Listing \in SUBSET Pids
      <4>1. file[<<"reg", "json">>] \in FileType("reg")
        <5>1. <<"reg", "json">> \in Files /\ <<"reg", "json">>[1] = "reg"
          BY RegFile
        <5> QED
          BY <5>1 DEF TypeInv, Types, FileTypes
      <4> QED
        BY <3>1, <4>1 DEF FileType, Listing, Whole
    <3>3. Started(Listing)
      BY <3>1 DEF RegInv, RegPids
    <3>4. Started(Listing)'
      <4> DEFINE pids == Listing
      <4>1. pids \in SUBSET Pids /\ Started(pids) /\ pids' = pids
        BY <3>1, <3>2, <3>3
      <4> QED
        BY <1>6, <4>1 DEF Started
    <3> QED
      BY <3>4
  <2>2. ASSUME NEW q \in Procs, act'[q].reg # None PROVE Started(act[q].reg)'
    <3>1. q # p /\ act'[q] = act[q]
      BY <1>7, <2>2 DEF Idle, Others
    <3>2. act[q].reg \in SUBSET Pids /\ Started(act[q].reg)
      BY <1>7, <2>2, <3>1 DEF ActType, RegInv, RegPids
    <3> QED
      BY <1>6, <3>1, <3>2 DEF Started
  <2> QED
    BY <2>1, <2>2 DEF RegPids
<1>9. \A q \in Procs \ {p} : ~(act[q].reg # None /\ Pid(p)' \in act[q].reg)
  BY <1>5 DEF RegInv, RegPids
<1>10. ~Lists(p)'
  <2>1. Lists(p)' => Whole(<<"reg", "json">>) /\ Pid(p)' \in Listing
    BY <1>1 DEF Lists, Listing, Whole
  <2> QED
    BY <1>5, <2>1 DEF RegInv, RegPids
<1>11. \A q \in Procs \ {p} : act[q].reg # None /\ Pid(p)' \in act[q].reg
                            => Pid(p)' = Pid(p) /\ mem'[p].active = mem[p].active
  BY <1>9
<1>12. Alone => (Lists(p)' => Holds(p)')
  BY <1>10
<1>13. /\ \A q \in Procs \ {p} : mem'[q].active = mem[q].active
       /\ \A q \in Procs \ {p} : Pid(q)' = Pid(q)
  BY <1>3
<1>14. act' = [act EXCEPT ![p] = Idle] /\ UNCHANGED file /\ UNCHANGED mixed
  BY <1>1
<1> QED
  BY <1>8, <1>11, <1>12, <1>13, <1>14, RegIdle

(* An operation begins: if it meets another one in the registry, that is noted. *)
LEMMA RegBegin ==
    ASSUME TypeInv, RegInv, NEW p \in Procs, Boot(p) \/ Begin(p) PROVE RegInv'
<1>0. act \in [Procs -> ActType]
  BY DEF TypeInv, Types, ActTypes
<1>1. PICK op \in Ops : \E chg :
        /\ IF op \in Told THEN chg \in Requests(op) ELSE chg = None
        /\ Enter(p, op, chg)
  BY BeginEffect
<1>2. PICK chg :
        /\ IF op \in Told THEN chg \in Requests(op) ELSE chg = None
        /\ Enter(p, op, chg)
  BY <1>1
<1>3. /\ act[p].op = "idle" /\ Others(p)
      /\ act'[p].op = op /\ act'[p].todo = Program(op) /\ act'[p].reg = None
      /\ mixed' = Overlap(p, op) /\ UNCHANGED file /\ UNCHANGED mem /\ UNCHANGED gen
  <2>1. chg \in Requests(op) \cup {None}
    BY <1>2
  <2> QED
    BY <1>0, <1>2, <2>1, EnterEffect
<1>4. mixed'["reg"] = (mixed["reg"] \/ ("reg" \in Touches(op) /\ \E q \in Procs \ {p} : Uses(q)))
  <2>1. "reg" \in Stores
    BY DEF Stores
  <2> QED
    BY <1>3, <2>1 DEF Overlap, Uses
<1>5. Alone' => Alone /\ ("reg" \in Touches(op) => \A q \in Procs \ {p} : ~Uses(q))
  BY <1>4 DEF Alone
<1>6. /\ \A q \in Procs : (Holds(q)' <=> Holds(q)) /\ (Lists(q)' <=> Lists(q)) /\ Pid(q)' = Pid(q)
      /\ \A q \in Procs \ {p} : act'[q] = act[q] /\ (Uses(q)' <=> Uses(q))
      /\ Uses(p)' <=> "reg" \in Touches(op)
  BY <1>3 DEF Holds, Pid, Lists, Listing, Whole, Uses, Others
<1>7. RegApart'
  BY <1>5, <1>6 DEF RegInv, RegApart
<1>8. RegPids'
  <2>1. \A q \in Procs : act'[q].reg = act[q].reg \/ act'[q].reg = None
    BY <1>3, <1>6
  <2> QED
    BY <1>3, <2>1 DEF RegInv, RegPids, Started, Whole, Listing
<1>9. Alone => (Lists(p) => Holds(p))
  BY <1>3, IdleUses DEF RegInv, RegListed
<1>10. RegListed'
  BY <1>5, <1>6, <1>9 DEF RegInv, RegListed
<1>11. RegWalk(p)'
  <2>1. KnowsReg(p, Rest.now)'
    BY <1>5, <1>6, <1>9, RestLabel DEF KnowsReg
  <2>2. Path(RegRules(op), Program(op), Rest, Rest)
    BY RegProgram
  <2> QED
    BY <1>3, <2>1, <2>2, RestLabel DEF RegWalk
<1>12. ASSUME NEW q \in Procs \ {p} PROVE RegWalk(q)'
  <2>1. ASSUME NEW N, KnowsReg(q, N) PROVE KnowsReg(q, N)'
    BY <1>5, <1>6, <2>1 DEF KnowsReg
  <2> QED
    BY <1>6, <2>1, RegOthers
<1> QED
  BY <1>7, <1>8, <1>10, <1>11, <1>12 DEF RegInv

(* A step that changes nothing. *)
LEMMA RegStutter ==
    ASSUME RegInv, UNCHANGED vars PROVE RegInv'
<1>1. RegKept /\ \A q \in Procs : act'[q] = act[q]
  BY DEF vars, RegKept, StoreKept, GrantsKept, HistoryKept
<1>2. /\ RegApart' /\ RegPids' /\ RegListed'
      /\ \A q \in Procs : \A N : KnowsReg(q, N) => KnowsReg(q, N)'
  BY <1>1, RegKeeps
<1>3. \A q \in Procs : RegWalk(q)'
  BY <1>1, <1>2, RegOthers
<1> QED
  BY <1>2, <1>3 DEF RegInv

-----------------------------------------------------------------------------
(* The invariant *)

(* A step of the fingerprint, of the lock or of the settings keeps it. *)
LEMMA RegElsewhere ==
    ASSUME TypeInv, TypeInv', RegInv, NEW p \in Procs, Step(p) \/ Edit(p) \/ EditPermission(p), ~End(p),
           Head(act[p].todo) \notin RegistrySteps
    PROVE  RegInv'
<1> DEFINE x == Head(act[p].todo)
<1>0. act[p].todo # <<>>
  BY Kinds
<1>1. ASSUME NeutralMove(p) PROVE RegInv'
  BY <1>0, <1>1, RegNeutralKeeps
<1>2. CASE x \in SettingSteps \/ x[1] = "editPerm"
  <2>1. SettingMove(p) \/ MenuMove(p)
    BY <1>2, SettingEffect
  <2> QED
    BY <1>1, <2>1, RegSettings
<1>3. CASE x \in SiliconSteps
  <2>1. \/ x[1] \in {"probe", "orBlank", "catch", "require"}
        \/ x[1] = "loadSys" \/ x[1] = "rename" \/ x[1] \in {"lock", "unlock"}
        \/ x[1] \in {"syncIfZero", "calibrateIfZero"}
        \/ x[2] = "sys" /\ x[1] \in {"open", "fill", "remove"}
    BY <1>3 DEF SiliconSteps
  <2>2. CASE x[1] \in {"probe", "orBlank", "catch", "require"}
    BY <1>1, <2>2, Kinds, RegProbe
  <2>3. CASE x[1] = "loadSys"
    BY <1>1, <2>3, Kinds, RegLoadSys
  <2>4. CASE x[1] = "rename"
    BY <2>4, Kinds, RegRename
  <2>5. CASE x[1] \in {"lock", "unlock"}
    BY <1>0, <1>1, <2>5, Kinds, RegLocks
  <2>6. CASE x[1] \in {"syncIfZero", "calibrateIfZero"}
    BY <1>0, <1>1, <2>6, Kinds, RegLocks
  <2>7. CASE x[2] = "sys" /\ x[1] \in {"open", "fill", "remove"}
    <3>1. Open(p) \/ Fill(p) \/ RemoveFile(p)
      BY <2>7, Kinds
    <3> QED
      BY <1>1, <2>7, <3>1, RegSysFiles
  <2> QED
    BY <2>1, <2>2, <2>3, <2>4, <2>5, <2>6, <2>7
<1> QED
  BY <1>2, <1>3, StepKinds

(* A step of the registry keeps it. *)
LEMMA RegStep ==
    ASSUME TypeInv, RegInv, NEW p \in Procs, Step(p) \/ Edit(p) \/ EditPermission(p), ~End(p),
           Head(act[p].todo) \in RegistrySteps
    PROVE  RegInv'
<1> DEFINE x == Head(act[p].todo)
<1>1. act[p].todo # <<>>
  BY Kinds
<1>2. \/ x[2] = "reg" /\ (Open(p) \/ Fill(p))
      \/ LoadRegistry(p) \/ Allocate(p) \/ Free(p) \/ Registry(p)
  BY Kinds DEF RegistrySteps
<1> QED
  BY <1>1, <1>2, RegWrite, RegLoadRegistry, RegAllocate, RegFree, RegRegistry

(* Every step keeps it. *)
LEMMA RegNext ==
    ASSUME TypeInv, RegInv, [Next]_vars PROVE RegInv'
<1>0. TypeInv'
  BY TypeNext
<1>1. ASSUME NEW p \in Procs, Step(p) \/ Edit(p) \/ EditPermission(p), ~End(p)
      PROVE  RegInv'
  BY <1>0, <1>1, RegElsewhere, RegStep
<1>2. ASSUME NEW p \in Procs, End(p) PROVE RegInv'
  BY <1>2, RegEnd
<1>3. ASSUME NEW p \in Procs, Boot(p) \/ Begin(p) PROVE RegInv'
  BY <1>3, RegBegin
<1>4. ASSUME NEW p \in Procs, Crash(p) PROVE RegInv'
  BY <1>4, RegCrash
<1>5. CASE UNCHANGED vars
  BY <1>5, RegStutter
<1>6. CASE Next
  BY <1>1, <1>2, <1>3, <1>4, <1>6 DEF Next
<1> QED
  BY <1>5, <1>6

(* At first there is no registry, and nobody does anything. *)
LEMMA RegInit ==
    ASSUME Init PROVE RegInv
<1>1. \A p \in Procs : act[p].op = "idle" /\ act[p].reg = None
  BY DEF Init, Idle
<1>2. ~Whole(<<"reg", "json">>)
  BY FileInit DEF Whole
<1> QED
  BY <1>1, <1>2, IdleUses DEF RegInv, RegApart, RegPids, RegListed, RegWalk, Lists

(* A process that is idle does not use the registry. *)
LEMMA RegHolds ==
    ASSUME RegInv PROVE ListedHolds
  BY IdleUses DEF RegInv, RegListed, ListedHolds, Lists, Listing, Holds, Alone

(* While updates of the registry do not overlap, a process that is listed  *)
(* there and is between two operations holds VRAM, whatever crashed: the   *)
(* entry that was written is of the pid that holds it, and a process that  *)
(* is started again has another one.                                       *)
THEOREM ListedProcessesHold == Spec => []ListedHolds
<1>1. Init => TypeInv /\ RegInv
  BY TypeInit, RegInit
<1>2. (TypeInv /\ RegInv) /\ [Next]_vars => (TypeInv /\ RegInv)'
  BY TypeNext, RegNext
<1>3. TypeInv /\ RegInv => ListedHolds
  BY RegHolds
<1> QED
  BY <1>1, <1>2, <1>3, PTL DEF Spec

-----------------------------------------------------------------------------
(***************************************************************************)
(* The files of the settings and of the fingerprint, along a program.  Of  *)
(* the fingerprint: `calm', its files are as they are between operations;  *)
(* `jsonTorn' and `binTorn', the process has emptied that file and may;    *)
(* `jsonWhole'; `tmpTorn', `tmpWhole' and the same of the binary copy, the *)
(* temporary files; `probed', the process has the fingerprint.  Of the     *)
(* setting that the process uses: `even', its files are as they are        *)
(* between operations; `mine', the copy in memory may be the value;        *)
(* `meant', it is what the user meant; `setTorn', `setBinTorn', `same',    *)
(* `both', which files are emptied or as the copy.  `lost': two processes  *)
(* used the fingerprint at once, or crashed, so that nothing is claimed    *)
(* any more.                                                               *)
(***************************************************************************)

(* The stores that an operation uses if it takes this step. *)
Asks(x) ==
    CASE x[1] \in {"loadPerm", "editPerm"} -> {"perm"}
      [] x[1] \in {"loadBoost", "edit"} -> {"boost"}
      [] x[1] \in {"loadSys", "syncIfZero", "calibrateIfZero", "require", "tune"} -> {"boost", "sys"}
      [] x[1] \in {"open", "fill", "rename", "remove"} /\ x[2] \in {"perm", "boost", "sys"} -> {x[2]}
      [] OTHER -> {}

(* What is known of the fingerprint's own files, ... *)
InPlace == {"calm", "jsonTorn", "jsonWhole", "binTorn"}

(* ... of its temporary files, ... *)
OfTmp(e) ==
    CASE e = "json.tmp" \/ e = "json" -> {"tmpTorn", "tmpWhole"}
      [] OTHER -> {"bintmpTorn", "bintmpWhole"}

(* ... and of the files of the setting. *)
OfSetting == {"even", "same", "both", "setTorn", "setBinTorn"}

(* What is known before the steps that load, and that put others in front. *)
Ground == {"calm", "even", "mine", "probed"}

(* Between operations. *)
Calmly == {"calm", "even"}

(* Steps before which nothing else is known. *)
Inserting ==
    {"loadPerm", "loadBoost", "loadSys", "change", "tune", "edit", "editPerm", "syncIfZero",
     "calibrateIfZero"}

(* Those that may start a recovery scan. *)
Scanning == {"loadSys", "syncIfZero", "calibrateIfZero"}

(* A file of the fingerprint that may be read-only is opened. *)
Locks(x) == x[1] = "open" /\ x[2] = "sys" /\ x[3] \in {"json", "bin"}

(* What a step on a file of the fingerprint needs, ... *)
SysNeeds(what, e) ==
    CASE what = "open" -> (CASE e = "json" -> {"calm"} [] e = "bin" -> {"calm", "jsonWhole"} [] OTHER -> {})
      [] what = "fill" -> (CASE e = "json" -> {"jsonTorn"} [] e = "bin" -> {"binTorn"}
                             [] e = "json.tmp" -> {"tmpTorn"} [] OTHER -> {"bintmpTorn"})
      [] what = "rename" -> (IF e = "json" THEN {"calm", "tmpWhole"} ELSE {"calm", "bintmpWhole"})
      [] OTHER -> {"lost"}

(* ... what it gives, ... *)
SysGains(what, e) ==
    CASE what = "open" -> (CASE e = "json" -> {"jsonTorn"} [] e = "bin" -> {"binTorn"}
                             [] e = "json.tmp" -> {"tmpTorn"} [] OTHER -> {"bintmpTorn"})
      [] what = "fill" -> (CASE e \in {"json", "bin"} -> {"calm", "jsonWhole"}
                             [] e = "json.tmp" -> {"tmpWhole"} [] OTHER -> {"bintmpWhole"})
      [] what = "rename" -> (IF e = "json" THEN {"calm", "jsonWhole"} ELSE {"calm"})
      [] OTHER -> {}

(* ... and what it takes. *)
SysLoses(what, e) ==
    CASE what = "rename" -> InPlace \cup OfTmp(e)
      [] what \in {"open", "fill"} -> (IF e \in {"json", "bin"} THEN InPlace ELSE OfTmp(e))
      [] OTHER -> {}

(* What a step on a file of a setting needs, and what it gives. *)
SetNeeds(what, e) ==
    CASE what = "open" -> (IF e = "json" THEN {"even", "mine"} ELSE {"even", "mine", "same"})
      [] what = "fill" -> (IF e = "json" THEN {"setTorn", "mine"} ELSE {"setBinTorn", "mine", "same"})
      [] OTHER -> {"even"}

(* What such a step gives. *)
SetGains(what, e) ==
    CASE what = "open" -> (IF e = "json" THEN {"setTorn"} ELSE {"setBinTorn", "same"})
      [] what = "fill" -> (IF e = "json" THEN {"even", "same"} ELSE {"even", "same", "both"})
      [] OTHER -> {"even"}

(* What a call needs, ... *)
CallNeeds(op, what) ==
    CASE what = "change" ->
            Calmly \cup (CASE op = "resetBoost" -> {"probed"} [] op = "putBoost" -> {} [] OTHER -> {"mine"})
      [] what = "tune" -> Calmly \cup {"mine", "probed"}
      [] what \in {"edit", "editPerm"} -> Calmly \cup {"mine"}
      [] what \in {"loadPerm", "loadBoost", "loadSys", "syncIfZero", "calibrateIfZero"} -> Calmly
      [] what = "require" -> {"probed"}
      [] what = "saved" -> {"meant", "both", "mine"}
      [] OTHER -> {}

(* ... and what it gives. *)
CallGains(what) ==
    CASE what \in {"loadPerm", "loadBoost", "change", "tune"} -> {"mine"}
      [] what \in {"loadSys", "probe"} -> {"probed"}
      [] what = "saved" -> {"mine", "even"}
      [] OTHER -> {}

(* Steps on files. *)
FileWords == {"open", "fill", "rename", "remove"}

(* What a step needs, gives and takes. *)
KeptNeeds(op, x) ==
    IF x[1] \notin FileWords THEN CallNeeds(op, x[1])
    ELSE IF x[2] = "sys" THEN SysNeeds(x[1], x[3])
    ELSE IF x[2] \in Settings THEN SetNeeds(x[1], x[3]) ELSE {}

(* What is known after it, that was not before. *)
KeptGains(x) ==
    IF x[1] \notin FileWords THEN CallGains(x[1])
    ELSE IF x[2] = "sys" THEN SysGains(x[1], x[3])
    ELSE IF x[2] \in Settings THEN SetGains(x[1], x[3]) ELSE {}

(* What was known before it, and is not after. *)
KeptLoses(x) ==
    IF x[1] \notin FileWords THEN (IF x[1] = "saved" THEN {"meant"} ELSE {})
    ELSE IF x[2] = "sys" THEN SysLoses(x[1], x[3])
    ELSE IF x[2] \in Settings THEN OfSetting ELSE {}

(* What needs nothing, where nothing is claimed. *)
Anyway(l, x) == "lost" \in l.now /\ x[1] \in {"fill", "remove"} /\ x[2] = "sys"

(* Step x of op may follow l, and m may follow it. *)
KeptRule(op, l, x, m) ==
    /\ Asks(x) \subseteq Touches(op)
    /\ IF x[1] \in Catchers THEN l.now \subseteq l.then ELSE m.then = l.then
    /\ \/ Anyway(l, x)
       \/ /\ KeptNeeds(op, x) \subseteq l.now
          /\ m.now \subseteq (l.now \ KeptLoses(x)) \cup KeptGains(x)
          /\ x[1] \in Inserting => l.now \subseteq Ground
          /\ x[1] \in Scanning => Ground \subseteq l.then
          /\ Locks(x) => l.then \subseteq l.now \ {"probed"}

(* The rules as a set of label, step, label. *)
KeptRules(op) == {t \in Label \X Steps \X Label : KeptRule(op, t[1], t[2], t[3])}

(* The rules, spelled out. *)
LEMMA KeptRulesDef ==
    ASSUME NEW op, NEW l \in Label, NEW m \in Label, NEW x \in Steps
    PROVE  <<l, x, m>> \in KeptRules(op) <=> KeptRule(op, l, x, m)
<1> DEFINE t == <<l, x, m>>
<1>1. t \in Label \X Steps \X Label /\ t[1] = l /\ t[2] = x /\ t[3] = m
  OBVIOUS
<1>2. t \in KeptRules(op) <=> KeptRule(op, t[1], t[2], t[3])
  <2> HIDE DEF t
  <2> QED
    BY <1>1 DEF KeptRules
<1> QED
  BY <1>1, <1>2

(* The rules keep what is promised where errors are caught. *)
LEMMA KeptThrowing == ASSUME NEW op PROVE Throwing(KeptRules(op))
  BY KeptRulesDef DEF Throwing, KeptRule

(* A step that is no catcher. *)
LEMMA KeptTriple ==
    ASSUME NEW op, NEW x \in Steps, x[1] \notin Catchers, Asks(x) \subseteq Touches(op),
           NEW N \in SUBSET Claims, NEW T \in SUBSET Claims, NEW M \in SUBSET Claims,
           KeptNeeds(op, x) \subseteq N, M \subseteq (N \ KeptLoses(x)) \cup KeptGains(x),
           x[1] \in Inserting => N \subseteq Ground,
           x[1] \in Scanning => Ground \subseteq T,
           Locks(x) => T \subseteq N \ {"probed"}
    PROVE  <<Knowing(N, T), x, Knowing(M, T)>> \in KeptRules(op)
<1>1. KeptRule(op, Knowing(N, T), x, Knowing(M, T))
  BY KnowingLabel DEF KeptRule
<1> QED
  BY <1>1, KnowingLabel, KeptRulesDef

(* Where an error is caught, what was promised is known. *)
LEMMA KeptCatch ==
    ASSUME NEW op, NEW what \in Catchers, what = "require" => {"boost", "sys"} \subseteq Touches(op),
           NEW N \in SUBSET Claims, NEW T \in SUBSET Claims, NEW V \in SUBSET Claims,
           N \subseteq T, what = "require" => "probed" \in N
    PROVE  Do(what) \in Steps /\ <<Knowing(N, T), Do(what), Knowing(N, V)>> \in KeptRules(op)
<1> DEFINE x == Do(what)
<1>0. x \in Steps /\ x[1] = what /\ what \in {"catch", "require"}
  BY Zenon DEF Do, Steps, Catchers, Words, Places, Extensions
<1> HIDE DEF x
<1>1. Asks(x) \subseteq Touches(op)
  BY <1>0 DEF Asks
<1>2. KeptNeeds(op, x) \subseteq N /\ KeptLoses(x) = {} /\ x[1] \in Catchers /\ ~Locks(x)
      /\ x[1] \notin Inserting /\ x[1] \notin Scanning
  BY <1>0 DEF KeptNeeds, KeptLoses, CallNeeds, FileWords, Catchers, Locks, Inserting, Scanning
<1>3. KeptRule(op, Knowing(N, T), x, Knowing(N, V))
  BY <1>1, <1>2, KnowingLabel DEF KeptRule
<1> QED
  BY <1>0, <1>3, KnowingLabel, KeptRulesDef DEF x

(* A call that looks at no error. *)
LEMMA KeptCall ==
    ASSUME NEW op, NEW what \in Words \ FileWords, what \notin Catchers,
           what \in {"loadPerm", "editPerm"} => "perm" \in Touches(op),
           what \in {"loadBoost", "edit"} => "boost" \in Touches(op),
           what \in Scanning \cup {"tune"} => {"boost", "sys"} \subseteq Touches(op),
           NEW N \in SUBSET Claims, NEW T \in SUBSET Claims, NEW M \in SUBSET Claims,
           CallNeeds(op, what) \subseteq N,
           M \subseteq (N \ (IF what = "saved" THEN {"meant"} ELSE {})) \cup CallGains(what),
           what \in Inserting => N \subseteq Ground,
           what \in Scanning => Ground \subseteq T
    PROVE  Do(what) \in Steps /\ <<Knowing(N, T), Do(what), Knowing(M, T)>> \in KeptRules(op)
<1> DEFINE x == Do(what)
<1>0. x \in Steps /\ x[1] = what /\ x[2] = ""
  BY DoStep DEF Do
<1> HIDE DEF x
<1>1. Asks(x) \subseteq Touches(op)
  <2>1. CASE what \in {"loadPerm", "editPerm"}
    BY <1>0, <2>1 DEF Asks
  <2>2. CASE what \in {"loadBoost", "edit"}
    BY <1>0, <2>2 DEF Asks
  <2>3. CASE what \in Scanning \cup {"tune"}
    BY <1>0, <2>3 DEF Asks, Scanning
  <2>4. CASE what \notin {"loadPerm", "editPerm"} \cup {"loadBoost", "edit"} \cup Scanning \cup {"tune"}
    <3>1. Asks(x) = {}
      BY <1>0, <2>4 DEF Asks, Scanning, FileWords, Catchers
    <3> QED
      BY <3>1
  <2> QED
    BY <2>1, <2>2, <2>3, <2>4
<1>2. KeptNeeds(op, x) = CallNeeds(op, what) /\ KeptGains(x) = CallGains(what)
      /\ KeptLoses(x) = (IF what = "saved" THEN {"meant"} ELSE {}) /\ ~Locks(x)
  BY <1>0 DEF KeptNeeds, KeptGains, KeptLoses, Locks, FileWords
<1>3. <<Knowing(N, T), x, Knowing(M, T)>> \in KeptRules(op)
  BY <1>0, <1>1, <1>2, KeptTriple
<1> QED
  BY <1>0, <1>3 DEF x

(* Calls that need nothing and give nothing. *)
Quietly ==
    {"", "writable", "readonly", "orBlank", "lock", "unlock", "total", "allocate", "free", "fit",
     "forget", "loadReg", "regAdd", "regRemove", "regContext", "regPurge", "probe"}

(* They keep what is known, or part of it; a probe finds the fingerprint. *)
LEMMA KeptQuietly ==
    ASSUME NEW op, NEW what \in Quietly,
           NEW N \in SUBSET Claims, NEW T \in SUBSET Claims, NEW M \in SUBSET Claims,
           M \subseteq N \cup (IF what = "probe" THEN {"probed"} ELSE {})
    PROVE  Do(what) \in Steps /\ <<Knowing(N, T), Do(what), Knowing(M, T)>> \in KeptRules(op)
<1>1. what \in Words \ FileWords /\ what \notin Catchers /\ what \notin Inserting /\ what \notin Scanning
      /\ what \notin {"loadPerm", "editPerm", "loadBoost", "edit", "tune", "saved"}
  BY DEF Quietly, Words, FileWords, Catchers, Inserting, Scanning
<1>2. CallNeeds(op, what) = {}
  BY DEF Quietly, CallNeeds
<1>3. CallGains(what) = IF what = "probe" THEN {"probed"} ELSE {}
  BY DEF Quietly, CallGains
<1> QED
  BY <1>1, <1>2, <1>3, KeptCall

(* Loads of the settings. *)
LEMMA KeptLoad ==
    ASSUME NEW op, NEW what \in {"loadPerm", "loadBoost"},
           IF what = "loadPerm" THEN "perm" \in Touches(op) ELSE "boost" \in Touches(op),
           NEW N \in SUBSET Claims, NEW T \in SUBSET Claims, NEW M \in SUBSET Claims,
           Calmly \subseteq N, N \subseteq Ground, M \subseteq N \cup {"mine"}
    PROVE  Do(what) \in Steps /\ <<Knowing(N, T), Do(what), Knowing(M, T)>> \in KeptRules(op)
<1>1. what \in Words \ FileWords /\ what \notin Catchers /\ what \notin Scanning
      /\ what \notin {"editPerm", "edit", "tune", "saved"}
  BY DEF Words, FileWords, Catchers, Scanning
<1>2. CallNeeds(op, what) = Calmly /\ CallGains(what) = {"mine"}
  BY DEF CallNeeds, CallGains
<1> QED
  BY <1>1, <1>2, KeptCall

(* Loads of the fingerprint, and what may load it. *)
LEMMA KeptScan ==
    ASSUME NEW op, NEW what \in Scanning, {"boost", "sys"} \subseteq Touches(op),
           NEW N \in SUBSET Claims, NEW T \in SUBSET Claims, NEW M \in SUBSET Claims,
           Calmly \subseteq N, N \subseteq Ground, Ground \subseteq T,
           M \subseteq N \cup (IF what = "loadSys" THEN {"probed"} ELSE {})
    PROVE  Do(what) \in Steps /\ <<Knowing(N, T), Do(what), Knowing(M, T)>> \in KeptRules(op)
<1>1. what \in Words \ FileWords /\ what \notin Catchers
      /\ what \notin {"loadPerm", "editPerm", "loadBoost", "edit", "tune", "saved"}
  BY DEF Words, FileWords, Catchers, Scanning
<1>2. CallNeeds(op, what) = Calmly /\ CallGains(what) = (IF what = "loadSys" THEN {"probed"} ELSE {})
  BY DEF CallNeeds, CallGains, Scanning
<1> QED
  BY <1>1, <1>2, KeptCall

(* Changes, and choices in menus. *)
LEMMA KeptChoice ==
    ASSUME NEW op, NEW what \in {"change", "tune", "edit", "editPerm"},
           what = "editPerm" => "perm" \in Touches(op), what = "edit" => "boost" \in Touches(op),
           what = "tune" => {"boost", "sys"} \subseteq Touches(op),
           NEW N \in SUBSET Claims, NEW T \in SUBSET Claims, NEW M \in SUBSET Claims,
           CallNeeds(op, what) \subseteq N, N \subseteq Ground,
           M \subseteq N \cup (IF what \in {"change", "tune"} THEN {"mine"} ELSE {})
    PROVE  Do(what) \in Steps /\ <<Knowing(N, T), Do(what), Knowing(M, T)>> \in KeptRules(op)
<1>1. what \in Words \ FileWords /\ what \notin Catchers /\ what \notin Scanning
      /\ what \notin {"loadPerm", "loadBoost", "saved"}
  BY DEF Words, FileWords, Catchers, Scanning
<1>2. CallGains(what) = IF what \in {"change", "tune"} THEN {"mine"} ELSE {}
  BY DEF CallGains
<1> QED
  BY <1>1, <1>2, KeptCall

(* Steps on the files of the fingerprint. *)
LEMMA KeptSysFile ==
    ASSUME NEW op, "sys" \in Touches(op), NEW what \in FileWords,
           NEW e \in {"json", "bin", "json.tmp", "bin.tmp"},
           NEW N \in SUBSET Claims, NEW T \in SUBSET Claims, NEW M \in SUBSET Claims,
           SysNeeds(what, e) \subseteq N, M \subseteq (N \ SysLoses(what, e)) \cup SysGains(what, e),
           what = "open" /\ e \in {"json", "bin"} => T \subseteq N \ {"probed"}
    PROVE  <<what, "sys", e>> \in Steps /\ <<Knowing(N, T), <<what, "sys", e>>, Knowing(M, T)>> \in KeptRules(op)
<1> DEFINE x == <<what, "sys", e>>
<1>0. x \in Steps /\ x[1] = what /\ x[2] = "sys" /\ x[3] = e
  BY Zenon DEF Steps, Words, Places, Extensions, FileWords
<1> HIDE DEF x
<1>1. what \notin Catchers /\ what \notin Inserting /\ what \notin Scanning /\ Asks(x) = {"sys"}
  BY <1>0 DEF Asks, FileWords, Catchers, Inserting, Scanning
<1>2. KeptNeeds(op, x) = SysNeeds(what, e) /\ KeptGains(x) = SysGains(what, e)
      /\ KeptLoses(x) = SysLoses(what, e) /\ (Locks(x) => what = "open" /\ e \in {"json", "bin"})
  BY <1>0 DEF KeptNeeds, KeptGains, KeptLoses, Locks
<1>3. <<Knowing(N, T), x, Knowing(M, T)>> \in KeptRules(op)
  BY <1>0, <1>1, <1>2, KeptTriple
<1> QED
  BY <1>0, <1>3 DEF x

(* Steps on the files of a setting. *)
LEMMA KeptSetFile ==
    ASSUME NEW op, NEW s \in Settings, s \in Touches(op), NEW what \in {"open", "fill", "remove"},
           NEW e \in {"json", "bin"},
           NEW N \in SUBSET Claims, NEW T \in SUBSET Claims, NEW M \in SUBSET Claims,
           SetNeeds(what, e) \subseteq N, M \subseteq (N \ OfSetting) \cup SetGains(what, e)
    PROVE  <<what, s, e>> \in Steps /\ <<Knowing(N, T), <<what, s, e>>, Knowing(M, T)>> \in KeptRules(op)
<1> DEFINE x == <<what, s, e>>
<1>0. x \in Steps /\ x[1] = what /\ x[2] = s /\ x[3] = e /\ s # "sys"
  BY Zenon DEF Steps, Words, Places, Extensions, Settings
<1> HIDE DEF x
<1>1. what \notin Catchers /\ what \notin Inserting /\ what \notin Scanning /\ Asks(x) = {s}
  BY <1>0 DEF Asks, Catchers, Inserting, Scanning, Settings
<1>2. KeptNeeds(op, x) = SetNeeds(what, e) /\ KeptGains(x) = SetGains(what, e)
      /\ KeptLoses(x) = OfSetting /\ ~Locks(x)
  BY <1>0 DEF KeptNeeds, KeptGains, KeptLoses, Locks, FileWords
<1>3. <<Knowing(N, T), x, Knowing(M, T)>> \in KeptRules(op)
  BY <1>0, <1>1, <1>2, KeptTriple
<1> QED
  BY <1>0, <1>3 DEF x

-----------------------------------------------------------------------------
(* Parts of programs *)

(* All that is used here may be known. *)
LEMMA KeptClaims ==
    /\ Ground \in SUBSET Claims /\ Calmly \in SUBSET Claims /\ OfSetting \in SUBSET Claims
    /\ InPlace \in SUBSET Claims /\ Calmly \subseteq Ground
    /\ {"jsonTorn", "jsonWhole", "binTorn", "tmpTorn", "tmpWhole", "bintmpTorn", "bintmpWhole"} \subseteq Claims
    /\ {"same", "both", "setTorn", "setBinTorn", "even", "mine", "meant", "probed", "calm", "lost"} \subseteq Claims
  BY DEF Claims, FileClaims, SettingClaims, Ground, Calmly, OfSetting, InPlace

(* A temporary file is written. *)
LEMMA KeptPutTmp ==
    ASSUME NEW op, "sys" \in Touches(op), NEW e \in {"json.tmp", "bin.tmp"},
           NEW N \in SUBSET Claims, NEW T \in SUBSET Claims, NEW M \in SUBSET Claims,
           M \subseteq (N \ OfTmp(e)) \cup (IF e = "json.tmp" THEN {"tmpWhole"} ELSE {"bintmpWhole"})
    PROVE  Path(KeptRules(op), Put("sys", e), Knowing(N, T), Knowing(M, T))
<1> DEFINE N1 == (N \ OfTmp(e)) \cup (IF e = "json.tmp" THEN {"tmpTorn"} ELSE {"bintmpTorn"})
           x == <<"open", "sys", e>>
           y == <<"fill", "sys", e>>
<1>0. N1 \in SUBSET Claims
  BY KeptClaims
<1>1. x \in Steps /\ <<Knowing(N, T), x, Knowing(N1, T)>> \in KeptRules(op)
  <2>1. SysNeeds("open", e) = {} /\ SysLoses("open", e) = OfTmp(e)
        /\ SysGains("open", e) = IF e = "json.tmp" THEN {"tmpTorn"} ELSE {"bintmpTorn"}
    BY DEF SysNeeds, SysLoses, SysGains
  <2>2. SysNeeds("open", e) \subseteq N /\ N1 \subseteq (N \ SysLoses("open", e)) \cup SysGains("open", e)
        /\ "open" \in FileWords
    BY <2>1 DEF FileWords
  <2> HIDE DEF N1
  <2> QED
    BY <1>0, <2>2, KeptSysFile
<1>2. y \in Steps /\ <<Knowing(N1, T), y, Knowing(M, T)>> \in KeptRules(op)
  <2>1. SysNeeds("fill", e) = (IF e = "json.tmp" THEN {"tmpTorn"} ELSE {"bintmpTorn"})
        /\ SysLoses("fill", e) = OfTmp(e)
        /\ SysGains("fill", e) = IF e = "json.tmp" THEN {"tmpWhole"} ELSE {"bintmpWhole"}
    BY DEF SysNeeds, SysLoses, SysGains
  <2>2. SysNeeds("fill", e) \subseteq N1 /\ M \subseteq (N1 \ SysLoses("fill", e)) \cup SysGains("fill", e)
        /\ "fill" \in FileWords
    BY <2>1 DEF FileWords
  <2> HIDE DEF N1
  <2> QED
    BY <1>0, <2>2, KeptSysFile
<1>3. Knowing(N, T) \in Label /\ Knowing(N1, T) \in Label /\ Knowing(M, T) \in Label
  BY <1>0, KnowingLabel
<1>4. Put("sys", e) = <<x, y>>
  BY DEF Put
<1> HIDE DEF N1, x, y
<1> QED
  BY <1>1, <1>2, <1>3, <1>4, PathTwo

(* The fingerprint is saved by temporary files. *)
LEMMA KeptSaveAtomic ==
    ASSUME NEW op, "sys" \in Touches(op),
           NEW N \in SUBSET Claims, NEW T \in SUBSET Claims, NEW M \in SUBSET N,
           "calm" \in N, N \subseteq Ground
    PROVE  Path(KeptRules(op), SaveAtomic("sys"), Knowing(N, T), Knowing(M, T))
<1> DEFINE N1 == N \cup {"tmpWhole"}
           N2 == N \cup {"tmpWhole", "bintmpWhole"}
           N3 == N \cup {"bintmpWhole"}
           x == <<"rename", "sys", "json">>
           y == <<"rename", "sys", "bin">>
           l == Knowing(N, T)
           l1 == Knowing(N1, T)
           l2 == Knowing(N2, T)
           l3 == Knowing(N3, T)
           m == Knowing(M, T)
<1>0. N1 \in SUBSET Claims /\ N2 \in SUBSET Claims /\ N3 \in SUBSET Claims /\ M \in SUBSET Claims
  BY KeptClaims
<1>g. N \cap OfTmp("json.tmp") = {} /\ N1 \cap OfTmp("bin.tmp") = {}
  BY DEF OfTmp, Ground
<1>1. Path(KeptRules(op), Put("sys", "json.tmp"), l, l1)
  <2>1. N1 \subseteq (N \ OfTmp("json.tmp")) \cup {"tmpWhole"}
    BY <1>g
  <2> HIDE DEF N1
  <2> QED
    BY <1>0, <2>1, KeptPutTmp
<1>2. Path(KeptRules(op), Put("sys", "bin.tmp"), l1, l2)
  <2>1. N2 \subseteq (N1 \ OfTmp("bin.tmp")) \cup {"bintmpWhole"}
    BY <1>g
  <2> HIDE DEF N1, N2
  <2> QED
    BY <1>0, <2>1, KeptPutTmp
<1>3. x \in Steps /\ <<l2, x, l3>> \in KeptRules(op)
  <2>1. SysNeeds("rename", "json") = {"calm", "tmpWhole"} /\ SysLoses("rename", "json") = InPlace \cup {"tmpTorn", "tmpWhole"}
        /\ SysGains("rename", "json") = {"calm", "jsonWhole"}
    BY DEF SysNeeds, SysLoses, SysGains, OfTmp
  <2>2. SysNeeds("rename", "json") \subseteq N2
        /\ N3 \subseteq (N2 \ SysLoses("rename", "json")) \cup SysGains("rename", "json") /\ "rename" \in FileWords
    BY <2>1 DEF FileWords, InPlace, Ground
  <2> HIDE DEF N2, N3
  <2> QED
    BY <1>0, <2>2, KeptSysFile
<1>4. y \in Steps /\ <<l3, y, m>> \in KeptRules(op)
  <2>1. SysNeeds("rename", "bin") = {"calm", "bintmpWhole"} /\ SysLoses("rename", "bin") = InPlace \cup {"bintmpTorn", "bintmpWhole"}
        /\ SysGains("rename", "bin") = {"calm"}
    BY DEF SysNeeds, SysLoses, SysGains, OfTmp
  <2>2. SysNeeds("rename", "bin") \subseteq N3
        /\ M \subseteq (N3 \ SysLoses("rename", "bin")) \cup SysGains("rename", "bin") /\ "rename" \in FileWords
    BY <2>1 DEF FileWords, InPlace, Ground
  <2> HIDE DEF N3
  <2> QED
    BY <1>0, <2>2, KeptSysFile
<1>5. l \in Label /\ l1 \in Label /\ l2 \in Label /\ l3 \in Label /\ m \in Label
  BY <1>0, KnowingLabel
<1>6. SaveAtomic("sys") = (Put("sys", "json.tmp") \o Put("sys", "bin.tmp")) \o <<x, y>>
  BY DEF SaveAtomic, Put
<1> HIDE DEF l, l1, l2, l3, m, x, y
<1>7. Path(KeptRules(op), <<x, y>>, l2, m)
  BY <1>3, <1>4, <1>5, PathTwo
<1>8. Path(KeptRules(op), Put("sys", "json.tmp") \o Put("sys", "bin.tmp"), l, l2)
  BY <1>1, <1>2, PathCat
<1>9. Path(KeptRules(op), SaveAtomic("sys"), l, m)
  BY <1>6, <1>7, <1>8, PathCat
<1> QED
  BY <1>9 DEF l, m

(* The JSON file of the fingerprint is written in place. *)
LEMMA KeptPutJson ==
    ASSUME NEW op, "sys" \in Touches(op),
           NEW N \in SUBSET Claims, NEW T \in SUBSET Claims, NEW M \in SUBSET Claims,
           "calm" \in N, N \subseteq Ground, T \subseteq N \ {"probed"}, M \subseteq N \cup {"jsonWhole"}
    PROVE  Path(KeptRules(op), Put("sys", "json"), Knowing(N, T), Knowing(M, T))
<1> DEFINE N1 == (N \ {"calm"}) \cup {"jsonTorn"}
           x == <<"open", "sys", "json">>
           y == <<"fill", "sys", "json">>
<1>0. N1 \in SUBSET Claims
  BY KeptClaims
<1>1. x \in Steps /\ <<Knowing(N, T), x, Knowing(N1, T)>> \in KeptRules(op)
  <2>1. SysNeeds("open", "json") = {"calm"} /\ SysLoses("open", "json") = InPlace
        /\ SysGains("open", "json") = {"jsonTorn"}
    BY DEF SysNeeds, SysLoses, SysGains
  <2>2. SysNeeds("open", "json") \subseteq N /\ N1 \subseteq (N \ SysLoses("open", "json")) \cup SysGains("open", "json")
        /\ "open" \in FileWords
    BY <2>1 DEF FileWords, InPlace, Ground
  <2> HIDE DEF N1
  <2> QED
    BY <1>0, <2>2, KeptSysFile
<1>2. y \in Steps /\ <<Knowing(N1, T), y, Knowing(M, T)>> \in KeptRules(op)
  <2>1. SysNeeds("fill", "json") = {"jsonTorn"} /\ SysLoses("fill", "json") = InPlace
        /\ SysGains("fill", "json") = {"calm", "jsonWhole"}
    BY DEF SysNeeds, SysLoses, SysGains
  <2>2. SysNeeds("fill", "json") \subseteq N1 /\ M \subseteq (N1 \ SysLoses("fill", "json")) \cup SysGains("fill", "json")
        /\ "fill" \in FileWords
    BY <2>1 DEF FileWords, InPlace, Ground
  <2> HIDE DEF N1
  <2> QED
    BY <1>0, <2>2, KeptSysFile
<1>3. Knowing(N, T) \in Label /\ Knowing(N1, T) \in Label /\ Knowing(M, T) \in Label
  BY <1>0, KnowingLabel
<1>4. Put("sys", "json") = <<x, y>>
  BY DEF Put
<1> HIDE DEF N1, x, y
<1> QED
  BY <1>1, <1>2, <1>3, <1>4, PathTwo

(* Both files of the fingerprint are written in place. *)
LEMMA KeptSaveSys ==
    ASSUME NEW op, "sys" \in Touches(op),
           NEW N \in SUBSET Claims, NEW T \in SUBSET Claims,
           "calm" \in N, N \subseteq Ground, T \subseteq N \ {"probed"}
    PROVE  Path(KeptRules(op), SavePlain("sys"), Knowing(N, T), Knowing(N, T))
<1> DEFINE N1 == N \cup {"jsonWhole"}
           N2 == (N \ {"calm"}) \cup {"binTorn"}
           x == <<"open", "sys", "bin">>
           y == <<"fill", "sys", "bin">>
<1>0. N1 \in SUBSET Claims /\ N2 \in SUBSET Claims
  BY KeptClaims
<1>1. Path(KeptRules(op), Put("sys", "json"), Knowing(N, T), Knowing(N1, T))
  <2> HIDE DEF N1
  <2>1. N1 \subseteq N \cup {"jsonWhole"}
    BY DEF N1
  <2> QED
    BY <1>0, <2>1, KeptPutJson
<1>2. x \in Steps /\ <<Knowing(N1, T), x, Knowing(N2, T)>> \in KeptRules(op)
  <2>1. SysNeeds("open", "bin") = {"calm", "jsonWhole"} /\ SysLoses("open", "bin") = InPlace
        /\ SysGains("open", "bin") = {"binTorn"}
    BY DEF SysNeeds, SysLoses, SysGains
  <2>2. SysNeeds("open", "bin") \subseteq N1 /\ N2 \subseteq (N1 \ SysLoses("open", "bin")) \cup SysGains("open", "bin")
        /\ "open" \in FileWords /\ T \subseteq N1 \ {"probed"}
    BY <2>1 DEF FileWords, InPlace, Ground
  <2> HIDE DEF N1, N2
  <2> QED
    BY <1>0, <2>2, KeptSysFile
<1>3. y \in Steps /\ <<Knowing(N2, T), y, Knowing(N, T)>> \in KeptRules(op)
  <2>1. SysNeeds("fill", "bin") = {"binTorn"} /\ SysLoses("fill", "bin") = InPlace
        /\ SysGains("fill", "bin") = {"calm", "jsonWhole"}
    BY DEF SysNeeds, SysLoses, SysGains
  <2>2. SysNeeds("fill", "bin") \subseteq N2 /\ N \subseteq (N2 \ SysLoses("fill", "bin")) \cup SysGains("fill", "bin")
        /\ "fill" \in FileWords
    BY <2>1 DEF FileWords, InPlace, Ground
  <2> HIDE DEF N2
  <2> QED
    BY <1>0, <2>2, KeptSysFile
<1>4. Knowing(N, T) \in Label /\ Knowing(N1, T) \in Label /\ Knowing(N2, T) \in Label
  BY <1>0, KnowingLabel
<1>5. SavePlain("sys") = Put("sys", "json") \o <<x, y>>
  BY DEF SavePlain, Put
<1> HIDE DEF N1, N2, x, y
<1>6. Path(KeptRules(op), <<x, y>>, Knowing(N1, T), Knowing(N, T))
  BY <1>2, <1>3, <1>4, PathTwo
<1> QED
  BY <1>1, <1>5, <1>6, PathCat

(* Both files of a setting are written, from the copy in memory. *)
LEMMA KeptSaveSet ==
    ASSUME NEW op, NEW s \in Settings, s \in Touches(op),
           NEW N \in SUBSET Claims, NEW T \in SUBSET Claims, NEW M \in SUBSET Claims,
           {"even", "mine"} \subseteq N, M \subseteq (N \ OfSetting) \cup {"even", "same", "both"}
    PROVE  Path(KeptRules(op), SavePlain(s), Knowing(N, T), Knowing(M, T))
<1> DEFINE K == N \ OfSetting
           N1 == K \cup {"setTorn"}
           N2 == K \cup {"even", "same"}
           N3 == K \cup {"setBinTorn", "same"}
           a == <<"open", s, "json">>
           b == <<"fill", s, "json">>
           c == <<"open", s, "bin">>
           d == <<"fill", s, "bin">>
           l == Knowing(N, T)
           l1 == Knowing(N1, T)
           l2 == Knowing(N2, T)
           l3 == Knowing(N3, T)
           m == Knowing(M, T)
<1>0. N1 \in SUBSET Claims /\ N2 \in SUBSET Claims /\ N3 \in SUBSET Claims
  BY KeptClaims
<1>k. "mine" \in K
  BY DEF OfSetting
<1>1. a \in Steps /\ <<l, a, l1>> \in KeptRules(op)
  <2>1. SetNeeds("open", "json") \subseteq N /\ N1 \subseteq (N \ OfSetting) \cup SetGains("open", "json")
    BY DEF SetNeeds, SetGains
  <2> HIDE DEF N1, K
  <2> QED
    BY <1>0, <2>1, KeptSetFile
<1>2. b \in Steps /\ <<l1, b, l2>> \in KeptRules(op)
  <2>1. SetNeeds("fill", "json") \subseteq N1 /\ N2 \subseteq (N1 \ OfSetting) \cup SetGains("fill", "json")
    BY <1>k DEF SetNeeds, SetGains
  <2> HIDE DEF N1, N2, K
  <2> QED
    BY <1>0, <2>1, KeptSetFile
<1>3. c \in Steps /\ <<l2, c, l3>> \in KeptRules(op)
  <2>1. SetNeeds("open", "bin") \subseteq N2 /\ N3 \subseteq (N2 \ OfSetting) \cup SetGains("open", "bin")
    BY <1>k DEF SetNeeds, SetGains
  <2> HIDE DEF N2, N3, K
  <2> QED
    BY <1>0, <2>1, KeptSetFile
<1>4. d \in Steps /\ <<l3, d, m>> \in KeptRules(op)
  <2>1. SetNeeds("fill", "bin") \subseteq N3 /\ M \subseteq (N3 \ OfSetting) \cup SetGains("fill", "bin")
    BY <1>k DEF SetNeeds, SetGains
  <2> HIDE DEF N3, K
  <2> QED
    BY <1>0, <2>1, KeptSetFile
<1>5. l \in Label /\ l1 \in Label /\ l2 \in Label /\ l3 \in Label /\ m \in Label
  BY <1>0, KnowingLabel
<1>6. SavePlain(s) = <<a, b>> \o <<c, d>>
  BY DEF SavePlain, Put
<1> HIDE DEF l, l1, l2, l3, m, a, b, c, d
<1>7. Path(KeptRules(op), <<a, b>>, l, l2) /\ Path(KeptRules(op), <<c, d>>, l2, m)
  BY <1>1, <1>2, <1>3, <1>4, <1>5, PathTwo
<1>8. Path(KeptRules(op), SavePlain(s), l, m)
  BY <1>6, <1>7, PathCat
<1> QED
  BY <1>8 DEF l, m

(* A few calls that leave what is known. *)
LEMMA KeptStay ==
    ASSUME NEW op, NEW l \in Label, NEW a \in Quietly, NEW b \in Quietly, NEW c \in Quietly
    PROVE  /\ Path(KeptRules(op), <<Do(a)>>, l, l) /\ Path(KeptRules(op), <<Do(a), Do(b)>>, l, l)
           /\ Path(KeptRules(op), <<Do(a), Do(b), Do(c)>>, l, l)
<1> DEFINE R == KeptRules(op)
<1>1. \A w \in Quietly : Do(w) \in Steps /\ <<l, Do(w), l>> \in R
  <2> TAKE w \in Quietly
  <2>1. l.now \in SUBSET Claims /\ l.then \in SUBSET Claims /\ Knowing(l.now, l.then) = l
    BY LabelParts
  <2> QED
    BY <2>1, KeptQuietly
<1> HIDE DEF R
<1>2. Path(R, <<Do(a)>>, l, l)
  BY <1>1, PathOne
<1>3. Path(R, <<Do(a), Do(b)>>, l, l)
  BY <1>1, PathTwo
<1>4. Path(R, <<Do(a), Do(b), Do(c)>>, l, l)
  BY <1>1, PathThree
<1> QED
  BY <1>2, <1>3, <1>4 DEF R

(* The recovery scan: the fingerprint is probed and saved, and the booster *)
(* loaded and saved.                                                       *)
LEMMA KeptAutoCalibrate ==
    ASSUME NEW op, {"boost", "sys"} \subseteq Touches(op),
           NEW N \in SUBSET Claims, NEW T \in SUBSET Claims, NEW M \in SUBSET Claims,
           Calmly \subseteq N, N \subseteq Ground, M \subseteq N \cup {"mine", "probed"}
    PROVE  Path(KeptRules(op), AutoCalibrate, Knowing(N, T), Knowing(M, T))
<1> DEFINE R == KeptRules(op)
           N1 == N \cup {"probed"}
           N2 == N \cup {"mine", "probed"}
<1>0. N1 \in SUBSET Claims /\ N2 \in SUBSET Claims /\ N1 \subseteq Ground /\ N2 \subseteq Ground
      /\ "calm" \in N1 /\ Calmly \subseteq N1 /\ {"even", "mine"} \subseteq N2
      /\ M \subseteq (N2 \ OfSetting) \cup {"even", "same", "both"}
  BY KeptClaims DEF Ground, Calmly, OfSetting
<1>1. Path(R, <<Do("probe")>>, Knowing(N, T), Knowing(N1, T))
  <2>1. "probe" \in Quietly /\ N1 \subseteq N \cup {"probed"}
    BY DEF Quietly
  <2>2. Do("probe") \in Steps /\ <<Knowing(N, T), Do("probe"), Knowing(N1, T)>> \in R
    BY <1>0, <2>1, KeptQuietly
  <2> QED
    BY <1>0, <2>2, KnowingLabel, PathOne
<1>2. Path(R, SaveAtomic("sys"), Knowing(N1, T), Knowing(N1, T))
  <2> HIDE DEF N1
  <2> QED
    BY <1>0, KeptSaveAtomic
<1>3. Path(R, <<Do("loadBoost")>>, Knowing(N1, T), Knowing(N2, T))
  <2>1. N2 \subseteq N1 \cup {"mine"} /\ "boost" \in Touches(op)
    OBVIOUS
  <2>2. Do("loadBoost") \in Steps /\ <<Knowing(N1, T), Do("loadBoost"), Knowing(N2, T)>> \in R
    <3> HIDE DEF N1, N2
    <3> QED
      BY <1>0, <2>1, KeptLoad
  <2> QED
    BY <1>0, <2>2, KnowingLabel, PathOne
<1>4. Path(R, SavePlain("boost"), Knowing(N2, T), Knowing(M, T))
  <2>1. "boost" \in Settings /\ "boost" \in Touches(op)
    BY DEF Settings
  <2> HIDE DEF N2
  <2> QED
    BY <1>0, <2>1, KeptSaveSet
<1>5. Path(R, <<Do("lock"), Do("total"), Do("unlock")>>, Knowing(M, T), Knowing(M, T))
  BY KnowingLabel, KeptStay DEF Quietly
<1> HIDE DEF R, N1, N2
<1>6. Path(R, <<Do("probe")>> \o SaveAtomic("sys"), Knowing(N, T), Knowing(N1, T))
  BY <1>1, <1>2, PathCat
<1>7. Path(R, <<Do("probe")>> \o SaveAtomic("sys") \o <<Do("loadBoost")>>, Knowing(N, T), Knowing(N2, T))
  BY <1>3, <1>6, PathCat
<1>8. Path(R, <<Do("probe")>> \o SaveAtomic("sys") \o <<Do("loadBoost")>> \o SavePlain("boost"), Knowing(N, T), Knowing(M, T))
  BY <1>4, <1>7, PathCat
<1>9. Path(R, AutoCalibrate, Knowing(N, T), Knowing(M, T))
  BY <1>5, <1>8, PathCat DEF AutoCalibrate
<1> QED
  BY <1>9 DEF R

(* The recovery of the binary copy, where nothing is claimed. *)
LEMMA KeptHeal ==
    ASSUME NEW op, "sys" \in Touches(op), NEW T \in SUBSET Claims, NEW M \in SUBSET Claims, M \subseteq Ground
    PROVE  Path(KeptRules(op), Heal, Knowing({"lost"}, T), Knowing(M, T))
<1> DEFINE R == KeptRules(op)
           N1 == M \cup {"calm"}
           x == <<"remove", "sys", "bin">>
<1>0. N1 \in SUBSET Claims /\ {"lost"} \in SUBSET Claims /\ N1 \subseteq Ground /\ "calm" \in N1 /\ M \in SUBSET N1
  BY KeptClaims DEF Ground
<1>1. x \in Steps /\ x[1] = "remove" /\ x[2] = "sys" /\ x[3] = "bin"
  BY Zenon DEF Steps, Words, Places, Extensions
<1>2. KeptRule(op, Knowing({"lost"}, T), x, Knowing(N1, T))
  <2> HIDE DEF x, N1
  <2>1. Asks(x) \subseteq Touches(op) /\ x[1] \notin Catchers
    BY <1>1 DEF Asks, Catchers
  <2>2. Anyway(Knowing({"lost"}, T), x)
    BY <1>0, <1>1, KnowingLabel DEF Anyway
  <2> QED
    BY <1>0, <2>1, <2>2, KnowingLabel DEF KeptRule
<1>3. <<Knowing({"lost"}, T), x, Knowing(N1, T)>> \in R
  BY <1>0, <1>1, <1>2, KnowingLabel, KeptRulesDef
<1>4. Do("probe") \in Steps /\ <<Knowing(N1, T), Do("probe"), Knowing(N1, T)>> \in R
  <2>1. "probe" \in Quietly
    BY DEF Quietly
  <2> HIDE DEF N1
  <2> QED
    BY <1>0, <2>1, KeptQuietly
<1>5. Path(R, SaveAtomic("sys"), Knowing(N1, T), Knowing(M, T))
  <2> HIDE DEF N1
  <2> QED
    BY <1>0, KeptSaveAtomic
<1>6. Heal = <<x, Do("probe")>> \o SaveAtomic("sys")
  BY DEF Heal
<1> HIDE DEF R, N1, x
<1>7. Path(R, <<x, Do("probe")>>, Knowing({"lost"}, T), Knowing(N1, T))
  BY <1>0, <1>1, <1>3, <1>4, KnowingLabel, PathTwo
<1>8. Path(R, Heal, Knowing({"lost"}, T), Knowing(M, T))
  BY <1>5, <1>6, <1>7, PathCat
<1> QED
  BY <1>8 DEF R

(* Loading the fingerprint, and looking at an error. *)
LEMMA KeptTrySys ==
    ASSUME NEW op, {"boost", "sys"} \subseteq Touches(op), NEW N \in SUBSET Claims,
           Calmly \subseteq N, N \subseteq Ground
    PROVE  /\ N \cup {"probed"} \in SUBSET Claims /\ N \cup {"probed"} \subseteq Ground
           /\ Path(KeptRules(op), <<Do("loadSys"), Do("catch")>>, Knowing(N, Ground),
                   Knowing(N \cup {"probed"}, Ground))
<1> DEFINE M == N \cup {"probed"}
<1>1. M \in SUBSET Claims /\ M \subseteq Ground /\ Ground \in SUBSET Claims
  BY KeptClaims DEF Ground
<1>2. Do("loadSys") \in Steps /\ <<Knowing(N, Ground), Do("loadSys"), Knowing(M, Ground)>> \in KeptRules(op)
  <2>1. "loadSys" \in Scanning /\ M \subseteq N \cup {"probed"}
    BY DEF Scanning
  <2> HIDE DEF M
  <2> QED
    BY <1>1, <2>1, KeptScan
<1>3. Do("catch") \in Steps /\ <<Knowing(M, Ground), Do("catch"), Knowing(M, Ground)>> \in KeptRules(op)
  <2>1. "catch" \in Catchers
    BY DEF Catchers
  <2> HIDE DEF M
  <2> QED
    BY <1>1, <2>1, KeptCatch
<1>4. Path(KeptRules(op), <<Do("loadSys"), Do("catch")>>, Knowing(N, Ground), Knowing(M, Ground))
  BY <1>1, <1>2, <1>3, KnowingLabel, PathTwo
<1> QED
  BY <1>1, <1>4

(* The synchronisation of the total. *)
LEMMA KeptSyncTotal ==
    ASSUME NEW op, {"boost", "sys"} \subseteq Touches(op), NEW N \in SUBSET Claims,
           Calmly \subseteq N, N \subseteq Ground
    PROVE  Path(KeptRules(op), SyncTotal, Knowing(N, Ground), Knowing(N, Ground))
<1> DEFINE R == KeptRules(op)
           M == N \cup {"probed"}
<1>1. Path(R, <<Do("loadSys"), Do("catch")>>, Knowing(N, Ground), Knowing(M, Ground))
      /\ M \in SUBSET Claims /\ Ground \in SUBSET Claims
  BY KeptTrySys, KeptClaims
<1>2. Do("total") \in Steps /\ <<Knowing(M, Ground), Do("total"), Knowing(N, Ground)>> \in R
  <2>1. "total" \in Quietly /\ N \subseteq M
    BY DEF Quietly
  <2> HIDE DEF M
  <2> QED
    BY <1>1, <2>1, KeptQuietly
<1>3. SyncTotal = <<Do("loadSys"), Do("catch")>> \o <<Do("total")>>
  BY DEF SyncTotal
<1> HIDE DEF R, M
<1>4. Path(R, <<Do("total")>>, Knowing(M, Ground), Knowing(N, Ground))
  BY <1>1, <1>2, KnowingLabel, PathOne
<1>5. Path(R, SyncTotal, Knowing(N, Ground), Knowing(N, Ground))
  BY <1>1, <1>3, <1>4, PathCat
<1> QED
  BY <1>5 DEF R

(* A negotiation of the context. *)
LEMMA KeptNegotiate ==
    ASSUME NEW op, {"boost", "sys"} \subseteq Touches(op), NEW N \in SUBSET Claims,
           Calmly \subseteq N, N \subseteq Ground
    PROVE  Path(KeptRules(op), Negotiate, Knowing(N, Ground), Knowing(N, Ground))
<1> DEFINE R == KeptRules(op)
           l == Knowing(N, Ground)
<1>1. l \in Label /\ Ground \in SUBSET Claims
  BY KnowingLabel, KeptClaims
<1>2. Path(R, SyncTotal, l, l)
  BY KeptSyncTotal
<1>3. Path(R, <<Do("lock")>>, l, l)
  BY <1>1, KeptStay DEF Quietly
<1>4. Path(R, <<Do("loadReg"), Do("regContext"), Do("unlock")>>, l, l)
  BY <1>1, KeptStay DEF Quietly
<1>5. Do("calibrateIfZero") \in Steps /\ <<l, Do("calibrateIfZero"), l>> \in R
  <2>1. "calibrateIfZero" \in Scanning /\ N \subseteq N \cup {}
    BY DEF Scanning
  <2> QED
    BY <1>1, <2>1, KeptScan
<1>f. Do("fit") \in Steps /\ <<l, Do("fit"), l>> \in R
  BY <1>1, KeptQuietly DEF Quietly
<1> HIDE DEF l, R
<1>6. Path(R, <<Do("calibrateIfZero"), Do("fit")>>, l, l)
  BY <1>1, <1>5, <1>f, PathTwo
<1>7. Path(R, <<Do("lock")>> \o SyncTotal, l, l)
  BY <1>2, <1>3, PathCat
<1>8. Path(R, <<Do("lock")>> \o SyncTotal \o <<Do("calibrateIfZero"), Do("fit")>>, l, l)
  BY <1>6, <1>7, PathCat
<1>9. Path(R, Negotiate, l, l)
  BY <1>4, <1>8, PathCat DEF Negotiate
<1> QED
  BY <1>9 DEF l, R

-----------------------------------------------------------------------------
(* Programs *)

(* What is known between operations, and with what was loaded. *)
KeptLabels ==
    {Calmly, Calmly \cup {"mine"}, Calmly \cup {"probed"}, Ground}

(* They are labels. *)
LEMMA KeptLabelled ==
    \A N \in KeptLabels :
        /\ N \in SUBSET Claims /\ Calmly \subseteq N /\ N \subseteq Ground
        /\ Knowing(N, Ground) \in Label /\ Knowing(N, Calmly) \in Label
        /\ Ground \in SUBSET Claims /\ Calmly \in SUBSET Claims
  BY KeptClaims, KnowingLabel DEF KeptLabels, Ground, Calmly

(* The boot. *)
LEMMA KeptMainBoot ==
    ASSUME NEW op, {"boost", "sys"} \subseteq Touches(op)
    PROVE  Path(KeptRules(op), MainBoot, Knowing(Calmly, Ground), Knowing(Ground, Ground))
<1> DEFINE R == KeptRules(op)
           N1 == Calmly \cup {"probed"}
           l == Knowing(Calmly, Ground)
           l1 == Knowing(N1, Ground)
           g == Knowing(Ground, Ground)
<1>0. l \in Label /\ l1 \in Label /\ g \in Label /\ N1 \in SUBSET Claims /\ Ground \in SUBSET Claims
      /\ Calmly \subseteq N1 /\ N1 \subseteq Ground /\ Calmly \subseteq Ground /\ Calmly \in SUBSET Claims
      /\ Ground = Calmly \cup {"mine", "probed"}
  BY KeptLabelled DEF KeptLabels, Ground, Calmly
<1>1. Path(R, <<Do("loadSys"), Do("catch")>>, l, l1)
  BY <1>0, KeptTrySys
<1>2. Do("loadBoost") \in Steps /\ <<l1, Do("loadBoost"), g>> \in R
  <2>1. Ground \subseteq N1 \cup {"mine"} /\ "boost" \in Touches(op)
    BY <1>0
  <2> HIDE DEF N1
  <2> QED
    BY <1>0, <2>1, KeptLoad
<1>3. Do("loadSys") \in Steps /\ <<g, Do("loadSys"), g>> \in R
  <2>1. "loadSys" \in Scanning
    BY DEF Scanning
  <2> QED
    BY <1>0, <2>1, KeptScan
<1>4. Do("catch") \in Steps /\ <<g, Do("catch"), g>> \in R
  <2>1. "catch" \in Catchers
    BY DEF Catchers
  <2> QED
    BY <1>0, <2>1, KeptCatch
<1>5. Do("tune") \in Steps /\ <<g, Do("tune"), g>> \in R
  <2>1. CallNeeds(op, "tune") \subseteq Ground
    BY <1>0 DEF CallNeeds
  <2> QED
    BY <1>0, <2>1, KeptChoice
<1> HIDE DEF R, l, l1, g, N1
<1>6. Path(R, Ignite, l1, g)
  BY <1>0, <1>2, <1>3, <1>4, <1>5, PathFour DEF Ignite
<1>7. Path(R, MainBoot, l, g)
  BY <1>1, <1>6, PathCat DEF MainBoot
<1> QED
  BY <1>7 DEF R, l, g

(* The start of the hardware orchestrator. *)
LEMMA KeptPersist ==
    ASSUME NEW op, "sys" \in Touches(op)
    PROVE  Path(KeptRules(op), Persist, Knowing(Calmly, Calmly), Knowing(Calmly, Calmly))
<1> DEFINE R == KeptRules(op)
           l == Knowing(Calmly, Calmly)
<1>0. l \in Label /\ Calmly \in SUBSET Claims /\ "calm" \in Calmly /\ Calmly \subseteq Ground
      /\ Calmly \subseteq Calmly \ {"probed"}
  BY KeptLabelled DEF KeptLabels, Calmly
<1>1. Path(R, <<Do("probe"), Do("writable")>>, l, l) /\ Path(R, <<Do("readonly")>>, l, l)
  BY <1>0, KeptStay DEF Quietly
<1>2. Path(R, SavePlain("sys"), l, l)
  BY <1>0, KeptSaveSys
<1> HIDE DEF R, l
<1>3. Path(R, <<Do("probe"), Do("writable")>> \o SavePlain("sys"), l, l)
  BY <1>1, <1>2, PathCat
<1>4. Path(R, Persist, l, l)
  BY <1>1, <1>3, PathCat DEF Persist
<1> QED
  BY <1>4 DEF R, l

(* The update of a field. *)
LEMMA KeptUpdateField ==
    ASSUME {"boost", "sys"} \subseteq Touches("updateField")
    PROVE  Path(KeptRules("updateField"), UpdateField, Knowing(Calmly, Calmly), Knowing(Calmly, Calmly))
<1> DEFINE R == KeptRules("updateField")
           N1 == Calmly \cup {"mine"}
           l == Knowing(Calmly, Calmly)
           m == Knowing(N1, Calmly)
<1>0. l \in Label /\ m \in Label /\ N1 \in SUBSET Claims /\ Calmly \in SUBSET Claims
      /\ "calm" \in N1 /\ N1 \subseteq Ground /\ Calmly \subseteq N1 \ {"probed"} /\ Calmly \subseteq Ground
  BY KeptLabelled DEF KeptLabels, Calmly, Ground
<1>1. Path(R, Persist, l, l)
  BY KeptPersist
<1>2. Do("loadBoost") \in Steps /\ <<l, Do("loadBoost"), m>> \in R
  <2>1. N1 \subseteq Calmly \cup {"mine"}
    OBVIOUS
  <2> HIDE DEF N1
  <2> QED
    BY <1>0, <2>1, KeptLoad
<1>3. Do("change") \in Steps /\ <<m, Do("change"), m>> \in R
  <2>1. CallNeeds("updateField", "change") \subseteq N1
    BY DEF CallNeeds
  <2> HIDE DEF N1
  <2> QED
    BY <1>0, <2>1, KeptChoice
<1>4. Path(R, Put("sys", "json"), m, l)
  <2>1. Calmly \subseteq N1 \cup {"jsonWhole"}
    OBVIOUS
  <2> HIDE DEF N1
  <2> QED
    BY <1>0, <2>1, KeptPutJson
<1> HIDE DEF R, l, m, N1
<1>5. Path(R, <<Do("loadBoost"), Do("change")>>, l, m)
  BY <1>0, <1>2, <1>3, PathTwo
<1>6. Path(R, Persist \o <<Do("loadBoost"), Do("change")>>, l, m)
  BY <1>1, <1>5, PathCat
<1>7. Path(R, UpdateField, l, l)
  BY <1>4, <1>6, PathCat DEF UpdateField
<1> QED
  BY <1>7 DEF R, l

(* The reset of the booster, from the fingerprint. *)
LEMMA KeptResetBooster ==
    ASSUME {"boost", "sys"} \subseteq Touches("resetBoost")
    PROVE  Path(KeptRules("resetBoost"), ResetBooster, Knowing(Calmly, Ground), Knowing(Calmly, Ground))
<1> DEFINE R == KeptRules("resetBoost")
           N1 == Calmly \cup {"probed"}
           l == Knowing(Calmly, Ground)
           m == Knowing(N1, Ground)
<1>0. l \in Label /\ m \in Label /\ N1 \in SUBSET Claims /\ Calmly \in SUBSET Claims /\ Ground \in SUBSET Claims
      /\ Calmly \subseteq N1 /\ N1 \subseteq Ground /\ Calmly \subseteq Ground
  BY KeptLabelled DEF KeptLabels, Calmly, Ground
<1>1. Path(R, <<Do("loadSys"), Do("catch")>>, l, m)
  BY <1>0, KeptTrySys
<1>2. Do("change") \in Steps /\ <<m, Do("change"), l>> \in R
  <2>1. CallNeeds("resetBoost", "change") \subseteq N1 /\ Calmly \subseteq N1 \cup {"mine"}
    BY DEF CallNeeds
  <2> HIDE DEF N1
  <2> QED
    BY <1>0, <2>1, KeptChoice
<1>3. <<Do("loadSys"), Do("catch"), Do("change")>> = <<Do("loadSys"), Do("catch")>> \o <<Do("change")>>
  OBVIOUS
<1> HIDE DEF R, l, m, N1
<1>4. Path(R, <<Do("change")>>, m, l)
  BY <1>0, <1>2, PathOne
<1>5. Path(R, <<Do("loadSys"), Do("catch")>> \o <<Do("change")>>, l, l)
  BY <1>1, <1>4, PathCat
<1>6. Path(R, ResetBooster, l, l)
  BY <1>3, <1>5 DEF ResetBooster
<1> QED
  BY <1>6 DEF R, l

(* A model is discovered, the settings are applied. *)
LEMMA KeptModels ==
    ASSUME NEW op, {"boost", "sys"} \subseteq Touches(op)
    PROVE  /\ Path(KeptRules(op), Discover, Knowing(Calmly, Ground), Knowing(Ground, Ground))
           /\ Path(KeptRules(op), ApplyBooster, Knowing(Calmly, Ground), Knowing(Calmly, Ground))
<1> DEFINE R == KeptRules(op)
           N1 == Calmly \cup {"mine"}
           l == Knowing(Calmly, Ground)
           m == Knowing(N1, Ground)
           g == Knowing(Ground, Ground)
<1>0. l \in Label /\ m \in Label /\ g \in Label
      /\ N1 \in SUBSET Claims /\ Calmly \in SUBSET Claims /\ Ground \in SUBSET Claims
      /\ Calmly \subseteq N1 /\ N1 \subseteq Ground /\ Calmly \subseteq Ground /\ Ground = N1 \cup {"probed"}
      /\ "boost" \in Touches(op) /\ "probed" \in Ground
  BY KeptLabelled DEF KeptLabels, Calmly, Ground
<1>1. Do("loadBoost") \in Steps /\ <<l, Do("loadBoost"), m>> \in R
  <2>1. N1 \subseteq Calmly \cup {"mine"}
    OBVIOUS
  <2> HIDE DEF N1
  <2> QED
    BY <1>0, <2>1, KeptLoad
<1>2. <<l, Do("loadBoost"), l>> \in R
  BY <1>0, KeptLoad
<1>3. Do("loadSys") \in Steps /\ <<m, Do("loadSys"), g>> \in R
  <2>1. "loadSys" \in Scanning
    BY DEF Scanning
  <2> HIDE DEF N1
  <2> QED
    BY <1>0, <2>1, KeptScan
<1>4. Do("require") \in Steps /\ <<g, Do("require"), g>> \in R
  <2>1. "require" \in Catchers
    BY DEF Catchers
  <2> QED
    BY <1>0, <2>1, KeptCatch
<1>5. Do("forget") \in Steps /\ <<g, Do("forget"), g>> \in R
  BY <1>0, KeptQuietly DEF Quietly
<1>6. <<g, Do("loadBoost"), g>> \in R
  BY <1>0, KeptLoad
<1>7. Path(R, Negotiate, g, g) /\ Path(R, Negotiate, l, l)
  BY <1>0, KeptNegotiate
<1> HIDE DEF R, l, m, g, N1
<1>8. Path(R, <<Do("loadBoost"), Do("loadSys"), Do("require"), Do("forget"), Do("loadBoost")>>, l, g)
  BY <1>0, <1>1, <1>3, <1>4, <1>5, <1>6, PathFive
<1>9. Path(R, Discover, l, g)
  BY <1>7, <1>8, PathCat DEF Discover
<1>10. Path(R, <<Do("loadBoost")>>, l, l)
  BY <1>0, <1>1, <1>2, PathOne
<1>11. Path(R, ApplyBooster, l, l)
  BY <1>7, <1>10, PathCat DEF ApplyBooster
<1> QED
  BY <1>9, <1>11 DEF R, l, g

(* Requests and returns of VRAM, and the list of processes. *)
LEMMA KeptArbiterOps ==
    ASSUME NEW op
    PROVE  LET l == Knowing(Calmly, Ground) IN
           /\ {"boost", "sys"} \subseteq Touches(op) => Path(KeptRules(op), RequestVram, l, l)
           /\ Path(KeptRules(op), ReleaseVram, l, l) /\ Path(KeptRules(op), Ps, l, l)
<1> DEFINE R == KeptRules(op)
           l == Knowing(Calmly, Ground)
<1>0. l \in Label /\ Calmly \in SUBSET Claims /\ Ground \in SUBSET Claims /\ Calmly \subseteq Ground
  BY KeptLabelled DEF KeptLabels, Calmly, Ground
<1>1. \A w \in Quietly : Do(w) \in Steps /\ <<l, Do(w), l>> \in R
  BY <1>0, KeptQuietly
<1>2. ASSUME {"boost", "sys"} \subseteq Touches(op) PROVE Path(R, RequestVram, l, l)
  <2>1. Do("syncIfZero") \in Steps /\ <<l, Do("syncIfZero"), l>> \in R
    <3>1. "syncIfZero" \in Scanning
      BY DEF Scanning
    <3> QED
      BY <1>0, <1>2, <3>1, KeptScan
  <2>2. Do("loadBoost") \in Steps /\ <<l, Do("loadBoost"), l>> \in R
    BY <1>0, <1>2, KeptLoad
  <2> HIDE DEF l
  <2>3. Do("lock") \in Steps /\ <<l, Do("lock"), l>> \in R
    BY <1>1 DEF Quietly
  <2>4. Do("allocate") \in Steps /\ <<l, Do("allocate"), l>> \in R
    BY <1>1 DEF Quietly
  <2>5. Do("unlock") \in Steps /\ <<l, Do("unlock"), l>> \in R
    BY <1>1 DEF Quietly
  <2> QED
    BY <1>0, <2>1, <2>2, <2>3, <2>4, <2>5, PathFive DEF RequestVram
<1> HIDE DEF R, l
<1>3. Path(R, ReleaseVram, l, l)
  <2>1. Do("lock") \in Steps /\ <<l, Do("lock"), l>> \in R
    BY <1>1 DEF Quietly
  <2>2. Do("free") \in Steps /\ <<l, Do("free"), l>> \in R
    BY <1>1 DEF Quietly
  <2>3. Do("loadReg") \in Steps /\ <<l, Do("loadReg"), l>> \in R
    BY <1>1 DEF Quietly
  <2>4. Do("regRemove") \in Steps /\ <<l, Do("regRemove"), l>> \in R
    BY <1>1 DEF Quietly
  <2>5. Do("unlock") \in Steps /\ <<l, Do("unlock"), l>> \in R
    BY <1>1 DEF Quietly
  <2> QED
    BY <1>0, <2>1, <2>2, <2>3, <2>4, <2>5, PathFive DEF ReleaseVram
<1>4. Path(R, Ps, l, l)
  <2>1. Do("loadReg") \in Steps /\ <<l, Do("loadReg"), l>> \in R
    BY <1>1 DEF Quietly
  <2>2. Do("regPurge") \in Steps /\ <<l, Do("regPurge"), l>> \in R
    BY <1>1 DEF Quietly
  <2> QED
    BY <1>0, <2>1, <2>2, PathTwo DEF Ps
<1> QED
  BY <1>2, <1>3, <1>4 DEF R, l

(* A store is loaded, and a change made of it or chosen in a menu. *)
LEMMA KeptLoadChoose ==
    ASSUME NEW op, NEW T \in SUBSET Claims, NEW N \in SUBSET Claims, Calmly \subseteq N, N \subseteq Ground,
           NEW what \in {"loadPerm", "loadBoost"}, NEW after \in {"change", "edit", "editPerm"},
           IF what = "loadPerm" THEN "perm" \in Touches(op) ELSE "boost" \in Touches(op),
           after = "editPerm" => "perm" \in Touches(op), after = "edit" => "boost" \in Touches(op),
           after = "change" => op # "resetBoost"
    PROVE  Path(KeptRules(op), <<Do(what), Do(after)>>, Knowing(N, T), Knowing(N, T))
<1> DEFINE M == N \cup {"mine"}
<1>0. M \in SUBSET Claims /\ M \subseteq Ground /\ N \subseteq M
  BY KeptClaims DEF Ground
<1>1. Do(what) \in Steps /\ <<Knowing(N, T), Do(what), Knowing(M, T)>> \in KeptRules(op)
  <2>1. M \subseteq N \cup {"mine"}
    OBVIOUS
  <2> HIDE DEF M
  <2> QED
    BY <1>0, <2>1, KeptLoad
<1>2. Do(after) \in Steps /\ <<Knowing(M, T), Do(after), Knowing(N, T)>> \in KeptRules(op)
  <2>1. CallNeeds(op, after) \subseteq M
    BY DEF CallNeeds, Calmly
  <2>2. after \in {"change", "tune", "edit", "editPerm"} /\ after # "tune"
        /\ N \subseteq M \cup (IF after \in {"change", "tune"} THEN {"mine"} ELSE {})
    BY <1>0
  <2> HIDE DEF M
  <2> QED
    BY <1>0, <2>1, <2>2, KeptChoice
<1> HIDE DEF M
<1> QED
  BY <1>0, <1>1, <1>2, KnowingLabel, PathTwo

(* Every program is a path between operations. *)
LEMMA KeptProgram ==
    ASSUME NEW op \in Ops
    PROVE  \E l, e \in Label :
              /\ l.now = Calmly /\ Calmly \subseteq e.now /\ e.now \subseteq e.then
              /\ Path(KeptRules(op), Program(op), l, e)
<1> DEFINE R == KeptRules(op)
           l == Knowing(Calmly, Ground)
           g == Knowing(Ground, Ground)
           c == Knowing(Calmly, Calmly)
<1>0. /\ l \in Label /\ l.now = Calmly /\ l.then = Ground
      /\ g \in Label /\ g.now = Ground /\ g.then = Ground
      /\ c \in Label /\ c.now = Calmly /\ c.then = Calmly
      /\ Calmly \subseteq Ground
      /\ Calmly \in SUBSET Claims /\ Ground \in SUBSET Claims
  BY KeptLabelled, KnowingLabel, KeptClaims DEF KeptLabels
<1>p. op \in {"readPerm", "setPerm", "editPerm"} => "perm" \in Touches(op)
  BY DEF Touches
<1>b. op \in Ops \ ({"readPerm", "setPerm", "editPerm"} \cup {"release", "ps"}) => "boost" \in Touches(op)
  BY DEF Touches, Ops, PermOps
<1>s. op \in {"boot", "resetBoost", "calibrate", "updateField", "discover", "applyBooster", "request"}
        => {"boost", "sys"} \subseteq Touches(op)
  BY DEF Touches
<1>1. CASE op = "updateField"
  <2>1. Path(R, Program(op), c, c)
    BY <1>1, <1>s, KeptUpdateField DEF Program
  <2> QED
    BY <1>0, <2>1
<1>2. CASE op = "boot"
  <2>1. Path(R, Program(op), l, g)
    BY <1>2, <1>s, KeptMainBoot DEF Program
  <2> HIDE DEF l, g
  <2> QED
    BY <1>0, <2>1
<1>3. CASE op = "discover"
  <2>1. Path(R, Program(op), l, g)
    BY <1>3, <1>s, KeptModels DEF Program
  <2> HIDE DEF l, g
  <2> QED
    BY <1>0, <2>1
<1>4. CASE op \notin {"updateField", "boot", "discover"}
  <2>1. Path(R, Program(op), l, l)
    <3>1. CASE op = "readPerm"
      <4>1. Do("loadPerm") \in Steps /\ <<l, Do("loadPerm"), l>> \in R
        BY <1>0, <1>p, <3>1, KeptLoad
      <4> HIDE DEF R, l
      <4> QED
        BY <1>0, <3>1, <4>1, PathOne DEF Program
    <3>2. CASE op = "readBoost"
      <4>1. Do("loadBoost") \in Steps /\ <<l, Do("loadBoost"), l>> \in R
        BY <1>0, <1>b, <3>2, KeptLoad DEF Ops, PermOps
      <4> HIDE DEF R, l
      <4> QED
        BY <1>0, <3>2, <4>1, PathOne DEF Program
    <3>3. CASE op = "putBoost"
      <4>1. CallNeeds(op, "change") \subseteq Calmly
        BY <3>3 DEF CallNeeds
      <4>2. Do("change") \in Steps /\ <<l, Do("change"), l>> \in R
        BY <1>0, <4>1, KeptChoice
      <4> HIDE DEF R, l
      <4> QED
        BY <1>0, <3>3, <4>2, PathOne DEF Program
    <3>4. CASE op = "setPerm"
      BY <1>0, <1>p, <3>4, KeptLoadChoose DEF Program, UpdatePermission
    <3>5. CASE op = "setBoost"
      BY <1>0, <1>b, <3>5, KeptLoadChoose DEF Program, UpdateBooster, MenuPass, Ops, PermOps
    <3>6. CASE op = "editBoost"
      BY <1>0, <1>b, <3>6, KeptLoadChoose DEF Program, BoosterMenu, Ops, PermOps
    <3>7. CASE op = "editPerm"
      BY <1>0, <1>p, <3>7, KeptLoadChoose DEF Program, PermissionMenu
    <3>8. CASE op = "resetBoost"
      BY <1>s, <3>8, KeptResetBooster DEF Program
    <3>9. CASE op = "calibrate"
      <4>1. Calmly \subseteq Calmly \cup {"mine", "probed"}
        OBVIOUS
      <4> QED
        BY <1>0, <1>s, <3>9, <4>1, KeptAutoCalibrate DEF Program
    <3>10. CASE op = "applyBooster"
      BY <1>s, <3>10, KeptModels DEF Program
    <3>11. CASE op = "request"
      BY <1>s, <3>11, KeptArbiterOps DEF Program
    <3>12. CASE op = "release"
      BY <3>12, KeptArbiterOps DEF Program
    <3>13. CASE op = "ps"
      BY <3>13, KeptArbiterOps DEF Program
    <3> QED
      BY <1>4, <3>1, <3>2, <3>3, <3>4, <3>5, <3>6, <3>7, <3>8, <3>9, <3>10, <3>11, <3>12, <3>13 DEF Ops, PermOps
  <2> HIDE DEF l
  <2> QED
    BY <1>0, <2>1
<1> QED
  BY <1>1, <1>2, <1>3, <1>4

-----------------------------------------------------------------------------
(***************************************************************************)
(* The invariant of the settings and of the fingerprint.                   *)
(***************************************************************************)
Sealed == ok["sys"] = {"probed"}

(* Nobody has met another one in the fingerprint; it was there at first,   *)
(* or nobody crashed.                                                      *)
SysGate == ~mixed["sys"] /\ (crashes = 0 \/ (crashes = 1 /\ Sealed))

(* The same of a setting.  The booster is tuned to the fingerprint. *)
SetGate(s) == ~mixed[s] /\ (s = "perm" \/ SysGate)

(* p uses the store. *)
On(s, p) == s \in Touches(act[p].op)

(* The fingerprint can be read. *)
Safe == Whole(<<"sys", "json">>) \/ Whole(<<"sys", "bin">>)

(* The files of the fingerprint, between operations. *)
SysCalm ==
    /\ crashes = 0 => /\ file[<<"sys", "json">>] # Torn
                      /\ file[<<"sys", "json">>] = Absent => file[<<"sys", "bin">>] # Torn
    /\ Sealed => Safe /\ (crashes = 0 => Whole(<<"sys", "bin">>))

(* A load gives what the setting may be. *)
Even(s) == Effective(s) \in ok[s]

(* So it does wherever a crash leaves the JSON file whole. *)
Held(s) == Whole(<<s, "json">>) => file[<<s, "json">>] \in ok[s]

(* What N says of the fingerprint is so, ... *)
KnowsSys(p, N) ==
    /\ "calm" \in N => SysCalm
    /\ "jsonTorn" \in N => /\ file[<<"sys", "json">>] = Torn
                           /\ Sealed /\ crashes = 0 => Whole(<<"sys", "bin">>)
    /\ "jsonWhole" \in N => Whole(<<"sys", "json">>)
    /\ "binTorn" \in N => file[<<"sys", "bin">>] = Torn /\ Whole(<<"sys", "json">>)
    /\ "tmpTorn" \in N => file[<<"sys", "json.tmp">>] = Torn
    /\ "tmpWhole" \in N => Whole(<<"sys", "json.tmp">>)
    /\ "bintmpTorn" \in N => file[<<"sys", "bin.tmp">>] = Torn
    /\ "bintmpWhole" \in N => Whole(<<"sys", "bin.tmp">>)
    /\ "probed" \in N => act[p].sys = "probed"

(* ... and of the setting s. *)
KnowsSet(s, p, N) ==
    /\ "even" \in N => Even(s)
    /\ "mine" \in N => act[p][s] \in ok[s]
    /\ "meant" \in N => act[p][s] \in Intended(act[p].chg, act[p].base)
    /\ "same" \in N => Whole(<<s, "json">>) /\ file[<<s, "json">>] = act[p][s]
    /\ "both" \in N => /\ Whole(<<s, "json">>) /\ file[<<s, "json">>] = act[p][s]
                       /\ file[<<s, "bin">>] = act[p][s]
    /\ "setTorn" \in N => file[<<s, "json">>] = Torn
    /\ "setBinTorn" \in N => file[<<s, "bin">>] = Torn

(* Of the fingerprint, if p uses it and met nobody there. *)
SysPart(p, N) == SysGate /\ On("sys", p) => KnowsSys(p, N)

(* The same of the setting that p may change. *)
SetPart(p, N) ==
    LET s == StoreOf(act[p].op) IN SetGate(s) /\ On(s, p) => KnowsSet(s, p, N)

(* `lost' is known only where nothing is claimed. *)
LostPart(p, N) == "lost" \in N => ~SysGate /\ On("sys", p)

(* What N says of p is so. *)
KnowsKept(p, N) == SysPart(p, N) /\ SetPart(p, N) /\ LostPart(p, N)

(* What is left of the program of p is a path, from what is known of p. *)
KeptWalk(p) ==
    act[p].op # "idle" =>
        \E l, e \in Label :
            /\ KnowsKept(p, l.now) /\ Calmly \subseteq e.now /\ e.now \subseteq e.then
            /\ Path(KeptRules(act[p].op), act[p].todo, l, e)

(* Two processes that use a store have met. *)
KeptApart == \A s \in Stores : ~mixed[s] => \A p, q \in Procs : p # q => ~On(s, p) \/ ~On(s, q)

(* What holds of the fingerprint. *)
SysFacts ==
    SysGate => /\ Sealed /\ crashes = 0 => Safe
               /\ Quiet("sys") => SysCalm

(* What holds of the settings. *)
SetFacts == \A s \in Settings : SetGate(s) => Held(s) /\ (Quiet(s) => Even(s))

(* The inductive invariant, beside that of the types. *)
KeptInv == KeptApart /\ SysFacts /\ SetFacts /\ \A p \in Procs : KeptWalk(p)

-----------------------------------------------------------------------------
(* What stays so *)

(* The files of the stores. *)
LEMMA KeptFiles ==
    /\ \A s \in Settings : \A e \in {"json", "bin"} : <<s, e>> \in Files
    /\ \A e \in {"json", "bin", "json.tmp", "bin.tmp"} : <<"sys", e>> \in Files
  BY DEF Files, Settings

(* Less is known of less. *)
LEMMA KnowsLess ==
    ASSUME NEW p, NEW N, NEW M, N \subseteq M
    PROVE  /\ KnowsSys(p, M) => KnowsSys(p, N)
           /\ \A s : KnowsSet(s, p, M) => KnowsSet(s, p, N)
           /\ SysPart(p, M) => SysPart(p, N)
           /\ SetPart(p, M) => SetPart(p, N)
           /\ LostPart(p, M) => LostPart(p, N)
<1>1. KnowsSys(p, M) => KnowsSys(p, N)
  BY DEF KnowsSys
<1>2. \A s : KnowsSet(s, p, M) => KnowsSet(s, p, N)
  BY DEF KnowsSet
<1> QED
  BY <1>1, <1>2 DEF SysPart, SetPart, LostPart

(* What is claimed, and of whom, is the same. *)
LEMMA GateStays ==
    ASSUME HistoryKept, ok'["sys"] = ok["sys"]
    PROVE  /\ SysGate' = SysGate /\ Sealed' = Sealed /\ \A s : SetGate(s)' = SetGate(s)
           /\ crashes' = crashes /\ mixed' = mixed
  BY DEF HistoryKept, SysGate, Sealed, SetGate

(* A store that nobody touched. *)
LEMMA SysStays ==
    ASSUME HistoryKept, ok'["sys"] = ok["sys"], StoreKept("sys")
    PROVE  /\ SysCalm' = SysCalm /\ Safe' = Safe
           /\ \A p \in Procs : act'[p].sys = act[p].sys =>
                \A N : KnowsSys(p, N) => KnowsSys(p, N)'
<1>1. \A e \in {"json", "bin", "json.tmp", "bin.tmp"} : file'[<<"sys", e>>] = file[<<"sys", e>>]
  BY KeptFiles DEF StoreKept
<1>2. crashes' = crashes /\ Sealed' = Sealed
  BY GateStays
<1>3. SysCalm' = SysCalm /\ Safe' = Safe
  BY <1>1, <1>2 DEF SysCalm, Safe, Whole
<1>4. ASSUME NEW p \in Procs, act'[p].sys = act[p].sys, NEW N, KnowsSys(p, N)
      PROVE  KnowsSys(p, N)'
  BY <1>1, <1>2, <1>3, <1>4 DEF KnowsSys, Whole
<1> QED
  BY <1>3, <1>4

(* The same of a setting. *)
LEMMA SetStays ==
    ASSUME NEW s \in Settings, HistoryKept, ok'[s] = ok[s], StoreKept(s)
    PROVE  /\ Even(s)' = Even(s) /\ Held(s)' = Held(s) /\ Effective(s)' = Effective(s)
           /\ \A p \in Procs : act'[p].perm = act[p].perm /\ act'[p].boost = act[p].boost
                                 /\ act'[p].chg = act[p].chg /\ act'[p].base = act[p].base =>
                \A N : KnowsSet(s, p, N) => KnowsSet(s, p, N)'
<1>1. file'[<<s, "json">>] = file[<<s, "json">>] /\ file'[<<s, "bin">>] = file[<<s, "bin">>]
  BY KeptFiles DEF StoreKept
<1>3. Effective(s)' = Effective(s)
  BY <1>1 DEF Effective, Whole, Default, Settings
<1>4. Even(s)' = Even(s) /\ Held(s)' = Held(s)
  BY <1>1, <1>3 DEF Even, Held, Whole
<1>5. ASSUME NEW p \in Procs, act'[p].perm = act[p].perm, act'[p].boost = act[p].boost,
             act'[p].chg = act[p].chg, act'[p].base = act[p].base, NEW N, KnowsSet(s, p, N)
      PROVE  KnowsSet(s, p, N)'
  <2>1. act'[p][s] = act[p][s]
    BY <1>5 DEF Settings
  <2>2. Intended(act'[p].chg, act'[p].base) = Intended(act[p].chg, act[p].base)
    BY <1>5
  <2>3. Intended(act[p].chg, act[p].base)' = Intended(act'[p].chg, act'[p].base)
    BY DEF Intended, Changed
  <2> QED
    BY <1>1, <1>3, <1>4, <1>5, <2>1, <2>2, <2>3 DEF KnowsSet, Whole
<1> QED
  BY <1>3, <1>4, <1>5

-----------------------------------------------------------------------------
(* A step, and what is left *)

(* p is before a step, with what is known before it, after it and at the end. *)
KeptGoes(p, l, m, e) ==
    /\ l \in Label /\ m \in Label /\ e \in Label /\ Calmly \subseteq e.now /\ e.now \subseteq e.then
    /\ KnowsKept(p, l.now)
    /\ KeptRule(act[p].op, l, Head(act[p].todo), m)
    /\ Path(KeptRules(act[p].op), act[p].todo, l, e)
    /\ Path(KeptRules(act[p].op), Tail(act[p].todo), m, e)

(* A process that is not at its end is before a step. *)
LEMMA KeptHere ==
    ASSUME TypeInv, KeptInv, NEW p \in Procs, act[p].todo # <<>>
    PROVE  /\ act[p].op # "idle" /\ act[p].op \in Ops /\ Head(act[p].todo) \in Steps
           /\ Asks(Head(act[p].todo)) \subseteq Touches(act[p].op)
           /\ \E l, m, e \in Label : KeptGoes(p, l, m, e)
<1> DEFINE R == KeptRules(act[p].op)
<1>1. act[p].op # "idle" /\ act[p].op \in Ops
  BY TypeHere
<1>2. PICK l \in Label, e \in Label :
        /\ KnowsKept(p, l.now) /\ Calmly \subseteq e.now /\ e.now \subseteq e.then
        /\ Path(R, act[p].todo, l, e)
  BY <1>1 DEF KeptInv, KeptWalk
<1> HIDE DEF R
<1>3. Head(act[p].todo) \in Steps /\ \E m \in Label : <<l, Head(act[p].todo), m>> \in R /\ Path(R, Tail(act[p].todo), m, e)
  BY <1>2, PathHead
<1>4. PICK m \in Label : <<l, Head(act[p].todo), m>> \in R /\ Path(R, Tail(act[p].todo), m, e)
  BY <1>3
<1>5. KeptRule(act[p].op, l, Head(act[p].todo), m)
  BY <1>3, <1>4, KeptRulesDef DEF R
<1>6. Asks(Head(act[p].todo)) \subseteq Touches(act[p].op)
  BY <1>5 DEF KeptRule
<1>7. KeptGoes(p, l, m, e)
  BY <1>2, <1>4, <1>5 DEF KeptGoes, R
<1> QED
  BY <1>1, <1>3, <1>6, <1>7

(* An operation changes one setting at most. *)
LEMMA StoreOn ==
    ASSUME NEW p, NEW s \in Settings, On(s, p)
    PROVE  StoreOf(act[p].op) = s
  BY DEF On, Touches, StoreOf, PermOps, Settings

(* While nobody has met another one, what p uses no other process does. *)
LEMMA OnAlone ==
    ASSUME KeptInv, NEW s \in Stores, ~mixed[s], NEW p \in Procs, NEW q \in Procs, q # p, On(s, q)
    PROVE  ~On(s, p)
  BY DEF KeptInv, KeptApart

(* A process that did nothing is where it was. *)
LEMMA KeptOthers ==
    ASSUME KeptInv, NEW q \in Procs, act'[q] = act[q], HistoryKept, ok'["sys"] = ok["sys"],
           SysGate /\ On("sys", q) => StoreKept("sys"),
           \A s \in Settings : SetGate(s) /\ On(s, q) => StoreKept(s) /\ ok'[s] = ok[s]
    PROVE  KeptWalk(q)' /\ \A N : KnowsKept(q, N) => KnowsKept(q, N)'
<1>1. SysGate' = SysGate /\ \A x : SetGate(x)' = SetGate(x)
  BY GateStays
<1>2. \A x : On(x, q)' = On(x, q)
  BY DEF On
<1>4. ASSUME NEW N, SysPart(q, N) PROVE SysPart(q, N)'
  <2>1. CASE SysGate /\ On("sys", q)
    <3>1. KnowsSys(q, N)'
      BY <1>4, <2>1, SysStays DEF SysPart
    <3> QED
      BY <3>1 DEF SysPart
  <2>2. CASE ~(SysGate /\ On("sys", q))
    BY <1>1, <1>2, <2>2 DEF SysPart
  <2> QED
    BY <2>1, <2>2
<1>5. ASSUME NEW N, SetPart(q, N) PROVE SetPart(q, N)'
  <2>0. PICK s \in Settings : s = StoreOf(act[q].op)
    BY DEF StoreOf, Settings
  <2>1. CASE SetGate(s) /\ On(s, q)
    <3>1. KnowsSet(s, q, N)
      BY <1>5, <2>0, <2>1 DEF SetPart
    <3>2. KnowsSet(s, q, N)'
      BY <2>1, <3>1, SetStays
    <3> QED
      BY <2>0, <3>2 DEF SetPart
  <2>2. CASE ~(SetGate(s) /\ On(s, q))
    <3>1. ~(SetGate(s)' /\ On(s, q)')
      BY <1>1, <1>2, <2>2
    <3> QED
      BY <2>0, <3>1 DEF SetPart
  <2> QED
    BY <2>1, <2>2
<1>6. \A N : LostPart(q, N) => LostPart(q, N)'
  BY <1>1, <1>2 DEF LostPart
<1>7. \A N : KnowsKept(q, N) => KnowsKept(q, N)'
  BY <1>4, <1>5, <1>6 DEF KnowsKept
<1>8. KeptWalk(q)'
  <2>1. ASSUME act'[q].op # "idle"
        PROVE  \E l, e \in Label :
                  /\ KnowsKept(q, l.now)' /\ Calmly \subseteq e.now /\ e.now \subseteq e.then
                  /\ Path(KeptRules(act'[q].op), act'[q].todo, l, e)
    <3>1. PICK l \in Label, e \in Label :
            /\ KnowsKept(q, l.now) /\ Calmly \subseteq e.now /\ e.now \subseteq e.then
            /\ Path(KeptRules(act[q].op), act[q].todo, l, e)
      BY <2>1 DEF KeptInv, KeptWalk
    <3> QED
      BY <1>7, <3>1
  <2> QED
    BY <2>1 DEF KeptWalk
<1> QED
  BY <1>7, <1>8

(* What a step of p may change: the stores that it uses. *)
Touched(p) ==
    /\ HistoryKept /\ ok'["sys"] = ok["sys"]
    /\ StoreKept("sys") \/ On("sys", p)
    /\ \A s \in Settings : (StoreKept(s) /\ ok'[s] = ok[s]) \/ On(s, p)

(* While it is at work, it must leave the fingerprint to be read after a   *)
(* crash, and the settings with no value that nobody set.                  *)
Leaves(p) ==
    /\ SysGate /\ On("sys", p) /\ Sealed /\ crashes = 0 => Safe'
    /\ \A s \in Settings : SetGate(s) /\ On(s, p) => Held(s)'

(* Then what holds of the stores is so after the step. *)
LEMMA KeptFacts ==
    ASSUME KeptInv, NEW p \in Procs, \A q \in Procs : act'[q].op = act[q].op, Touched(p), Leaves(p)
    PROVE  KeptApart' /\ SysFacts' /\ SetFacts'
<1>1. SysGate' = SysGate /\ Sealed' = Sealed /\ (\A s : SetGate(s)' = SetGate(s))
      /\ crashes' = crashes /\ mixed' = mixed
  BY GateStays DEF Touched
<1>2. \A q \in Procs : \A s : On(s, q)' = On(s, q)
  BY DEF On
<1>3. \A s : Quiet(s) => \A q \in Procs : ~On(s, q)
  BY DEF Quiet, On
<1>4. \A s : Quiet(s)' => Quiet(s)
  BY DEF Quiet
<1>5. KeptApart'
  BY <1>1, <1>2 DEF KeptInv, KeptApart
<1>6. SysFacts'
  <2>1. CASE StoreKept("sys")
    <3>1. SysCalm' = SysCalm /\ Safe' = Safe
      BY <2>1, SysStays DEF Touched
    <3> QED
      BY <1>1, <1>4, <3>1 DEF KeptInv, SysFacts
  <2>2. CASE On("sys", p)
    <3>1. ~Quiet("sys")'
      BY <1>3, <1>4, <2>2
    <3>2. ASSUME SysGate', Sealed', crashes' = 0 PROVE Safe'
      BY <1>1, <2>2, <3>2 DEF Leaves
    <3> QED
      BY <3>1, <3>2 DEF SysFacts
  <2> QED
    BY <2>1, <2>2 DEF Touched
<1>7. ASSUME NEW s \in Settings, SetGate(s)' PROVE Held(s)'
  <2>1. CASE On(s, p)
    BY <1>1, <1>7, <2>1 DEF Leaves
  <2>2. CASE ~On(s, p)
    <3>1. StoreKept(s) /\ ok'[s] = ok[s] /\ HistoryKept
      BY <2>2 DEF Touched
    <3>2. Held(s)' = Held(s)
      BY <3>1, SetStays
    <3> QED
      BY <1>1, <1>7, <3>2 DEF KeptInv, SetFacts
  <2> QED
    BY <2>1, <2>2
<1>8. ASSUME NEW s \in Settings, SetGate(s)', Quiet(s)' PROVE Even(s)'
  <2>1. Quiet(s) /\ ~On(s, p)
    BY <1>3, <1>4, <1>8
  <2>2. StoreKept(s) /\ ok'[s] = ok[s] /\ HistoryKept
    BY <2>1 DEF Touched
  <2>3. Even(s)' = Even(s)
    BY <2>2, SetStays
  <2> QED
    BY <1>1, <1>8, <2>1, <2>3 DEF KeptInv, SetFacts
<1>9. SetFacts'
  BY <1>7, <1>8 DEF SetFacts
<1> QED
  BY <1>5, <1>6, <1>9

(* The other processes then are where they were. *)
LEMMA KeptOthersStay ==
    ASSUME KeptInv, NEW p \in Procs, Touched(p), NEW q \in Procs, q # p, act'[q] = act[q]
    PROVE  KeptWalk(q)' /\ \A N : KnowsKept(q, N) => KnowsKept(q, N)'
<1>1. SysGate /\ On("sys", q) => StoreKept("sys")
  <2>1. SysGate => "sys" \in Stores /\ ~mixed["sys"]
    BY DEF SysGate, Stores
  <2> QED
    BY <2>1, OnAlone DEF Touched
<1>2. ASSUME NEW s \in Settings, SetGate(s), On(s, q) PROVE StoreKept(s) /\ ok'[s] = ok[s]
  <2>1. s \in Stores /\ ~mixed[s]
    BY <1>2 DEF SetGate, Stores, Settings
  <2>2. ~On(s, p)
    BY <1>2, <2>1, OnAlone
  <2> QED
    BY <2>2 DEF Touched
<1> QED
  BY <1>1, <1>2, KeptOthers DEF Touched

(* A step of p, after which it is on a path. *)
LEMMA KeptOn ==
    ASSUME KeptInv, NEW p \in Procs, act[p].op # "idle", Others(p), act'[p].op = act[p].op, Touched(p), Leaves(p),
           NEW k \in Label, NEW e \in Label, Calmly \subseteq e.now, e.now \subseteq e.then,
           KnowsKept(p, k.now)', Path(KeptRules(act[p].op), act'[p].todo, k, e)
    PROVE  KeptInv'
<1>1. \A q \in Procs : act'[q].op = act[q].op
  BY DEF Others
<1>2. KeptApart' /\ SysFacts' /\ SetFacts'
  BY <1>1, KeptFacts
<1>3. KeptWalk(p)'
  <2>1. KnowsKept(p, k.now)' /\ Path(KeptRules(act'[p].op), act'[p].todo, k, e)
    OBVIOUS
  <2>2. \E l, f \in Label :
          /\ KnowsKept(p, l.now)' /\ Calmly \subseteq f.now /\ f.now \subseteq f.then
          /\ Path(KeptRules(act'[p].op), act'[p].todo, l, f)
    BY <2>1
  <2> QED
    BY <2>2 DEF KeptWalk
<1>4. ASSUME NEW q \in Procs PROVE KeptWalk(q)'
  <2>1. CASE q = p
    BY <1>3, <2>1
  <2>2. CASE q # p
    <3>1. act'[q] = act[q]
      BY <2>2 DEF Others
    <3> QED
      BY <2>2, <3>1, KeptOthersStay
  <2> QED
    BY <2>1, <2>2
<1> QED
  BY <1>2, <1>4 DEF KeptInv

-----------------------------------------------------------------------------
(* Steps that write no file of the settings or of the fingerprint *)

(* No file of these is written, and the settings may be what they were. *)
Unwritten ==
    /\ HistoryKept /\ StoreKept("sys") /\ StoreKept("perm") /\ StoreKept("boost") /\ UNCHANGED ok

(* Such a step leaves what must be left. *)
LEMMA KeptUnwritten ==
    ASSUME KeptInv, NEW p \in Procs, Unwritten
    PROVE  Touched(p) /\ Leaves(p)
<1>1. ok'["sys"] = ok["sys"] /\ ok'["boost"] = ok["boost"] /\ \A s \in Settings : StoreKept(s) /\ ok'[s] = ok[s]
  BY DEF Unwritten, Settings
<1>2. Touched(p)
  BY <1>1 DEF Touched, Unwritten
<1>3. Safe' = Safe
  BY <1>1, SysStays DEF Unwritten
<1>4. \A s \in Settings : Held(s)' = Held(s)
  BY <1>1, SetStays DEF Unwritten
<1>5. Leaves(p)
  BY <1>1, <1>3, <1>4 DEF Leaves, KeptInv, SysFacts, SetFacts
<1> QED
  BY <1>2, <1>5

(* What is known of the fingerprint, while its files stay. *)
LEMMA KnownSys ==
    ASSUME NEW p \in Procs, HistoryKept, ok'["sys"] = ok["sys"], StoreKept("sys"), act'[p].op = act[p].op,
           NEW N, NEW M, SysPart(p, N), M \cap FileClaims \subseteq N \cup {"probed"},
           "probed" \in M /\ SysGate /\ On("sys", p) =>
                act'[p].sys = "probed" \/ ("probed" \in N /\ act'[p].sys = act[p].sys)
    PROVE  SysPart(p, M)'
<1>1. \A e \in {"json", "bin", "json.tmp", "bin.tmp"} : file'[<<"sys", e>>] = file[<<"sys", e>>]
  BY KeptFiles DEF StoreKept
<1>2. SysGate' = SysGate /\ Sealed' = Sealed /\ crashes' = crashes /\ SysCalm' = SysCalm
  BY GateStays, SysStays
<1>3. On("sys", p)' = On("sys", p)
  BY DEF On
<1>4. ASSUME SysGate, On("sys", p) PROVE KnowsSys(p, M)'
  <2>1. KnowsSys(p, N)
    BY <1>4 DEF SysPart
  <2> QED
    BY <1>1, <1>2, <1>4, <2>1 DEF KnowsSys, Whole, FileClaims
<1> QED
  BY <1>2, <1>3, <1>4 DEF SysPart

(* What is known of the setting, while its files stay. *)
LEMMA KnownSet ==
    ASSUME NEW p \in Procs, HistoryKept, ok'["sys"] = ok["sys"], act'[p].op = act[p].op,
           NEW s \in Settings, s = StoreOf(act[p].op), StoreKept(s), ok'[s] = ok[s],
           NEW N, NEW M, SetPart(p, N), M \cap SettingClaims \subseteq N \cup {"mine"},
           act'[p][s] = act[p][s] \/ M \cap {"meant", "same", "both"} = {},
           "mine" \in M /\ SetGate(s) /\ On(s, p) =>
                act'[p][s] \in ok[s] \/ ("mine" \in N /\ act'[p][s] = act[p][s]),
           "meant" \in M => act'[p].chg = act[p].chg /\ act'[p].base = act[p].base
    PROVE  SetPart(p, M)'
<1>1. file'[<<s, "json">>] = file[<<s, "json">>] /\ file'[<<s, "bin">>] = file[<<s, "bin">>]
  BY KeptFiles DEF StoreKept
<1>2. SetGate(s)' = SetGate(s)
  BY GateStays
<1>3. Even(s)' = Even(s)
  BY SetStays
<1>5. On(s, p)' = On(s, p)
  BY DEF On
<1>6. ASSUME SetGate(s), On(s, p) PROVE KnowsSet(s, p, M)'
  <2>1. KnowsSet(s, p, N)
    BY <1>6 DEF SetPart
  <2>2. "even" \in M => Even(s)'
    BY <1>3, <2>1 DEF KnowsSet, SettingClaims
  <2>3. "mine" \in M => act'[p][s] \in ok'[s]
    BY <1>6, <2>1 DEF KnowsSet
  <2>4. "meant" \in M => act'[p][s] \in Intended(act[p].chg, act[p].base)'
    <3>1. ASSUME "meant" \in M
          PROVE  act'[p][s] \in Intended(act[p].chg, act[p].base)'
      <4>1. act[p][s] \in Intended(act[p].chg, act[p].base) /\ act'[p][s] = act[p][s]
        BY <2>1, <3>1 DEF KnowsSet, SettingClaims
      <4>2. Intended(act[p].chg, act[p].base)' = Intended(act'[p].chg, act'[p].base)
        BY DEF Intended, Changed
      <4>3. Intended(act'[p].chg, act'[p].base) = Intended(act[p].chg, act[p].base)
        BY <3>1
      <4> QED
        BY <4>1, <4>2, <4>3
    <3> QED
      BY <3>1
  <2>5. /\ "same" \in M => Whole(<<s, "json">>)' /\ file'[<<s, "json">>] = act'[p][s]
        /\ "both" \in M => /\ Whole(<<s, "json">>)' /\ file'[<<s, "json">>] = act'[p][s]
                           /\ file'[<<s, "bin">>] = act'[p][s]
    BY <1>1, <2>1 DEF KnowsSet, SettingClaims, Whole
  <2>6. /\ "setTorn" \in M => file'[<<s, "json">>] = Torn
        /\ "setBinTorn" \in M => file'[<<s, "bin">>] = Torn
    BY <1>1, <2>1 DEF KnowsSet, SettingClaims
  <2> QED
    BY <2>2, <2>3, <2>4, <2>5, <2>6 DEF KnowsSet
<1>7. StoreOf(act'[p].op) = s
  OBVIOUS
<1>8. (SetGate(s) /\ On(s, p) => KnowsSet(s, p, M))'
  BY <1>2, <1>5, <1>6
<1> QED
  BY <1>7, <1>8 DEF SetPart

(* Of the fingerprint nothing is claimed any more. *)
LEMMA KnownLost ==
    ASSUME NEW p \in Procs, HistoryKept, ok'["sys"] = ok["sys"], act'[p].op = act[p].op,
           NEW N, NEW M, LostPart(p, N), "lost" \in M => "lost" \in N
    PROVE  LostPart(p, M)'
<1>1. SysGate' = SysGate /\ On("sys", p)' = On("sys", p)
  BY GateStays DEF On
<1> QED
  BY <1>1 DEF LostPart

(* Where nothing is claimed of the fingerprint, nor is it of the booster. *)
LEMMA KnownNothing ==
    ASSUME NEW p \in Procs, HistoryKept, ok'["sys"] = ok["sys"], act'[p].op = act[p].op,
           act[p].op \in Ops, ~SysGate, On("sys", p)
    PROVE  \A N : KnowsKept(p, N)'
<1>1. SysGate' = SysGate /\ (\A s : SetGate(s)' = SetGate(s)) /\ \A s : On(s, p)' = On(s, p)
  BY GateStays DEF On
<1>2. StoreOf(act[p].op) = "boost"
  BY DEF On, Touches, StoreOf, PermOps
<1>3. ~SetGate("boost")
  BY DEF SetGate
<1>4. \A N : SysPart(p, N)' /\ LostPart(p, N)'
  BY <1>1 DEF SysPart, LostPart
<1>5. \A N : SetPart(p, N)'
  <2>1. StoreOf(act'[p].op) = "boost"
    BY <1>2
  <2>2. ~SetGate("boost")'
    BY <1>1, <1>3
  <2> QED
    BY <2>1, <2>2 DEF SetPart
<1> QED
  BY <1>4, <1>5 DEF KnowsKept

(* p goes on, with something inserted. *)
LEMMA KeptMoved ==
    ASSUME KeptInv, NEW p \in Procs, act[p].op # "idle", NEW more, Moved(p, more), Touched(p), Leaves(p),
           NEW l, NEW m, NEW e, KeptGoes(p, l, m, e),
           NEW k \in Label, KnowsKept(p, k.now)', Path(KeptRules(act[p].op), more, k, m)
    PROVE  KeptInv'
<1> DEFINE R == KeptRules(act[p].op)
<1>1. e \in Label /\ Calmly \subseteq e.now /\ e.now \subseteq e.then /\ Path(R, Tail(act[p].todo), m, e)
  BY DEF KeptGoes
<1> HIDE DEF R
<1>2. Path(R, more, k, m)
  BY DEF R
<1>3. Path(R, more \o Tail(act[p].todo), k, e)
  BY <1>1, <1>2, PathCat
<1>4. Path(KeptRules(act[p].op), act'[p].todo, k, e)
  BY <1>3 DEF Moved, R
<1>5. Others(p) /\ act'[p].op = act[p].op
  BY DEF Moved
<1> QED
  BY <1>1, <1>4, <1>5, KeptOn

(* The setting that p has, and what it was asked, are as they were. *)
Copies(p) ==
    /\ act'[p].perm = act[p].perm /\ act'[p].boost = act[p].boost
    /\ act'[p].chg = act[p].chg /\ act'[p].base = act[p].base

(* What is known of p, where it wrote nothing and has the same setting. *)
LEMMA KnownKept ==
    ASSUME NEW p \in Procs, Unwritten, act'[p].op = act[p].op, Copies(p),
           NEW N, NEW M, KnowsKept(p, N), M \subseteq N \cup {"probed"},
           "probed" \in M /\ SysGate /\ On("sys", p) =>
                act'[p].sys = "probed" \/ ("probed" \in N /\ act'[p].sys = act[p].sys)
    PROVE  KnowsKept(p, M)'
<1>0. HistoryKept /\ ok'["sys"] = ok["sys"] /\ StoreKept("sys")
      /\ \A s \in Settings : StoreKept(s) /\ ok'[s] = ok[s] /\ act'[p][s] = act[p][s]
  BY DEF Unwritten, Settings, Copies
<1>1. SysPart(p, N) /\ SetPart(p, N) /\ LostPart(p, N)
  BY DEF KnowsKept
<1>2. SysPart(p, M)'
  BY <1>0, <1>1, KnownSys
<1>3. SetPart(p, M)'
  <2>1. PICK s \in Settings : s = StoreOf(act[p].op)
    BY DEF StoreOf, Settings
  <2>2. M \cap SettingClaims \subseteq N
    BY DEF SettingClaims
  <2>3. "mine" \in M => "mine" \in N
    OBVIOUS
  <2>4. "mine" \in M /\ SetGate(s) /\ On(s, p) =>
          act'[p][s] \in ok[s] \/ ("mine" \in N /\ act'[p][s] = act[p][s])
    BY <1>0, <2>3
  <2>5. "meant" \in M => act'[p].chg = act[p].chg /\ act'[p].base = act[p].base
    BY DEF Copies
  <2> QED
    BY <1>0, <1>1, <2>1, <2>2, <2>3, <2>4, <2>5, KnownSet
<1>4. LostPart(p, M)'
  BY <1>0, <1>1, KnownLost
<1> QED
  BY <1>2, <1>3, <1>4 DEF KnowsKept

(* p wrote nothing, and does something before the rest. *)
LEMMA KeptAround ==
    ASSUME KeptInv, NEW p \in Procs, act[p].op # "idle", NEW more, Moved(p, more), Unwritten, Copies(p),
           NEW l, NEW m, NEW e, KeptGoes(p, l, m, e),
           NEW k \in Label, k.now \subseteq l.now \cup {"probed"},
           "probed" \in k.now /\ SysGate /\ On("sys", p) =>
                act'[p].sys = "probed" \/ ("probed" \in l.now /\ act'[p].sys = act[p].sys),
           Path(KeptRules(act[p].op), more, k, m)
    PROVE  KeptInv'
<1>1. act'[p].op = act[p].op
  BY DEF Moved
<1>2. KnowsKept(p, l.now)
  BY DEF KeptGoes
<1>3. KnowsKept(p, k.now)'
  BY <1>1, <1>2, KnownKept
<1> QED
  BY <1>3, KeptUnwritten, KeptMoved

-----------------------------------------------------------------------------
(* Steps that need nothing *)

(* What is known after a step that gives nothing was known before it. *)
LEMMA KeptPlainHead ==
    ASSUME NEW p, NEW l, NEW m, NEW e, KeptGoes(p, l, m, e)
    PROVE  LET x == Head(act[p].todo) IN
           /\ x[1] \in (Quietly \ {"probe"}) \cup Catchers \cup {"syncIfZero", "calibrateIfZero"} => m.now \subseteq l.now
           /\ x[1] = "probe" => m.now \subseteq l.now \cup {"probed"}
           /\ x[1] \in {"open", "fill"} /\ x[2] = "reg" => m.now \subseteq l.now
           /\ x[1] = "require" => "probed" \in l.now
           /\ x[1] \notin Catchers => m.then = l.then
           /\ l \in Label /\ m \in Label
<1> DEFINE x == Head(act[p].todo)
<1>1. KeptRule(act[p].op, l, x, m) /\ l \in Label /\ m \in Label
  BY DEF KeptGoes
<1> HIDE DEF x
<1>2. x[1] \notin FileWords => m.now \subseteq (l.now \ KeptLoses(x)) \cup CallGains(x[1])
  BY <1>1 DEF KeptRule, Anyway, KeptGains, FileWords
<1>3. ASSUME x[1] \in (Quietly \ {"probe"}) \cup Catchers \cup {"syncIfZero", "calibrateIfZero"}
      PROVE  m.now \subseteq l.now
  <2>1. x[1] \notin FileWords /\ CallGains(x[1]) = {}
    BY <1>3 DEF FileWords, Quietly, Catchers, CallGains
  <2> QED
    BY <1>2, <2>1
<1>4. ASSUME x[1] = "probe" PROVE m.now \subseteq l.now \cup {"probed"}
  <2>1. x[1] \notin FileWords /\ CallGains(x[1]) = {"probed"}
    BY <1>4 DEF FileWords, CallGains
  <2> QED
    BY <1>2, <2>1
<1>5. ASSUME x[1] \in {"open", "fill"}, x[2] = "reg" PROVE m.now \subseteq l.now
  <2>1. KeptGains(x) = {} /\ KeptLoses(x) = {} /\ ~Anyway(l, x)
    BY <1>5 DEF FileWords, KeptGains, KeptLoses, Anyway, Settings
  <2> QED
    BY <1>1, <2>1 DEF KeptRule
<1>6. ASSUME x[1] = "require" PROVE "probed" \in l.now
  <2>1. KeptNeeds(act[p].op, x) = {"probed"} /\ ~Anyway(l, x)
    BY <1>6 DEF FileWords, KeptNeeds, CallNeeds, Anyway
  <2> QED
    BY <1>1, <2>1 DEF KeptRule
<1>7. x[1] \notin Catchers => m.then = l.then
  BY <1>1 DEF KeptRule
<1> QED
  BY <1>1, <1>3, <1>4, <1>5, <1>6, <1>7 DEF x

(* Steps of the registry are on every path. *)
LEMMA KeptRegSteps ==
    ASSUME NEW op, NEW m \in Label, NEW more \in Seq(RegistrySteps)
    PROVE  Path(KeptRules(op), more, m, m)
<1>1. ASSUME NEW x \in RegistrySteps PROVE x \in Steps /\ <<m, x, m>> \in KeptRules(op)
  <2>1. x \in Steps
    BY DEF RegistrySteps
  <2>2. Asks(x) = {} /\ x[1] \notin Catchers /\ KeptNeeds(op, x) = {} /\ KeptLoses(x) = {}
        /\ x[1] \notin Inserting /\ x[1] \notin Scanning /\ ~Locks(x)
    <3>1. CASE x[1] \in {"loadReg", "regAdd", "regRemove", "regContext", "regPurge", "allocate", "free"}
      BY <3>1 DEF Asks, Catchers, KeptNeeds, CallNeeds, KeptLoses, Inserting, Scanning, Locks, FileWords
    <3>2. CASE x[1] \in {"open", "fill"} /\ x[2] = "reg"
      BY <3>2 DEF Asks, Catchers, KeptNeeds, KeptLoses, Inserting, Scanning, Locks, FileWords, Settings
    <3> QED
      BY <3>1, <3>2 DEF RegistrySteps
  <2>3. KeptRule(op, m, x, m)
    BY <2>2 DEF KeptRule
  <2> QED
    BY <2>1, <2>3, KeptRulesDef
<1>2. more \in Seq(Steps) /\ \A i \in 1..Len(more) : <<m, more[i], m>> \in KeptRules(op)
  BY <1>1, RegistrySeqs
<1> QED
  BY <1>2, PathStay

(* A step of the registry writes no other file. *)
LEMMA KeptRegEffect ==
    ASSUME TypeInv, NEW p \in Procs, Step(p) \/ Edit(p) \/ EditPermission(p), ~End(p),
           Head(act[p].todo) \in RegistrySteps
    PROVE  \E more \in Seq(RegistrySteps) : Moved(p, more) /\ Unwritten /\ Copies(p) /\ act'[p].sys = act[p].sys
<1> DEFINE x == Head(act[p].todo)
<1>0. /\ act[p].todo # <<>> /\ act[p] \in ActType
      /\ \/ x[1] = "loadReg" /\ LoadRegistry(p)
         \/ x[1] \in {"regAdd", "regRemove", "regContext", "regPurge"} /\ Registry(p)
         \/ x[1] = "allocate" /\ Allocate(p)
         \/ x[1] = "free" /\ Free(p)
         \/ x[1] \in {"open", "fill"} /\ x[2] = "reg" /\ (Open(p) \/ Fill(p))
  BY Kinds, TypeHere DEF RegistrySteps
<1>1. ASSUME NEW a \in ActType, a.op = act[p].op, a.todo = act[p].todo, a.sys = act[p].sys,
             a.perm = act[p].perm, a.boost = act[p].boost, a.chg = act[p].chg, a.base = act[p].base,
             NEW more \in Seq(RegistrySteps), Continue(p, a, more), HistoryKept,
             StoreKept("sys"), StoreKept("perm"), StoreKept("boost"), UNCHANGED ok
      PROVE  Moved(p, more) /\ Unwritten /\ Copies(p) /\ act'[p].sys = act[p].sys
  <2>1. more \in Seq(Steps)
    BY RegistrySeqs
  <2>2. Moved(p, more) /\ act'[p].perm = a.perm /\ act'[p].boost = a.boost /\ act'[p].sys = a.sys
        /\ act'[p].chg = a.chg /\ act'[p].base = a.base
    BY <1>0, <1>1, <2>1, MovedBy
  <2> QED
    BY <1>1, <2>2 DEF Unwritten, Copies
<1>2. ASSUME NEW m0, NEW more \in Seq(RegistrySteps), Arbiter(p, m0, more)
      PROVE  Moved(p, more) /\ Unwritten /\ Copies(p) /\ act'[p].sys = act[p].sys
  <2>1. more \in Seq(Steps)
    BY RegistrySeqs
  <2>2. Moved(p, more) /\ HistoryKept /\ UNCHANGED file
        /\ act'[p].perm = act[p].perm /\ act'[p].boost = act[p].boost /\ act'[p].sys = act[p].sys
        /\ act'[p].chg = act[p].chg /\ act'[p].base = act[p].base
    BY <1>0, <1>2, <2>1, MovedArbiter
  <2>3. UNCHANGED ok
    BY <1>2 DEF Arbiter, history
  <2> QED
    BY <2>2, <2>3 DEF Unwritten, StoreKept, Copies
<1>3. ASSUME NEW pids, NEW more \in Seq(RegistrySteps), pids \in SUBSET Pids, Got(p, [act[p] EXCEPT !.reg = pids], more)
      PROVE  Moved(p, more) /\ Unwritten /\ Copies(p) /\ act'[p].sys = act[p].sys
  <2> DEFINE a == [act[p] EXCEPT !.reg = pids]
  <2>1. a \in ActType /\ a.op = act[p].op /\ a.todo = act[p].todo /\ a.sys = act[p].sys
        /\ a.perm = act[p].perm /\ a.boost = act[p].boost /\ a.chg = act[p].chg /\ a.base = act[p].base
    BY <1>0, <1>3 DEF ActType
  <2>2. Continue(p, a, more) /\ UNCHANGED file /\ UNCHANGED history
    BY <1>3 DEF Got
  <2> HIDE DEF a
  <2> QED
    BY <1>1, <2>1, <2>2 DEF HistoryKept, StoreKept, history
<1>3a. ASSUME NEW more \in Seq(RegistrySteps), Got(p, act[p], more)
      PROVE  Moved(p, more) /\ Unwritten /\ Copies(p) /\ act'[p].sys = act[p].sys
  BY <1>0, <1>1, <1>3a DEF HistoryKept, StoreKept, Got, history
<1> HIDE DEF x
<1>4. CASE x[1] = "loadReg" /\ LoadRegistry(p)
  <2>1. PICK pids : pids \in SUBSET Pids /\ Got(p, [act[p] EXCEPT !.reg = pids], <<>>)
    <3>1. Got(p, [act[p] EXCEPT !.reg = IF Whole(<<"reg", "json">>) THEN file[<<"reg", "json">>] ELSE {}], <<>>)
      BY <1>4 DEF LoadRegistry
    <3>2. <<"reg", "json">> \in Files /\ file[<<"reg", "json">>] \in FileType("reg")
      <4>1. <<"reg", "json">> \in Files
        BY RegFile
      <4> QED
        BY <4>1 DEF TypeInv, Types, FileTypes
    <3>3. (IF Whole(<<"reg", "json">>) THEN file[<<"reg", "json">>] ELSE {}) \in SUBSET Pids
      BY <3>2 DEF FileType, Whole
    <3> QED
      BY <3>1, <3>3
  <2> QED
    BY <1>3, <2>1, RegistrySeqs
<1>5. CASE x[1] \in {"regAdd", "regRemove", "regContext", "regPurge"} /\ Registry(p)
  <2>0. "read" \in TypeNeeds(act[p].op, Head(act[p].todo)) /\ Pid(p) \in Pids
    BY <1>5, PidTyped DEF TypeNeeds, TypeInv, x
  <2>1. act[p].reg \in SUBSET Pids
    BY <1>0, <2>0, RegRead
  <2>2. \/ Got(p, act[p], <<>>)
        \/ \E pids \in SUBSET Pids : Got(p, [act[p] EXCEPT !.reg = pids], Put("reg", "json"))
    BY <1>5, <2>0, <2>1, Zenon DEF Registry
  <2> QED
    BY <1>3, <1>3a, <2>2, RegistrySeqs
<1>6. CASE x[1] = "allocate" /\ Allocate(p)
  BY <1>2, <1>6, AllocateEffect, RegistrySeqs
<1>7. CASE x[1] = "free" /\ Free(p)
  BY <1>2, <1>7, FreeEffect, RegistrySeqs
<1>8. CASE x[1] \in {"open", "fill"} /\ x[2] = "reg" /\ (Open(p) \/ Fill(p))
  <2>1. PICK c : file' = [file EXCEPT ![Target(p)] = c]
    <3>1. Target(p)[1] = "reg" /\ Target(p) \notin locked
      BY <1>8 DEF Target, TypeInv, Types, x
    <3> QED
      BY <1>8, <3>1 DEF Open, Fill
  <2>2. Continue(p, act[p], <<>>) /\ UNCHANGED history
    <3>1. Target(p) \notin locked
      BY <1>8 DEF Target, TypeInv, Types, x
    <3> QED
      BY <1>8, <3>1 DEF Open, Fill
  <2>3. \A f \in Files : f[1] # "reg" => file'[f] = file[f]
    <3>1. Target(p)[1] = "reg"
      BY <1>8 DEF Target, x
    <3>2. file \in [Files -> UNION {FileType(s) : s \in Stores}]
      BY DEF TypeInv, Types, FileTypes
    <3> QED
      BY <2>1, <3>1, <3>2
  <2>4. StoreKept("sys") /\ StoreKept("perm") /\ StoreKept("boost") /\ HistoryKept /\ UNCHANGED ok
    BY <2>2, <2>3 DEF StoreKept, HistoryKept, history
  <2>5. <<>> \in Seq(RegistrySteps)
    BY RegistrySeqs
  <2> QED
    BY <1>0, <1>1, <2>2, <2>4, <2>5
<1> QED
  BY <1>0, <1>4, <1>5, <1>6, <1>7, <1>8 DEF x

(* The steps of the registry keep the invariant. *)
LEMMA KeptRegistry ==
    ASSUME TypeInv, KeptInv, NEW p \in Procs, Step(p) \/ Edit(p) \/ EditPermission(p), ~End(p),
           Head(act[p].todo) \in RegistrySteps
    PROVE  KeptInv'
<1>1. PICK more \in Seq(RegistrySteps) : Moved(p, more) /\ Unwritten /\ Copies(p) /\ act'[p].sys = act[p].sys
  BY KeptRegEffect
<1>2. act[p].todo # <<>>
  BY Kinds
<1>3. act[p].op # "idle" /\ \E l, m, e \in Label : KeptGoes(p, l, m, e)
  BY <1>2, KeptHere
<1>4. PICK l, m, e \in Label : KeptGoes(p, l, m, e)
  BY <1>3
<1>5. m.now \subseteq l.now
  <2>1. Head(act[p].todo)[1] \in Quietly \ {"probe"}
        \/ (Head(act[p].todo)[1] \in {"open", "fill"} /\ Head(act[p].todo)[2] = "reg")
    BY DEF RegistrySteps, Quietly
  <2> QED
    BY <1>4, <2>1, KeptPlainHead
<1>6. Path(KeptRules(act[p].op), more, m, m)
  BY KeptRegSteps
<1> QED
  BY <1>1, <1>3, <1>4, <1>5, <1>6, KeptAround

-----------------------------------------------------------------------------
(* Calls: the prober, errors that are looked at, and the arbiter *)

(* Nothing inserted. *)
LEMMA KeptPathNil ==
    ASSUME NEW rules, NEW m \in Label PROVE Path(rules, <<>>, m, m)
  BY PathNil

(* A call that changes nothing but what p found of the silicon. *)
LEMMA KeptGotSys ==
    ASSUME TypeInv, KeptInv, NEW p \in Procs, act[p].todo # <<>>, NEW a \in ActType,
           a.op = act[p].op, a.todo = act[p].todo, a.perm = act[p].perm, a.boost = act[p].boost,
           a.chg = act[p].chg, a.base = act[p].base, NEW more \in Seq(Steps), Got(p, a, more),
           NEW l, NEW m, NEW e, KeptGoes(p, l, m, e),
           NEW k \in Label, k.now \subseteq l.now \cup {"probed"},
           "probed" \in k.now /\ SysGate /\ On("sys", p) =>
                a.sys = "probed" \/ ("probed" \in l.now /\ a.sys = act[p].sys),
           Path(KeptRules(act[p].op), more, k, m)
    PROVE  KeptInv'
<1>1. Continue(p, a, more) /\ UNCHANGED file /\ UNCHANGED history
  BY DEF Got
<1>2. Moved(p, more) /\ act'[p].perm = a.perm /\ act'[p].boost = a.boost /\ act'[p].sys = a.sys
      /\ act'[p].chg = a.chg /\ act'[p].base = a.base
  BY <1>1, MovedBy
<1>3. Unwritten /\ Copies(p)
  BY <1>1, <1>2 DEF Unwritten, Copies, HistoryKept, StoreKept, history
<1>4. act[p].op # "idle"
  BY KeptHere
<1> QED
  BY <1>2, <1>3, <1>4, KeptAround

(* A call of the arbiter. *)
LEMMA KeptArbiter ==
    ASSUME TypeInv, KeptInv, NEW p \in Procs, act[p].todo # <<>>, NEW m0,
           NEW more \in Seq(Steps), Arbiter(p, m0, more),
           NEW l, NEW m, NEW e, KeptGoes(p, l, m, e),
           NEW k \in Label, k.now \subseteq l.now, Path(KeptRules(act[p].op), more, k, m)
    PROVE  KeptInv'
<1>1. Moved(p, more) /\ HistoryKept /\ UNCHANGED file
      /\ act'[p].perm = act[p].perm /\ act'[p].boost = act[p].boost /\ act'[p].sys = act[p].sys
      /\ act'[p].chg = act[p].chg /\ act'[p].base = act[p].base
  BY MovedArbiter
<1>2. UNCHANGED ok
  BY DEF Arbiter, history
<1>3. Unwritten /\ Copies(p)
  BY <1>1, <1>2 DEF Unwritten, Copies, StoreKept
<1>4. act[p].op # "idle"
  BY KeptHere
<1> QED
  BY <1>1, <1>3, <1>4, KeptAround

(* The files of the fingerprint are locked, or unlocked. *)
LEMMA KeptSetFileLock ==
    ASSUME TypeInv, KeptInv, NEW p \in Procs, act[p].todo # <<>>,
           Head(act[p].todo)[1] \in {"writable", "readonly"}, SetFileLock(p)
    PROVE  KeptInv'
<1>1. Continue(p, act[p], <<>>) /\ UNCHANGED file /\ UNCHANGED history /\ act[p] \in ActType
      /\ <<>> \in Seq(Steps)
  BY TypeHere DEF SetFileLock
<1>2. Moved(p, <<>>) /\ act'[p].perm = act[p].perm /\ act'[p].boost = act[p].boost /\ act'[p].sys = act[p].sys
      /\ act'[p].chg = act[p].chg /\ act'[p].base = act[p].base
  BY <1>1, MovedBy
<1>3. Unwritten /\ Copies(p)
  BY <1>1, <1>2 DEF Unwritten, Copies, HistoryKept, StoreKept, history
<1>4. act[p].op # "idle" /\ \E l, m, e \in Label : KeptGoes(p, l, m, e)
  BY KeptHere
<1>5. PICK l, m, e \in Label : KeptGoes(p, l, m, e)
  BY <1>4
<1>6. m.now \subseteq l.now
  <2>1. Head(act[p].todo)[1] \in Quietly \ {"probe"}
    BY DEF Quietly
  <2> QED
    BY <1>5, <2>1, KeptPlainHead
<1>7. Path(KeptRules(act[p].op), <<>>, m, m)
  BY KeptPathNil
<1> QED
  BY <1>2, <1>3, <1>4, <1>5, <1>6, <1>7, KeptAround

(* The lock, the total and the window. *)
LEMMA KeptLocks ==
    ASSUME TypeInv, KeptInv, NEW p \in Procs, act[p].todo # <<>>,
           \/ Head(act[p].todo)[1] \in {"lock", "unlock"} /\ Lock(p)
           \/ Head(act[p].todo)[1] = "total" /\ Sync(p)
           \/ Head(act[p].todo)[1] \in {"fit", "forget"} /\ Fit(p)
    PROVE  KeptInv'
<1>1. \E m0 : Arbiter(p, m0, <<>>)
  <2>1. CASE Head(act[p].todo)[1] \in {"lock", "unlock"} /\ Lock(p)
    BY <2>1 DEF Lock
  <2>2. CASE Head(act[p].todo)[1] = "total" /\ Sync(p)
    BY <2>2, AtHead DEF Sync
  <2>3. CASE Head(act[p].todo)[1] \in {"fit", "forget"} /\ Fit(p)
    BY <2>3 DEF Fit
  <2> QED
    BY <2>1, <2>2, <2>3
<1>2. PICK m0 : Arbiter(p, m0, <<>>)
  BY <1>1
<1>4. \E l, m, e \in Label : KeptGoes(p, l, m, e)
  BY KeptHere
<1>5. PICK l, m, e \in Label : KeptGoes(p, l, m, e)
  BY <1>4
<1>6. m.now \subseteq l.now
  <2>1. Head(act[p].todo)[1] \in Quietly \ {"probe"}
    BY DEF Quietly
  <2> QED
    BY <1>5, <2>1, KeptPlainHead
<1>7. Path(KeptRules(act[p].op), <<>>, m, m) /\ <<>> \in Seq(Steps)
  BY KeptPathNil
<1> QED
  BY <1>2, <1>5, <1>6, <1>7, KeptArbiter

(* What was found of the silicon. *)
LEMMA SysField ==
    ASSUME NEW a \in ActType, NEW c \in Silicon \cup {None}
    PROVE  LET b == [a EXCEPT !.sys = c] IN
           /\ b \in ActType /\ b.op = a.op /\ b.todo = a.todo /\ b.perm = a.perm /\ b.boost = a.boost
           /\ b.chg = a.chg /\ b.base = a.base /\ b.reg = a.reg /\ b.sys = c
  BY DEF ActType

(* p finds c. *)
LEMMA KeptFound ==
    ASSUME TypeInv, KeptInv, NEW p \in Procs, act[p].todo # <<>>, NEW c \in Silicon \cup {None},
           Got(p, [act[p] EXCEPT !.sys = c], <<>>),
           NEW l, NEW m, NEW e, KeptGoes(p, l, m, e), m.now \subseteq l.now \cup {"probed"},
           "probed" \in m.now /\ SysGate /\ On("sys", p) =>
                c = "probed" \/ ("probed" \in l.now /\ c = act[p].sys)
    PROVE  KeptInv'
<1> DEFINE a == [act[p] EXCEPT !.sys = c]
<1>1. act[p] \in ActType /\ <<>> \in Seq(Steps) /\ m \in Label
  BY TypeHere DEF KeptGoes
<1>2. a \in ActType /\ a.op = act[p].op /\ a.todo = act[p].todo /\ a.perm = act[p].perm /\ a.boost = act[p].boost
      /\ a.chg = act[p].chg /\ a.base = act[p].base /\ a.reg = act[p].reg /\ a.sys = c
  BY <1>1, SysField
<1>3. Got(p, a, <<>>)
  OBVIOUS
<1>4. Path(KeptRules(act[p].op), <<>>, m, m)
  BY <1>1, KeptPathNil
<1> HIDE DEF a
<1> QED
  BY <1>1, <1>2, <1>3, <1>4, KeptGotSys

(* Probing the hardware, and looking at an error. *)
LEMMA KeptProbe ==
    ASSUME TypeInv, KeptInv, NEW p \in Procs, act[p].todo # <<>>, Probe(p)
    PROVE  KeptInv'
<1> DEFINE x == Head(act[p].todo)
           R == KeptRules(act[p].op)
<1>0. act[p] \in ActType /\ act[p].op # "idle" /\ act[p].op \in Ops /\ <<>> \in Seq(Steps)
      /\ \E l, m, e \in Label : KeptGoes(p, l, m, e)
  BY TypeHere, KeptHere
<1>1. PICK l, m, e \in Label : KeptGoes(p, l, m, e)
  BY <1>0
<1>2. Path(R, <<>>, m, m)
  BY KeptPathNil
<1>n. None \notin Silicon /\ "probed" \in Silicon /\ "blank" \in Silicon
  BY GovernorAssumption DEF Silicon
<1>3. CASE At(p, "probe")
  <2>1. x[1] = "probe" /\ Got(p, [act[p] EXCEPT !.sys = "probed"], <<>>)
    BY <1>3, AtHead DEF Probe, At
  <2>2. m.now \subseteq l.now \cup {"probed"}
    BY <1>1, <2>1, KeptPlainHead
  <2> QED
    BY <1>1, <1>n, <2>1, <2>2, KeptFound
<1>4. CASE At(p, "orBlank")
  <2> DEFINE c == IF act[p].sys = None THEN "blank" ELSE act[p].sys
  <2>1. x[1] = "orBlank" /\ Got(p, [act[p] EXCEPT !.sys = c], <<>>)
    BY <1>4, AtHead DEF Probe, At
  <2>2. m.now \subseteq l.now
    <3>1. x[1] \in Quietly \ {"probe"}
      BY <2>1 DEF Quietly
    <3> QED
      BY <1>1, <3>1, KeptPlainHead
  <2>3. c \in Silicon \cup {None}
    BY <1>0, <1>n DEF ActType
  <2>4. "probed" \in m.now /\ SysGate /\ On("sys", p) => "probed" \in l.now /\ c = act[p].sys
    <3>1. "probed" \in l.now /\ SysGate /\ On("sys", p) => act[p].sys = "probed"
      BY <1>1 DEF KeptGoes, KnowsKept, SysPart, KnowsSys
    <3> QED
      BY <1>n, <2>2, <3>1
  <2> HIDE DEF c
  <2> QED
    BY <1>1, <2>1, <2>2, <2>3, <2>4, KeptFound
<1>5. CASE At(p, "catch")
  <2>1. x[1] = "catch" /\ Got(p, act[p], <<>>)
    BY <1>5, AtHead DEF Probe, At
  <2>2. m.now \subseteq l.now
    <3>1. x[1] \in Catchers
      BY <2>1 DEF Catchers
    <3> QED
      BY <1>1, <3>1, KeptPlainHead
  <2> QED
    BY <1>0, <1>1, <1>2, <2>1, <2>2, KeptGotSys
<1>6. CASE At(p, "require") /\ act[p].sys # None
  <2>1. x[1] = "require" /\ Got(p, act[p], <<>>)
    BY <1>6, AtHead DEF Probe, At
  <2>2. m.now \subseteq l.now
    <3>1. x[1] \in Catchers
      BY <2>1 DEF Catchers
    <3> QED
      BY <1>1, <3>1, KeptPlainHead
  <2> QED
    BY <1>0, <1>1, <1>2, <2>1, <2>2, KeptGotSys
<1>7. CASE At(p, "require") /\ act[p].sys = None
  <2> DEFINE a == [act[p] EXCEPT !.todo = <<Do("")>>]
  <2>1. x[1] = "require" /\ Got(p, a, <<>>)
    BY <1>7, AtHead DEF Probe, At
  <2>2. "probed" \in l.now
    BY <1>1, <2>1, KeptPlainHead
  <2>3. On("sys", p)
    <3>1. Asks(x) = {"boost", "sys"}
      BY <2>1 DEF Asks
    <3> QED
      BY <3>1, KeptHere DEF On
  <2>4. ~SysGate
    BY <1>1, <1>7, <1>n, <2>2, <2>3 DEF KeptGoes, KnowsKept, SysPart, KnowsSys
  <2>5. a \in ActType /\ a.todo # <<>> /\ Tail(a.todo) = <<>> /\ a.op = act[p].op
    <3>1. Do("") \in Steps
      BY DoStep DEF Words
    <3> QED
      BY <1>0, <3>1, OneStep DEF ActType
  <2>6. Continue(p, a, <<>>) /\ UNCHANGED file /\ UNCHANGED history
    BY <2>1 DEF Got
  <2>7. Became(p, a, <<>>)
    BY <2>5, <2>6, ContinueNil DEF TypeInv, Types, ActTypes
  <2> HIDE DEF a
  <2>8. Unwritten /\ HistoryKept /\ ok'["sys"] = ok["sys"]
    BY <2>6 DEF Unwritten, HistoryKept, StoreKept, history
  <2>9. Others(p) /\ act'[p].op = act[p].op /\ act'[p].todo = <<>>
    BY <2>5, <2>7 DEF Became
  <2>10. KnowsKept(p, e.now)'
    BY <1>0, <2>3, <2>4, <2>8, <2>9, KnownNothing
  <2>11. e \in Label /\ Calmly \subseteq e.now /\ e.now \subseteq e.then
    BY <1>1 DEF KeptGoes
  <2>12. Path(KeptRules(act[p].op), act'[p].todo, e, e)
    BY <2>9, <2>11, PathNil
  <2> QED
    BY <1>0, <2>8, <2>9, <2>10, <2>11, <2>12, KeptUnwritten, KeptOn
<1> QED
  BY <1>3, <1>4, <1>5, <1>6, <1>7 DEF Probe

(* A synchronisation that begins, and a calibration in it. *)
LEMMA KeptSync ==
    ASSUME TypeInv, KeptInv, NEW p \in Procs, act[p].todo # <<>>,
           Head(act[p].todo)[1] \in {"syncIfZero", "calibrateIfZero"}, Sync(p)
    PROVE  KeptInv'
<1> DEFINE x == Head(act[p].todo)
           R == KeptRules(act[p].op)
<1>0. act[p] \in ActType /\ act[p].op # "idle" /\ act[p].op \in Ops /\ <<>> \in Seq(Steps)
      /\ \E l, m, e \in Label : KeptGoes(p, l, m, e)
  BY TypeHere, KeptHere
<1>1. PICK l, m, e \in Label : KeptGoes(p, l, m, e)
  BY <1>0
<1>2. m.now \subseteq l.now /\ m.then = l.then /\ l \in Label /\ m \in Label
  <2>1. x[1] \in {"syncIfZero", "calibrateIfZero"} /\ x[1] \notin Catchers
    BY DEF Catchers
  <2> QED
    BY <1>1, <2>1, KeptPlainHead
<1>3. {"boost", "sys"} \subseteq Touches(act[p].op)
  <2>1. Asks(x) = {"boost", "sys"}
    BY DEF Asks
  <2> QED
    BY <2>1, KeptHere
<1>4. Calmly \subseteq l.now /\ l.now \subseteq Ground /\ Ground \subseteq l.then
  <2>1. KeptRule(act[p].op, l, x, m)
    BY <1>1 DEF KeptGoes
  <2>2. KeptNeeds(act[p].op, x) = Calmly /\ x[1] \in Inserting /\ x[1] \in Scanning /\ ~Anyway(l, x)
    BY DEF KeptNeeds, CallNeeds, FileWords, Inserting, Scanning, Anyway
  <2> HIDE DEF x
  <2> QED
    BY <2>1, <2>2 DEF KeptRule
<1>5. l.now \in SUBSET Claims /\ m.now \in SUBSET Claims /\ l.then \in SUBSET Claims /\ Ground \in SUBSET Claims
      /\ l = Knowing(l.now, l.then) /\ m = Knowing(m.now, l.then)
  <2>1. m.now \in SUBSET Claims /\ m = Knowing(m.now, m.then)
    BY <1>2, LabelParts
  <2> QED
    BY <1>2, <2>1, LabelParts, KeptClaims
<1> HIDE DEF R
<1>6. CASE \E m0 : Arbiter(p, m0, <<>>)
  <2>1. Path(R, <<>>, m, m)
    BY KeptPathNil
  <2> QED
    BY <1>0, <1>1, <1>2, <1>6, <2>1, KeptArbiter DEF R
<1>7. CASE \E m0 : Arbiter(p, m0, SyncTotal \o <<Do("calibrateIfZero")>>)
  <2> DEFINE N == l.now
             M == l.now \cup {"probed"}
             V == l.then
             k == Knowing(N, Ground)
             k1 == Knowing(M, Ground)
             k2 == Knowing(M, V)
  <2>1. M \in SUBSET Claims /\ M \subseteq Ground /\ Calmly \subseteq M
    BY <1>4, <1>5, KeptClaims DEF Ground
  <2>2. k \in Label /\ k.now = N /\ k1 \in Label /\ k2 \in Label
    BY <1>5, <2>1, KnowingLabel
  <2>3. Do("loadSys") \in Steps /\ <<k, Do("loadSys"), k1>> \in R
    <3>1. "loadSys" \in Scanning /\ M \subseteq N \cup {"probed"}
      BY DEF Scanning
    <3> HIDE DEF M, N
    <3>2. N \in SUBSET Claims /\ Calmly \subseteq N /\ N \subseteq Ground
      BY <1>4, <1>5 DEF N
    <3> QED
      BY <1>3, <1>5, <2>1, <3>1, <3>2, KeptScan DEF R
  <2>4. Do("catch") \in Steps /\ <<k1, Do("catch"), k2>> \in R
    <3>1. "catch" \in Catchers
      BY DEF Catchers
    <3> HIDE DEF M
    <3> QED
      BY <1>5, <2>1, <3>1, KeptCatch DEF R
  <2>5. Do("total") \in Steps /\ <<k2, Do("total"), l>> \in R
    <3>1. "total" \in Quietly /\ l.now \subseteq M
      BY DEF Quietly
    <3> HIDE DEF M
    <3> QED
      BY <1>5, <2>1, <3>1, KeptQuietly DEF R
  <2>6. Do("calibrateIfZero") \in Steps /\ <<l, Do("calibrateIfZero"), m>> \in R
    <3>1. "calibrateIfZero" \in Scanning
      BY DEF Scanning
    <3> QED
      BY <1>2, <1>3, <1>4, <1>5, <3>1, KeptScan DEF R
  <2> HIDE DEF k, k1, k2
  <2>7. Path(R, SyncTotal, k, l)
    BY <1>2, <2>2, <2>3, <2>4, <2>5, PathThree DEF SyncTotal
  <2>8. Path(R, <<Do("calibrateIfZero")>>, l, m)
    BY <1>2, <2>6, PathOne
  <2>9. Path(R, SyncTotal \o <<Do("calibrateIfZero")>>, k, m)
    BY <2>7, <2>8, PathCat
  <2>10. SyncTotal \o <<Do("calibrateIfZero")>> \in Seq(Steps)
    BY <2>9 DEF Path
  <2> QED
    BY <1>0, <1>1, <1>2, <1>7, <2>2, <2>9, <2>10, KeptArbiter DEF R
<1>8. CASE \E m0 : Arbiter(p, m0, AutoCalibrate \o <<Do("catch")>>)
  <2>1. Path(R, AutoCalibrate, l, m)
    <3>1. m.now \subseteq l.now \cup {"mine", "probed"}
      BY <1>2
    <3> QED
      BY <1>3, <1>4, <1>5, <3>1, KeptAutoCalibrate DEF R
  <2>2. Do("catch") \in Steps /\ <<m, Do("catch"), m>> \in R
    <3>1. "catch" \in Catchers /\ m.now \subseteq l.then
      BY <1>2, <1>4 DEF Catchers
    <3> QED
      BY <1>5, <3>1, KeptCatch DEF R
  <2>3. Path(R, <<Do("catch")>>, m, m)
    BY <1>2, <2>2, PathOne
  <2>4. Path(R, AutoCalibrate \o <<Do("catch")>>, l, m)
    BY <2>1, <2>3, PathCat
  <2>5. AutoCalibrate \o <<Do("catch")>> \in Seq(Steps)
    BY <2>4 DEF Path
  <2> QED
    BY <1>0, <1>1, <1>2, <1>8, <2>4, <2>5, KeptArbiter DEF R
<1>9. \/ \E m0 : Arbiter(p, m0, <<>>)
      \/ \E m0 : Arbiter(p, m0, SyncTotal \o <<Do("calibrateIfZero")>>)
      \/ \E m0 : Arbiter(p, m0, AutoCalibrate \o <<Do("catch")>>)
  BY Zenon DEF Sync
<1> QED
  BY <1>6, <1>7, <1>8, <1>9

-----------------------------------------------------------------------------
(* Loading the fingerprint *)

(* While nobody met another one, a load finds the fingerprint; or there is *)
(* none, and the hardware is calibrated.                                   *)
LEMMA CalmLoad ==
    ASSUME NEW p, LoadSys(p), SysGate, SysCalm
    PROVE  \/ Got(p, [act[p] EXCEPT !.sys = "probed"], <<>>)
           \/ Got(p, act[p], AutoCalibrate \o <<Do("loadSys")>>)
<1> DEFINE json == file[<<"sys", "json">>]
           bin == file[<<"sys", "bin">>]
<1>1. json \notin {Absent, Torn} \/ (bin \notin {Absent, Torn}) \/ (json = Absent /\ bin = Absent)
  BY DEF SysGate, SysCalm, Safe, Whole
<1>2. CASE json \notin {Absent, Torn}
  BY <1>2, Zenon DEF LoadSys
<1>3. CASE json \in {Absent, Torn} /\ bin \notin {Absent, Torn}
  <2>1. \/ FromBinary(p, <<Do("catch"), Do("orBlank")>>)
        \/ FromBinary(p, <<>>)
    BY <1>3, GovernorAssumption DEF LoadSys
  <2>2. Whole(<<"sys", "bin">>)
    BY <1>3 DEF Whole
  <2> QED
    BY <2>1, <2>2 DEF FromBinary
<1>4. CASE json = Absent /\ bin = Absent
  BY <1>4, GovernorAssumption DEF LoadSys
<1> QED
  BY <1>1, <1>2, <1>3, <1>4

(* What is on the way of a load. *)
LEMMA KeptAtLoad ==
    ASSUME KeptInv, NEW p \in Procs, NEW l, NEW m, NEW e, KeptGoes(p, l, m, e), Head(act[p].todo)[1] = "loadSys",
           Asks(Head(act[p].todo)) \subseteq Touches(act[p].op)
    PROVE  /\ Calmly \subseteq l.now /\ l.now \subseteq Ground /\ Ground \subseteq l.then
           /\ m.now \subseteq l.now \cup {"probed"} /\ m.then = l.then /\ m.now \subseteq Ground
           /\ l.now \in SUBSET Claims /\ m.now \in SUBSET Claims /\ l.then \in SUBSET Claims
           /\ l = Knowing(l.now, l.then) /\ m = Knowing(m.now, l.then) /\ l \in Label /\ m \in Label
           /\ {"boost", "sys"} \subseteq Touches(act[p].op) /\ On("sys", p)
           /\ SysGate => SysCalm
<1> DEFINE x == Head(act[p].todo)
<1>1. KeptRule(act[p].op, l, x, m) /\ l \in Label /\ m \in Label /\ KnowsKept(p, l.now)
  BY DEF KeptGoes
<1>2. KeptNeeds(act[p].op, x) = Calmly /\ KeptGains(x) = {"probed"} /\ KeptLoses(x) = {}
      /\ x[1] \in Inserting /\ x[1] \in Scanning /\ x[1] \notin Catchers /\ ~Anyway(l, x)
      /\ Asks(x) = {"boost", "sys"}
  BY DEF KeptNeeds, KeptGains, KeptLoses, CallNeeds, CallGains, FileWords, Inserting, Scanning, Catchers, Anyway, Asks
<1> HIDE DEF x
<1>3. Calmly \subseteq l.now /\ l.now \subseteq Ground /\ Ground \subseteq l.then
      /\ m.now \subseteq l.now \cup {"probed"} /\ m.then = l.then
  BY <1>1, <1>2 DEF KeptRule
<1>4. m.now \subseteq Ground
  BY <1>3 DEF Ground
<1>5. l.now \in SUBSET Claims /\ m.now \in SUBSET Claims /\ l.then \in SUBSET Claims
      /\ l = Knowing(l.now, l.then) /\ m = Knowing(m.now, m.then)
  BY <1>1, LabelParts
<1>6. {"boost", "sys"} \subseteq Touches(act[p].op) /\ On("sys", p)
  BY <1>2 DEF On, x
<1>7. SysGate => SysCalm
  <2>1. "calm" \in l.now
    BY <1>3 DEF Calmly
  <2> QED
    BY <1>1, <1>6, <2>1 DEF KnowsKept, SysPart, KnowsSys
<1> QED
  BY <1>1, <1>3, <1>4, <1>5, <1>6, <1>7

(* Loading the fingerprint. *)
LEMMA KeptLoadSys ==
    ASSUME TypeInv, KeptInv, NEW p \in Procs, LoadSys(p)
    PROVE  KeptInv'
<1> DEFINE R == KeptRules(act[p].op)
<1>0. act[p].todo # <<>> /\ Head(act[p].todo)[1] = "loadSys"
  BY LoadSysEffect, AtHead
<1>1. act[p] \in ActType /\ act[p].op # "idle" /\ act[p].op \in Ops /\ <<>> \in Seq(Steps)
      /\ Asks(Head(act[p].todo)) \subseteq Touches(act[p].op)
      /\ \E l, m, e \in Label : KeptGoes(p, l, m, e)
  BY <1>0, TypeHere, KeptHere
<1>2. PICK l, m, e \in Label : KeptGoes(p, l, m, e)
  BY <1>1
<1>3. /\ Calmly \subseteq l.now /\ l.now \subseteq Ground /\ Ground \subseteq l.then
      /\ m.now \subseteq l.now \cup {"probed"} /\ m.then = l.then /\ m.now \subseteq Ground
      /\ l.now \in SUBSET Claims /\ m.now \in SUBSET Claims /\ l.then \in SUBSET Claims
      /\ l = Knowing(l.now, l.then) /\ m = Knowing(m.now, l.then) /\ l \in Label /\ m \in Label
      /\ {"boost", "sys"} \subseteq Touches(act[p].op) /\ On("sys", p)
      /\ SysGate => SysCalm
  BY <1>0, <1>1, <1>2, KeptAtLoad
<1> HIDE DEF R
<1>4. ASSUME NEW c \in Silicon, Got(p, [act[p] EXCEPT !.sys = c], <<>>), SysGate => c = "probed"
      PROVE  KeptInv'
  BY <1>0, <1>2, <1>3, <1>4, KeptFound
<1>5. ASSUME Got(p, act[p], AutoCalibrate \o <<Do("loadSys")>>)
      PROVE  KeptInv'
  <2>1. Path(R, AutoCalibrate, l, l)
    <3>1. l.now \subseteq l.now \cup {"mine", "probed"}
      OBVIOUS
    <3> QED
      BY <1>3, <3>1, KeptAutoCalibrate DEF R
  <2>2. Do("loadSys") \in Steps /\ <<l, Do("loadSys"), m>> \in R
    <3>1. "loadSys" \in Scanning /\ m.now \subseteq l.now \cup {"probed"}
      BY <1>3 DEF Scanning
    <3> QED
      BY <1>3, <3>1, KeptScan DEF R
  <2>3. Path(R, <<Do("loadSys")>>, l, m)
    BY <1>3, <2>2, PathOne
  <2>4. Path(R, AutoCalibrate \o <<Do("loadSys")>>, l, m)
    BY <2>1, <2>3, PathCat
  <2>5. AutoCalibrate \o <<Do("loadSys")>> \in Seq(Steps)
    BY <2>4 DEF Path
  <2>6. "probed" \in l.now => "probed" \in l.now /\ act[p].sys = act[p].sys
    OBVIOUS
  <2> DEFINE more == AutoCalibrate \o <<Do("loadSys")>>
  <2>7. more \in Seq(Steps) /\ Got(p, act[p], more) /\ Path(KeptRules(act[p].op), more, l, m)
    BY <1>5, <2>4, <2>5 DEF R
  <2> HIDE DEF more
  <2> QED
    BY <1>0, <1>1, <1>2, <1>3, <2>6, <2>7, KeptGotSys
<1>6. ASSUME ~SysGate, NEW more \in {Heal, Heal \o <<Do("catch"), Do("orBlank")>>}, Got(p, act[p], more)
      PROVE  KeptInv'
  <2> DEFINE k == Knowing({"lost"}, l.then)
  <2>1. k \in Label /\ {"lost"} \in SUBSET Claims
    <3>1. {"lost"} \in SUBSET Claims
      BY KeptClaims
    <3> QED
      BY <1>3, <3>1, KnowingLabel
  <2>2. Path(R, Heal, k, m)
    BY <1>3, KeptHeal DEF R
  <2>3. Path(R, <<Do("catch"), Do("orBlank")>>, m, m)
    <3>1. Do("catch") \in Steps /\ <<m, Do("catch"), m>> \in R
      <4>1. "catch" \in Catchers /\ m.now \subseteq l.then
        BY <1>3 DEF Catchers
      <4> QED
        BY <1>3, <4>1, KeptCatch DEF R
    <3>2. Do("orBlank") \in Steps /\ <<m, Do("orBlank"), m>> \in R
      <4>1. "orBlank" \in Quietly /\ m.now \subseteq m.now \cup {}
        BY DEF Quietly
      <4> QED
        BY <1>3, <4>1, KeptQuietly DEF R
    <3> QED
      BY <1>3, <3>1, <3>2, PathTwo
  <2> HIDE DEF k
  <2>4. Path(R, Heal \o <<Do("catch"), Do("orBlank")>>, k, m)
    BY <2>2, <2>3, PathCat
  <2>5. Path(KeptRules(act[p].op), more, k, m)
    BY <1>6, <2>2, <2>4 DEF R
  <2>6. more \in Seq(Steps)
    BY <2>5 DEF Path
  <2>7. Continue(p, act[p], more) /\ UNCHANGED file /\ UNCHANGED history
    BY <1>6 DEF Got
  <2>8. Moved(p, more)
    BY <1>0, <1>1, <2>6, <2>7, MovedBy
  <2>9. Unwritten /\ HistoryKept /\ ok'["sys"] = ok["sys"] /\ act'[p].op = act[p].op
    BY <2>7, <2>8 DEF Unwritten, HistoryKept, StoreKept, history, Moved
  <2>10. KnowsKept(p, k.now)'
    BY <1>1, <1>3, <1>6, <2>9, KnownNothing
  <2> QED
    BY <1>1, <1>2, <2>1, <2>5, <2>8, <2>9, <2>10, KeptUnwritten, KeptMoved
<1>7. CASE SysGate
  <2>1. "probed" \in Silicon
    BY DEF Silicon
  <2> QED
    BY <1>3, <1>4, <1>5, <1>7, <2>1, CalmLoad
<1>8. CASE ~SysGate
  <2>1. \E more \in SysLoads :
          \/ \E c \in Silicon : Got(p, [act[p] EXCEPT !.sys = c], more) /\ more = <<>>
          \/ Got(p, act[p], more) /\ more # <<>>
    BY LoadSysEffect
  <2>2. PICK more \in SysLoads :
          \/ \E c \in Silicon : Got(p, [act[p] EXCEPT !.sys = c], more) /\ more = <<>>
          \/ Got(p, act[p], more) /\ more # <<>>
    BY <2>1
  <2>3. CASE \E c \in Silicon : Got(p, [act[p] EXCEPT !.sys = c], more) /\ more = <<>>
    BY <1>4, <1>8, <2>3
  <2>4. CASE Got(p, act[p], more) /\ more # <<>>
    <3>1. more \in {Heal, Heal \o <<Do("catch"), Do("orBlank")>>} \/ more = AutoCalibrate \o <<Do("loadSys")>>
      BY <2>4 DEF SysLoads
    <3> QED
      BY <1>5, <1>6, <1>8, <2>4, <3>1
  <2> QED
    BY <2>2, <2>3, <2>4
<1> QED
  BY <1>7, <1>8

-----------------------------------------------------------------------------
(* Loading the settings *)

(* What is on the way of a load of a setting. *)
LEMMA KeptAtSetting ==
    ASSUME NEW p \in Procs, NEW l, NEW m, NEW e, KeptGoes(p, l, m, e),
           NEW s \in Settings, Head(act[p].todo)[1] = IF s = "perm" THEN "loadPerm" ELSE "loadBoost",
           Asks(Head(act[p].todo)) \subseteq Touches(act[p].op)
    PROVE  /\ Calmly \subseteq l.now /\ l.now \subseteq Ground
           /\ m.now \subseteq l.now \cup {"mine"} /\ m.then = l.then
           /\ l.now \in SUBSET Claims /\ m.now \in SUBSET Claims /\ l.then \in SUBSET Claims
           /\ l = Knowing(l.now, l.then) /\ m = Knowing(m.now, l.then) /\ l \in Label /\ m \in Label
           /\ s \in Touches(act[p].op) /\ On(s, p) /\ StoreOf(act[p].op) = s
<1> DEFINE x == Head(act[p].todo)
<1>1. KeptRule(act[p].op, l, x, m) /\ l \in Label /\ m \in Label
  BY DEF KeptGoes
<1>2. x[1] \in {"loadPerm", "loadBoost"}
  OBVIOUS
<1>3. KeptNeeds(act[p].op, x) = Calmly /\ KeptGains(x) = {"mine"} /\ KeptLoses(x) = {}
      /\ x[1] \in Inserting /\ x[1] \notin Catchers /\ ~Anyway(l, x)
  BY <1>2 DEF KeptNeeds, KeptGains, KeptLoses, CallNeeds, CallGains, FileWords, Inserting, Catchers, Anyway
<1>4. s \in Asks(x)
  BY DEF Asks, Settings
<1> HIDE DEF x
<1>5. Calmly \subseteq l.now /\ l.now \subseteq Ground
      /\ m.now \subseteq l.now \cup {"mine"} /\ m.then = l.then
  BY <1>1, <1>3 DEF KeptRule
<1>6. l.now \in SUBSET Claims /\ m.now \in SUBSET Claims /\ l.then \in SUBSET Claims
      /\ l = Knowing(l.now, l.then) /\ m = Knowing(m.now, m.then)
  BY <1>1, LabelParts
<1>7. s \in Touches(act[p].op) /\ On(s, p)
  BY <1>4 DEF On, x
<1> QED
  BY <1>1, <1>5, <1>6, <1>7, StoreOn

(* p takes what a load gives now. *)
LEMMA KeptTaken ==
    ASSUME TypeInv, KeptInv, NEW p \in Procs, act[p].todo # <<>>, NEW s \in Settings, StoreOf(act[p].op) = s,
           NEW a \in ActType, a.op = act[p].op, a.todo = act[p].todo, a.sys = act[p].sys,
           a[s] = Effective(s), NEW more \in Seq(Steps), Got(p, a, more),
           NEW l, NEW m, NEW e, KeptGoes(p, l, m, e), "even" \in l.now, l.now \subseteq Ground,
           NEW k \in Label, k.now \subseteq l.now \cup {"mine"}, Path(KeptRules(act[p].op), more, k, m)
    PROVE  KeptInv'
<1>1. Continue(p, a, more) /\ UNCHANGED file /\ UNCHANGED history
  BY DEF Got
<1>2. Moved(p, more) /\ act'[p].perm = a.perm /\ act'[p].boost = a.boost /\ act'[p].sys = a.sys
  BY <1>1, MovedBy
<1>3. Unwritten /\ HistoryKept /\ ok'["sys"] = ok["sys"] /\ StoreKept("sys") /\ StoreKept(s) /\ ok'[s] = ok[s]
      /\ act'[p].op = act[p].op /\ act'[p][s] = a[s]
  BY <1>1, <1>2 DEF Unwritten, HistoryKept, StoreKept, history, Moved, Settings
<1>4. SysPart(p, l.now) /\ SetPart(p, l.now) /\ LostPart(p, l.now)
  BY DEF KeptGoes, KnowsKept
<1>5. SysPart(p, k.now)'
  <2>1. k.now \cap FileClaims \subseteq l.now \cup {"probed"} /\ ("probed" \in k.now => "probed" \in l.now)
    BY DEF FileClaims
  <2> QED
    BY <1>2, <1>3, <1>4, <2>1, KnownSys
<1>6. SetPart(p, k.now)'
  <2>1. k.now \cap SettingClaims \subseteq l.now \cup {"mine"}
    OBVIOUS
  <2>2. k.now \cap {"meant", "same", "both"} = {} /\ "meant" \notin k.now
    BY DEF Ground
  <2>3. SetGate(s) /\ On(s, p) => act'[p][s] \in ok[s]
    BY <1>3, <1>4 DEF SetPart, KnowsSet, Even
  <2> QED
    BY <1>3, <1>4, <2>1, <2>2, <2>3, KnownSet
<1>7. LostPart(p, k.now)'
  <2>1. "lost" \notin k.now
    BY DEF Ground
  <2> QED
    BY <1>3, <1>4, <2>1, KnownLost
<1>8. KnowsKept(p, k.now)'
  BY <1>5, <1>6, <1>7 DEF KnowsKept
<1>9. act[p].op # "idle"
  BY KeptHere
<1> QED
  BY <1>2, <1>3, <1>8, <1>9, KeptUnwritten, KeptMoved

(* What was found of the setting, where it is saved, or not. *)
LEMMA KeptLoading ==
    ASSUME TypeInv, KeptInv, NEW p \in Procs, act[p].todo # <<>>, NEW s \in Settings,
           Head(act[p].todo)[1] = IF s = "perm" THEN "loadPerm" ELSE "loadBoost",
           NEW a \in ActType, a.op = act[p].op, a.todo = act[p].todo, a.sys = act[p].sys,
           a[s] = Effective(s), NEW more \in {<<>>, SavePlain(s), <<<<"remove", s, "bin">>>>},
           Got(p, a, more)
    PROVE  KeptInv'
<1> DEFINE R == KeptRules(act[p].op)
<1>1. Asks(Head(act[p].todo)) \subseteq Touches(act[p].op) /\ \E l, m, e \in Label : KeptGoes(p, l, m, e)
  BY KeptHere
<1>2. PICK l, m, e \in Label : KeptGoes(p, l, m, e)
  BY <1>1
<1>3. /\ Calmly \subseteq l.now /\ l.now \subseteq Ground
      /\ m.now \subseteq l.now \cup {"mine"} /\ m.then = l.then
      /\ l.now \in SUBSET Claims /\ m.now \in SUBSET Claims /\ l.then \in SUBSET Claims
      /\ l = Knowing(l.now, l.then) /\ m = Knowing(m.now, l.then) /\ l \in Label /\ m \in Label
      /\ s \in Touches(act[p].op) /\ On(s, p) /\ StoreOf(act[p].op) = s
  BY <1>1, <1>2, KeptAtSetting
<1>4. "even" \in l.now
  BY <1>3 DEF Calmly
<1> HIDE DEF R
<1>5. CASE more = <<>>
  <2>1. Path(R, <<>>, m, m) /\ <<>> \in Seq(Steps)
    BY <1>3, KeptPathNil
  <2> QED
    BY <1>2, <1>3, <1>4, <1>5, <2>1, KeptTaken DEF R
<1>6. CASE more = SavePlain(s)
  <2> DEFINE N == l.now \cup {"mine"}
             k == Knowing(N, l.then)
  <2>1. N \in SUBSET Claims /\ {"even", "mine"} \subseteq N
        /\ m.now \subseteq (N \ OfSetting) \cup {"even", "same", "both"}
    BY <1>3, <1>4, KeptClaims DEF Ground, OfSetting
  <2>2. k \in Label /\ k.now = N
    BY <1>3, <2>1, KnowingLabel
  <2>3. Path(R, SavePlain(s), k, m)
    <3> HIDE DEF N
    <3> QED
      BY <1>3, <2>1, KeptSaveSet DEF R
  <2>4. SavePlain(s) \in Seq(Steps)
    BY <2>3 DEF Path
  <2> HIDE DEF k
  <2>5. k.now \subseteq l.now \cup {"mine"}
    BY <2>1, <2>2
  <2> HIDE DEF N
  <2> QED
    BY <1>2, <1>3, <1>4, <1>6, <2>2, <2>3, <2>4, <2>5, KeptTaken DEF R
<1>7. CASE more = <<<<"remove", s, "bin">>>>
  <2> DEFINE N == l.now \cup {"mine"}
             k == Knowing(N, l.then)
             y == <<"remove", s, "bin">>
  <2>1. N \in SUBSET Claims /\ SetNeeds("remove", "bin") \subseteq N
        /\ m.now \subseteq (N \ OfSetting) \cup SetGains("remove", "bin")
    BY <1>3, <1>4, KeptClaims DEF Ground, OfSetting, SetNeeds, SetGains, Claims, SettingClaims
  <2>2. k \in Label /\ k.now = N
    BY <1>3, <2>1, KnowingLabel
  <2>3. y \in Steps /\ <<k, y, m>> \in R
    <3> HIDE DEF N
    <3> QED
      BY <1>3, <2>1, KeptSetFile DEF R
  <2> HIDE DEF k, y
  <2>4. Path(R, <<y>>, k, m) /\ <<y>> \in Seq(Steps)
    BY <1>3, <2>2, <2>3, PathOne, OneStep
  <2>5. more = <<y>>
    BY <1>7 DEF y
  <2>6. k.now \subseteq l.now \cup {"mine"}
    BY <2>2
  <2> HIDE DEF N
  <2> QED
    BY <1>2, <1>3, <1>4, <2>2, <2>4, <2>5, <2>6, KeptTaken DEF R
<1> QED
  BY <1>5, <1>6, <1>7

(* Loading the permissions. *)
LEMMA KeptLoadPerm ==
    ASSUME TypeInv, KeptInv, NEW p \in Procs, LoadPerm(p)
    PROVE  KeptInv'
<1> DEFINE c == IF Whole(<<"perm", "json">>) THEN file[<<"perm", "json">>] ELSE PermDefault
           more == IF file[<<"perm", "json">>] = Absent THEN SavePlain("perm") ELSE <<>>
           a == [act[p] EXCEPT !.perm = c]
<1>0. At(p, "loadPerm") /\ Got(p, a, more)
  BY DEF LoadPerm, Turn
<1>1. act[p].todo # <<>> /\ Head(act[p].todo)[1] = "loadPerm"
  BY <1>0, AtHead
<1>2. c = Effective("perm")
  BY DEF Effective, Default
<1>3. c \in PermControl
  <2>1. <<"perm", "json">> \in Files
    BY KeptFiles DEF Settings
  <2>2. file[<<"perm", "json">>] \in FileType("perm")
    BY <2>1 DEF TypeInv, Types, FileTypes
  <2> QED
    BY <2>2, DefaultsTyped DEF FileType, Whole
<1>4. a \in ActType /\ a.op = act[p].op /\ a.todo = act[p].todo /\ a.sys = act[p].sys /\ a["perm"] = c
  <2>1. act[p] \in ActType
    BY <1>1, TypeHere
  <2> HIDE DEF c
  <2> QED
    BY <1>3, <2>1 DEF ActType
<1>5. more \in {<<>>, SavePlain("perm"), <<<<"remove", "perm", "bin">>>>} /\ "perm" \in Settings
  BY DEF Settings
<1> HIDE DEF a, c, more
<1> QED
  BY <1>0, <1>1, <1>2, <1>4, <1>5, KeptLoading

(* Loading the booster. *)
LEMMA KeptLoadBoost ==
    ASSUME TypeInv, KeptInv, NEW p \in Procs, LoadBoost(p)
    PROVE  KeptInv'
<1> DEFINE json == <<"boost", "json">>
<1>0. At(p, "loadBoost")
  BY DEF LoadBoost, Turn
<1>1. act[p].todo # <<>> /\ Head(act[p].todo)[1] = "loadBoost"
  BY <1>0, AtHead
<1>2. "boost" \in Settings /\ json \in Files
  BY KeptFiles DEF Settings
<1>3. file[json] \in FileType("boost")
  BY <1>2 DEF TypeInv, Types, FileTypes
<1>4. ASSUME NEW c \in BoosterControl, c = Effective("boost"),
             NEW more \in {<<>>, SavePlain("boost"), <<<<"remove", "boost", "bin">>>>},
             Got(p, [act[p] EXCEPT !.boost = c], more)
      PROVE  KeptInv'
  <2> DEFINE a == [act[p] EXCEPT !.boost = c]
  <2>1. a \in ActType /\ a.op = act[p].op /\ a.todo = act[p].todo /\ a.sys = act[p].sys /\ a["boost"] = c
    <3>1. act[p] \in ActType
      BY <1>1, TypeHere
    <3> QED
      BY <3>1 DEF ActType
  <2>2. Got(p, a, more)
    BY <1>4
  <2> HIDE DEF a
  <2> QED
    BY <1>1, <1>2, <1>4, <2>1, <2>2, KeptLoading
<1>5. CASE Whole(json)
  <2>1. Got(p, [act[p] EXCEPT !.boost = file[json]], SavePlain("boost"))
    BY <1>5 DEF LoadBoost
  <2>2. file[json] \in BoosterControl /\ file[json] = Effective("boost")
    BY <1>3, <1>5 DEF FileType, Whole, Effective
  <2> QED
    BY <1>4, <2>1, <2>2
<1>6. CASE ~Whole(json)
  <2>1. \/ Got(p, [act[p] EXCEPT !.boost = BoosterDefault], <<>>)
        \/ Got(p, [act[p] EXCEPT !.boost = BoosterDefault], <<<<"remove", "boost", "bin">>>>)
    BY <1>6 DEF LoadBoost
  <2>2. BoosterDefault \in BoosterControl /\ BoosterDefault = Effective("boost")
    BY <1>6, DefaultsTyped DEF Effective, Default
  <2> QED
    BY <1>4, <2>1, <2>2
<1> QED
  BY <1>5, <1>6

-----------------------------------------------------------------------------
(* Writing the settings *)

(* Values that a setting may have are no empty files. *)
LEMMA OkWhole ==
    ASSUME TypeInv, NEW s \in Settings, NEW v \in ok[s]
    PROVE  v \notin {Absent, Torn}
  BY GovernorAssumption DEF TypeInv, Types, OkTypes, Settings

(* What is on the way where a file of a setting is written. *)
LEMMA KeptAtFile ==
    ASSUME TypeInv, NEW p \in Procs, NEW l, NEW m, NEW e, KeptGoes(p, l, m, e),
           act[p].todo # <<>>, NEW s \in Settings, Head(act[p].todo)[2] = s,
           NEW what \in {"open", "fill", "remove"}, Head(act[p].todo)[1] = what,
           Asks(Head(act[p].todo)) \subseteq Touches(act[p].op)
    PROVE  LET x == Head(act[p].todo) IN
           /\ x[3] \in {"json", "bin"} /\ Target(p) = <<s, x[3]>>
           /\ what = "remove" => x[3] = "bin"
           /\ SetNeeds(what, x[3]) \subseteq l.now
           /\ m.now \subseteq (l.now \ OfSetting) \cup SetGains(what, x[3])
           /\ On(s, p) /\ StoreOf(act[p].op) = s /\ act[p].op # "idle" /\ m \in Label
           /\ SetGate(s) => KnowsSet(s, p, l.now)
           /\ s \in Settings /\ <<s, x[3]>> \in Files
<1> DEFINE x == Head(act[p].todo)
<1>1. KeptRule(act[p].op, l, x, m) /\ m \in Label /\ KnowsKept(p, l.now)
  BY DEF KeptGoes
<1>2. x[3] \in {"json", "bin"} /\ (what = "remove" => x[3] = "bin") /\ act[p].op # "idle"
  <2>1. act[p].op # "idle" /\ \E a, b, c \in Label : Goes(p, a, b, c)
    BY TypeHere
  <2>2. PICK a, b, c \in Label : Goes(p, a, b, c)
    BY <2>1
  <2>3. Fits(act[p].op, x)
    BY <2>2 DEF Goes, TypeRule
  <2>4. what \in {"open", "fill"} => <<s, x[3]>> \in Files
    BY <2>3 DEF Fits
  <2>5. what \in {"open", "fill"} => x[3] \in {"json", "bin"}
    BY <2>4 DEF Files, Settings
  <2>6. what = "remove" => x[3] = "bin"
    BY <2>3 DEF Fits
  <2> QED
    BY <2>1, <2>5, <2>6
<1>3. KeptNeeds(act[p].op, x) = SetNeeds(what, x[3]) /\ KeptGains(x) = SetGains(what, x[3])
      /\ KeptLoses(x) = OfSetting /\ ~Anyway(l, x) /\ Asks(x) = {s}
  BY DEF KeptNeeds, KeptGains, KeptLoses, FileWords, Anyway, Settings, Asks
<1>4. Target(p) = <<s, x[3]>>
  BY DEF Target
<1> HIDE DEF x
<1>5. SetNeeds(what, x[3]) \subseteq l.now /\ m.now \subseteq (l.now \ OfSetting) \cup SetGains(what, x[3])
  BY <1>1, <1>3 DEF KeptRule
<1>6. On(s, p)
  BY <1>3 DEF On, x
<1>7. StoreOf(act[p].op) = s
  BY <1>6, StoreOn
<1>8. SetGate(s) => KnowsSet(s, p, l.now)
  BY <1>1, <1>6, <1>7 DEF KnowsKept, SetPart
<1>9. <<s, x[3]>> \in Files
  BY <1>2, KeptFiles
<1> QED
  BY <1>1, <1>2, <1>4, <1>5, <1>6, <1>7, <1>8, <1>9 DEF x

(* A file of a setting is written. *)
LEMMA KeptSetWrote ==
    ASSUME TypeInv, KeptInv, NEW p \in Procs, act[p].todo # <<>>, NEW s \in Settings, On(s, p),
           NEW f \in Files, f[1] = s, NEW c, file' = [file EXCEPT ![f] = c],
           Continue(p, act[p], <<>>), UNCHANGED history,
           NEW l, NEW m, NEW e, KeptGoes(p, l, m, e), m.now \cap FileClaims \subseteq l.now,
           SetGate(s) => /\ KnowsSet(s, p, m.now)'
                         /\ Held(s)'
    PROVE  KeptInv'
<1>1. act[p] \in ActType /\ <<>> \in Seq(Steps) /\ act[p].op # "idle"
  BY TypeHere
<1>2. Moved(p, <<>>) /\ act'[p].sys = act[p].sys /\ act'[p].op = act[p].op
  BY <1>1, MovedBy DEF Moved
<1>3. HistoryKept /\ UNCHANGED ok /\ ok'["sys"] = ok["sys"]
  BY DEF HistoryKept, history
<1>4. StoreKept("sys")
  BY SettingFile
<1>5. \A r \in Settings : r # s => StoreKept(r)
  BY DEF TypeInv, Types, FileTypes, StoreKept
<1>6. Touched(p)
  BY <1>3, <1>4, <1>5 DEF Touched
<1>7. Leaves(p)
  <2>1. Safe' = Safe
    BY <1>3, <1>4, SysStays
  <2>2. \A r \in Settings : On(r, p) => r = s
    BY StoreOn
  <2>3. \A r \in Settings : SetGate(r) /\ On(r, p) => Held(r)'
    BY <2>2
  <2> QED
    BY <2>1, <2>3 DEF Leaves, KeptInv, SysFacts
<1>8. KnowsKept(p, m.now)'
  <2>1. KnowsKept(p, l.now)
    BY DEF KeptGoes
  <2>2. SysPart(p, m.now)'
    <3>1. "probed" \in m.now => "probed" \in l.now
      BY DEF FileClaims
    <3> QED
      BY <1>2, <1>3, <1>4, <2>1, <3>1, KnownSys DEF KnowsKept
  <2>3. LostPart(p, m.now)'
    <3>1. "lost" \in m.now => "lost" \in l.now
      BY DEF FileClaims
    <3> QED
      BY <1>2, <1>3, <2>1, <3>1, KnownLost DEF KnowsKept
  <2>4. SetPart(p, m.now)'
    <3>1. StoreOf(act[p].op) = s
      BY StoreOn
    <3>2. StoreOf(act'[p].op) = s
      BY <1>2, <3>1
    <3>3. SetGate(s)' = SetGate(s)
      BY <1>3, GateStays
    <3> QED
      BY <3>2, <3>3 DEF SetPart
  <2> QED
    BY <2>2, <2>3, <2>4 DEF KnowsKept
<1>9. m \in Label
  BY DEF KeptGoes
<1>10. Path(KeptRules(act[p].op), <<>>, m, m)
  BY <1>9, KeptPathNil
<1> QED
  BY <1>1, <1>2, <1>6, <1>7, <1>8, <1>9, <1>10, KeptMoved

(* p and what it was asked to change are the same. *)
LEMMA SameSetting ==
    ASSUME TypeInv, NEW p \in Procs, act[p].todo # <<>>, Continue(p, act[p], <<>>), NEW s \in Settings
    PROVE  /\ act'[p][s] = act[p][s]
           /\ Intended(act[p].chg, act[p].base)' = Intended(act[p].chg, act[p].base)
<1>1. act[p] \in ActType /\ <<>> \in Seq(Steps)
  BY TypeHere
<1>2. act'[p].perm = act[p].perm /\ act'[p].boost = act[p].boost
      /\ act'[p].chg = act[p].chg /\ act'[p].base = act[p].base
  BY <1>1, MovedBy
<1>3. Intended(act[p].chg, act[p].base)' = Intended(act'[p].chg, act'[p].base)
  BY DEF Intended, Changed
<1> QED
  BY <1>2, <1>3 DEF Settings

(* A file of a setting is opened: it is empty. *)
LEMMA KeptOpenSet ==
    ASSUME TypeInv, KeptInv, NEW p \in Procs, act[p].todo # <<>>, NEW s \in Settings,
           Head(act[p].todo)[1] = "open", Head(act[p].todo)[2] = s, Open(p)
    PROVE  KeptInv'
<1> DEFINE x == Head(act[p].todo)
<1>1. Asks(x) \subseteq Touches(act[p].op) /\ \E l, m, e \in Label : KeptGoes(p, l, m, e)
  BY KeptHere
<1>2. PICK l, m, e \in Label : KeptGoes(p, l, m, e)
  BY <1>1
<1>w. "open" \in {"open", "fill", "remove"}
  OBVIOUS
<1>3. /\ x[3] \in {"json", "bin"} /\ Target(p) = <<s, x[3]>>
      /\ SetNeeds("open", x[3]) \subseteq l.now
      /\ m.now \subseteq (l.now \ OfSetting) \cup SetGains("open", x[3])
      /\ On(s, p) /\ SetGate(s) => KnowsSet(s, p, l.now)
      /\ <<s, x[3]>> \in Files
  BY <1>1, <1>2, <1>w, KeptAtFile
<1>o. On(s, p)
  BY <1>1, <1>2, <1>w, KeptAtFile
<1>4. Target(p) \notin locked
  BY <1>3 DEF TypeInv, Types, Settings
<1>5. file' = [file EXCEPT ![<<s, x[3]>>] = Torn] /\ Continue(p, act[p], <<>>) /\ UNCHANGED history
  BY <1>3, <1>4 DEF Open
<1> HIDE DEF x
<1>6. /\ file'[<<s, "json">>] = IF x[3] = "json" THEN Torn ELSE file[<<s, "json">>]
      /\ file'[<<s, "bin">>] = IF x[3] = "bin" THEN Torn ELSE file[<<s, "bin">>]
  <2>1. <<s, "json">> \in Files /\ <<s, "bin">> \in Files
    BY KeptFiles
  <2>2. DOMAIN file = Files /\ file = [f \in Files |-> file[f]]
    BY DEF TypeInv, Types, FileTypes
  <2>3. CASE x[3] = "json"
    <3>1. file' = [file EXCEPT ![<<s, "json">>] = Torn]
      BY <1>5, <2>3
    <3> QED
      BY <2>1, <2>2, <2>3, <3>1
  <2>4. CASE x[3] = "bin"
    <3>1. file' = [file EXCEPT ![<<s, "bin">>] = Torn]
      BY <1>5, <2>4
    <3> QED
      BY <2>1, <2>2, <2>4, <3>1
  <2> QED
    BY <1>3, <2>3, <2>4
<1>7. act'[p][s] = act[p][s] /\ Intended(act[p].chg, act[p].base)' = Intended(act[p].chg, act[p].base)
      /\ crashes' = crashes /\ ok' = ok
  BY <1>5, SameSetting DEF history
<1>8. ASSUME SetGate(s)
      PROVE  /\ KnowsSet(s, p, m.now)'
             /\ Held(s)'
  <2>1. KnowsSet(s, p, l.now) /\ "even" \in l.now /\ "mine" \in l.now
    BY <1>3, <1>8, <1>o DEF SetNeeds
  <2>2. Even(s) /\ act[p][s] \in ok[s]
    BY <2>1 DEF KnowsSet
  <2>3. CASE x[3] = "json"
    <3>1. m.now \cap SettingClaims \subseteq {"mine", "meant", "setTorn"} /\ ("meant" \in m.now => "meant" \in l.now)
      BY <1>3, <2>3 DEF SetGains, OfSetting, SettingClaims
    <3>3. file'[<<s, "json">>] = Torn
      BY <1>6, <2>3
    <3>4. KnowsSet(s, p, m.now)'
      BY <1>7, <2>1, <2>2, <3>1, <3>3 DEF KnowsSet, SettingClaims
    <3> QED
      BY <3>3, <3>4 DEF Held, Whole
  <2>4. CASE x[3] = "bin"
    <3>1. m.now \cap SettingClaims \subseteq {"mine", "meant", "setBinTorn", "same"} /\ ("meant" \in m.now => "meant" \in l.now)
          /\ "same" \in l.now
      BY <1>3, <2>4 DEF SetGains, SetNeeds, OfSetting, SettingClaims
    <3>2. file'[<<s, "bin">>] = Torn /\ file'[<<s, "json">>] = file[<<s, "json">>]
      BY <1>6, <2>4
    <3>3. Whole(<<s, "json">>) /\ file[<<s, "json">>] = act[p][s]
      BY <2>1, <3>1 DEF KnowsSet
    <3>4. KnowsSet(s, p, m.now)'
      BY <1>7, <2>1, <2>2, <3>1, <3>2, <3>3 DEF KnowsSet, SettingClaims, Whole
    <3> QED
      BY <1>7, <2>2, <3>2, <3>3, <3>4 DEF Held
  <2> QED
    BY <1>3, <2>3, <2>4
<1>9. m.now \cap FileClaims \subseteq l.now
  BY <1>3 DEF SetGains, FileClaims
<1>10. <<s, x[3]>>[1] = s
  OBVIOUS
<1> QED
  BY <1>2, <1>3, <1>o, <1>5, <1>8, <1>9, <1>10, KeptSetWrote

(* A file of a setting is filled with the copy that p has of it. *)
LEMMA KeptFillSet ==
    ASSUME TypeInv, KeptInv, NEW p \in Procs, act[p].todo # <<>>, NEW s \in Settings,
           Head(act[p].todo)[1] = "fill", Head(act[p].todo)[2] = s, Fill(p)
    PROVE  KeptInv'
<1> DEFINE x == Head(act[p].todo)
<1>1. Asks(x) \subseteq Touches(act[p].op) /\ \E l, m, e \in Label : KeptGoes(p, l, m, e)
  BY KeptHere
<1>2. PICK l, m, e \in Label : KeptGoes(p, l, m, e)
  BY <1>1
<1>w. "fill" \in {"open", "fill", "remove"}
  OBVIOUS
<1>3. /\ x[3] \in {"json", "bin"} /\ Target(p) = <<s, x[3]>>
      /\ SetNeeds("fill", x[3]) \subseteq l.now
      /\ m.now \subseteq (l.now \ OfSetting) \cup SetGains("fill", x[3])
      /\ On(s, p)
      /\ <<s, x[3]>> \in Files
  BY <1>1, <1>2, <1>w, KeptAtFile
<1>o. SetGate(s) => KnowsSet(s, p, l.now)
  BY <1>1, <1>2, <1>w, KeptAtFile
<1>4. Continue(p, act[p], <<>>) /\ UNCHANGED history
  BY DEF Fill
<1>5. PICK c : /\ file' = [file EXCEPT ![<<s, x[3]>>] = c]
               /\ file[<<s, x[3]>>] = Torn => c = act[p][s]
  <2>1. Target(p)[1] = s /\ Absent # Torn
    BY <1>3, GovernorAssumption
  <2>2. file' = [file EXCEPT ![Target(p)] = IF file[Target(p)] = Torn THEN act[p][Target(p)[1]] ELSE @]
        \/ \E c : file' = [file EXCEPT ![Target(p)] = c] /\ file[Target(p)] # Torn
    BY <2>1 DEF Fill
  <2>3. \E c : file' = [file EXCEPT ![Target(p)] = c] /\ (file[Target(p)] = Torn => c = act[p][Target(p)[1]])
    BY <2>2
  <2>4. \E c : file' = [file EXCEPT ![<<s, x[3]>>] = c] /\ (file[<<s, x[3]>>] = Torn => c = act[p][s])
    BY <1>3, <2>1, <2>3
  <2> QED
    BY <2>4
<1> HIDE DEF x
<1>6. /\ file'[<<s, "json">>] = IF x[3] = "json" THEN c ELSE file[<<s, "json">>]
      /\ file'[<<s, "bin">>] = IF x[3] = "bin" THEN c ELSE file[<<s, "bin">>]
  <2>1. <<s, "json">> \in Files /\ <<s, "bin">> \in Files
    BY KeptFiles
  <2>2. DOMAIN file = Files /\ file = [f \in Files |-> file[f]]
    BY DEF TypeInv, Types, FileTypes
  <2>3. CASE x[3] = "json"
    <3>1. file' = [file EXCEPT ![<<s, "json">>] = c]
      BY <1>5, <2>3
    <3> QED
      BY <2>1, <2>2, <2>3, <3>1
  <2>4. CASE x[3] = "bin"
    <3>1. file' = [file EXCEPT ![<<s, "bin">>] = c]
      BY <1>5, <2>4
    <3> QED
      BY <2>1, <2>2, <2>4, <3>1
  <2> QED
    BY <1>3, <2>3, <2>4
<1>7. act'[p][s] = act[p][s] /\ Intended(act[p].chg, act[p].base)' = Intended(act[p].chg, act[p].base)
      /\ crashes' = crashes /\ ok' = ok
  BY <1>4, SameSetting DEF history
<1>8. ASSUME SetGate(s)
      PROVE  /\ KnowsSet(s, p, m.now)'
             /\ Held(s)'
  <2>1. KnowsSet(s, p, l.now) /\ "mine" \in l.now
    BY <1>3, <1>8, <1>o DEF SetNeeds
  <2>2. act[p][s] \in ok[s]
    BY <2>1 DEF KnowsSet
  <2>w. act[p][s] \notin {Absent, Torn}
    BY <2>2, OkWhole
  <2>3. CASE x[3] = "json"
    <3>1. m.now \cap SettingClaims \subseteq {"mine", "meant", "even", "same"} /\ ("meant" \in m.now => "meant" \in l.now)
          /\ "setTorn" \in l.now
      BY <1>3, <2>3 DEF SetGains, SetNeeds, OfSetting, SettingClaims
    <3>2. file[<<s, "json">>] = Torn
      BY <2>1, <3>1 DEF KnowsSet
    <3>3. file'[<<s, "json">>] = act[p][s] /\ file'[<<s, "bin">>] = file[<<s, "bin">>]
      BY <1>5, <1>6, <2>3, <3>2
    <3>4. Whole(<<s, "json">>)' /\ Effective(s)' = act[p][s]
      BY <2>w, <3>3 DEF Effective, Whole
    <3>6. Even(s)'
      BY <1>7, <2>2, <3>4 DEF Even
    <3>7. KnowsSet(s, p, m.now)'
      BY <1>7, <2>1, <2>2, <3>1, <3>3, <3>4, <3>6 DEF KnowsSet, SettingClaims
    <3> QED
      BY <1>7, <2>2, <3>3, <3>7 DEF Held
  <2>4. CASE x[3] = "bin"
    <3>1. m.now \cap SettingClaims \subseteq {"mine", "meant", "even", "same", "both"} /\ ("meant" \in m.now => "meant" \in l.now)
          /\ {"same", "setBinTorn"} \subseteq l.now
      BY <1>3, <2>4 DEF SetGains, SetNeeds, OfSetting, SettingClaims
    <3>2. file[<<s, "bin">>] = Torn /\ file[<<s, "json">>] = act[p][s]
      BY <2>1, <3>1 DEF KnowsSet
    <3>3. file'[<<s, "bin">>] = act[p][s] /\ file'[<<s, "json">>] = act[p][s]
      BY <1>5, <1>6, <2>4, <3>2
    <3>4. Whole(<<s, "json">>)' /\ Whole(<<s, "bin">>)' /\ Effective(s)' = act[p][s]
      BY <2>w, <3>3 DEF Effective, Whole
    <3>6. Even(s)'
      BY <1>7, <2>2, <3>4 DEF Even
    <3>7. KnowsSet(s, p, m.now)'
      BY <1>7, <2>1, <2>2, <3>1, <3>3, <3>4, <3>6 DEF KnowsSet, SettingClaims
    <3> QED
      BY <1>7, <2>2, <3>3, <3>7 DEF Held
  <2> QED
    BY <1>3, <2>3, <2>4
<1>9. m.now \cap FileClaims \subseteq l.now
  BY <1>3 DEF SetGains, FileClaims
<1>10. <<s, x[3]>>[1] = s
  OBVIOUS
<1> QED
  BY <1>2, <1>3, <1>4, <1>5, <1>8, <1>9, <1>10, KeptSetWrote

(* The binary copy of a setting, which is of no use, is removed. *)
LEMMA KeptRemoveSet ==
    ASSUME TypeInv, KeptInv, NEW p \in Procs, act[p].todo # <<>>, NEW s \in Settings,
           Head(act[p].todo)[1] = "remove", Head(act[p].todo)[2] = s, RemoveFile(p)
    PROVE  KeptInv'
<1> DEFINE x == Head(act[p].todo)
<1>1. Asks(x) \subseteq Touches(act[p].op) /\ \E l, m, e \in Label : KeptGoes(p, l, m, e)
  BY KeptHere
<1>2. PICK l, m, e \in Label : KeptGoes(p, l, m, e)
  BY <1>1
<1>w. "remove" \in {"open", "fill", "remove"}
  OBVIOUS
<1>3. /\ x[3] = "bin" /\ Target(p) = <<s, x[3]>>
      /\ SetNeeds("remove", x[3]) \subseteq l.now
      /\ m.now \subseteq (l.now \ OfSetting) \cup SetGains("remove", x[3])
      /\ On(s, p)
      /\ <<s, x[3]>> \in Files
  BY <1>1, <1>2, <1>w, KeptAtFile
<1>o. SetGate(s) => KnowsSet(s, p, l.now)
  BY <1>1, <1>2, <1>w, KeptAtFile
<1>4. Continue(p, act[p], <<>>) /\ UNCHANGED history /\ file' = [file EXCEPT ![<<s, "bin">>] = Absent]
  BY <1>3 DEF RemoveFile
<1> HIDE DEF x
<1>6. file'[<<s, "json">>] = file[<<s, "json">>] /\ file'[<<s, "bin">>] = Absent
  <2>1. <<s, "json">> \in Files /\ <<s, "bin">> \in Files
    BY KeptFiles
  <2>2. DOMAIN file = Files /\ file = [f \in Files |-> file[f]]
    BY DEF TypeInv, Types, FileTypes
  <2> QED
    BY <1>4, <2>1, <2>2
<1>7. act'[p][s] = act[p][s] /\ Intended(act[p].chg, act[p].base)' = Intended(act[p].chg, act[p].base)
      /\ crashes' = crashes /\ ok' = ok
  BY <1>4, SameSetting DEF history
<1>8. ASSUME SetGate(s)
      PROVE  /\ KnowsSet(s, p, m.now)'
             /\ Held(s)'
  <2>1. KnowsSet(s, p, l.now) /\ "even" \in l.now
    BY <1>3, <1>8, <1>o DEF SetNeeds
  <2>2. Even(s)
    BY <2>1 DEF KnowsSet
  <2>4. Effective(s)' = Effective(s) /\ (Whole(<<s, "json">>)' => Effective(s)' = file'[<<s, "json">>])
    BY <1>6 DEF Effective, Whole, Default
  <2>5. Even(s)'
    BY <1>7, <2>2, <2>4 DEF Even
  <2>6. m.now \cap SettingClaims \subseteq {"mine", "meant", "even"}
        /\ ("meant" \in m.now => "meant" \in l.now) /\ ("mine" \in m.now => "mine" \in l.now)
    BY <1>3 DEF SetGains, OfSetting, SettingClaims
  <2>7. KnowsSet(s, p, m.now)'
    BY <1>7, <2>1, <2>5, <2>6 DEF KnowsSet, SettingClaims
  <2> QED
    BY <2>4, <2>5, <2>7 DEF Even, Held
<1>9. m.now \cap FileClaims \subseteq l.now
  BY <1>3 DEF SetGains, FileClaims
<1>10. <<s, "bin">>[1] = s /\ <<s, "bin">> \in Files
  BY <1>3
<1> QED
  BY <1>2, <1>3, <1>4, <1>8, <1>9, <1>10, KeptSetWrote

-----------------------------------------------------------------------------
(* Writing the fingerprint *)

(* What is on the way where a file of the fingerprint is written. *)
LEMMA KeptAtSys ==
    ASSUME TypeInv, NEW p \in Procs, NEW l, NEW m, NEW e, KeptGoes(p, l, m, e),
           act[p].todo # <<>>, Head(act[p].todo)[2] = "sys",
           NEW what \in FileWords, Head(act[p].todo)[1] = what,
           Asks(Head(act[p].todo)) \subseteq Touches(act[p].op)
    PROVE  LET x == Head(act[p].todo) IN
           /\ On("sys", p) /\ m \in Label /\ m.then = l.then
           /\ SysGate => /\ KnowsSys(p, l.now) /\ "lost" \notin l.now
                         /\ what # "remove" => SysNeeds(what, x[3]) \subseteq l.now
                         /\ what = "remove" => FALSE
                         /\ m.now \subseteq (l.now \ SysLoses(what, x[3])) \cup SysGains(what, x[3])
                         /\ Locks(x) => l.then \subseteq l.now \ {"probed"}
<1> DEFINE x == Head(act[p].todo)
<1>1. KeptRule(act[p].op, l, x, m) /\ m \in Label /\ KnowsKept(p, l.now)
  BY DEF KeptGoes
<1>2. /\ Asks(x) = {"sys"} /\ x[1] \notin Catchers
      /\ KeptNeeds(act[p].op, x) = SysNeeds(what, x[3]) /\ KeptGains(x) = SysGains(what, x[3])
      /\ KeptLoses(x) = SysLoses(what, x[3])
  BY DEF Asks, FileWords, Catchers, KeptNeeds, KeptGains, KeptLoses
<1>3. On("sys", p)
  BY <1>2 DEF On
<1> HIDE DEF x
<1>4. m.then = l.then
  BY <1>1, <1>2 DEF KeptRule
<1>5. ASSUME SysGate
      PROVE  /\ KnowsSys(p, l.now) /\ "lost" \notin l.now
             /\ SysNeeds(what, x[3]) \subseteq l.now
             /\ m.now \subseteq (l.now \ SysLoses(what, x[3])) \cup SysGains(what, x[3])
             /\ Locks(x) => l.then \subseteq l.now \ {"probed"}
  <2>1. KnowsSys(p, l.now) /\ "lost" \notin l.now
    BY <1>1, <1>3, <1>5 DEF KnowsKept, SysPart, LostPart
  <2>2. ~Anyway(l, x)
    BY <2>1 DEF Anyway
  <2> QED
    BY <1>1, <1>2, <2>1, <2>2 DEF KeptRule
<1>6. what = "remove" => SysNeeds(what, x[3]) = {"lost"}
  BY DEF SysNeeds
<1> QED
  BY <1>1, <1>3, <1>4, <1>5, <1>6 DEF x

(* A write to a file of the fingerprint leaves the settings. *)
LEMMA SysFile ==
    ASSUME TypeInv, NEW f \in Files, f[1] = "sys", NEW c, file' = [file EXCEPT ![f] = c]
    PROVE  StoreKept("perm") /\ StoreKept("boost") /\ \A s \in Settings : StoreKept(s)
<1>1. \A g \in Files : g # f => file'[g] = file[g]
  BY DEF TypeInv, Types, FileTypes
<1> QED
  BY <1>1 DEF StoreKept, Settings

(* What a step on the fingerprint leaves to be known of p. *)
LEMMA KeptSysKnown ==
    ASSUME TypeInv, KeptInv, NEW p \in Procs, On("sys", p), act[p].op \in Ops,
           act'[p].op = act[p].op, Copies(p),
           \A s \in Settings : StoreKept(s), UNCHANGED history,
           NEW N, NEW M, KnowsKept(p, N),
           SysGate => /\ KnowsSys(p, M)'
                      /\ M \cap (SettingClaims \cup {"lost"}) \subseteq N
                      /\ Sealed /\ crashes = 0 => Safe'
    PROVE  KnowsKept(p, M)' /\ Touched(p) /\ Leaves(p)
<1>1. HistoryKept /\ UNCHANGED ok /\ ok'["sys"] = ok["sys"] /\ \A s \in Settings : ok'[s] = ok[s]
  BY DEF HistoryKept, history
<1>2. Touched(p)
  BY <1>1 DEF Touched
<1>4. \A s \in Settings : SetGate(s) => Held(s)'
  BY <1>1, SetStays DEF KeptInv, SetFacts
<1>5. Leaves(p)
  BY <1>4 DEF Leaves
<1>6. KnowsKept(p, M)'
  <2>1. CASE ~SysGate
    BY <1>1, <2>1, KnownNothing
  <2>2. CASE SysGate
    <3>1. SysPart(p, N) /\ SetPart(p, N) /\ LostPart(p, N)
      BY DEF KnowsKept
    <3>2. SysPart(p, M)'
      BY <2>2 DEF SysPart
    <3>3. LostPart(p, M)'
      BY <1>1, <2>2, <3>1, KnownLost
    <3>4. SetPart(p, M)'
      <4>1. PICK s \in Settings : s = StoreOf(act[p].op)
        BY DEF StoreOf, Settings
      <4>2. M \cap SettingClaims \subseteq N
        BY <2>2
      <4>3. "mine" \in M => "mine" \in N
        BY <4>2 DEF SettingClaims
      <4>4. act'[p][s] = act[p][s] /\ act'[p].chg = act[p].chg /\ act'[p].base = act[p].base
        BY DEF Copies, Settings
      <4>5. "mine" \in M /\ SetGate(s) /\ On(s, p) =>
              act'[p][s] \in ok[s] \/ ("mine" \in N /\ act'[p][s] = act[p][s])
        BY <4>3, <4>4
      <4>6. StoreKept(s) /\ ok'[s] = ok[s] /\ M \cap SettingClaims \subseteq N \cup {"mine"}
        BY <1>1, <4>2
      <4> QED
        BY <1>1, <3>1, <4>1, <4>3, <4>4, <4>5, <4>6, KnownSet
    <3> QED
      BY <3>2, <3>3, <3>4 DEF KnowsKept
  <2> QED
    BY <2>1, <2>2
<1> QED
  BY <1>2, <1>5, <1>6

(* An error, where the fingerprint is written. *)
LEMMA KeptThrown ==
    ASSUME TypeInv, KeptInv, NEW p \in Procs, On("sys", p), act[p].op \in Ops, act[p].op # "idle",
           Throw(p), UNCHANGED file, UNCHANGED history,
           NEW l, NEW m, NEW e, KeptGoes(p, l, m, e), SysGate => l.then \subseteq l.now \ {"probed"}
    PROVE  KeptInv'
<1> DEFINE R == KeptRules(act[p].op)
<1>1. e \in Label /\ Calmly \subseteq e.now /\ e.now \subseteq e.then /\ Path(R, act[p].todo, l, e)
      /\ KnowsKept(p, l.now)
  BY DEF KeptGoes
<1>2. Throwing(R)
  BY KeptThrowing
<1> HIDE DEF R
<1>3. PICK a \in Label : a.now \subseteq l.then /\ Path(R, Caught(act[p].todo), a, e)
  BY <1>1, <1>2, PathCut
<1>4. act \in [Procs -> ActType]
  BY DEF TypeInv, Types, ActTypes
<1>5. Others(p) /\ act'[p].op = act[p].op /\ act'[p].todo = Caught(act[p].todo) /\ Copies(p)
  BY <1>4, ThrowEffect DEF Copies
<1>6. Unwritten
  BY DEF Unwritten, HistoryKept, StoreKept, history
<1>7. KnowsKept(p, a.now)'
  <2>1. CASE ~SysGate
    BY <1>5, <1>6, <2>1, KnownNothing DEF Unwritten
  <2>2. CASE SysGate
    <3>1. a.now \subseteq l.now \cup {"probed"} /\ "probed" \notin a.now
      BY <1>3, <2>2
    <3> QED
      BY <1>1, <1>5, <1>6, <3>1, KnownKept
  <2> QED
    BY <2>1, <2>2
<1>8. Touched(p) /\ Leaves(p)
  BY <1>6, KeptUnwritten
<1>9. Path(KeptRules(act[p].op), act'[p].todo, a, e)
  BY <1>3, <1>5 DEF R
<1> QED
  BY <1>1, <1>5, <1>7, <1>8, <1>9, KeptOn

(* A file of the fingerprint was written, and p goes on. *)
LEMMA KeptSysWrote ==
    ASSUME TypeInv, KeptInv, NEW p \in Procs, act[p].todo # <<>>, On("sys", p),
           NEW f \in Files, f[1] = "sys", NEW c, file' = [file EXCEPT ![f] = c],
           Continue(p, act[p], <<>>), UNCHANGED history,
           NEW l, NEW m, NEW e, KeptGoes(p, l, m, e),
           SysGate => /\ act'[p].sys = act[p].sys => KnowsSys(p, m.now)'
                      /\ m.now \cap (SettingClaims \cup {"lost"}) \subseteq l.now
                      /\ Sealed /\ crashes = 0 => Safe'
    PROVE  KeptInv'
<1>1. act[p] \in ActType /\ <<>> \in Seq(Steps) /\ act[p].op # "idle" /\ act[p].op \in Ops
  BY TypeHere
<1>2. Moved(p, <<>>) /\ act'[p].sys = act[p].sys /\ Copies(p) /\ act'[p].op = act[p].op
  BY <1>1, MovedBy DEF Moved, Copies
<1>3. m \in Label /\ Path(KeptRules(act[p].op), <<>>, m, m) /\ KnowsKept(p, l.now)
  BY KeptPathNil DEF KeptGoes
<1>4. \A s \in Settings : StoreKept(s)
  BY SysFile
<1>5. KnowsKept(p, m.now)' /\ Touched(p) /\ Leaves(p)
  BY <1>1, <1>2, <1>3, <1>4, KeptSysKnown
<1> QED
  BY <1>1, <1>2, <1>3, <1>5, KeptMoved

(* A file of the fingerprint is opened: it is empty, or it is read-only. *)
LEMMA KeptOpenSys ==
    ASSUME TypeInv, KeptInv, NEW p \in Procs, act[p].todo # <<>>,
           Head(act[p].todo)[1] = "open", Head(act[p].todo)[2] = "sys", Open(p)
    PROVE  KeptInv'
<1> DEFINE x == Head(act[p].todo)
           ext == x[3]
<1>1. act[p].op # "idle" /\ act[p].op \in Ops
      /\ Asks(x) \subseteq Touches(act[p].op) /\ \E l, m, e \in Label : KeptGoes(p, l, m, e)
  BY KeptHere
<1>2. PICK l, m, e \in Label : KeptGoes(p, l, m, e)
  BY <1>1
<1>w. "open" \in FileWords
  BY DEF FileWords
<1>3. /\ On("sys", p) /\ m.then = l.then
      /\ SysGate => /\ KnowsSys(p, l.now) /\ "lost" \notin l.now
                    /\ SysNeeds("open", ext) \subseteq l.now
                    /\ m.now \subseteq (l.now \ SysLoses("open", ext)) \cup SysGains("open", ext)
                    /\ Locks(x) => l.then \subseteq l.now \ {"probed"}
  BY <1>1, <1>2, <1>w, KeptAtSys
<1>4. ext \in {"json", "bin", "json.tmp", "bin.tmp"} /\ Target(p) = <<"sys", ext>>
  BY SysPlace
<1>5. CASE Target(p) \in locked
  <2>1. Throw(p) /\ UNCHANGED file /\ UNCHANGED history
    BY <1>5 DEF Open
  <2>2. ext \in {"json", "bin"}
    BY <1>4, <1>5 DEF TypeInv, Types
  <2>3. Locks(x)
    BY <2>2 DEF Locks
  <2> QED
    BY <1>1, <1>2, <1>3, <2>1, <2>3, KeptThrown
<1>6. CASE Target(p) \notin locked
  <2>1. file' = [file EXCEPT ![<<"sys", ext>>] = Torn] /\ Continue(p, act[p], <<>>) /\ UNCHANGED history
    BY <1>4, <1>6 DEF Open
  <2> HIDE DEF ext
  <2>2. \A y \in {"json", "bin", "json.tmp", "bin.tmp"} :
          file'[<<"sys", y>>] = IF y = ext THEN Torn ELSE file[<<"sys", y>>]
    BY <1>4, <2>1, SysWritten, ZenonT(60)
  <2>3. <<"sys", ext>> \in Files
    BY <1>4, KeptFiles
  <2>4. crashes' = crashes /\ Sealed' = Sealed
    BY <2>1 DEF history, Sealed
  <2>5. ASSUME SysGate
        PROVE  /\ act'[p].sys = act[p].sys => KnowsSys(p, m.now)'
               /\ m.now \cap (SettingClaims \cup {"lost"}) \subseteq l.now
               /\ Sealed /\ crashes = 0 => Safe'
    <3>1. KnowsSys(p, l.now) /\ SysNeeds("open", ext) \subseteq l.now /\ "lost" \notin l.now
          /\ m.now \subseteq (l.now \ SysLoses("open", ext)) \cup SysGains("open", ext)
      BY <1>3, <2>5
    <3>s. Sealed /\ crashes = 0 => Safe
      BY <2>5 DEF KeptInv, SysFacts
    <3>2. CASE ext = "json"
      <4>1. "calm" \in l.now /\ m.now \subseteq (l.now \ InPlace) \cup {"jsonTorn"}
        BY <3>1, <3>2 DEF SysNeeds, SysLoses, SysGains
      <4>2. SysCalm
        BY <3>1, <4>1 DEF KnowsSys
      <4>3. file'[<<"sys", "json">>] = Torn /\ file'[<<"sys", "bin">>] = file[<<"sys", "bin">>]
            /\ file'[<<"sys", "json.tmp">>] = file[<<"sys", "json.tmp">>]
            /\ file'[<<"sys", "bin.tmp">>] = file[<<"sys", "bin.tmp">>]
        BY <2>2, <3>2
      <4>4. act'[p].sys = act[p].sys => KnowsSys(p, m.now)'
        BY <2>4, <3>1, <4>1, <4>2, <4>3 DEF KnowsSys, SysCalm, Whole, InPlace
      <4> QED
        BY <3>1, <4>1, <4>2, <4>3, <4>4 DEF SysCalm, Safe, Whole, SettingClaims
    <3>3. CASE ext = "bin"
      <4>1. {"calm", "jsonWhole"} \subseteq l.now /\ m.now \subseteq (l.now \ InPlace) \cup {"binTorn"}
        BY <3>1, <3>3 DEF SysNeeds, SysLoses, SysGains
      <4>2. Whole(<<"sys", "json">>)
        BY <3>1, <4>1 DEF KnowsSys
      <4>3. file'[<<"sys", "bin">>] = Torn /\ file'[<<"sys", "json">>] = file[<<"sys", "json">>]
            /\ file'[<<"sys", "json.tmp">>] = file[<<"sys", "json.tmp">>]
            /\ file'[<<"sys", "bin.tmp">>] = file[<<"sys", "bin.tmp">>]
        BY <2>2, <3>3
      <4>4. act'[p].sys = act[p].sys => KnowsSys(p, m.now)'
        BY <2>4, <3>1, <4>1, <4>2, <4>3 DEF KnowsSys, Whole, InPlace
      <4> QED
        BY <3>1, <4>1, <4>2, <4>3, <4>4 DEF Safe, Whole, SettingClaims
    <3>4. CASE ext = "json.tmp"
      <4>1. m.now \subseteq (l.now \ {"tmpTorn", "tmpWhole"}) \cup {"tmpTorn"}
        BY <3>1, <3>4 DEF SysLoses, SysGains, OfTmp
      <4>2. file'[<<"sys", "bin">>] = file[<<"sys", "bin">>] /\ file'[<<"sys", "json">>] = file[<<"sys", "json">>]
            /\ file'[<<"sys", "json.tmp">>] = Torn
            /\ file'[<<"sys", "bin.tmp">>] = file[<<"sys", "bin.tmp">>]
        BY <2>2, <3>4
      <4>3. SysCalm' = SysCalm /\ Safe' = Safe
        BY <2>4, <4>2 DEF SysCalm, Safe, Whole
      <4>4. act'[p].sys = act[p].sys => KnowsSys(p, m.now)'
        BY <2>4, <3>1, <4>1, <4>2, <4>3 DEF KnowsSys, Whole
      <4> QED
        BY <3>1, <3>s, <4>1, <4>3, <4>4 DEF SettingClaims
    <3>5. CASE ext = "bin.tmp"
      <4>1. m.now \subseteq (l.now \ {"bintmpTorn", "bintmpWhole"}) \cup {"bintmpTorn"}
        BY <3>1, <3>5 DEF SysLoses, SysGains, OfTmp
      <4>2. file'[<<"sys", "bin">>] = file[<<"sys", "bin">>] /\ file'[<<"sys", "json">>] = file[<<"sys", "json">>]
            /\ file'[<<"sys", "bin.tmp">>] = Torn
            /\ file'[<<"sys", "json.tmp">>] = file[<<"sys", "json.tmp">>]
        BY <2>2, <3>5
      <4>3. SysCalm' = SysCalm /\ Safe' = Safe
        BY <2>4, <4>2 DEF SysCalm, Safe, Whole
      <4>4. act'[p].sys = act[p].sys => KnowsSys(p, m.now)'
        BY <2>4, <3>1, <4>1, <4>2, <4>3 DEF KnowsSys, Whole
      <4> QED
        BY <3>1, <3>s, <4>1, <4>3, <4>4 DEF SettingClaims
    <3> QED
      BY <1>4, <3>2, <3>3, <3>4, <3>5
  <2>6. <<"sys", ext>>[1] = "sys"
    OBVIOUS
  <2> QED
    BY <1>2, <1>3, <2>1, <2>3, <2>5, <2>6, KeptSysWrote
<1> QED
  BY <1>5, <1>6

-----------------------------------------------------------------------------
(* What p has of the fingerprint is no empty file. *)
LEMMA SysWhole ==
    ASSUME NEW a \in ActType PROVE a.sys \notin {Absent, Torn}
  BY GovernorAssumption DEF ActType

(* A file of the fingerprint is filled: where it was still empty, it is whole. *)
LEMMA KeptFillSys ==
    ASSUME TypeInv, KeptInv, NEW p \in Procs, act[p].todo # <<>>,
           Head(act[p].todo)[1] = "fill", Head(act[p].todo)[2] = "sys", Fill(p)
    PROVE  KeptInv'
<1> DEFINE x == Head(act[p].todo)
           ext == x[3]
<1>1. Asks(x) \subseteq Touches(act[p].op) /\ \E l, m, e \in Label : KeptGoes(p, l, m, e)
  BY KeptHere
<1>2. PICK l, m, e \in Label : KeptGoes(p, l, m, e)
  BY <1>1
<1>w. "fill" \in FileWords
  BY DEF FileWords
<1>3. /\ On("sys", p)
      /\ SysGate => /\ KnowsSys(p, l.now) /\ "lost" \notin l.now
                    /\ SysNeeds("fill", ext) \subseteq l.now
                    /\ m.now \subseteq (l.now \ SysLoses("fill", ext)) \cup SysGains("fill", ext)
  BY <1>1, <1>2, <1>w, KeptAtSys
<1>4. ext \in {"json", "bin", "json.tmp", "bin.tmp"} /\ Target(p) = <<"sys", ext>>
  BY SysPlace
<1>5. Continue(p, act[p], <<>>) /\ UNCHANGED history
  BY DEF Fill
<1>a. act[p].sys \notin {Absent, Torn}
  BY TypeHere, SysWhole
<1>6. PICK c : /\ file' = [file EXCEPT ![<<"sys", ext>>] = c]
               /\ file[<<"sys", ext>>] = Torn => c = act[p].sys
  <2>1. Target(p)[1] = "sys" /\ Absent # Torn
    BY <1>4, GovernorAssumption
  <2>2. \E c : file' = [file EXCEPT ![Target(p)] = c] /\ (file[Target(p)] = Torn => c = act[p][Target(p)[1]])
    BY <2>1 DEF Fill
  <2>3. \E c : file' = [file EXCEPT ![<<"sys", ext>>] = c] /\ (file[<<"sys", ext>>] = Torn => c = act[p].sys)
    BY <1>4, <2>1, <2>2
  <2> QED
    BY <2>3
<1> HIDE DEF ext
<1>7. \A y \in {"json", "bin", "json.tmp", "bin.tmp"} :
        file'[<<"sys", y>>] = IF y = ext THEN c ELSE file[<<"sys", y>>]
  BY <1>4, <1>6, SysWritten, ZenonT(60)
<1>8. <<"sys", ext>> \in Files
  BY <1>4, KeptFiles
<1>9. crashes' = crashes /\ Sealed' = Sealed
  BY <1>5 DEF history, Sealed
<1>10. ASSUME SysGate
       PROVE  /\ act'[p].sys = act[p].sys => KnowsSys(p, m.now)'
              /\ m.now \cap (SettingClaims \cup {"lost"}) \subseteq l.now
              /\ Sealed /\ crashes = 0 => Safe'
  <2>1. KnowsSys(p, l.now) /\ SysNeeds("fill", ext) \subseteq l.now /\ "lost" \notin l.now
        /\ m.now \subseteq (l.now \ SysLoses("fill", ext)) \cup SysGains("fill", ext)
    BY <1>3, <1>10
  <2>s. Sealed /\ crashes = 0 => Safe
    BY <1>10 DEF KeptInv, SysFacts
  <2>2. CASE ext = "json"
    <3>1. "jsonTorn" \in l.now /\ m.now \subseteq (l.now \ InPlace) \cup {"calm", "jsonWhole"}
      BY <2>1, <2>2 DEF SysNeeds, SysLoses, SysGains
    <3>2. file[<<"sys", "json">>] = Torn /\ (Sealed /\ crashes = 0 => Whole(<<"sys", "bin">>))
      BY <2>1, <3>1 DEF KnowsSys
    <3>3. file'[<<"sys", "json">>] = act[p].sys /\ file'[<<"sys", "bin">>] = file[<<"sys", "bin">>]
          /\ file'[<<"sys", "json.tmp">>] = file[<<"sys", "json.tmp">>]
          /\ file'[<<"sys", "bin.tmp">>] = file[<<"sys", "bin.tmp">>]
      BY <1>6, <1>7, <2>2, <3>2
    <3>4. Whole(<<"sys", "json">>)' /\ Safe'
      BY <1>a, <3>3 DEF Whole, Safe
    <3>5. SysCalm'
      BY <1>9, <1>a, <3>2, <3>3, <3>4 DEF SysCalm, Whole
    <3>6. act'[p].sys = act[p].sys => KnowsSys(p, m.now)'
      BY <1>9, <2>1, <3>1, <3>3, <3>4, <3>5 DEF KnowsSys, Whole, InPlace
    <3> QED
      BY <2>1, <3>1, <3>4, <3>6 DEF SettingClaims
  <2>3. CASE ext = "bin"
    <3>1. "binTorn" \in l.now /\ m.now \subseteq (l.now \ InPlace) \cup {"calm", "jsonWhole"}
      BY <2>1, <2>3 DEF SysNeeds, SysLoses, SysGains
    <3>2. file[<<"sys", "bin">>] = Torn /\ Whole(<<"sys", "json">>)
      BY <2>1, <3>1 DEF KnowsSys
    <3>3. file'[<<"sys", "bin">>] = act[p].sys /\ file'[<<"sys", "json">>] = file[<<"sys", "json">>]
          /\ file'[<<"sys", "json.tmp">>] = file[<<"sys", "json.tmp">>]
          /\ file'[<<"sys", "bin.tmp">>] = file[<<"sys", "bin.tmp">>]
      BY <1>6, <1>7, <2>3, <3>2
    <3>4. Whole(<<"sys", "json">>)' /\ Whole(<<"sys", "bin">>)' /\ Safe'
      BY <1>a, <3>2, <3>3 DEF Whole, Safe
    <3>5. SysCalm'
      BY <1>9, <3>4 DEF SysCalm, Whole
    <3>6. act'[p].sys = act[p].sys => KnowsSys(p, m.now)'
      BY <1>9, <2>1, <3>1, <3>3, <3>4, <3>5 DEF KnowsSys, Whole, InPlace
    <3> QED
      BY <2>1, <3>1, <3>4, <3>6 DEF SettingClaims
  <2>4. CASE ext = "json.tmp"
    <3>1. "tmpTorn" \in l.now /\ m.now \subseteq (l.now \ {"tmpTorn", "tmpWhole"}) \cup {"tmpWhole"}
      BY <2>1, <2>4 DEF SysNeeds, SysLoses, SysGains, OfTmp
    <3>2. file[<<"sys", "json.tmp">>] = Torn
      BY <2>1, <3>1 DEF KnowsSys
    <3>3. file'[<<"sys", "bin">>] = file[<<"sys", "bin">>] /\ file'[<<"sys", "json">>] = file[<<"sys", "json">>]
          /\ file'[<<"sys", "json.tmp">>] = act[p].sys
          /\ file'[<<"sys", "bin.tmp">>] = file[<<"sys", "bin.tmp">>]
      BY <1>6, <1>7, <2>4, <3>2
    <3>4. SysCalm' = SysCalm /\ Safe' = Safe
      BY <1>9, <3>3 DEF SysCalm, Safe, Whole
    <3>5. act'[p].sys = act[p].sys => KnowsSys(p, m.now)'
      BY <1>9, <1>a, <2>1, <3>1, <3>3, <3>4 DEF KnowsSys, Whole
    <3> QED
      BY <2>1, <2>s, <3>1, <3>4, <3>5 DEF SettingClaims
  <2>5. CASE ext = "bin.tmp"
    <3>1. "bintmpTorn" \in l.now /\ m.now \subseteq (l.now \ {"bintmpTorn", "bintmpWhole"}) \cup {"bintmpWhole"}
      BY <2>1, <2>5 DEF SysNeeds, SysLoses, SysGains, OfTmp
    <3>2. file[<<"sys", "bin.tmp">>] = Torn
      BY <2>1, <3>1 DEF KnowsSys
    <3>3. file'[<<"sys", "bin">>] = file[<<"sys", "bin">>] /\ file'[<<"sys", "json">>] = file[<<"sys", "json">>]
          /\ file'[<<"sys", "bin.tmp">>] = act[p].sys
          /\ file'[<<"sys", "json.tmp">>] = file[<<"sys", "json.tmp">>]
      BY <1>6, <1>7, <2>5, <3>2
    <3>4. SysCalm' = SysCalm /\ Safe' = Safe
      BY <1>9, <3>3 DEF SysCalm, Safe, Whole
    <3>5. act'[p].sys = act[p].sys => KnowsSys(p, m.now)'
      BY <1>9, <1>a, <2>1, <3>1, <3>3, <3>4 DEF KnowsSys, Whole
    <3> QED
      BY <2>1, <2>s, <3>1, <3>4, <3>5 DEF SettingClaims
  <2> QED
    BY <1>4, <2>2, <2>3, <2>4, <2>5
<1>11. <<"sys", ext>>[1] = "sys"
  OBVIOUS
<1> QED
  BY <1>2, <1>3, <1>5, <1>6, <1>8, <1>10, <1>11, KeptSysWrote

(* The binary copy of the fingerprint is removed where nothing is claimed. *)
LEMMA KeptRemoveSys ==
    ASSUME TypeInv, KeptInv, NEW p \in Procs, act[p].todo # <<>>,
           Head(act[p].todo)[1] = "remove", Head(act[p].todo)[2] = "sys", RemoveFile(p)
    PROVE  KeptInv'
<1> DEFINE x == Head(act[p].todo)
<1>1. Asks(x) \subseteq Touches(act[p].op) /\ \E l, m, e \in Label : KeptGoes(p, l, m, e)
  BY KeptHere
<1>2. PICK l, m, e \in Label : KeptGoes(p, l, m, e)
  BY <1>1
<1>w. "remove" \in FileWords
  BY DEF FileWords
<1>3. On("sys", p) /\ ~SysGate
  BY <1>1, <1>2, <1>w, KeptAtSys
<1>4. x[3] = "bin" /\ Target(p) = <<"sys", "bin">>
  BY SysPlace
<1>5. Continue(p, act[p], <<>>) /\ UNCHANGED history /\ file' = [file EXCEPT ![<<"sys", "bin">>] = Absent]
  BY <1>4 DEF RemoveFile
<1>6. <<"sys", "bin">> \in Files /\ <<"sys", "bin">>[1] = "sys"
  BY KeptFiles
<1> QED
  BY <1>2, <1>3, <1>5, <1>6, KeptSysWrote

-----------------------------------------------------------------------------
(* Renaming a file of the fingerprint *)

(* The files after a temporary one was renamed. *)
LEMMA SysRenamed ==
    ASSUME TypeInv, NEW ext \in {"json", "bin"}, NEW tmp,
           tmp = IF ext = "json" THEN "json.tmp" ELSE "bin.tmp",
           file' = [file EXCEPT ![<<"sys", ext>>] = file[<<"sys", tmp>>], ![<<"sys", tmp>>] = Absent]
    PROVE  /\ file'[<<"sys", ext>>] = file[<<"sys", tmp>>]
           /\ \A y \in {"json", "bin", "json.tmp", "bin.tmp"} \ {ext, tmp} : file'[<<"sys", y>>] = file[<<"sys", y>>]
           /\ StoreKept("perm") /\ StoreKept("boost") /\ \A s \in Settings : StoreKept(s)
<1>1. DOMAIN file = Files /\ file = [g \in Files |-> file[g]]
  BY DEF TypeInv, Types, FileTypes
<1>2. tmp \in {"json.tmp", "bin.tmp"}
  OBVIOUS
<1>3. /\ \A y \in {"json", "bin", "json.tmp", "bin.tmp"} : <<"sys", y>> \in Files
      /\ <<"sys", ext>> # <<"sys", tmp>>
  BY <1>2, KeptFiles
<1>4. \A g \in Files : g # <<"sys", ext>> /\ g # <<"sys", tmp>> => file'[g] = file[g]
  BY <1>1
<1>5. file'[<<"sys", ext>>] = file[<<"sys", tmp>>]
  BY <1>1, <1>3
<1>6. \A y \in {"json", "bin", "json.tmp", "bin.tmp"} \ {ext, tmp} : file'[<<"sys", y>>] = file[<<"sys", y>>]
  <2>1. ASSUME NEW y \in {"json", "bin", "json.tmp", "bin.tmp"} \ {ext, tmp}
        PROVE  file'[<<"sys", y>>] = file[<<"sys", y>>]
    <3>1. <<"sys", y>> \in Files /\ <<"sys", y>> # <<"sys", ext>> /\ <<"sys", y>> # <<"sys", tmp>>
      BY <1>3
    <3> QED
      BY <1>4, <3>1
  <2> QED
    BY <2>1
<1>7. \A s \in Settings : StoreKept(s)
  <2>1. ASSUME NEW s \in Settings, NEW g \in Files, g[1] = s PROVE file'[g] = file[g]
    <3>1. g[1] # "sys"
      BY <2>1 DEF Settings
    <3>2. g # <<"sys", ext>> /\ g # <<"sys", tmp>>
      BY <3>1
    <3> QED
      BY <1>4, <3>2
  <2> QED
    BY <2>1 DEF StoreKept
<1> QED
  BY <1>5, <1>6, <1>7 DEF Settings

(* Who goes on writing under the new name is where nothing is claimed. *)
LEMMA KeptFollow ==
    ASSUME TypeInv, KeptInv, NEW q \in Procs, NEW ext \in {"json", "bin"},
           NEW tmp \in {"json.tmp", "bin.tmp"}, ~SysGate, HistoryKept, UNCHANGED ok,
           \A s \in Settings : StoreKept(s),
           Follows(act[q], act'[q], <<"fill", "sys", tmp>>, <<"fill", "sys", ext>>)
    PROVE  KeptWalk(q)'
<1> DEFINE a == act[q]
           x == <<"fill", "sys", tmp>>
           y == <<"fill", "sys", ext>>
<1>1. act'[q].op = a.op /\ act'[q] \in ActType /\ a \in ActType
  BY DEF Follows, TypeInv, Types, ActTypes
<1>2. CASE act'[q].todo = a.todo
  <2>1. act'[q] = act[q]
    BY <1>1, <1>2 DEF Follows, ActType
  <2>2. ok'["sys"] = ok["sys"] /\ \A s \in Settings : ok'[s] = ok[s]
    OBVIOUS
  <2> QED
    BY <2>1, <2>2, KeptOthers
<1>3. CASE a.todo # <<>> /\ Head(a.todo) = x /\ act'[q].todo = [a.todo EXCEPT ![1] = y]
  <2>1. /\ a.op # "idle" /\ a.op \in Ops /\ Asks(x) \subseteq Touches(a.op)
        /\ \E l, m, e \in Label : KeptGoes(q, l, m, e)
    BY <1>3, KeptHere
  <2>2. PICK l, m, e \in Label : KeptGoes(q, l, m, e)
    BY <2>1
  <2>3. x \in Steps /\ y \in Steps /\ x[1] = "fill" /\ x[2] = "sys" /\ y[1] = "fill" /\ y[2] = "sys"
    BY Zenon DEF Steps, Words, Places, Extensions
  <2> HIDE DEF x, y
  <2>4. Asks(x) = {"sys"} /\ Asks(y) = {"sys"}
    BY <2>3 DEF Asks
  <2>5. On("sys", q)
    BY <2>1, <2>4 DEF On
  <2>6. \A N : KnowsKept(q, N)'
    BY <1>1, <2>1, <2>5, KnownNothing
  <2> DEFINE k == Knowing({"lost"}, l.then)
  <2>7. k \in Label /\ k.now = {"lost"} /\ k.then = l.then
    <3>1. {"lost"} \in SUBSET Claims /\ l.then \in SUBSET Claims
      BY KeptClaims, LabelParts
    <3> QED
      BY <3>1, KnowingLabel
  <2> HIDE DEF k
  <2>8. ASSUME NEW n \in Label, <<l, x, n>> \in KeptRules(a.op) PROVE <<k, y, n>> \in KeptRules(a.op)
    <3>1. KeptRule(a.op, l, x, n)
      BY <2>3, <2>8, KeptRulesDef
    <3>2. x[1] \notin Catchers /\ y[1] \notin Catchers
      BY <2>3 DEF Catchers
    <3>3. Anyway(k, y)
      BY <2>3, <2>7 DEF Anyway
    <3>4. KeptRule(a.op, k, y, n)
      BY <2>4, <2>7, <3>1, <3>2, <3>3 DEF KeptRule
    <3> QED
      BY <2>3, <2>7, <3>4, KeptRulesDef
  <2>9. Path(KeptRules(a.op), a.todo, l, e) /\ Calmly \subseteq e.now /\ e.now \subseteq e.then
    BY <2>2 DEF KeptGoes
  <2>10. Path(KeptRules(act'[q].op), act'[q].todo, k, e)
    <3>1. \A n \in Label : <<l, x, n>> \in KeptRules(a.op) => <<k, y, n>> \in KeptRules(a.op)
      BY <2>8
    <3> HIDE DEF a
    <3> QED
      BY <1>1, <1>3, <2>3, <2>7, <2>9, <3>1, PathNewHead
  <2>11. \E g, f \in Label :
          /\ KnowsKept(q, g.now)' /\ Calmly \subseteq f.now /\ f.now \subseteq f.then
          /\ Path(KeptRules(act'[q].op), act'[q].todo, g, f)
    BY <2>6, <2>7, <2>9, <2>10
  <2> QED
    BY <2>11 DEF KeptWalk
<1> QED
  BY <1>2, <1>3 DEF Follows

(* While the fingerprint is claimed, nobody else has its temporary files open. *)
LEMMA KeptNobody ==
    ASSUME TypeInv, KeptInv, SysGate, NEW p \in Procs, On("sys", p), NEW q \in Procs, q # p,
           NEW tmp, act[q].todo # <<>>
    PROVE  Head(act[q].todo) # <<"fill", "sys", tmp>>
<1>1. ASSUME Head(act[q].todo) = <<"fill", "sys", tmp>> PROVE FALSE
  <2>1. Asks(Head(act[q].todo)) \subseteq Touches(act[q].op)
    BY KeptHere
  <2>2. Head(act[q].todo)[1] = "fill" /\ Head(act[q].todo)[2] = "sys"
    BY <1>1
  <2>3. Asks(Head(act[q].todo)) = {"sys"}
    BY <2>2 DEF Asks
  <2>4. On("sys", q)
    BY <2>1, <2>3 DEF On
  <2>5. "sys" \in Stores /\ ~mixed["sys"]
    BY DEF Stores, SysGate
  <2> QED
    BY <2>4, <2>5 DEF KeptInv, KeptApart
<1> QED
  BY <1>1

-----------------------------------------------------------------------------
(* What is known of the fingerprint after a temporary file was renamed. *)
LEMMA KeptRenamed ==
    ASSUME NEW p, NEW N, NEW M, KnowsSys(p, N), "lost" \notin N,
           NEW ext \in {"json", "bin"},
           SysNeeds("rename", ext) \subseteq N,
           M \subseteq (N \ SysLoses("rename", ext)) \cup SysGains("rename", ext),
           ext = "json" => /\ file'[<<"sys", "json">>] = file[<<"sys", "json.tmp">>]
                           /\ file'[<<"sys", "bin">>] = file[<<"sys", "bin">>]
                           /\ file'[<<"sys", "bin.tmp">>] = file[<<"sys", "bin.tmp">>],
           ext = "bin" => /\ file'[<<"sys", "bin">>] = file[<<"sys", "bin.tmp">>]
                          /\ file'[<<"sys", "json">>] = file[<<"sys", "json">>]
                          /\ file'[<<"sys", "json.tmp">>] = file[<<"sys", "json.tmp">>],
           crashes' = crashes, Sealed' = Sealed, act'[p].sys = act[p].sys
    PROVE  KnowsSys(p, M)' /\ M \cap (SettingClaims \cup {"lost"}) \subseteq N /\ Safe'
<1>1. CASE ext = "json"
  <2>1. {"calm", "tmpWhole"} \subseteq N /\ M \subseteq (N \ (InPlace \cup {"tmpTorn", "tmpWhole"})) \cup {"calm", "jsonWhole"}
    BY <1>1 DEF SysNeeds, SysLoses, SysGains, OfTmp
  <2>2. SysCalm /\ Whole(<<"sys", "json.tmp">>)
    BY <2>1 DEF KnowsSys
  <2>3. file'[<<"sys", "json">>] = file[<<"sys", "json.tmp">>] /\ file'[<<"sys", "bin">>] = file[<<"sys", "bin">>]
        /\ file'[<<"sys", "bin.tmp">>] = file[<<"sys", "bin.tmp">>]
    BY <1>1
  <2>4. Whole(<<"sys", "json">>)' /\ Safe'
    BY <2>2, <2>3 DEF Whole, Safe
  <2>5. SysCalm'
    BY <2>2, <2>3, <2>4 DEF SysCalm, Whole
  <2>6. KnowsSys(p, M)'
    BY <2>1, <2>3, <2>4, <2>5 DEF KnowsSys, Whole, InPlace
  <2> QED
    BY <1>1, <2>1, <2>2, <2>4, <2>6 DEF SettingClaims, Whole
<1>2. CASE ext = "bin"
  <2>1. {"calm", "bintmpWhole"} \subseteq N
        /\ M \subseteq (N \ (InPlace \cup {"bintmpTorn", "bintmpWhole"})) \cup {"calm"}
    BY <1>2 DEF SysNeeds, SysLoses, SysGains, OfTmp
  <2>2. SysCalm /\ Whole(<<"sys", "bin.tmp">>)
    BY <2>1 DEF KnowsSys
  <2>3. file'[<<"sys", "bin">>] = file[<<"sys", "bin.tmp">>] /\ file'[<<"sys", "json">>] = file[<<"sys", "json">>]
        /\ file'[<<"sys", "json.tmp">>] = file[<<"sys", "json.tmp">>]
    BY <1>2
  <2>4. Whole(<<"sys", "bin">>)' /\ Safe'
    BY <2>2, <2>3 DEF Whole, Safe
  <2>5. SysCalm'
    BY <2>2, <2>3, <2>4 DEF SysCalm, Whole
  <2>6. KnowsSys(p, M)'
    BY <2>1, <2>3, <2>4, <2>5 DEF KnowsSys, Whole, InPlace
  <2> QED
    BY <1>2, <2>1, <2>2, <2>4, <2>6 DEF SettingClaims, Whole
<1> QED
  BY <1>1, <1>2

(* Renaming a file of the fingerprint. *)
LEMMA KeptRename ==
    ASSUME TypeInv, KeptInv, NEW p \in Procs, act[p].todo # <<>>, Head(act[p].todo)[1] = "rename", Rename(p)
    PROVE  KeptInv'
<1> DEFINE x == Head(act[p].todo)
           ext == x[3]
           tmp == IF ext = "json" THEN "json.tmp" ELSE "bin.tmp"
<1>1. act[p].op # "idle" /\ act[p].op \in Ops
      /\ Asks(x) \subseteq Touches(act[p].op) /\ \E l, m, e \in Label : KeptGoes(p, l, m, e)
  BY KeptHere
<1>2. PICK l, m, e \in Label : KeptGoes(p, l, m, e)
  BY <1>1
<1>f. Fits(act[p].op, x) /\ act[p] \in ActType
  BY TypeHere DEF Goes, TypeRule
<1>3. x[2] = "sys" /\ ext \in {"json", "bin"} /\ Target(p) = <<"sys", ext>>
  BY <1>f DEF Fits, Target
<1>w. "rename" \in FileWords
  BY DEF FileWords
<1>4. /\ On("sys", p) /\ m \in Label
      /\ SysGate => /\ KnowsSys(p, l.now) /\ "lost" \notin l.now
                    /\ SysNeeds("rename", ext) \subseteq l.now
                    /\ m.now \subseteq (l.now \ SysLoses("rename", ext)) \cup SysGains("rename", ext)
  BY <1>1, <1>2, <1>3, <1>w, KeptAtSys
<1>t. Tmp(Target(p)) = <<"sys", tmp>>
  BY <1>3 DEF Tmp
<1>m. UNCHANGED history /\ HistoryKept /\ UNCHANGED ok /\ crashes' = crashes /\ Sealed' = Sealed
  BY DEF Rename, history, HistoryKept, Sealed
<1>5. CASE file[<<"sys", tmp>>] = Absent
  <2>1. Throw(p) /\ UNCHANGED file
    BY <1>5, <1>t DEF Rename
  <2>2. ~SysGate
    <3>1. ASSUME SysGate PROVE FALSE
      <4>1. KnowsSys(p, l.now) /\ SysNeeds("rename", ext) \subseteq l.now
        BY <1>4, <3>1
      <4>2. ext = "json" => "tmpWhole" \in l.now
        BY <4>1 DEF SysNeeds
      <4>3. ext = "bin" => "bintmpWhole" \in l.now
        BY <4>1 DEF SysNeeds
      <4> QED
        BY <1>3, <1>5, <4>1, <4>2, <4>3 DEF KnowsSys, Whole
    <3> QED
      BY <3>1
  <2> QED
    BY <1>1, <1>2, <1>4, <1>m, <2>1, <2>2, KeptThrown
<1>6. CASE file[<<"sys", tmp>>] # Absent
  <2>0. act \in [Procs -> ActType]
    BY DEF TypeInv, Types, ActTypes
  <2>x. tmp \in {"json.tmp", "bin.tmp"} /\ tmp = IF ext = "json" THEN "json.tmp" ELSE "bin.tmp"
    OBVIOUS
  <2>o. SysGate => \A q \in Procs \ {p} : act[q].todo # <<>> => Head(act[q].todo) # <<"fill", "sys", tmp>>
    BY <1>4, KeptNobody
  <2>e. Target(p)[1] = "sys" /\ Target(p)[2] = ext /\ Tmp(Target(p))[2] = tmp
    BY <1>3, <1>t
  <2>a. SysGate => \A q \in Procs \ {p} : act'[q] = act[q]
    BY <1>6, <1>t, <2>e, <2>o DEF Rename
  <2> HIDE DEF tmp, ext
  <2>1. /\ act' \in [Procs -> ActType]
        /\ act'[p] = [act[p] EXCEPT !.todo = Tail(act[p].todo)]
        /\ \A q \in Procs : q # p => Follows(act[q], act'[q], <<"fill", "sys", tmp>>, <<"fill", "sys", ext>>)
        /\ file' = [file EXCEPT ![<<"sys", ext>>] = file[<<"sys", tmp>>], ![<<"sys", tmp>>] = Absent]
    BY <1>3, <1>6, <2>0, RenameEffect DEF tmp
  <2>2. /\ file'[<<"sys", ext>>] = file[<<"sys", tmp>>]
        /\ \A y \in {"json", "bin", "json.tmp", "bin.tmp"} \ {ext, tmp} : file'[<<"sys", y>>] = file[<<"sys", y>>]
        /\ \A s \in Settings : StoreKept(s)
    BY <1>3, <2>1, <2>x, SysRenamed
  <2>3. act'[p].todo = Tail(act[p].todo) /\ act'[p].op = act[p].op /\ act'[p].sys = act[p].sys /\ Copies(p)
    BY <1>f, <2>1 DEF ActType, Copies
  <2>4. SysGate => /\ KnowsSys(p, m.now)'
                   /\ m.now \cap (SettingClaims \cup {"lost"}) \subseteq l.now
                   /\ Safe'
    <3>1. ASSUME SysGate
          PROVE  KnowsSys(p, m.now)' /\ m.now \cap (SettingClaims \cup {"lost"}) \subseteq l.now /\ Safe'
      <4>1. /\ KnowsSys(p, l.now) /\ "lost" \notin l.now
            /\ SysNeeds("rename", ext) \subseteq l.now
            /\ m.now \subseteq (l.now \ SysLoses("rename", ext)) \cup SysGains("rename", ext)
        BY <1>4, <3>1
      <4>2. ext = "json" => /\ file'[<<"sys", "json">>] = file[<<"sys", "json.tmp">>]
                            /\ file'[<<"sys", "bin">>] = file[<<"sys", "bin">>]
                            /\ file'[<<"sys", "bin.tmp">>] = file[<<"sys", "bin.tmp">>]
        BY <2>2, <2>x
      <4>3. ext = "bin" => /\ file'[<<"sys", "bin">>] = file[<<"sys", "bin.tmp">>]
                           /\ file'[<<"sys", "json">>] = file[<<"sys", "json">>]
                           /\ file'[<<"sys", "json.tmp">>] = file[<<"sys", "json.tmp">>]
        BY <2>2, <2>x
      <4>4. crashes' = crashes /\ Sealed' = Sealed /\ act'[p].sys = act[p].sys
        BY <1>m, <2>3
      <4>5. ext \in {"json", "bin"}
        BY <1>3
      <4> QED
        BY <4>1, <4>2, <4>3, <4>4, <4>5, KeptRenamed
    <3> QED
      BY <3>1
  <2>5. KnowsKept(p, l.now)
    BY <1>2 DEF KeptGoes
  <2>6. KnowsKept(p, m.now)' /\ Touched(p) /\ Leaves(p)
    BY <1>1, <1>4, <1>m, <2>2, <2>3, <2>4, <2>5, KeptSysKnown
  <2>7. \A q \in Procs : act'[q].op = act[q].op
    BY <2>1, <2>3 DEF Follows
  <2>8. KeptApart' /\ SysFacts' /\ SetFacts'
    BY <2>6, <2>7, KeptFacts
  <2>9. KeptWalk(p)'
    <3>1. /\ KnowsKept(p, m.now)' /\ Calmly \subseteq e.now /\ e.now \subseteq e.then
          /\ Path(KeptRules(act'[p].op), act'[p].todo, m, e)
      BY <1>2, <2>3, <2>6 DEF KeptGoes
    <3>2. \E k, f \in Label :
            /\ KnowsKept(p, k.now)' /\ Calmly \subseteq f.now /\ f.now \subseteq f.then
            /\ Path(KeptRules(act'[p].op), act'[p].todo, k, f)
      BY <1>2, <1>4, <3>1
    <3> QED
      BY <3>2 DEF KeptWalk
  <2>10. ASSUME NEW q \in Procs, q # p PROVE KeptWalk(q)'
    <3>1. CASE SysGate
      BY <2>6, <2>10, <2>a, <3>1, KeptOthersStay
    <3>2. CASE ~SysGate
      <4>1. Follows(act[q], act'[q], <<"fill", "sys", tmp>>, <<"fill", "sys", ext>>)
        BY <2>1, <2>10
      <4> QED
        BY <1>3, <1>m, <2>2, <2>x, <3>2, <4>1, KeptFollow
    <3> QED
      BY <3>1, <3>2
  <2> QED
    BY <2>8, <2>9, <2>10 DEF KeptInv
<1> QED
  BY <1>5, <1>6

-----------------------------------------------------------------------------
(* Changing a setting *)

(* A user changes the setting that the operation is about. *)
LEMMA ChosenOf ==
    ASSUME NEW op \in ChangeOps \cup {"boot"}, NEW chg \in Requests(op)
    PROVE  /\ chg[1] = StoreOf(op) /\ StoreOf(op) \in Settings /\ StoreOf(op) \in Touches(op)
           /\ op \in {"boot", "resetBoost"} => "sys" \in Touches(op) /\ StoreOf(op) = "boost"
<1>1. CASE op \in {"setPerm", "editPerm"}
  <2>1. chg[1] = "perm"
    BY Zenon, <1>1 DEF Requests
  <2> QED
    BY <1>1, <2>1 DEF StoreOf, PermOps, Settings, Touches
<1>2. CASE op \in {"setBoost", "editBoost", "updateField"}
  <2>1. chg[1] = "boost"
    BY Zenon, <1>2 DEF Requests
  <2> QED
    BY <1>2, <2>1 DEF StoreOf, PermOps, Settings, Touches
<1>3. CASE op \in {"boot", "resetBoost", "putBoost"}
  <2>1. op = "boot" => chg = <<"boost", "tune", "">>
    BY Zenon DEF Requests
  <2>3. op = "resetBoost" => chg = <<"boost", "reset", "">>
    BY Zenon DEF Requests
  <2>4. op = "putBoost" => chg = <<"boost", "all", BoosterDefault>>
    BY DEF Requests
  <2>5. <<"boost", "tune", "">>[1] = "boost" /\ <<"boost", "reset", "">>[1] = "boost"
        /\ <<"boost", "all", BoosterDefault>>[1] = "boost"
    OBVIOUS
  <2>2. chg[1] = "boost"
    BY <1>3, <2>1, <2>3, <2>4, <2>5, Zenon
  <2> QED
    BY <1>3, <2>2 DEF StoreOf, PermOps, Settings, Touches
<1> QED
  BY <1>1, <1>2, <1>3 DEF ChangeOps

(* What a change makes of a value that the setting may have is what the    *)
(* user means, if what it takes from the silicon was probed.               *)
LEMMA MeantValue ==
    ASSUME NEW op \in ChangeOps \cup {"boot"}, NEW chg \in Requests(op), NEW silicon, NEW c, NEW values,
           op \in {"resetBoost", "boot"} => silicon = "probed",
           c \in values \/ (op \in {"putBoost", "resetBoost"} /\ values # {})
    PROVE  Changed(chg, c, silicon) \in Intended(chg, values)
<1>1. \A v \in values : Changed(chg, v, "probed") \in Intended(chg, values)
  BY DEF Intended
<1>2. CASE op \in {"setBoost", "editBoost", "updateField", "setPerm", "editPerm"}
  <2>1. chg \in Changes
    BY Zenon, <1>2 DEF Requests
  <2>2. chg[2] \notin {"tune", "reset", "all"}
    BY <2>1, SetTyped
  <2>3. Changed(chg, c, silicon) = [c EXCEPT ![chg[2]] = chg[3]]
        /\ Changed(chg, c, "probed") = [c EXCEPT ![chg[2]] = chg[3]]
    BY <2>2 DEF Changed
  <2> QED
    BY <1>1, <1>2, <2>3
<1>3. CASE op = "boot"
  BY <1>1, <1>3
<1>4. CASE op \in {"resetBoost", "putBoost"}
  <2>0. PICK v \in values : TRUE
    BY <1>4
  <2>1. CASE op = "resetBoost"
    <3>1. chg = <<"boost", "reset", "">> /\ silicon = "probed"
      BY Zenon, <2>1 DEF Requests
    <3>2. chg[2] = "reset"
      BY <3>1
    <3>3. Changed(chg, c, silicon) = Optimal("probed") /\ Changed(chg, v, "probed") = Optimal("probed")
      BY <3>1, <3>2 DEF Changed
    <3> QED
      BY <1>1, <2>0, <3>3
  <2>2. CASE op = "putBoost"
    <3>1. chg = <<"boost", "all", BoosterDefault>>
      BY <2>2 DEF Requests
    <3>2. chg[2] = "all"
      BY <3>1
    <3>3. Changed(chg, c, silicon) = chg[3] /\ Changed(chg, v, "probed") = chg[3]
      BY <3>2 DEF Changed
    <3> QED
      BY <1>1, <2>0, <3>3
  <2> QED
    BY <1>4, <2>1, <2>2
<1> QED
  BY <1>2, <1>3, <1>4 DEF ChangeOps

(* What a change does. *)
ChangeTo(p, s, chg, new) ==
    /\ Moved(p, SavePlain(s) \o <<Do("saved")>>) /\ UNCHANGED file /\ HistoryKept
    /\ act'[p].sys = act[p].sys /\ act'[p][s] = new /\ act'[p].chg = chg /\ act'[p].base = ok[s]
    /\ ok' = [ok EXCEPT ![s] = @ \cup Intended(chg, @)]
    /\ act[p].op \in ChangeOps \cup {"boot"} /\ chg \in Requests(act[p].op) /\ chg[1] = s
    /\ Head(act[p].todo)[1] = "tune" <=> act[p].op = "boot"
    /\ new = IF act[p].op = "boot" /\ act[p].sys = None THEN act[p].boost
             ELSE Changed(chg, act[p][s], IF act[p].sys = None THEN "blank" ELSE act[p].sys)

(* A change does that. *)
LEMMA ChangeDoes ==
    ASSUME TypeInv, TypeInv', NEW p \in Procs, Change(p)
    PROVE  \E s \in Settings : \E chg, new : ChangeTo(p, s, chg, new)
<1> DEFINE x == Head(act[p].todo)
           b == act[p]
           op == act[p].op
           tunes == At(p, "tune")
           chg == IF tunes THEN <<"boost", "tune", "">> ELSE b.chg
           s == chg[1]
           new == IF tunes /\ b.sys = None THEN b.boost
                  ELSE Changed(chg, b[s], IF b.sys = None THEN "blank" ELSE b.sys)
           a == [b EXCEPT ![s] = new, !.chg = chg, !.base = ok[s]]
           more == SavePlain(s) \o <<Do("saved")>>
           todo == more \o Tail(b.todo)
<1>1. act[p].todo # <<>> /\ x[1] \in {"change", "tune"} /\ (tunes <=> x[1] = "tune")
  BY Zenon DEF Change, At
<1>2. PICK l, m, e \in Label : Goes(p, l, m, e)
  BY <1>1, TypeHere
<1>3. b \in ActType /\ act \in [Procs -> ActType] /\ act' \in [Procs -> ActType]
      /\ Tail(b.todo) \in Seq(Steps)
  BY <1>1, TypeHere DEF TypeInv, Types, ActTypes
<1>4. /\ TypeNeeds(op, x) \subseteq l.now /\ Fits(op, x) /\ KnowsTypes(b, l.now)
  BY <1>1, <1>2 DEF Goes, TypeRule
<1>5. op \in ChangeOps \cup {"boot"} /\ (tunes <=> op = "boot")
  BY <1>1, <1>4 DEF Fits, ChangeOps
<1>6. chg \in Requests(op)
  <2>1. CASE tunes
    BY Zenon, <1>5, <2>1 DEF Requests
  <2>2. CASE ~tunes
    BY <1>1, <1>4, <2>2 DEF TypeNeeds, KnowsTypes
  <2> QED
    BY <2>1, <2>2
<1>7. s \in Settings
  BY <1>5, <1>6, ChosenOf
<1>8. /\ Continue(p, a, more)
      /\ ok' = [ok EXCEPT ![s] = @ \cup Intended(chg, @)]
      /\ UNCHANGED file /\ UNCHANGED gen /\ UNCHANGED crashes /\ UNCHANGED mixed
  BY Zenon DEF Change
<1>n. new = IF op = "boot" /\ b.sys = None THEN b.boost
            ELSE Changed(chg, b[s], IF b.sys = None THEN "blank" ELSE b.sys)
  BY <1>5
<1> HIDE DEF chg, new, tunes, x
<1>9. more \in Seq(Steps)
  <2> DEFINE d == Do("saved")
  <2>1. d \in Steps
    BY Zenon, DoStep DEF Words
  <2> HIDE DEF d
  <2>2. <<d>> \in Seq(Steps)
    BY <2>1, OneStep
  <2>3. SavePlain(s) \in Seq(Steps)
    BY <1>7, SavePlainSteps, SettingSeqs
  <2> QED
    BY <2>2, <2>3, ConcatProperties DEF d
<1> HIDE DEF more
<1>10. /\ a.todo = b.todo
       /\ [a EXCEPT !.todo = todo].op = b.op /\ [a EXCEPT !.todo = todo].todo = todo
       /\ [a EXCEPT !.todo = todo].sys = b.sys /\ [a EXCEPT !.todo = todo][s] = new
       /\ [a EXCEPT !.todo = todo].chg = chg /\ [a EXCEPT !.todo = todo].base = ok[s]
  <2> DEFINE new0 == new
             chg0 == chg
             base0 == ok[s]
  <2>1. a = [b EXCEPT ![s] = new0, !.chg = chg0, !.base = base0]
    BY DEF a
  <2> HIDE DEF b, todo, s, new0, chg0, base0, a
  <2>2. /\ a.todo = b.todo
        /\ [a EXCEPT !.todo = todo].op = b.op /\ [a EXCEPT !.todo = todo].todo = todo
        /\ [a EXCEPT !.todo = todo].sys = b.sys /\ [a EXCEPT !.todo = todo][s] = new0
        /\ [a EXCEPT !.todo = todo].chg = chg0 /\ [a EXCEPT !.todo = todo].base = base0
    BY Zenon, <1>3, <1>7, <2>1 DEF ActType, Settings
  <2> QED
    BY <2>2 DEF new0, chg0, base0
<1>11. act' = [act EXCEPT ![p] = [a EXCEPT !.todo = todo]]
  BY Zenon, <1>8, <1>10 DEF Continue
<1> HIDE DEF a
<1>12. act'[p] = [a EXCEPT !.todo = todo] /\ Others(p)
  BY <1>3, <1>11 DEF Others
<1>13. Moved(p, more) /\ act'[p].sys = b.sys /\ act'[p][s] = new /\ act'[p].chg = chg /\ act'[p].base = ok[s]
  BY <1>3, <1>9, <1>10, <1>12 DEF Moved
<1>14. ChangeTo(p, s, chg, new)
  BY <1>1, <1>5, <1>6, <1>8, <1>n, <1>13 DEF ChangeTo, HistoryKept, more, x
<1> QED
  BY <1>7, <1>14

-----------------------------------------------------------------------------
(* What is on the way where a setting is changed. *)
LEMMA KeptAtChange ==
    ASSUME NEW p \in Procs, NEW l, NEW m, NEW e, KeptGoes(p, l, m, e),
           NEW what \in {"change", "tune"}, Head(act[p].todo)[1] = what
    PROVE  /\ Calmly \subseteq l.now /\ l.now \subseteq Ground
           /\ what = "tune" => {"mine", "probed"} \subseteq l.now
           /\ what = "change" => CallNeeds(act[p].op, "change") \subseteq l.now
           /\ m.now \subseteq l.now \cup {"mine"}
           /\ l.now \in SUBSET Claims /\ m.now \in SUBSET Claims /\ l.then \in SUBSET Claims
           /\ l = Knowing(l.now, l.then) /\ m = Knowing(m.now, l.then) /\ l \in Label /\ m \in Label
<1> DEFINE x == Head(act[p].todo)
<1>1. KeptRule(act[p].op, l, x, m) /\ l \in Label /\ m \in Label
  BY DEF KeptGoes
<1>3. KeptNeeds(act[p].op, x) = CallNeeds(act[p].op, what) /\ KeptGains(x) = {"mine"} /\ KeptLoses(x) = {}
      /\ x[1] \in Inserting /\ x[1] \notin Catchers /\ ~Anyway(l, x)
  BY DEF KeptNeeds, KeptGains, KeptLoses, CallGains, FileWords, Inserting, Catchers, Anyway
<1> HIDE DEF x
<1>5. CallNeeds(act[p].op, what) \subseteq l.now /\ l.now \subseteq Ground
      /\ m.now \subseteq l.now \cup {"mine"} /\ m.then = l.then
  BY <1>1, <1>3 DEF KeptRule
<1>6. l.now \in SUBSET Claims /\ m.now \in SUBSET Claims /\ l.then \in SUBSET Claims
      /\ l = Knowing(l.now, l.then) /\ m = Knowing(m.now, m.then)
  BY <1>1, LabelParts
<1>7. Calmly \subseteq CallNeeds(act[p].op, what) /\ (what = "tune" => {"mine", "probed"} \subseteq CallNeeds(act[p].op, what))
  BY DEF CallNeeds
<1> QED
  BY <1>1, <1>5, <1>6, <1>7

(* What p wrote into its copy is what the user meant. *)
LEMMA KeptMeant ==
    ASSUME TypeInv, KeptInv, NEW p \in Procs, NEW s \in Settings, NEW chg, NEW new, ChangeTo(p, s, chg, new),
           NEW l, NEW m, NEW e, KeptGoes(p, l, m, e), SetGate(s), On(s, p),
           Calmly \subseteq l.now,
           act[p].op = "boot" => {"mine", "probed"} \subseteq l.now,
           act[p].op # "boot" => CallNeeds(act[p].op, "change") \subseteq l.now
    PROVE  new \in Intended(chg, ok[s])
<1> DEFINE silicon == IF act[p].sys = None THEN "blank" ELSE act[p].sys
           op == act[p].op
<1>1. op \in ChangeOps \cup {"boot"} /\ chg \in Requests(op) /\ chg[1] = s
  BY DEF ChangeTo
<1>2. StoreOf(op) = s
  BY <1>1, ChosenOf
<1>3. KnowsSet(s, p, l.now)
  BY <1>2 DEF KeptGoes, KnowsKept, SetPart
<1>4. Effective(s) \in ok[s]
  BY <1>3 DEF KnowsSet, Calmly, Even
<1>5. op \in {"boot", "resetBoost"} => act[p].sys = "probed"
  <2>1. ASSUME op \in {"boot", "resetBoost"} PROVE act[p].sys = "probed"
    <3>1. On("sys", p) /\ s = "boost"
      BY <1>1, <1>2, <2>1, ChosenOf DEF On
    <3>2. SysGate
      BY <3>1 DEF SetGate
    <3>3. "probed" \in l.now
      BY <2>1 DEF CallNeeds
    <3> QED
      BY <3>1, <3>2, <3>3 DEF KeptGoes, KnowsKept, SysPart, KnowsSys
  <2> QED
    BY <2>1
<1>6. op \in {"boot", "resetBoost"} => silicon = "probed" /\ act[p].sys # None
  BY <1>5, GovernorAssumption DEF Silicon
<1>7. op \notin {"putBoost", "resetBoost"} => act[p][s] \in ok[s]
  <2>1. op \notin {"putBoost", "resetBoost"} => "mine" \in l.now
    BY DEF CallNeeds
  <2> QED
    BY <1>3, <2>1 DEF KnowsSet
<1>8. new = Changed(chg, act[p][s], silicon)
  BY <1>6 DEF ChangeTo
<1> HIDE DEF silicon
<1>9. ok[s] # {}
  BY <1>4
<1> QED
  BY <1>1, <1>6, <1>7, <1>8, <1>9, MeantValue

(* A setting is changed, in memory, and will be saved. *)
LEMMA KeptChange ==
    ASSUME TypeInv, TypeInv', KeptInv, NEW p \in Procs, act[p].todo # <<>>, Change(p)
    PROVE  KeptInv'
<1>1. PICK s \in Settings : \E chg, new : ChangeTo(p, s, chg, new)
  BY ChangeDoes
<1>2. PICK chg, new : ChangeTo(p, s, chg, new)
  BY <1>1
<1>3. act[p].op # "idle" /\ \E l, m, e \in Label : KeptGoes(p, l, m, e)
  BY KeptHere
<1>4. PICK l, m, e \in Label : KeptGoes(p, l, m, e)
  BY <1>3
<1>5. /\ Moved(p, SavePlain(s) \o <<Do("saved")>>) /\ UNCHANGED file /\ HistoryKept
      /\ act'[p].sys = act[p].sys /\ act'[p][s] = new /\ act'[p].chg = chg /\ act'[p].base = ok[s]
      /\ ok' = [ok EXCEPT ![s] = @ \cup Intended(chg, @)]
      /\ act[p].op \in ChangeOps \cup {"boot"} /\ chg \in Requests(act[p].op) /\ chg[1] = s
  BY <1>2 DEF ChangeTo
<1>6. StoreOf(act[p].op) = s /\ s \in Touches(act[p].op) /\ On(s, p)
  BY <1>5, ChosenOf DEF On
<1>7. PICK what \in {"change", "tune"} : Head(act[p].todo)[1] = what
  BY AtHead DEF Change
<1>8. /\ Calmly \subseteq l.now /\ l.now \subseteq Ground
      /\ what = "tune" => {"mine", "probed"} \subseteq l.now
      /\ what = "change" => CallNeeds(act[p].op, "change") \subseteq l.now
      /\ m.now \subseteq l.now \cup {"mine"}
      /\ l.now \in SUBSET Claims /\ m.now \in SUBSET Claims /\ l.then \in SUBSET Claims
      /\ m = Knowing(m.now, l.then) /\ l \in Label /\ m \in Label
  BY <1>4, <1>7, KeptAtChange
<1>9. SetGate(s) => new \in Intended(chg, ok[s])
  <2>1. what = "tune" <=> act[p].op = "boot"
    BY <1>2, <1>7 DEF ChangeTo
  <2> QED
    BY <1>2, <1>4, <1>6, <1>7, <1>8, <2>1, KeptMeant
<1>10. /\ ok'["sys"] = ok["sys"] /\ \A r \in Settings : r # s => ok'[r] = ok[r]
       /\ ok'[s] = ok[s] \cup Intended(chg, ok[s])
  BY <1>5 DEF TypeInv, Types, OkTypes, Settings
<1>11. StoreKept("sys") /\ \A r \in Settings : StoreKept(r)
  BY <1>5 DEF StoreKept
<1>12. Touched(p)
  BY <1>5, <1>6, <1>10, <1>11 DEF Touched
<1>e. \A r \in Settings : Effective(r)' = Effective(r) /\ ok[r] \subseteq ok'[r]
  BY <1>5, <1>10 DEF Effective, Whole, Default, Settings
<1>13. Leaves(p)
  <2>1. Safe' = Safe
    BY <1>5, <1>10, <1>11, SysStays
  <2>2. \A r \in Settings : Held(r) => Held(r)'
    BY <1>5, <1>e DEF Held, Whole
  <2> QED
    BY <2>1, <2>2 DEF Leaves, KeptInv, SysFacts, SetFacts
<1> DEFINE N == l.now \cup {"mine", "meant"}
           k == Knowing(N, l.then)
           M == ({"calm", "probed"} \cap l.now) \cup {"mine", "meant", "even", "same", "both"}
           more == SavePlain(s) \o <<Do("saved")>>
           R == KeptRules(act[p].op)
<1>14. N \in SUBSET Claims /\ M \in SUBSET Claims /\ {"even", "mine"} \subseteq N
       /\ M \subseteq (N \ OfSetting) \cup {"even", "same", "both"}
       /\ m.now \subseteq (M \ {"meant"}) \cup {"mine", "even"}
       /\ {"meant", "both", "mine"} \subseteq M
  BY <1>8, KeptClaims DEF Ground, OfSetting, Calmly
<1>15. k \in Label /\ k.now = N
  BY <1>8, <1>14, KnowingLabel
<1> DEFINE j == Knowing(M, l.then)
<1>16. j \in Label
  BY <1>8, <1>14, KnowingLabel
<1> HIDE DEF N, M, R
<1>17. Path(R, SavePlain(s), k, j)
  BY <1>6, <1>8, <1>14, KeptSaveSet DEF R
<1>18. Path(R, <<Do("saved")>>, j, m)
  <2> DEFINE y == Do("saved")
  <2>1. "saved" \in Words \ FileWords /\ "saved" \notin Catchers
        /\ "saved" \notin {"loadPerm", "editPerm", "loadBoost", "edit", "tune"}
        /\ "saved" \notin Scanning /\ "saved" \notin Inserting
    BY DEF Words, FileWords, Catchers, Scanning, Inserting
  <2>2. CallNeeds(act[p].op, "saved") = {"meant", "both", "mine"} /\ CallGains("saved") = {"mine", "even"}
    BY DEF CallNeeds, CallGains
  <2>3. y \in Steps /\ <<Knowing(M, l.then), y, Knowing(m.now, l.then)>> \in R
    BY <1>8, <1>14, <2>1, <2>2, KeptCall DEF R
  <2> HIDE DEF y
  <2>4. <<j, y, m>> \in R
    BY <1>8, <2>3
  <2> HIDE DEF j
  <2>5. Path(R, <<y>>, j, m)
    BY <1>8, <1>16, <2>3, <2>4, PathOne
  <2> QED
    BY <2>5 DEF y
<1> HIDE DEF j, k
<1>19. Path(R, more, k, m)
  BY <1>17, <1>18, PathCat
<1>20. KnowsKept(p, N)'
  <2>1. SysPart(p, l.now) /\ SetPart(p, l.now) /\ LostPart(p, l.now) /\ act'[p].op = act[p].op
    BY <1>4, <1>5 DEF KeptGoes, KnowsKept, Moved
  <2>2. SysPart(p, N)'
    <3>1. N \cap FileClaims \subseteq l.now \cup {"probed"} /\ ("probed" \in N => "probed" \in l.now)
      BY DEF N, FileClaims
    <3> QED
      BY <1>5, <1>10, <1>11, <2>1, <3>1, KnownSys
  <2>3. LostPart(p, N)'
    <3>1. "lost" \notin N
      BY <1>8 DEF N, Ground
    <3> QED
      BY <1>5, <1>10, <2>1, <3>1, KnownLost
  <2>4. ASSUME SetGate(s) PROVE KnowsSet(s, p, N)'
    <3>1. KnowsSet(s, p, l.now) /\ Even(s)
      <4>1. KnowsSet(s, p, l.now)
        BY <1>6, <2>1, <2>4 DEF SetPart
      <4> QED
        BY <1>8, <4>1 DEF KnowsSet, Calmly
    <3>3. Even(s)'
      BY <1>e, <3>1 DEF Even
    <3>4. new \in Intended(chg, ok[s])
      BY <1>9, <2>4
    <3>5. Intended(act[p].chg, act[p].base)' = Intended(act'[p].chg, act'[p].base)
      BY DEF Intended, Changed
    <3>6. Intended(act[p].chg, act[p].base)' = Intended(chg, ok[s])
      BY <1>5, <3>5
    <3>7. N \cap SettingClaims \subseteq {"even", "mine", "meant"}
      BY <1>8 DEF N, Ground, SettingClaims
    <3>8. act'[p][s] \in ok'[s] /\ act'[p][s] \in Intended(act[p].chg, act[p].base)'
      BY <1>5, <1>10, <3>4, <3>6
    <3> QED
      BY <3>3, <3>7, <3>8 DEF KnowsSet, SettingClaims
  <2>5. SetPart(p, N)'
    <3>1. SetGate(s)' = SetGate(s)
      BY <1>5, <1>10, GateStays
    <3>2. StoreOf(act'[p].op) = s
      BY <1>6, <2>1
    <3>3. (SetGate(s) /\ On(s, p) => KnowsSet(s, p, N))'
      BY <2>4, <3>1
    <3> QED
      BY <3>2, <3>3 DEF SetPart
  <2> QED
    BY <2>2, <2>3, <2>5 DEF KnowsKept
<1>21. Moved(p, more) /\ KnowsKept(p, k.now)' /\ Path(KeptRules(act[p].op), more, k, m)
  BY <1>5, <1>15, <1>19, <1>20 DEF R
<1> HIDE DEF more
<1> QED
  BY <1>3, <1>4, <1>12, <1>13, <1>15, <1>21, KeptMoved

-----------------------------------------------------------------------------
(* What is on the way where a setting was saved. *)
LEMMA KeptAtSaved ==
    ASSUME TypeInv, NEW p \in Procs, NEW l, NEW m, NEW e, KeptGoes(p, l, m, e),
           act[p].todo # <<>>, Head(act[p].todo)[1] = "saved"
    PROVE  /\ {"meant", "both", "mine"} \subseteq l.now
           /\ m.now \subseteq (l.now \ {"meant"}) \cup {"mine", "even"} /\ m \in Label
           /\ act[p].chg[1] = StoreOf(act[p].op) /\ StoreOf(act[p].op) \in Settings
           /\ On(StoreOf(act[p].op), p)
<1> DEFINE x == Head(act[p].todo)
           op == act[p].op
<1>1. KeptRule(op, l, x, m) /\ m \in Label
  BY DEF KeptGoes
<1>2. /\ KeptNeeds(op, x) = {"meant", "both", "mine"} /\ KeptGains(x) = {"mine", "even"}
      /\ KeptLoses(x) = {"meant"} /\ ~Anyway(l, x)
  BY DEF KeptNeeds, KeptGains, KeptLoses, CallNeeds, CallGains, FileWords, Anyway
<1>3. \E a, b, c \in Label : Goes(p, a, b, c)
  BY TypeHere
<1>4. PICK a, b, c \in Label : Goes(p, a, b, c)
  BY <1>3
<1>5. Fits(op, x) /\ TypeNeeds(op, x) \subseteq a.now /\ KnowsTypes(act[p], a.now)
  BY <1>4 DEF Goes, TypeRule
<1>6. op \in ChangeOps \cup {"boot"} /\ act[p].chg \in Requests(op)
  BY <1>5 DEF Fits, TypeNeeds, KnowsTypes
<1>7. act[p].chg[1] = StoreOf(op) /\ StoreOf(op) \in Settings /\ StoreOf(op) \in Touches(op)
  BY <1>6, ChosenOf
<1> HIDE DEF x
<1> QED
  BY <1>1, <1>2, <1>7 DEF KeptRule, On

(* A setting was saved: it is what the user meant. *)
LEMMA KeptSaved ==
    ASSUME TypeInv, KeptInv, NEW p \in Procs, act[p].todo # <<>>, Saved(p)
    PROVE  KeptInv'
<1> DEFINE a == [act[p] EXCEPT !.base = {}]
<1>0. Head(act[p].todo)[1] = "saved"
  BY AtHead DEF Saved
<1>1. act[p] \in ActType /\ act[p].op # "idle"
  BY TypeHere
<1>2. /\ Continue(p, a, <<>>) /\ UNCHANGED file /\ HistoryKept
      /\ ok' = [ok EXCEPT ![act[p].chg[1]] = Intended(act[p].chg, act[p].base)]
  BY Zenon DEF Saved, HistoryKept
<1>3. /\ a \in ActType /\ a.op = act[p].op /\ a.todo = act[p].todo /\ a.sys = act[p].sys
      /\ a.perm = act[p].perm /\ a.boost = act[p].boost
  BY <1>1 DEF ActType
<1> HIDE DEF a
<1>4. <<>> \in Seq(Steps)
  OBVIOUS
<1>5. /\ Moved(p, <<>>) /\ act'[p].op = act[p].op /\ act'[p].sys = act[p].sys
      /\ act'[p].perm = act[p].perm /\ act'[p].boost = act[p].boost
  BY <1>2, <1>3, <1>4, MovedBy DEF Moved
<1>6. \E l, m, e \in Label : KeptGoes(p, l, m, e)
  BY KeptHere
<1>7. PICK l, m, e \in Label : KeptGoes(p, l, m, e)
  BY <1>6
<1>8. /\ {"meant", "both", "mine"} \subseteq l.now
      /\ m.now \subseteq (l.now \ {"meant"}) \cup {"mine", "even"} /\ m \in Label
      /\ act[p].chg[1] = StoreOf(act[p].op) /\ StoreOf(act[p].op) \in Settings
      /\ On(StoreOf(act[p].op), p)
  BY <1>0, <1>7, KeptAtSaved
<1>9. PICK s \in Settings : s = StoreOf(act[p].op)
  BY <1>8
<1>10. /\ ok'["sys"] = ok["sys"] /\ \A r \in Settings : r # s => ok'[r] = ok[r]
       /\ ok'[s] = Intended(act[p].chg, act[p].base)
  BY <1>2, <1>8, <1>9 DEF TypeInv, Types, OkTypes, Settings
<1>11. StoreKept("sys") /\ \A r \in Settings : StoreKept(r)
  BY <1>2 DEF StoreKept
<1>12. Touched(p)
  BY <1>2, <1>8, <1>9, <1>10, <1>11 DEF Touched
<1>13. act'[p][s] = act[p][s]
  BY <1>5 DEF Settings
<1>14. ASSUME SetGate(s) PROVE KnowsSet(s, p, m.now)' /\ Held(s)'
  <2>1. KnowsSet(s, p, l.now)
    BY <1>7, <1>8, <1>9, <1>14 DEF KeptGoes, KnowsKept, SetPart
  <2>2. /\ act[p][s] \in ok'[s] /\ Whole(<<s, "json">>) /\ file[<<s, "json">>] = act[p][s]
        /\ file[<<s, "bin">>] = act[p][s]
    BY <1>8, <1>10, <2>1 DEF KnowsSet
  <2>3. Whole(<<s, "bin">>) /\ Whole(<<s, "bin">>)' /\ Whole(<<s, "json">>)'
        /\ file'[<<s, "json">>] = act[p][s] /\ file'[<<s, "bin">>] = act[p][s]
    BY <1>2, <2>2 DEF Whole
  <2>4. Effective(s)' = act[p][s]
    BY <2>3 DEF Effective
  <2>5. Even(s)'
    BY <2>2, <2>4 DEF Even
  <2>6. "setTorn" \notin m.now /\ "setBinTorn" \notin m.now /\ "meant" \notin m.now
    BY <1>8, <2>1, <2>2, <2>3 DEF KnowsSet, Whole
  <2>7. KnowsSet(s, p, m.now)'
    BY <1>13, <2>2, <2>3, <2>5, <2>6 DEF KnowsSet
  <2> QED
    BY <2>2, <2>3, <2>7 DEF Held
<1>15. Leaves(p)
  <2>1. Safe' = Safe
    BY <1>2, <1>10, <1>11, SysStays
  <2>2. \A r \in Settings : On(r, p) => r = s
    BY <1>9, StoreOn
  <2>3. \A r \in Settings : SetGate(r) /\ On(r, p) => Held(r)'
    BY <1>14, <2>2
  <2> QED
    BY <2>1, <2>3 DEF Leaves, KeptInv, SysFacts
<1>16. KnowsKept(p, m.now)'
  <2>1. SysPart(p, l.now) /\ SetPart(p, l.now) /\ LostPart(p, l.now)
    BY <1>7 DEF KeptGoes, KnowsKept
  <2>2. SysPart(p, m.now)'
    <3>1. m.now \cap FileClaims \subseteq l.now \cup {"probed"} /\ ("probed" \in m.now => "probed" \in l.now)
      BY <1>8 DEF FileClaims
    <3> QED
      BY <1>2, <1>5, <1>10, <1>11, <2>1, <3>1, KnownSys
  <2>3. LostPart(p, m.now)'
    <3>1. "lost" \in m.now => "lost" \in l.now
      BY <1>8
    <3> QED
      BY <1>2, <1>5, <1>10, <2>1, <3>1, KnownLost
  <2>4. SetPart(p, m.now)'
    <3>1. SetGate(s)' = SetGate(s)
      BY <1>2, <1>10, GateStays
    <3>2. StoreOf(act'[p].op) = s
      BY <1>5, <1>9
    <3>3. (SetGate(s) /\ On(s, p) => KnowsSet(s, p, m.now))'
      BY <1>14, <3>1
    <3> QED
      BY <3>2, <3>3 DEF SetPart
  <2> QED
    BY <2>2, <2>3, <2>4 DEF KnowsKept
<1>17. Path(KeptRules(act[p].op), <<>>, m, m)
  BY <1>8, KeptPathNil
<1> QED
  BY <1>1, <1>5, <1>7, <1>8, <1>12, <1>15, <1>16, <1>17, KeptMoved

-----------------------------------------------------------------------------
(* Choices in menus *)

(* What is on the way where a menu is shown. *)
LEMMA KeptAtMenu ==
    ASSUME TypeInv, NEW p \in Procs, NEW l, NEW m, NEW e, KeptGoes(p, l, m, e),
           act[p].todo # <<>>, NEW what \in {"edit", "editPerm"}, Head(act[p].todo)[1] = what,
           Asks(Head(act[p].todo)) \subseteq Touches(act[p].op)
    PROVE  /\ Calmly \subseteq l.now /\ l.now \subseteq Ground /\ "mine" \in l.now
           /\ m.now \subseteq l.now
           /\ l.now \in SUBSET Claims /\ l.then \in SUBSET Claims
           /\ l = Knowing(l.now, l.then) /\ l \in Label /\ m \in Label
           /\ act[p].op = IF what = "edit" THEN "editBoost" ELSE "editPerm"
           /\ what = "editPerm" => "perm" \in Touches(act[p].op)
<1> DEFINE x == Head(act[p].todo)
           op == act[p].op
<1>1. KeptRule(op, l, x, m) /\ l \in Label /\ m \in Label
  BY DEF KeptGoes
<1>2. /\ KeptNeeds(op, x) = Calmly \cup {"mine"} /\ KeptGains(x) = {} /\ KeptLoses(x) = {}
      /\ ~Anyway(l, x) /\ x[1] \in Inserting
  BY DEF KeptNeeds, KeptGains, KeptLoses, CallNeeds, CallGains, FileWords, Anyway, Inserting
<1>3. \E a, b, c \in Label : Goes(p, a, b, c)
  BY TypeHere
<1>4. PICK a, b, c \in Label : Goes(p, a, b, c)
  BY <1>3
<1>5. Fits(op, x)
  BY <1>4 DEF Goes, TypeRule
<1>6. op = IF what = "edit" THEN "editBoost" ELSE "editPerm"
  BY <1>5 DEF Fits
<1>7. what = "editPerm" => "perm" \in Touches(op)
  BY DEF Asks
<1> HIDE DEF x
<1>8. l.now \in SUBSET Claims /\ l.then \in SUBSET Claims /\ l = Knowing(l.now, l.then)
  BY <1>1, LabelParts
<1> QED
  BY <1>1, <1>2, <1>6, <1>7, <1>8 DEF KeptRule

(* The user chose something: what was known before a menu still is. *)
LEMMA KeptChosen ==
    ASSUME TypeInv, TypeInv', KeptInv, NEW p \in Procs, act[p].todo # <<>>, NEW chg, NEW rest,
           act' = [act EXCEPT ![p].chg = chg, ![p].todo = rest],
           UNCHANGED <<file, locked, mem, gen, crashes, ok, mixed>>,
           NEW N, KnowsKept(p, N), N \subseteq Ground,
           NEW k \in Label, k.now = N, NEW e \in Label, Calmly \subseteq e.now, e.now \subseteq e.then,
           Path(KeptRules(act[p].op), rest, k, e)
    PROVE  KeptInv'
<1>1. act \in [Procs -> ActType] /\ act' \in [Procs -> ActType] /\ act[p] \in ActType
  BY DEF TypeInv, Types, ActTypes
<1>2. act'[p] = [[act[p] EXCEPT !.chg = chg] EXCEPT !.todo = rest] /\ Others(p)
  BY <1>1 DEF Others
<1>3. /\ act'[p].op = act[p].op /\ act'[p].todo = rest /\ act'[p].sys = act[p].sys
      /\ act'[p].perm = act[p].perm /\ act'[p].boost = act[p].boost
  BY <1>1, <1>2 DEF ActType
<1>4. Unwritten /\ HistoryKept /\ ok'["sys"] = ok["sys"] /\ StoreKept("sys")
      /\ \A s \in Settings : StoreKept(s) /\ ok'[s] = ok[s] /\ act'[p][s] = act[p][s]
  BY <1>3 DEF Unwritten, HistoryKept, StoreKept, Settings
<1>5. SysPart(p, N) /\ SetPart(p, N) /\ LostPart(p, N)
  BY DEF KnowsKept
<1>6. SysPart(p, N)'
  <2>1. N \cap FileClaims \subseteq N \cup {"probed"}
    OBVIOUS
  <2> QED
    BY <1>3, <1>4, <1>5, <2>1, KnownSys
<1>7. SetPart(p, N)'
  <2>1. PICK s \in Settings : s = StoreOf(act[p].op)
    BY DEF StoreOf, Settings
  <2>2. N \cap SettingClaims \subseteq N \cup {"mine"} /\ "meant" \notin N
    BY DEF Ground
  <2>3. "mine" \in N /\ SetGate(s) /\ On(s, p) =>
          act'[p][s] \in ok[s] \/ ("mine" \in N /\ act'[p][s] = act[p][s])
    BY <1>4
  <2> QED
    BY <1>3, <1>4, <1>5, <2>1, <2>2, <2>3, KnownSet
<1>8. LostPart(p, N)'
  BY <1>3, <1>4, <1>5, KnownLost
<1>9. KnowsKept(p, k.now)'
  BY <1>6, <1>7, <1>8 DEF KnowsKept
<1>10. Touched(p) /\ Leaves(p)
  BY <1>4, KeptUnwritten
<1>11. act[p].op # "idle"
  BY TypeHere
<1>12. Path(KeptRules(act[p].op), act'[p].todo, k, e)
  BY <1>3
<1> QED
  BY <1>2, <1>3, <1>9, <1>10, <1>11, <1>12, KeptOn

(* The menu is left. *)
LEMMA KeptLeft ==
    ASSUME TypeInv, KeptInv, NEW p \in Procs, act[p].todo # <<>>,
           NEW l, NEW m, NEW e, KeptGoes(p, l, m, e), m.now \subseteq l.now, m \in Label,
           Got(p, act[p], <<>>)
    PROVE  KeptInv'
<1>1. act[p] \in ActType /\ <<>> \in Seq(Steps)
  BY TypeHere
<1>2. Path(KeptRules(act[p].op), <<>>, m, m)
  BY KeptPathNil
<1>3. m.now \subseteq l.now \cup {"probed"}
  OBVIOUS
<1>4. "probed" \in m.now => "probed" \in l.now
  OBVIOUS
<1> QED
  BY <1>1, <1>2, <1>3, <1>4, KeptGotSys

(* A choice in the menu of the booster, or none. *)
LEMMA KeptEdit ==
    ASSUME TypeInv, TypeInv', KeptInv, NEW p \in Procs, act[p].todo # <<>>, Edit(p)
    PROVE  KeptInv'
<1> DEFINE R == KeptRules(act[p].op)
           todo == act[p].todo
           c == Do("change")
<1>0. Head(todo)[1] = "edit"
  BY AtHead DEF Edit, Turn
<1>1. Asks(Head(todo)) \subseteq Touches(act[p].op) /\ \E l, m, e \in Label : KeptGoes(p, l, m, e)
  BY KeptHere
<1>2. PICK l, m, e \in Label : KeptGoes(p, l, m, e)
  BY <1>1
<1>w. "edit" \in {"edit", "editPerm"}
  OBVIOUS
<1>3. /\ Calmly \subseteq l.now /\ l.now \subseteq Ground /\ "mine" \in l.now
      /\ m.now \subseteq l.now
      /\ l.now \in SUBSET Claims /\ l.then \in SUBSET Claims
      /\ l = Knowing(l.now, l.then) /\ l \in Label /\ m \in Label
      /\ act[p].op = "editBoost"
  BY <1>0, <1>1, <1>2, <1>w, KeptAtMenu
<1>4. CASE Got(p, act[p], <<>>)
  BY <1>2, <1>3, <1>4, KeptLeft
<1>5. ASSUME NEW chg \in Changes,
             act' = [act EXCEPT ![p].chg = chg, ![p].todo = <<Do("change")>> \o @],
             UNCHANGED <<file, locked, mem, gen, crashes, ok, mixed>>
      PROVE  KeptInv'
  <2>1. /\ Path(R, todo, l, e) /\ e \in Label /\ Calmly \subseteq e.now /\ e.now \subseteq e.then
        /\ KnowsKept(p, l.now)
    BY <1>2 DEF KeptGoes
  <2>2. c \in Steps /\ <<l, c, l>> \in R
    <3>1. CallNeeds(act[p].op, "change") \subseteq l.now
      BY <1>3 DEF CallNeeds
    <3>2. Do("change") \in Steps
          /\ <<Knowing(l.now, l.then), Do("change"), Knowing(l.now, l.then)>> \in KeptRules(act[p].op)
      BY <1>3, <3>1, KeptChoice
    <3> QED
      BY <1>3, <3>2
  <2>a. act[p] \in ActType /\ act \in [Procs -> ActType]
    BY TypeHere DEF TypeInv, Types, ActTypes
  <2> HIDE DEF c, R
  <2>3. Path(R, <<c>>, l, l)
    BY <1>3, <2>2, PathOne
  <2>4. Path(R, <<c>> \o todo, l, e)
    BY <2>1, <2>3, PathCat
  <2> DEFINE rest == <<c>> \o todo
  <2>5. act' = [act EXCEPT ![p].chg = chg, ![p].todo = rest]
    <3>1. act' = [act EXCEPT ![p].chg = chg, ![p].todo = <<c>> \o @]
      BY <1>5 DEF c
    <3> QED
      BY <2>a, <3>1 DEF ActType
  <2> HIDE DEF rest
  <2>6. Path(KeptRules(act[p].op), rest, l, e)
    BY <2>4 DEF rest, R
  <2> QED
    BY <1>3, <1>5, <2>1, <2>5, <2>6, KeptChosen
<1> QED
  BY <1>4, <1>5 DEF Edit

(* The menu of the permissions starts again, whatever was chosen. *)
LEMMA KeptMenuAgain ==
    ASSUME NEW N \in SUBSET Claims, NEW T \in SUBSET Claims, Calmly \subseteq N, N \subseteq Ground, "mine" \in N,
           "perm" \in Touches("editPerm"), NEW active \in BOOLEAN
    PROVE  Path(KeptRules("editPerm"),
                (IF active THEN UpdatePermission \o <<Do("loadPerm")>> ELSE <<Do("change")>>) \o PermissionMenu,
                Knowing(N, T), Knowing(N, T))
<1> DEFINE l == Knowing(N, T)
           R == KeptRules("editPerm")
           first == IF active THEN UpdatePermission \o <<Do("loadPerm")>> ELSE <<Do("change")>>
           c == Do("change")
           d == Do("loadPerm")
<1>1. l \in Label
  BY KnowingLabel
<1>2. c \in Steps /\ <<l, c, l>> \in R
  <2>1. CallNeeds("editPerm", "change") \subseteq N
    BY DEF CallNeeds
  <2> QED
    BY <2>1, KeptChoice
<1>3. d \in Steps /\ <<l, d, l>> \in R
  <2>1. "loadPerm" \in {"loadPerm", "loadBoost"} /\ N \subseteq N \cup {"mine"}
    OBVIOUS
  <2> QED
    BY <2>1, KeptLoad
<1>4. Path(R, UpdatePermission, l, l) /\ Path(R, PermissionMenu, l, l)
  <2>1. Path(R, <<Do("loadPerm"), Do("change")>>, l, l)
    BY KeptLoadChoose
  <2>2. Path(R, <<Do("loadPerm"), Do("editPerm")>>, l, l)
    BY KeptLoadChoose
  <2> QED
    BY <2>1, <2>2 DEF UpdatePermission, PermissionMenu
<1> HIDE DEF l, R, c, d
<1>5. Path(R, <<c>>, l, l) /\ Path(R, <<d>>, l, l)
  BY <1>1, <1>2, <1>3, PathOne
<1>6. Path(R, UpdatePermission \o <<d>>, l, l)
  BY <1>4, <1>5, PathCat
<1>7. Path(R, first, l, l)
  BY <1>5, <1>6 DEF c, d
<1> HIDE DEF first
<1>8. Path(R, first \o PermissionMenu, l, l)
  BY <1>4, <1>7, PathCat
<1> QED
  BY <1>8 DEF first, l, R

(* A choice in the menu of the permissions, or none. *)
LEMMA KeptEditPermission ==
    ASSUME TypeInv, TypeInv', KeptInv, NEW p \in Procs, act[p].todo # <<>>, EditPermission(p)
    PROVE  KeptInv'
<1>0. Head(act[p].todo)[1] = "editPerm"
  BY AtHead DEF EditPermission, Turn
<1>1. Asks(Head(act[p].todo)) \subseteq Touches(act[p].op) /\ \E l, m, e \in Label : KeptGoes(p, l, m, e)
  BY KeptHere
<1>2. PICK l, m, e \in Label : KeptGoes(p, l, m, e)
  BY <1>1
<1>w. "editPerm" \in {"edit", "editPerm"}
  OBVIOUS
<1>3. /\ Calmly \subseteq l.now /\ l.now \subseteq Ground /\ "mine" \in l.now
      /\ m.now \subseteq l.now
      /\ l.now \in SUBSET Claims /\ m \in Label
      /\ act[p].op = "editPerm" /\ "perm" \in Touches(act[p].op)
  BY <1>0, <1>1, <1>2, <1>w, KeptAtMenu
<1>4. CASE Got(p, act[p], <<>>)
  BY <1>2, <1>3, <1>4, KeptLeft
<1>5. ASSUME NEW chg \in Changes,
             act' = [act EXCEPT ![p].chg = chg,
                                ![p].todo = (IF chg[2] \in ActiveModels
                                             THEN UpdatePermission \o <<Do("loadPerm")>>
                                             ELSE <<Do("change")>>) \o PermissionMenu],
             UNCHANGED <<file, locked, mem, gen, crashes, ok, mixed>>
      PROVE  KeptInv'
  <2> DEFINE active == chg[2] \in ActiveModels
             rest == (IF active THEN UpdatePermission \o <<Do("loadPerm")>> ELSE <<Do("change")>>) \o PermissionMenu
             k == Knowing(l.now, Ground)
  <2>1. act' = [act EXCEPT ![p].chg = chg, ![p].todo = rest]
    BY <1>5
  <2>2. active \in BOOLEAN /\ Ground \in SUBSET Claims
    BY KeptClaims
  <2>3. k \in Label /\ k.now = l.now /\ k.then = Ground
    BY <1>3, <2>2, KnowingLabel
  <2>4. Path(KeptRules(act[p].op), rest, k, k)
    <3> HIDE DEF active
    <3> QED
      BY <1>3, <2>2, KeptMenuAgain
  <2>5. KnowsKept(p, l.now)
    BY <1>2 DEF KeptGoes
  <2> HIDE DEF rest, k
  <2> QED
    BY <1>3, <1>5, <2>1, <2>3, <2>4, <2>5, KeptChosen
<1> QED
  BY <1>4, <1>5 DEF EditPermission

-----------------------------------------------------------------------------
(* Operations end and begin; crashes *)

(* A process that did nothing is where it was, while no file changed and   *)
(* no more is claimed.                                                     *)
LEMMA KeptElse ==
    ASSUME NEW q \in Procs, KeptWalk(q), act'[q] = act[q], UNCHANGED file,
           ok'["sys"] = ok["sys"], \A s \in Settings : ok[s] \subseteq ok'[s],
           crashes' = 0 => crashes = 0, SysGate' => SysGate, \A s \in Settings : SetGate(s)' => SetGate(s)
    PROVE  KeptWalk(q)'
<1>1. Sealed' = Sealed /\ Safe' = Safe /\ \A f : Whole(f)' = Whole(f)
  BY DEF Sealed, Safe, Whole
<1>2. SysCalm => SysCalm'
  BY <1>1 DEF SysCalm
<1>3. \A s \in Settings : Effective(s)' = Effective(s)
  BY <1>1 DEF Effective, Default, Settings
<1>4. \A s \in Settings : Even(s) => Even(s)'
  BY <1>3 DEF Even
<1>5. \A s : On(s, q)' = On(s, q)
  BY DEF On
<1>6. ASSUME NEW N, KnowsKept(q, N) PROVE KnowsKept(q, N)'
  <2>1. ASSUME SysGate', On("sys", q)' PROVE KnowsSys(q, N)'
    <3>1. KnowsSys(q, N)
      BY <1>5, <1>6, <2>1 DEF KnowsKept, SysPart
    <3> QED
      BY <1>1, <1>2, <3>1 DEF KnowsSys
  <2>2. PICK s \in Settings : s = StoreOf(act[q].op)
    BY DEF StoreOf, Settings
  <2>3. ASSUME SetGate(s)', On(s, q)' PROVE KnowsSet(s, q, N)'
    <3>1. KnowsSet(s, q, N)
      BY <1>5, <1>6, <2>2, <2>3 DEF KnowsKept, SetPart
    <3>2. act'[q][s] = act[q][s] /\ Intended(act[q].chg, act[q].base)' = Intended(act[q].chg, act[q].base)
      BY DEF Intended, Changed
    <3>3. /\ "even" \in N => Even(s)'
          /\ "mine" \in N => act'[q][s] \in ok'[s]
          /\ "meant" \in N => act'[q][s] \in Intended(act[q].chg, act[q].base)'
      BY <1>4, <3>1, <3>2 DEF KnowsSet
    <3> QED
      BY <1>1, <1>3, <3>1, <3>3 DEF KnowsSet
  <2>4. SetPart(q, N)'
    BY <2>2, <2>3 DEF SetPart
  <2>5. LostPart(q, N)'
    BY <1>5, <1>6 DEF KnowsKept, LostPart
  <2> QED
    BY <2>1, <2>4, <2>5 DEF KnowsKept, SysPart
<1>7. ASSUME act[q].op # "idle"
      PROVE  \E l, e \in Label :
                  /\ KnowsKept(q, l.now)' /\ Calmly \subseteq e.now /\ e.now \subseteq e.then
                  /\ Path(KeptRules(act'[q].op), act'[q].todo, l, e)
  <2>1. PICK l \in Label, e \in Label :
            /\ KnowsKept(q, l.now) /\ Calmly \subseteq e.now /\ e.now \subseteq e.then
            /\ Path(KeptRules(act[q].op), act[q].todo, l, e)
    BY <1>7 DEF KeptWalk
  <2> QED
    BY <1>6, <2>1
<1> QED
  BY <1>7 DEF KeptWalk

(* A process that ended or crashed is idle: what holds of the others, and  *)
(* of the stores that it left.                                             *)
LEMMA KeptIdle ==
    ASSUME TypeInv, KeptInv, NEW p \in Procs, act' = [act EXCEPT ![p] = Idle],
           UNCHANGED file, UNCHANGED mixed, crashes' = 0 => crashes = 0,
           ok'["sys"] = ok["sys"], \A s \in Settings : ok[s] \subseteq ok'[s],
           SysGate' => SysGate, \A s \in Settings : SetGate(s)' => SetGate(s),
           SysGate' /\ Quiet("sys")' => SysCalm',
           \A s \in Settings : SetGate(s)' /\ Quiet(s)' => Even(s)'
    PROVE  KeptInv'
<1>1. Others(p) /\ act'[p] = Idle
  BY IdleEffect DEF TypeInv, Types, ActTypes
<1>2. \A s : ~On(s, p)' /\ \A q \in Procs : On(s, q)' => On(s, q)
  <2>1. Touches(act'[p].op) = {}
    BY <1>1 DEF Touches, Idle
  <2> QED
    BY <1>1, <2>1 DEF On, Others
<1>3. KeptApart'
  BY <1>2 DEF KeptInv, KeptApart
<1>4. SysFacts'
  BY DEF KeptInv, SysFacts, Sealed, Safe, Whole
<1>5. \A s \in Settings : Held(s) => Held(s)'
  BY DEF Held, Whole
<1>6. SetFacts'
  BY <1>5 DEF KeptInv, SetFacts
<1>7. ASSUME NEW q \in Procs PROVE KeptWalk(q)'
  <2>1. CASE q = p
    BY <1>1, <2>1 DEF KeptWalk, Idle
  <2>2. CASE q # p
    <3>1. act'[q] = act[q] /\ KeptWalk(q)
      BY <1>1, <2>2 DEF Others, KeptInv
    <3> QED
      BY <3>1, KeptElse
  <2> QED
    BY <2>1, <2>2
<1> QED
  BY <1>3, <1>4, <1>6, <1>7 DEF KeptInv

(* An operation ends: the stores that it used are at rest. *)
LEMMA KeptEnd ==
    ASSUME TypeInv, KeptInv, NEW p \in Procs, End(p) PROVE KeptInv'
<1>1. /\ act' = [act EXCEPT ![p] = Idle] /\ UNCHANGED file /\ UNCHANGED ok /\ UNCHANGED mixed
      /\ UNCHANGED crashes /\ act[p].op # "idle" /\ act[p].todo = <<>>
  BY DEF End, history
<1>2. SysGate' = SysGate /\ \A s : SetGate(s)' = SetGate(s)
  BY <1>1 DEF SysGate, SetGate, Sealed
<1>3. SysCalm' = SysCalm
  BY <1>1 DEF SysCalm, Sealed, Safe, Whole
<1>4. \A s \in Settings : Even(s)' = Even(s)
  BY <1>1 DEF Even, Effective, Whole, Default, Settings
<1>5. PICK l \in Label, e \in Label :
            /\ KnowsKept(p, l.now) /\ Calmly \subseteq e.now /\ e.now \subseteq e.then
            /\ Path(KeptRules(act[p].op), act[p].todo, l, e)
  BY <1>1 DEF KeptInv, KeptWalk
<1>6. Calmly \subseteq l.now
  BY <1>1, <1>5, PathOfNil
<1>7. Others(p)
  BY <1>1, IdleEffect DEF TypeInv, Types, ActTypes
<1>8. ASSUME NEW s, Quiet(s)', ~Quiet(s) PROVE On(s, p)
  BY <1>7, <1>8 DEF Quiet, On, Others
<1>9. ASSUME SysGate', Quiet("sys")' PROVE SysCalm'
  <2>1. CASE Quiet("sys")
    BY <1>2, <1>3, <1>9, <2>1 DEF KeptInv, SysFacts
  <2>2. CASE ~Quiet("sys")
    <3>1. On("sys", p)
      BY <1>8, <1>9, <2>2
    <3>2. KnowsSys(p, l.now)
      BY <1>2, <1>5, <1>9, <3>1 DEF KnowsKept, SysPart
    <3> QED
      BY <1>3, <1>6, <3>2 DEF KnowsSys, Calmly
  <2> QED
    BY <2>1, <2>2
<1>10. ASSUME NEW s \in Settings, SetGate(s)', Quiet(s)' PROVE Even(s)'
  <2>1. CASE Quiet(s)
    BY <1>2, <1>4, <1>10, <2>1 DEF KeptInv, SetFacts
  <2>2. CASE ~Quiet(s)
    <3>1. On(s, p)
      BY <1>8, <1>10, <2>2
    <3>2. StoreOf(act[p].op) = s
      BY <3>1, StoreOn
    <3>3. KnowsSet(s, p, l.now)
      BY <1>2, <1>5, <1>10, <3>1, <3>2 DEF KnowsKept, SetPart
    <3> QED
      BY <1>4, <1>6, <3>3 DEF KnowsSet, Calmly
  <2> QED
    BY <2>1, <2>2
<1> QED
  BY <1>1, <1>2, <1>9, <1>10, KeptIdle

(* A process crashes, wherever it is.  Of the first crash the fingerprint, *)
(* if it was probed, comes whole; nothing is claimed of what a second one  *)
(* leaves.  A setting that the process used may be the default from now.   *)
LEMMA KeptCrash ==
    ASSUME TypeInv, KeptInv, NEW p \in Procs, Crash(p) PROVE KeptInv'
<1>1. /\ act' = [act EXCEPT ![p] = Idle] /\ UNCHANGED file /\ UNCHANGED mixed
      /\ crashes' = crashes + 1
      /\ ok' = [s \in Settings \cup {"sys"} |->
                  ok[s] \cup IF s \in Settings \cap Touches(act[p].op) THEN {Default(s)} ELSE {}]
  BY DEF Crash
<1>2. crashes \in Nat
  BY DEF TypeInv, Types, CountTypes
<1>s. "sys" \notin Settings
  BY DEF Settings
<1>3. ok'["sys"] = ok["sys"] /\ \A s \in Settings : ok'[s] = ok[s] \cup IF On(s, p) THEN {Default(s)} ELSE {}
  BY <1>1, <1>s DEF On
<1>4. crashes' # 0 /\ (crashes' = 1 => crashes = 0) /\ Sealed' = Sealed
  BY <1>1, <1>2, <1>3 DEF Sealed
<1>5. SysGate' => SysGate /\ crashes = 0 /\ Sealed
  BY <1>1, <1>4 DEF SysGate
<1>6. \A s : SetGate(s)' => SetGate(s)
  BY <1>1, <1>5 DEF SetGate
<1>7. ASSUME SysGate' PROVE SysCalm'
  <2>1. Safe
    BY <1>5, <1>7 DEF KeptInv, SysFacts
  <2> QED
    BY <1>1, <1>4, <2>1 DEF SysCalm, Safe, Whole
<1>8. \A s \in Settings : Effective(s)' = Effective(s)
  BY <1>1 DEF Effective, Whole, Default, Settings
<1>9. Others(p) /\ act'[p] = Idle
  BY <1>1, IdleEffect DEF TypeInv, Types, ActTypes
<1>10. ASSUME NEW s \in Settings, SetGate(s)', Quiet(s)' PROVE Even(s)'
  <2>1. SetGate(s)
    BY <1>6, <1>10
  <2>2. CASE On(s, p)
    <3>1. Held(s) /\ Default(s) \in ok'[s] /\ ok[s] \subseteq ok'[s]
      BY <1>3, <2>1, <2>2 DEF KeptInv, SetFacts
    <3>2. Effective(s) \in ok'[s]
      BY <3>1 DEF Held, Effective
    <3> QED
      BY <1>8, <3>2 DEF Even
  <2>3. CASE ~On(s, p)
    <3>1. \A q \in Procs : q # p => ~On(s, q)
      BY <1>9, <1>10 DEF Others, Quiet, On
    <3>2. Quiet(s)
      BY <2>3, <3>1 DEF Quiet, On
    <3>3. Even(s)
      BY <2>1, <3>2 DEF KeptInv, SetFacts
    <3> QED
      BY <1>3, <1>8, <3>3 DEF Even
  <2> QED
    BY <2>2, <2>3
<1>11. \A s \in Settings : ok[s] \subseteq ok'[s]
  BY <1>3
<1> QED
  BY <1>1, <1>3, <1>4, <1>5, <1>6, <1>7, <1>10, <1>11, KeptIdle

(* An operation begins: if it meets another one in a store, that is noted, *)
(* and if it does not, the store is at rest.                               *)
LEMMA KeptBegin ==
    ASSUME TypeInv, KeptInv, NEW p \in Procs, Boot(p) \/ Begin(p) PROVE KeptInv'
<1>0. act \in [Procs -> ActType]
  BY DEF TypeInv, Types, ActTypes
<1>1. PICK op \in Ops : \E chg :
        /\ IF op \in Told THEN chg \in Requests(op) ELSE chg = None
        /\ Enter(p, op, chg)
  BY BeginEffect
<1>2. PICK chg :
        /\ IF op \in Told THEN chg \in Requests(op) ELSE chg = None
        /\ Enter(p, op, chg)
  BY <1>1
<1>3. /\ act[p].op = "idle" /\ Others(p) /\ act'[p].op = op /\ act'[p].todo = Program(op)
      /\ mixed' = Overlap(p, op) /\ UNCHANGED file /\ UNCHANGED ok /\ UNCHANGED crashes
  <2>1. chg \in Requests(op) \cup {None}
    BY <1>2
  <2> QED
    BY <1>0, <1>2, <2>1, EnterEffect
<1>4. \A s \in Stores : ~mixed'[s] =>
          ~mixed[s] /\ (s \in Touches(op) => \A q \in Procs \ {p} : ~On(s, q))
  BY <1>3 DEF Overlap, On
<1>5. /\ \A s : ~On(s, p) /\ (On(s, p)' <=> s \in Touches(op))
      /\ \A q \in Procs \ {p} : act'[q] = act[q] /\ \A s : On(s, q)' = On(s, q)
  BY <1>3 DEF On, Others, Touches
<1>6. "sys" \in Stores /\ Settings \subseteq Stores
  BY DEF Stores, Settings
<1>7. SysGate' => SysGate /\ ~mixed'["sys"]
  BY <1>3, <1>4, <1>6 DEF SysGate, Sealed
<1>8. \A s \in Settings : SetGate(s)' => SetGate(s) /\ ~mixed'[s]
  BY <1>3, <1>4, <1>6, <1>7 DEF SetGate
<1>9. Sealed' = Sealed /\ Safe' = Safe /\ SysCalm' = SysCalm
  BY <1>3 DEF Sealed, Safe, SysCalm, Whole
<1>10. \A s \in Settings : Even(s)' = Even(s) /\ Held(s)' = Held(s)
  BY <1>3 DEF Even, Held, Effective, Whole, Default, Settings
<1>11. \A s : Quiet(s)' => Quiet(s)
  BY <1>5 DEF Quiet, On
<1>12. \A s \in Stores : ~mixed'[s] /\ s \in Touches(op) => Quiet(s)
  BY <1>4, <1>5 DEF Quiet, On
<1>13. KeptApart'
  BY <1>4, <1>5 DEF KeptInv, KeptApart
<1>14. SysFacts'
  BY <1>3, <1>7, <1>9, <1>11 DEF KeptInv, SysFacts
<1>15. SetFacts'
  BY <1>8, <1>10, <1>11 DEF KeptInv, SetFacts
<1>16. KnowsKept(p, Calmly)'
  <2>1. SysPart(p, Calmly)'
    <3>1. ASSUME SysGate', On("sys", p)' PROVE KnowsSys(p, Calmly)'
      <4>1. SysCalm'
        BY <1>5, <1>6, <1>7, <1>9, <1>12, <3>1 DEF KeptInv, SysFacts
      <4> QED
        BY <4>1 DEF KnowsSys, Calmly
    <3> QED
      BY <3>1 DEF SysPart
  <2>2. PICK s \in Settings : s = StoreOf(op)
    BY DEF StoreOf, Settings
  <2>3. ASSUME SetGate(s)', On(s, p)' PROVE KnowsSet(s, p, Calmly)'
    <3>1. Even(s)'
      BY <1>5, <1>6, <1>8, <1>10, <1>12, <2>3 DEF KeptInv, SetFacts
    <3> QED
      BY <3>1 DEF KnowsSet, Calmly
  <2>4. SetPart(p, Calmly)'
    BY <1>3, <2>2, <2>3 DEF SetPart
  <2>5. LostPart(p, Calmly)'
    BY DEF LostPart, Calmly
  <2> QED
    BY <2>1, <2>4, <2>5 DEF KnowsKept
<1>17. KeptWalk(p)'
  <2>1. PICK l \in Label, e \in Label :
              /\ l.now = Calmly /\ Calmly \subseteq e.now /\ e.now \subseteq e.then
              /\ Path(KeptRules(op), Program(op), l, e)
    BY KeptProgram
  <2>2. KnowsKept(p, l.now)'
    BY <1>16, <2>1
  <2>3. \E k, f \in Label :
              /\ KnowsKept(p, k.now)' /\ Calmly \subseteq f.now /\ f.now \subseteq f.then
              /\ Path(KeptRules(act'[p].op), act'[p].todo, k, f)
    BY <1>3, <2>1, <2>2
  <2> QED
    BY <2>3 DEF KeptWalk
<1>18. ASSUME NEW q \in Procs PROVE KeptWalk(q)'
  <2>1. CASE q = p
    BY <1>17, <2>1
  <2>2. CASE q # p
    <3>1. act'[q] = act[q] /\ KeptWalk(q)
      BY <1>5, <2>2 DEF KeptInv
    <3>2. crashes' = 0 => crashes = 0
      BY <1>3
    <3> QED
      BY <1>3, <1>7, <1>8, <3>1, <3>2, KeptElse
  <2> QED
    BY <2>1, <2>2
<1> QED
  BY <1>13, <1>14, <1>15, <1>18 DEF KeptInv

(* A step that changes nothing. *)
LEMMA KeptStutter ==
    ASSUME KeptInv, UNCHANGED vars PROVE KeptInv'
<1>1. /\ UNCHANGED file /\ UNCHANGED act /\ UNCHANGED crashes /\ UNCHANGED ok /\ UNCHANGED mixed
  BY DEF vars
<1>2. SysGate' = SysGate /\ Sealed' = Sealed /\ \A s : SetGate(s)' = SetGate(s)
  BY <1>1 DEF SysGate, SetGate, Sealed
<1>3. Safe' = Safe /\ SysCalm' = SysCalm
  BY <1>1 DEF SysCalm, Sealed, Safe, Whole
<1>4. \A s \in Settings : Even(s)' = Even(s) /\ Held(s)' = Held(s)
  BY <1>1 DEF Even, Held, Effective, Whole, Default, Settings
<1>5. \A s : Quiet(s)' = Quiet(s) /\ \A q \in Procs : On(s, q)' = On(s, q)
  BY <1>1 DEF Quiet, On
<1>6. KeptApart'
  BY <1>1, <1>5 DEF KeptInv, KeptApart
<1>7. SysFacts'
  BY <1>1, <1>2, <1>3, <1>5 DEF KeptInv, SysFacts
<1>8. SetFacts'
  BY <1>2, <1>4, <1>5 DEF KeptInv, SetFacts
<1>9. \A q \in Procs : KeptWalk(q)'
  BY <1>1, <1>2, KeptElse DEF KeptInv
<1> QED
  BY <1>6, <1>7, <1>8, <1>9 DEF KeptInv

-----------------------------------------------------------------------------
(* The invariant *)

(* A step of the settings. *)
LEMMA KeptSettings ==
    ASSUME TypeInv, TypeInv', KeptInv, NEW p \in Procs, Step(p) \/ Edit(p) \/ EditPermission(p), ~End(p),
           Head(act[p].todo) \in SettingSteps \/ Head(act[p].todo)[1] = "editPerm"
    PROVE  KeptInv'
<1> DEFINE x == Head(act[p].todo)
<1>1. act[p].todo # <<>>
  BY Kinds
<1>2. CASE x[1] = "loadPerm"
  BY <1>2, Kinds, KeptLoadPerm
<1>3. CASE x[1] = "loadBoost"
  BY <1>3, Kinds, KeptLoadBoost
<1>4. CASE x[1] \in {"change", "tune"}
  BY <1>1, <1>4, Kinds, KeptChange
<1>5. CASE x[1] = "saved"
  BY <1>1, <1>5, Kinds, KeptSaved
<1>6. CASE x[1] = "edit"
  BY <1>1, <1>6, Kinds, KeptEdit
<1>7. CASE x[1] = "editPerm"
  BY <1>1, <1>7, Kinds, KeptEditPermission
<1>8. CASE x[1] = "total"
  BY <1>1, <1>8, Kinds, KeptLocks
<1>9. CASE x[1] \in {"fit", "forget"}
  BY <1>1, <1>9, Kinds, KeptLocks
<1>10. CASE x[1] \in {"writable", "readonly"}
  BY <1>1, <1>10, Kinds, KeptSetFileLock
<1>11. ASSUME NEW s \in Settings, x[2] = s, x[1] \in {"open", "fill", "remove"} PROVE KeptInv'
  <2>1. CASE x[1] = "open"
    BY <1>1, <1>11, <2>1, Kinds, KeptOpenSet
  <2>2. CASE x[1] = "fill"
    BY <1>1, <1>11, <2>2, Kinds, KeptFillSet
  <2>3. CASE x[1] = "remove"
    BY <1>1, <1>11, <2>3, Kinds, KeptRemoveSet
  <2> QED
    BY <1>11, <2>1, <2>2, <2>3
<1> QED
  BY <1>2, <1>3, <1>4, <1>5, <1>6, <1>7, <1>8, <1>9, <1>10, <1>11 DEF SettingSteps

(* A step of the fingerprint, or of the arbiter's lock. *)
LEMMA KeptSilicon ==
    ASSUME TypeInv, KeptInv, NEW p \in Procs, Step(p) \/ Edit(p) \/ EditPermission(p), ~End(p),
           Head(act[p].todo) \in SiliconSteps
    PROVE  KeptInv'
<1> DEFINE x == Head(act[p].todo)
<1>1. act[p].todo # <<>>
  BY Kinds
<1>2. CASE x[1] \in {"probe", "orBlank", "catch", "require"}
  BY <1>1, <1>2, Kinds, KeptProbe
<1>3. CASE x[1] = "loadSys"
  BY <1>3, Kinds, KeptLoadSys
<1>4. CASE x[1] = "rename"
  BY <1>1, <1>4, Kinds, KeptRename
<1>5. CASE x[1] \in {"lock", "unlock"}
  BY <1>1, <1>5, Kinds, KeptLocks
<1>6. CASE x[1] \in {"syncIfZero", "calibrateIfZero"}
  BY <1>1, <1>6, Kinds, KeptSync
<1>7. ASSUME x[2] = "sys", x[1] \in {"open", "fill", "remove"} PROVE KeptInv'
  <2>1. CASE x[1] = "open"
    BY <1>1, <1>7, <2>1, Kinds, KeptOpenSys
  <2>2. CASE x[1] = "fill"
    BY <1>1, <1>7, <2>2, Kinds, KeptFillSys
  <2>3. CASE x[1] = "remove"
    BY <1>1, <1>7, <2>3, Kinds, KeptRemoveSys
  <2> QED
    BY <1>7, <2>1, <2>2, <2>3
<1> QED
  BY <1>2, <1>3, <1>4, <1>5, <1>6, <1>7 DEF SiliconSteps

(* Every step keeps it. *)
LEMMA KeptNext ==
    ASSUME TypeInv, KeptInv, [Next]_vars PROVE KeptInv'
<1>0. TypeInv'
  BY TypeNext
<1>1. ASSUME NEW p \in Procs, Step(p) \/ Edit(p) \/ EditPermission(p), ~End(p)
      PROVE  KeptInv'
  <2>1. CASE Head(act[p].todo) \in SettingSteps \/ Head(act[p].todo)[1] = "editPerm"
    BY <1>0, <1>1, <2>1, KeptSettings
  <2>2. CASE Head(act[p].todo) \in RegistrySteps
    BY <1>1, <2>2, KeptRegistry
  <2>3. CASE Head(act[p].todo) \in SiliconSteps
    BY <1>1, <2>3, KeptSilicon
  <2> QED
    BY <1>1, <2>1, <2>2, <2>3, StepKinds
<1>2. ASSUME NEW p \in Procs, End(p) PROVE KeptInv'
  BY <1>2, KeptEnd
<1>3. ASSUME NEW p \in Procs, Boot(p) \/ Begin(p) PROVE KeptInv'
  BY <1>3, KeptBegin
<1>4. ASSUME NEW p \in Procs, Crash(p) PROVE KeptInv'
  BY <1>4, KeptCrash
<1>5. CASE UNCHANGED vars
  BY <1>5, KeptStutter
<1> QED
  BY <1>1, <1>2, <1>3, <1>4, <1>5 DEF Next

(* It holds at first: the fingerprint is there or not, in both files or in *)
(* one.                                                                    *)
LEMMA KeptInit ==
    ASSUME Init PROVE KeptInv
<1>1. \A p \in Procs : act[p].op = "idle"
  BY DEF Init, Idle
<1>2. \A s : \A p \in Procs : ~On(s, p)
  BY <1>1 DEF On, Touches
<1>3. SysFacts
  <2>1. Absent # Torn /\ "probed" \notin {Absent, Torn}
    BY GovernorAssumption DEF Silicon
  <2>2. ok["sys"] = {file[<<"sys", "bin">>]} /\ file[<<"sys", "bin">>] \in {"probed", Absent}
        /\ file[<<"sys", "json">>] \in {"probed", Absent}
    BY FileInit
  <2>3. Sealed => Whole(<<"sys", "bin">>)
    BY <2>1, <2>2 DEF Sealed, Whole
  <2> QED
    BY <2>1, <2>2, <2>3 DEF SysFacts, SysCalm, Safe
<1>4. SetFacts
  <2>1. /\ ok["perm"] = {PermDefault}
        /\ ok["boost"] = {IF Whole(<<"boost", "json">>) THEN file[<<"boost", "json">>] ELSE BoosterDefault}
    BY OkInit
  <2>2. ~Whole(<<"perm", "json">>)
    BY FileInit DEF Whole
  <2>3. Effective("boost") \in ok["boost"] /\ Held("boost")
    BY <2>1 DEF Effective, Default, Held
  <2>4. Effective("perm") \in ok["perm"] /\ Held("perm")
    BY <2>1, <2>2 DEF Effective, Default, Held
  <2> QED
    BY <2>3, <2>4 DEF SetFacts, Even, Settings
<1> QED
  BY <1>1, <1>2, <1>3, <1>4 DEF KeptInv, KeptApart, KeptWalk

(* What the users set is what a load gives. *)
LEMMA KeptSettingsHold ==
    ASSUME KeptInv PROVE SettingsKept
<1> SUFFICES ASSUME NEW s \in Settings, ~mixed[s], Quiet(s),
                    s = "boost" => /\ ~mixed["sys"]
                                   /\ crashes = 0 \/ (crashes = 1 /\ ok["sys"] = {"probed"})
             PROVE  Effective(s) \in ok[s]
  BY DEF SettingsKept
<1>1. SetGate(s)
  BY DEF SetGate, SysGate, Sealed, Settings
<1> QED
  BY <1>1 DEF KeptInv, SetFacts, Even

(* The fingerprint can be read, from one of its files. *)
LEMMA KeptTruthHolds ==
    ASSUME TypeInv, KeptInv PROVE TruthSurvives
<1> SUFFICES ASSUME ok["sys"] = {"probed"}, ~mixed["sys"], crashes <= 1, Quiet("sys"),
                    file[<<"sys", "json">>] = Torn
             PROVE  Whole(<<"sys", "bin">>)
  BY DEF TruthSurvives
<1>1. crashes = 0 \/ crashes = 1
  BY DEF TypeInv, Types, CountTypes
<1>2. Safe
  BY <1>1 DEF KeptInv, SysFacts, SysGate, Sealed, SysCalm
<1> QED
  BY <1>2 DEF Safe, Whole

(* While operations do not overlap, a load gives what the users set, the   *)
(* last value of each setting; each file is truncated before it is written *)
(* (save_booster_settings, PermissionSchema::save), so that a crash in the *)
(* middle of an operation on a setting may also leave the default.  No     *)
(* other value, and no other crash, comes between.                         *)
THEOREM SettingsAreKept == Spec => []SettingsKept
<1>1. Init => TypeInv /\ KeptInv
  BY TypeInit, KeptInit
<1>2. (TypeInv /\ KeptInv) /\ [Next]_vars => (TypeInv /\ KeptInv)'
  BY TypeNext, KeptNext
<1>3. TypeInv /\ KeptInv => SettingsKept
  BY KeptSettingsHold
<1> QED
  BY <1>1, <1>2, <1>3, PTL DEF Spec

(* Of the fingerprint, where no two operations met on it, one crash leaves *)
(* a whole file: persist_sovereign_state and save_system_control write the *)
(* JSON file and the binary one, in place or by renaming, one after the    *)
(* other, whatever else is under way.                                      *)
THEOREM FingerprintSurvives == Spec => []TruthSurvives
<1>1. Init => TypeInv /\ KeptInv
  BY TypeInit, KeptInit
<1>2. (TypeInv /\ KeptInv) /\ [Next]_vars => (TypeInv /\ KeptInv)'
  BY TypeNext, KeptNext
<1>3. TypeInv /\ KeptInv => TruthSurvives
  BY KeptTruthHolds
<1> QED
  BY <1>1, <1>2, <1>3, PTL DEF Spec
=============================================================================
