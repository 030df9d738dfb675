---------------------------- MODULE FoundryProofs ----------------------------
(***************************************************************************)
(* Proofs about components, for any number of processes, components,       *)
(* operations and crashes: the registry keeps what was reported, and the   *)
(* permission that was last confirmed is in force.                         *)
(*                                                                         *)
(* An operation that is alone is sure of what it finds and has in memory;  *)
(* where operations overlap nothing was promised, and nothing is assumed   *)
(* but what every step of each keeps of the files.                         *)
(***************************************************************************)
EXTENDS InstallProofs, SequenceTheorems

-----------------------------------------------------------------------------
(* Components: the invariant *)

Edits == {"pipe", "cli", "http"}
Operations == {"install", "remove", "execute"} \cup Edits
Saves == {"openYaml", "fillYaml", "openBin", "fillBin"}
JobStep ==
    {"fetch", "unpack", "load", "cacheManifest", "register", "delete", "deleted", "deregister",
     "resolve", "manifest", "openCache", "fillCache", "run", "edit", "openMan", "fillMan",
     "uncache"} \cup Saves
JobRecord ==
    [op : Operations \cup {"none"}, c : Comp \cup {"none"}, todo : Seq(JobStep),
     mem : SUBSET Comp, val : Permission, alone : BOOLEAN]
Belief == [listed : BOOLEAN \cup {Unsure}, perm : Permission \cup {Unsure}]

(* What comes after what, and what comes last, in the rest of an operation. *)
SaveLinks ==
    {<<"openYaml", "fillYaml">>, <<"fillYaml", "openBin">>, <<"openBin", "fillBin">>,
     <<"fillBin", "openBin">>}
Links(op) ==
    CASE op = "install" -> SaveLinks \cup
           {<<"fetch", "unpack">>, <<"unpack", "load">>, <<"load", "cacheManifest">>,
            <<"fillBin", "cacheManifest">>, <<"cacheManifest", "register">>}
      [] op = "remove" -> SaveLinks \cup
           {<<"delete", "deleted">>, <<"deleted", "load">>, <<"load", "deregister">>,
            <<"fillBin", "deregister">>}
      [] op = "execute" -> SaveLinks \cup
           {<<"load", "resolve">>, <<"fillBin", "resolve">>, <<"resolve", "manifest">>,
            <<"openCache", "fillCache">>, <<"fillCache", "run">>}
      [] OTHER -> {<<"edit", "openMan">>, <<"openMan", "fillMan">>} \cup
                  (IF op = "http" THEN {}
                   ELSE {<<"fillMan", "uncache">>, <<"openMan", "openMan">>,
                         <<"openMan", "uncache">>})
Finals(op) ==
    CASE op = "install" -> {"register", "fillBin"}
      [] op = "remove" -> {"deregister", "fillBin"}
      [] op = "execute" -> {"manifest", "run"}
      [] op = "http" -> {"fillMan"}
      [] OTHER -> {"uncache"}
Shaped(op, todo) ==
    \A i \in 1..Len(todo) :
        IF i = Len(todo) THEN todo[i] \in Finals(op) ELSE <<todo[i], todo[i + 1]>> \in Links(op)

Now(p) == IF Busy(p) THEN Head(job[p].todo) ELSE "idle"
Final(p) == job[p].todo[Len(job[p].todo)]

(* The files, whoever works: a skill is never registered, only an MCP      *)
(* server's manifest is cached, and nothing is executed before the         *)
(* registry is written.                                                    *)
FileTypes ==
    /\ reg \in [{"yaml", "bin"} -> (SUBSET Comp) \cup {NoFile, Garbled}]
    /\ dir \in [Comp -> {"none", "part", "whole"}]
    /\ man \in [Comp -> Permission \cup {NoFile, Garbled}]
    /\ cache \in [Comp -> [val : Permission \cup {NoFile, Garbled, Foreign}, fresh : BOOLEAN]]
FilesInv ==
    /\ FileTypes
    /\ \A f \in {"yaml", "bin"} : Readable(reg[f]) => \A c \in reg[f] : Kind[c] # "skill"
    /\ \A c \in Comp : cache[c].val \in Permission => Kind[c] = "mcp"
    /\ reg["yaml"] = NoFile => reg["bin"] = NoFile
    /\ reg["bin"] = NoFile => \A c \in Comp : cache[c].val \notin Permission

(* A process, whatever the others do. *)
WorkerInv(p) ==
    /\ Busy(p) =>
         job[p].op \in Operations /\ job[p].c \in Comp /\ Shaped(job[p].op, job[p].todo)
    /\ \A c \in job[p].mem : Kind[c] # "skill"
    /\ Now(p) \in {"manifest", "openCache", "fillCache"} => Kind[job[p].c] = "mcp"
    /\ Now(p) \in {"openMan", "fillMan", "uncache"} => Reaches(job[p].op, job[p].c)
    /\ reg["yaml"] = NoFile => Now(p) \notin {"fillYaml", "openBin", "fillBin"}
    /\ reg["bin"] = NoFile =>
         Now(p) \notin {"fillBin", "cacheManifest", "register", "deregister", "resolve",
                        "manifest", "openCache", "fillCache", "run"}

(* Where operations overlap nothing is sure. *)
Crowd ==
    /\ \A p \in Workers : Busy(p) /\ ~job[p].alone => told = DoubtAll
    /\ \A p, q \in Workers : Busy(p) /\ Busy(q) /\ job[p].alone => p = q

(* A torn registry file that nobody is about to fill is of a crash. *)
Emptied(f) == reg[f] = Garbled
Filling(s) == \E p \in Workers : Now(p) = s
Tears ==
    /\ Emptied("yaml") /\ ~Filling("fillYaml") => lost >= 1
    /\ Emptied("bin") /\ ~Filling("fillBin") => lost >= 1
    /\ Emptied("yaml") /\ Emptied("bin") /\ ~Filling("fillYaml") /\ ~Filling("fillBin") => lost >= 2

(* Names X agree with what was reported, but of E, through one crash.      *)
Known == \E d \in Comp : told[d].listed \in BOOLEAN
Keeps(X, E) ==
    lost <= 1 => \A d \in Comp \ E : told[d].listed \in BOOLEAN =>
        (d \in X) = told[d].listed /\ (told[d].listed => dir[d] # "none")
Quiet(E) ==
    /\ Readable(reg["bin"]) => Keeps(reg["bin"], E)
    /\ Readable(reg["yaml"]) /\ ~Readable(reg["bin"]) => Keeps(reg["yaml"], E)
    /\ reg["bin"] = NoFile => Keeps({}, E)
    /\ lost <= 1 /\ Emptied("bin") /\ Readable(reg["yaml"]) /\ Known =>
         reg["yaml"] \ E \subseteq Installed
InForce(c) ==
    told[c].perm \in Permission =>
        IF CacheUsed(c) THEN cache[c].val = told[c].perm ELSE man[c] \in {told[c].perm, Garbled}

(* When nobody works. *)
Still ==
    /\ Quiet({})
    /\ \A c \in Comp : InForce(c)

(* An operation that is alone: what it may have changed; what it finds in  *)
(* the files and has in memory; the registry; the permissions.             *)
Changed(p) ==
    IF \/ job[p].op = "install" /\ Now(p) \notin {"fetch", "unpack"}
       \/ job[p].op = "remove" /\ Now(p) # "delete"
    THEN {job[p].c} ELSE {}
Changes(p) ==
    \/ job[p].op = "install"
    \/ job[p].op = "remove" /\ Now(p) # "delete"
    \/ job[p].op \in Edits /\ Now(p) # "edit"
LoneFiles(p) ==
    LET c == job[p].c IN
    /\ Now(p) \in {"cacheManifest", "register", "deregister"} => reg["bin"] = job[p].mem
    /\ Now(p) \in {"openBin", "fillBin"} =>
         reg["yaml"] = job[p].mem \/ (Emptied("yaml") /\ job[p].mem = {})
    /\ Now(p) = "fillYaml" => Emptied("yaml")
    /\ Now(p) = "fillBin" => Emptied("bin")
    /\ job[p].op = "install" =>
         /\ Now(p) \notin {"fetch", "unpack"} => man[c] = Shipped /\ dir[c] = "whole"
         /\ Now(p) = "register" \/ Final(p) # "register" => cache[c].val = Foreign
         /\ Final(p) # "register" => c \in job[p].mem
    /\ job[p].op = "remove" /\ Final(p) # "deregister" => c \notin job[p].mem
    /\ Now(p) \in {"openCache", "fillCache"} => job[p].val = man[c] /\ ~CacheUsed(c)
    /\ Now(p) \in {"openMan", "fillMan"} => dir[c] # "none"
    /\ Now(p) = "uncache" => man[c] \in {job[p].val, Garbled}
LoneKept(p) ==
    /\ Quiet(Changed(p))
    /\ Now(p) \in Saves \cup {"cacheManifest", "register", "deregister"} =>
         job[p].mem \subseteq Installed /\ Keeps(job[p].mem, Changed(p))
    /\ job[p].op = "execute" /\ Now(p) \in {"openYaml", "fillYaml"} /\ lost <= 1 /\ Known =>
         ~Emptied("bin")
LonePerm(p) == \A c \in Comp : InForce(c) \/ (Changes(p) /\ job[p].c = c)
Lone(p) == LoneFiles(p) /\ LoneKept(p) /\ LonePerm(p)
FoundrySolo ==
    /\ (\A p \in Workers : ~Busy(p)) => Still
    /\ \A p \in Workers : Busy(p) /\ job[p].alone => Lone(p)

FoundryInv ==
    /\ FilesInv
    /\ job \in [Workers -> JobRecord] /\ \A p \in Workers : WorkerInv(p)
    /\ told \in [Comp -> Belief] /\ lost \in Nat
    /\ Crowd /\ Tears /\ FoundrySolo

-----------------------------------------------------------------------------
(* Components: what is left of an operation *)

(* No state of a file is a permission or a set of components. *)
LEMMA Marks ==
    /\ NoFile # Garbled /\ \A s \in SUBSET Comp : s # NoFile /\ s # Garbled /\ Readable(s)
    /\ \A v \in Permission :
         v # NoFile /\ v # Garbled /\ v # Foreign /\ v # Unsure /\ Readable(v)
    /\ NoFile \notin Permission /\ Garbled \notin Permission /\ Foreign \notin Permission
    /\ Unsure \notin Permission /\ Unsure \notin BOOLEAN /\ Shipped \in Permission
    /\ ~Readable(NoFile) /\ ~Readable(Garbled)
<1>1. \A s \in SUBSET Comp : s # NoFile /\ s # Garbled
  BY FoundryAssumption DEF Comp
<1>2. /\ NoFile \notin Permission /\ Garbled \notin Permission /\ Foreign \notin Permission
      /\ Unsure \notin Permission
  BY FoundryAssumption DEF Permission
<1>3. Shipped \in Permission
  BY DEF Shipped, Permission
<1> QED BY <1>1, <1>2, <1>3, FoundryAssumption DEF Readable

(* After a step the rest of the operation is again such a rest.            *)
LEMMA Remainder ==
    ASSUME NEW op, NEW s \in Seq(JobStep), s # <<>>, Shaped(op, s)
    PROVE  LET t == Tail(s) IN
           /\ t \in Seq(JobStep) /\ Shaped(op, t) /\ Head(s) = s[1]
           /\ t = <<>> => Head(s) \in Finals(op) /\ s[Len(s)] = Head(s)
           /\ t # <<>> => <<Head(s), Head(t)>> \in Links(op) /\ t[Len(t)] = s[Len(s)]
<1> DEFINE t == Tail(s)
<1>1. /\ t \in Seq(JobStep) /\ Len(t) = Len(s) - 1 /\ Head(s) = s[1] /\ Len(s) \in Nat \ {0}
      /\ \A i \in 1..Len(t) : t[i] = s[i + 1]
  OBVIOUS
<1>2. \A i \in 1..Len(s) :
        IF i = Len(s) THEN s[i] \in Finals(op) ELSE <<s[i], s[i + 1]>> \in Links(op)
  BY DEF Shaped
<1>3. t = <<>> => Len(s) = 1
  BY <1>1
<1>4. t # <<>> => Head(t) = t[1] /\ Len(t) \in Nat \ {0}
  BY <1>1
<1> HIDE DEF t
<1>5. Shaped(op, t)
  <2> SUFFICES ASSUME NEW i \in 1..Len(t)
               PROVE  IF i = Len(t) THEN t[i] \in Finals(op)
                      ELSE <<t[i], t[i + 1]>> \in Links(op)
    BY DEF Shaped
  <2> DEFINE k == i + 1
  <2>1. k \in 1..Len(s) /\ t[i] = s[k] /\ (k = Len(s) <=> i = Len(t))
    BY <1>1
  <2>2. i # Len(t) => k \in 1..Len(t) /\ t[k] = s[k + 1]
    BY <1>1
  <2> HIDE DEF k
  <2>3. IF k = Len(s) THEN s[k] \in Finals(op) ELSE <<s[k], s[k + 1]>> \in Links(op)
    BY <1>2, <2>1
  <2> QED BY <2>1, <2>2, <2>3 DEF k
<1>6. t = <<>> => Head(s) \in Finals(op) /\ s[Len(s)] = Head(s)
  <2>1. 1 \in 1..Len(s) /\ (t = <<>> => 1 = Len(s))
    BY <1>1, <1>3
  <2> QED BY <1>1, <1>2, <2>1
<1>7. ASSUME t # <<>> PROVE <<Head(s), Head(t)>> \in Links(op) /\ t[Len(t)] = s[Len(s)]
  <2>1. 1 \in 1..Len(s) /\ 1 # Len(s) /\ t[1] = s[1 + 1] /\ Len(t) \in 1..Len(t)
    BY <1>1, <1>4, <1>7
  <2>2. <<s[1], s[1 + 1]>> \in Links(op)
    BY <1>2, <2>1
  <2>3. t[Len(t)] = s[Len(t) + 1] /\ Len(t) + 1 = Len(s)
    BY <1>1, <2>1
  <2> QED BY <1>1, <1>4, <1>7, <2>1, <2>2, <2>3
<1> QED BY <1>1, <1>5, <1>6, <1>7 DEF t

(* Writes of the registry. *)
Storing(w) ==
    /\ w \in Seq(JobStep) /\ w # <<>> /\ w[Len(w)] = "fillBin"
    /\ \A i \in 1..(Len(w) - 1) : <<w[i], w[i + 1]>> \in SaveLinks

(* The three that are done. *)
LEMMA Storings ==
    /\ Storing(SaveBin) /\ Head(SaveBin) = "openBin"
    /\ Storing(Save) /\ Head(Save) = "openYaml"
    /\ Storing(Save \o SaveBin) /\ Head(Save \o SaveBin) = "openYaml"
<1> DEFINE y == <<"openYaml", "fillYaml">>
           b == SaveBin
<1>1. /\ y \in Seq(JobStep) /\ Len(y) = 2 /\ y[1] = "openYaml" /\ y[2] = "fillYaml"
      /\ b \in Seq(JobStep) /\ Len(b) = 2 /\ b[1] = "openBin" /\ b[2] = "fillBin"
  BY DEF SaveBin, JobStep, Saves
<1>2. Save = y \o b
  BY DEF Save
<1> HIDE DEF y, b
<1>3. Storing(b) /\ Head(b) = "openBin"
  <2>1. \A i \in 1..1 : i = 1
    OBVIOUS
  <2> QED BY <1>1, <2>1 DEF Storing, SaveLinks
<1> DEFINE w == y \o b
<1>c. /\ w \in Seq(JobStep) /\ Len(w) = Len(y) + Len(b)
      /\ \A i \in 1..(Len(y) + Len(b)) : w[i] = IF i <= Len(y) THEN y[i] ELSE b[i - Len(y)]
  BY <1>1, ConcatProperties
<1> HIDE DEF w
<1>4. /\ w \in Seq(JobStep) /\ Len(w) = 4
      /\ w[1] = "openYaml" /\ w[2] = "fillYaml" /\ w[3] = "openBin" /\ w[4] = "fillBin"
  BY <1>1, <1>c
<1>5. Storing(w) /\ Head(w) = "openYaml"
  <2>1. \A i \in 1..3 : i = 1 \/ i = 2 \/ i = 3
    OBVIOUS
  <2>2. \A i \in 1..3 : <<w[i], w[i + 1]>> \in SaveLinks
    BY <1>4, <2>1 DEF SaveLinks
  <2>3. w # <<>> /\ Head(w) = w[1]
    BY <1>4
  <2> QED BY <1>4, <2>2, <2>3 DEF Storing
<1> DEFINE x == w \o b
<1>d. /\ x \in Seq(JobStep) /\ Len(x) = Len(w) + Len(b)
      /\ \A i \in 1..(Len(w) + Len(b)) : x[i] = IF i <= Len(w) THEN w[i] ELSE b[i - Len(w)]
  BY <1>1, <1>4, ConcatProperties
<1> HIDE DEF x
<1>6. /\ x \in Seq(JobStep) /\ Len(x) = 6
      /\ x[1] = "openYaml" /\ x[2] = "fillYaml" /\ x[3] = "openBin" /\ x[4] = "fillBin"
      /\ x[5] = "openBin" /\ x[6] = "fillBin"
  BY <1>1, <1>4, <1>d
<1>7. Storing(x) /\ Head(x) = "openYaml"
  <2>1. \A i \in 1..5 : i = 1 \/ i = 2 \/ i = 3 \/ i = 4 \/ i = 5
    OBVIOUS
  <2>2. \A i \in 1..5 : <<x[i], x[i + 1]>> \in SaveLinks
    BY <1>6, <2>1 DEF SaveLinks
  <2>3. x # <<>> /\ Head(x) = x[1]
    BY <1>6
  <2> QED BY <1>6, <2>2, <2>3 DEF Storing
<1> QED BY <1>2, <1>3, <1>5, <1>7 DEF w, x, b

(* Before a rest that may follow a write they make a rest. *)
LEMMA StoredFirst ==
    ASSUME NEW op, op \in {"install", "remove", "execute"}, NEW w, Storing(w),
           NEW t \in Seq(JobStep), t # <<>>, Shaped(op, t), <<"fillBin", Head(t)>> \in Links(op)
    PROVE  LET s == w \o t IN
           /\ s \in Seq(JobStep) /\ s # <<>> /\ Shaped(op, s)
           /\ Head(s) = Head(w) /\ s[Len(s)] = t[Len(t)]
<1> DEFINE s == w \o t
<1>1. /\ w \in Seq(JobStep) /\ w # <<>> /\ w[Len(w)] = "fillBin" /\ Len(w) \in Nat \ {0}
      /\ \A i \in 1..(Len(w) - 1) : <<w[i], w[i + 1]>> \in SaveLinks
  BY DEF Storing
<1>2. /\ s \in Seq(JobStep) /\ Len(s) = Len(w) + Len(t) /\ Len(t) \in Nat \ {0}
      /\ \A i \in 1..Len(s) : s[i] = IF i <= Len(w) THEN w[i] ELSE t[i - Len(w)]
  BY <1>1, ConcatProperties
<1>3. Head(t) = t[1] /\ Head(w) = w[1] /\ s # <<>> /\ Head(s) = s[1]
  BY <1>1, <1>2
<1>4. SaveLinks \subseteq Links(op)
  BY DEF Links
<1>5. \A i \in 1..Len(t) :
        IF i = Len(t) THEN t[i] \in Finals(op) ELSE <<t[i], t[i + 1]>> \in Links(op)
  BY DEF Shaped
<1> HIDE DEF s
<1>n. Len(w) \in Nat /\ Len(s) \in Nat
  BY <1>1, <1>2
<1>6. Shaped(op, s)
  <2> SUFFICES ASSUME NEW i \in 1..Len(s)
               PROVE  IF i = Len(s) THEN s[i] \in Finals(op)
                      ELSE <<s[i], s[i + 1]>> \in Links(op)
    BY DEF Shaped
  <2> DEFINE k == i - Len(w)
             n == i + 1
  <2>1. CASE i < Len(w)
    <3>1. i \in 1..(Len(w) - 1) /\ i # Len(s) /\ s[i] = w[i]
      BY <1>1, <1>2, <2>1
    <3>2. n \in 1..Len(s) /\ n <= Len(w)
      BY <1>1, <1>2, <2>1
    <3> HIDE DEF n
    <3>3. s[n] = w[n]
      BY <1>2, <3>2
    <3> QED BY <1>1, <1>4, <3>1, <3>3 DEF n
  <2>2. CASE i = Len(w)
    <3>1. i # Len(s) /\ s[i] = "fillBin"
      BY <1>1, <1>2, <2>2
    <3>2. n \in 1..Len(s) /\ ~(n <= Len(w)) /\ n - Len(w) = 1
      BY <1>1, <1>2, <2>2
    <3> HIDE DEF n
    <3>3. s[n] = t[1]
      BY <1>2, <3>2
    <3> QED BY <1>3, <3>1, <3>3 DEF n
  <2>3. CASE i > Len(w)
    <3>1. k \in 1..Len(t) /\ (k = Len(t) <=> i = Len(s)) /\ s[i] = t[k]
      BY <1>1, <1>2, <2>3
    <3>2. ASSUME i # Len(s) PROVE s[n] = t[k + 1]
      <4>1. i \in Int /\ Len(w) \in Int /\ i < Len(s) /\ Len(s) \in Int
        BY <1>n, <3>2
      <4>2. n \in 1..Len(s) /\ ~(n <= Len(w))
        BY <4>1, <2>3
      <4>3. n - Len(w) = k + 1
        BY <4>1
      <4> HIDE DEF n, k
      <4> QED BY <1>2, <4>2, <4>3
    <3> HIDE DEF k
    <3>3. IF k = Len(t) THEN t[k] \in Finals(op) ELSE <<t[k], t[k + 1]>> \in Links(op)
      BY <1>5, <3>1
    <3> QED BY <3>1, <3>2, <3>3 DEF n
  <2> QED BY <1>1, <2>1, <2>2, <2>3
<1>7. s[Len(s)] = t[Len(t)] /\ s[1] = w[1]
  <2> DEFINE n == Len(s)
  <2>1. n \in 1..Len(s) /\ ~(n <= Len(w)) /\ n - Len(w) = Len(t) /\ 1 \in 1..Len(s) /\ 1 <= Len(w)
    BY <1>1, <1>2
  <2> HIDE DEF n
  <2>2. s[n] = t[Len(t)] /\ s[1] = w[1]
    BY <1>2, <2>1
  <2> QED BY <2>2 DEF n
<1> QED BY <1>2, <1>3, <1>6, <1>7 DEF s

(* What comes after a step, and what comes last, by the operation.         *)
LEMMA Successors ==
    ASSUME NEW op \in Operations, NEW h, NEW k, <<h, k>> \in Links(op)
    PROVE  /\ h = "fetch" => k = "unpack" /\ op = "install"
           /\ h = "unpack" => k = "load" /\ op = "install"
           /\ h = "cacheManifest" => k = "register" /\ op = "install"
           /\ h = "delete" => k = "deleted" /\ op = "remove"
           /\ h = "deleted" => k = "load" /\ op = "remove"
           /\ h = "load" => <<op, k>> \in {<<"install", "cacheManifest">>,
                                 <<"remove", "deregister">>, <<"execute", "resolve">>}
           /\ h = "openYaml" => k = "fillYaml" /\ op \in {"install", "remove", "execute"}
           /\ h = "fillYaml" => k = "openBin" /\ op \in {"install", "remove", "execute"}
           /\ h = "openBin" => k = "fillBin" /\ op \in {"install", "remove", "execute"}
           /\ h = "fillBin" => <<op, k>> \in {<<"install", "cacheManifest">>,
                                 <<"remove", "deregister">>, <<"execute", "resolve">>,
                                 <<"install", "openBin">>, <<"remove", "openBin">>,
                                 <<"execute", "openBin">>}
           /\ h = "resolve" => k = "manifest" /\ op = "execute"
           /\ h = "openCache" => k = "fillCache" /\ op = "execute"
           /\ h = "fillCache" => k = "run" /\ op = "execute"
           /\ h = "edit" => k = "openMan" /\ op \in Edits
           /\ h = "openMan" =>
                /\ k = "fillMan" \/ (k \in {"openMan", "uncache"} /\ op # "http")
                /\ op \in Edits
           /\ h = "fillMan" => k = "uncache" /\ op \in Edits \ {"http"}
           /\ h \notin {"register", "deregister", "manifest", "run", "uncache"}
<1>1. CASE op = "install"
  BY <1>1 DEF Links, SaveLinks
<1>2. CASE op = "remove"
  BY <1>2 DEF Links, SaveLinks
<1>3. CASE op = "execute"
  BY <1>3 DEF Links, SaveLinks
<1>4. CASE op \in Edits
  <2>1. Links(op) = {<<"edit", "openMan">>, <<"openMan", "fillMan">>} \cup
                    (IF op = "http" THEN {}
                     ELSE {<<"fillMan", "uncache">>, <<"openMan", "openMan">>,
                           <<"openMan", "uncache">>})
    BY <1>4 DEF Links, Edits
  <2> QED BY <1>4, <2>1
<1> QED BY <1>1, <1>2, <1>3, <1>4 DEF Operations

(* The last steps. *)
LEMMA LastSteps ==
    ASSUME NEW op \in Operations, NEW h \in Finals(op)
    PROVE  /\ h \in {"register", "deregister", "fillBin", "manifest", "run", "fillMan", "uncache"}
           /\ h = "register" => op = "install"
           /\ h = "deregister" => op = "remove"
           /\ h = "fillBin" => op \in {"install", "remove"}
           /\ h \in {"manifest", "run"} => op = "execute"
           /\ h = "fillMan" => op = "http"
           /\ h = "uncache" => op \in Edits \ {"http"}
  BY DEF Finals, Operations, Edits

(* Until the operation has a change to write, its last step is to make it. *)
LEMMA StillToChange ==
    ASSUME NEW op \in Operations, NEW s \in Seq(JobStep), s # <<>>, Shaped(op, s)
    PROVE  /\ op = "install" /\ Head(s) \in {"load", "cacheManifest", "register"} =>
                s[Len(s)] = "register"
           /\ op = "remove" /\ Head(s) \in {"load", "deregister"} => s[Len(s)] = "deregister"
<1>1. \A i \in 1..Len(s) :
        IF i = Len(s) THEN s[i] \in Finals(op) ELSE <<s[i], s[i + 1]>> \in Links(op)
  BY DEF Shaped
<1>2. Head(s) = s[1] /\ Len(s) \in Nat \ {0}
  OBVIOUS
<1>f. \A h : h \in Finals(op) => h \notin {"load", "cacheManifest"}
  BY LastSteps
<1>s. \A h, k : <<h, k>> \in Links(op) =>
        /\ h \notin {"register", "deregister"}
        /\ h = "cacheManifest" => k = "register"
        /\ h = "load" => <<op, k>> \in {<<"install", "cacheManifest">>,
                              <<"remove", "deregister">>, <<"execute", "resolve">>}
  BY Successors
<1>3. ASSUME NEW i \in 1..Len(s), NEW x \in {"register", "deregister"}, s[i] = x
      PROVE  s[Len(s)] = x
  <2>1. i = Len(s)
    BY <1>1, <1>3, <1>s
  <2> QED BY <1>3, <2>1
<1>4. ASSUME NEW i \in 1..Len(s), s[i] = "cacheManifest"
      PROVE  s[Len(s)] = "register"
  <2> DEFINE k == i + 1
  <2>1. i # Len(s) /\ s[k] = "register"
    BY <1>1, <1>4, <1>f, <1>s
  <2>2. k \in 1..Len(s)
    BY <1>2, <2>1
  <2> HIDE DEF k
  <2> QED BY <1>3, <2>1, <2>2
<1>5. ASSUME s[1] = "load"
      PROVE  /\ op = "install" => s[Len(s)] = "register"
             /\ op = "remove" => s[Len(s)] = "deregister"
  <2>1. 1 \in 1..Len(s)
    BY <1>2
  <2> DEFINE j == 1
             k == 1 + 1
  <2> HIDE DEF j
  <2>2. j \in 1..Len(s) /\ s[j] = "load" /\ j + 1 = k
    BY <1>5, <2>1 DEF j
  <2> HIDE DEF k
  <2>3. j # Len(s) /\ <<s[j], s[k]>> \in Links(op)
    BY <1>1, <1>f, <2>2
  <2>4. <<op, s[k]>> \in {<<"install", "cacheManifest">>, <<"remove", "deregister">>,
                         <<"execute", "resolve">>}
    BY <1>s, <2>2, <2>3
  <2>5. k \in 1..Len(s)
    <3>1. Len(s) # 1
      BY <2>3 DEF j
    <3>2. 1 + 1 \in 1..Len(s)
      <4> DEFINE n == Len(s)
      <4>1. n \in Nat /\ n # 0 /\ n # 1
        BY <1>2, <3>1
      <4> HIDE DEF n
      <4>2. 1 + 1 \in 1..n
        BY <4>1
      <4> QED BY <4>2 DEF n
    <3> QED BY <3>2 DEF k
  <2> QED BY <1>3, <1>4, <2>4, <2>5
<1>6. 1 \in 1..Len(s)
  BY <1>2
<1> QED BY <1>2, <1>3, <1>4, <1>5, <1>6

-----------------------------------------------------------------------------
(* Components: the steps of an operation *)

Task(op, c, t, m, v, a) == [op |-> op, c |-> c, todo |-> t, mem |-> m, val |-> v, alone |-> a]

(* Its fields. *)
LEMMA TaskFields ==
    ASSUME NEW op, NEW c, NEW t, NEW m, NEW v, NEW a
    PROVE  LET x == Task(op, c, t, m, v, a) IN
           x.op = op /\ x.c = c /\ x.todo = t /\ x.mem = m /\ x.val = v /\ x.alone = a
  BY DEF Task

(* An operation with the steps t to do, the registry m in memory and the   *)
(* permission v.                                                           *)
Moves(p, t, m, v) ==
    job' = [job EXCEPT ![p] = Task(job[p].op, job[p].c, t, m, v, job[p].alone)]

WithTodo(r, t) == [r EXCEPT !.todo = t]
WithMem(r, m, t) == [r EXCEPT !.mem = m, !.todo = t]
WithVal(r, v, t) == [r EXCEPT !.val = v, !.todo = t]

(* So the operations go on. *)
LEMMA Tasks ==
    ASSUME NEW r \in JobRecord, NEW t, NEW x
    PROVE  /\ WithTodo(r, t) = Task(r.op, r.c, t, r.mem, r.val, r.alone)
           /\ WithMem(r, x, t) = Task(r.op, r.c, t, x, r.val, r.alone)
           /\ WithVal(r, x, t) = Task(r.op, r.c, t, r.mem, x, r.alone)
<1> DEFINE T(z) == [z EXCEPT !.todo = t]
           M(z) == [z EXCEPT !.mem = x]
           V(z) == [z EXCEPT !.val = x]
<1>1. /\ T(r) = Task(r.op, r.c, t, r.mem, r.val, r.alone)
      /\ M(r) = Task(r.op, r.c, r.todo, x, r.val, r.alone)
      /\ V(r) = Task(r.op, r.c, r.todo, r.mem, x, r.alone)
  BY DEF JobRecord, Task
<1>2. \A o, c, s, m, v, a : T(Task(o, c, s, m, v, a)) = Task(o, c, t, m, v, a)
  BY DEF Task
<1> HIDE DEF T, M, V
<1>3. /\ T(M(r)) = Task(r.op, r.c, t, x, r.val, r.alone)
      /\ T(V(r)) = Task(r.op, r.c, t, r.mem, x, r.alone)
  BY <1>1, <1>2
<1>4. WithTodo(r, t) = T(r)
  BY Zenon DEF WithTodo, T
<1>5. WithMem(r, x, t) = T(M(r))
  BY Zenon DEF WithMem, T, M
<1>6. WithVal(r, x, t) = T(V(r))
  BY Zenon DEF WithVal, T, V
<1> QED BY <1>1, <1>3, <1>4, <1>5, <1>6

(* The steps as they are written. *)
LEMMA GoesOn ==
    ASSUME job \in [Workers -> JobRecord], NEW p \in Workers, NEW t, NEW x
    PROVE  /\ job' = [job EXCEPT ![p].todo = t] => Moves(p, t, job[p].mem, job[p].val)
           /\ job' = [job EXCEPT ![p].mem = x, ![p].todo = t] => Moves(p, t, x, job[p].val)
           /\ job' = [job EXCEPT ![p].val = x, ![p].todo = t] => Moves(p, t, job[p].mem, x)
<1> DEFINE r == job[p]
<1>1. r \in JobRecord
  OBVIOUS
<1>2. /\ WithTodo(r, t) = Task(r.op, r.c, t, r.mem, r.val, r.alone)
      /\ WithMem(r, x, t) = Task(r.op, r.c, t, x, r.val, r.alone)
      /\ WithVal(r, x, t) = Task(r.op, r.c, t, r.mem, x, r.alone)
  BY <1>1, Tasks
<1>3. job' = [job EXCEPT ![p].todo = t] => job' = [job EXCEPT ![p] = WithTodo(job[p], t)]
  BY Zenon DEF WithTodo
<1>4. job' = [job EXCEPT ![p].mem = x, ![p].todo = t] => job' = [job EXCEPT ![p] = WithMem(job[p], x, t)]
  BY Zenon DEF WithMem
<1>5. job' = [job EXCEPT ![p].val = x, ![p].todo = t] => job' = [job EXCEPT ![p] = WithVal(job[p], x, t)]
  BY Zenon DEF WithVal
<1> QED BY <1>2, <1>3, <1>4, <1>5 DEF Moves

(* What one sees of it; the others are as before. *)
LEMMA Moved ==
    ASSUME job \in [Workers -> JobRecord], NEW p \in Workers,
           NEW t \in Seq(JobStep), t # <<>>, NEW m \in SUBSET Comp, NEW v \in Permission,
           Moves(p, t, m, v)
    PROVE  /\ job' \in [Workers -> JobRecord]
           /\ Busy(p)' /\ Now(p)' = Head(t) /\ Final(p)' = t[Len(t)]
           /\ job'[p].op = job[p].op /\ job'[p].c = job[p].c /\ job'[p].alone = job[p].alone
           /\ job'[p].todo = t /\ job'[p].mem = m /\ job'[p].val = v
           /\ \A q \in Workers : q # p =>
                job'[q] = job[q] /\ Busy(q)' = Busy(q) /\ Now(q)' = Now(q) /\ Final(q)' = Final(q)
<1> DEFINE x == Task(job[p].op, job[p].c, t, m, v, job[p].alone)
<1>1. x \in JobRecord
  BY DEF Task, JobRecord
<1>2. /\ x.op = job[p].op /\ x.c = job[p].c /\ x.todo = t /\ x.mem = m /\ x.val = v
      /\ x.alone = job[p].alone
  BY TaskFields
<1>3. job' = [job EXCEPT ![p] = x]
  BY DEF Moves
<1> HIDE DEF x
<1>4. job'[p] = x /\ job' \in [Workers -> JobRecord] /\ \A q \in Workers : q # p => job'[q] = job[q]
  BY <1>1, <1>3
<1>5. Busy(p)' /\ Now(p)' = Head(t) /\ Final(p)' = t[Len(t)]
  BY <1>2, <1>4 DEF Busy, Now, Final
<1>6. \A q \in Workers : q # p => Busy(q)' = Busy(q) /\ Now(q)' = Now(q) /\ Final(q)' = Final(q)
  BY <1>4 DEF Busy, Now, Final
<1> QED BY <1>2, <1>4, <1>5, <1>6

(* An operation that ends. *)
LEMMA MovedOut ==
    ASSUME job \in [Workers -> JobRecord], NEW p \in Workers, job' = [job EXCEPT ![p] = NoJob]
    PROVE  /\ job' \in [Workers -> JobRecord] /\ job'[p] = NoJob
           /\ ~Busy(p)' /\ Now(p)' = "idle" /\ job'[p].mem = {}
           /\ \A q \in Workers : q # p =>
                job'[q] = job[q] /\ Busy(q)' = Busy(q) /\ Now(q)' = Now(q) /\ Final(q)' = Final(q)
<1>1. NoJob \in JobRecord /\ NoJob.todo = <<>> /\ NoJob.mem = {}
  BY DEF NoJob, JobRecord, Shipped, Permission
<1>2. job'[p] = NoJob /\ job' \in [Workers -> JobRecord] /\ \A q \in Workers : q # p => job'[q] = job[q]
  BY <1>1
<1>3. ~Busy(p)' /\ Now(p)' = "idle"
  BY <1>1, <1>2 DEF Busy, Now
<1>4. \A q \in Workers : q # p => Busy(q)' = Busy(q) /\ Now(q)' = Now(q) /\ Final(q)' = Final(q)
  BY <1>2 DEF Busy, Now, Final
<1> QED BY <1>1, <1>2, <1>3, <1>4

Sure(b, v) == [b EXCEPT !.perm = v]

(* What is reported is about the operation's component, and only of an     *)
(* operation that was alone.                                               *)
Outcome(p, res) ==
    /\ told' \in [Comp -> Belief]
    /\ \A d \in Comp : d # job[p].c => told'[d] = told[d]
    /\ ~job[p].alone => told' = told
    /\ job[p].alone =>
         /\ job[p].op = "install" /\ res = "ok" =>
              /\ Kind[job[p].c] # "skill" => told'[job[p].c].listed = TRUE
              /\ Kind[job[p].c] = "skill" => told'[job[p].c].listed = FALSE
              /\ told'[job[p].c].perm = Shipped
         /\ job[p].op = "install" /\ res # "ok" =>
              told'[job[p].c].listed = told[job[p].c].listed /\ told'[job[p].c].perm = Unsure
         /\ job[p].op = "remove" /\ res = "ok" =>
              told'[job[p].c].listed = FALSE /\ told'[job[p].c].perm = Unsure
         /\ job[p].op \in Edits /\ res = "ok" =>
              /\ told'[job[p].c].listed = told[job[p].c].listed
              /\ told'[job[p].c].perm = job[p].val
         /\ job[p].op \in {"remove", "execute"} \cup Edits /\ res # "ok" => told' = told
         /\ job[p].op = "execute" => told' = told
(* So it is, whatever the operation and its result. *)
LEMMA Reports ==
    ASSUME told \in [Comp -> Belief], NEW p \in Workers, job[p] \in JobRecord, job[p].c \in Comp,
           NEW res, told' = Report(p, res)
    PROVE  Outcome(p, res)
<1> DEFINE c == job[p].c
           o == job[p].op
<1>1. /\ \A v \in Permission \cup {Unsure}, b \in Belief :
           Sure(b, v) \in Belief /\ Sure(b, v).listed = b.listed /\ Sure(b, v).perm = v
  BY DEF Sure, Belief
<1>2. told[c] \in Belief /\ job[p].val \in Permission
  BY DEF JobRecord
<1>3. \A b \in Belief : told' = [told EXCEPT ![c] = b] =>
        told' \in [Comp -> Belief] /\ told'[c] = b /\ \A d \in Comp : d # c => told'[d] = told[d]
  OBVIOUS
<1>4. CASE ~job[p].alone
  BY <1>4 DEF Report, Outcome
<1>5. CASE job[p].alone /\ o = "install" /\ res = "ok"
  <2> DEFINE l == Kind[c] # "skill"
             b == [listed |-> l, perm |-> Shipped]
  <2>1. told' = [told EXCEPT ![c] = b]
    BY <1>5 DEF Report, Subject
  <2>2. l \in BOOLEAN
    OBVIOUS
  <2>3. (Kind[c] # "skill" => l = TRUE) /\ (Kind[c] = "skill" => l = FALSE)
    OBVIOUS
  <2> HIDE DEF l
  <2>4. b \in Belief /\ b.perm = Shipped /\ b.listed = l
    BY <2>2 DEF Belief, Shipped, Permission
  <2> HIDE DEF b
  <2>5. told' \in [Comp -> Belief] /\ told'[c] = b /\ \A d \in Comp : d # c => told'[d] = told[d]
    BY <1>3, <2>1, <2>4
  <2> QED BY <1>5, <2>3, <2>4, <2>5 DEF Outcome, Edits
<1>6. CASE job[p].alone /\ o = "install" /\ res # "ok"
  <2>1. told' = [told EXCEPT ![c].perm = Unsure]
    BY <1>6 DEF Report, Subject
  <2>2. told' = [told EXCEPT ![c] = Sure(told[c], Unsure)]
    BY <2>1, Zenon DEF Sure
  <2>3. Sure(told[c], Unsure) \in Belief /\ Sure(told[c], Unsure).listed = told[c].listed
        /\ Sure(told[c], Unsure).perm = Unsure
    BY <1>1, <1>2
  <2> QED BY <1>3, <1>6, <2>2, <2>3 DEF Edits, Outcome
<1>7. CASE job[p].alone /\ o = "remove" /\ res = "ok"
  <2> DEFINE b == [listed |-> FALSE, perm |-> Unsure]
  <2>1. told' = [told EXCEPT ![c] = b]
    BY <1>7 DEF Report, Subject
  <2>2. b \in Belief /\ b.listed = FALSE /\ b.perm = Unsure
    BY DEF Belief
  <2> HIDE DEF b
  <2> QED BY <1>3, <1>7, <2>1, <2>2 DEF Edits, Outcome
<1>8. CASE job[p].alone /\ o \in Edits /\ res = "ok"
  <2>1. told' = [told EXCEPT ![c].perm = job[p].val]
    BY <1>8 DEF Report, Subject, Edits
  <2>2. told' = [told EXCEPT ![c] = Sure(told[c], job[p].val)]
    BY <2>1, Zenon DEF Sure
  <2>3. Sure(told[c], job[p].val) \in Belief /\ Sure(told[c], job[p].val).listed = told[c].listed
        /\ Sure(told[c], job[p].val).perm = job[p].val
    BY <1>1, <1>2
  <2> QED BY <1>3, <1>8, <2>2, <2>3 DEF Edits, Outcome
<1>9. CASE job[p].alone /\ o # "install" /\ ~(o \in {"remove"} \cup Edits /\ res = "ok")
  <2>1. told' = told
    BY <1>9 DEF Report, Edits
  <2> QED BY <1>9, <2>1 DEF Edits, Outcome
<1> QED BY <1>4, <1>5, <1>6, <1>7, <1>8, <1>9 DEF Edits, Outcome

(* What is known of the operation of a process that takes a step.          *)
LEMMA Working ==
    ASSUME FoundryInv, NEW p \in Workers, Busy(p)
    PROVE  /\ job \in [Workers -> JobRecord] /\ job[p] \in JobRecord /\ WorkerInv(p)
           /\ job[p].op \in Operations /\ job[p].c \in Comp /\ Subject(p) = job[p].c
           /\ job[p].mem \in SUBSET Comp /\ job[p].val \in Permission /\ job[p].alone \in BOOLEAN
           /\ \A x : Doing(p, x) <=> Now(p) = x
           /\ Later(p) \in Seq(JobStep) /\ Shaped(job[p].op, Later(p))
           /\ Later(p) = <<>> => Now(p) \in Finals(job[p].op) /\ Final(p) = Now(p)
           /\ Later(p) # <<>> =>
                /\ <<Now(p), Head(Later(p))>> \in Links(job[p].op)
                /\ Later(p)[Len(Later(p))] = Final(p)
           /\ job[p].op = "install" /\ Now(p) \in {"load", "cacheManifest", "register"} =>
                Final(p) = "register"
           /\ job[p].op = "remove" /\ Now(p) \in {"load", "deregister"} => Final(p) = "deregister"
<1> DEFINE s == job[p].todo
           op == job[p].op
<1>1. job \in [Workers -> JobRecord] /\ WorkerInv(p)
  BY DEF FoundryInv
<1>2. /\ job[p] \in JobRecord /\ s \in Seq(JobStep) /\ s # <<>>
      /\ job[p].mem \in SUBSET Comp /\ job[p].val \in Permission /\ job[p].alone \in BOOLEAN
  BY <1>1 DEF JobRecord, Busy
<1>3. op \in Operations /\ job[p].c \in Comp /\ Shaped(op, s) /\ Subject(p) = job[p].c
  BY <1>1 DEF WorkerInv, Subject
<1>4. Now(p) = Head(s) /\ Final(p) = s[Len(s)] /\ Later(p) = Tail(s)
  BY DEF Now, Final, Later
<1>5. \A x : Doing(p, x) <=> Now(p) = x
  BY <1>4 DEF Doing
<1> HIDE DEF s, op
<1>6. LET t == Tail(s) IN
      /\ t \in Seq(JobStep) /\ Shaped(op, t) /\ Head(s) = s[1]
      /\ t = <<>> => Head(s) \in Finals(op) /\ s[Len(s)] = Head(s)
      /\ t # <<>> => <<Head(s), Head(t)>> \in Links(op) /\ t[Len(t)] = s[Len(s)]
  BY <1>2, <1>3, Remainder
<1>7. /\ op = "install" /\ Head(s) \in {"load", "cacheManifest", "register"} =>
                s[Len(s)] = "register"
      /\ op = "remove" /\ Head(s) \in {"load", "deregister"} => s[Len(s)] = "deregister"
  BY <1>2, <1>3, StillToChange
<1> QED BY <1>1, <1>2, <1>3, <1>4, <1>5, <1>6, <1>7 DEF s, op

(* What it does next. *)
LEMMA Coming ==
    ASSUME FoundryInv, NEW p \in Workers, Busy(p)
    PROVE  /\ Now(p) \in {"fetch", "unpack", "load", "cacheManifest", "delete", "deleted", "openYaml",
                         "fillYaml", "openBin", "resolve", "openCache", "fillCache", "edit",
                         "openMan"} => Later(p) # <<>>
           /\ Now(p) \in {"register", "deregister", "manifest", "run", "uncache"} => Later(p) = <<>>
           /\ Now(p) = "fetch" => Head(Later(p)) = "unpack"
           /\ Now(p) = "unpack" => Head(Later(p)) = "load"
           /\ Now(p) = "cacheManifest" => Head(Later(p)) = "register"
           /\ Now(p) = "delete" => Head(Later(p)) = "deleted"
           /\ Now(p) = "deleted" => Head(Later(p)) = "load"
           /\ Now(p) = "load" =>
                <<job[p].op, Head(Later(p))>> \in {<<"install", "cacheManifest">>,
                    <<"remove", "deregister">>, <<"execute", "resolve">>}
           /\ Now(p) = "openYaml" => Head(Later(p)) = "fillYaml"
           /\ Now(p) = "fillYaml" => Head(Later(p)) = "openBin"
           /\ Now(p) = "openBin" => Head(Later(p)) = "fillBin"
           /\ Now(p) = "fillBin" =>
                \/ Later(p) = <<>> /\ job[p].op \in {"install", "remove"} /\ Final(p) = "fillBin"
                \/ /\ Later(p) # <<>>
                   /\ <<job[p].op, Head(Later(p))>> \in {<<"install", "cacheManifest">>,
                           <<"remove", "deregister">>, <<"execute", "resolve">>,
                           <<"install", "openBin">>, <<"remove", "openBin">>,
                           <<"execute", "openBin">>}
           /\ Now(p) = "resolve" => Head(Later(p)) = "manifest"
           /\ Now(p) = "openCache" => Head(Later(p)) = "fillCache"
           /\ Now(p) = "fillCache" => Head(Later(p)) = "run"
           /\ Now(p) = "edit" => Head(Later(p)) = "openMan"
           /\ Now(p) = "openMan" => Head(Later(p)) \in {"openMan", "fillMan", "uncache"}
           /\ Now(p) = "fillMan" =>
                \/ Later(p) = <<>> /\ job[p].op = "http"
                \/ Later(p) # <<>> /\ Head(Later(p)) = "uncache"
           /\ Now(p) \in {"fetch", "unpack", "cacheManifest", "register"} => job[p].op = "install"
           /\ Now(p) \in {"delete", "deleted", "deregister"} => job[p].op = "remove"
           /\ Now(p) \in {"resolve", "manifest", "openCache", "fillCache", "run"} =>
                job[p].op = "execute"
           /\ Now(p) \in {"load"} \cup Saves => job[p].op \in {"install", "remove", "execute"}
           /\ Now(p) \in {"edit", "openMan", "fillMan", "uncache"} => job[p].op \in Edits
           /\ Later(p) # <<>> => Later(p)[Len(Later(p))] = Final(p)
<1> DEFINE h == Now(p)
           k == Head(Later(p))
           o == job[p].op
<1>1. o \in Operations /\ (Later(p) = <<>> => h \in Finals(o) /\ Final(p) = h)
  BY Working
<1>2. Later(p) # <<>> => <<h, k>> \in Links(o)
  BY Working
<1>3. Later(p) # <<>> => Later(p)[Len(Later(p))] = Final(p)
  BY Working
<1> HIDE DEF h, k, o
<1>4. ASSUME Later(p) = <<>>
      PROVE  /\ h \in {"register", "deregister", "fillBin", "manifest", "run", "fillMan", "uncache"}
             /\ h = "register" => o = "install"
             /\ h = "deregister" => o = "remove"
             /\ h = "fillBin" => o \in {"install", "remove"}
             /\ h \in {"manifest", "run"} => o = "execute"
             /\ h = "fillMan" => o = "http"
             /\ h = "uncache" => o \in Edits \ {"http"}
  BY <1>1, <1>4, LastSteps
<1>5. CASE Later(p) = <<>>
  BY <1>1, <1>4, <1>5 DEF h, o, Edits, Saves
<1>6. CASE Later(p) # <<>>
  BY <1>1, <1>2, <1>3, <1>6, Successors DEF h, k, o, Edits, Saves
<1> QED BY <1>5, <1>6

(* Steps, a registry in memory and a permission that an operation may have. *)
Ready(p, t, m, v) ==
    /\ t \in Seq(JobStep) /\ t # <<>> /\ Shaped(job[p].op, t)
    /\ m \in SUBSET Comp /\ (\A c \in m : Kind[c] # "skill") /\ v \in Permission
    /\ Head(t) \in {"manifest", "openCache", "fillCache"} => Kind[job[p].c] = "mcp"
    /\ Head(t) \in {"openMan", "fillMan", "uncache"} => Reaches(job[p].op, job[p].c)
    /\ reg'["yaml"] = NoFile => Head(t) \notin {"fillYaml", "openBin", "fillBin"}
    /\ reg'["bin"] = NoFile =>
         Head(t) \notin {"fillBin", "cacheManifest", "register", "deregister", "resolve",
                         "manifest", "openCache", "fillCache", "run"}
Lasting == \A f \in {"yaml", "bin"} : reg'[f] = NoFile => reg[f] = NoFile

(* Another process keeps what is true of it. *)
LEMMA OtherWorker ==
    ASSUME NEW q \in Workers, WorkerInv(q), job'[q] = job[q], Busy(q)' = Busy(q),
           Now(q)' = Now(q), Lasting
    PROVE  WorkerInv(q)'
  BY DEF WorkerInv, Lasting, Reaches

(* An operation goes on: what is left to show is what its step writes, and *)
(* what it then relies on when it is alone.                                *)
LEMMA Proceeds ==
    ASSUME FoundryInv, NEW p \in Workers, Busy(p), NEW t, NEW m, NEW v, Ready(p, t, m, v),
           Moves(p, t, m, v), told' = told, lost' = lost, FilesInv', Lasting, Tears',
           job[p].alone => Lone(p)'
    PROVE  FoundryInv'
<1>1. /\ t \in Seq(JobStep) /\ t # <<>> /\ m \in SUBSET Comp /\ v \in Permission
      /\ job \in [Workers -> JobRecord]
  BY Working DEF Ready
<1>2. /\ job' \in [Workers -> JobRecord]
      /\ Busy(p)' /\ Now(p)' = Head(t) /\ Final(p)' = t[Len(t)]
      /\ job'[p].op = job[p].op /\ job'[p].c = job[p].c /\ job'[p].alone = job[p].alone
      /\ job'[p].todo = t /\ job'[p].mem = m /\ job'[p].val = v
      /\ \A q \in Workers : q # p =>
            job'[q] = job[q] /\ Busy(q)' = Busy(q) /\ Now(q)' = Now(q) /\ Final(q)' = Final(q)
  BY <1>1, Moved
<1>3. \A q \in Workers : WorkerInv(q)'
  <2> SUFFICES ASSUME NEW q \in Workers PROVE WorkerInv(q)'
    OBVIOUS
  <2>1. CASE q = p
    <3>1. /\ job[p].op \in Operations /\ job[p].c \in Comp
      BY Working
    <3>2. WorkerInv(p)'
      BY <1>2, <3>1 DEF WorkerInv, Ready, Reaches
    <3> QED BY <2>1, <3>2
  <2>2. CASE q # p
    <3>1. WorkerInv(q)
      BY DEF FoundryInv
    <3> QED BY <1>2, <2>2, <3>1, OtherWorker
  <2> QED BY <2>1, <2>2
<1>4. Crowd'
  <2>1. Crowd
    BY DEF FoundryInv
  <2>2. \A q \in Workers : Busy(q)' /\ ~job'[q].alone => Busy(q) /\ ~job[q].alone
    BY <1>2
  <2>3. \A q, r \in Workers : Busy(q)' /\ Busy(r)' /\ job'[q].alone =>
           Busy(q) /\ Busy(r) /\ job[q].alone
    BY <1>2
  <2> QED BY <2>1, <2>2, <2>3 DEF Crowd, DoubtAll
<1>5. FoundrySolo'
  <2>1. \A q \in Workers : Busy(q)' /\ job'[q].alone => q = p
    BY <1>2, <1>4 DEF Crowd
  <2> QED BY <1>2, <2>1 DEF FoundrySolo
<1> QED BY <1>2, <1>3, <1>4, <1>5 DEF FoundryInv

(* Where nothing is sure the files may say anything. *)
LEMMA InDoubt == ASSUME told = DoubtAll PROVE Still
<1>1. \A c \in Comp : told[c].listed = Unsure /\ told[c].perm = Unsure
  BY DEF DoubtAll
<1>2. \A c \in Comp : told[c].listed \notin BOOLEAN /\ told[c].perm \notin Permission
  BY <1>1, Marks
<1> QED BY <1>2 DEF Still, Quiet, Keeps, Known, InForce

(* The same of the next state. *)
LEMMA InDoubtNext == ASSUME told' = DoubtAll PROVE Still'
<1>1. \A c \in Comp : told'[c].listed = Unsure /\ told'[c].perm = Unsure
  BY DEF DoubtAll
<1>2. \A c \in Comp : told'[c].listed \notin BOOLEAN /\ told'[c].perm \notin Permission
  BY <1>1, Marks
<1> QED BY <1>2 DEF Still, Quiet, Keeps, Known, InForce

(* An operation ends: what is left to show is what the files then say of   *)
(* what was reported, when it was alone.                                   *)
LEMMA Stops ==
    ASSUME FoundryInv, NEW p \in Workers, Busy(p), job' = [job EXCEPT ![p] = NoJob],
           told' \in [Comp -> Belief], ~job[p].alone => told' = told, lost' \in Nat,
           FilesInv', Lasting, Tears', job[p].alone => Still'
    PROVE  FoundryInv'
<1>1. /\ job \in [Workers -> JobRecord] /\ Crowd
  BY DEF FoundryInv
<1>2. /\ job' \in [Workers -> JobRecord] /\ ~Busy(p)' /\ Now(p)' = "idle" /\ job'[p].mem = {}
      /\ \A q \in Workers : q # p =>
            job'[q] = job[q] /\ Busy(q)' = Busy(q) /\ Now(q)' = Now(q)
  BY <1>1, MovedOut
<1>3. \A q \in Workers : WorkerInv(q)'
  <2> SUFFICES ASSUME NEW q \in Workers PROVE WorkerInv(q)'
    OBVIOUS
  <2>1. CASE q = p
    <3>1. WorkerInv(p)'
      BY <1>2 DEF WorkerInv
    <3> QED BY <2>1, <3>1
  <2>2. CASE q # p
    <3>1. WorkerInv(q)
      BY DEF FoundryInv
    <3> QED BY <1>2, <2>2, <3>1, OtherWorker
  <2> QED BY <2>1, <2>2
<1>4. ASSUME NEW q \in Workers, Busy(q)' PROVE q # p /\ ~job'[q].alone /\ told' = DoubtAll
  <2>1. q # p /\ Busy(q) /\ job'[q] = job[q]
    BY <1>2, <1>4
  <2>2. ~job[q].alone /\ ~job[p].alone
    BY <1>1, <2>1 DEF Crowd
  <2> QED BY <1>1, <2>1, <2>2 DEF Crowd, DoubtAll
<1>5. Crowd'
  BY <1>4 DEF Crowd, DoubtAll
<1>6. FoundrySolo'
  <2>1. ~job[p].alone => Still'
    <3> SUFFICES ASSUME ~job[p].alone PROVE Still'
      OBVIOUS
    <3>1. told' = DoubtAll
      BY <1>1 DEF Crowd
    <3> QED BY <3>1, InDoubtNext
  <2> QED BY <1>4, <2>1 DEF FoundrySolo
<1> QED BY <1>2, <1>3, <1>5, <1>6 DEF FoundryInv

(* Files that are not written. *)
LEMMA SameFiles ==
    ASSUME FoundryInv, UNCHANGED Files
    PROVE  FilesInv' /\ Lasting
<1>1. FilesInv /\ UNCHANGED <<reg, dir, man, cache>>
  BY DEF FoundryInv, Files
<1> QED BY <1>1 DEF FilesInv, FileTypes, Lasting

(* A registry that is not written, by a process that did not open it.      *)
LEMMA SameTears ==
    ASSUME FoundryInv, NEW p \in Workers, reg' = reg, lost' = lost,
           Now(p) \notin {"fillYaml", "fillBin"},
           \A q \in Workers : q # p => Now(q)' = Now(q)
    PROVE  Tears'
<1>1. Tears
  BY DEF FoundryInv
<1>2. (Filling("fillYaml") => Filling("fillYaml")') /\ (Filling("fillBin") => Filling("fillBin")')
  BY DEF Filling
<1> QED BY <1>1, <1>2 DEF Tears, Emptied

(* An operation that is alone, before its step. *)
LEMMA AloneNow ==
    ASSUME FoundryInv, NEW p \in Workers, Busy(p), job[p].alone
    PROVE  /\ Lone(p) /\ LoneFiles(p) /\ LoneKept(p) /\ LonePerm(p)
           /\ \A q \in Workers : q # p => ~Busy(q) /\ Now(q) = "idle"
  BY DEF FoundryInv, FoundrySolo, Lone, Crowd, Now

(* An operation that changes neither files nor what it knows, and goes on. *)
LEMMA Quietly ==
    ASSUME FoundryInv, NEW p \in Workers, Busy(p), UNCHANGED Files, lost' = lost, told' = told,
           Now(p) \notin {"fillYaml", "fillBin"},
           NEW t, NEW m, NEW v, Ready(p, t, m, v), Moves(p, t, m, v), job[p].alone => Lone(p)'
    PROVE  FoundryInv'
<1>1. FilesInv' /\ Lasting /\ reg' = reg
  BY SameFiles DEF Files
<1>2. \A q \in Workers : q # p => Now(q)' = Now(q)
  BY Working, Moved DEF Ready
<1>3. Tears'
  BY <1>1, <1>2, SameTears
<1> QED BY <1>1, <1>3, Proceeds

(* An operation that ends without writing.                                 *)
LEMMA Reporting ==
    ASSUME FoundryInv, NEW p \in Workers, Busy(p), UNCHANGED Files, lost' = lost,
           Now(p) \notin {"fillYaml", "fillBin"},
           NEW res, Reported(p, res), job[p].alone => Still'
    PROVE  FoundryInv'
<1>1. FilesInv' /\ Lasting /\ reg' = reg
  BY SameFiles DEF Files
<1>2. /\ job \in [Workers -> JobRecord] /\ job[p] \in JobRecord /\ job[p].c \in Comp
      /\ told \in [Comp -> Belief] /\ lost \in Nat
  BY Working DEF FoundryInv
<1>3. job' = [job EXCEPT ![p] = NoJob] /\ told' = Report(p, res)
  BY DEF Reported
<1>4. told' \in [Comp -> Belief] /\ (~job[p].alone => told' = told)
  <2>1. Outcome(p, res)
    BY <1>2, <1>3, Reports
  <2> QED BY <2>1 DEF Outcome
<1>5. \A q \in Workers : q # p => Now(q)' = Now(q)
  BY <1>2, <1>3, MovedOut
<1>6. Tears'
  BY <1>1, <1>5, SameTears
<1> QED BY <1>1, <1>2, <1>3, <1>4, <1>6, Stops

-----------------------------------------------------------------------------
(* Components: the steps that write no file *)

(* The next step, or the end. *)
LEMMA Goes ==
    ASSUME FoundryInv, NEW p \in Workers, Busy(p), NEW t, Goto(p, t)
    PROVE  /\ t = <<>> => Reported(p, "ok")
           /\ t # <<>> => Moves(p, t, job[p].mem, job[p].val) /\ told' = told
<1>1. job \in [Workers -> JobRecord]
  BY DEF FoundryInv
<1>2. job' = [job EXCEPT ![p].todo = t] => Moves(p, t, job[p].mem, job[p].val)
  BY <1>1, GoesOn
<1> QED BY <1>2 DEF Goto

(* What an operation that is alone knows of the registry it goes on to     *)
(* know.                                                                   *)
LEMMA QuietOn ==
    ASSUME NEW p \in Workers, Quiet(Changed(p)), UNCHANGED <<reg, dir, lost, told>>,
           Changed(p) \subseteq Changed(p)'
    PROVE  Quiet(Changed(p))'
  BY DEF Quiet, Keeps, Known, Installed, Emptied, Readable

(* When it ends and has changed nothing. *)
LEMMA QuietOut ==
    ASSUME NEW E, Quiet(E), E = {}, UNCHANGED <<reg, dir>>, lost' \in Nat, lost \in Nat, lost' >= lost,
           \A d \in Comp : told'[d].listed = told[d].listed
    PROVE  Quiet({})'
  BY DEF Quiet, Keeps, Known, Installed, Emptied, Readable

(* The package comes or it does not, and nothing was changed yet.          *)
LEMMA FetchStep == ASSUME FoundryInv, NEW p \in Workers, Fetch(p) PROVE FoundryInv'
<1>0. Busy(p)
  BY DEF Fetch, Doing
<1>1. Now(p) = "fetch"
  BY <1>0, Working DEF Fetch
<1>2. UNCHANGED Files /\ lost' = lost /\ UNCHANGED <<reg, dir, man, cache>>
  BY DEF Fetch, Counters, Files
<1>3. /\ job[p].op \in Operations /\ job[p].c \in Comp /\ job[p].mem \in SUBSET Comp
      /\ job[p].val \in Permission /\ job[p] \in JobRecord /\ job \in [Workers -> JobRecord]
      /\ Later(p) \in Seq(JobStep) /\ Shaped(job[p].op, Later(p))
      /\ \A c \in job[p].mem : Kind[c] # "skill"
      /\ told \in [Comp -> Belief] /\ lost \in Nat
  BY <1>0, Working DEF WorkerInv, FoundryInv
<1>4. Later(p) # <<>>
  BY <1>0, <1>1, Coming
<1>5. Head(Later(p)) = "unpack" /\ job[p].op = "install" /\ Later(p)[Len(Later(p))] = Final(p)
  BY <1>0, <1>1, <1>4, Coming
<1>6. ASSUME job[p].alone
      PROVE  /\ LoneFiles(p) /\ LoneKept(p) /\ LonePerm(p) /\ Changed(p) = {}
  BY <1>0, <1>1, <1>5, <1>6, AloneNow DEF Changed
<1>7. CASE Reported(p, "failed")
  <2> SUFFICES ASSUME job[p].alone PROVE Still'
    BY <1>0, <1>1, <1>2, <1>7, Reporting
  <2>1. told' = Report(p, "failed")
    BY <1>7 DEF Reported
  <2>2. /\ \A d \in Comp : d # job[p].c => told'[d] = told[d]
        /\ told'[job[p].c].listed = told[job[p].c].listed /\ told'[job[p].c].perm = Unsure
    <3>1. Outcome(p, "failed")
      BY <1>3, <2>1, Reports
    <3> QED BY <1>5, <3>1 DEF Outcome
  <2>3. Quiet({})'
    <3>1. \A d \in Comp : told'[d].listed = told[d].listed
      BY <2>2
    <3>2. lost' \in Nat /\ lost' >= lost
      BY <1>2, <1>3
    <3>3. Quiet(Changed(p)) /\ Changed(p) = {}
      BY <1>6 DEF LoneKept
    <3> QED BY <1>2, <1>3, <3>1, <3>2, <3>3, QuietOut
  <2>4. \A d \in Comp : InForce(d)'
    <3> SUFFICES ASSUME NEW d \in Comp PROVE InForce(d)'
      OBVIOUS
    <3>1. d # job[p].c => InForce(d)
      BY <1>2, <1>6 DEF LonePerm
    <3> QED BY <1>2, <2>2, <3>1, Marks DEF InForce, CacheUsed
  <2> QED BY <2>3, <2>4 DEF Still
<1>8. CASE Goto(p, Later(p))
  <2> DEFINE t == Later(p)
  <2>1. Moves(p, t, job[p].mem, job[p].val) /\ told' = told
    BY <1>0, <1>4, <1>8, Goes
  <2>2. Ready(p, t, job[p].mem, job[p].val)
    BY <1>3, <1>4, <1>5 DEF Ready
  <2>3. /\ Now(p)' = "unpack" /\ Final(p)' = Final(p) /\ job'[p].op = job[p].op
        /\ job'[p].c = job[p].c /\ job'[p].mem = job[p].mem /\ job'[p].val = job[p].val
    BY <1>3, <1>4, <1>5, <2>1, Moved
  <2>4. ASSUME job[p].alone PROVE Lone(p)'
    <3>1. LoneFiles(p)'
      BY <1>1, <1>2, <1>5, <1>6, <2>3, <2>4 DEF LoneFiles
    <3>2. LoneKept(p)'
      <4>1. Quiet(Changed(p))
        BY <1>6, <2>4 DEF LoneKept
      <4>2. Changed(p) = {}
        BY <1>6, <2>4
      <4>3. Quiet(Changed(p))'
        BY <1>2, <2>1, <4>1, <4>2, QuietOn
      <4> QED BY <2>3, <4>3 DEF LoneKept, Saves
    <3>3. LonePerm(p)'
      BY <1>2, <1>5, <1>6, <2>1, <2>3, <2>4 DEF LonePerm, InForce, CacheUsed, Changes
    <3> QED BY <3>1, <3>2, <3>3 DEF Lone
  <2> QED BY <1>0, <1>1, <1>2, <2>1, <2>2, <2>4, Quietly
<1> QED BY <1>7, <1>8 DEF Fetch

(* All that is known of an operation that takes a step. *)
LEMMA Basics ==
    ASSUME FoundryInv, NEW p \in Workers, Busy(p)
    PROVE  /\ job \in [Workers -> JobRecord] /\ job[p] \in JobRecord
           /\ job[p].op \in Operations /\ job[p].c \in Comp /\ Subject(p) = job[p].c
           /\ job[p].mem \in SUBSET Comp /\ job[p].val \in Permission
           /\ \A c \in job[p].mem : Kind[c] # "skill"
           /\ \A x : Doing(p, x) <=> Now(p) = x
           /\ Later(p) \in Seq(JobStep) /\ Shaped(job[p].op, Later(p))
           /\ told \in [Comp -> Belief] /\ lost \in Nat /\ FilesInv /\ Tears
  BY Working DEF WorkerInv, FoundryInv

(* What one sees of an operation that goes on. *)
LEMMA Seen ==
    ASSUME FoundryInv, NEW p \in Workers, Busy(p), NEW t, NEW m, NEW v, Ready(p, t, m, v),
           Moves(p, t, m, v)
    PROVE  /\ Busy(p)' /\ Now(p)' = Head(t) /\ Final(p)' = t[Len(t)]
           /\ job'[p].op = job[p].op /\ job'[p].c = job[p].c /\ job'[p].alone = job[p].alone
           /\ job'[p].todo = t /\ job'[p].mem = m /\ job'[p].val = v
           /\ \A q \in Workers : q # p => Now(q)' = Now(q)
<1>1. job \in [Workers -> JobRecord]
  BY Basics
<1>2. t \in Seq(JobStep) /\ t # <<>> /\ m \in SUBSET Comp /\ v \in Permission
  BY DEF Ready
<1>3. /\ job' \in [Workers -> JobRecord]
      /\ Busy(p)' /\ Now(p)' = Head(t) /\ Final(p)' = t[Len(t)]
      /\ job'[p].op = job[p].op /\ job'[p].c = job[p].c /\ job'[p].alone = job[p].alone
      /\ job'[p].todo = t /\ job'[p].mem = m /\ job'[p].val = v
      /\ \A q \in Workers : q # p =>
            job'[q] = job[q] /\ Busy(q)' = Busy(q) /\ Now(q)' = Now(q) /\ Final(q)' = Final(q)
  BY <1>1, <1>2, Moved
<1> QED BY <1>3

(* What was reported of all components stays true, where nothing changes.  *)
LEMMA StillSame ==
    ASSUME FoundryInv, NEW p \in Workers, Busy(p), job[p].alone, UNCHANGED Files, lost' = lost,
           told' = told, Changed(p) = {}, ~Changes(p), Now(p) \notin Saves
    PROVE  Still'
<1>1. LoneKept(p) /\ LonePerm(p) /\ UNCHANGED <<reg, dir, man, cache>>
  BY AloneNow DEF Files
<1>2. Quiet({})'
  <2>1. Quiet(Changed(p)) /\ lost \in Nat /\ lost' >= lost /\ lost' \in Nat
    BY <1>1, Basics DEF LoneKept
  <2> QED BY <1>1, <2>1, QuietOut
<1>3. \A d \in Comp : InForce(d)'
  BY <1>1 DEF LonePerm, InForce, CacheUsed
<1> QED BY <1>2, <1>3 DEF Still

(* What may be wrong of the permissions stays the same where neither files *)
(* nor reports change.                                                     *)
LEMMA PermOn ==
    ASSUME FoundryInv, NEW p \in Workers, Busy(p), job[p].alone, UNCHANGED Files, told' = told,
           job'[p].c = job[p].c, Changes(p) => Changes(p)'
    PROVE  LonePerm(p)'
<1>1. LonePerm(p) /\ UNCHANGED <<reg, dir, man, cache>>
  BY AloneNow DEF Files
<1> QED BY <1>1 DEF LonePerm, InForce, CacheUsed

(* An execution finds its component, which is then an MCP server, or       *)
(* fails.                                                                  *)
LEMMA ResolveStep == ASSUME FoundryInv, NEW p \in Workers, Resolve(p) PROVE FoundryInv'
<1>0. Busy(p)
  BY DEF Resolve, Doing
<1>1. Now(p) = "resolve"
  BY <1>0, Basics DEF Resolve
<1>2. UNCHANGED Files /\ lost' = lost /\ UNCHANGED <<reg, dir, man, cache>>
  BY DEF Resolve, Counters, Files
<1>3. /\ Later(p) # <<>> /\ Head(Later(p)) = "manifest" /\ job[p].op = "execute"
      /\ Later(p)[Len(Later(p))] = Final(p)
  BY <1>0, <1>1, Coming
<1>4. Changed(p) = {} /\ ~Changes(p) /\ Now(p) \notin Saves
  BY <1>1, <1>3 DEF Changed, Changes, Edits, Saves
<1>5. CASE Reported(p, "failed")
  <2> SUFFICES ASSUME job[p].alone PROVE Still'
    BY <1>0, <1>1, <1>2, <1>5, Reporting
  <2>1. Outcome(p, "failed")
    BY <1>0, <1>5, Basics, Reports DEF Reported
  <2>2. told' = told
    BY <1>3, <2>1 DEF Outcome
  <2> QED BY <1>0, <1>2, <1>4, <2>2, StillSame
<1>6. CASE Kind[job[p].c] = "mcp" /\ Goto(p, Later(p))
  <2> DEFINE t == Later(p)
             m == job[p].mem
             v == job[p].val
  <2>1. Moves(p, t, m, v) /\ told' = told
    BY <1>0, <1>3, <1>6, Goes
  <2>2. Ready(p, t, m, v)
    <3>1. reg["bin"] # NoFile
      BY <1>0, <1>1, Working DEF WorkerInv
    <3> QED BY <1>0, <1>2, <1>3, <1>6, <3>1, Basics DEF Ready
  <2>3. ASSUME job[p].alone PROVE Lone(p)'
    <3>1. Lone(p) /\ LoneFiles(p) /\ LoneKept(p)
      BY <1>0, <2>3, AloneNow
    <3>2. /\ Now(p)' = "manifest" /\ Final(p)' = Final(p) /\ job'[p].op = job[p].op
          /\ job'[p].c = job[p].c /\ job'[p].mem = m /\ job'[p].val = v
      BY <1>0, <1>3, <2>1, <2>2, Seen
    <3>3. LoneFiles(p)'
      BY <1>2, <1>3, <3>1, <3>2 DEF LoneFiles
    <3>4. LoneKept(p)'
      <4>1. Quiet(Changed(p))'
        BY <1>2, <1>4, <2>1, <3>1, QuietOn DEF LoneKept
      <4> QED BY <3>2, <4>1 DEF LoneKept, Saves
    <3>5. LonePerm(p)'
      BY <1>0, <1>2, <1>4, <2>1, <2>3, <3>2, PermOn DEF Saves
    <3> QED BY <3>3, <3>4, <3>5 DEF Lone
  <2> QED BY <1>0, <1>1, <1>2, <2>1, <2>2, <2>3, Quietly
<1> QED BY <1>0, <1>5, <1>6, Basics DEF Resolve, Resolves

(* An execution ends.                                                      *)
LEMMA RunStep == ASSUME FoundryInv, NEW p \in Workers, Run(p) PROVE FoundryInv'
<1>0. Busy(p)
  BY DEF Run, Doing
<1>1. Now(p) = "run"
  BY <1>0, Basics DEF Run
<1>2. UNCHANGED Files /\ lost' = lost /\ \E res : Reported(p, res)
  BY DEF Run, Counters
<1>3. job[p].op = "execute"
  BY <1>0, <1>1, Coming
<1>4. PICK res : Reported(p, res)
  BY <1>2
<1> SUFFICES ASSUME job[p].alone PROVE Still'
  BY <1>0, <1>1, <1>2, <1>4, Reporting
<1>5. Outcome(p, res)
  BY <1>0, <1>4, Basics, Reports DEF Reported
<1>6. told' = told
  BY <1>3, <1>5 DEF Outcome
<1>7. Changed(p) = {} /\ ~Changes(p) /\ Now(p) \notin Saves
  BY <1>1, <1>3 DEF Changed, Changes, Edits, Saves
<1> QED BY <1>0, <1>2, <1>6, <1>7, StillSame

(* What a change of an emptied manifest still does. *)
LEMMA VainChange ==
    ASSUME NEW op \in Edits, op # "http"
    PROVE  LET t == (IF op = "pipe" THEN <<"openMan">> ELSE <<>>) \o <<"openMan", "uncache">> IN
           /\ t \in Seq(JobStep) /\ t # <<>> /\ Head(t) = "openMan" /\ Shaped(op, t)
<1>1. /\ "uncache" \in Finals(op) /\ <<"openMan", "openMan">> \in Links(op)
      /\ <<"openMan", "uncache">> \in Links(op)
  BY DEF Finals, Links, Edits
<1> DEFINE u == <<"openMan", "uncache">>
<1>2. u \in Seq(JobStep) /\ Len(u) = 2 /\ u[1] = "openMan" /\ u[2] = "uncache"
  BY DEF JobStep
<1> HIDE DEF u
<1>3. CASE op = "pipe"
  <2> DEFINE s == <<"openMan">>
             t == s \o u
  <2>1. s \in Seq(JobStep) /\ Len(s) = 1 /\ s[1] = "openMan"
    BY DEF JobStep
  <2> HIDE DEF s
  <2>2. /\ t \in Seq(JobStep) /\ Len(t) = Len(s) + Len(u)
        /\ \A i \in 1..(Len(s) + Len(u)) : t[i] = IF i <= Len(s) THEN s[i] ELSE u[i - Len(s)]
    BY <1>2, <2>1, ConcatProperties
  <2> HIDE DEF t
  <2>3. Len(t) = 3 /\ t[1] = "openMan" /\ t[2] = "openMan" /\ t[3] = "uncache"
    BY <1>2, <2>1, <2>2
  <2>4. t # <<>> /\ Head(t) = t[1]
    BY <2>2, <2>3
  <2>5. \A i \in 1..3 : i = 1 \/ i = 2 \/ i = 3
    OBVIOUS
  <2>6. \A i \in 1..3 : IF i = 3 THEN t[i] \in Finals(op) ELSE <<t[i], t[i + 1]>> \in Links(op)
    BY <1>1, <2>3, <2>5
  <2>7. Shaped(op, t)
    BY <2>3, <2>6 DEF Shaped
  <2> QED BY <1>3, <2>2, <2>3, <2>4, <2>7 DEF t, s, u
<1>4. CASE op # "pipe"
  <2>1. <<>> \o u = u
    BY <1>2, ConcatEmptySeq
  <2>2. \A i \in 1..2 : i = 1 \/ i = 2
    OBVIOUS
  <2>3. \A i \in 1..2 : IF i = 2 THEN u[i] \in Finals(op) ELSE <<u[i], u[i + 1]>> \in Links(op)
    BY <1>1, <1>2, <2>2
  <2>4. Shaped(op, u)
    BY <1>2, <2>3 DEF Shaped
  <2>5. u # <<>> /\ Head(u) = u[1]
    BY <1>2
  <2> QED BY <1>2, <1>4, <2>1, <2>4, <2>5 DEF u
<1> QED BY <1>3, <1>4

(* A change begins, of a component that the command reaches, or fails.     *)
LEMMA EditStep == ASSUME FoundryInv, NEW p \in Workers, Edit(p) PROVE FoundryInv'
<1>0. Busy(p)
  BY DEF Edit, Doing
<1>1. Now(p) = "edit"
  BY <1>0, Basics DEF Edit
<1>2. UNCHANGED Files /\ lost' = lost /\ UNCHANGED <<reg, dir, man, cache>>
  BY DEF Edit, Counters, Files
<1>3. /\ Later(p) # <<>> /\ Head(Later(p)) = "openMan" /\ job[p].op \in Edits
      /\ Later(p)[Len(Later(p))] = Final(p)
  BY <1>0, <1>1, Coming
<1>4. Changed(p) = {} /\ ~Changes(p) /\ Now(p) \notin Saves
  BY <1>1, <1>3 DEF Changed, Changes, Edits, Saves
<1>5. CASE Reported(p, "failed")
  <2> SUFFICES ASSUME job[p].alone PROVE Still'
    BY <1>0, <1>1, <1>2, <1>5, Reporting
  <2>1. Outcome(p, "failed")
    BY <1>0, <1>5, Basics, Reports DEF Reported
  <2>2. told' = told
    BY <1>3, <2>1 DEF Outcome
  <2> QED BY <1>0, <1>2, <1>4, <2>2, StillSame
<1>6. ASSUME NEW t \in Seq(JobStep), t # <<>>, Shaped(job[p].op, t), Head(t) = "openMan",
             Reaches(job[p].op, job[p].c), dir[job[p].c] # "none", Goto(p, t)
      PROVE  FoundryInv'
  <2> DEFINE m == job[p].mem
             v == job[p].val
  <2>1. Moves(p, t, m, v) /\ told' = told
    BY <1>0, <1>6, Goes
  <2>2. Ready(p, t, m, v)
    BY <1>0, <1>2, <1>6, Basics DEF Ready
  <2>3. ASSUME job[p].alone PROVE Lone(p)'
    <3>1. Lone(p) /\ LoneFiles(p) /\ LoneKept(p)
      BY <1>0, <2>3, AloneNow
    <3>2. /\ Now(p)' = "openMan" /\ job'[p].op = job[p].op
          /\ job'[p].c = job[p].c /\ job'[p].mem = m /\ job'[p].val = v
      BY <1>0, <1>6, <2>1, <2>2, Seen
    <3>3. LoneFiles(p)'
      BY <1>2, <1>3, <1>6, <3>2 DEF LoneFiles, Edits
    <3>4. LoneKept(p)'
      <4>1. Quiet(Changed(p))'
        BY <1>2, <1>4, <2>1, <3>1, QuietOn DEF LoneKept
      <4> QED BY <3>2, <4>1 DEF LoneKept, Saves
    <3>5. LonePerm(p)'
      BY <1>0, <1>2, <1>4, <2>1, <2>3, <3>2, PermOn
    <3> QED BY <3>3, <3>4, <3>5 DEF Lone
  <2> QED BY <1>0, <1>1, <1>2, <2>1, <2>2, <2>3, Quietly
<1>7. CASE Reaches(job[p].op, job[p].c) /\ dir[job[p].c] # "none" /\ Goto(p, Later(p))
  BY <1>0, <1>3, <1>6, <1>7, Basics
<1>8. ASSUME job[p].op # "http",
             Reaches(job[p].op, job[p].c), dir[job[p].c] # "none",
             Goto(p, (IF job[p].op = "pipe" THEN <<"openMan">> ELSE <<>>) \o <<"openMan", "uncache">>)
      PROVE  FoundryInv'
  <2> DEFINE t == (IF job[p].op = "pipe" THEN <<"openMan">> ELSE <<>>) \o <<"openMan", "uncache">>
  <2>1. Goto(p, t)
    BY <1>8
  <2>2. /\ t \in Seq(JobStep) /\ t # <<>> /\ Head(t) = "openMan" /\ Shaped(job[p].op, t)
    BY <1>3, <1>8, VainChange
  <2> HIDE DEF t
  <2> QED BY <1>6, <1>8, <2>1, <2>2
<1>9. Subject(p) = job[p].c
  BY <1>0, Basics
<1> QED BY <1>5, <1>7, <1>8, <1>9 DEF Edit

(* An execution takes the permission from the cache or from the manifest.  *)
LEMMA ReadManifestStep == ASSUME FoundryInv, NEW p \in Workers, ReadManifest(p) PROVE FoundryInv'
<1>0. Busy(p)
  BY DEF ReadManifest, Doing
<1>1. Now(p) = "manifest"
  BY <1>0, Basics DEF ReadManifest
<1>2. UNCHANGED Files /\ lost' = lost /\ UNCHANGED <<reg, dir, man, cache>>
  BY DEF ReadManifest, Counters, Files
<1>3. job[p].op = "execute" /\ Kind[job[p].c] = "mcp" /\ reg["bin"] # NoFile
  BY <1>0, <1>1, Coming, Working DEF WorkerInv
<1>4. Changed(p) = {} /\ ~Changes(p) /\ Now(p) \notin Saves
  BY <1>1, <1>3 DEF Changed, Changes, Edits, Saves
<1>5. CASE Reported(p, "failed")
  <2> SUFFICES ASSUME job[p].alone PROVE Still'
    BY <1>0, <1>1, <1>2, <1>5, Reporting
  <2>1. Outcome(p, "failed")
    BY <1>0, <1>5, Basics, Reports DEF Reported
  <2>2. told' = told
    BY <1>3, <2>1 DEF Outcome
  <2> QED BY <1>0, <1>2, <1>4, <2>2, StillSame
<1>6. ASSUME NEW t \in {<<"run">>, <<"openCache", "fillCache", "run">>}, NEW v \in Permission,
             Moves(p, t, job[p].mem, v), told' = told,
             t # <<"run">> => ~CacheUsed(job[p].c) /\ v = man[job[p].c]
      PROVE  FoundryInv'
  <2> DEFINE m == job[p].mem
  <2>1. /\ t \in Seq(JobStep) /\ t # <<>> /\ Shaped("execute", t)
        /\ t = <<"run">> => Head(t) = "run"
        /\ t # <<"run">> => Head(t) = "openCache"
    <3>1. CASE t = <<"run">>
      BY <3>1 DEF JobStep, Shaped, Finals
    <3>2. CASE t = <<"openCache", "fillCache", "run">>
      <4>1. /\ t \in Seq(JobStep) /\ Len(t) = 3 /\ Head(t) = "openCache" /\ t # <<"run">>
            /\ t[1] = "openCache" /\ t[2] = "fillCache" /\ t[3] = "run"
        BY <3>2 DEF JobStep
      <4>2. \A i \in 1..3 : i = 1 \/ i = 2 \/ i = 3
        OBVIOUS
      <4>3. /\ "run" \in Finals("execute")
            /\ <<"openCache", "fillCache">> \in Links("execute")
            /\ <<"fillCache", "run">> \in Links("execute")
        BY DEF Finals, Links
      <4>4. \A i \in 1..Len(t) : IF i = Len(t) THEN t[i] \in Finals("execute")
                                ELSE <<t[i], t[i + 1]>> \in Links("execute")
        BY <4>1, <4>2, <4>3
      <4> QED BY <4>1, <4>4 DEF Shaped
    <3> QED BY <3>1, <3>2
  <2>2. Ready(p, t, m, v)
    BY <1>0, <1>2, <1>3, <2>1, Basics DEF Ready
  <2>3. ASSUME job[p].alone PROVE Lone(p)'
    <3>1. Lone(p) /\ LoneFiles(p) /\ LoneKept(p)
      BY <1>0, <2>3, AloneNow
    <3>2. /\ Now(p)' = Head(t) /\ job'[p].op = job[p].op
          /\ job'[p].c = job[p].c /\ job'[p].mem = m /\ job'[p].val = v
      BY <1>0, <1>6, <2>2, Seen
    <3>3. LoneFiles(p)'
      BY <1>2, <1>3, <1>6, <2>1, <3>1, <3>2 DEF LoneFiles, CacheUsed
    <3>4. Now(p)' \notin Saves \cup {"cacheManifest", "register", "deregister"}
      BY <2>1, <3>2 DEF Saves
    <3>5. LoneKept(p)'
      <4>1. Quiet(Changed(p))'
        BY <1>2, <1>4, <1>6, <3>1, QuietOn DEF LoneKept
      <4> QED BY <3>4, <4>1 DEF LoneKept, Saves
    <3>6. LonePerm(p)'
      BY <1>0, <1>2, <1>4, <1>6, <2>3, <3>2, <3>4, PermOn
    <3> QED BY <3>3, <3>5, <3>6 DEF Lone
  <2> QED BY <1>0, <1>1, <1>2, <1>6, <2>2, <2>3, Quietly
<1>7. CASE CacheUsed(job[p].c) /\ told' = told /\
           job' = [job EXCEPT ![p].val = cache[job[p].c].val, ![p].todo = <<"run">>]
  <2>1. cache[job[p].c].val \in Permission
    BY <1>7 DEF CacheUsed
  <2>2. Moves(p, <<"run">>, job[p].mem, cache[job[p].c].val)
    BY <1>0, <1>7, Basics, GoesOn
  <2> QED BY <1>6, <1>7, <2>1, <2>2
<1>8. CASE ~CacheUsed(job[p].c) /\ Readable(man[job[p].c]) /\ told' = told /\
           job' = [job EXCEPT ![p].val = man[job[p].c],
                              ![p].todo = <<"openCache", "fillCache", "run">>]
  <2>1. man[job[p].c] \in Permission
    BY <1>0, <1>8, Basics DEF FilesInv, FileTypes, Readable
  <2>2. Moves(p, <<"openCache", "fillCache", "run">>, job[p].mem, man[job[p].c])
    BY <1>0, <1>8, Basics, GoesOn
  <2> QED BY <1>6, <1>8, <2>1, <2>2
<1> QED
  <2>1. Subject(p) = job[p].c
    BY <1>0, Basics
  <2> QED BY <1>5, <1>7, <1>8, <2>1 DEF ReadManifest

(* The writes of a change are the rest of an operation. *)
LEMMA StoredLast ==
    ASSUME NEW op \in {"install", "remove"}, NEW w, Storing(w)
    PROVE  Shaped(op, w)
<1>1. "fillBin" \in Finals(op) /\ SaveLinks \subseteq Links(op)
  BY DEF Finals, Links
<1>2. /\ w \in Seq(JobStep) /\ w[Len(w)] = "fillBin"
      /\ \A i \in 1..(Len(w) - 1) : <<w[i], w[i + 1]>> \in SaveLinks
  BY DEF Storing
<1> SUFFICES ASSUME NEW i \in 1..Len(w)
             PROVE  IF i = Len(w) THEN w[i] \in Finals(op) ELSE <<w[i], w[i + 1]>> \in Links(op)
  BY DEF Shaped
<1>3. CASE i = Len(w)
  BY <1>1, <1>2, <1>3
<1>4. CASE i # Len(w)
  <2> DEFINE n == Len(w)
  <2>1. n \in Nat
    BY <1>2
  <2>2. i \in 1..n /\ i # n
    BY <1>4
  <2> HIDE DEF n
  <2>3. i \in 1..(n - 1)
    BY <2>1, <2>2
  <2>4. i \in 1..(Len(w) - 1)
    BY <2>3 DEF n
  <2> QED BY <1>1, <1>2, <1>4, <2>4
<1> QED BY <1>3, <1>4

(* A registry with a change: it is to be saved. *)
LEMMA Changing ==
    ASSUME FoundryInv, NEW p \in Workers, Busy(p), Now(p) \in {"register", "deregister"},
           UNCHANGED Files, lost' = lost, told' = told,
           NEW m \in SUBSET Comp, Moves(p, Save, m, job[p].val), \A c \in m : Kind[c] # "skill",
           Now(p) = "register" => m = job[p].mem \cup {job[p].c},
           Now(p) = "deregister" => m = job[p].mem \ {job[p].c}
    PROVE  FoundryInv'
<1> DEFINE v == job[p].val
           t == Save
<1>1. UNCHANGED <<reg, dir, man, cache>>
  BY DEF Files
<1>2. /\ Now(p) = "register" => job[p].op = "install"
      /\ Now(p) = "deregister" => job[p].op = "remove"
  BY Coming
<1>3. /\ t \in Seq(JobStep) /\ t # <<>> /\ t[Len(t)] = "fillBin" /\ Head(t) = "openYaml"
      /\ Storing(t)
  BY Storings DEF Storing
<1>4. job[p].op \in {"install", "remove"}
  BY <1>2
<1>5. Shaped(job[p].op, t)
  BY <1>3, <1>4, StoredLast
<1>6. Moves(p, t, m, v)
  OBVIOUS
<1> HIDE DEF t
<1>7. Ready(p, t, m, v)
  BY <1>1, <1>3, <1>5, Basics DEF Ready
<1>8. ASSUME job[p].alone PROVE Lone(p)'
  <2>1. LoneFiles(p) /\ LoneKept(p)
    BY <1>8, AloneNow
  <2>2. /\ Now(p)' = "openYaml" /\ Final(p)' = "fillBin" /\ job'[p].op = job[p].op
        /\ job'[p].c = job[p].c /\ job'[p].mem = m /\ job'[p].val = v
    BY <1>3, <1>6, <1>7, Seen
  <2>3. LoneFiles(p)'
    BY <1>1, <1>2, <2>1, <2>2 DEF LoneFiles
  <2>4. Changed(p) = {job[p].c} /\ Changed(p)' = {job[p].c}
    BY <1>2, <2>2 DEF Changed
  <2>5. LoneKept(p)'
    <3>1. Quiet(Changed(p))'
      BY <1>1, <2>1, <2>4, QuietOn DEF LoneKept
    <3>2. job[p].mem \subseteq Installed /\ Keeps(job[p].mem, Changed(p))
      BY <2>1 DEF LoneKept
    <3>3. Now(p) = "register" => dir[job[p].c] = "whole"
      BY <1>2, <2>1 DEF LoneFiles
    <3>4. m \subseteq Installed
      <4>1. job[p].c \in Comp
        BY Basics
      <4>2. CASE Now(p) = "register"
        BY <3>2, <3>3, <4>1, <4>2 DEF Installed
      <4>3. CASE Now(p) = "deregister"
        BY <3>2, <4>3
      <4> QED BY <4>2, <4>3
    <3>6. (m \subseteq Installed)'
      BY <1>1, <3>4 DEF Installed
    <3>7. Keeps(job[p].mem, Changed(p))'
      BY <1>1, <2>2, <2>4, <3>2 DEF Keeps
    <3> QED BY <1>2, <2>2, <3>1, <3>6, <3>7 DEF LoneKept
  <2>6. LonePerm(p)'
    <3>1. Changes(p) => Changes(p)'
      BY <1>2, <2>2 DEF Changes
    <3> QED BY <1>8, <2>2, <3>1, PermOn
  <2> QED BY <2>3, <2>5, <2>6 DEF Lone
<1> QED BY <1>6, <1>7, <1>8, Quietly DEF v

(* An installation adds its component to the registry; a skill it does     *)
(* not.                                                                    *)
LEMMA RegisterStep == ASSUME FoundryInv, NEW p \in Workers, Register(p) PROVE FoundryInv'
<1>0. Busy(p)
  BY DEF Register, Doing
<1>1. Now(p) = "register" /\ Subject(p) = job[p].c /\ job[p].c \in Comp
  BY <1>0, Basics DEF Register
<1>2. UNCHANGED Files /\ lost' = lost /\ UNCHANGED <<reg, dir, man, cache>>
  BY DEF Register, Counters, Files
<1>3. job[p].op = "install"
  BY <1>0, <1>1, Coming
<1>4. CASE Kind[job[p].c] = "skill"
  <2>1. Reported(p, "ok")
    BY <1>1, <1>4 DEF Register
  <2> SUFFICES ASSUME job[p].alone PROVE Still'
    BY <1>0, <1>1, <1>2, <2>1, Reporting
  <2>2. LoneFiles(p) /\ LoneKept(p) /\ LonePerm(p)
    BY <1>0, AloneNow
  <2>3. Outcome(p, "ok")
    BY <1>0, <2>1, Basics, Reports DEF Reported
  <2>4. /\ \A d \in Comp : d # job[p].c => told'[d] = told[d]
        /\ told'[job[p].c].listed = FALSE /\ told'[job[p].c].perm = Shipped
    BY <1>3, <1>4, <2>3 DEF Outcome
  <2>5. /\ reg["bin"] = job[p].mem /\ Readable(reg["bin"]) /\ ~Emptied("bin") /\ reg["bin"] # NoFile
        /\ reg["yaml"] # NoFile /\ job[p].c \notin job[p].mem
    <3>1. reg["bin"] = job[p].mem /\ job[p].mem \in SUBSET Comp
      BY <1>0, <1>1, <2>2, Basics DEF LoneFiles
    <3>2. job[p].c \notin job[p].mem
      BY <1>0, <1>4, Basics
    <3>3. reg["yaml"] # NoFile
      BY <1>0, <3>1, Marks, Basics DEF FilesInv
    <3> QED BY <3>1, <3>2, <3>3, Marks DEF Emptied
  <2>6. Quiet({})'
    <3>1. Keeps(reg["bin"], {job[p].c})
      BY <1>1, <1>3, <2>2, <2>5 DEF LoneKept, Quiet, Changed
    <3>2. Keeps(reg["bin"], {})'
      BY <1>1, <1>2, <2>4, <2>5, <3>1 DEF Keeps
    <3> QED BY <1>2, <2>5, <3>2 DEF Quiet, Emptied
  <2>7. \A d \in Comp : InForce(d)'
    <3> SUFFICES ASSUME NEW d \in Comp PROVE InForce(d)'
      OBVIOUS
    <3>1. CASE d = job[p].c
      <4>1. man[d] = Shipped /\ cache[d].val = Foreign
        BY <1>1, <1>3, <2>2, <3>1 DEF LoneFiles
      <4>2. ~CacheUsed(d)
        BY <4>1, Marks DEF CacheUsed
      <4> QED BY <1>2, <2>4, <3>1, <4>1, <4>2 DEF InForce, CacheUsed
    <3>2. CASE d # job[p].c
      <4>1. InForce(d)
        BY <2>2, <3>2 DEF LonePerm
      <4> QED BY <1>2, <2>4, <3>2, <4>1 DEF InForce, CacheUsed
    <3> QED BY <3>1, <3>2
  <2> QED BY <2>6, <2>7 DEF Still
<1>5. CASE Kind[job[p].c] # "skill"
  <2> DEFINE m == job[p].mem \cup {job[p].c}
  <2>1. told' = told /\ job' = [job EXCEPT ![p].mem = @ \cup {Subject(p)}, ![p].todo = Save]
    BY <1>1, <1>5 DEF Register
  <2>2. job' = [job EXCEPT ![p].mem = m, ![p].todo = Save]
    BY <1>1, <2>1, Zenon
  <2>3. m \in SUBSET Comp /\ \A c \in m : Kind[c] # "skill"
    BY <1>0, <1>5, Basics
  <2>4. job \in [Workers -> JobRecord]
    BY <1>0, Basics
  <2> HIDE DEF m
  <2>5. Moves(p, Save, m, job[p].val)
    BY <2>2, <2>4, GoesOn
  <2>6. m = job[p].mem \cup {job[p].c}
    BY DEF m
  <2> QED BY <1>0, <1>1, <1>2, <2>1, <2>3, <2>5, <2>6, Changing
<1> QED BY <1>4, <1>5

(* A removal takes its component from the registry, if it is there.        *)
LEMMA DeregisterStep == ASSUME FoundryInv, NEW p \in Workers, Deregister(p) PROVE FoundryInv'
<1>0. Busy(p)
  BY DEF Deregister, Doing
<1>1. Now(p) = "deregister" /\ Subject(p) = job[p].c /\ job[p].c \in Comp
  BY <1>0, Basics DEF Deregister
<1>2. UNCHANGED Files /\ lost' = lost /\ UNCHANGED <<reg, dir, man, cache>>
  BY DEF Deregister, Counters, Files
<1>3. job[p].op = "remove"
  BY <1>0, <1>1, Coming
<1>4. CASE job[p].c \notin job[p].mem
  <2>1. Reported(p, "ok")
    BY <1>1, <1>4 DEF Deregister
  <2> SUFFICES ASSUME job[p].alone PROVE Still'
    BY <1>0, <1>1, <1>2, <2>1, Reporting
  <2>2. LoneFiles(p) /\ LoneKept(p) /\ LonePerm(p)
    BY <1>0, AloneNow
  <2>3. Outcome(p, "ok")
    BY <1>0, <2>1, Basics, Reports DEF Reported
  <2>4. /\ \A d \in Comp : d # job[p].c => told'[d] = told[d]
        /\ told'[job[p].c].listed = FALSE /\ told'[job[p].c].perm = Unsure
    BY <1>3, <2>3 DEF Outcome
  <2>5. /\ reg["bin"] = job[p].mem /\ Readable(reg["bin"]) /\ ~Emptied("bin") /\ reg["bin"] # NoFile
        /\ reg["yaml"] # NoFile
    <3>1. reg["bin"] = job[p].mem /\ job[p].mem \in SUBSET Comp
      BY <1>0, <1>1, <2>2, Basics DEF LoneFiles
    <3>3. reg["yaml"] # NoFile
      BY <1>0, <3>1, Marks, Basics DEF FilesInv
    <3> QED BY <3>1, <3>3, Marks DEF Emptied
  <2>6. Quiet({})'
    <3>1. Keeps(reg["bin"], {job[p].c})
      BY <1>1, <1>3, <2>2, <2>5 DEF LoneKept, Quiet, Changed
    <3>2. Keeps(reg["bin"], {})'
      BY <1>1, <1>2, <1>4, <2>4, <2>5, <3>1 DEF Keeps
    <3> QED BY <1>2, <2>5, <3>2 DEF Quiet, Emptied
  <2>7. \A d \in Comp : InForce(d)'
    <3> SUFFICES ASSUME NEW d \in Comp PROVE InForce(d)'
      OBVIOUS
    <3>1. CASE d = job[p].c
      BY <2>4, <3>1, Marks DEF InForce
    <3>2. CASE d # job[p].c
      <4>1. InForce(d)
        BY <2>2, <3>2 DEF LonePerm
      <4> QED BY <1>2, <2>4, <3>2, <4>1 DEF InForce, CacheUsed
    <3> QED BY <3>1, <3>2
  <2> QED BY <2>6, <2>7 DEF Still
<1>5. CASE job[p].c \in job[p].mem
  <2> DEFINE m == job[p].mem \ {job[p].c}
  <2>1. told' = told /\ job' = [job EXCEPT ![p].mem = @ \ {Subject(p)}, ![p].todo = Save]
    BY <1>1, <1>5 DEF Deregister
  <2>2. job' = [job EXCEPT ![p].mem = m, ![p].todo = Save]
    BY <1>1, <2>1, Zenon
  <2>3. m \in SUBSET Comp /\ \A c \in m : Kind[c] # "skill"
    BY <1>0, Basics
  <2>4. job \in [Workers -> JobRecord]
    BY <1>0, Basics
  <2> HIDE DEF m
  <2>5. Moves(p, Save, m, job[p].val)
    BY <2>2, <2>4, GoesOn
  <2>6. m = job[p].mem \ {job[p].c}
    BY DEF m
  <2> QED BY <1>0, <1>1, <1>2, <2>1, <2>3, <2>5, <2>6, Changing
<1> QED BY <1>4, <1>5

(* What a load finds: the names N, so that the step h comes next.          *)
Finds(p, N, h) ==
    /\ N \in SUBSET Comp /\ \A c \in N : Kind[c] # "skill"
    /\ h \in {"openBin", "openYaml", Head(Later(p))}
    /\ h \notin {"openBin", "openYaml"} => reg["bin"] = N \cap Installed
    /\ h = "openBin" => reg["yaml"] = N \cap Installed \/ (Emptied("yaml") /\ N = {})
    /\ job[p].alone =>
         /\ Keeps(N, Changed(p))
         /\ job[p].op = "execute" /\ h = "openYaml" /\ lost <= 1 /\ Known => ~Emptied("bin")

(* A load that finds it. *)
LEMMA Loading ==
    ASSUME FoundryInv, NEW p \in Workers, Busy(p), Now(p) = "load", UNCHANGED Files, lost' = lost,
           told' = told, NEW N, NEW t \in Seq(JobStep), t # <<>>, Finds(p, N, Head(t)),
           Shaped(job[p].op, t), t[Len(t)] = Final(p),
           Moves(p, t, N \cap Installed, job[p].val)
    PROVE  FoundryInv'
<1> DEFINE m == N \cap Installed
           v == job[p].val
           h == Head(t)
           E == Changed(p)
<1>1. UNCHANGED <<reg, dir, man, cache>>
  BY DEF Files
<1>2. /\ <<job[p].op, Head(Later(p))>> \in {<<"install", "cacheManifest">>,
                <<"remove", "deregister">>, <<"execute", "resolve">>}
      /\ Later(p) # <<>>
  BY Coming
<1>3. /\ job[p].op = "install" => Final(p) = "register"
      /\ job[p].op = "remove" => Final(p) = "deregister"
  BY Working
<1>4. /\ m \in SUBSET Comp /\ m \subseteq Installed /\ \A c \in m : Kind[c] # "skill"
      /\ h \in {"openBin", "openYaml", "cacheManifest", "deregister", "resolve"}
      /\ h = "cacheManifest" => job[p].op = "install"
      /\ h = "deregister" => job[p].op = "remove"
      /\ h \notin {"openBin", "openYaml"} => reg["bin"] = m
      /\ h = "openBin" => reg["yaml"] = m \/ (Emptied("yaml") /\ m = {})
  BY <1>2 DEF Finds
<1>5. ASSUME job[p].alone PROVE Keeps(m, E)
  <2>1. Keeps(N, E)
    BY <1>5 DEF Finds
  <2> HIDE DEF E
  <2> QED BY <2>1 DEF Keeps, Installed
<1>6. Moves(p, t, m, v)
  OBVIOUS
<1>7. ASSUME job[p].alone, job[p].op = "execute", h = "openYaml", lost <= 1, Known
      PROVE  ~Emptied("bin")
  BY <1>7 DEF Finds
<1> HIDE DEF m
<1>8. Ready(p, t, m, v)
  <2>1. h = "openBin" => reg["yaml"] # NoFile
    BY <1>4, Marks DEF Emptied
  <2>2. h \notin {"openBin", "openYaml"} => reg["bin"] # NoFile
    BY <1>4, Marks
  <2> QED BY <1>1, <1>4, <2>1, <2>2, Basics DEF Ready
<1>9. ASSUME job[p].alone PROVE Lone(p)'
  <2>1. LoneFiles(p) /\ LoneKept(p)
    BY <1>9, AloneNow
  <2>2. /\ Now(p)' = h /\ Final(p)' = Final(p) /\ job'[p].op = job[p].op
        /\ job'[p].c = job[p].c /\ job'[p].mem = m /\ job'[p].val = v
    BY <1>6, <1>8, Seen
  <2> HIDE DEF h
  <2>3. LoneFiles(p)'
    BY <1>1, <1>3, <1>4, <2>1, <2>2 DEF LoneFiles, Emptied
  <2>4. Changed(p)' = E
    BY <1>4, <2>2 DEF Changed, h
  <2>5. LoneKept(p)'
    <3>1. Quiet(Changed(p))'
      BY <1>1, <2>1, <2>4, QuietOn DEF LoneKept
    <3>2. (m \subseteq Installed)'
      BY <1>1, <1>4 DEF Installed, m
    <3>3. Keeps(job[p].mem, Changed(p))'
      <4>1. Keeps(m, E)
        BY <1>5, <1>9
      <4> HIDE DEF E
      <4> QED BY <1>1, <2>2, <2>4, <4>1 DEF Keeps
    <3>4. (job[p].mem \subseteq Installed)'
      BY <1>1, <1>4, <2>2 DEF Installed
    <3>5. (job[p].op = "execute" /\ Now(p) \in {"openYaml", "fillYaml"} /\ lost <= 1 /\ Known =>
             ~Emptied("bin"))'
      BY <1>1, <1>4, <1>7, <1>9, <2>2 DEF Known, Emptied
    <3> QED BY <3>1, <3>3, <3>4, <3>5 DEF LoneKept
  <2>6. LonePerm(p)'
    <3>1. Changes(p) => Changes(p)'
      BY <1>2, <1>4, <2>2 DEF Changes, Edits
    <3> QED BY <1>4, <1>9, <2>2, <3>1, PermOn
  <2> QED BY <2>3, <2>5, <2>6 DEF Lone
<1> QED BY <1>6, <1>8, <1>9, Quietly DEF v

(* What is left to do after a load, by what it writes. *)
LEMMA LoadedThen ==
    ASSUME FoundryInv, NEW p \in Workers, Busy(p), Now(p) = "load", UNCHANGED Files, lost' = lost,
           NEW N, NEW w, told' = told,
           w = <<>> \/ Storing(w), Finds(p, N, IF w = <<>> THEN Head(Later(p)) ELSE Head(w)),
           job' = [job EXCEPT ![p].mem = N \cap Installed, ![p].todo = w \o Later(p)]
    PROVE  FoundryInv'
<1> DEFINE m == N \cap Installed
           t == w \o Later(p)
<1>1. Moves(p, t, m, job[p].val)
  <2>1. job \in [Workers -> JobRecord]
    BY Basics
  <2> QED BY <2>1, GoesOn
<1>2. /\ Later(p) \in Seq(JobStep) /\ Later(p) # <<>> /\ Shaped(job[p].op, Later(p))
      /\ Later(p)[Len(Later(p))] = Final(p)
      /\ <<job[p].op, Head(Later(p))>> \in {<<"install", "cacheManifest">>,
                <<"remove", "deregister">>, <<"execute", "resolve">>}
  BY Coming, Basics
<1>3. /\ t \in Seq(JobStep) /\ t # <<>> /\ Shaped(job[p].op, t) /\ t[Len(t)] = Final(p)
      /\ Head(t) = IF w = <<>> THEN Head(Later(p)) ELSE Head(w)
  <2>1. CASE w = <<>>
    <3>1. t = Later(p)
      BY <1>2, <2>1
    <3> QED BY <1>2, <2>1, <3>1
  <2>2. CASE Storing(w)
    <3>1. <<"fillBin", Head(Later(p))>> \in Links(job[p].op)
      BY <1>2 DEF Links
    <3>2. w # <<>>
      BY <2>2 DEF Storing
    <3>3. job[p].op \in {"install", "remove", "execute"}
      BY <1>2
    <3>4. /\ t \in Seq(JobStep) /\ t # <<>> /\ Shaped(job[p].op, t)
          /\ Head(t) = Head(w) /\ t[Len(t)] = Later(p)[Len(Later(p))]
      BY <1>2, <2>2, <3>1, <3>3, StoredFirst
    <3> QED BY <1>2, <3>2, <3>4
  <2> QED BY <2>1, <2>2
<1>4. Finds(p, N, Head(t))
  BY <1>3
<1> HIDE DEF t
<1> QED BY <1>1, <1>3, <1>4, Loading

(* A load takes what is readable, and saves what it had to repair.         *)
LEMMA LoadStep == ASSUME FoundryInv, NEW p \in Workers, Load(p) PROVE FoundryInv'
<1>0. Busy(p)
  BY DEF Load, Doing
<1>1. Now(p) = "load" /\ job[p].c \in Comp
  BY <1>0, Basics DEF Load
<1>2. UNCHANGED Files /\ lost' = lost /\ UNCHANGED <<reg, dir, man, cache>>
  BY DEF Load, Counters, Files
<1>3. job[p].op \in {"install", "remove", "execute"}
  BY <1>0, <1>1, Coming
<1>4. /\ reg["yaml"] \in (SUBSET Comp) \cup {NoFile, Garbled}
      /\ reg["bin"] \in (SUBSET Comp) \cup {NoFile, Garbled}
      /\ Readable(reg["bin"]) => reg["bin"] \in SUBSET Comp /\ \A c \in reg["bin"] : Kind[c] # "skill"
      /\ Readable(reg["yaml"]) =>
            reg["yaml"] \in SUBSET Comp /\ \A c \in reg["yaml"] : Kind[c] # "skill"
      /\ reg["yaml"] = NoFile => reg["bin"] = NoFile
  <2>1. FilesInv
    BY <1>0, Basics
  <2>2. /\ reg["yaml"] \in (SUBSET Comp) \cup {NoFile, Garbled}
        /\ reg["bin"] \in (SUBSET Comp) \cup {NoFile, Garbled}
    BY <2>1 DEF FilesInv, FileTypes
  <2>3. /\ Readable(reg["bin"]) => \A c \in reg["bin"] : Kind[c] # "skill"
        /\ Readable(reg["yaml"]) => \A c \in reg["yaml"] : Kind[c] # "skill"
        /\ reg["yaml"] = NoFile => reg["bin"] = NoFile
    BY <2>1 DEF FilesInv
  <2>4. /\ Readable(reg["bin"]) => reg["bin"] \in SUBSET Comp
        /\ Readable(reg["yaml"]) => reg["yaml"] \in SUBSET Comp
    <3>1. ASSUME NEW x \in (SUBSET Comp) \cup {NoFile, Garbled}, Readable(x) PROVE x \in SUBSET Comp
      <4>1. x # NoFile /\ x # Garbled
        BY <3>1 DEF Readable
      <4> DEFINE S == SUBSET Comp
      <4>2. x \in S \/ x = NoFile \/ x = Garbled
        OBVIOUS
      <4> HIDE DEF S
      <4>3. x \in S
        BY <4>1, <4>2
      <4> QED BY <4>3 DEF S
    <3> QED BY <2>2, <3>1
  <2> QED BY <2>2, <2>3, <2>4
<1>5. /\ Storing(SaveBin) /\ Head(SaveBin) = "openBin" /\ Storing(Save) /\ Head(Save) = "openYaml"
      /\ Storing(Save \o SaveBin) /\ Head(Save \o SaveBin) = "openYaml"
      /\ SaveBin \in Seq(JobStep) /\ Save \in Seq(JobStep) /\ SaveBin # <<>> /\ Save # <<>>
      /\ Save \o SaveBin # <<>>
  BY Storings DEF Storing
<1>6. /\ <<>> \o SaveBin = SaveBin /\ <<>> \o Save = Save /\ Save \o <<>> = Save
      /\ <<>> \o <<>> = <<>>
  <2>1. <<>> \in Seq(JobStep)
    OBVIOUS
  <2> QED BY <1>5, <2>1, ConcatEmptySeq
<1>7. ASSUME job[p].alone PROVE Quiet(Changed(p))
  BY <1>0, <1>7, AloneNow DEF LoneKept
<1>8. CASE Readable(reg["bin"]) /\ Loaded(p, reg["bin"], <<>>)
  <2> DEFINE N == reg["bin"]
             sync == IF N \subseteq Installed THEN <<>> ELSE Save
             w == sync \o <<>>
  <2>1. /\ job' = [job EXCEPT ![p].mem = N \cap Installed, ![p].todo = w \o Later(p)]
        /\ told' = told
    BY <1>8, Zenon DEF Loaded
  <2>2. /\ N \subseteq Installed => w = <<>>
        /\ ~(N \subseteq Installed) => w = Save
    BY <1>6
  <2> HIDE DEF w
  <2>3. ~Emptied("bin")
    BY <1>8 DEF Emptied, Readable
  <2>4. job[p].alone => Keeps(N, Changed(p))
    BY <1>7, <1>8 DEF Quiet
  <2>5. Finds(p, N, IF w = <<>> THEN Head(Later(p)) ELSE Head(w))
    <3>1. CASE N \subseteq Installed
      <4>1. w = <<>> /\ N = N \cap Installed
        BY <2>2, <3>1
      <4>2. Head(Later(p)) \notin {"openYaml", "openBin"}
        BY <1>0, <1>1, Coming
      <4> HIDE DEF N
      <4> QED BY <1>4, <1>8, <2>3, <2>4, <4>1, <4>2 DEF Finds, N
    <3>2. CASE ~(N \subseteq Installed)
      <4>1. w # <<>> /\ Head(w) = "openYaml"
        BY <1>5, <2>2, <3>2
      <4> QED BY <1>4, <1>8, <2>3, <2>4, <4>1 DEF Finds
    <3> QED BY <3>1, <3>2
  <2>6. w = <<>> \/ Storing(w)
    BY <1>5, <2>2
  <2> HIDE DEF N
  <2> QED BY <1>0, <1>1, <1>2, <2>1, <2>5, <2>6, LoadedThen
<1>9. CASE ~Readable(reg["bin"]) /\ Readable(reg["yaml"]) /\ Loaded(p, reg["yaml"], SaveBin)
  <2> DEFINE N == reg["yaml"]
             sync == IF N \subseteq Installed THEN <<>> ELSE Save
             w == sync \o SaveBin
  <2>1. /\ job' = [job EXCEPT ![p].mem = N \cap Installed, ![p].todo = w \o Later(p)]
        /\ told' = told
    BY <1>9, Zenon DEF Loaded
  <2>2. /\ N \subseteq Installed => w = SaveBin
        /\ ~(N \subseteq Installed) => w = Save \o SaveBin
    BY <1>6
  <2> HIDE DEF w
  <2>4. job[p].alone => Keeps(N, Changed(p))
    BY <1>7, <1>9 DEF Quiet
  <2>5. Finds(p, N, Head(w))
    <3>1. CASE N \subseteq Installed
      <4>1. Head(w) = "openBin" /\ N = N \cap Installed
        BY <1>5, <2>2, <3>1
      <4> HIDE DEF N
      <4> QED BY <1>4, <1>9, <2>4, <4>1 DEF Finds, N
    <3>2. CASE ~(N \subseteq Installed)
      <4>1. Head(w) = "openYaml"
        BY <1>5, <2>2, <3>2
      <4>2. ASSUME job[p].alone, job[p].op = "execute", lost <= 1, Known PROVE ~Emptied("bin")
        <5>1. Changed(p) = {}
          BY <4>2 DEF Changed
        <5> QED BY <1>7, <1>9, <3>2, <4>2, <5>1 DEF Quiet
      <4> QED BY <1>4, <1>9, <2>4, <4>1, <4>2 DEF Finds
    <3> QED BY <3>1, <3>2
  <2>6. w # <<>> /\ Storing(w)
    BY <1>5, <2>2
  <2> HIDE DEF N
  <2>7. Finds(p, N, IF w = <<>> THEN Head(Later(p)) ELSE Head(w))
    BY <2>5, <2>6
  <2> QED BY <1>0, <1>1, <1>2, <2>1, <2>6, <2>7, LoadedThen
<1>10. CASE ~Readable(reg["bin"]) /\ reg["yaml"] = NoFile /\ Loaded(p, {}, Save)
  <2> DEFINE N == {}
             sync == IF N \subseteq Installed THEN <<>> ELSE Save
             w == sync \o Save
  <2>1. /\ job' = [job EXCEPT ![p].mem = N \cap Installed, ![p].todo = w \o Later(p)]
        /\ told' = told
    BY <1>10, Zenon DEF Loaded
  <2>2. w = Save
    BY <1>6
  <2> HIDE DEF w
  <2>3. ~Emptied("bin") /\ reg["bin"] = NoFile
    BY <1>4, <1>10, Marks DEF Emptied
  <2>4. job[p].alone => Keeps(N, Changed(p))
    BY <1>7, <2>3 DEF Quiet
  <2>5. w # <<>> /\ Storing(w) /\ Head(w) = "openYaml"
    BY <1>5, <2>2
  <2>6. Finds(p, N, IF w = <<>> THEN Head(Later(p)) ELSE Head(w))
    BY <2>3, <2>4, <2>5 DEF Finds
  <2> HIDE DEF N
  <2> QED BY <1>0, <1>1, <1>2, <2>1, <2>5, <2>6, LoadedThen
<1>11. CASE ~Readable(reg["bin"]) /\ Emptied("yaml") /\ Loaded(p, {}, SaveBin)
  <2> DEFINE N == {}
             sync == IF N \subseteq Installed THEN <<>> ELSE Save
             w == sync \o SaveBin
  <2>1. /\ job' = [job EXCEPT ![p].mem = N \cap Installed, ![p].todo = w \o Later(p)]
        /\ told' = told
    BY <1>11, Zenon DEF Loaded
  <2>2. w = SaveBin
    BY <1>6
  <2> HIDE DEF w
  <2>3. ASSUME job[p].alone PROVE Keeps(N, Changed(p))
    <3>1. CASE reg["bin"] = NoFile
      BY <1>7, <2>3, <3>1 DEF Quiet
    <3>2. CASE Emptied("bin")
      <4>1. ~Filling("fillYaml") /\ ~Filling("fillBin")
        BY <1>0, <1>1, <2>3, AloneNow DEF Filling
      <4>2. lost >= 2 /\ lost \in Nat
        BY <1>0, <1>11, <3>2, <4>1, Basics DEF Tears
      <4> QED BY <4>2 DEF Keeps
    <3> QED BY <1>11, <3>1, <3>2 DEF Readable, Emptied
  <2>4. w # <<>> /\ Storing(w) /\ Head(w) = "openBin"
    BY <1>5, <2>2
  <2>5. Finds(p, N, IF w = <<>> THEN Head(Later(p)) ELSE Head(w))
    BY <1>11, <2>3, <2>4 DEF Finds
  <2> HIDE DEF N
  <2> QED BY <1>0, <1>1, <1>2, <2>1, <2>4, <2>5, LoadedThen
<1>12. reg["yaml"] # NoFile /\ ~Readable(reg["yaml"]) => Emptied("yaml") /\ InYaml = {}
  BY DEF Readable, Emptied, InYaml
<1>13. Readable(reg["yaml"]) => InYaml = reg["yaml"]
  BY DEF InYaml
<1> QED BY <1>8, <1>9, <1>10, <1>11, <1>12, <1>13 DEF Load

-----------------------------------------------------------------------------
(* Components: the writes of the registry *)

(* A file of the registry is emptied or filled. *)
LEMMA Written ==
    ASSUME FoundryInv, NEW f \in {"yaml", "bin"}, NEW x \in (SUBSET Comp) \cup {Garbled},
           reg' = [reg EXCEPT ![f] = x], UNCHANGED <<dir, man, cache>>,
           x # Garbled => \A c \in x : Kind[c] # "skill", f = "bin" => reg["yaml"] # NoFile
    PROVE  /\ FilesInv' /\ Lasting /\ reg'[f] = x /\ \A g \in {"yaml", "bin"} : g # f => reg'[g] = reg[g]
           /\ x # NoFile
<1>1. FilesInv
  BY DEF FoundryInv
<1>2. x # NoFile /\ x \in (SUBSET Comp) \cup {NoFile, Garbled}
  BY Marks
<1>3. /\ reg' \in [{"yaml", "bin"} -> (SUBSET Comp) \cup {NoFile, Garbled}] /\ reg'[f] = x
      /\ \A g \in {"yaml", "bin"} : g # f => reg'[g] = reg[g]
  BY <1>1, <1>2 DEF FilesInv, FileTypes
<1>4. \A g \in {"yaml", "bin"} : Readable(reg'[g]) => \A c \in reg'[g] : Kind[c] # "skill"
  BY <1>1, <1>3, Marks DEF FilesInv, Readable
<1>5. FilesInv'
  BY <1>1, <1>2, <1>3, <1>4 DEF FilesInv, FileTypes, Readable
<1> QED BY <1>2, <1>3, <1>5 DEF Lasting

(* What is the same in all four. *)
LEMMA PutFacts ==
    ASSUME FoundryInv, NEW p \in Workers, NEW s, NEW f, NEW x, Put(p, s, f, x)
    PROVE  /\ Busy(p) /\ Now(p) = s /\ reg' = [reg EXCEPT ![f] = x] /\ Goto(p, Later(p))
           /\ UNCHANGED <<dir, man, cache>> /\ lost' = lost
           /\ job[p].c \in Comp /\ job[p].mem \in SUBSET Comp
           /\ \A c \in job[p].mem : Kind[c] # "skill"
<1>1. Busy(p)
  BY DEF Put, Doing
<1>2. Now(p) = s
  BY <1>1, Basics DEF Put
<1> QED BY <1>1, <1>2, Basics DEF Put, Counters

(* A save empties the YAML file; the binary one is whole or of a crash.    *)
LEMMA OpenYamlStep ==
    ASSUME FoundryInv, NEW p \in Workers, Put(p, "openYaml", "yaml", Garbled) PROVE FoundryInv'
<1> DEFINE t == Later(p)
           m == job[p].mem
           v == job[p].val
<1>1. /\ Busy(p) /\ Now(p) = "openYaml" /\ reg' = [reg EXCEPT !["yaml"] = Garbled]
      /\ Goto(p, t) /\ UNCHANGED <<dir, man, cache>> /\ lost' = lost
  BY PutFacts
<1>2. /\ FilesInv' /\ Lasting /\ reg'["yaml"] = Garbled /\ reg'["bin"] = reg["bin"]
  BY <1>1, Written
<1>3. t # <<>> /\ Head(t) = "fillYaml" /\ t[Len(t)] = Final(p)
  BY <1>1, Coming
<1>4. Moves(p, t, m, v) /\ told' = told
  BY <1>1, <1>3, Goes
<1>5. Ready(p, t, m, v)
  BY <1>1, <1>2, <1>3, Basics, Marks DEF Ready
<1>6. /\ Now(p)' = "fillYaml" /\ Final(p)' = Final(p) /\ job'[p].op = job[p].op
      /\ job'[p].c = job[p].c /\ job'[p].mem = m /\ job'[p].val = v
      /\ \A q \in Workers : q # p => Now(q)' = Now(q)
  BY <1>1, <1>3, <1>4, <1>5, Seen
<1>7. Tears'
  <2>1. Filling("fillYaml")' /\ (Filling("fillBin") => Filling("fillBin")') /\ Tears
    BY <1>1, <1>6, Basics DEF Filling
  <2> QED BY <1>1, <1>2, <2>1 DEF Tears, Emptied
<1>8. ASSUME job[p].alone PROVE Lone(p)'
  <2>1. LoneFiles(p) /\ LoneKept(p) /\ LonePerm(p)
    BY <1>1, <1>8, AloneNow
  <2>2. LoneFiles(p)'
    BY <1>1, <1>2, <1>6, <2>1 DEF LoneFiles, Emptied
  <2>3. Changed(p)' = Changed(p)
    BY <1>1, <1>6 DEF Changed
  <2>4. LoneKept(p)'
    <3>1. Quiet(Changed(p))'
      BY <1>1, <1>2, <1>4, <2>1, <2>3, Marks DEF LoneKept, Quiet, Keeps, Known, Installed, Emptied
    <3>2. (job[p].mem \subseteq Installed)' /\ Keeps(job[p].mem, Changed(p))'
      BY <1>1, <1>4, <1>6, <2>1, <2>3 DEF LoneKept, Keeps, Installed, Saves
    <3>3. (job[p].op = "execute" /\ Now(p) \in {"openYaml", "fillYaml"} /\ lost <= 1 /\ Known =>
             ~Emptied("bin"))'
      BY <1>1, <1>2, <1>4, <1>6, <2>1 DEF LoneKept, Known, Emptied
    <3> QED BY <3>1, <3>2, <3>3 DEF LoneKept
  <2>5. LonePerm(p)'
    <3>1. \A c \in Comp : InForce(c) \/ (Changes(p) /\ job[p].c = c)
      BY <1>1, <2>1 DEF LonePerm, Saves
    <3>2. Changes(p)' = Changes(p)
      BY <1>1, <1>6 DEF Changes
    <3> QED BY <1>1, <1>4, <1>6, <3>1, <3>2 DEF LonePerm, InForce, CacheUsed
  <2> QED BY <2>2, <2>4, <2>5 DEF Lone
<1> QED BY <1>1, <1>2, <1>4, <1>5, <1>7, <1>8, Proceeds

(* The YAML file is whole again, with what the operation has in memory.    *)
LEMMA FillYamlStep ==
    ASSUME FoundryInv, NEW p \in Workers, Put(p, "fillYaml", "yaml", job[p].mem) PROVE FoundryInv'
<1> DEFINE t == Later(p)
           m == job[p].mem
           v == job[p].val
<1>1. /\ Busy(p) /\ Now(p) = "fillYaml" /\ reg' = [reg EXCEPT !["yaml"] = m]
      /\ Goto(p, t) /\ UNCHANGED <<dir, man, cache>> /\ lost' = lost
      /\ m \in SUBSET Comp /\ \A c \in m : Kind[c] # "skill"
  BY PutFacts
<1>2. /\ FilesInv' /\ Lasting /\ reg'["yaml"] = m /\ reg'["bin"] = reg["bin"]
  BY <1>1, Written
<1>3. t # <<>> /\ Head(t) = "openBin" /\ t[Len(t)] = Final(p)
  BY <1>1, Coming
<1>4. Moves(p, t, m, v) /\ told' = told
  BY <1>1, <1>3, Goes
<1>m. m # NoFile /\ m # Garbled /\ Readable(m)
  BY <1>1, Marks
<1>5. Ready(p, t, m, v)
  BY <1>1, <1>2, <1>3, <1>m, Basics DEF Ready
<1>6. /\ Now(p)' = "openBin" /\ Final(p)' = Final(p) /\ job'[p].op = job[p].op
      /\ job'[p].c = job[p].c /\ job'[p].mem = m /\ job'[p].val = v
      /\ \A q \in Workers : q # p => Now(q)' = Now(q)
  BY <1>1, <1>3, <1>4, <1>5, Seen
<1>7. Tears'
  <2>1. (Filling("fillBin") => Filling("fillBin")') /\ Tears
    BY <1>1, <1>6, Basics DEF Filling
  <2> QED BY <1>1, <1>2, <1>m, <2>1 DEF Tears, Emptied
<1>8. ASSUME job[p].alone PROVE Lone(p)'
  <2>1. LoneFiles(p) /\ LoneKept(p) /\ LonePerm(p)
    BY <1>1, <1>8, AloneNow
  <2>2. LoneFiles(p)'
    BY <1>1, <1>2, <1>6, <2>1 DEF LoneFiles, Emptied
  <2>3. Changed(p)' = Changed(p)
    BY <1>1, <1>6 DEF Changed
  <2>4. m \subseteq Installed /\ Keeps(m, Changed(p))
    BY <1>1, <2>1 DEF LoneKept, Saves
  <2>5. LoneKept(p)'
    <3>1. Quiet(Changed(p))'
      BY <1>1, <1>2, <1>4, <1>m, <2>1, <2>3, <2>4
         DEF LoneKept, Quiet, Keeps, Known, Installed, Emptied
    <3>2. (job[p].mem \subseteq Installed)' /\ Keeps(job[p].mem, Changed(p))'
      BY <1>1, <1>4, <1>6, <2>3, <2>4 DEF Keeps, Installed
    <3> QED BY <1>6, <3>1, <3>2 DEF LoneKept
  <2>6. LonePerm(p)'
    <3>1. \A c \in Comp : InForce(c) \/ (Changes(p) /\ job[p].c = c)
      BY <1>1, <2>1 DEF LonePerm, Saves
    <3>2. Changes(p)' = Changes(p)
      BY <1>1, <1>6 DEF Changes
    <3> QED BY <1>1, <1>4, <1>6, <3>1, <3>2 DEF LonePerm, InForce, CacheUsed
  <2> QED BY <2>2, <2>5, <2>6 DEF Lone
<1> QED BY <1>1, <1>2, <1>4, <1>5, <1>7, <1>8, Proceeds

(* The binary file is emptied while the YAML file is whole.                *)
LEMMA OpenBinStep ==
    ASSUME FoundryInv, NEW p \in Workers, Put(p, "openBin", "bin", Garbled) PROVE FoundryInv'
<1> DEFINE t == Later(p)
           m == job[p].mem
           v == job[p].val
<1>1. /\ Busy(p) /\ Now(p) = "openBin" /\ reg' = [reg EXCEPT !["bin"] = Garbled]
      /\ Goto(p, t) /\ UNCHANGED <<dir, man, cache>> /\ lost' = lost
      /\ m \in SUBSET Comp
  BY PutFacts
<1>y. reg["yaml"] # NoFile
  BY <1>1, Working DEF WorkerInv
<1>2. /\ FilesInv' /\ Lasting /\ reg'["bin"] = Garbled /\ reg'["yaml"] = reg["yaml"]
  BY <1>1, <1>y, Written
<1>3. t # <<>> /\ Head(t) = "fillBin" /\ t[Len(t)] = Final(p)
  BY <1>1, Coming
<1>4. Moves(p, t, m, v) /\ told' = told
  BY <1>1, <1>3, Goes
<1>5. Ready(p, t, m, v)
  BY <1>1, <1>2, <1>3, <1>y, Basics, Marks DEF Ready
<1>6. /\ Now(p)' = "fillBin" /\ Final(p)' = Final(p) /\ job'[p].op = job[p].op
      /\ job'[p].c = job[p].c /\ job'[p].mem = m /\ job'[p].val = v
      /\ \A q \in Workers : q # p => Now(q)' = Now(q)
  BY <1>1, <1>3, <1>4, <1>5, Seen
<1>7. Tears'
  <2>1. Filling("fillBin")' /\ (Filling("fillYaml") => Filling("fillYaml")') /\ Tears
    BY <1>1, <1>6, Basics DEF Filling
  <2> QED BY <1>1, <1>2, <2>1 DEF Tears, Emptied
<1>8. ASSUME job[p].alone PROVE Lone(p)'
  <2>1. LoneFiles(p) /\ LoneKept(p) /\ LonePerm(p)
    BY <1>1, <1>8, AloneNow
  <2>2. LoneFiles(p)'
    BY <1>1, <1>2, <1>6, <2>1 DEF LoneFiles, Emptied
  <2>3. Changed(p)' = Changed(p)
    BY <1>1, <1>6 DEF Changed
  <2>4. /\ m \subseteq Installed /\ Keeps(m, Changed(p))
        /\ reg["yaml"] = m \/ ~Readable(reg["yaml"])
    BY <1>1, <2>1 DEF LoneKept, LoneFiles, Saves, Emptied, Readable
  <2>5. LoneKept(p)'
    <3>1. Quiet(Changed(p))'
      BY <1>1, <1>2, <1>4, <1>y, <2>3, <2>4, Marks DEF Quiet, Keeps, Known, Installed, Emptied
    <3>2. (job[p].mem \subseteq Installed)' /\ Keeps(job[p].mem, Changed(p))'
      BY <1>1, <1>4, <1>6, <2>3, <2>4 DEF Keeps, Installed
    <3> QED BY <1>6, <3>1, <3>2 DEF LoneKept
  <2>6. LonePerm(p)'
    <3>1. \A c \in Comp : InForce(c) \/ (Changes(p) /\ job[p].c = c)
      BY <1>1, <2>1 DEF LonePerm, Saves
    <3>2. Changes(p)' = Changes(p)
      BY <1>1, <1>6 DEF Changes
    <3> QED BY <1>1, <1>4, <1>6, <3>1, <3>2 DEF LonePerm, InForce, CacheUsed
  <2> QED BY <2>2, <2>5, <2>6 DEF Lone
<1> QED BY <1>1, <1>2, <1>4, <1>5, <1>7, <1>8, Proceeds

(* Both files are whole; the operation goes on, or has made its change.    *)
LEMMA FillBinStep ==
    ASSUME FoundryInv, NEW p \in Workers, Put(p, "fillBin", "bin", job[p].mem) PROVE FoundryInv'
<1> DEFINE t == Later(p)
           m == job[p].mem
           v == job[p].val
<1>1. /\ Busy(p) /\ Now(p) = "fillBin" /\ reg' = [reg EXCEPT !["bin"] = m]
      /\ Goto(p, t) /\ UNCHANGED <<dir, man, cache>> /\ lost' = lost
      /\ m \in SUBSET Comp /\ (\A c \in m : Kind[c] # "skill") /\ job[p].c \in Comp
  BY PutFacts
<1>y. reg["yaml"] # NoFile
  BY <1>1, Working DEF WorkerInv
<1>2. /\ FilesInv' /\ Lasting /\ reg'["bin"] = m /\ reg'["yaml"] = reg["yaml"]
  BY <1>1, <1>y, Written
<1>m. m # NoFile /\ m # Garbled /\ Readable(m)
  BY <1>1, Marks
<1>3. \/ t = <<>> /\ job[p].op \in {"install", "remove"} /\ Final(p) = "fillBin"
      \/ /\ t # <<>> /\ t[Len(t)] = Final(p)
         /\ <<job[p].op, Head(t)>> \in {<<"install", "cacheManifest">>, <<"remove", "deregister">>,
                <<"execute", "resolve">>, <<"install", "openBin">>, <<"remove", "openBin">>,
                <<"execute", "openBin">>}
  BY <1>1, Coming
<1>t. ASSUME \A q \in Workers : q # p => Now(q)' = Now(q) PROVE Tears'
  <2>1. (Filling("fillYaml") => Filling("fillYaml")') /\ Tears
    BY <1>1, <1>t, Basics DEF Filling
  <2> QED BY <1>1, <1>2, <1>m, <2>1 DEF Tears, Emptied
<1>a. ASSUME job[p].alone
      PROVE  /\ LoneFiles(p) /\ LoneKept(p) /\ LonePerm(p)
             /\ m \subseteq Installed /\ Keeps(m, Changed(p))
             /\ reg["yaml"] = m \/ (Emptied("yaml") /\ m = {})
             /\ \A c \in Comp : InForce(c) \/ (Changes(p) /\ job[p].c = c)
  <2>1. LoneFiles(p) /\ LoneKept(p) /\ LonePerm(p)
    BY <1>1, <1>a, AloneNow
  <2> QED BY <1>1, <2>1 DEF LoneKept, LoneFiles, LonePerm, Saves
<1>4. CASE t # <<>>
  <2>1. Moves(p, t, m, v) /\ told' = told
    BY <1>1, <1>4, Goes
  <2>2. Ready(p, t, m, v)
    <3>1. t \in Seq(JobStep) /\ Shaped(job[p].op, t) /\ v \in Permission
      BY <1>1, Basics
    <3> HIDE DEF t, m, v
    <3> QED BY <1>1, <1>2, <1>3, <1>4, <1>y, <1>m, <3>1 DEF Ready
  <2>3. /\ Now(p)' = Head(t) /\ Final(p)' = Final(p) /\ job'[p].op = job[p].op
        /\ job'[p].c = job[p].c /\ job'[p].mem = m /\ job'[p].val = v
        /\ \A q \in Workers : q # p => Now(q)' = Now(q)
    BY <1>1, <1>3, <1>4, <2>1, <2>2, Seen
  <2>h. /\ Head(t) \in {"cacheManifest", "deregister", "resolve", "openBin"}
        /\ Head(t) = "cacheManifest" => job[p].op = "install"
        /\ Head(t) = "deregister" => job[p].op = "remove"
    BY <1>3, <1>4
  <2>8. ASSUME job[p].alone PROVE Lone(p)'
    <3>1. LoneFiles(p)'
      BY <1>1, <1>2, <1>a, <2>3, <2>8, <2>h DEF LoneFiles, Emptied
    <3>2. Changed(p)' = Changed(p)
      BY <1>1, <2>3, <2>h DEF Changed
    <3>3. LoneKept(p)'
      <4>1. Quiet(Changed(p))'
        BY <1>1, <1>2, <1>a, <1>m, <1>y, <2>1, <2>8, <3>2 DEF Quiet, Keeps, Emptied
      <4>2. (job[p].mem \subseteq Installed)' /\ Keeps(job[p].mem, Changed(p))'
        BY <1>1, <1>a, <2>1, <2>3, <2>8, <3>2 DEF Keeps, Installed
      <4> QED BY <2>3, <2>h, <4>1, <4>2 DEF LoneKept
    <3>4. LonePerm(p)'
      <4>1. Changes(p)' = Changes(p)
        BY <1>1, <2>3, <2>h DEF Changes
      <4> QED BY <1>1, <1>a, <2>1, <2>3, <2>8, <4>1 DEF LonePerm, InForce, CacheUsed
    <3> QED BY <3>1, <3>3, <3>4 DEF Lone
  <2> QED BY <1>1, <1>2, <1>t, <2>1, <2>2, <2>3, <2>8, Proceeds
<1>5. CASE t = <<>>
  <2>1. Reported(p, "ok")
    BY <1>1, <1>5, Goes
  <2>2. job' = [job EXCEPT ![p] = NoJob] /\ told' = Report(p, "ok")
    BY <2>1 DEF Reported
  <2>3. Outcome(p, "ok") /\ lost \in Nat
    BY <1>1, <2>2, Basics, Reports
  <2>4. \A q \in Workers : q # p => Now(q)' = Now(q)
    BY <1>1, <2>2, Basics, MovedOut
  <2>5. ASSUME job[p].alone PROVE Still'
    <3>1. /\ LoneFiles(p) /\ m \subseteq Installed /\ Keeps(m, Changed(p))
          /\ \A c \in Comp : InForce(c) \/ (Changes(p) /\ job[p].c = c)
      BY <1>a, <2>5
    <3>2. \A d \in Comp : d # job[p].c => told'[d] = told[d]
      BY <2>3 DEF Outcome
    <3>3. Changed(p) = {job[p].c}
      BY <1>1, <1>3, <1>5 DEF Changed
    <3>4. CASE job[p].op = "install"
      <4>1. /\ man[job[p].c] = Shipped /\ dir[job[p].c] = "whole" /\ job[p].c \in m
            /\ cache[job[p].c].val = Foreign
        BY <1>1, <1>3, <1>5, <3>1, <3>4 DEF LoneFiles
      <4>2. told'[job[p].c].listed = TRUE /\ told'[job[p].c].perm = Shipped
        BY <1>1, <2>3, <2>5, <3>4, <4>1 DEF Outcome
      <4>3. Keeps(reg["bin"], {})'
        BY <1>1, <1>2, <3>1, <3>2, <3>3, <4>1, <4>2 DEF Keeps
      <4>4. Quiet({})'
        BY <1>1, <1>2, <1>m, <1>y, <4>3 DEF Quiet, Keeps, Emptied
      <4>5. ~CacheUsed(job[p].c)
        BY <4>1, Marks DEF CacheUsed
      <4>6. \A c \in Comp : InForce(c)'
        <5> SUFFICES ASSUME NEW c \in Comp PROVE InForce(c)'
          OBVIOUS
        <5>1. CASE c = job[p].c
          BY <1>1, <4>1, <4>2, <4>5, <5>1 DEF InForce, CacheUsed
        <5>2. CASE c # job[p].c
          BY <1>1, <3>1, <3>2, <5>2 DEF InForce, CacheUsed
        <5> QED BY <5>1, <5>2
      <4> QED BY <4>4, <4>6 DEF Still
    <3>5. CASE job[p].op = "remove"
      <4>1. job[p].c \notin m
        BY <1>1, <1>3, <1>5, <3>1, <3>5 DEF LoneFiles
      <4>2. told'[job[p].c].listed = FALSE /\ told'[job[p].c].perm = Unsure
        BY <2>3, <2>5, <3>5 DEF Outcome
      <4>3. Keeps(reg["bin"], {})'
        BY <1>1, <1>2, <3>1, <3>2, <3>3, <4>1, <4>2 DEF Keeps
      <4>4. Quiet({})'
        BY <1>1, <1>2, <1>m, <1>y, <4>3 DEF Quiet, Keeps, Emptied
      <4>6. \A c \in Comp : InForce(c)'
        <5> SUFFICES ASSUME NEW c \in Comp PROVE InForce(c)'
          OBVIOUS
        <5>1. CASE c = job[p].c
          BY <4>2, <5>1, Marks DEF InForce
        <5>2. CASE c # job[p].c
          BY <1>1, <3>1, <3>2, <5>2 DEF InForce, CacheUsed
        <5> QED BY <5>1, <5>2
      <4> QED BY <4>4, <4>6 DEF Still
    <3> QED BY <1>3, <1>5, <3>4, <3>5
  <2>6. told' \in [Comp -> Belief] /\ (~job[p].alone => told' = told)
    BY <2>3 DEF Outcome
  <2>7. lost' \in Nat
    BY <1>1, <2>3
  <2> QED BY <1>1, <1>2, <1>t, <2>2, <2>4, <2>5, <2>6, <2>7, Stops
<1> QED BY <1>4, <1>5

-----------------------------------------------------------------------------
(* Components: the steps that write a directory or a manifest *)

(* The registry is not written: what is left of the files. *)
LEMMA Unregistered ==
    ASSUME FoundryInv, reg' = reg,
           dir' \in [Comp -> {"none", "part", "whole"}],
           man' \in [Comp -> Permission \cup {NoFile, Garbled}],
           cache' \in [Comp -> [val : Permission \cup {NoFile, Garbled, Foreign}, fresh : BOOLEAN]],
           \A c \in Comp : cache'[c].val \in Permission => Kind[c] = "mcp" /\ reg["bin"] # NoFile
    PROVE  FilesInv' /\ Lasting
<1>1. FilesInv
  BY DEF FoundryInv
<1> QED BY <1>1 DEF FilesInv, FileTypes, Lasting

(* An operation that does not write the registry, and goes on.             *)
LEMMA Continues ==
    ASSUME FoundryInv, NEW p \in Workers, Busy(p), reg' = reg, lost' = lost, told' = told,
           FilesInv', Lasting, Now(p) \notin {"fillYaml", "fillBin"},
           NEW t, NEW m, NEW v, Ready(p, t, m, v), Moves(p, t, m, v), job[p].alone => Lone(p)'
    PROVE  FoundryInv'
<1>1. \A q \in Workers : q # p => Now(q)' = Now(q)
  BY Working, Moved DEF Ready
<1>2. Tears'
  BY <1>1, SameTears
<1> QED BY <1>2, Proceeds

(* One that ends. *)
LEMMA Concludes ==
    ASSUME FoundryInv, NEW p \in Workers, Busy(p), reg' = reg, lost' = lost,
           FilesInv', Lasting, Now(p) \notin {"fillYaml", "fillBin"},
           NEW res, Reported(p, res), job[p].alone => Still'
    PROVE  FoundryInv'
<1>1. job \in [Workers -> JobRecord] /\ lost \in Nat
  BY Basics
<1>2. job' = [job EXCEPT ![p] = NoJob] /\ told' = Report(p, res)
  BY DEF Reported
<1>3. told' \in [Comp -> Belief] /\ (~job[p].alone => told' = told)
  <2>1. Outcome(p, res)
    BY <1>2, Basics, Reports
  <2> QED BY <2>1 DEF Outcome
<1>4. \A q \in Workers : q # p => Now(q)' = Now(q)
  BY <1>1, <1>2, MovedOut
<1>5. Tears'
  BY <1>4, SameTears
<1> QED BY <1>1, <1>2, <1>3, <1>5, Stops

(* What the registry says stays so, but of the component in hand.          *)
LEMMA QuietGrown ==
    ASSUME FoundryInv, NEW p \in Workers, Quiet(Changed(p)), UNCHANGED <<reg, lost, told>>,
           Changed(p) \subseteq Changed(p)',
           \A d \in Comp : d \notin Changed(p)' => (dir[d] # "none" => dir'[d] # "none")
    PROVE  Quiet(Changed(p))'
<1>1. \A X : Keeps(X, Changed(p)) => Keeps(X, Changed(p))'
  BY DEF Keeps
<1>2. Known' = Known
  BY DEF Known
<1>3. reg["yaml"] \ Changed(p) \subseteq Installed => (reg["yaml"] \ Changed(p) \subseteq Installed)'
  BY DEF Installed
<1>4. /\ Readable(reg["bin"]) => Keeps(reg["bin"], Changed(p))'
      /\ Readable(reg["yaml"]) /\ ~Readable(reg["bin"]) => Keeps(reg["yaml"], Changed(p))'
      /\ reg["bin"] = NoFile => Keeps({}, Changed(p))'
  BY <1>1 DEF Quiet
<1> QED BY <1>2, <1>3, <1>4 DEF Quiet, Emptied

(* The permissions of the other components. *)
LEMMA PermOthers ==
    ASSUME FoundryInv, NEW p \in Workers, Busy(p), job[p].alone, UNCHANGED <<reg, told>>,
           job'[p].c = job[p].c, Changes(p)',
           \A d \in Comp : d # job[p].c => man'[d] = man[d] /\ cache'[d] = cache[d]
    PROVE  LonePerm(p)'
<1>1. LonePerm(p)
  BY AloneNow
<1>2. ASSUME NEW d \in Comp, d # job[p].c PROVE InForce(d)'
  <2>1. InForce(d)
    BY <1>1, <1>2 DEF LonePerm
  <2> QED BY <1>2, <2>1 DEF InForce, CacheUsed
<1> QED BY <1>2 DEF LonePerm

(* The package is unpacked into the directory, or partly.                  *)
LEMMA UnpackStep == ASSUME FoundryInv, NEW p \in Workers, Unpack(p) PROVE FoundryInv'
<1> DEFINE c == job[p].c
           t == Later(p)
<1>0. Busy(p)
  BY DEF Unpack, Doing
<1>1. Now(p) = "unpack" /\ Subject(p) = c /\ c \in Comp
  BY <1>0, Basics DEF Unpack
<1>2. reg' = reg /\ cache' = cache /\ lost' = lost
  BY DEF Unpack, Counters
<1>3. /\ t # <<>> /\ Head(t) = "load" /\ job[p].op = "install" /\ t[Len(t)] = Final(p)
  BY <1>0, <1>1, Coming
<1>4. /\ dir \in [Comp -> {"none", "part", "whole"}]
      /\ man \in [Comp -> Permission \cup {NoFile, Garbled}]
      /\ cache \in [Comp -> [val : Permission \cup {NoFile, Garbled, Foreign}, fresh : BOOLEAN]]
      /\ \A d \in Comp : cache[d].val \in Permission => Kind[d] = "mcp" /\ reg["bin"] # NoFile
  BY <1>0, Basics DEF FilesInv, FileTypes
<1>5. Changed(p) = {} /\ Changes(p)
  BY <1>1, <1>3 DEF Changed, Changes
<1>6. ASSUME job[p].alone PROVE LoneFiles(p) /\ LoneKept(p) /\ LonePerm(p) /\ Quiet(Changed(p))
  BY <1>0, <1>6, AloneNow DEF LoneKept
<1>7. CASE /\ dir' = [dir EXCEPT ![c] = "whole"] /\ man' = [man EXCEPT ![c] = Shipped]
           /\ Goto(p, t)
  <2>1. Moves(p, t, job[p].mem, job[p].val) /\ told' = told
    BY <1>0, <1>3, <1>7, Goes
  <2>2. /\ dir' \in [Comp -> {"none", "part", "whole"}] /\ dir'[c] = "whole"
        /\ man' \in [Comp -> Permission \cup {NoFile, Garbled}] /\ man'[c] = Shipped
        /\ \A d \in Comp : d # c => dir'[d] = dir[d] /\ man'[d] = man[d]
    BY <1>1, <1>4, <1>7, Marks
  <2>3. FilesInv' /\ Lasting
    BY <1>2, <1>4, <2>2, Unregistered
  <2>4. Ready(p, t, job[p].mem, job[p].val)
    BY <1>0, <1>2, <1>3, Basics DEF Ready
  <2>5. /\ Now(p)' = "load" /\ Final(p)' = Final(p) /\ job'[p].op = job[p].op
        /\ job'[p].c = c /\ job'[p].mem = job[p].mem /\ job'[p].val = job[p].val
    BY <1>0, <1>3, <2>1, <2>4, Seen
  <2>6. ASSUME job[p].alone PROVE Lone(p)'
    <3>1. LoneFiles(p)'
      BY <1>1, <1>2, <1>3, <1>6, <2>2, <2>5, <2>6 DEF LoneFiles
    <3>2. Changed(p)' = {c} /\ Changes(p)'
      BY <1>3, <2>5 DEF Changed, Changes
    <3>3. LoneKept(p)'
      <4>1. Quiet(Changed(p))'
        BY <1>2, <1>5, <1>6, <2>1, <2>2, <2>6, <3>2, QuietGrown
      <4> QED BY <2>5, <4>1 DEF LoneKept, Saves
    <3>4. LonePerm(p)'
      BY <1>0, <1>2, <2>1, <2>2, <2>5, <2>6, <3>2, PermOthers
    <3> QED BY <3>1, <3>3, <3>4 DEF Lone
  <2> QED BY <1>0, <1>1, <1>2, <2>1, <2>3, <2>4, <2>6, Continues
<1>8. CASE /\ dir' = [dir EXCEPT ![c] = IF @ = "none" THEN "part" ELSE @]
           /\ man' \in {man, [man EXCEPT ![c] = Shipped]}
           /\ Reported(p, "failed")
  <2>1. Outcome(p, "failed")
    BY <1>0, <1>8, Basics, Reports DEF Reported
  <2>2. /\ dir' \in [Comp -> {"none", "part", "whole"}]
        /\ \A d \in Comp : dir[d] # "none" => dir'[d] # "none"
    BY <1>1, <1>4, <1>8
  <2>3. /\ man' \in [Comp -> Permission \cup {NoFile, Garbled}]
        /\ \A d \in Comp : d # c => man'[d] = man[d]
    BY <1>1, <1>4, <1>8, Marks
  <2>4. FilesInv' /\ Lasting
    BY <1>2, <1>4, <2>2, <2>3, Unregistered
  <2>5. ASSUME job[p].alone PROVE Still'
    <3>1. /\ \A d \in Comp : d # c => told'[d] = told[d]
          /\ told'[c].listed = told[c].listed /\ told'[c].perm = Unsure
      BY <1>3, <2>1, <2>5 DEF Outcome
    <3>2. \A d \in Comp : told'[d].listed = told[d].listed
      BY <3>1
    <3>3. Quiet({})
      BY <1>5, <1>6, <2>5
    <3>4. Quiet({})'
      <4>1. \A X : Keeps(X, {}) => Keeps(X, {})'
        BY <1>2, <2>2, <3>2 DEF Keeps
      <4>2. Known' = Known /\ \A X : X \subseteq Installed => X \subseteq Installed'
        BY <2>2, <3>2 DEF Known, Installed
      <4>3. /\ Readable(reg["bin"]) => Keeps(reg["bin"], {})'
            /\ Readable(reg["yaml"]) /\ ~Readable(reg["bin"]) => Keeps(reg["yaml"], {})'
            /\ reg["bin"] = NoFile => Keeps({}, {})'
        BY <1>2, <3>3, <4>1 DEF Quiet
      <4> QED BY <1>2, <3>3, <4>2, <4>3 DEF Quiet, Emptied
    <3>5. ASSUME NEW d \in Comp PROVE InForce(d)'
      <4>1. CASE d = c
        BY <3>1, <4>1, Marks DEF InForce
      <4>2. CASE d # c
        <5>1. InForce(d)
          BY <1>2, <1>6, <2>5, <3>5, <4>2 DEF LonePerm
        <5> QED BY <1>2, <2>3, <3>1, <4>2, <5>1 DEF InForce, CacheUsed
      <4> QED BY <4>1, <4>2
    <3> QED BY <3>4, <3>5 DEF Still
  <2> QED BY <1>0, <1>1, <1>2, <1>8, <2>4, <2>5, Concludes
<1> QED BY <1>1, <1>7, <1>8 DEF Unpack

(* The cache that the installer writes is of no use to an execution.       *)
LEMMA CacheManifestStep == ASSUME FoundryInv, NEW p \in Workers, CacheManifest(p) PROVE FoundryInv'
<1> DEFINE c == job[p].c
           t == Later(p)
           x == [val |-> Foreign, fresh |-> TRUE]
<1>0. Busy(p)
  BY DEF CacheManifest, Doing
<1>1. Now(p) = "cacheManifest" /\ Subject(p) = c /\ c \in Comp
  BY <1>0, Basics DEF CacheManifest
<1>2. UNCHANGED <<reg, dir, man>> /\ lost' = lost /\ Goto(p, t)
  BY DEF CacheManifest, Counters
<1>3. /\ t # <<>> /\ Head(t) = "register" /\ job[p].op = "install" /\ t[Len(t)] = Final(p)
  BY <1>0, <1>1, Coming
<1>4. /\ dir \in [Comp -> {"none", "part", "whole"}]
      /\ man \in [Comp -> Permission \cup {NoFile, Garbled}]
      /\ cache \in [Comp -> [val : Permission \cup {NoFile, Garbled, Foreign}, fresh : BOOLEAN]]
      /\ \A d \in Comp : cache[d].val \in Permission => Kind[d] = "mcp" /\ reg["bin"] # NoFile
      /\ reg["bin"] # NoFile
  BY <1>0, <1>1, Basics, Working DEF FilesInv, FileTypes, WorkerInv
<1>5. cache' = IF Readable(man[c]) THEN [cache EXCEPT ![c] = x] ELSE cache
  BY <1>1 DEF CacheManifest
<1>x. x \in [val : Permission \cup {NoFile, Garbled, Foreign}, fresh : BOOLEAN] /\ x.val = Foreign
  OBVIOUS
<1> HIDE DEF x
<1>6. /\ cache' \in [Comp -> [val : Permission \cup {NoFile, Garbled, Foreign}, fresh : BOOLEAN]]
      /\ \A d \in Comp : d # c => cache'[d] = cache[d]
      /\ Readable(man[c]) => cache'[c].val = Foreign
      /\ ~Readable(man[c]) => cache' = cache
  BY <1>1, <1>4, <1>5, <1>x
<1>7. \A d \in Comp : cache'[d].val \in Permission => Kind[d] = "mcp" /\ reg["bin"] # NoFile
  BY <1>4, <1>6, Marks
<1>8. FilesInv' /\ Lasting
  BY <1>2, <1>4, <1>6, <1>7, Unregistered
<1>9. Moves(p, t, job[p].mem, job[p].val) /\ told' = told
  BY <1>0, <1>2, <1>3, Goes
<1>10. Ready(p, t, job[p].mem, job[p].val)
  BY <1>0, <1>2, <1>3, <1>4, Basics DEF Ready
<1>11. /\ Now(p)' = "register" /\ Final(p)' = Final(p) /\ job'[p].op = job[p].op
       /\ job'[p].c = c /\ job'[p].mem = job[p].mem /\ job'[p].val = job[p].val
  BY <1>0, <1>3, <1>9, <1>10, Seen
<1>12. ASSUME job[p].alone PROVE Lone(p)'
  <2>1. LoneFiles(p) /\ LoneKept(p) /\ Quiet(Changed(p))
    BY <1>0, <1>12, AloneNow DEF LoneKept
  <2>2. cache'[c].val = Foreign
    BY <1>1, <1>3, <1>6, <2>1, Marks DEF LoneFiles
  <2>3. LoneFiles(p)'
    BY <1>1, <1>2, <1>3, <1>11, <2>1, <2>2 DEF LoneFiles
  <2>4. Changed(p)' = Changed(p) /\ Changes(p)'
    BY <1>1, <1>3, <1>11 DEF Changed, Changes
  <2>5. LoneKept(p)'
    <3>1. Quiet(Changed(p))'
      BY <1>2, <1>9, <2>1, <2>4, QuietOn
    <3>2. (job[p].mem \subseteq Installed)' /\ Keeps(job[p].mem, Changed(p))'
      BY <1>1, <1>2, <1>9, <1>11, <2>1, <2>4 DEF LoneKept, Keeps, Installed
    <3> QED BY <1>11, <3>1, <3>2 DEF LoneKept
  <2>6. LonePerm(p)'
    BY <1>0, <1>2, <1>6, <1>9, <1>11, <1>12, <2>4, PermOthers
  <2> QED BY <2>3, <2>5, <2>6 DEF Lone
<1> QED BY <1>0, <1>1, <1>2, <1>8, <1>9, <1>10, <1>12, Continues

(* A removal begins to delete a directory, or finds none.                  *)
LEMMA DeleteStep == ASSUME FoundryInv, NEW p \in Workers, Delete(p) PROVE FoundryInv'
<1> DEFINE c == job[p].c
           t == Later(p)
<1>0. Busy(p)
  BY DEF Delete, Doing
<1>1. Now(p) = "delete" /\ Subject(p) = c /\ c \in Comp
  BY <1>0, Basics DEF Delete
<1>2. UNCHANGED <<reg, cache>> /\ lost' = lost
  BY DEF Delete, Counters
<1>3. /\ t # <<>> /\ Head(t) = "deleted" /\ job[p].op = "remove" /\ t[Len(t)] = Final(p)
  BY <1>0, <1>1, Coming
<1>4. /\ dir \in [Comp -> {"none", "part", "whole"}]
      /\ man \in [Comp -> Permission \cup {NoFile, Garbled}]
      /\ cache \in [Comp -> [val : Permission \cup {NoFile, Garbled, Foreign}, fresh : BOOLEAN]]
      /\ \A d \in Comp : cache[d].val \in Permission => Kind[d] = "mcp" /\ reg["bin"] # NoFile
  BY <1>0, Basics DEF FilesInv, FileTypes
<1>5. Changed(p) = {} /\ ~Changes(p) /\ Now(p) \notin Saves
  BY <1>1, <1>3 DEF Changed, Changes, Edits, Saves
<1>6. CASE Reported(p, "failed") /\ UNCHANGED <<dir, man>>
  <2>1. UNCHANGED Files
    BY <1>2, <1>6 DEF Files
  <2> SUFFICES ASSUME job[p].alone PROVE Still'
    BY <1>0, <1>1, <1>2, <1>6, <2>1, Reporting
  <2>2. Outcome(p, "failed")
    BY <1>0, <1>6, Basics, Reports DEF Reported
  <2>3. told' = told
    BY <1>3, <2>2 DEF Outcome
  <2> QED BY <1>0, <1>2, <1>5, <2>1, <2>3, StillSame
<1>7. CASE /\ dir' = [dir EXCEPT ![c] = "part"] /\ man' \in {man, [man EXCEPT ![c] = NoFile]}
           /\ Goto(p, t)
  <2>1. Moves(p, t, job[p].mem, job[p].val) /\ told' = told
    BY <1>0, <1>3, <1>7, Goes
  <2>2. /\ dir' \in [Comp -> {"none", "part", "whole"}]
        /\ man' \in [Comp -> Permission \cup {NoFile, Garbled}]
        /\ \A d \in Comp : d # c => dir'[d] = dir[d] /\ man'[d] = man[d]
    BY <1>1, <1>4, <1>7
  <2>3. FilesInv' /\ Lasting
    BY <1>2, <1>4, <2>2, Unregistered
  <2>4. Ready(p, t, job[p].mem, job[p].val)
    BY <1>0, <1>2, <1>3, Basics DEF Ready
  <2>5. /\ Now(p)' = "deleted" /\ Final(p)' = Final(p) /\ job'[p].op = job[p].op
        /\ job'[p].c = c /\ job'[p].mem = job[p].mem /\ job'[p].val = job[p].val
    BY <1>0, <1>3, <2>1, <2>4, Seen
  <2>6. ASSUME job[p].alone PROVE Lone(p)'
    <3>1. LoneFiles(p) /\ LoneKept(p) /\ Quiet(Changed(p))
      BY <1>0, <2>6, AloneNow DEF LoneKept
    <3>2. LoneFiles(p)'
      BY <1>1, <1>3, <2>5, <3>1 DEF LoneFiles
    <3>3. Changed(p)' = {c} /\ Changes(p)'
      BY <1>3, <2>5 DEF Changed, Changes
    <3>4. LoneKept(p)'
      <4>1. Quiet(Changed(p))'
        BY <1>2, <1>5, <2>1, <2>2, <3>1, <3>3, QuietGrown
      <4> QED BY <2>5, <4>1 DEF LoneKept, Saves
    <3>5. LonePerm(p)'
      BY <1>0, <1>2, <2>1, <2>2, <2>5, <2>6, <3>3, PermOthers
    <3> QED BY <3>2, <3>4, <3>5 DEF Lone
  <2> QED BY <1>0, <1>1, <1>2, <2>1, <2>3, <2>4, <2>6, Continues
<1> QED BY <1>1, <1>6, <1>7 DEF Delete

(* The directory is gone, or what is left of it stays.                     *)
LEMMA DeletedStep == ASSUME FoundryInv, NEW p \in Workers, Deleted(p) PROVE FoundryInv'
<1> DEFINE c == job[p].c
           t == Later(p)
           x == [val |-> NoFile, fresh |-> FALSE]
<1>0. Busy(p)
  BY DEF Deleted, Doing
<1>1. Now(p) = "deleted" /\ Subject(p) = c /\ c \in Comp
  BY <1>0, Basics DEF Deleted
<1>2. reg' = reg /\ lost' = lost /\ Goto(p, t)
  BY DEF Deleted, Counters
<1>3. /\ t # <<>> /\ Head(t) = "load" /\ job[p].op = "remove" /\ t[Len(t)] = Final(p)
  BY <1>0, <1>1, Coming
<1>4. /\ dir \in [Comp -> {"none", "part", "whole"}]
      /\ man \in [Comp -> Permission \cup {NoFile, Garbled}]
      /\ cache \in [Comp -> [val : Permission \cup {NoFile, Garbled, Foreign}, fresh : BOOLEAN]]
      /\ \A d \in Comp : cache[d].val \in Permission => Kind[d] = "mcp" /\ reg["bin"] # NoFile
  BY <1>0, Basics DEF FilesInv, FileTypes
<1>5. \/ UNCHANGED <<dir, man, cache>>
      \/ /\ dir' = [dir EXCEPT ![c] = "none"] /\ man' = [man EXCEPT ![c] = NoFile]
         /\ cache' = [cache EXCEPT ![c] = x]
  BY <1>1 DEF Deleted
<1>x. x \in [val : Permission \cup {NoFile, Garbled, Foreign}, fresh : BOOLEAN] /\ x.val = NoFile
  OBVIOUS
<1> HIDE DEF x
<1>6. /\ dir' \in [Comp -> {"none", "part", "whole"}]
      /\ man' \in [Comp -> Permission \cup {NoFile, Garbled}]
      /\ cache' \in [Comp -> [val : Permission \cup {NoFile, Garbled, Foreign}, fresh : BOOLEAN]]
      /\ \A d \in Comp : d # c => dir'[d] = dir[d] /\ man'[d] = man[d] /\ cache'[d] = cache[d]
      /\ cache'[c].val \in {NoFile, cache[c].val}
  <2>1. CASE UNCHANGED <<dir, man, cache>>
    BY <1>4, <2>1
  <2>2. CASE /\ dir' = [dir EXCEPT ![c] = "none"] /\ man' = [man EXCEPT ![c] = NoFile]
             /\ cache' = [cache EXCEPT ![c] = x]
    BY <1>1, <1>4, <1>x, <2>2
  <2> QED BY <1>5, <2>1, <2>2
<1>7. \A d \in Comp : cache'[d].val \in Permission => Kind[d] = "mcp" /\ reg["bin"] # NoFile
  BY <1>4, <1>6, Marks
<1>8. FilesInv' /\ Lasting
  BY <1>2, <1>6, <1>7, Unregistered
<1>9. Moves(p, t, job[p].mem, job[p].val) /\ told' = told
  BY <1>0, <1>2, <1>3, Goes
<1>10. Ready(p, t, job[p].mem, job[p].val)
  BY <1>0, <1>2, <1>3, Basics DEF Ready
<1>11. /\ Now(p)' = "load" /\ Final(p)' = Final(p) /\ job'[p].op = job[p].op
       /\ job'[p].c = c /\ job'[p].mem = job[p].mem /\ job'[p].val = job[p].val
  BY <1>0, <1>3, <1>9, <1>10, Seen
<1>12. ASSUME job[p].alone PROVE Lone(p)'
  <2>1. LoneFiles(p) /\ LoneKept(p) /\ Quiet(Changed(p))
    BY <1>0, <1>12, AloneNow DEF LoneKept
  <2>2. LoneFiles(p)'
    BY <1>1, <1>3, <1>11, <2>1 DEF LoneFiles
  <2>3. Changed(p)' = {c} /\ Changed(p) = {c} /\ Changes(p)'
    BY <1>1, <1>3, <1>11 DEF Changed, Changes
  <2>4. LoneKept(p)'
    <3>1. Quiet(Changed(p))'
      BY <1>2, <1>6, <1>9, <2>1, <2>3, QuietGrown
    <3> QED BY <1>11, <3>1 DEF LoneKept, Saves
  <2>5. LonePerm(p)'
    BY <1>0, <1>2, <1>6, <1>9, <1>11, <1>12, <2>3, PermOthers
  <2> QED BY <2>2, <2>4, <2>5 DEF Lone
<1> QED BY <1>0, <1>1, <1>2, <1>8, <1>9, <1>10, <1>12, Continues

(* An execution caches the permission that it read.                        *)
LEMMA WriteCacheStep == ASSUME FoundryInv, NEW p \in Workers, WriteCache(p) PROVE FoundryInv'
<1> DEFINE c == job[p].c
           t == Later(p)
           w == IF Now(p) = "openCache" THEN Garbled ELSE job[p].val
           x == [val |-> w, fresh |-> TRUE]
<1>0. Busy(p)
  BY DEF WriteCache, Doing
<1>1. Now(p) \in {"openCache", "fillCache"} /\ Subject(p) = c /\ c \in Comp /\ job[p].val \in Permission
  BY <1>0, Basics DEF WriteCache
<1>2. UNCHANGED <<reg, dir, man>> /\ lost' = lost /\ Goto(p, t)
  BY DEF WriteCache, Counters
<1>3. /\ t # <<>> /\ job[p].op = "execute" /\ t[Len(t)] = Final(p)
      /\ Now(p) = "openCache" => Head(t) = "fillCache"
      /\ Now(p) = "fillCache" => Head(t) = "run"
  BY <1>0, <1>1, Coming
<1>4. /\ dir \in [Comp -> {"none", "part", "whole"}]
      /\ man \in [Comp -> Permission \cup {NoFile, Garbled}]
      /\ cache \in [Comp -> [val : Permission \cup {NoFile, Garbled, Foreign}, fresh : BOOLEAN]]
      /\ \A d \in Comp : cache[d].val \in Permission => Kind[d] = "mcp" /\ reg["bin"] # NoFile
      /\ Kind[c] = "mcp" /\ reg["bin"] # NoFile
  BY <1>0, <1>1, Basics, Working DEF FilesInv, FileTypes, WorkerInv
<1>5. cache' = IF dir[c] = "none" THEN cache ELSE [cache EXCEPT ![c] = x]
  BY <1>0, <1>1, Basics DEF WriteCache
<1>x. /\ x \in [val : Permission \cup {NoFile, Garbled, Foreign}, fresh : BOOLEAN]
      /\ Now(p) = "openCache" => x.val = Garbled
      /\ Now(p) = "fillCache" => x.val = job[p].val
  BY <1>1
<1> HIDE DEF x
<1>6. /\ cache' \in [Comp -> [val : Permission \cup {NoFile, Garbled, Foreign}, fresh : BOOLEAN]]
      /\ \A d \in Comp : d # c => cache'[d] = cache[d]
      /\ cache'[c] = cache[c] \/ cache'[c] = x
  BY <1>1, <1>4, <1>5, <1>x
<1>7. \A d \in Comp : cache'[d].val \in Permission => Kind[d] = "mcp" /\ reg["bin"] # NoFile
  BY <1>4, <1>6
<1>8. FilesInv' /\ Lasting
  BY <1>2, <1>4, <1>6, <1>7, Unregistered
<1>9. Moves(p, t, job[p].mem, job[p].val) /\ told' = told
  BY <1>0, <1>2, <1>3, Goes
<1>10. Ready(p, t, job[p].mem, job[p].val)
  BY <1>0, <1>1, <1>2, <1>3, <1>4, Basics DEF Ready
<1>11. /\ Now(p)' = Head(t) /\ Final(p)' = Final(p) /\ job'[p].op = job[p].op
       /\ job'[p].c = c /\ job'[p].mem = job[p].mem /\ job'[p].val = job[p].val
  BY <1>0, <1>3, <1>9, <1>10, Seen
<1>n. Now(p)' \in {"fillCache", "run"} /\ (Now(p)' = "fillCache" => Now(p) = "openCache")
  BY <1>1, <1>3, <1>11
<1>12. ASSUME job[p].alone PROVE Lone(p)'
  <2>1. LoneFiles(p) /\ LoneKept(p) /\ LonePerm(p) /\ Quiet(Changed(p))
    BY <1>0, <1>12, AloneNow DEF LoneKept
  <2>2. job[p].val = man[c] /\ ~CacheUsed(c)
    BY <1>1, <2>1 DEF LoneFiles
  <2>3. Now(p) = "openCache" => ~CacheUsed(c)'
    BY <1>6, <1>11, <1>x, <2>2, Marks DEF CacheUsed
  <2>4. CacheUsed(c)' => cache'[c].val = man'[c]
    BY <1>1, <1>2, <1>6, <1>11, <1>x, <2>2, <2>3 DEF CacheUsed
  <2>5. LoneFiles(p)'
    BY <1>2, <1>3, <1>11, <1>n, <2>1, <2>2, <2>3 DEF LoneFiles
  <2>6. Changed(p)' = {} /\ Changed(p) = {} /\ ~Changes(p)
    BY <1>3, <1>11 DEF Changed, Changes, Edits
  <2>7. LoneKept(p)'
    <3>1. Quiet(Changed(p))'
      BY <1>2, <1>9, <2>1, <2>6, QuietOn
    <3> QED BY <1>n, <3>1 DEF LoneKept, Saves
  <2>8. LonePerm(p)'
    <3> SUFFICES ASSUME NEW d \in Comp PROVE InForce(d)'
      BY DEF LonePerm
    <3>1. InForce(d)
      BY <1>2, <2>1, <2>6 DEF LonePerm
    <3>2. CASE d = c
      <4>1. told[c].perm \in Permission => man[c] = told[c].perm
        BY <1>1, <2>2, <3>1, <3>2, Marks DEF InForce
      <4> QED BY <1>2, <1>9, <1>11, <2>4, <3>2, <4>1 DEF InForce, CacheUsed
    <3>3. CASE d # c
      BY <1>2, <1>6, <1>9, <3>1, <3>3 DEF InForce, CacheUsed
    <3> QED BY <3>2, <3>3
  <2> QED BY <2>5, <2>7, <2>8 DEF Lone
<1>13. Now(p) \notin {"fillYaml", "fillBin"}
  BY <1>1
<1> QED BY <1>0, <1>2, <1>8, <1>9, <1>10, <1>12, <1>13, Continues

Dated(r, b) == [r EXCEPT !.fresh = b]

(* The time stamp of a cache. *)
LEMMA Dates ==
    ASSUME cache \in [Comp -> [val : Permission \cup {NoFile, Garbled, Foreign}, fresh : BOOLEAN]],
           NEW c \in Comp, NEW tick \in BOOLEAN,
           cache' = [cache EXCEPT ![c].fresh = @ /\ ~tick]
    PROVE  /\ cache' \in [Comp -> [val : Permission \cup {NoFile, Garbled, Foreign}, fresh : BOOLEAN]]
           /\ \A d \in Comp : cache'[d].val = cache[d].val /\ (d # c => cache'[d] = cache[d])
<1> DEFINE K == [val : Permission \cup {NoFile, Garbled, Foreign}, fresh : BOOLEAN]
           b == cache[c].fresh /\ ~tick
<1>1. cache' = [cache EXCEPT ![c] = Dated(cache[c], b)]
  BY Zenon DEF Dated
<1>2. b \in BOOLEAN
  OBVIOUS
<1> HIDE DEF b
<1>3. Dated(cache[c], b) \in K /\ Dated(cache[c], b).val = cache[c].val
  BY <1>2 DEF Dated
<1> QED BY <1>1, <1>3

(* The manifest is written, and the operation ends or goes on. *)
LEMMA WriteManifestStep == ASSUME FoundryInv, NEW p \in Workers, WriteManifest(p) PROVE FoundryInv'
<1> DEFINE c == job[p].c
           t == Later(p)
           w == IF Now(p) = "openMan" THEN Garbled ELSE job[p].val
<1>0. Busy(p)
  BY DEF WriteManifest, Doing
<1>1. Now(p) \in {"openMan", "fillMan"} /\ Subject(p) = c /\ c \in Comp /\ job[p].val \in Permission
  BY <1>0, Basics DEF WriteManifest
<1>2. UNCHANGED <<reg, dir>> /\ lost' = lost
  BY DEF WriteManifest, Counters
<1>3. /\ job[p].op \in Edits
      /\ t # <<>> => t[Len(t)] = Final(p)
      /\ Now(p) = "openMan" => t # <<>> /\ Head(t) \in {"openMan", "fillMan", "uncache"}
      /\ Now(p) = "fillMan" /\ t = <<>> => job[p].op = "http"
      /\ Now(p) = "fillMan" /\ t # <<>> => Head(t) = "uncache"
  BY <1>0, <1>1, Coming
<1>4. /\ dir \in [Comp -> {"none", "part", "whole"}]
      /\ man \in [Comp -> Permission \cup {NoFile, Garbled}]
      /\ cache \in [Comp -> [val : Permission \cup {NoFile, Garbled, Foreign}, fresh : BOOLEAN]]
      /\ \A d \in Comp : cache[d].val \in Permission => Kind[d] = "mcp" /\ reg["bin"] # NoFile
      /\ Reaches(job[p].op, c)
  BY <1>0, <1>1, Basics, Working DEF FilesInv, FileTypes, WorkerInv
<1>5. Changed(p) = {} /\ Changes(p) /\ Now(p) \notin {"fillYaml", "fillBin"}
  BY <1>1, <1>3 DEF Changed, Changes, Edits
<1>6. ASSUME job[p].alone
      PROVE  LoneFiles(p) /\ LoneKept(p) /\ LonePerm(p) /\ Quiet(Changed(p)) /\ dir[c] # "none"
  BY <1>0, <1>1, <1>6, AloneNow DEF LoneKept, LoneFiles
<1>7. CASE dir[c] = "none" /\ Reported(p, "failed") /\ UNCHANGED <<man, cache>>
  <2>1. UNCHANGED Files
    BY <1>2, <1>7 DEF Files
  <2>2. ~job[p].alone
    BY <1>6, <1>7
  <2> QED BY <1>0, <1>2, <1>5, <1>7, <2>1, <2>2, Reporting
<1>8. CASE /\ man' = [man EXCEPT ![c] = w]
           /\ \E tick \in BOOLEAN : cache' = [cache EXCEPT ![c].fresh = @ /\ ~tick]
           /\ Goto(p, t)
  <2>1. w \in {job[p].val, Garbled} /\ (Now(p) = "fillMan" => w = job[p].val)
    BY <1>1
  <2>2. /\ man' \in [Comp -> Permission \cup {NoFile, Garbled}] /\ man'[c] = w
        /\ \A d \in Comp : d # c => man'[d] = man[d]
    BY <1>1, <1>4, <1>8, <2>1
  <2>3. /\ cache' \in [Comp -> [val : Permission \cup {NoFile, Garbled, Foreign}, fresh : BOOLEAN]]
        /\ \A d \in Comp : cache'[d].val = cache[d].val /\ (d # c => cache'[d] = cache[d])
    BY <1>1, <1>4, <1>8, Dates
  <2>4. FilesInv' /\ Lasting
    BY <1>2, <1>4, <2>2, <2>3, Unregistered
  <2> HIDE DEF w
  <2>5. CASE t # <<>>
    <3>1. Moves(p, t, job[p].mem, job[p].val) /\ told' = told
      BY <1>0, <1>8, <2>5, Goes
    <3>2. Head(t) \in {"openMan", "fillMan", "uncache"}
      BY <1>1, <1>3, <2>5
    <3>3. Ready(p, t, job[p].mem, job[p].val)
      BY <1>0, <1>2, <1>4, <2>5, <3>2, Basics DEF Ready
    <3>4. /\ Now(p)' = Head(t) /\ Final(p)' = Final(p) /\ job'[p].op = job[p].op
          /\ job'[p].c = c /\ job'[p].mem = job[p].mem /\ job'[p].val = job[p].val
      BY <1>0, <1>3, <2>5, <3>1, <3>3, Seen
    <3>5. ASSUME job[p].alone PROVE Lone(p)'
      <4>1. LoneFiles(p)'
        BY <1>2, <1>3, <1>6, <2>1, <2>2, <3>2, <3>4, <3>5 DEF LoneFiles, Edits
      <4>2. Changed(p)' = {} /\ Changes(p)'
        BY <1>3, <3>2, <3>4 DEF Changed, Changes, Edits
      <4>3. LoneKept(p)'
        <5>1. Quiet(Changed(p))'
          BY <1>2, <1>5, <1>6, <3>1, <3>5, <4>2, QuietOn
        <5> QED BY <3>2, <3>4, <5>1 DEF LoneKept, Saves
      <4>4. LonePerm(p)'
        BY <1>0, <1>2, <2>2, <2>3, <3>1, <3>2, <3>4, <3>5, <4>2, PermOthers
      <4> QED BY <4>1, <4>3, <4>4 DEF Lone
    <3> QED BY <1>0, <1>2, <1>5, <2>4, <3>1, <3>3, <3>5, Continues
  <2>6. CASE t = <<>>
    <3>1. Reported(p, "ok") /\ job[p].op = "http" /\ Now(p) = "fillMan"
      BY <1>0, <1>1, <1>3, <1>8, <2>6, Goes
    <3>2. Outcome(p, "ok")
      BY <1>0, <3>1, Basics, Reports DEF Reported
    <3>3. ASSUME job[p].alone PROVE Still'
      <4>1. /\ \A d \in Comp : d # c => told'[d] = told[d]
            /\ told'[c].listed = told[c].listed /\ told'[c].perm = job[p].val
        BY <1>3, <3>2, <3>3 DEF Outcome
      <4>2. Quiet({})'
        <5>1. \A d \in Comp : told'[d].listed = told[d].listed
          BY <4>1
        <5>2. lost' \in Nat /\ lost \in Nat /\ lost' >= lost
          BY <1>0, <1>2, Basics
        <5> QED BY <1>2, <1>5, <1>6, <3>3, <5>1, <5>2, QuietOut
      <4>3. cache'[c].val \notin Permission
        BY <1>1, <1>4, <2>3, <3>1 DEF Reaches
      <4>4. ASSUME NEW d \in Comp PROVE InForce(d)'
        <5>1. CASE d = c
          BY <2>1, <2>2, <3>1, <4>1, <4>3, <5>1 DEF InForce, CacheUsed
        <5>2. CASE d # c
          <6>1. InForce(d)
            BY <1>2, <1>6, <3>3, <4>4, <5>2 DEF LonePerm
          <6> QED BY <2>2, <2>3, <4>1, <5>2, <6>1 DEF InForce, CacheUsed
        <5> QED BY <5>1, <5>2
      <4> QED BY <4>2, <4>4 DEF Still
    <3> QED BY <1>0, <1>2, <1>5, <2>4, <3>1, <3>3, Concludes
  <2> QED BY <2>5, <2>6
<1>9. Doing(p, "openMan") <=> Now(p) = "openMan"
  BY <1>0, Basics
<1> QED BY <1>1, <1>7, <1>8, <1>9 DEF WriteManifest

(* A change ends without a cache: the next execution reads the manifest.   *)
LEMMA UncacheStep == ASSUME FoundryInv, NEW p \in Workers, Uncache(p) PROVE FoundryInv'
<1> DEFINE c == job[p].c
           x == [val |-> NoFile, fresh |-> FALSE]
<1>0. Busy(p)
  BY DEF Uncache, Doing
<1>1. Now(p) = "uncache" /\ Subject(p) = c /\ c \in Comp /\ job[p].val \in Permission
  BY <1>0, Basics DEF Uncache
<1>2. UNCHANGED <<reg, dir, man>> /\ lost' = lost
  BY DEF Uncache, Counters
<1>3. job[p].op \in Edits /\ Later(p) = <<>>
  BY <1>0, <1>1, Coming
<1>4. /\ dir \in [Comp -> {"none", "part", "whole"}]
      /\ man \in [Comp -> Permission \cup {NoFile, Garbled}]
      /\ cache \in [Comp -> [val : Permission \cup {NoFile, Garbled, Foreign}, fresh : BOOLEAN]]
      /\ \A d \in Comp : cache[d].val \in Permission => Kind[d] = "mcp" /\ reg["bin"] # NoFile
  BY <1>0, Basics DEF FilesInv, FileTypes
<1>5. cache' = [cache EXCEPT ![c] = x]
  BY <1>1 DEF Uncache
<1>x. x \in [val : Permission \cup {NoFile, Garbled, Foreign}, fresh : BOOLEAN] /\ x.val = NoFile
  OBVIOUS
<1> HIDE DEF x
<1>6. /\ cache' \in [Comp -> [val : Permission \cup {NoFile, Garbled, Foreign}, fresh : BOOLEAN]]
      /\ cache'[c].val = NoFile /\ \A d \in Comp : d # c => cache'[d] = cache[d]
  BY <1>1, <1>4, <1>5, <1>x
<1>7. \A d \in Comp : cache'[d].val \in Permission => Kind[d] = "mcp" /\ reg["bin"] # NoFile
  BY <1>4, <1>6, Marks
<1>8. FilesInv' /\ Lasting
  BY <1>2, <1>4, <1>6, <1>7, Unregistered
<1>9. Reported(p, "ok")
  BY <1>0, <1>3, Goes DEF Uncache
<1>10. Outcome(p, "ok")
  BY <1>0, <1>9, Basics, Reports DEF Reported
<1>11. ASSUME job[p].alone PROVE Still'
  <2>1. LoneFiles(p) /\ LoneKept(p) /\ LonePerm(p) /\ Quiet(Changed(p))
    BY <1>0, <1>11, AloneNow DEF LoneKept
  <2>2. man[c] \in {job[p].val, Garbled}
    BY <1>1, <2>1 DEF LoneFiles
  <2>3. /\ \A d \in Comp : d # c => told'[d] = told[d]
        /\ told'[c].listed = told[c].listed /\ told'[c].perm = job[p].val
    BY <1>3, <1>10, <1>11 DEF Outcome
  <2>4. Quiet({})'
    <3>1. \A d \in Comp : told'[d].listed = told[d].listed
      BY <2>3
    <3>2. lost' \in Nat /\ lost \in Nat /\ lost' >= lost
      BY <1>0, <1>2, Basics
    <3>3. Changed(p) = {}
      BY <1>3 DEF Changed, Edits
    <3> QED BY <1>2, <2>1, <3>1, <3>2, <3>3, QuietOut
  <2>5. ASSUME NEW d \in Comp PROVE InForce(d)'
    <3>1. CASE d = c
      BY <1>2, <1>6, <2>2, <2>3, <3>1, Marks DEF InForce, CacheUsed
    <3>2. CASE d # c
      <4>1. InForce(d)
        BY <1>2, <2>1, <2>5, <3>2 DEF LonePerm
      <4> QED BY <1>2, <1>6, <2>3, <3>2, <4>1 DEF InForce, CacheUsed
    <3> QED BY <3>1, <3>2
  <2> QED BY <2>4, <2>5 DEF Still
<1>12. Now(p) \notin {"fillYaml", "fillBin"}
  BY <1>1
<1> QED BY <1>0, <1>2, <1>8, <1>9, <1>11, <1>12, Concludes

(* What is torn is of this crash, or of one before. *)
LEMMA TornLater ==
    ASSUME FoundryInv, NEW p \in Workers, reg' = reg, lost' = lost + 1, Now(p)' = "idle",
           \A q \in Workers : q # p => Now(q)' = Now(q)
    PROVE  Tears'
<1>1. Tears /\ lost \in Nat
  BY DEF FoundryInv
<1>2. lost' >= 1
  BY <1>1
<1>3. ASSUME Emptied("yaml"), Emptied("bin"), ~Filling("fillYaml")', ~Filling("fillBin")' PROVE lost' >= 2
  <2>1. CASE Now(p) = "fillYaml"
    <3>1. ~Filling("fillBin")
      BY <1>3, <2>1 DEF Filling
    <3> QED BY <1>1, <1>3, <3>1 DEF Tears
  <2>2. CASE Now(p) = "fillBin"
    <3>1. ~Filling("fillYaml")
      BY <1>3, <2>2 DEF Filling
    <3> QED BY <1>1, <1>3, <3>1 DEF Tears
  <2>3. CASE Now(p) \notin {"fillYaml", "fillBin"}
    <3>1. ~Filling("fillYaml") /\ ~Filling("fillBin")
      BY <1>3, <2>3 DEF Filling
    <3> QED BY <1>1, <1>3, <3>1 DEF Tears
  <2> QED BY <2>1, <2>2, <2>3
<1>4. Emptied("yaml")' = Emptied("yaml") /\ Emptied("bin")' = Emptied("bin")
  BY DEF Emptied
<1>5. Emptied("yaml")' /\ Emptied("bin")' /\ ~Filling("fillYaml")' /\ ~Filling("fillBin")' =>
        lost' >= 2
  BY <1>3, <1>4
<1> QED BY <1>2, <1>5, Zenon DEF Tears

(* A process ends in the middle of its operation.                          *)
LEMMA JobCrashStep == ASSUME FoundryInv, NEW p \in Workers, JobCrash(p) PROVE FoundryInv'
<1> DEFINE c == job[p].c
           x == [listed |-> Unsure, perm |-> Unsure]
<1>1. /\ Busy(p) /\ lost' = lost + 1 /\ job' = [job EXCEPT ![p] = NoJob] /\ UNCHANGED Files
      /\ UNCHANGED <<reg, dir, man, cache>>
  BY DEF JobCrash, Files
<1>2. /\ job \in [Workers -> JobRecord] /\ c \in Comp /\ Subject(p) = c /\ job[p].mem \in SUBSET Comp
      /\ told \in [Comp -> Belief] /\ lost \in Nat /\ Tears /\ job[p].op \in Operations /\ Crowd
  BY <1>1, Basics DEF FoundryInv
<1>3. told' = IF job[p].op = "execute" THEN told ELSE [told EXCEPT ![c] = x]
  BY <1>2 DEF JobCrash, Doubt
<1>x. x \in Belief /\ x.listed = Unsure /\ x.perm = Unsure
  BY DEF Belief
<1>d. DoubtAll = [d \in Comp |-> x]
  BY DEF DoubtAll
<1> HIDE DEF x
<1>4. /\ told' \in [Comp -> Belief]
      /\ \A d \in Comp : d # c => told'[d] = told[d]
      /\ job[p].op = "execute" => told' = told
      /\ job[p].op # "execute" => told'[c] = x
  BY <1>2, <1>3, <1>x
<1>5. ~job[p].alone => told' = told
  <2> SUFFICES ASSUME ~job[p].alone PROVE told' = told
    OBVIOUS
  <2>1. told = [d \in Comp |-> x]
    BY <1>1, <1>2, <1>d DEF Crowd
  <2>2. [told EXCEPT ![c] = x] = told
    BY <1>2, <2>1
  <2> QED BY <1>3, <2>2
<1>6. FilesInv' /\ Lasting /\ lost' \in Nat
  BY <1>1, <1>2, SameFiles
<1>7. Now(p)' = "idle" /\ \A q \in Workers : q # p => Now(q)' = Now(q)
  BY <1>1, <1>2, MovedOut
<1>8. Tears'
  <2>1. reg' = reg /\ lost' = lost + 1
    BY <1>1
  <2> QED BY <1>7, <2>1, TornLater
<1>9. ASSUME job[p].alone PROVE Still'
  <2>1. LoneFiles(p) /\ LoneKept(p) /\ LonePerm(p) /\ Quiet(Changed(p))
    BY <1>1, <1>9, AloneNow DEF LoneKept
  <2>2. CASE job[p].op = "execute"
    <3>1. Quiet({})'
      <4>1. \A d \in Comp : told'[d].listed = told[d].listed
        BY <1>4, <2>2
      <4>2. lost' \in Nat /\ lost \in Nat /\ lost' >= lost
        BY <1>1, <1>2
      <4>3. Changed(p) = {}
        BY <2>2 DEF Changed
      <4> QED BY <1>1, <2>1, <4>1, <4>2, <4>3, QuietOut
    <3>2. ~Changes(p)
      BY <2>2 DEF Changes, Edits
    <3> QED BY <1>1, <1>4, <2>1, <2>2, <3>1, <3>2
           DEF Still, LonePerm, InForce, CacheUsed
  <2>3. CASE job[p].op # "execute"
    <3>1. told'[c].listed \notin BOOLEAN /\ told'[c].perm \notin Permission
      BY <1>4, <1>x, <2>3, Marks
    <3>2. Changed(p) \subseteq {c}
      BY DEF Changed
    <3>3. \A X : Keeps(X, Changed(p)) => Keeps(X, {})'
      <4>1. lost' <= 1 => lost <= 1
        BY <1>1, <1>2
      <4> QED BY <1>1, <1>4, <3>1, <3>2, <4>1 DEF Keeps
    <3>4. lost' <= 1 /\ Emptied("bin") /\ Readable(reg["yaml"]) => reg["yaml"] \subseteq Installed
      <4> SUFFICES ASSUME lost' <= 1, Emptied("bin"), Readable(reg["yaml"])
                   PROVE reg["yaml"] \subseteq Installed
        OBVIOUS
      <4>1. ~(lost >= 1)
        BY <1>1, <1>2
      <4>2. Filling("fillBin")
        BY <1>2, <4>1 DEF Tears
      <4>3. Now(p) = "fillBin"
        BY <1>1, <1>9, <4>2, AloneNow DEF Filling
      <4> QED BY <2>1, <4>3 DEF LoneFiles, LoneKept, Saves, Emptied, Readable
    <3>5. Quiet({})'
      <4>1. /\ Readable(reg["bin"]) => Keeps(reg["bin"], {})'
            /\ Readable(reg["yaml"]) /\ ~Readable(reg["bin"]) => Keeps(reg["yaml"], {})'
            /\ reg["bin"] = NoFile => Keeps({}, {})'
        BY <1>1, <2>1, <3>3 DEF Quiet
      <4>2. Installed' = Installed
        BY <1>1 DEF Installed
      <4> QED BY <1>1, <3>4, <4>1, <4>2 DEF Quiet, Emptied
    <3>6. ASSUME NEW d \in Comp PROVE InForce(d)'
      <4>1. CASE d = c
        BY <3>1, <4>1 DEF InForce
      <4>2. CASE d # c
        <5>1. InForce(d)
          BY <1>1, <2>1, <3>6, <4>2 DEF LonePerm
        <5> QED BY <1>1, <1>4, <4>2, <5>1 DEF InForce, CacheUsed
      <4> QED BY <4>1, <4>2
    <3> QED BY <3>5, <3>6 DEF Still
  <2> QED BY <2>2, <2>3
<1> QED BY <1>1, <1>4, <1>5, <1>6, <1>8, <1>9, Stops

-----------------------------------------------------------------------------
(* Components: an operation begins *)

Marked(r, b) == [r EXCEPT !.alone = b]

(* Whether it is alone. *)
LEMMA Marking ==
    ASSUME NEW r \in JobRecord, NEW b \in BOOLEAN
    PROVE  /\ Marked(r, b) \in JobRecord /\ Marked(r, b).alone = b
           /\ Marked(r, b).op = r.op /\ Marked(r, b).c = r.c /\ Marked(r, b).todo = r.todo
           /\ Marked(r, b).mem = r.mem /\ Marked(r, b).val = r.val
  BY DEF Marked, JobRecord

(* The operations as they begin. *)
LEMMA Beginnings ==
    ASSUME NEW op \in Operations
    PROVE  LET t == Program(op) IN
           /\ t \in Seq(JobStep) /\ t # <<>> /\ Shaped(op, t)
           /\ op = "install" => Head(t) = "fetch" /\ t[Len(t)] = "register"
           /\ op = "remove" => Head(t) = "delete" /\ t[Len(t)] = "deregister"
           /\ op = "execute" => Head(t) = "load"
           /\ op \in Edits => Head(t) = "edit"
<1> DEFINE t == Program(op)
<1>1. CASE op = "install"
  <2>1. t = <<"fetch", "unpack", "load", "cacheManifest", "register">>
    BY <1>1 DEF Program
  <2>2. /\ t \in Seq(JobStep) /\ Len(t) = 5 /\ t # <<>> /\ Head(t) = "fetch" /\ t[1] = "fetch"
        /\ t[2] = "unpack" /\ t[3] = "load" /\ t[4] = "cacheManifest" /\ t[5] = "register"
    BY <2>1 DEF JobStep
  <2> HIDE DEF t
  <2>3. \A i \in 1..5 : i = 1 \/ i = 2 \/ i = 3 \/ i = 4 \/ i = 5
    OBVIOUS
  <2>4. /\ "register" \in Finals(op) /\ <<"fetch", "unpack">> \in Links(op)
        /\ <<"unpack", "load">> \in Links(op) /\ <<"load", "cacheManifest">> \in Links(op)
        /\ <<"cacheManifest", "register">> \in Links(op)
    BY <1>1 DEF Finals, Links
  <2>5. \A i \in 1..5 : IF i = 5 THEN t[i] \in Finals(op) ELSE <<t[i], t[i + 1]>> \in Links(op)
    <3>1. /\ <<t[1], t[2]>> \in Links(op) /\ <<t[2], t[3]>> \in Links(op)
          /\ <<t[3], t[4]>> \in Links(op) /\ <<t[4], t[5]>> \in Links(op)
          /\ t[5] \in Finals(op)
      BY <2>2, <2>4
    <3> DEFINE L(i, k) == <<t[i], t[k]>> \in Links(op)
               F(i) == t[i] \in Finals(op)
    <3>2. L(1, 2) /\ L(2, 3) /\ L(3, 4) /\ L(4, 5) /\ F(5)
      BY <3>1
    <3> HIDE DEF L, F
    <3>3. \A i \in 1..5 : IF i = 5 THEN F(i) ELSE L(i, i + 1)
      BY <2>3, <3>2
    <3> QED BY <3>3 DEF L, F
  <2>6. Shaped(op, t)
    BY <2>2, <2>5 DEF Shaped
  <2> QED BY <1>1, <2>2, <2>6 DEF t, Edits
<1>2. CASE op = "remove"
  <2>1. t = <<"delete", "deleted", "load", "deregister">>
    BY <1>2 DEF Program
  <2>2. /\ t \in Seq(JobStep) /\ Len(t) = 4 /\ t # <<>> /\ Head(t) = "delete" /\ t[1] = "delete"
        /\ t[2] = "deleted" /\ t[3] = "load" /\ t[4] = "deregister"
    BY <2>1 DEF JobStep
  <2> HIDE DEF t
  <2>3. \A i \in 1..4 : i = 1 \/ i = 2 \/ i = 3 \/ i = 4
    OBVIOUS
  <2>4. /\ "deregister" \in Finals(op) /\ <<"delete", "deleted">> \in Links(op)
        /\ <<"deleted", "load">> \in Links(op) /\ <<"load", "deregister">> \in Links(op)
    BY <1>2 DEF Finals, Links
  <2>5. \A i \in 1..4 : IF i = 4 THEN t[i] \in Finals(op) ELSE <<t[i], t[i + 1]>> \in Links(op)
    <3>1. /\ <<t[1], t[2]>> \in Links(op) /\ <<t[2], t[3]>> \in Links(op)
          /\ <<t[3], t[4]>> \in Links(op)
          /\ t[4] \in Finals(op)
      BY <2>2, <2>4
    <3> DEFINE L(i, k) == <<t[i], t[k]>> \in Links(op)
               F(i) == t[i] \in Finals(op)
    <3>2. L(1, 2) /\ L(2, 3) /\ L(3, 4) /\ F(4)
      BY <3>1
    <3> HIDE DEF L, F
    <3>3. \A i \in 1..4 : IF i = 4 THEN F(i) ELSE L(i, i + 1)
      BY <2>3, <3>2
    <3> QED BY <3>3 DEF L, F
  <2>6. Shaped(op, t)
    BY <2>2, <2>5 DEF Shaped
  <2> QED BY <1>2, <2>2, <2>6 DEF t, Edits
<1>3. CASE op = "execute"
  <2>1. t = <<"load", "resolve", "manifest">>
    BY <1>3 DEF Program
  <2>2. /\ t \in Seq(JobStep) /\ Len(t) = 3 /\ t # <<>> /\ Head(t) = "load" /\ t[1] = "load"
        /\ t[2] = "resolve" /\ t[3] = "manifest"
    BY <2>1 DEF JobStep
  <2> HIDE DEF t
  <2>3. \A i \in 1..3 : i = 1 \/ i = 2 \/ i = 3
    OBVIOUS
  <2>4. /\ "manifest" \in Finals(op) /\ <<"load", "resolve">> \in Links(op)
        /\ <<"resolve", "manifest">> \in Links(op)
    BY <1>3 DEF Finals, Links
  <2>5. \A i \in 1..3 : IF i = 3 THEN t[i] \in Finals(op) ELSE <<t[i], t[i + 1]>> \in Links(op)
    BY <2>2, <2>3, <2>4
  <2>6. Shaped(op, t)
    BY <2>2, <2>5 DEF Shaped
  <2> QED BY <1>3, <2>2, <2>6 DEF t, Edits
<1>4. CASE op \in Edits
  <2> DEFINE s == <<"edit", "openMan", "fillMan">>
             u == IF op = "http" THEN <<>> ELSE <<"uncache">>
  <2>1. t = s \o u
    BY <1>4, Zenon DEF Program, Edits
  <2>2. /\ s \in Seq(JobStep) /\ Len(s) = 3 /\ s[1] = "edit" /\ s[2] = "openMan" /\ s[3] = "fillMan"
        /\ u \in Seq(JobStep)
        /\ op = "http" => Len(u) = 0
        /\ op # "http" => Len(u) = 1 /\ u[1] = "uncache"
    <3>1. /\ s \in Seq(JobStep) /\ Len(s) = 3 /\ s[1] = "edit" /\ s[2] = "openMan"
          /\ s[3] = "fillMan"
      BY DEF JobStep
    <3>2. CASE op = "http"
      <4>1. u = <<>>
        BY <3>2
      <4> HIDE DEF u
      <4> QED BY <3>1, <3>2, <4>1
    <3>3. CASE op # "http"
      <4>1. u = <<"uncache">>
        BY <3>3
      <4> HIDE DEF u
      <4> QED BY <3>1, <3>3, <4>1 DEF JobStep
    <3> QED BY <3>2, <3>3
  <2>l. /\ op = "http" => "fillMan" \in Finals(op)
        /\ op # "http" => "uncache" \in Finals(op) /\ <<"fillMan", "uncache">> \in Links(op)
        /\ <<"edit", "openMan">> \in Links(op) /\ <<"openMan", "fillMan">> \in Links(op)
    BY <1>4 DEF Finals, Links, Edits
  <2> HIDE DEF s, u, t
  <2>3. /\ s \o u \in Seq(JobStep) /\ Len(s \o u) = Len(s) + Len(u)
        /\ \A i \in 1..(Len(s) + Len(u)) : (s \o u)[i] = IF i <= Len(s) THEN s[i] ELSE u[i - Len(s)]
    BY <2>2, ConcatProperties
  <2>s. /\ t \in Seq(JobStep) /\ Len(t) = Len(s) + Len(u)
        /\ \A i \in 1..(Len(s) + Len(u)) : t[i] = IF i <= Len(s) THEN s[i] ELSE u[i - Len(s)]
    BY <2>1, <2>3, Zenon
  <2>4. CASE op = "http"
    <3>1. /\ t \in Seq(JobStep) /\ Len(t) = 3 /\ t # <<>> /\ Head(t) = "edit" /\ t[1] = "edit"
          /\ t[2] = "openMan" /\ t[3] = "fillMan"
      <4>1. t \in Seq(JobStep) /\ Len(t) = 3
        BY <2>2, <2>4, <2>s
      <4>2. \A i \in 1..3 : t[i] = s[i]
        BY <2>2, <2>4, <2>s
      <4>3. s[1] = "edit" /\ s[2] = "openMan" /\ s[3] = "fillMan"
        BY <2>2
      <4>4. t[1] = "edit" /\ t[2] = "openMan" /\ t[3] = "fillMan"
        BY <4>2, <4>3
      <4>5. t # <<>> /\ Head(t) = t[1]
        BY <4>1
      <4> QED BY <4>1, <4>4, <4>5
    <3>2. \A i \in 1..3 : i = 1 \/ i = 2 \/ i = 3
      OBVIOUS
    <3>3. \A i \in 1..3 : IF i = 3 THEN t[i] \in Finals(op) ELSE <<t[i], t[i + 1]>> \in Links(op)
      BY <2>4, <2>l, <3>1, <3>2
    <3>4. Shaped(op, t)
      BY <3>1, <3>3 DEF Shaped
    <3> QED BY <2>4, <3>1, <3>4 DEF t, Edits
  <2>5. CASE op # "http"
    <3>1. /\ t \in Seq(JobStep) /\ Len(t) = 4 /\ t # <<>> /\ Head(t) = "edit" /\ t[1] = "edit"
          /\ t[2] = "openMan" /\ t[3] = "fillMan" /\ t[4] = "uncache"
      <4>a. Len(s) = 3 /\ Len(u) = 1
        <5>1. op # "http" => Len(u) = 1
          BY <2>2
        <5> QED BY <2>2, <2>5, <5>1
      <4>2. Len(s) + Len(u) = 4
        BY <4>a
      <4>1. t \in Seq(JobStep) /\ Len(t) = 4
        BY <2>s, <4>2
      <4>3. \A i \in 1..4 : t[i] = IF i <= 3 THEN s[i] ELSE u[i - 3]
        BY <2>s, <4>2, <4>a
      <4>4. s[1] = "edit" /\ s[2] = "openMan" /\ s[3] = "fillMan" /\ u[1] = "uncache"
        BY <2>2, <2>5
      <4>5. t[1] = "edit" /\ t[2] = "openMan" /\ t[3] = "fillMan" /\ t[4] = "uncache"
        BY <4>3, <4>4
      <4>6. t # <<>> /\ Head(t) = t[1]
        BY <4>1
      <4> QED BY <4>1, <4>5, <4>6
    <3>2. \A i \in 1..4 : i = 1 \/ i = 2 \/ i = 3 \/ i = 4
      OBVIOUS
    <3>3. \A i \in 1..4 : IF i = 4 THEN t[i] \in Finals(op) ELSE <<t[i], t[i + 1]>> \in Links(op)
      BY <2>5, <2>l, <3>1, <3>2
    <3>4. Shaped(op, t)
      BY <3>1, <3>3 DEF Shaped
    <3> QED BY <1>4, <2>5, <3>1, <3>4 DEF t, Edits
  <2> QED BY <2>4, <2>5
<1> QED BY <1>1, <1>2, <1>3, <1>4 DEF Operations

(* An operation begins, alone or beside others.                            *)
LEMMA BeginJobStep == ASSUME FoundryInv, NEW p \in Workers, BeginJob(p) PROVE FoundryInv'
<1>1. PICK op \in Operations, c \in Comp, v \in Permission :
        /\ op \notin Edits => v = Shipped
        /\ job' = [q \in Workers |->
             IF q = p THEN [op |-> op, c |-> c, todo |-> Program(op), mem |-> {}, val |-> v,
                            alone |-> Alone(p)]
             ELSE [job[q] EXCEPT !.alone = ~Busy(q)]]
  BY DEF BeginJob, Operations, Edits
<1> DEFINE t == Program(op)
           x == Task(op, c, t, {}, v, Alone(p))
<1>2. /\ ~Busy(p) /\ UNCHANGED Files /\ lost' = lost /\ told' = (IF Alone(p) THEN told ELSE DoubtAll)
      /\ UNCHANGED <<reg, dir, man, cache>>
  BY DEF BeginJob, Files
<1>3. /\ job \in [Workers -> JobRecord] /\ told \in [Comp -> Belief] /\ lost \in Nat
      /\ Tears /\ Crowd /\ FoundrySolo /\ \A q \in Workers : WorkerInv(q)
  BY DEF FoundryInv
<1>4. /\ t \in Seq(JobStep) /\ t # <<>> /\ Shaped(op, t)
      /\ op = "install" => Head(t) = "fetch" /\ t[Len(t)] = "register"
      /\ op = "remove" => Head(t) = "delete" /\ t[Len(t)] = "deregister"
      /\ op = "execute" => Head(t) = "load"
      /\ op \in Edits => Head(t) = "edit"
  BY Beginnings
<1> HIDE DEF t
<1>a. Alone(p) \in BOOLEAN
  BY DEF Alone
<1>5. /\ x \in JobRecord /\ x.op = op /\ x.c = c /\ x.todo = t /\ x.mem = {} /\ x.val = v
      /\ x.alone = Alone(p)
  <2> DEFINE b == Alone(p)
  <2>1. b \in BOOLEAN
    BY <1>a
  <2> HIDE DEF b
  <2>2. Task(op, c, t, {}, v, b) \in JobRecord
    BY <1>4, <2>1 DEF Task, JobRecord
  <2>3. /\ Task(op, c, t, {}, v, b).op = op /\ Task(op, c, t, {}, v, b).c = c
        /\ Task(op, c, t, {}, v, b).todo = t /\ Task(op, c, t, {}, v, b).mem = {}
        /\ Task(op, c, t, {}, v, b).val = v /\ Task(op, c, t, {}, v, b).alone = b
    BY TaskFields
  <2> QED BY <2>2, <2>3 DEF b
<1>6. /\ job' = [q \in Workers |-> IF q = p THEN x ELSE Marked(job[q], ~Busy(q))]
  BY <1>1, Zenon DEF Task, Marked, t
<1> HIDE DEF x
<1>7. \A q \in Workers : (~Busy(q)) \in BOOLEAN
  BY DEF Busy
<1>8. \A q \in Workers : q # p =>
        /\ Marked(job[q], ~Busy(q)) \in JobRecord /\ Marked(job[q], ~Busy(q)).alone = ~Busy(q)
        /\ Marked(job[q], ~Busy(q)).op = job[q].op /\ Marked(job[q], ~Busy(q)).c = job[q].c
        /\ Marked(job[q], ~Busy(q)).todo = job[q].todo /\ Marked(job[q], ~Busy(q)).mem = job[q].mem
  <2> SUFFICES ASSUME NEW q \in Workers
               PROVE  LET r == Marked(job[q], ~Busy(q)) IN
                      /\ r \in JobRecord /\ r.alone = ~Busy(q) /\ r.op = job[q].op /\ r.c = job[q].c
                      /\ r.todo = job[q].todo /\ r.mem = job[q].mem
    BY Zenon
  <2>1. job[q] \in JobRecord
    BY <1>3
  <2> DEFINE b == ~Busy(q)
  <2>2. b \in BOOLEAN
    BY <1>7
  <2> HIDE DEF b
  <2>3. /\ Marked(job[q], b) \in JobRecord /\ Marked(job[q], b).alone = b
        /\ Marked(job[q], b).op = job[q].op /\ Marked(job[q], b).c = job[q].c
        /\ Marked(job[q], b).todo = job[q].todo /\ Marked(job[q], b).mem = job[q].mem
    BY <2>1, <2>2, Marking
  <2> QED BY <2>3, Zenon DEF b
<1>9. /\ job' \in [Workers -> JobRecord] /\ job'[p] = x
      /\ \A q \in Workers : q # p =>
           /\ job'[q].alone = ~Busy(q) /\ job'[q].op = job[q].op /\ job'[q].c = job[q].c
           /\ job'[q].todo = job[q].todo /\ job'[q].mem = job[q].mem
  BY <1>5, <1>6, <1>8
<1>10. /\ Busy(p)' /\ Now(p)' = Head(t) /\ Final(p)' = t[Len(t)]
       /\ \A q \in Workers : q # p => Busy(q)' = Busy(q) /\ Now(q)' = Now(q)
  BY <1>4, <1>5, <1>9 DEF Busy, Now, Final
<1>h. Head(t) \in {"fetch", "delete", "load", "edit"}
  BY <1>4 DEF Operations
<1>11. FilesInv' /\ reg' = reg
  BY <1>2, SameFiles
<1>12. \A q \in Workers : WorkerInv(q)'
  <2> SUFFICES ASSUME NEW q \in Workers PROVE WorkerInv(q)'
    OBVIOUS
  <2>1. CASE q = p
    <3>1. WorkerInv(p)'
      BY <1>4, <1>5, <1>9, <1>10, <1>h DEF WorkerInv
    <3> QED BY <2>1, <3>1
  <2>2. CASE q # p
    <3>1. WorkerInv(q)
      BY <1>3
    <3>2. /\ Busy(q)' = Busy(q) /\ Now(q)' = Now(q) /\ job'[q].op = job[q].op
          /\ job'[q].c = job[q].c /\ job'[q].todo = job[q].todo /\ job'[q].mem = job[q].mem
      BY <1>9, <1>10, <2>2
    <3> QED BY <1>11, <3>1, <3>2 DEF WorkerInv, Reaches
  <2> QED BY <2>1, <2>2
<1>13. Tears'
  <2>1. Now(p) = "idle"
    BY <1>2 DEF Now
  <2> QED BY <1>2, <1>10, <2>1, SameTears
<1>14. told' \in [Comp -> Belief]
  <2>1. DoubtAll \in [Comp -> Belief]
    BY DEF DoubtAll, Belief
  <2> QED BY <1>2, <1>3, <2>1
<1>15. CASE ~Alone(p)
  <2>1. told' = DoubtAll
    BY <1>2, <1>15
  <2>2. \A q \in Workers : Busy(q)' => ~job'[q].alone
    <3> SUFFICES ASSUME NEW q \in Workers, Busy(q)' PROVE ~job'[q].alone
      OBVIOUS
    <3>1. CASE q = p
      BY <1>5, <1>9, <1>15, <3>1
    <3>2. CASE q # p
      BY <1>9, <1>10, <3>2
    <3> QED BY <3>1, <3>2
  <2>3. Crowd'
    BY <2>1, <2>2 DEF Crowd, DoubtAll
  <2>4. FoundrySolo'
    BY <1>10, <2>2 DEF FoundrySolo
  <2> QED BY <1>2, <1>3, <1>9, <1>11, <1>12, <1>13, <1>14, <2>3, <2>4 DEF FoundryInv
<1>16. CASE Alone(p)
  <2>1. told' = told /\ \A q \in Workers : ~Busy(q)
    BY <1>2, <1>16 DEF Alone
  <2>2. \A q \in Workers : Busy(q)' => q = p
    BY <1>10, <2>1
  <2>3. job'[p].alone /\ job'[p].op = op /\ job'[p].c = c
    BY <1>5, <1>9, <1>16
  <2>4. Crowd'
    BY <2>2, <2>3 DEF Crowd
  <2>5. Still
    BY <1>3, <2>1 DEF FoundrySolo
  <2>6. Lone(p)'
    <3>1. LoneFiles(p)'
      BY <1>4, <1>10, <1>h, <2>3 DEF LoneFiles
    <3>2. Changed(p)' = {}
      BY <1>4, <1>10, <2>3 DEF Changed
    <3>3. LoneKept(p)'
      <4>1. Quiet({})'
        BY <1>2, <2>1, <2>5 DEF Still, Quiet, Keeps, Known, Installed, Emptied
      <4>2. Quiet(Changed(p))'
        BY <3>2, <4>1
      <4> QED BY <1>10, <1>h, <4>2 DEF LoneKept, Saves
    <3>4. LonePerm(p)'
      BY <1>2, <1>10, <1>h, <2>1, <2>5 DEF Still, LonePerm, InForce, CacheUsed
    <3> QED BY <3>1, <3>3, <3>4 DEF Lone
  <2>7. FoundrySolo'
    BY <1>10, <2>2, <2>6 DEF FoundrySolo
  <2> QED BY <1>2, <1>3, <1>9, <1>11, <1>12, <1>13, <1>14, <2>4, <2>7 DEF FoundryInv
<1> QED BY <1>15, <1>16

(* The files as they are found at first, and nobody works. *)
LEMMA FoundryStart == FoundryInit => FoundryInv
<1> SUFFICES ASSUME FoundryInit PROVE FoundryInv
  OBVIOUS
<1>1. /\ reg["yaml"] = NoFile /\ reg["bin"] = NoFile
      /\ reg \in [{"yaml", "bin"} -> (SUBSET Comp) \cup {NoFile, Garbled}]
      /\ dir \in [Comp -> {"none", "part", "whole"}]
      /\ man \in [Comp -> Permission \cup {NoFile, Garbled}]
      /\ lost = 0 /\ lost \in Nat
  BY DEF FoundryInit
<1>2. /\ cache \in [Comp -> [val : Permission \cup {NoFile, Garbled, Foreign}, fresh : BOOLEAN]]
      /\ \A c \in Comp : cache[c].val = NoFile
  BY DEF FoundryInit
<1>3. /\ told \in [Comp -> Belief]
      /\ \A c \in Comp : told[c].listed = FALSE /\ told[c].perm = Unsure
  BY DEF FoundryInit, Belief
<1>4. NoJob \in JobRecord /\ NoJob.todo = <<>> /\ NoJob.mem = {}
  BY DEF NoJob, JobRecord, Shipped, Permission
<1>5. /\ job \in [Workers -> JobRecord]
      /\ \A p \in Workers : ~Busy(p) /\ Now(p) = "idle" /\ job[p].mem = {}
  BY <1>4 DEF FoundryInit, Busy, Now
<1>6. FilesInv
  BY <1>1, <1>2, Marks DEF FilesInv, FileTypes
<1>7. \A p \in Workers : WorkerInv(p)
  BY <1>5 DEF WorkerInv
<1>8. Crowd
  BY <1>5 DEF Crowd
<1>9. Tears
  BY <1>1, Marks DEF Tears, Emptied
<1>10. FoundrySolo
  <2>1. Still
    <3>1. Keeps({}, {})
      BY <1>3 DEF Keeps
    <3>2. Quiet({})
      BY <1>1, <3>1, Marks DEF Quiet, Emptied
    <3>3. \A c \in Comp : InForce(c)
      BY <1>3, Marks DEF InForce
    <3> QED BY <3>2, <3>3 DEF Still
  <2> QED BY <1>5, <2>1 DEF FoundrySolo
<1> QED BY <1>1, <1>3, <1>5, <1>6, <1>7, <1>8, <1>9, <1>10 DEF FoundryInv

(* What is true of the files and operations depends on nothing else.       *)
LEMMA FoundryStays == ASSUME FoundryInv, UNCHANGED foundryVars PROVE FoundryInv'
<1>1. reg' = reg /\ dir' = dir /\ man' = man /\ cache' = cache /\ job' = job /\ told' = told
      /\ lost' = lost
  BY DEF foundryVars
<1>2. FilesInv'
  BY <1>1 DEF FoundryInv, FilesInv, FileTypes
<1>3. \A p \in Workers : Busy(p)' = Busy(p) /\ Now(p)' = Now(p) /\ Final(p)' = Final(p)
  BY <1>1 DEF Busy, Now, Final
<1>4. \A p \in Workers : WorkerInv(p)'
  BY <1>1, <1>3 DEF FoundryInv, WorkerInv, Reaches
<1>5. Crowd'
  BY <1>1, <1>3 DEF FoundryInv, Crowd, DoubtAll
<1>6. Tears'
  BY <1>1, <1>3 DEF FoundryInv, Tears, Emptied, Filling
<1>7. \A E : Quiet(E) => Quiet(E)'
  BY <1>1 DEF Quiet, Keeps, Known, Installed, Emptied, Readable
<1>8. \A c \in Comp : InForce(c)' = InForce(c)
  BY <1>1 DEF InForce, CacheUsed
<1>9. Still => Still'
  <2>1. Quiet({}) => Quiet({})'
    BY <1>7
  <2> QED BY <1>1, <1>8, <2>1 DEF Still
<1>10. ASSUME NEW p \in Workers, Lone(p) PROVE Lone(p)'
  <2>1. LoneFiles(p)'
    BY <1>1, <1>3, <1>10 DEF Lone, LoneFiles, Emptied, CacheUsed
  <2>2. Changed(p)' = Changed(p) /\ Changes(p)' = Changes(p)
    BY <1>1, <1>3 DEF Changed, Changes
  <2>3. LoneKept(p)'
    <3>1. Quiet(Changed(p))'
      <4>1. Quiet(Changed(p))
        BY <1>10 DEF Lone, LoneKept
      <4> QED BY <1>1, <2>2, <4>1 DEF Quiet, Keeps, Known, Installed, Emptied, Readable
    <3>2. Keeps(job[p].mem, Changed(p)) => Keeps(job[p].mem, Changed(p))'
      BY <1>1, <2>2 DEF Keeps
    <3> QED BY <1>1, <1>3, <1>10, <3>1, <3>2 DEF Lone, LoneKept, Installed, Known, Emptied
  <2>4. LonePerm(p)'
    BY <1>1, <1>3, <1>8, <1>10, <2>2 DEF Lone, LonePerm
  <2> QED BY <2>1, <2>3, <2>4 DEF Lone
<1>11. FoundrySolo'
  BY <1>1, <1>3, <1>9, <1>10 DEF FoundryInv, FoundrySolo
<1> QED BY <1>1, <1>2, <1>4, <1>5, <1>6, <1>11 DEF FoundryInv

(* Every step of every operation, and every crash. *)
LEMMA FoundryStep == FoundryInv /\ [FoundryNext]_foundryVars => FoundryInv'
<1> SUFFICES ASSUME FoundryInv, [FoundryNext]_foundryVars PROVE FoundryInv'
  OBVIOUS
<1>1. CASE UNCHANGED foundryVars
  BY <1>1, FoundryStays
<1>2. ASSUME NEW p \in Workers, WriteRegistry(p) PROVE FoundryInv'
  BY <1>2, OpenYamlStep, FillYamlStep, OpenBinStep, FillBinStep DEF WriteRegistry
<1>3. ASSUME NEW p \in Workers,
             \/ Fetch(p) \/ Unpack(p) \/ CacheManifest(p) \/ Delete(p) \/ Deleted(p)
             \/ Load(p) \/ Register(p) \/ Deregister(p)
      PROVE  FoundryInv'
  BY <1>3, FetchStep, UnpackStep, CacheManifestStep, DeleteStep, DeletedStep, LoadStep, RegisterStep,
     DeregisterStep
<1>4. ASSUME NEW p \in Workers,
             \/ Resolve(p) \/ ReadManifest(p) \/ WriteCache(p) \/ Run(p)
             \/ Edit(p) \/ WriteManifest(p) \/ Uncache(p) \/ JobCrash(p) \/ BeginJob(p)
      PROVE  FoundryInv'
  BY <1>4, ResolveStep, ReadManifestStep, WriteCacheStep, RunStep, EditStep, WriteManifestStep,
     UncacheStep, JobCrashStep, BeginJobStep
<1> QED BY <1>1, <1>2, <1>3, <1>4 DEF FoundryNext

(* What holds of the components, their registry and manifests, at all      *)
(* times, with any number of processes, operations and crashes: what each  *)
(* operation still has to do is a rest of its program, what it has in      *)
(* memory fits the files while it is alone, and when nobody works the      *)
(* files say what was reported.                                            *)
THEOREM ComponentsAreSound == Spec => []FoundryInv
<1>1. Init => FoundryInv
  BY FoundryStart DEF Init
<1>2. FoundryInv /\ [Next]_installVars => FoundryInv'
  <2>1. [Next]_installVars => [FoundryNext]_foundryVars
    BY DEF Next, installVars
  <2> QED BY <2>1, FoundryStep
<1> QED BY <1>1, <1>2, PTL DEF Spec

(* While only executions are under way and something is sure, at most one  *)
(* operation is, and it is alone.                                          *)
LEMMA SettledNow ==
    ASSUME FoundryInv, Settled, told # DoubtAll
    PROVE  \/ Still /\ \A p \in Workers : ~Busy(p)
           \/ \E p \in Workers :
                /\ Busy(p) /\ job[p].alone /\ job[p].op = "execute"
                /\ Quiet({}) /\ \A c \in Comp : InForce(c)
                /\ \A q \in Workers : Busy(q) => q = p
<1>1. CASE \A p \in Workers : ~Busy(p)
  BY <1>1 DEF FoundryInv, FoundrySolo
<1>2. CASE \E p \in Workers : Busy(p)
  <2>1. PICK p \in Workers : Busy(p)
    BY <1>2
  <2>2. job[p].alone /\ job[p].op = "execute"
    BY <2>1 DEF FoundryInv, Crowd, Settled
  <2>3. LoneKept(p) /\ LonePerm(p) /\ \A q \in Workers : Busy(q) => q = p
    BY <2>1, <2>2, AloneNow
  <2>4. Changed(p) = {} /\ ~Changes(p)
    BY <2>2 DEF Changed, Changes, Edits
  <2>5. Quiet({})
    BY <2>3, <2>4 DEF LoneKept
  <2> QED BY <2>1, <2>2, <2>3, <2>4, <2>5 DEF LonePerm
<1> QED BY <1>1, <1>2

(* A component is in the registry that a load finds exactly when the last  *)
(* operation on it said so, for any number of components, processes and    *)
(* operations: through one crash.                                          *)
THEOREM RegistryIsKept == Spec => []RegistryKept
<1>1. FoundryInv => RegistryKept
  <2> SUFFICES ASSUME FoundryInv, Settled, lost <= 1,
                      NEW c \in Comp, told[c].listed \in BOOLEAN
               PROVE  (c \in RegistryNow) = told[c].listed
    BY DEF RegistryKept
  <2>1. Known /\ told # DoubtAll
    <3>1. told[c].listed # Unsure
      BY Marks
    <3> QED BY <3>1 DEF Known, DoubtAll
  <2>2. Quiet({})
    BY <2>1, SettledNow DEF Still
  <2>3. c \in Installed <=> dir[c] # "none"
    BY DEF Installed
  <2>4. ASSUME NEW X, Keeps(X, {}) PROVE (c \in Installed \cap X) = told[c].listed
    BY <2>3, <2>4 DEF Keeps
  <2>5. CASE Readable(reg["bin"])
    BY <2>2, <2>4, <2>5 DEF Quiet, RegistryNow
  <2>6. CASE ~Readable(reg["bin"]) /\ Readable(reg["yaml"])
    BY <2>2, <2>4, <2>6 DEF Quiet, RegistryNow, InYaml
  <2>7. CASE ~Readable(reg["bin"]) /\ ~Readable(reg["yaml"])
    <3>1. /\ reg["yaml"] = NoFile => reg["bin"] = NoFile
          /\ Tears /\ lost \in Nat
      BY DEF FoundryInv, FilesInv
    <3>2. Keeps({}, {})
      <4>1. CASE reg["bin"] = NoFile
        BY <2>2, <4>1 DEF Quiet
      <4>2. CASE reg["bin"] # NoFile
        <5>1. Emptied("yaml") /\ Emptied("bin")
          BY <2>7, <3>1, <4>2 DEF Readable, Emptied
        <5>2. ~(lost >= 2)
          BY <3>1
        <5>3. PICK p \in Workers : Now(p) \in {"fillYaml", "fillBin"}
          BY <3>1, <5>1, <5>2 DEF Tears, Filling
        <5>4. Busy(p)
          BY <5>3 DEF Now
        <5>5. job[p].alone /\ job[p].op = "execute"
          BY <2>1, <5>4, SettledNow
        <5>6. LoneFiles(p) /\ LoneKept(p) /\ job[p].mem \in SUBSET Comp
          BY <5>4, <5>5, AloneNow, Basics
        <5>7. Now(p) = "fillBin"
          BY <2>1, <5>1, <5>3, <5>5, <5>6 DEF LoneKept
        <5>8. job[p].mem = {}
          BY <5>1, <5>6, <5>7, Marks DEF LoneFiles, Emptied
        <5>9. Changed(p) = {}
          BY <5>5 DEF Changed
        <5> QED BY <5>6, <5>7, <5>8, <5>9 DEF LoneKept, Saves
      <4> QED BY <4>1, <4>2
    <3>3. RegistryNow = Installed \cap {}
      BY <2>7 DEF RegistryNow, InYaml
    <3> QED BY <2>4, <3>2, <3>3
  <2> QED BY <2>5, <2>6, <2>7
<1> QED BY <1>1, ComponentsAreSound, PTL

(* The permission that was last confirmed is the one that the next         *)
(* execution uses, for any number of components, processes, operations and *)
(* crashes, and whether or not the clock ticks.                            *)
THEOREM PermissionsAreInForce == Spec => []PermissionInForce
<1>1. FoundryInv => PermissionInForce
  <2> SUFFICES ASSUME FoundryInv, Settled, NEW c \in Comp, told[c].perm \in Permission
               PROVE  IF CacheUsed(c) THEN cache[c].val = told[c].perm
                      ELSE man[c] \in {told[c].perm, Garbled}
    BY DEF PermissionInForce
  <2>1. told # DoubtAll
    <3>1. told[c].perm # Unsure
      BY Marks
    <3> QED BY <3>1 DEF DoubtAll
  <2>2. InForce(c)
    BY <2>1, SettledNow DEF Still
  <2> QED BY <2>2 DEF InForce
<1> QED BY <1>1, ComponentsAreSound, PTL

(* The files of all three kinds have their types. *)
THEOREM InstallTypesHold == Spec => []InstallTypeOK
<1>1. DirectoryInv /\ ArtifactInv /\ FoundryInv => InstallTypeOK
  BY DEF DirectoryInv, PullTypes, Entries, ArtifactInv, ArtifactTypes, FoundryInv, FilesInv, FileTypes,
         InstallTypeOK
<1> QED BY <1>1, DirectoryIsSound, BinariesAreSound, ComponentsAreSound, PTL
=============================================================================
