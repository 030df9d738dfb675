---------------------------- MODULE InstallProofs ----------------------------
(***************************************************************************)
(* Proofs about what is installed, for any number of processes, versions,  *)
(* pieces, operations and crashes.  The files of a model, in one directory *)
(* or in two: visible weights lack at most the piece that the manager did  *)
(* not wait for, a unit has its weights, and success is reported of what   *)
(* is there.  The program's own binaries: what a start skips is right.     *)
(***************************************************************************)
EXTENDS InstallProperties, FiniteSetTheorems, TLAPS

-----------------------------------------------------------------------------
(* The directory of a model: the invariant *)

Places == {"idle", "open", "healthy", "chunk", "rename", "manifest", "dna", "purge"}
PullRecord ==
    [kind : {"none", "fetch", "manage", "purge"}, at : Places, ino : Inode \cup {0},
     pos : 0..Pieces, todo : SUBSET (Names \cup UnitFiles),
     res : {"none", "ok", "failed", "aborted"}, list : BOOLEAN]

Downloading == {"open", "chunk", "rename", "manifest", "dna"}
Entries == Dirs \X Names

(* Types, and what is known of an operation by its place. *)
PullTypes ==
    /\ shared \in BOOLEAN /\ late \subseteq Pullers \X Inode /\ short \subseteq Inode
    /\ link \in [Entries -> Inode \cup {0}] /\ body \in [Inode -> SUBSET All]
    /\ unit \in [Dirs \X UnitFiles -> {"absent", "torn", "whole"}]
    /\ there \in [Dirs -> BOOLEAN] /\ mixed \in BOOLEAN /\ purged \in BOOLEAN
    /\ pulls \in 0..MaxPulls /\ died \in Nat
    /\ pull \in [Pullers -> PullRecord]
    /\ \A p \in Pullers :
         /\ pull[p].at \in Downloading => pull[p].kind \in {"fetch", "manage"}
         /\ pull[p].at = "healthy" => pull[p].kind = "manage"
         /\ pull[p].at = "purge" <=> pull[p].kind = "purge" /\ pull[p].at # "idle"
         /\ Writing(p) => pull[p].ino # 0
         /\ pull[p].at = "open" => pull[p].pos = 0
         /\ pull[p].at # "idle" => pull[p].res = "none"

InUse == {i \in Inode : Used(i)}
Opens == {p \in Pullers : pull[p].at = "open"}

(* Every download that has yet to open its partial file finds an inode     *)
(* that nobody uses.                                                       *)
RoomForInodes ==
    /\ IsFiniteSet(InUse) /\ IsFiniteSet(Opens)
    /\ Cardinality(InUse) + Cardinality(Opens) <= pulls

(* No inode has two names.  While no two downloads of a kind have met, one *)
(* process of a kind writes, to an inode that has no name but its own, and *)
(* has written, or owes, all the pieces up to where it is.                 *)
Has == [i \in Inode |-> body[i] \cup Owed(i)]
Apart ==
    /\ \A m, n \in Entries : link[m] = link[n] /\ link[m] # 0 => m = n
    /\ ~mixed =>
         /\ \A d \in Dirs : WeightsIn(d) => All \subseteq Has[link[<<d, "weights">>]]
         /\ \A p, q \in Pullers :
              Writing(p) /\ Writing(q) /\ pull[p].kind = pull[q].kind => p = q
         /\ \A p \in Pullers : Writing(p) =>
              /\ \A n \in Entries : link[n] = pull[p].ino => n = PartOf(pull[p].kind)
              /\ link[PartOf(pull[p].kind)] \in {0, pull[p].ino}
              /\ 1..pull[p].pos \subseteq Has[pull[p].ino]
              /\ pull[p].at = "rename" => pull[p].pos = Pieces

(* A directory in which no purge is at work: who comes from the weights    *)
(* has left them there, a manifest has its weights, and a DNA, without a   *)
(* crash, its manifest.                                                    *)
UnitsOf(d) ==
    /\ \A p \in Pullers : pull[p].at \in {"healthy", "manifest", "dna"} /\ DirOf(pull[p].kind) = d =>
         /\ WeightsIn(d)
         /\ pull[p].at = "healthy" => unit[<<d, "dna">>] # "absent"
         /\ pull[p].at = "dna" => UnitIn(d) \/ died > 0
    /\ UnitIn(d) => WeightsIn(d)
    /\ unit[<<d, "dna">>] # "absent" => UnitIn(d) \/ died > 0

(* A purge that meets nothing removes all there is. *)
Purging == \E p \in Pullers : pull[p].at = "purge"
Units ==
    /\ ~purged => \A p \in Pullers : pull[p].at = "purge" =>
         Present = pull[p].todo /\ \A q \in Pullers : q # p => pull[q].at = "idle"
    /\ \A d \in Dirs : (d = "visible" => ~purged /\ ~Purging) => UnitsOf(d)

DirectoryInv == PullTypes /\ RoomForInodes /\ Apart /\ Units

-----------------------------------------------------------------------------
(* Types *)

(* The constants. *)
LEMMA Sizes == Pieces \in Nat \ {0} /\ MaxPulls \in Nat /\ 0 \notin Inode
  BY ModelAssumption DEF Inode

(* A partial file has a name, which is not that of weights. *)
LEMMA PartNames ==
    /\ \A k : DirOf(k) \in Dirs /\ PartOf(k) \in Entries /\ PartOf(k)[1] = DirOf(k)
    /\ \A k : \A d \in Dirs : PartOf(k) # <<d, "weights">>
    /\ \A d \in Dirs : <<d, "weights">> \in Entries
<1>1. \A k : DirOf(k) \in Dirs
  BY DEF DirOf, Home, Dirs
<1> QED BY <1>1 DEF PartOf, Names, Entries

(* The directories stay what they are. *)
LEMMA SameDirs ==
    ASSUME shared' = shared
    PROVE  \A k : DirOf(k)' = DirOf(k) /\ PartOf(k)' = PartOf(k)
  BY DEF PartOf, DirOf, Home

(* A process that is not writing needs no inode. *)
LEMMA Finished ==
    ASSUME PullTypes, NEW p \in Pullers, NEW res \in {"none", "ok", "failed", "aborted"},
           Finish(p, res)
    PROVE  /\ pull' \in [Pullers -> PullRecord]
           /\ \A q \in Pullers : q # p => pull'[q] = pull[q]
           /\ pull'[p].at = "idle" /\ pull'[p].ino = 0 /\ pull'[p].kind = pull[p].kind
           /\ pull'[p].res = res
<1>1. pull \in [Pullers -> PullRecord]
  BY DEF PullTypes
<1>2. ListAfter(p, res) \in BOOLEAN
  <2>1. pull[p].list \in BOOLEAN
    BY <1>1 DEF PullRecord
  <2>2. CASE res = "ok" /\ pull[p].kind = "fetch"
    BY <2>2 DEF ListAfter
  <2>3. CASE res = "ok" /\ pull[p].kind = "purge"
    BY <2>3 DEF ListAfter
  <2>4. CASE ~(res = "ok" /\ pull[p].kind = "fetch") /\ ~(res = "ok" /\ pull[p].kind = "purge")
    <3>1. ListAfter(p, res) = pull[p].list
      BY <2>4 DEF ListAfter
    <3> QED BY <2>1, <3>1
  <2> QED BY <2>2, <2>3, <2>4
<1> DEFINE b == ListAfter(p, res)
           r == [NoPull EXCEPT !.kind = pull[p].kind, !.res = res, !.list = b]
<1>b. b \in BOOLEAN /\ 0 \in 0..Pieces /\ pull[p].kind \in {"none", "fetch", "manage", "purge"}
  BY <1>1, <1>2, Sizes DEF PullRecord
<1> HIDE DEF b
<1>3. r \in PullRecord /\ r.at = "idle" /\ r.ino = 0 /\ r.kind = pull[p].kind /\ r.res = res
  BY <1>b DEF NoPull, PullRecord, Places
<1>4. pull' = [pull EXCEPT ![p] = r]
  BY DEF Finish, b
<1> HIDE DEF r
<1> QED BY <1>1, <1>3, <1>4

(* An operation that goes on to its next place. *)
LEMMA Gone ==
    ASSUME PullTypes, NEW p \in Pullers, NEW at \in Places, GoTo(p, at)
    PROVE  /\ pull' \in [Pullers -> PullRecord]
           /\ \A q \in Pullers : q # p => pull'[q] = pull[q]
           /\ pull'[p].at = at /\ pull'[p].ino = pull[p].ino /\ pull'[p].kind = pull[p].kind
           /\ pull'[p].pos = pull[p].pos /\ pull'[p].todo = pull[p].todo /\ pull'[p].res = pull[p].res
<1>1. pull \in [Pullers -> PullRecord]
  BY DEF PullTypes
<1> DEFINE r == [pull[p] EXCEPT !.at = at]
<1>2. /\ r \in PullRecord /\ r.at = at /\ r.ino = pull[p].ino /\ r.kind = pull[p].kind
      /\ r.pos = pull[p].pos /\ r.todo = pull[p].todo /\ r.res = pull[p].res
  BY <1>1 DEF PullRecord
<1>3. pull' = [pull EXCEPT ![p] = r]
  BY DEF GoTo
<1> HIDE DEF r
<1> QED BY <1>1, <1>2, <1>3

(* An operation that begins. *)
LEMMA Begun ==
    ASSUME PullTypes, NEW p \in Pullers, NEW k \in {"fetch", "manage", "purge"},
           NEW at \in Places, BeginOn(p, k, at)
    PROVE  /\ pull' \in [Pullers -> PullRecord]
           /\ \A q \in Pullers : q # p => pull'[q] = pull[q]
           /\ pull'[p].at = at /\ pull'[p].ino = 0 /\ pull'[p].kind = k /\ pull'[p].res = "none"
           /\ pull'[p].pos = 0
           /\ pull'[p].todo = IF k = "purge" THEN Present ELSE {}
<1>1. pull \in [Pullers -> PullRecord]
  BY DEF PullTypes
<1> DEFINE todo == IF k = "purge" THEN Present ELSE {}
           r == [NoPull EXCEPT !.kind = k, !.at = at, !.list = pull[p].list, !.todo = todo]
<1>2. todo \in SUBSET (Names \cup UnitFiles)
  BY DEF Present
<1> HIDE DEF todo
<1>l. pull[p].list \in BOOLEAN /\ 0 \in 0..Pieces
  BY <1>1, Sizes DEF PullRecord
<1>3. /\ r \in PullRecord /\ r.at = at /\ r.ino = 0 /\ r.kind = k /\ r.res = "none"
      /\ r.todo = todo /\ r.pos = 0
  BY <1>2, <1>l DEF NoPull, PullRecord
<1>4. pull' = [pull EXCEPT ![p] = r]
  BY DEF BeginOn, todo
<1> HIDE DEF r
<1> QED BY <1>1, <1>3, <1>4 DEF todo

(* Some inode is free when a download opens its partial file. *)
LEMMA FreeInode ==
    ASSUME PullTypes, RoomForInodes, NEW p \in Pullers, pull[p].at = "open"
    PROVE  \E i \in Inode : ~Used(i)
<1>1. p \in Opens
  BY DEF Opens
<1>2. /\ IsFiniteSet(InUse) /\ IsFiniteSet(Opens) /\ Cardinality(InUse) + Cardinality(Opens) <= pulls
      /\ pulls \in 0..MaxPulls /\ MaxPulls \in Nat
  BY Sizes DEF RoomForInodes, PullTypes
<1>3. Cardinality(InUse) \in Nat /\ Cardinality(Opens) \in Nat
  BY <1>2, FS_CardinalityType
<1>4. Cardinality(Opens) # 0
  BY <1>1, <1>2, FS_EmptySet
<1>5. Cardinality(InUse) < MaxPulls
  BY <1>2, <1>3, <1>4
<1>6. IsFiniteSet(Inode) /\ Cardinality(Inode) = MaxPulls
  <2>1. 1 \in Int /\ MaxPulls \in Int /\ MaxPulls >= 0
    BY <1>2
  <2>2. IsFiniteSet(1..MaxPulls)
        /\ Cardinality(1..MaxPulls) = IF 1 > MaxPulls THEN 0 ELSE MaxPulls - 1 + 1
    BY <2>1, FS_Interval
  <2> QED BY <2>1, <2>2 DEF Inode
<1> SUFFICES ASSUME \A i \in Inode : Used(i) PROVE FALSE
  OBVIOUS
<1>7. Inode \in SUBSET InUse
  BY DEF InUse
<1>8. Cardinality(Inode) <= Cardinality(InUse)
  BY <1>2, <1>7, FS_Subset
<1> QED BY <1>3, <1>5, <1>6, <1>8, <1>2

(* What the opening of a partial file does. *)
PartInode(p) ==
    LET part == PartOf(pull[p].kind)
    IN  IF link[part] # 0 THEN link[part]
        ELSE CHOOSE i \in Inode : ~Used(i)
LEMMA Opened ==
    ASSUME PullTypes, RoomForInodes, NEW p \in Pullers, Open(p)
    PROVE  /\ pull' \in [Pullers -> PullRecord]
           /\ \A q \in Pullers : q # p => pull'[q] = pull[q]
           /\ pull'[p].at = "chunk" /\ pull'[p].kind = pull[p].kind
           /\ pull'[p].pos = pull[p].pos /\ pull'[p].res = pull[p].res
           /\ PartInode(p) \in Inode /\ pull'[p].ino = PartInode(p)
           /\ link' = [link EXCEPT ![PartOf(pull[p].kind)] = PartInode(p)]
           /\ body' = [body EXCEPT ![PartInode(p)] = {}]
           /\ short' = short \ {PartInode(p)}
           /\ UNCHANGED <<shared, late, unit, there, purged, pulls, died>>
           /\ pull[p].at = "open" /\ pull[p].kind \in {"fetch", "manage"}
           /\ PartInode(p) # link[PartOf(pull[p].kind)] => ~Used(PartInode(p))
<1> DEFINE i == PartInode(p)
<1>1. pull \in [Pullers -> PullRecord] /\ link \in [Entries -> Inode \cup {0}]
  BY DEF PullTypes
<1>2. pull[p].at = "open" /\ pull[p].kind \in {"fetch", "manage"}
  BY DEF Open, OpenPart, PullTypes, Downloading
<1>3. i \in Inode /\ (i # link[PartOf(pull[p].kind)] => ~Used(i))
  <2>1. CASE link[PartOf(pull[p].kind)] # 0
    <3>1. i = link[PartOf(pull[p].kind)]
      BY <2>1 DEF PartInode
    <3>2. PartOf(pull[p].kind) \in Entries
      BY PartNames
    <3> QED BY <1>1, <2>1, <3>1, <3>2
  <2>2. CASE link[PartOf(pull[p].kind)] = 0
    <3> DEFINE x == CHOOSE j \in Inode : ~Used(j)
    <3>1. \E j \in Inode : ~Used(j)
      BY <1>2, FreeInode
    <3>2. x \in Inode /\ ~Used(x)
      BY <3>1
    <3>3. i = x
      BY <2>2 DEF PartInode
    <3> QED BY <3>2, <3>3
  <2> QED BY <2>1, <2>2
<1>4. /\ pull' = [pull EXCEPT ![p].at = "chunk", ![p].ino = i]
      /\ link' = [link EXCEPT ![PartOf(pull[p].kind)] = i]
      /\ body' = [body EXCEPT ![i] = {}] /\ short' = short \ {i}
      /\ UNCHANGED <<shared, late, unit, there, purged, pulls, died>>
  BY DEF Open, OpenPart, PartInode
<1> HIDE DEF i
<1> DEFINE r == [pull[p] EXCEPT !.at = "chunk", !.ino = i]
<1>5. /\ r \in PullRecord /\ r.at = "chunk" /\ r.ino = i /\ r.kind = pull[p].kind
      /\ r.pos = pull[p].pos /\ r.res = pull[p].res
  BY <1>1, <1>3 DEF PullRecord, Places
<1>6. pull' = [pull EXCEPT ![p] = r]
  BY <1>1, <1>4
<1> HIDE DEF r
<1> QED BY <1>1, <1>2, <1>3, <1>4, <1>5, <1>6 DEF i

(* The place of an operation says what is known of it. *)
PlaceOf(r) ==
    /\ r.at \in Downloading => r.kind \in {"fetch", "manage"}
    /\ r.at = "healthy" => r.kind = "manage"
    /\ r.at = "purge" <=> r.kind = "purge" /\ r.at # "idle"
    /\ r.at \in {"chunk", "rename"} => r.ino # 0
    /\ r.at = "open" => r.pos = 0
    /\ r.at # "idle" => r.res = "none"

LEMMA TypesKept ==
    ASSUME PullTypes, NEW p \in Pullers, pull' \in [Pullers -> PullRecord],
           \A q \in Pullers : q # p => pull'[q] = pull[q], PlaceOf(pull'[p]),
           shared' = shared, late' \subseteq Pullers \X Inode, short' \subseteq Inode,
           link' \in [Entries -> Inode \cup {0}], body' \in [Inode -> SUBSET All],
           unit' \in [Dirs \X UnitFiles -> {"absent", "torn", "whole"}],
           there' \in [Dirs -> BOOLEAN], mixed' \in BOOLEAN, purged' \in BOOLEAN,
           pulls' \in 0..MaxPulls, died' \in Nat
    PROVE  PullTypes'
<1>1. ASSUME NEW q \in Pullers
      PROVE  /\ pull'[q].at \in Downloading => pull'[q].kind \in {"fetch", "manage"}
             /\ pull'[q].at = "healthy" => pull'[q].kind = "manage"
             /\ pull'[q].at = "purge" <=> pull'[q].kind = "purge" /\ pull'[q].at # "idle"
             /\ Writing(q)' => pull'[q].ino # 0
             /\ pull'[q].at = "open" => pull'[q].pos = 0
             /\ pull'[q].at # "idle" => pull'[q].res = "none"
  <2>1. CASE q = p
    BY <2>1 DEF PlaceOf, Writing
  <2>2. CASE q # p
    BY <2>2 DEF PullTypes, Writing
  <2> QED BY <2>1, <2>2
<1> QED BY <1>1 DEF PullTypes

(* An operation that begins is of its kind. *)
LEMMA BegunTypes ==
    ASSUME PullTypes, NEW p \in Pullers, NEW k \in {"fetch", "manage", "purge"},
           NEW at \in {"open", "healthy", "purge"}, BeginOn(p, k, at),
           (at = "purge") <=> (k = "purge"), at = "healthy" => k = "manage"
    PROVE  PullTypes'
<1>t. /\ there \in [Dirs -> BOOLEAN] /\ purged \in BOOLEAN /\ pulls \in 0..MaxPulls
      /\ link \in [Entries -> Inode \cup {0}] /\ body \in [Inode -> SUBSET All]
      /\ unit \in [Dirs \X UnitFiles -> {"absent", "torn", "whole"}]
      /\ late \subseteq Pullers \X Inode /\ short \subseteq Inode
      /\ mixed \in BOOLEAN /\ died \in Nat
  BY DEF PullTypes
<1>1. at \in Places
  BY DEF Places
<1>2. /\ pull' \in [Pullers -> PullRecord]
      /\ \A q \in Pullers : q # p => pull'[q] = pull[q]
      /\ pull'[p].at = at /\ pull'[p].kind = k /\ pull'[p].res = "none" /\ pull'[p].pos = 0
  BY <1>1, Begun
<1>3. PlaceOf(pull'[p])
  BY <1>2 DEF PlaceOf, Downloading
<1>4. there' \in [Dirs -> BOOLEAN]
  BY <1>t DEF BeginOn
<1>5. /\ purged' \in BOOLEAN /\ pulls' \in 0..MaxPulls
      /\ UNCHANGED <<shared, link, body, late, unit, short, mixed, died>>
  BY <1>t, Sizes DEF BeginOn
<1> QED BY <1>t, <1>2, <1>3, <1>4, <1>5, TypesKept

(* Every step of a process keeps the types and leaves the others alone. *)
Steps(p) ==
    \/ Look(p) \/ BeginFetch(p) \/ BeginManage(p) \/ BeginPurge(p)
    \/ Healthy(p) \/ Open(p) \/ AlreadyThere(p) \/ Fail(p) \/ Abort(p)
    \/ Chunk(p) \/ LateWrite(p) \/ LateLost(p) \/ Rename(p) \/ SaveUnit(p) \/ SaveDna(p)
    \/ PurgeEntry(p) \/ PurgeEnd(p) \/ PullCrash(p)

LEMMA StepTypes ==
    ASSUME PullTypes, RoomForInodes, NEW p \in Pullers, Steps(p)
    PROVE  PullTypes' /\ \A q \in Pullers : q # p => pull'[q] = pull[q]
<1>t. /\ link \in [Entries -> Inode \cup {0}] /\ body \in [Inode -> SUBSET All]
      /\ unit \in [Dirs \X UnitFiles -> {"absent", "torn", "whole"}]
      /\ late \subseteq Pullers \X Inode /\ short \subseteq Inode
      /\ there \in [Dirs -> BOOLEAN] /\ mixed \in BOOLEAN /\ purged \in BOOLEAN
      /\ pulls \in 0..MaxPulls /\ died \in Nat
      /\ pull \in [Pullers -> PullRecord] /\ PlaceOf(pull[p])
  BY DEF PullTypes, PlaceOf, Writing
<1>same. UNCHANGED files =>
           /\ shared' = shared /\ late' \subseteq Pullers \X Inode
           /\ link' \in [Entries -> Inode \cup {0}] /\ body' \in [Inode -> SUBSET All]
           /\ unit' \in [Dirs \X UnitFiles -> {"absent", "torn", "whole"}]
           /\ there' \in [Dirs -> BOOLEAN]
  BY <1>t DEF files
<1>hist. UNCHANGED pullHistory =>
           /\ short' \subseteq Inode /\ mixed' \in BOOLEAN /\ purged' \in BOOLEAN
           /\ pulls' \in 0..MaxPulls /\ died' \in Nat
  BY <1>t DEF pullHistory
<1>1. CASE Look(p)
  <2>1. Recommended.cached \in BOOLEAN
    BY DEF Recommended, Cached, WeightsIn
  <2> DEFINE b == Recommended.cached
             r == [pull[p] EXCEPT !.list = b]
  <2>2. pull' = [pull EXCEPT ![p] = r]
    BY <1>1 DEF Look
  <2> HIDE DEF b
  <2>3. r \in PullRecord /\ PlaceOf(r)
    BY <1>t, <2>1 DEF PullRecord, PlaceOf, b
  <2> HIDE DEF r
  <2>4. UNCHANGED files /\ UNCHANGED pullHistory
    BY <1>1 DEF Look
  <2>5. pull' \in [Pullers -> PullRecord] /\ pull'[p] = r
    BY <1>t, <2>2, <2>3
  <2>6. \A q \in Pullers : q # p => pull'[q] = pull[q]
    BY <1>t, <2>2
  <2>7. PlaceOf(pull'[p])
    BY <2>3, <2>5
  <2>8. PullTypes'
    BY <1>same, <1>hist, <2>4, <2>5, <2>6, <2>7, TypesKept
  <2> QED BY <2>6, <2>8
<1>k. BeginFetch(p) \/ BeginManage(p) \/ BeginPurge(p) =>
        \A q \in Pullers : q # p => pull'[q] = pull[q]
  <2>1. ASSUME NEW k \in {"fetch", "manage", "purge"}, NEW at \in Places, BeginOn(p, k, at)
        PROVE  \A q \in Pullers : q # p => pull'[q] = pull[q]
    BY <2>1, Begun
  <2> QED BY <2>1 DEF BeginFetch, BeginManage, BeginPurge, Places
<1>2. CASE BeginFetch(p)
  <2>1. BeginOn(p, "fetch", "open")
    BY <1>2 DEF BeginFetch
  <2> QED BY <1>2, <1>k, <2>1, BegunTypes
<1>3. CASE BeginManage(p)
  <2> DEFINE at == IF WeightsIn(Home) /\ unit[<<Home, "dna">>] # "absent" THEN "healthy" ELSE "open"
  <2>1. BeginOn(p, "manage", at) /\ at \in {"open", "healthy"}
    BY <1>3 DEF BeginManage
  <2> HIDE DEF at
  <2> QED BY <1>3, <1>k, <2>1, BegunTypes
<1>4. CASE BeginPurge(p)
  <2>1. BeginOn(p, "purge", "purge")
    BY <1>4 DEF BeginPurge
  <2> QED BY <1>4, <1>k, <2>1, BegunTypes
<1>f. ASSUME NEW res \in {"none", "ok", "failed", "aborted"}, Finish(p, res)
      PROVE  /\ pull' \in [Pullers -> PullRecord] /\ PlaceOf(pull'[p])
             /\ \A q \in Pullers : q # p => pull'[q] = pull[q]
  BY <1>f, Finished DEF PlaceOf, Downloading
<1>g. ASSUME NEW at \in {"manifest", "dna"}, GoTo(p, at),
             pull[p].at \in Downloading
      PROVE  /\ pull' \in [Pullers -> PullRecord] /\ PlaceOf(pull'[p])
             /\ \A q \in Pullers : q # p => pull'[q] = pull[q]
  <2>1. at \in Places
    BY DEF Places
  <2> QED BY <1>g, <1>t, <2>1, Gone DEF PlaceOf, Downloading
<1>5. CASE Healthy(p)
  BY <1>5, <1>f, <1>same, <1>hist, TypesKept DEF Healthy
<1>6. CASE Open(p)
  <2>1. /\ pull' \in [Pullers -> PullRecord] /\ \A q \in Pullers : q # p => pull'[q] = pull[q]
        /\ PartInode(p) \in Inode
        /\ link' = [link EXCEPT ![PartOf(pull[p].kind)] = PartInode(p)]
        /\ body' = [body EXCEPT ![PartInode(p)] = {}] /\ short' = short \ {PartInode(p)}
        /\ UNCHANGED <<shared, late, unit, there, purged, pulls, died>>
    BY <1>6, Opened
  <2>2. PlaceOf(pull'[p])
    BY <1>6, <1>t, Opened, Sizes DEF PlaceOf, Downloading
  <2>3. /\ link' \in [Entries -> Inode \cup {0}] /\ body' \in [Inode -> SUBSET All]
    BY <1>t, <2>1
  <2>4. mixed' \in BOOLEAN
    BY <1>6, <1>t DEF Open, OpenPart
  <2> QED BY <1>t, <2>1, <2>2, <2>3, <2>4, TypesKept
<1>7. CASE AlreadyThere(p)
  BY <1>7, <1>g, <1>same, <1>hist, TypesKept DEF AlreadyThere, Downloading
<1>8. CASE Fail(p)
  BY <1>8, <1>f, <1>same, <1>hist, TypesKept DEF Fail
<1>9. CASE Abort(p)
  <2>1. link' = [link EXCEPT ![PartOf("fetch")] = 0] /\ UNCHANGED <<shared, body, late, unit, there>>
        /\ UNCHANGED pullHistory /\ Finish(p, "aborted")
    BY <1>9 DEF Abort
  <2>2. link' \in [Entries -> Inode \cup {0}]
    BY <1>t, <2>1
  <2> QED BY <1>f, <1>hist, <1>t, <2>1, <2>2, TypesKept
<1>10. CASE Chunk(p)
  <2> DEFINE n == pull[p].pos + 1
             at == IF n = Pieces THEN "rename" ELSE "chunk"
             r == [pull[p] EXCEPT !.pos = n, !.at = at]
  <2>1. /\ pull[p].at = "chunk" /\ n <= Pieces
        /\ body' = body \/ body' = [body EXCEPT ![pull[p].ino] = @ \cup {n}]
        /\ late' = late \/ late' = late \cup {<<p, pull[p].ino>>}
        /\ pull' = [pull EXCEPT ![p] = r]
        /\ UNCHANGED <<shared, link, unit, there>> /\ UNCHANGED pullHistory
    BY <1>10, <1>t DEF Chunk
  <2>2. n \in 1..Pieces /\ pull[p].ino \in Inode /\ at \in {"rename", "chunk"}
    BY <1>t, <2>1, Sizes DEF PullRecord, PlaceOf
  <2>p. /\ pull[p] \in PullRecord /\ pull[p].kind \in {"fetch", "manage"}
        /\ pull[p].ino # 0 /\ pull[p].res = "none" /\ n \in 0..Pieces /\ at \in Places
    <3>1. pull[p] \in PullRecord
      BY <1>t
    <3>2. pull[p].kind \in {"fetch", "manage"} /\ pull[p].ino # 0 /\ pull[p].res = "none"
      BY <1>t, <2>1 DEF PlaceOf, Downloading
    <3>3. n \in 0..Pieces /\ at \in Places
      BY <2>2 DEF Places
    <3> QED BY <3>1, <3>2, <3>3
  <2> HIDE DEF n, at
  <2>3. r \in PullRecord /\ PlaceOf(r)
    <3>1. r \in PullRecord
      BY <2>p DEF PullRecord
    <3>2. /\ r.at = at /\ r.kind = pull[p].kind /\ r.ino = pull[p].ino /\ r.res = pull[p].res
      BY <2>p DEF PullRecord
    <3> HIDE DEF r
    <3> QED BY <2>2, <2>p, <3>1, <3>2 DEF PlaceOf, Downloading
  <2>4. body' \in [Inode -> SUBSET All] /\ late' \subseteq Pullers \X Inode
    <3>1. n \in All
      BY <2>2 DEF All
    <3> QED BY <1>t, <2>1, <2>2, <3>1
  <2> HIDE DEF r
  <2> QED BY <1>hist, <1>t, <2>1, <2>3, <2>4, TypesKept
<1>la. CASE LateWrite(p)
  <2>1. PICK i \in Inode :
          /\ late' = late \ {<<p, i>>} /\ body' = [body EXCEPT ![i] = @ \cup {Pieces}]
          /\ UNCHANGED <<shared, link, unit, there, pull>> /\ UNCHANGED pullHistory
    BY <1>la DEF LateWrite
  <2>2. body' \in [Inode -> SUBSET All] /\ late' \subseteq Pullers \X Inode
    <3>1. Pieces \in All
      BY Sizes DEF All
    <3> QED BY <1>t, <2>1, <3>1
  <2> QED BY <1>hist, <1>t, <2>1, <2>2, TypesKept
<1>lb. CASE LateLost(p)
  <2>1. PICK i \in Inode :
          /\ late' = late \ {<<p, i>>} /\ short' = short \cup {i}
          /\ UNCHANGED <<shared, link, body, unit, there, pull, mixed, purged, pulls, died>>
    BY <1>lb DEF LateLost
  <2> QED BY <1>t, <2>1, TypesKept
<1>11. CASE Rename(p)
  <2> DEFINE part == PartOf(pull[p].kind)
             w == <<part[1], "weights">>
  <2>1. /\ pull[p].at = "rename" /\ UNCHANGED <<shared, body, late, unit, there>>
        /\ UNCHANGED pullHistory
        /\ part \in Entries /\ w \in Entries
    BY <1>11, PartNames DEF Rename
  <2>2. /\ link' = link \/ link' = [link EXCEPT ![w] = link[part], ![part] = 0]
        /\ Finish(p, "failed") \/ GoTo(p, "manifest")
    BY <1>11 DEF Rename
  <2> HIDE DEF part, w
  <2>3. link' \in [Entries -> Inode \cup {0}]
    BY <1>t, <2>1, <2>2
  <2> QED BY <1>f, <1>g, <1>hist, <1>t, <2>1, <2>2, <2>3, TypesKept DEF Downloading
<1>12. CASE SaveUnit(p)
  <2>1. /\ pull[p].at = "manifest" /\ UNCHANGED <<shared, link, body, late, there>>
        /\ UNCHANGED pullHistory
        /\ unit' \in {unit, [unit EXCEPT ![<<DirOf(pull[p].kind), "manifest">>] = "whole"]}
        /\ Finish(p, "failed") \/ GoTo(p, "dna")
    BY <1>12 DEF SaveUnit
  <2>2. unit' \in [Dirs \X UnitFiles -> {"absent", "torn", "whole"}]
    BY <1>t, <2>1
  <2> QED BY <1>f, <1>g, <1>hist, <1>t, <2>1, <2>2, TypesKept DEF Downloading
<1>13. CASE SaveDna(p)
  <2>1. /\ UNCHANGED <<shared, link, body, late, there>> /\ UNCHANGED pullHistory
        /\ unit' \in {unit, [unit EXCEPT ![<<DirOf(pull[p].kind), "dna">>] = "whole"]}
        /\ Finish(p, "ok") \/ Finish(p, "failed")
    BY <1>13 DEF SaveDna
  <2>2. unit' \in [Dirs \X UnitFiles -> {"absent", "torn", "whole"}]
    BY <1>t, <2>1
  <2> QED BY <1>f, <1>hist, <1>t, <2>1, <2>2, TypesKept
<1>14. CASE PurgeEntry(p)
  <2>1. PICK n \in pull[p].todo :
          /\ pull' = [pull EXCEPT ![p].todo = @ \ {n}]
          /\ link' = IF n \in Names THEN [link EXCEPT ![<<"visible", n>>] = 0] ELSE link
          /\ unit' = IF n \in UnitFiles THEN [unit EXCEPT ![<<"visible", n>>] = "absent"] ELSE unit
    BY <1>14 DEF PurgeEntry
  <2> DEFINE r == [pull[p] EXCEPT !.todo = @ \ {n}]
  <2>2. pull' = [pull EXCEPT ![p] = r] /\ r \in PullRecord /\ PlaceOf(r)
    BY <1>t, <2>1 DEF PullRecord, PlaceOf
  <2> HIDE DEF r
  <2>3. /\ link' \in [Entries -> Inode \cup {0}]
        /\ unit' \in [Dirs \X UnitFiles -> {"absent", "torn", "whole"}]
    BY <1>t, <2>1
  <2>4. UNCHANGED <<shared, body, late, there>> /\ UNCHANGED pullHistory
    BY <1>14 DEF PurgeEntry
  <2> QED BY <1>hist, <1>t, <2>2, <2>3, <2>4, TypesKept
<1>15. CASE PurgeEnd(p)
  <2>1. /\ UNCHANGED <<shared, link, body, late, unit>> /\ UNCHANGED pullHistory
        /\ there' = [there EXCEPT !["visible"] = @ /\ Present # {}]
        /\ Finish(p, "ok") \/ Finish(p, "failed")
    BY <1>15, <1>t DEF PurgeEnd
  <2>2. there' \in [Dirs -> BOOLEAN]
    BY <1>t, <2>1
  <2> QED BY <1>f, <1>hist, <1>t, <2>1, <2>2, TypesKept
<1>16. CASE PullCrash(p)
  <2> DEFINE r == [NoPull EXCEPT !.list = Cached]
  <2>1. Cached \in BOOLEAN
    BY DEF Cached, WeightsIn
  <2>2. pull' = [pull EXCEPT ![p] = r] /\ r \in PullRecord /\ PlaceOf(r)
    BY <1>16, <2>1, Sizes DEF PullCrash, NoPull, PullRecord, PlaceOf, Places, Downloading
  <2> HIDE DEF r
  <2> DEFINE e == <<DirOf(pull[p].kind), pull[p].at>>
  <2>3. /\ died' \in Nat /\ purged' \in BOOLEAN
        /\ UNCHANGED <<shared, link, body, there, mixed, pulls>>
        /\ late' \subseteq late /\ short' \subseteq short \cup Inode
        /\ unit' \in {unit, [unit EXCEPT ![e] = "torn"]}
    BY <1>16, <1>t DEF PullCrash
  <2> HIDE DEF e
  <2>4. unit' \in [Dirs \X UnitFiles -> {"absent", "torn", "whole"}]
    BY <1>t, <2>3
  <2> QED BY <1>t, <2>2, <2>3, <2>4, TypesKept
<1> QED
  BY <1>la, <1>lb, <1>k, <1>1, <1>2, <1>3, <1>4, <1>5, <1>6, <1>7, <1>8, <1>9, <1>10, <1>11, <1>12, <1>13, <1>14,
     <1>15, <1>16 DEF Steps

-----------------------------------------------------------------------------
(* Room for inodes *)

(* An inode in use has been in use, if names are only moved or removed. *)
LEMMA UsedKept ==
    ASSUME NEW p \in Pullers, \A q \in Pullers : q # p => pull'[q] = pull[q],
           pull'[p].ino \in {0, pull[p].ino},
           late' \subseteq late \cup {<<p, pull[p].ino>>},
           \A n \in Entries : link'[n] = 0 \/ \E m \in Entries : link[m] = link'[n]
    PROVE  InUse' \subseteq InUse
<1> SUFFICES ASSUME NEW i \in Inode, Used(i)' PROVE Used(i)
  BY DEF InUse
<1>0. i # 0
  BY Sizes
<1>1. CASE \E n \in Entries : link'[n] = i
  BY <1>0, <1>1 DEF Used, Entries
<1>2. ASSUME NEW q \in Pullers, pull'[q].ino = i PROVE Used(i)
  <2>1. pull[q].ino = i
    BY <1>0, <1>2
  <2> QED BY <2>1 DEF Used
<1>3. ASSUME NEW q \in Pullers, <<q, i>> \in late' PROVE Used(i)
  <2>1. <<q, i>> \in late \/ pull[q].ino = i
    BY <1>3
  <2> QED BY <2>1 DEF Used
<1> QED BY <1>1, <1>2, <1>3 DEF Used, Entries

(* One element more. *)
LEMMA OneMore ==
    ASSUME NEW S, NEW x, IsFiniteSet(S)
    PROVE  /\ IsFiniteSet(S \cup {x})
           /\ Cardinality(S \cup {x}) <= Cardinality(S) + 1
<1>1. /\ IsFiniteSet(S \cup {x}) /\ Cardinality(S) \in Nat
      /\ Cardinality(S \cup {x}) = IF x \in S THEN Cardinality(S) ELSE Cardinality(S) + 1
  BY FS_AddElement, FS_CardinalityType
<1> DEFINE c == Cardinality(S)
<1> HIDE DEF c
<1>2. c \in Nat /\ Cardinality(S \cup {x}) \in {c, c + 1}
  BY <1>1 DEF c
<1>3. Cardinality(S \cup {x}) <= c + 1
  BY <1>2
<1> QED BY <1>1, <1>3 DEF c

(* Sets that have not grown. *)
LEMMA RoomKept ==
    ASSUME RoomForInodes, pulls \in Nat, pulls' \in Nat, pulls <= pulls', InUse' \subseteq InUse,
           Opens' \subseteq Opens \/ \E p \in Pullers : /\ pulls' = pulls + 1
                                                       /\ Opens' \subseteq Opens \cup {p}
    PROVE  RoomForInodes'
<1>1. /\ IsFiniteSet(InUse) /\ IsFiniteSet(Opens) /\ Cardinality(InUse) + Cardinality(Opens) <= pulls
  BY DEF RoomForInodes
<1>2. Cardinality(InUse) \in Nat /\ Cardinality(Opens) \in Nat
  BY <1>1, FS_CardinalityType
<1>3. InUse' \in SUBSET InUse
  OBVIOUS
<1>4. IsFiniteSet(InUse') /\ Cardinality(InUse') <= Cardinality(InUse) /\ Cardinality(InUse') \in Nat
  <2>1. IsFiniteSet(InUse') /\ Cardinality(InUse') <= Cardinality(InUse)
    BY <1>1, <1>3, FS_Subset
  <2> QED BY <2>1, FS_CardinalityType
<1>5. CASE Opens' \subseteq Opens
  <2>1. Opens' \in SUBSET Opens
    BY <1>5
  <2>2. IsFiniteSet(Opens') /\ Cardinality(Opens') <= Cardinality(Opens)
    BY <1>1, <2>1, FS_Subset
  <2>3. Cardinality(Opens') \in Nat
    BY <2>2, FS_CardinalityType
  <2>4. Cardinality(InUse') + Cardinality(Opens') <= pulls'
    BY <1>1, <1>2, <1>4, <2>2, <2>3
  <2> QED BY <1>4, <2>2, <2>4 DEF RoomForInodes
<1>6. ASSUME NEW p \in Pullers, pulls' = pulls + 1, Opens' \subseteq Opens \cup {p}
      PROVE  RoomForInodes'
  <2>1. Opens' \in SUBSET (Opens \cup {p})
    BY <1>6
  <2>2. IsFiniteSet(Opens \cup {p}) /\ Cardinality(Opens \cup {p}) <= Cardinality(Opens) + 1
    BY <1>1, OneMore
  <2>3. IsFiniteSet(Opens') /\ Cardinality(Opens') <= Cardinality(Opens \cup {p})
    BY <2>1, <2>2, FS_Subset
  <2>4. Cardinality(Opens') \in Nat /\ Cardinality(Opens \cup {p}) \in Nat
    BY <2>2, <2>3, FS_CardinalityType
  <2>5. Cardinality(InUse') + Cardinality(Opens') <= pulls'
    BY <1>1, <1>2, <1>4, <1>6, <2>2, <2>3, <2>4
  <2> QED BY <1>4, <2>3, <2>5 DEF RoomForInodes
<1> QED BY <1>5, <1>6

(* A download that opens its partial file takes the inode it has room for. *)
LEMMA OpenRoom ==
    ASSUME PullTypes, RoomForInodes, NEW p \in Pullers, Open(p)
    PROVE  RoomForInodes'
<1>1. /\ \A q \in Pullers : q # p => pull'[q] = pull[q]
      /\ pull'[p].at = "chunk" /\ pull'[p].ino = PartInode(p) /\ PartInode(p) \in Inode
      /\ link' = [link EXCEPT ![PartOf(pull[p].kind)] = PartInode(p)]
      /\ pull[p].at = "open" /\ late' = late
  BY Opened
<1>2. pulls' = pulls /\ pulls \in Nat /\ link \in [Entries -> Inode \cup {0}]
  BY DEF Open, OpenPart, PullTypes
<1>3. /\ IsFiniteSet(InUse) /\ IsFiniteSet(Opens) /\ Cardinality(InUse) + Cardinality(Opens) <= pulls
  BY DEF RoomForInodes
<1>4. InUse' \in SUBSET (InUse \cup {PartInode(p)})
  <2> SUFFICES ASSUME NEW i \in Inode, i # PartInode(p), Used(i)' PROVE Used(i)
    BY DEF InUse
  <2>1. CASE \E n \in Entries : link'[n] = i
    BY <1>1, <1>2, <2>1 DEF Used, Entries
  <2>2. ASSUME NEW q \in Pullers, pull'[q].ino = i PROVE Used(i)
    <3>1. q # p
      BY <1>1, <2>2
    <3>2. pull[q].ino = i
      BY <1>1, <2>2, <3>1
    <3> QED BY <3>2 DEF Used
  <2>3. ASSUME NEW q \in Pullers, <<q, i>> \in late' PROVE Used(i)
    BY <1>1, <2>3 DEF Used
  <2> QED BY <2>1, <2>2, <2>3 DEF Used, Entries
<1>5. Opens' \in SUBSET (Opens \ {p}) /\ p \in Opens
  BY <1>1 DEF Opens
<1>6. /\ IsFiniteSet(InUse \cup {PartInode(p)})
      /\ Cardinality(InUse \cup {PartInode(p)}) <= Cardinality(InUse) + 1
      /\ IsFiniteSet(Opens \ {p}) /\ Cardinality(Opens \ {p}) = Cardinality(Opens) - 1
      /\ Cardinality(InUse) \in Nat /\ Cardinality(Opens) \in Nat
  <2>1. Cardinality(InUse) \in Nat /\ Cardinality(Opens) \in Nat
    BY <1>3, FS_CardinalityType
  <2>2. /\ IsFiniteSet(InUse \cup {PartInode(p)})
        /\ Cardinality(InUse \cup {PartInode(p)}) <= Cardinality(InUse) + 1
    BY <1>3, OneMore
  <2>3. IsFiniteSet(Opens \ {p}) /\ Cardinality(Opens \ {p}) = Cardinality(Opens) - 1
    BY <1>3, <1>5, FS_RemoveElement
  <2> QED BY <2>1, <2>2, <2>3
<1>7. /\ IsFiniteSet(InUse') /\ Cardinality(InUse') <= Cardinality(InUse \cup {PartInode(p)})
      /\ IsFiniteSet(Opens') /\ Cardinality(Opens') <= Cardinality(Opens \ {p})
  BY <1>4, <1>5, <1>6, FS_Subset
<1>8. /\ Cardinality(InUse') \in Nat /\ Cardinality(Opens') \in Nat
      /\ Cardinality(InUse \cup {PartInode(p)}) \in Nat
  BY <1>6, <1>7, FS_CardinalityType
<1>9. Cardinality(InUse') + Cardinality(Opens') <= pulls'
  BY <1>2, <1>3, <1>6, <1>7, <1>8
<1> QED BY <1>7, <1>9 DEF RoomForInodes

(* No other step takes an inode, and each that begins is counted.          *)
LEMMA StepRoom ==
    ASSUME PullTypes, RoomForInodes, NEW p \in Pullers, Steps(p)
    PROVE  RoomForInodes'
<1>1. /\ pull \in [Pullers -> PullRecord] /\ \A q \in Pullers : q # p => pull'[q] = pull[q]
      /\ pulls \in Nat /\ PullTypes' /\ link \in [Entries -> Inode \cup {0}]
  BY StepTypes DEF PullTypes
<1>2. ASSUME pull'[p].ino \in {0, pull[p].ino}, pulls' = pulls,
             late' \subseteq late \cup {<<p, pull[p].ino>>},
             pull'[p].at # "open" \/ pull[p].at = "open",
             \A n \in Entries : link'[n] = 0 \/ \E m \in Entries : link[m] = link'[n]
      PROVE  RoomForInodes'
  <2>1. InUse' \subseteq InUse
    BY <1>1, <1>2, UsedKept
  <2>2. Opens' \subseteq Opens
    BY <1>1, <1>2 DEF Opens
  <2> QED BY <1>1, <1>2, <2>1, <2>2, RoomKept
<1>kept. link' = link => \A n \in Entries : link'[n] = 0 \/ \E m \in Entries : link[m] = link'[n]
  OBVIOUS
<1>3. ASSUME NEW k \in {"fetch", "manage", "purge"}, NEW at \in Places, BeginOn(p, k, at)
      PROVE  RoomForInodes'
  <2>1. pull'[p].ino = 0 /\ pulls' = pulls + 1 /\ link' = link
    BY <1>3, Begun DEF BeginOn
  <2>l. late' = late
    BY <1>3 DEF BeginOn
  <2>2. InUse' \subseteq InUse
    BY <1>1, <1>kept, <2>1, <2>l, UsedKept
  <2>3. Opens' \subseteq Opens \cup {p}
    BY <1>1 DEF Opens
  <2> QED BY <1>1, <2>1, <2>2, <2>3, RoomKept
<1>4. CASE BeginFetch(p) \/ BeginManage(p) \/ BeginPurge(p)
  BY <1>3, <1>4 DEF BeginFetch, BeginManage, BeginPurge, Places
<1>5. CASE Open(p)
  BY <1>5, OpenRoom
<1>f. ASSUME NEW res \in {"none", "ok", "failed", "aborted"}, Finish(p, res), UNCHANGED pullHistory, late' = late,
             \A n \in Entries : link'[n] = 0 \/ \E m \in Entries : link[m] = link'[n]
      PROVE  RoomForInodes'
  BY <1>2, <1>f, Finished DEF pullHistory
<1>g. ASSUME NEW at \in {"manifest", "dna"}, GoTo(p, at), UNCHANGED pullHistory, late' = late,
             \A n \in Entries : link'[n] = 0 \/ \E m \in Entries : link[m] = link'[n]
      PROVE  RoomForInodes'
  <2>1. at \in Places /\ at # "open"
    BY DEF Places
  <2> QED BY <1>2, <1>g, <2>1, Gone DEF pullHistory
<1>6. CASE Look(p)
  <2>1. pull' = [pull EXCEPT ![p].list = Recommended.cached] /\ pulls' = pulls /\ link' = link
        /\ late' = late
    BY <1>6 DEF Look, files, pullHistory
  <2>2. pull'[p].ino = pull[p].ino /\ pull'[p].at = pull[p].at
    BY <1>1, <2>1 DEF PullRecord
  <2> QED BY <1>2, <1>kept, <2>1, <2>2
<1>7. CASE Healthy(p) \/ Fail(p) \/ SaveDna(p) \/ PurgeEnd(p)
  <2>1. /\ link' = link /\ late' = late /\ UNCHANGED pullHistory
        /\ Finish(p, "ok") \/ Finish(p, "failed")
    BY <1>7 DEF Healthy, Fail, SaveDna, PurgeEnd, files
  <2> QED BY <1>f, <1>kept, <2>1
<1>8. CASE AlreadyThere(p) \/ SaveUnit(p)
  <2>1. /\ link' = link /\ late' = late /\ UNCHANGED pullHistory
        /\ Finish(p, "failed") \/ GoTo(p, "manifest") \/ GoTo(p, "dna")
    BY <1>8 DEF AlreadyThere, SaveUnit, files
  <2> QED BY <1>f, <1>g, <1>kept, <2>1
<1>9. CASE Abort(p)
  <2>1. /\ link' = [link EXCEPT ![PartOf("fetch")] = 0] /\ UNCHANGED pullHistory
        /\ late' = late /\ Finish(p, "aborted")
    BY <1>9 DEF Abort
  <2>2. \A n \in Entries : link'[n] = 0 \/ \E m \in Entries : link[m] = link'[n]
    BY <1>1, <2>1
  <2> QED BY <1>f, <2>1, <2>2
<1>10. CASE Chunk(p)
  <2>1. /\ link' = link /\ pulls' = pulls /\ late' \subseteq late \cup {<<p, pull[p].ino>>}
        /\ pull' = [pull EXCEPT ![p].pos = pull[p].pos + 1,
                                ![p].at = IF pull[p].pos + 1 = Pieces THEN "rename" ELSE "chunk"]
    BY <1>10 DEF Chunk, pullHistory
  <2>2. pull'[p].ino = pull[p].ino /\ pull'[p].at # "open"
    BY <1>1, <2>1 DEF PullRecord
  <2> QED BY <1>2, <1>kept, <2>1, <2>2
<1>l. CASE LateWrite(p) \/ LateLost(p)
  <2>1. /\ link' = link /\ pulls' = pulls /\ late' \subseteq late /\ pull' = pull
    BY <1>l DEF LateWrite, LateLost, pullHistory
  <2> QED BY <1>2, <1>kept, <2>1
<1>11. CASE Rename(p)
  <2> DEFINE part == PartOf(pull[p].kind)
             w == <<part[1], "weights">>
  <2>1. UNCHANGED pullHistory /\ late' = late /\ part \in Entries /\ w \in Entries
    BY <1>11, PartNames DEF Rename
  <2>2. /\ Finish(p, "failed") \/ GoTo(p, "manifest")
        /\ link' = link \/ link' = [link EXCEPT ![w] = link[part], ![part] = 0]
    BY <1>11 DEF Rename
  <2> HIDE DEF part, w
  <2>3. \A n \in Entries : link'[n] = 0 \/ \E m \in Entries : link[m] = link'[n]
    BY <1>1, <2>1, <2>2
  <2> QED BY <1>f, <1>g, <2>1, <2>2, <2>3
<1>12. CASE PurgeEntry(p)
  <2>1. PICK n \in pull[p].todo :
          /\ pull' = [pull EXCEPT ![p].todo = @ \ {n}]
          /\ link' = IF n \in Names THEN [link EXCEPT ![<<"visible", n>>] = 0] ELSE link
    BY <1>12 DEF PurgeEntry
  <2>2. pull'[p].ino = pull[p].ino /\ pull'[p].at = pull[p].at
    BY <1>1, <2>1 DEF PullRecord
  <2>3. \A m \in Entries : link'[m] = 0 \/ \E o \in Entries : link[o] = link'[m]
    BY <1>1, <2>1
  <2>4. pulls' = pulls /\ late' = late
    BY <1>12 DEF PurgeEntry, pullHistory
  <2> QED BY <1>2, <2>2, <2>3, <2>4
<1>13. CASE PullCrash(p)
  <2>1. pull' = [pull EXCEPT ![p] = [NoPull EXCEPT !.list = Cached]] /\ link' = link /\ pulls' = pulls
        /\ late' \subseteq late
    BY <1>13 DEF PullCrash
  <2>2. pull'[p].ino = 0 /\ pull'[p].at = "idle"
    BY <1>1, <2>1 DEF NoPull
  <2> QED BY <1>2, <1>kept, <2>1, <2>2
<1> QED
  BY <1>l, <1>4, <1>5, <1>6, <1>7, <1>8, <1>9, <1>10, <1>11, <1>12, <1>13 DEF Steps

-----------------------------------------------------------------------------
(* Complete weights *)

(* The two kinds of download have different partial files. *)
LEMMA PartsDiffer ==
    \A j, k \in {"fetch", "manage"} : PartOf(j) = PartOf(k) => j = k
  BY DEF PartOf, DirOf

(* What holds of a process that writes while no two of its kind do. *)
SoleWriter(p) ==
    /\ \A n \in Entries : link[n] = pull[p].ino => n = PartOf(pull[p].kind)
    /\ link[PartOf(pull[p].kind)] \in {0, pull[p].ino}
    /\ 1..pull[p].pos \subseteq Has[pull[p].ino]
    /\ pull[p].at = "rename" => pull[p].pos = Pieces

(* Files may lose names and processes may stop writing. *)
LEMMA ApartKept ==
    ASSUME PullTypes, Apart, mixed' = mixed, \A i \in Inode : Has[i] \subseteq Has'[i],
           shared' = shared, \A n \in Entries : link'[n] \in {0, link[n]},
           \A q \in Pullers : Writing(q)' =>
               /\ Writing(q) /\ pull'[q].kind = pull[q].kind /\ pull'[q].ino = pull[q].ino
               /\ pull'[q].pos = pull[q].pos /\ pull'[q].at = pull[q].at
    PROVE  Apart'
<1>n. (\A d \in Dirs : <<d, "weights">> \in Entries) /\ \A k : PartOf(k) \in Entries
  BY PartNames
<1>1. \A m, n \in Entries : link'[m] = link'[n] /\ link'[m] # 0 => m = n
  BY DEF Apart
<1> SUFFICES ASSUME ~mixed
             PROVE  /\ \A d \in Dirs : WeightsIn(d)' => All \subseteq Has'[link'[<<d, "weights">>]]
                    /\ \A p, q \in Pullers :
                         Writing(p)' /\ Writing(q)' /\ pull'[p].kind = pull'[q].kind => p = q
                    /\ \A p \in Pullers : Writing(p)' => SoleWriter(p)'
  BY <1>1 DEF Apart, SoleWriter
<1>2. /\ \A d \in Dirs : WeightsIn(d) => All \subseteq Has[link[<<d, "weights">>]]
      /\ \A p, q \in Pullers : Writing(p) /\ Writing(q) /\ pull[p].kind = pull[q].kind => p = q
      /\ \A p \in Pullers : Writing(p) => SoleWriter(p)
  BY DEF Apart, SoleWriter
<1>p. \A k : PartOf(k)' = PartOf(k)
  BY SameDirs
<1>3. ASSUME NEW d \in Dirs, WeightsIn(d)' PROVE All \subseteq Has'[link'[<<d, "weights">>]]
  <2>1. link'[<<d, "weights">>] = link[<<d, "weights">>] /\ link[<<d, "weights">>] \in Inode
    BY <1>3, <1>n DEF WeightsIn, PullTypes
  <2>2. All \subseteq Has[link[<<d, "weights">>]]
    BY <1>2, <1>3, <2>1 DEF WeightsIn
  <2>3. Has[link[<<d, "weights">>]] \subseteq Has'[link'[<<d, "weights">>]]
    BY <2>1
  <2> QED BY <2>1, <2>2, <2>3
<1>4. ASSUME NEW p \in Pullers, Writing(p)' PROVE SoleWriter(p)'
  <2>1. /\ SoleWriter(p) /\ pull'[p].kind = pull[p].kind /\ pull'[p].ino = pull[p].ino
        /\ pull'[p].pos = pull[p].pos /\ pull'[p].at = pull[p].at /\ pull[p].ino # 0
        /\ pull[p].ino \in Inode
    BY <1>2, <1>4 DEF PullTypes, PullRecord
  <2>2. \A n \in Entries : link'[n] = pull[p].ino => n = PartOf(pull[p].kind)
    BY <2>1 DEF SoleWriter
  <2>3. link'[PartOf(pull[p].kind)] \in {0, pull[p].ino}
    BY <1>n, <2>1 DEF SoleWriter
  <2>4. Has[pull[p].ino] \subseteq Has'[pull'[p].ino]
    BY <2>1
  <2> QED BY <1>p, <2>1, <2>2, <2>3, <2>4 DEF SoleWriter
<1> QED BY <1>2, <1>3, <1>4

(* A partial file is opened: its inode is nobody else's. *)
LEMMA OpenApart ==
    ASSUME PullTypes, RoomForInodes, Apart, NEW p \in Pullers, Open(p)
    PROVE  Apart'
<1> DEFINE i == PartInode(p)
           part == PartOf(pull[p].kind)
<1>n. /\ \A d \in Dirs : <<d, "weights">> \in Entries /\ part # <<d, "weights">>
      /\ part \in Entries /\ \A k : PartOf(k) \in Entries
  BY PartNames
<1>t. link \in [Entries -> Inode \cup {0}] /\ body \in [Inode -> SUBSET All]
  BY DEF PullTypes
<1>1. /\ \A q \in Pullers : q # p => pull'[q] = pull[q]
      /\ pull'[p].at = "chunk" /\ pull'[p].kind = pull[p].kind
      /\ pull'[p].pos = pull[p].pos
      /\ i \in Inode /\ pull'[p].ino = i
      /\ link' = [link EXCEPT ![part] = i] /\ body' = [body EXCEPT ![i] = {}]
      /\ pull[p].at = "open" /\ pull[p].kind \in {"fetch", "manage"}
      /\ i # link[part] => ~Used(i)
      /\ shared' = shared /\ late' = late /\ short' = short \ {i}
  BY Opened
<1>h. \A j \in Inode : j # i => Has'[j] = Has[j]
  <2> HIDE DEF i
  <2> QED BY <1>1, <1>t DEF Has, Owed
<1>q. \A k : PartOf(k)' = PartOf(k)
  BY <1>1, SameDirs
<1>2. pull[p].pos = 0 /\ i # 0
  BY <1>1, Sizes DEF PullTypes
<1>m. mixed' = (mixed \/ \E q \in Pullers : Writing(q) /\ pull[q].kind = pull[p].kind)
  BY DEF Open, OpenPart
<1> HIDE DEF i, part
<1>3. \A n \in Entries : n # part => link[n] # i
  <2>1. CASE i = link[part]
    BY <1>2, <1>n, <2>1 DEF Apart
  <2>2. CASE i # link[part]
    BY <1>1, <2>2 DEF Used, Entries
  <2> QED BY <2>1, <2>2
<1>4. link'[part] = i /\ \A n \in Entries : n # part => link'[n] = link[n]
  BY <1>1, <1>n, <1>t
<1>5. \A m, n \in Entries : link'[m] = link'[n] /\ link'[m] # 0 => m = n
  BY <1>3, <1>4 DEF Apart
<1> SUFFICES ASSUME ~mixed'
             PROVE  /\ \A d \in Dirs : WeightsIn(d)' => All \subseteq Has'[link'[<<d, "weights">>]]
                    /\ \A q, r \in Pullers :
                         Writing(q)' /\ Writing(r)' /\ pull'[q].kind = pull'[r].kind => q = r
                    /\ \A q \in Pullers : Writing(q)' => SoleWriter(q)'
  BY <1>5 DEF Apart, SoleWriter
<1>6. ~mixed /\ \A q \in Pullers : Writing(q) => pull[q].kind # pull[p].kind
  BY <1>m
<1>7. /\ \A d \in Dirs : WeightsIn(d) => All \subseteq Has[link[<<d, "weights">>]]
      /\ \A q, r \in Pullers : Writing(q) /\ Writing(r) /\ pull[q].kind = pull[r].kind => q = r
      /\ \A q \in Pullers : Writing(q) => SoleWriter(q)
  BY <1>6 DEF Apart, SoleWriter
<1>8. \A q \in Pullers : q # p => (Writing(q)' <=> Writing(q))
  BY <1>1 DEF Writing
<1>9. ASSUME NEW d \in Dirs, WeightsIn(d)' PROVE All \subseteq Has'[link'[<<d, "weights">>]]
  <2> DEFINE w == <<d, "weights">>
  <2>1. link'[w] = link[w] /\ link[w] # i
    BY <1>3, <1>4, <1>n
  <2>2. link[w] \in Inode /\ WeightsIn(d)
    BY <1>9, <1>n, <1>t, <2>1 DEF WeightsIn
  <2>3. Has'[link'[w]] = Has[link[w]]
    BY <1>h, <2>1, <2>2
  <2>4. All \subseteq Has[link[w]]
    BY <1>7, <2>2
  <2> QED BY <2>3, <2>4
<1>10. \A q, r \in Pullers :
          Writing(q)' /\ Writing(r)' /\ pull'[q].kind = pull'[r].kind => q = r
  BY <1>1, <1>6, <1>7, <1>8
<1>11. ASSUME NEW q \in Pullers, Writing(q)' PROVE SoleWriter(q)'
  <2>1. CASE q = p
    <3>1. /\ pull'[q].ino = i /\ pull'[q].kind = pull[p].kind /\ pull'[q].pos = 0
          /\ pull'[q].at = "chunk" /\ PartOf(pull[p].kind) = part
      BY <1>1, <1>2, <2>1 DEF part
    <3>2. \A n \in Entries : link'[n] = i => n = part
      BY <1>3, <1>4
    <3>3. 1..0 = {}
      OBVIOUS
    <3> QED BY <1>4, <1>q, <3>1, <3>2, <3>3 DEF SoleWriter
  <2>2. CASE q # p
    <3>1. pull'[q] = pull[q] /\ Writing(q) /\ SoleWriter(q) /\ pull[q].kind # pull[p].kind
      BY <1>1, <1>6, <1>7, <1>8, <1>11, <2>2
    <3>2. pull[q].kind \in {"fetch", "manage"} /\ pull[q].ino # 0 /\ pull[q].ino \in Inode \cup {0}
      BY <3>1 DEF PullTypes, Writing, Downloading, PullRecord
    <3>3. PartOf(pull[q].kind) # part
      BY <1>1, <3>1, <3>2, PartsDiffer DEF part
    <3>4. pull[q].ino # i
      <4>1. CASE i = link[part]
        BY <1>n, <3>1, <3>3, <4>1 DEF SoleWriter
      <4>2. CASE i # link[part]
        BY <1>1, <3>2, <4>2 DEF Used
      <4> QED BY <4>1, <4>2
    <3>5. \A n \in Entries : link'[n] = pull[q].ino => n = PartOf(pull[q].kind)
      BY <1>4, <3>1, <3>4 DEF SoleWriter
    <3>6. link'[PartOf(pull[q].kind)] \in {0, pull[q].ino}
      BY <1>4, <1>n, <3>1, <3>3 DEF SoleWriter
    <3>7. Has'[pull'[q].ino] = Has[pull[q].ino]
      BY <1>h, <3>1, <3>2, <3>4
    <3> QED BY <1>q, <3>1, <3>5, <3>6, <3>7 DEF SoleWriter
  <2> QED BY <2>1, <2>2
<1> QED BY <1>9, <1>10, <1>11

(* A piece is written, or owed. *)
LEMMA ChunkApart ==
    ASSUME PullTypes, Apart, NEW p \in Pullers, Chunk(p)
    PROVE  Apart'
<1> DEFINE n == pull[p].pos + 1
           i == pull[p].ino
<1>t. /\ pull \in [Pullers -> PullRecord] /\ body \in [Inode -> SUBSET All]
      /\ link \in [Entries -> Inode \cup {0}]
  BY DEF PullTypes
<1>1. /\ pull[p].at = "chunk" /\ n <= Pieces
      /\ pull' = [pull EXCEPT ![p].pos = n, ![p].at = IF n = Pieces THEN "rename" ELSE "chunk"]
      /\ link' = link /\ mixed' = mixed /\ short' = short /\ shared' = shared
      /\ \/ body' = [body EXCEPT ![i] = @ \cup {n}] /\ late' = late
         \/ body' = body /\ late' = late \cup {<<p, i>>} /\ n = Pieces
  BY DEF Chunk, pullHistory
<1>2. /\ pull'[p].pos = n /\ pull'[p].at = (IF n = Pieces THEN "rename" ELSE "chunk")
      /\ pull'[p].ino = i /\ pull'[p].kind = pull[p].kind
      /\ \A q \in Pullers : q # p => pull'[q] = pull[q]
  BY <1>1, <1>t DEF PullRecord
<1>3. n \in All /\ 1..n = 1..pull[p].pos \cup {n} /\ i \in Inode
  <2>1. pull[p].pos \in 0..Pieces /\ i \in Inode \cup {0} /\ i # 0
    BY <1>1, <1>t DEF PullTypes, PullRecord, Writing
  <2> QED BY <1>1, <2>1, Sizes DEF All
<1>w. Writing(p) /\ \A q \in Pullers : Writing(q)' => Writing(q)
  BY <1>1, <1>2 DEF Writing
<1>q. \A k : PartOf(k)' = PartOf(k)
  BY <1>1, SameDirs
<1>5. (\A j \in Inode : Has[j] \subseteq Has'[j]) /\ n \in Has'[i]
  <2> HIDE DEF n, i
  <2>1. \A j \in Inode : body[j] \subseteq body'[j]
    BY <1>1, <1>3, <1>t
  <2>2. late \subseteq late' /\ short' = short
    BY <1>1
  <2>3. \A j \in Inode : Owed(j) \subseteq Owed(j)'
    BY <2>2 DEF Owed
  <2>4. CASE n \in body'[i]
    <3>1. n \in Has'[i]
      BY <1>3, <2>4 DEF Has
    <3> QED BY <2>1, <2>3, <3>1 DEF Has
  <2>5. CASE <<p, i>> \in late' /\ n = Pieces
    <3>1. \A j \in Inode : <<p, j>> \in late' => Owed(j)' = {Pieces}
      BY DEF Owed
    <3>2. n \in Has'[i]
      BY <1>3, <2>5, <3>1 DEF Has
    <3> QED BY <2>1, <2>3, <3>2 DEF Has
  <2> QED BY <1>1, <1>3, <1>t, <2>4, <2>5
<1> HIDE DEF n, i
<1> SUFFICES ASSUME ~mixed
             PROVE  /\ \A d \in Dirs : WeightsIn(d)' => All \subseteq Has'[link'[<<d, "weights">>]]
                    /\ \A q, r \in Pullers :
                         Writing(q)' /\ Writing(r)' /\ pull'[q].kind = pull'[r].kind => q = r
                    /\ \A q \in Pullers : Writing(q)' => SoleWriter(q)'
  BY <1>1 DEF Apart, SoleWriter
<1>4. /\ \A d \in Dirs : WeightsIn(d) => All \subseteq Has[link[<<d, "weights">>]]
      /\ \A q, r \in Pullers : Writing(q) /\ Writing(r) /\ pull[q].kind = pull[r].kind => q = r
      /\ \A q \in Pullers : Writing(q) => SoleWriter(q)
  BY DEF Apart, SoleWriter
<1>6. ASSUME NEW d \in Dirs, WeightsIn(d)' PROVE All \subseteq Has'[link'[<<d, "weights">>]]
  <2>1. link[<<d, "weights">>] \in Inode /\ All \subseteq Has[link[<<d, "weights">>]]
    BY <1>1, <1>4, <1>6, <1>t, PartNames DEF WeightsIn
  <2>2. Has[link[<<d, "weights">>]] \subseteq Has'[link'[<<d, "weights">>]]
    BY <1>1, <1>5, <2>1
  <2> QED BY <1>1, <2>1, <2>2
<1>7. \A q, r \in Pullers :
          Writing(q)' /\ Writing(r)' /\ pull'[q].kind = pull'[r].kind => q = r
  BY <1>2, <1>4, <1>w
<1>8. ASSUME NEW q \in Pullers, Writing(q)' PROVE SoleWriter(q)'
  <2>1. CASE q = p
    <3>1. SoleWriter(p)
      BY <1>4, <1>w
    <3>2. 1..n \subseteq Has'[i]
      BY <1>3, <1>5, <3>1 DEF SoleWriter, i
    <3>3. pull'[p].at = "rename" => pull'[p].pos = Pieces
      BY <1>2
    <3>4. pull[p].ino = i
      BY DEF i
    <3> QED BY <1>1, <1>2, <1>q, <2>1, <3>1, <3>2, <3>3, <3>4 DEF SoleWriter
  <2>2. CASE q # p
    <3>1. pull'[q] = pull[q] /\ SoleWriter(q) /\ Writing(q)
      BY <1>2, <1>4, <1>8, <1>w, <2>2
    <3>2. pull[q].ino \in Inode
      BY <1>t, <3>1 DEF PullTypes, PullRecord
    <3>3. Has[pull[q].ino] \subseteq Has'[pull'[q].ino]
      BY <1>5, <3>1, <3>2
    <3> QED BY <1>1, <1>q, <3>1, <3>3 DEF SoleWriter
  <2> QED BY <2>1, <2>2
<1> QED BY <1>6, <1>7, <1>8

(* A partial file that has all the pieces becomes the weights. *)
LEMMA RenameApart ==
    ASSUME PullTypes, Apart, NEW p \in Pullers, Rename(p), link[PartOf(pull[p].kind)] # 0
    PROVE  Apart'
<1> DEFINE part == PartOf(pull[p].kind)
<1> DEFINE w == <<part[1], "weights">>
<1>n. /\ part \in Entries /\ w \in Entries /\ part # w
      /\ \A k : PartOf(k) \in Entries /\ PartOf(k) # w
  BY PartNames
<1>t. link \in [Entries -> Inode \cup {0}]
  BY DEF PullTypes
<1>1. /\ pull[p].at = "rename" /\ GoTo(p, "manifest") /\ body' = body /\ mixed' = mixed
      /\ late' = late /\ short' = short /\ shared' = shared
      /\ link' = [link EXCEPT ![w] = link[part], ![part] = 0]
  BY DEF Rename, pullHistory
<1>2. /\ pull'[p].at = "manifest" /\ \A q \in Pullers : q # p => pull'[q] = pull[q]
  <2>1. "manifest" \in Places
    BY DEF Places
  <2> QED BY <1>1, <2>1, Gone
<1>p. part = PartOf(pull[p].kind) /\ link[part] # 0 /\ w = <<part[1], "weights">>
  OBVIOUS
<1>q. (\A k : PartOf(k)' = PartOf(k)) /\ \A j \in Inode : Has'[j] = Has[j]
  BY <1>1 DEF PartOf, DirOf, Home, Has, Owed
<1> HIDE DEF part, w
<1>3. /\ link'[w] = link[part] /\ link'[part] = 0
      /\ \A n \in Entries : n \notin {w, part} => link'[n] = link[n]
  BY <1>1, <1>n, <1>t
<1>4. \A m, n \in Entries : link[m] = link[n] /\ link[m] # 0 => m = n
  BY DEF Apart
<1>5. \A m, n \in Entries : link'[m] = link'[n] /\ link'[m] # 0 => m = n
  BY <1>3, <1>4, <1>n
<1> SUFFICES ASSUME ~mixed
             PROVE  /\ \A d \in Dirs : WeightsIn(d)' => All \subseteq Has'[link'[<<d, "weights">>]]
                    /\ \A q, r \in Pullers :
                         Writing(q)' /\ Writing(r)' /\ pull'[q].kind = pull'[r].kind => q = r
                    /\ \A q \in Pullers : Writing(q)' => SoleWriter(q)'
  BY <1>1, <1>5 DEF Apart, SoleWriter
<1>6. /\ \A d \in Dirs : WeightsIn(d) => All \subseteq Has[link[<<d, "weights">>]]
      /\ \A q, r \in Pullers : Writing(q) /\ Writing(r) /\ pull[q].kind = pull[r].kind => q = r
      /\ \A q \in Pullers : Writing(q) => SoleWriter(q)
  BY DEF Apart, SoleWriter
<1>w. Writing(p) /\ ~Writing(p)' /\ \A q \in Pullers : Writing(q)' => Writing(q) /\ q # p
  BY <1>1, <1>2 DEF Writing
<1>s. All \subseteq Has'[link'[w]]
  <2>1. SoleWriter(p) /\ pull[p].ino \in Inode
    BY <1>6, <1>w DEF PullTypes, PullRecord
  <2>2. link[part] = pull[p].ino /\ 1..Pieces \subseteq Has[pull[p].ino]
    BY <1>1, <1>p, <2>1 DEF SoleWriter
  <2>3. Has'[link'[w]] = Has[pull[p].ino]
    BY <1>3, <1>q, <2>1, <2>2
  <2> QED BY <2>2, <2>3 DEF All
<1>7. ASSUME NEW d \in Dirs, WeightsIn(d)' PROVE All \subseteq Has'[link'[<<d, "weights">>]]
  <2> DEFINE v == <<d, "weights">>
  <2>1. CASE v = w
    BY <1>3, <1>s, <2>1
  <2>2. CASE v # w
    <3>1. v \in Entries /\ v # part
      BY <1>p, PartNames
    <3>2. link'[v] = link[v] /\ link[v] \in Inode
      BY <1>3, <1>7, <1>t, <2>2, <3>1 DEF WeightsIn
    <3>3. All \subseteq Has[link[v]]
      BY <1>6, <1>7, <3>2 DEF WeightsIn
    <3>4. Has'[link'[v]] = Has[link[v]]
      BY <1>q, <3>2
    <3> QED BY <3>3, <3>4
  <2> QED BY <2>1, <2>2
<1>8. \A q, r \in Pullers :
          Writing(q)' /\ Writing(r)' /\ pull'[q].kind = pull'[r].kind => q = r
  BY <1>2, <1>6, <1>w
<1>9. ASSUME NEW q \in Pullers, Writing(q)' PROVE SoleWriter(q)'
  <2>1. pull'[q] = pull[q] /\ Writing(q) /\ SoleWriter(q) /\ q # p
    BY <1>2, <1>6, <1>9, <1>w
  <2>2. pull[q].kind # pull[p].kind /\ pull[q].ino # 0
    BY <1>6, <1>w, <2>1 DEF PullTypes
  <2>3. PartOf(pull[q].kind) # part
    <3>1. pull[q].kind \in {"fetch", "manage"} /\ pull[p].kind \in {"fetch", "manage"}
      BY <1>w, <2>1 DEF PullTypes, Writing, Downloading
    <3> QED BY <1>p, <2>2, <3>1, PartsDiffer
  <2>4. link[part] # pull[q].ino
    BY <1>n, <2>1, <2>3 DEF SoleWriter
  <2>5. PartOf(pull[q].kind) # w /\ PartOf(pull[q].kind) \in Entries
    BY <1>n
  <2>6. \A n \in Entries : link'[n] = pull[q].ino => n = PartOf(pull[q].kind)
    BY <1>3, <2>1, <2>2, <2>4 DEF SoleWriter
  <2>7. link'[PartOf(pull[q].kind)] \in {0, pull[q].ino}
    BY <1>3, <2>1, <2>3, <2>5 DEF SoleWriter
  <2>8. Has'[pull'[q].ino] = Has[pull[q].ino]
    BY <1>q, <2>1, <2>2 DEF PullTypes, PullRecord
  <2> QED BY <1>q, <2>1, <2>6, <2>7, <2>8 DEF SoleWriter
<1> QED BY <1>7, <1>8, <1>9

(* Every step keeps the weights complete and the writers apart. *)
LEMMA StepApart ==
    ASSUME PullTypes, RoomForInodes, Apart, NEW p \in Pullers, Steps(p)
    PROVE  Apart'
<1>1. /\ pull \in [Pullers -> PullRecord] /\ \A q \in Pullers : q # p => pull'[q] = pull[q]
      /\ link \in [Entries -> Inode \cup {0}]
  BY StepTypes DEF PullTypes
<1>2. ASSUME mixed' = mixed, shared' = shared, body' = body, late' = late, short' = short,
             \A n \in Entries : link'[n] \in {0, link[n]},
             pull'[p].at \notin {"chunk", "rename"}
      PROVE  Apart'
  <2>1. \A q \in Pullers : Writing(q)' =>
          /\ Writing(q) /\ pull'[q].kind = pull[q].kind /\ pull'[q].ino = pull[q].ino
          /\ pull'[q].pos = pull[q].pos /\ pull'[q].at = pull[q].at
    BY <1>1, <1>2 DEF Writing
  <2>2. \A i \in Inode : Has[i] \subseteq Has'[i]
    BY <1>2 DEF Has, Owed
  <2> QED BY <1>2, <2>1, <2>2, ApartKept
<1>kept. link' = link => \A n \in Entries : link'[n] \in {0, link[n]}
  OBVIOUS
<1>f. ASSUME NEW res \in {"none", "ok", "failed", "aborted"}, Finish(p, res)
      PROVE  pull'[p].at \notin {"chunk", "rename"}
  BY <1>f, Finished
<1>g. ASSUME NEW at \in {"manifest", "dna"}, GoTo(p, at)
      PROVE  pull'[p].at \notin {"chunk", "rename"}
  <2>1. at \in Places
    BY DEF Places
  <2> QED BY <1>g, <2>1, Gone
<1>3. CASE Look(p)
  <2>1. /\ pull' = [pull EXCEPT ![p].list = Recommended.cached] /\ link' = link /\ body' = body
        /\ mixed' = mixed /\ pull[p].at = "idle" /\ UNCHANGED <<shared, late, short>>
    BY <1>3 DEF Look, files, pullHistory
  <2>2. pull'[p].at = "idle"
    BY <1>1, <2>1 DEF PullRecord
  <2> QED BY <1>2, <1>kept, <2>1, <2>2
<1>4. CASE BeginFetch(p) \/ BeginManage(p) \/ BeginPurge(p)
  <2>1. ASSUME NEW k \in {"fetch", "manage", "purge"}, NEW at \in {"open", "healthy", "purge"},
               BeginOn(p, k, at)
        PROVE  Apart'
    <3>1. at \in Places /\ link' = link /\ body' = body /\ mixed' = mixed
          /\ UNCHANGED <<shared, late, short>>
      BY <2>1 DEF Places, BeginOn
    <3>2. pull'[p].at = at
      BY <2>1, <3>1, Begun
    <3> QED BY <1>2, <1>kept, <3>1, <3>2
  <2> QED BY <1>4, <2>1 DEF BeginFetch, BeginManage, BeginPurge
<1>5. CASE Healthy(p) \/ Fail(p) \/ SaveDna(p) \/ PurgeEnd(p)
  <2>1. /\ link' = link /\ body' = body /\ mixed' = mixed /\ UNCHANGED <<shared, late, short>>
        /\ Finish(p, "ok") \/ Finish(p, "failed")
    BY <1>5 DEF Healthy, Fail, SaveDna, PurgeEnd, files, pullHistory
  <2> QED BY <1>2, <1>f, <1>kept, <2>1
<1>6. CASE AlreadyThere(p) \/ SaveUnit(p)
  <2>1. /\ link' = link /\ body' = body /\ mixed' = mixed /\ UNCHANGED <<shared, late, short>>
        /\ Finish(p, "failed") \/ GoTo(p, "manifest") \/ GoTo(p, "dna")
    BY <1>6 DEF AlreadyThere, SaveUnit, files, pullHistory
  <2> QED BY <1>2, <1>f, <1>g, <1>kept, <2>1
<1>7. CASE Abort(p)
  <2>1. /\ link' = [link EXCEPT ![PartOf("fetch")] = 0] /\ body' = body /\ mixed' = mixed
        /\ Finish(p, "aborted") /\ UNCHANGED <<shared, late, short>>
    BY <1>7 DEF Abort, pullHistory
  <2>2. \A n \in Entries : link'[n] \in {0, link[n]}
    BY <1>1, <2>1
  <2> QED BY <1>2, <1>f, <2>1, <2>2
<1>8. CASE Rename(p)
  <2>1. CASE link[PartOf(pull[p].kind)] = 0
    <3>1. /\ Finish(p, "failed") /\ link' = link /\ body' = body /\ mixed' = mixed
          /\ UNCHANGED <<shared, late, short>>
      BY <1>8, <2>1 DEF Rename, pullHistory
    <3> QED BY <1>2, <1>f, <1>kept, <3>1
  <2>2. CASE link[PartOf(pull[p].kind)] # 0
    BY <1>8, <2>2, RenameApart
  <2> QED BY <2>1, <2>2
<1>9. CASE PurgeEntry(p)
  <2>1. PICK n \in pull[p].todo :
          /\ pull' = [pull EXCEPT ![p].todo = @ \ {n}]
          /\ link' = IF n \in Names THEN [link EXCEPT ![<<"visible", n>>] = 0] ELSE link
    BY <1>9 DEF PurgeEntry
  <2>2. pull[p].at = "purge" /\ body' = body /\ mixed' = mixed /\ UNCHANGED <<shared, late, short>>
    BY <1>9 DEF PurgeEntry, pullHistory
  <2>3. pull'[p].at = "purge"
    BY <1>1, <2>1, <2>2 DEF PullRecord
  <2>4. \A m \in Entries : link'[m] \in {0, link[m]}
    BY <1>1, <2>1
  <2> QED BY <1>2, <2>2, <2>3, <2>4
<1>10. CASE PullCrash(p)
  <2>1. /\ pull' = [pull EXCEPT ![p] = [NoPull EXCEPT !.list = Cached]]
        /\ link' = link /\ body' = body /\ mixed' = mixed /\ shared' = shared
        /\ late' = {l \in late : l[1] # p} /\ short' = short \cup {i \in Inode : <<p, i>> \in late}
    BY <1>10 DEF PullCrash
  <2>2. pull'[p].at = "idle"
    BY <1>1, <2>1 DEF NoPull
  <2>3. \A q \in Pullers : Writing(q)' => Writing(q) /\ pull'[q] = pull[q]
    BY <1>1, <2>2 DEF Writing
  <2>4. ASSUME NEW i \in Inode PROVE Has[i] \subseteq Has'[i]
    <3>1. ASSUME NEW q \in Pullers, <<q, i>> \in late PROVE <<q, i>> \in late' \/ i \in short'
      BY <2>1, <3>1
    <3> QED BY <2>1, <3>1 DEF Has, Owed
  <2> QED BY <1>kept, <2>1, <2>3, <2>4, ApartKept
<1>l. CASE LateWrite(p) \/ LateLost(p)
  <2>1. link' = link /\ mixed' = mixed /\ shared' = shared /\ pull' = pull
    BY <1>l DEF LateWrite, LateLost, pullHistory
  <2>2. PICK i \in Inode :
          /\ late' = late \ {<<p, i>>}
          /\ \/ body' = [body EXCEPT ![i] = @ \cup {Pieces}] /\ short' = short
             \/ body' = body /\ short' = short \cup {i}
    BY <1>l DEF LateWrite, LateLost, pullHistory
  <2>3. ASSUME NEW j \in Inode PROVE Has[j] \subseteq Has'[j]
    <3>1. body[j] \subseteq body'[j] /\ short \subseteq short'
      BY <2>2 DEF PullTypes
    <3>2. CASE j = i
      <4>1. Pieces \in body'[j] \/ j \in short'
        BY <2>2, <3>2 DEF PullTypes
      <4> QED BY <3>1, <4>1 DEF Has, Owed
    <3>3. CASE j # i
      <4>1. \A q \in Pullers : <<q, j>> \in late => <<q, j>> \in late'
        BY <2>2, <3>3
      <4> QED BY <3>1, <4>1 DEF Has, Owed
    <3> QED BY <3>2, <3>3
  <2>4. \A q \in Pullers : Writing(q)' => Writing(q) /\ pull'[q] = pull[q]
    BY <2>1 DEF Writing
  <2> QED BY <1>kept, <2>1, <2>3, <2>4, ApartKept
<1>11. CASE Open(p)
  BY <1>11, OpenApart
<1>12. CASE Chunk(p)
  BY <1>12, ChunkApart
<1> QED
  BY <1>l, <1>3, <1>4, <1>5, <1>6, <1>7, <1>8, <1>9, <1>10, <1>11, <1>12 DEF Steps


-----------------------------------------------------------------------------
(* Units *)

(* While a process is at something other than a purge, none is at a purge. *)
LEMMA NoPurge ==
    ASSUME Units, ~purged, NEW p \in Pullers, pull[p].at \notin {"idle", "purge"}
    PROVE  ~Purging
  BY DEF Units, Purging

(* What a step of p may do to the units of a directory. *)
KeptIn(p, d) ==
    /\ WeightsIn(d) => WeightsIn(d)'
    /\ pull'[p].at \in {"healthy", "manifest", "dna"} /\ DirOf(pull'[p].kind) = d =>
         /\ WeightsIn(d)'
         /\ pull'[p].at = "healthy" => unit'[<<d, "dna">>] # "absent"
         /\ pull'[p].at = "dna" => UnitIn(d)' \/ died' > 0
    /\ UnitIn(d)' => UnitIn(d) \/ WeightsIn(d)'
    /\ unit[<<d, "dna">>] # "absent" => unit'[<<d, "dna">>] # "absent"
    /\ unit'[<<d, "dna">>] # "absent" => unit[<<d, "dna">>] # "absent" \/ UnitIn(d)' \/ died' > 0
    /\ UnitIn(d) \/ died > 0 => UnitIn(d)' \/ died' > 0

LEMMA UnitsOfKept ==
    ASSUME NEW p \in Pullers, NEW d \in Dirs, UnitsOf(d), KeptIn(p, d), shared' = shared,
           \A q \in Pullers : q # p => pull'[q] = pull[q]
    PROVE  UnitsOf(d)'
<1>k. /\ WeightsIn(d) => WeightsIn(d)'
      /\ UnitIn(d)' => UnitIn(d) \/ WeightsIn(d)'
      /\ unit[<<d, "dna">>] # "absent" => unit'[<<d, "dna">>] # "absent"
      /\ unit'[<<d, "dna">>] # "absent" => unit[<<d, "dna">>] # "absent" \/ UnitIn(d)' \/ died' > 0
      /\ UnitIn(d) \/ died > 0 => UnitIn(d)' \/ died' > 0
  BY DEF KeptIn
<1>1. ASSUME NEW q \in Pullers, pull'[q].at \in {"healthy", "manifest", "dna"},
             DirOf(pull'[q].kind) = d
      PROVE  /\ WeightsIn(d)'
             /\ pull'[q].at = "healthy" => unit'[<<d, "dna">>] # "absent"
             /\ pull'[q].at = "dna" => UnitIn(d)' \/ died' > 0
  <2>1. CASE q = p
    BY <1>1, <2>1 DEF KeptIn
  <2>2. CASE q # p
    <3>1. pull'[q] = pull[q]
      BY <2>2
    <3>2. /\ WeightsIn(d)
          /\ pull[q].at = "healthy" => unit[<<d, "dna">>] # "absent"
          /\ pull[q].at = "dna" => UnitIn(d) \/ died > 0
      BY <1>1, <3>1 DEF UnitsOf
    <3> QED BY <1>k, <3>1, <3>2
  <2> QED BY <2>1, <2>2
<1>2. /\ UnitIn(d)' => WeightsIn(d)'
      /\ unit'[<<d, "dna">>] # "absent" => UnitIn(d)' \/ died' > 0
  BY <1>k DEF UnitsOf
<1>3. \A q \in Pullers : DirOf(pull[q].kind)' = DirOf(pull'[q].kind)
  BY DEF DirOf, Home
<1> QED BY <1>1, <1>2, <1>3 DEF UnitsOf

(* A step of an operation that is not a purge. *)
LEMMA UnitsKept ==
    ASSUME Units, NEW p \in Pullers, \A q \in Pullers : q # p => pull'[q] = pull[q],
           shared' = shared, ~purged' => ~purged /\ ~Purging /\ pull'[p].at # "purge",
           \A d \in Dirs : UnitsOf(d) => KeptIn(p, d)
    PROVE  Units'
<1>1. ~purged' => ~Purging'
  BY DEF Purging
<1>2. ASSUME NEW d \in Dirs, d = "visible" => ~purged' /\ ~Purging' PROVE UnitsOf(d)'
  <2>1. UnitsOf(d)
    BY <1>2 DEF Units
  <2> QED BY <2>1, UnitsOfKept
<1> QED BY <1>1, <1>2 DEF Units, Purging

(* A step after which everything that units are about is as it was. *)
LEMMA SameUnits ==
    ASSUME Units, link' = link, unit' = unit, shared' = shared, died' = died, purged' = purged,
           \A q \in Pullers : /\ pull'[q].at = pull[q].at /\ pull'[q].kind = pull[q].kind
                              /\ pull'[q].todo = pull[q].todo
    PROVE  Units'
<1>1. Present' = Present /\ (Purging' <=> Purging)
  BY DEF Present, Purging
<1>2. \A d \in Dirs : UnitsOf(d)' <=> UnitsOf(d)
  BY DEF UnitsOf, WeightsIn, UnitIn, DirOf, Home
<1> QED BY <1>1, <1>2 DEF Units

(* A purge that begins, and one that goes on. *)
LEMMA PurgeUnits ==
    ASSUME PullTypes, RoomForInodes, Units, NEW p \in Pullers,
           BeginPurge(p) \/ PurgeEntry(p) \/ PurgeEnd(p)
    PROVE  Units'
<1>1. \A q \in Pullers : q # p => pull'[q] = pull[q]
  BY StepTypes DEF Steps
<1>t. /\ link \in [Entries -> Inode \cup {0}]
      /\ unit \in [Dirs \X UnitFiles -> {"absent", "torn", "whole"}]
      /\ pull \in [Pullers -> PullRecord] /\ Names \cap UnitFiles = {}
  BY DEF PullTypes, Names, UnitFiles
<1>h. ASSUME shared' = shared, died' = died, pull'[p].at \in {"purge", "idle"},
             link'[<<"home", "weights">>] = link[<<"home", "weights">>],
             \A f \in UnitFiles : unit'[<<"home", f>>] = unit[<<"home", f>>]
      PROVE  UnitsOf("home")'
  <2>1. UnitsOf("home") /\ "home" \in Dirs
    BY DEF Units, Dirs
  <2>2. KeptIn(p, "home")
    BY <1>h DEF KeptIn, WeightsIn, UnitIn, UnitFiles
  <2> QED BY <1>1, <1>h, <2>1, <2>2, UnitsOfKept
<1>2. ASSUME pull'[p].at = "purge", ~purged' => Present' = pull'[p].todo,
             ~purged' => \A q \in Pullers : q # p => pull[q].at = "idle", UnitsOf("home")'
      PROVE  Units'
  <2>1. ~purged' => \A q \in Pullers : q # p => pull'[q].at = "idle"
    BY <1>1, <1>2
  <2>2. Purging'
    BY <1>2 DEF Purging
  <2>3. \A d \in Dirs : (d = "visible" => ~purged' /\ ~Purging') => UnitsOf(d)'
    BY <1>2, <2>2 DEF Dirs
  <2> QED BY <1>2, <2>1, <2>3 DEF Units
<1>3. CASE BeginPurge(p)
  <2>1. /\ BeginOn(p, "purge", "purge") /\ "purge" \in Places
        /\ UNCHANGED <<shared, link, unit, died>>
        /\ purged' = (purged \/ \E q \in Pullers : pull[q].at # "idle" /\ "purge" \in {"purge", pull[q].kind})
    BY <1>3 DEF BeginPurge, BeginOn, Places
  <2>2. pull'[p].at = "purge" /\ pull'[p].todo = Present
    BY <2>1, Begun
  <2>3. ~purged' => \A q \in Pullers : pull[q].at = "idle"
    BY <2>1
  <2>4. Present' = Present
    BY <2>1 DEF Present
  <2>5. UnitsOf("home")'
    BY <1>h, <2>1, <2>2
  <2> QED BY <1>2, <2>2, <2>3, <2>4, <2>5
<1>4. CASE PurgeEntry(p)
  <2>1. PICK n \in pull[p].todo :
          /\ pull' = [pull EXCEPT ![p].todo = @ \ {n}]
          /\ link' = IF n \in Names THEN [link EXCEPT ![<<"visible", n>>] = 0] ELSE link
          /\ unit' = IF n \in UnitFiles THEN [unit EXCEPT ![<<"visible", n>>] = "absent"] ELSE unit
    BY <1>4 DEF PurgeEntry
  <2>2. pull[p].at = "purge" /\ purged' = purged /\ shared' = shared /\ died' = died
    BY <1>4 DEF PurgeEntry, pullHistory
  <2>3. pull'[p].at = "purge" /\ pull'[p].todo = pull[p].todo \ {n}
    BY <1>t, <2>1, <2>2 DEF PullRecord
  <2>4. Present' = Present \ {n}
    <3>1. \A m \in Names : link'[<<"visible", m>>] # 0 <=> link[<<"visible", m>>] # 0 /\ m # n
      BY <1>t, <2>1 DEF Entries, Dirs
    <3>2. \A f \in UnitFiles :
            unit'[<<"visible", f>>] # "absent" <=> unit[<<"visible", f>>] # "absent" /\ f # n
      BY <1>t, <2>1 DEF Dirs
    <3> QED BY <3>1, <3>2 DEF Present
  <2>5. UnitsOf("home")'
    <3>1. link'[<<"home", "weights">>] = link[<<"home", "weights">>]
      BY <1>t, <2>1 DEF Entries, Dirs, Names
    <3>2. \A f \in UnitFiles : unit'[<<"home", f>>] = unit[<<"home", f>>]
      BY <1>t, <2>1 DEF Dirs
    <3> QED BY <1>h, <2>2, <2>3, <3>1, <3>2
  <2> QED BY <1>2, <2>2, <2>3, <2>4, <2>5 DEF Units
<1>5. CASE PurgeEnd(p)
  <2>1. /\ pull[p].at = "purge" /\ pull[p].todo = {} /\ UNCHANGED <<purged, shared, link, unit, died>>
        /\ Finish(p, "ok") \/ Finish(p, "failed")
    BY <1>5 DEF PurgeEnd, pullHistory
  <2>2. pull'[p].at = "idle"
    BY <2>1, Finished
  <2>3. ASSUME ~purged
        PROVE  /\ Present' = {} /\ \A q \in Pullers : pull'[q].at = "idle"
    <3>1. Present = {} /\ \A q \in Pullers : q # p => pull[q].at = "idle"
      BY <2>1, <2>3 DEF Units
    <3>2. Present' = Present
      BY <2>1 DEF Present
    <3> QED BY <1>1, <2>2, <3>1, <3>2
  <2>4. Present' = {} => ~UnitIn("visible")' /\ unit'[<<"visible", "dna">>] = "absent"
    BY DEF Present, UnitIn, UnitFiles
  <2>5. ~purged' => UnitsOf("visible")'
    BY <2>1, <2>3, <2>4 DEF UnitsOf
  <2>6. UnitsOf("home")'
    BY <1>h, <2>1, <2>2
  <2> QED BY <2>1, <2>3, <2>5, <2>6 DEF Units, Dirs
<1> QED BY <1>3, <1>4, <1>5

(* Every step keeps what is known of units. *)
LEMMA StepUnits ==
    ASSUME PullTypes, RoomForInodes, Units, NEW p \in Pullers, Steps(p)
    PROVE  Units'
<1>1. /\ pull \in [Pullers -> PullRecord] /\ \A q \in Pullers : q # p => pull'[q] = pull[q]
      /\ link \in [Entries -> Inode \cup {0}]
      /\ unit \in [Dirs \X UnitFiles -> {"absent", "torn", "whole"}]
      /\ died \in Nat
  BY StepTypes DEF PullTypes
<1>n. /\ \A k : PartOf(k) \in Entries /\ \A d \in Dirs : PartOf(k) # <<d, "weights">>
      /\ \A k : PartOf(k)[1] = DirOf(k) /\ DirOf(k) \in Dirs
      /\ \A d \in Dirs : <<d, "weights">> \in Entries
  BY PartNames
<1>2. ASSUME pull[p].at \notin {"idle", "purge"}, purged' = purged
      PROVE  ~purged' => ~purged /\ ~Purging
  BY <1>2, NoPurge
<1>f. ASSUME pull[p].at \notin {"idle", "purge"}, purged' = purged, shared' = shared,
             pull'[p].at \in {"idle", "chunk", "rename"},
             \A d \in Dirs : link'[<<d, "weights">>] = link[<<d, "weights">>], unit' = unit, died' = died
      PROVE  Units'
  <2>1. \A d \in Dirs : KeptIn(p, d)
    BY <1>f DEF KeptIn, WeightsIn, UnitIn
  <2> QED BY <1>1, <1>2, <1>f, <2>1, UnitsKept
<1>3. CASE Look(p)
  <2>1. /\ pull' = [pull EXCEPT ![p].list = Recommended.cached]
        /\ UNCHANGED <<shared, link, unit, purged, died>>
    BY <1>3 DEF Look, pullHistory, files
  <2>2. \A q \in Pullers : /\ pull'[q].at = pull[q].at /\ pull'[q].kind = pull[q].kind
                           /\ pull'[q].todo = pull[q].todo
    BY <1>1, <2>1 DEF PullRecord
  <2> QED BY <2>1, <2>2, SameUnits
<1>4. CASE BeginFetch(p) \/ BeginManage(p)
  <2>1. ASSUME NEW k \in {"fetch", "manage"}, NEW at \in {"open", "healthy"}, BeginOn(p, k, at),
               at = "healthy" => k = "manage" /\ WeightsIn(Home) /\ unit[<<Home, "dna">>] # "absent"
        PROVE  Units'
    <3>1. /\ at \in Places /\ UNCHANGED <<shared, link, unit, died>>
          /\ purged' = (purged \/ \E q \in Pullers :
                            pull[q].at # "idle" /\ "purge" \in {k, pull[q].kind})
      BY <2>1 DEF Places, BeginOn
    <3>2. pull'[p].at = at /\ pull'[p].kind = k
      BY <2>1, <3>1, Begun
    <3>3. ~purged' => ~purged /\ ~Purging
      <4>1. \A q \in Pullers : pull[q].at = "purge" => pull[q].kind = "purge" /\ pull[q].at # "idle"
        BY DEF PullTypes
      <4> QED BY <3>1, <4>1 DEF Purging
    <3>4. ASSUME NEW d \in Dirs PROVE KeptIn(p, d)
      <4>1. DirOf(k) = d /\ at = "healthy" => d = Home
        BY <2>1 DEF DirOf
      <4>2. /\ (WeightsIn(d)' <=> WeightsIn(d)) /\ (UnitIn(d)' <=> UnitIn(d))
        BY <3>1 DEF WeightsIn, UnitIn
      <4>3. pull'[p].at \in {"healthy", "manifest", "dna"} /\ DirOf(pull'[p].kind) = d =>
              pull'[p].at = "healthy" /\ WeightsIn(d) /\ unit[<<d, "dna">>] # "absent"
        BY <2>1, <3>2, <4>1
      <4> QED BY <3>1, <4>2, <4>3 DEF KeptIn
    <3> QED BY <1>1, <3>1, <3>2, <3>3, <3>4, UnitsKept
  <2>2. CASE BeginFetch(p)
    BY <2>1, <2>2 DEF BeginFetch
  <2>3. CASE BeginManage(p)
    <3> DEFINE at == IF WeightsIn(Home) /\ unit[<<Home, "dna">>] # "absent" THEN "healthy" ELSE "open"
    <3>1. BeginOn(p, "manage", at) /\ at \in {"open", "healthy"}
      BY <2>3 DEF BeginManage
    <3>2. at = "healthy" => WeightsIn(Home) /\ unit[<<Home, "dna">>] # "absent"
      OBVIOUS
    <3> HIDE DEF at
    <3> QED BY <2>1, <3>1, <3>2
  <2> QED BY <1>4, <2>2, <2>3
<1>5. CASE Healthy(p) \/ Fail(p)
  <2>1. /\ pull[p].at \notin {"idle", "purge"} /\ UNCHANGED <<shared, link, unit, died, purged>>
        /\ Finish(p, "ok") \/ Finish(p, "failed")
    BY <1>5 DEF Healthy, Fail, pullHistory, files
  <2>2. pull'[p].at = "idle"
    BY <2>1, Finished
  <2> QED BY <1>f, <2>1, <2>2
<1>6. CASE Open(p)
  <2>1. /\ pull'[p].at = "chunk" /\ pull[p].at = "open"
        /\ link' = [link EXCEPT ![PartOf(pull[p].kind)] = PartInode(p)]
        /\ UNCHANGED <<shared, unit, purged, died>>
    BY <1>6, Opened
  <2>2. \A d \in Dirs : link'[<<d, "weights">>] = link[<<d, "weights">>]
    BY <1>1, <1>n, <2>1
  <2> QED BY <1>f, <2>1, <2>2
<1>7. CASE AlreadyThere(p)
  <2>1. /\ pull[p].at = "open" /\ pull[p].kind = "manage" /\ WeightsIn(Home)
        /\ GoTo(p, "manifest") /\ "manifest" \in Places
        /\ UNCHANGED <<shared, link, unit, died, purged>>
    BY <1>7 DEF AlreadyThere, pullHistory, files, Places
  <2>2. pull'[p].at = "manifest" /\ pull'[p].kind = "manage"
    BY <2>1, Gone
  <2>3. ASSUME NEW d \in Dirs PROVE KeptIn(p, d)
    <3>1. (WeightsIn(d)' <=> WeightsIn(d)) /\ (UnitIn(d)' <=> UnitIn(d))
      BY <2>1 DEF WeightsIn, UnitIn
    <3>2. DirOf(pull'[p].kind) = d => WeightsIn(d)
      BY <2>1, <2>2 DEF DirOf
    <3> QED BY <2>1, <2>2, <3>1, <3>2 DEF KeptIn
  <2> QED BY <1>1, <1>2, <2>1, <2>2, <2>3, UnitsKept
<1>8. CASE Abort(p)
  <2>1. /\ pull[p].at = "chunk" /\ link' = [link EXCEPT ![PartOf("fetch")] = 0]
        /\ UNCHANGED <<shared, unit, died, purged>> /\ Finish(p, "aborted")
    BY <1>8 DEF Abort, pullHistory
  <2>2. pull'[p].at = "idle"
    BY <2>1, Finished
  <2>3. \A d \in Dirs : link'[<<d, "weights">>] = link[<<d, "weights">>]
    BY <1>1, <1>n, <2>1
  <2> QED BY <1>f, <2>1, <2>2, <2>3
<1>9. CASE Chunk(p)
  <2>1. /\ pull[p].at = "chunk" /\ UNCHANGED <<shared, link, unit, died, purged>>
        /\ pull' = [pull EXCEPT ![p].pos = pull[p].pos + 1,
                                ![p].at = IF pull[p].pos + 1 = Pieces THEN "rename" ELSE "chunk"]
    BY <1>9 DEF Chunk, pullHistory
  <2>2. pull'[p].at \in {"rename", "chunk"}
    BY <1>1, <2>1 DEF PullRecord
  <2> QED BY <1>f, <2>1, <2>2
<1>10. CASE Rename(p)
  <2>1. pull[p].at = "rename" /\ UNCHANGED <<shared, unit, died, purged>>
    BY <1>10 DEF Rename, pullHistory
  <2> DEFINE part == PartOf(pull[p].kind)
  <2>2. CASE link[part] = 0
    <3>1. Finish(p, "failed") /\ link' = link
      BY <1>10, <2>2 DEF Rename
    <3>2. pull'[p].at = "idle"
      BY <3>1, Finished
    <3> QED BY <1>f, <2>1, <3>1, <3>2
  <2>3. CASE link[part] # 0
    <3>1. /\ link' = [link EXCEPT ![<<part[1], "weights">>] = link[part], ![part] = 0]
          /\ GoTo(p, "manifest") /\ "manifest" \in Places
      BY <1>10, <2>3 DEF Rename, Places
    <3>2. pull'[p].at = "manifest" /\ pull'[p].kind = pull[p].kind
      BY <3>1, Gone
    <3>3. part \in Entries /\ part[1] = DirOf(pull[p].kind) /\ DirOf(pull[p].kind) \in Dirs
      BY <1>n
    <3>4. ASSUME NEW d \in Dirs PROVE KeptIn(p, d)
      <4>1. part # <<d, "weights">> /\ <<d, "weights">> \in Entries
        BY <1>n
      <4>2. WeightsIn(d) => WeightsIn(d)'
        <5> HIDE DEF part
        <5> QED BY <1>1, <2>3, <3>1, <3>3, <4>1 DEF WeightsIn
      <4>3. DirOf(pull[p].kind) = d => WeightsIn(d)'
        <5>1. DirOf(pull[p].kind) = d => <<part[1], "weights">> = <<d, "weights">>
          BY <3>3
        <5> HIDE DEF part
        <5> QED BY <1>1, <2>3, <3>1, <4>1, <5>1 DEF WeightsIn
      <4>4. UnitIn(d)' <=> UnitIn(d)
        BY <2>1 DEF UnitIn
      <4> QED BY <2>1, <3>2, <4>2, <4>3, <4>4 DEF KeptIn
    <3> QED BY <1>1, <1>2, <2>1, <3>2, <3>4, UnitsKept
  <2> QED BY <2>2, <2>3
<1>11. CASE SaveUnit(p)
  <2> DEFINE d0 == DirOf(pull[p].kind)
  <2>1. pull[p].at = "manifest" /\ UNCHANGED <<shared, link, died, purged>>
    BY <1>11 DEF SaveUnit, pullHistory
  <2>2. CASE there[d0]
    <3>1. /\ unit' = [unit EXCEPT ![<<d0, "manifest">>] = "whole"] /\ GoTo(p, "dna") /\ "dna" \in Places
      BY <1>11, <2>2 DEF SaveUnit, Places
    <3>2. pull'[p].at = "dna" /\ pull'[p].kind = pull[p].kind
      BY <3>1, Gone
    <3>3. ASSUME NEW d \in Dirs, UnitsOf(d) PROVE KeptIn(p, d)
      <4>1. WeightsIn(d)' <=> WeightsIn(d)
        BY <2>1 DEF WeightsIn
      <4>2. d0 = d => WeightsIn(d)
        BY <2>1, <3>3 DEF UnitsOf
      <4>3. /\ unit'[<<d, "dna">>] = unit[<<d, "dna">>]
            /\ d0 = d => UnitIn(d)'
            /\ d0 # d => (UnitIn(d)' <=> UnitIn(d))
            /\ UnitIn(d) => UnitIn(d)'
        <5> HIDE DEF d0
        <5> QED BY <1>1, <3>1 DEF UnitIn, UnitFiles
      <4> QED BY <2>1, <3>2, <4>1, <4>2, <4>3 DEF KeptIn
    <3> QED BY <1>1, <1>2, <2>1, <3>2, <3>3, UnitsKept
  <2>3. CASE ~there[d0]
    <3>1. Finish(p, "failed") /\ unit' = unit
      BY <1>11, <2>3 DEF SaveUnit
    <3>2. pull'[p].at = "idle"
      BY <3>1, Finished
    <3> QED BY <1>f, <2>1, <3>1, <3>2
  <2> QED BY <2>2, <2>3
<1>12. CASE SaveDna(p)
  <2> DEFINE d0 == DirOf(pull[p].kind)
  <2>1. /\ pull[p].at = "dna" /\ UNCHANGED <<shared, link, died, purged>>
        /\ unit' = (IF there[d0] THEN [unit EXCEPT ![<<d0, "dna">>] = "whole"] ELSE unit)
        /\ Finish(p, "ok") \/ Finish(p, "failed")
    BY <1>12 DEF SaveDna, pullHistory
  <2>2. pull'[p].at = "idle"
    BY <2>1, Finished
  <2>3. ASSUME NEW d \in Dirs, UnitsOf(d) PROVE KeptIn(p, d)
    <3>1. d0 = d => UnitIn(d) \/ died > 0
      BY <2>1, <2>3 DEF UnitsOf
    <3>2. (WeightsIn(d)' <=> WeightsIn(d)) /\ died' = died
      BY <2>1 DEF WeightsIn
    <3>3. /\ UnitIn(d)' <=> UnitIn(d)
          /\ unit[<<d, "dna">>] # "absent" => unit'[<<d, "dna">>] # "absent"
          /\ d0 # d => unit'[<<d, "dna">>] = unit[<<d, "dna">>]
      <4> HIDE DEF d0
      <4> QED BY <1>1, <2>1 DEF UnitIn, UnitFiles
    <3> QED BY <2>2, <3>1, <3>2, <3>3 DEF KeptIn
  <2> QED BY <1>1, <1>2, <2>1, <2>2, <2>3, UnitsKept
<1>13. CASE PullCrash(p)
  <2> DEFINE e == <<DirOf(pull[p].kind), pull[p].at>>
  <2>1. /\ pull' = [pull EXCEPT ![p] = [NoPull EXCEPT !.list = Cached]]
        /\ link' = link /\ shared' = shared
        /\ died' = died + 1 /\ pull[p].at # "idle"
        /\ purged' = (purged \/ pull[p].at = "purge")
        /\ unit' = unit \/ unit' = [unit EXCEPT ![e] = "torn"]
    BY <1>13 DEF PullCrash
  <2>2. pull'[p].at = "idle"
    BY <1>1, <2>1 DEF NoPull
  <2>3. died' > 0
    BY <1>1, <2>1
  <2>4. ASSUME NEW d \in Dirs PROVE KeptIn(p, d)
    <3> HIDE DEF e
    <3>1. /\ (WeightsIn(d)' <=> WeightsIn(d)) /\ (UnitIn(d)' => UnitIn(d))
          /\ unit[<<d, "dna">>] # "absent" => unit'[<<d, "dna">>] # "absent"
      BY <1>1, <2>1 DEF WeightsIn, UnitIn, UnitFiles
    <3> QED BY <2>2, <2>3, <3>1 DEF KeptIn
  <2>5. ~purged' => ~purged /\ ~Purging
    <3>1. ~purged' => ~purged /\ pull[p].at \notin {"idle", "purge"}
      BY <2>1
    <3> QED BY <3>1, NoPurge
  <2> QED BY <1>1, <2>1, <2>2, <2>4, <2>5, UnitsKept
<1>14. CASE BeginPurge(p) \/ PurgeEntry(p) \/ PurgeEnd(p)
  BY <1>14, PurgeUnits
<1>15. CASE LateWrite(p) \/ LateLost(p)
  <2>1. UNCHANGED <<shared, link, unit, pull, died, purged>>
    BY <1>15 DEF LateWrite, LateLost, pullHistory
  <2> QED BY <2>1, SameUnits
<1> QED
  BY <1>3, <1>4, <1>5, <1>6, <1>7, <1>8, <1>9, <1>10, <1>11, <1>12, <1>13, <1>14, <1>15 DEF Steps

-----------------------------------------------------------------------------
(* The theorems *)

(* Nothing is there at first, in one directory or in two. *)
LEMMA FirstDirectory == ModelInit => DirectoryInv
<1> SUFFICES ASSUME ModelInit PROVE DirectoryInv
  OBVIOUS
<1>1. /\ shared \in BOOLEAN /\ late = {} /\ short = {}
      /\ link = [e \in Entries |-> 0] /\ body = [i \in Inode |-> {}]
      /\ unit = [e \in Dirs \X UnitFiles |-> "absent"] /\ there = [d \in Dirs |-> FALSE]
      /\ pull = [p \in Pullers |-> NoPull]
      /\ mixed = FALSE /\ purged = FALSE /\ pulls = 0 /\ died = 0
  BY DEF ModelInit, Entries
<1>2. \A p \in Pullers : pull[p] = NoPull
  BY <1>1
<1>3. NoPull \in PullRecord /\ NoPull.at = "idle" /\ NoPull.ino = 0
  BY Sizes DEF NoPull, PullRecord, Places
<1>i. PlaceOf(NoPull)
  BY DEF PlaceOf, NoPull, Downloading
<1>l. \A d \in Dirs : link[<<d, "weights">>] = 0 /\ \A f \in UnitFiles : unit[<<d, f>>] = "absent"
  <2>1. \A d \in Dirs : <<d, "weights">> \in Entries /\ \A f \in UnitFiles : <<d, f>> \in Dirs \X UnitFiles
    BY PartNames
  <2> QED BY <1>1, <2>1
<1>4. PullTypes
  <2>1. pull \in [Pullers -> PullRecord]
    BY <1>1, <1>3
  <2>2. /\ link \in [Entries -> Inode \cup {0}] /\ body \in [Inode -> SUBSET All]
        /\ unit \in [Dirs \X UnitFiles -> {"absent", "torn", "whole"}]
        /\ late \subseteq Pullers \X Inode /\ short \subseteq Inode
        /\ there \in [Dirs -> BOOLEAN] /\ mixed \in BOOLEAN /\ purged \in BOOLEAN
        /\ pulls \in 0..MaxPulls /\ died \in Nat
    <3>1. link \in [Entries -> Inode \cup {0}]
      BY <1>1
    <3>2. body \in [Inode -> SUBSET All]
      BY <1>1
    <3>3. unit \in [Dirs \X UnitFiles -> {"absent", "torn", "whole"}]
      BY <1>1
    <3>4. /\ there \in [Dirs -> BOOLEAN] /\ mixed \in BOOLEAN /\ purged \in BOOLEAN
          /\ late \subseteq Pullers \X Inode /\ short \subseteq Inode
      BY <1>1
    <3>5. pulls \in 0..MaxPulls /\ died \in Nat
      BY <1>1, Sizes
    <3> QED BY <3>1, <3>2, <3>3, <3>4, <3>5
  <2>3. \A p \in Pullers : PlaceOf(pull[p])
    BY <1>2, <1>i
  <2> QED BY <1>1, <2>1, <2>2, <2>3 DEF PullTypes, PlaceOf, Writing
<1>5. RoomForInodes
  <2>1. InUse = {} /\ Opens = {}
    BY <1>1, <1>2, <1>3, Sizes DEF InUse, Used, Opens, Entries
  <2>2. IsFiniteSet({}) /\ Cardinality({}) = 0
    BY FS_EmptySet
  <2>3. 0 + 0 <= pulls
    BY <1>1
  <2> QED BY <2>1, <2>2, <2>3 DEF RoomForInodes
<1>6. Apart
  <2>1. \A n \in Entries : link[n] = 0
    BY <1>1
  <2>2. \A p \in Pullers : ~Writing(p)
    BY <1>2, <1>3 DEF Writing
  <2> QED BY <1>l, <2>1, <2>2 DEF Apart, WeightsIn
<1>7. Units
  <2>1. \A d \in Dirs : UnitsOf(d)
    BY <1>2, <1>3, <1>l DEF UnitsOf, UnitIn, UnitFiles
  <2> QED BY <1>2, <1>3, <2>1 DEF Units
<1> QED BY <1>4, <1>5, <1>6, <1>7 DEF DirectoryInv

(* The steps of a directory are those of its users, and the topics of      *)
(* other files do not touch it.                                            *)
LEMMA Directories == Next => (\E p \in Pullers : Steps(p)) \/ UNCHANGED modelVars
  BY DEF Next, ModelNext, Steps

(* What nothing touches stays as it is. *)
LEMMA Untouched == DirectoryInv /\ UNCHANGED modelVars => DirectoryInv'
<1> SUFFICES ASSUME DirectoryInv, UNCHANGED modelVars PROVE DirectoryInv'
  OBVIOUS
<1>1. /\ UNCHANGED <<shared, link, body, late, unit, there>> /\ pull' = pull
      /\ UNCHANGED <<short, mixed, purged, pulls, died>>
  BY DEF modelVars, files, pullHistory
<1>2. PullTypes'
  BY <1>1 DEF DirectoryInv, PullTypes, Writing
<1>3. RoomForInodes'
  <2>1. InUse' = InUse /\ Opens' = Opens
    BY <1>1 DEF InUse, Used, Opens
  <2> QED BY <1>1, <2>1 DEF DirectoryInv, RoomForInodes
<1>4. Apart'
  <2>1. Has' = Has
    BY <1>1 DEF Has, Owed
  <2> QED BY <1>1, <2>1 DEF DirectoryInv, Apart, WeightsIn, Writing, PartOf, DirOf, Home
<1>5. Units'
  <2>1. \A q \in Pullers : pull'[q].at = pull[q].at /\ pull'[q].kind = pull[q].kind
                             /\ pull'[q].todo = pull[q].todo
    BY <1>1
  <2> QED BY <1>1, <2>1, SameUnits DEF DirectoryInv
<1> QED BY <1>2, <1>3, <1>4, <1>5 DEF DirectoryInv

(* The invariant of a model's files: types, an inode for every download    *)
(* that begins, writers apart from each other and from visible weights,    *)
(* a last piece that is in the file, owed, or lost, and, in each of the    *)
(* two directories, a unit in the order in which its files are written.    *)
THEOREM DirectoryIsSound == Spec => []DirectoryInv
<1>1. Init => DirectoryInv
  BY FirstDirectory DEF Init
<1>2. DirectoryInv /\ [Next]_installVars => DirectoryInv'
  <2> SUFFICES ASSUME DirectoryInv, [Next]_installVars PROVE DirectoryInv'
    OBVIOUS
  <2>1. CASE UNCHANGED modelVars
    BY <2>1, Untouched
  <2>2. ASSUME NEW p \in Pullers, Steps(p) PROVE DirectoryInv'
    BY <2>2, StepTypes, StepRoom, StepApart, StepUnits DEF DirectoryInv
  <2>3. CASE UNCHANGED installVars
    BY <2>1, <2>3 DEF installVars
  <2> QED BY <2>1, <2>2, <2>3, Directories
<1> QED BY <1>1, <1>2, PTL DEF Spec

(* Visible weights lack nothing but the last piece that the manager did    *)
(* not wait for, whatever fails, is aborted, retried, purged or killed,    *)
(* unless two downloads of a kind met.                                     *)
THEOREM WeightsAreComplete == Spec => []WeightsComplete
<1>1. DirectoryInv => WeightsComplete
  <2> SUFFICES ASSUME DirectoryInv, ~mixed, NEW d \in Dirs, WeightsIn(d)
               PROVE  body[link[<<d, "weights">>]] \cup Owed(link[<<d, "weights">>]) = All
    BY DEF WeightsComplete
  <2> DEFINE i == link[<<d, "weights">>]
  <2>1. All \subseteq Has[i]
    BY DEF DirectoryInv, Apart
  <2>2. i \in Inode /\ body[i] \subseteq All
    BY PartNames DEF DirectoryInv, PullTypes, WeightsIn
  <2> HIDE DEF i
  <2>3. Has[i] = body[i] \cup Owed(i)
    BY <2>2 DEF Has
  <2>4. Owed(i) \subseteq All
    BY Sizes DEF Owed, All
  <2>5. body[i] \cup Owed(i) = All
    BY <2>1, <2>2, <2>3, <2>4
  <2> QED BY <2>5 DEF i
<1> QED BY <1>1, DirectoryIsSound, PTL

(* A manifest has its weights beside it: it is written after them and only *)
(* a purge, in its own directory, takes them away.                         *)
THEOREM UnitsHaveWeights == Spec => []UnitHasWeights
<1>1. DirectoryInv => UnitHasWeights
  BY DEF DirectoryInv, Units, UnitsOf, UnitHasWeights, Purging
<1> QED BY <1>1, DirectoryIsSound, PTL

(* A step that reports success of an operation under way. *)
LEMMA StepHonest ==
    ASSUME DirectoryInv, NEW p \in Pullers, Steps(p), NEW q \in Pullers,
           pull[q].at # "idle", pull'[q].res = "ok", ~purged'
    PROVE  IF pull[q].kind = "purge" THEN ~Cached' /\ (shared => ~Recommended'.path)
           ELSE \A d \in Dirs : DirOf(pull[q].kind) = d =>
                    WeightsIn(d)' /\ (died = 0 => UnitIn(d)')
<1>1. /\ pull \in [Pullers -> PullRecord] /\ \A r \in Pullers : r # p => pull'[r] = pull[r]
      /\ unit \in [Dirs \X UnitFiles -> {"absent", "torn", "whole"}]
      /\ \A r \in Pullers : pull[r].at # "idle" => pull[r].res = "none"
      /\ PullTypes /\ RoomForInodes /\ Units
  BY StepTypes DEF DirectoryInv, PullTypes
<1>2. q = p /\ pull[p].at # "idle" /\ pull[p].res = "none" /\ pull'[p].res = "ok"
  BY <1>1
<1>f. ASSUME NEW res \in {"none", "failed", "aborted"}, Finish(p, res) PROVE FALSE
  BY <1>1, <1>2, <1>f, Finished
<1>g. ASSUME NEW at \in {"manifest", "dna"}, GoTo(p, at) PROVE FALSE
  <2>1. at \in Places
    BY DEF Places
  <2> QED BY <1>1, <1>2, <1>g, <2>1, Gone
<1>3. CASE Look(p) \/ BeginFetch(p) \/ BeginManage(p) \/ BeginPurge(p)
  BY <1>2, <1>3 DEF Look, BeginFetch, BeginManage, BeginPurge, BeginOn
<1>4. CASE Open(p)
  BY <1>1, <1>2, <1>4, Opened
<1>5. CASE AlreadyThere(p) \/ Fail(p) \/ Abort(p) \/ Rename(p) \/ SaveUnit(p)
  <2>1. Finish(p, "failed") \/ Finish(p, "aborted") \/ GoTo(p, "manifest") \/ GoTo(p, "dna")
    BY <1>5 DEF AlreadyThere, Fail, Abort, Rename, SaveUnit
  <2> QED BY <1>f, <1>g, <2>1
<1>6. CASE Chunk(p) \/ LateWrite(p) \/ LateLost(p)
  <2>1. pull'[p].res = pull[p].res
    BY <1>1, <1>6 DEF Chunk, LateWrite, LateLost, PullRecord
  <2> QED BY <1>2, <2>1
<1>7. CASE PurgeEntry(p)
  <2>1. pull'[p].res = pull[p].res
    BY <1>1, <1>7 DEF PurgeEntry, PullRecord
  <2> QED BY <1>2, <2>1
<1>8. CASE PullCrash(p)
  BY <1>1, <1>2, <1>8 DEF PullCrash, NoPull
<1>9. CASE PurgeEnd(p)
  <2>1. /\ Finish(p, IF there["visible"] /\ Present = {} THEN "ok" ELSE "failed")
        /\ pull[p].at = "purge" /\ UNCHANGED <<shared, link, unit>>
    BY <1>9 DEF PurgeEnd
  <2>2. Present = {}
    BY <1>f, <2>1
  <2>3. pull[p].kind = "purge"
    BY <1>1, <2>1 DEF PullTypes
  <2>4. link'[<<"visible", "weights">>] = 0 /\ unit'[<<"visible", "manifest">>] = "absent"
    BY <2>1, <2>2 DEF Present, Names, UnitFiles
  <2>5. ~Cached'
    BY <2>4 DEF Cached, WeightsIn
  <2>6. shared => ~Listed'
    BY <2>1, <2>4 DEF Listed, UnitIn, Home
  <2>7. shared => ~Recommended'.path
    BY <2>5, <2>6 DEF Recommended, RosterEntry, Template
  <2> QED BY <1>2, <2>3, <2>5, <2>7
<1>k. pull[p].at \in {"healthy", "dna"} => pull[p].kind # "purge"
  BY <1>1 DEF PullTypes
<1>o. ASSUME pull[p].at \in {"healthy", "dna"}, purged' = purged, NEW d \in Dirs,
             DirOf(pull[p].kind) = d
      PROVE  WeightsIn(d) /\ (UnitIn(d) \/ died > 0)
  <2>1. UnitsOf(d)
    <3>1. ~purged /\ ~Purging
      BY <1>1, <1>o, NoPurge
    <3> QED BY <1>1, <3>1 DEF Units
  <2> QED BY <1>o, <2>1 DEF UnitsOf
<1>10. CASE Healthy(p)
  <2>1. pull[p].at = "healthy" /\ UNCHANGED <<link, unit, purged>>
    BY <1>10 DEF Healthy, pullHistory, files
  <2>2. ASSUME NEW d \in Dirs, DirOf(pull[p].kind) = d
        PROVE  WeightsIn(d)' /\ (died = 0 => UnitIn(d)')
    <3>1. WeightsIn(d) /\ (UnitIn(d) \/ died > 0)
      BY <1>o, <2>1, <2>2
    <3> QED BY <2>1, <3>1 DEF WeightsIn, UnitIn
  <2> QED BY <1>2, <1>k, <2>1, <2>2
<1>11. CASE SaveDna(p)
  <2> DEFINE d0 == DirOf(pull[p].kind)
  <2>1. /\ pull[p].at = "dna" /\ link' = link /\ purged' = purged
        /\ unit' = IF there[d0] THEN [unit EXCEPT ![<<d0, "dna">>] = "whole"] ELSE unit
    BY <1>11 DEF SaveDna, pullHistory
  <2>2. ASSUME NEW d \in Dirs, DirOf(pull[p].kind) = d
        PROVE  WeightsIn(d)' /\ (died = 0 => UnitIn(d)')
    <3>1. WeightsIn(d) /\ (UnitIn(d) \/ died > 0)
      BY <1>o, <2>1, <2>2
    <3>2. UnitIn(d)' <=> UnitIn(d)
      <4> HIDE DEF d0
      <4> QED BY <1>1, <2>1 DEF UnitIn, UnitFiles
    <3> QED BY <2>1, <3>1, <3>2 DEF WeightsIn
  <2> QED BY <1>2, <1>k, <2>1, <2>2
<1> QED
  BY <1>3, <1>4, <1>5, <1>6, <1>7, <1>8, <1>9, <1>10, <1>11 DEF Steps

(* Success is reported of what is there: after a download the weights and, *)
(* without a crash, the unit, in the directory of the downloader; after a  *)
(* purge neither, as far as the purge and the list look at one directory.  *)
THEOREM PullsAreHonest == Spec => PullHonest
<1>1. DirectoryInv /\ [Next]_installVars =>
        [\A p \in Pullers :
            (pull[p].at # "idle" /\ pull'[p].res = "ok" /\ ~purged') =>
                IF pull[p].kind = "purge" THEN ~Cached' /\ (shared => ~Recommended'.path)
                ELSE \A d \in Dirs : DirOf(pull[p].kind) = d =>
                        WeightsIn(d)' /\ (died = 0 => UnitIn(d)')]_modelVars
  <2> SUFFICES ASSUME DirectoryInv, Next, ~UNCHANGED modelVars,
                      NEW q \in Pullers, pull[q].at # "idle", pull'[q].res = "ok", ~purged'
               PROVE  IF pull[q].kind = "purge" THEN ~Cached' /\ (shared => ~Recommended'.path)
                      ELSE \A d \in Dirs : DirOf(pull[q].kind) = d =>
                              WeightsIn(d)' /\ (died = 0 => UnitIn(d)')
    BY DEF installVars
  <2>1. PICK p \in Pullers : Steps(p)
    BY Directories
  <2> QED BY <2>1, StepHonest
<1> QED BY <1>1, DirectoryIsSound, PTL DEF Spec, PullHonest
-----------------------------------------------------------------------------
(* Binaries: the invariant *)

StartStep ==
    {"registry", "check", "driver", "kernel", "find", "dev", "empty", "fill", "mark"}
        \X (Artifact \cup {"all"})
StartRecord ==
    [todo : Seq(StartStep), ver : Version \cup {Absent},
     got : Version \cup {Absent, Dev, ErrorPage}, mark : Version \cup {Absent, Dev}]
Writes == {"empty", "fill", "mark"}

(* What is left of a start: a build is copied as a whole; of a binary that *)
(* is not built only one is being written, and it is written first.        *)
Ordered(todo) ==
    \A i \in 1..Len(todo) :
        /\ todo[i][1] = "check" => todo[i][2] \in {"engine", "kernel"}
        /\ todo[i][1] = "dev" =>
              /\ todo[i][2] \in built /\ i + 3 <= Len(todo)
              /\ \A j \in (i + 1)..(i + 3) : todo[j][1] \in Writes
        /\ todo[i][2] \notin built =>
              /\ todo[i][1] = "empty" => i = 1
              /\ todo[i][1] = "fill" => i = 1 \/ (i = 2 /\ todo[1] = Step("empty", todo[i][2]))
              /\ todo[i][1] = "mark" => i = 1 \/ todo[i - 1] = Step("fill", todo[i][2])

(* No check without the registry's version. *)
Asked(todo, ver) ==
    \A i \in 1..Len(todo) :
        todo[i][1] = "check" => ver # Absent \/ \E j \in 1..(i - 1) : todo[j][1] = "registry"

(* A record of a start, whatever other starts do. *)
Begins(r) ==
    /\ r \in StartRecord /\ Ordered(r.todo) /\ Asked(r.todo, r.ver)
    /\ r.ver \in Version => r.ver <= published
    /\ r.mark \in Version => r.mark <= published

Right(a) == {published} \cup (IF a = "driver" THEN {ErrorPage} ELSE {})
Newest(v) == v = published /\ offered[published]

(* A start that is alone, with markers m and binaries b, empties only what *)
(* is not marked as the newest, and marks as the newest only what it       *)
(* filled with that.                                                       *)
Solo(r, m, b) ==
    r.todo # <<>> =>
        /\ r.ver # Absent =>
             \A a \in {"engine", "kernel"} \ built : m[a] \in Version => m[a] <= r.ver
        /\ \A i \in 1..Len(r.todo), a \in Artifact \ built :
             /\ r.todo[i] \in {Step("empty", a), Step("fill", a)} => ~Newest(m[a])
             /\ r.todo[i] = Step("mark", a) =>
                  /\ a # "driver" => r.mark = r.ver
                  /\ Newest(r.mark) => (IF i = 1 THEN b[a] ELSE r.got) \in Right(a)

ArtifactTypes ==
    /\ bin \in [Artifact -> Version \cup {Absent, Torn, Dev, ErrorPage}]
    /\ marker \in [Artifact -> Version \cup {Absent, Dev}]
    /\ published \in Version /\ offered \in [Version -> BOOLEAN] /\ built \subseteq Artifact
    /\ crossed \in BOOLEAN /\ start \in [Starters -> StartRecord]
    /\ \A a \in Artifact : marker[a] \in Version => marker[a] <= published
    /\ \A p \in Starters : Begins(start[p])

OneStart ==
    ~crossed =>
        /\ \A p, q \in Starters : Running(p) /\ Running(q) => p = q
        /\ \A p \in Starters : Solo(start[p], marker, bin)
        /\ \A a \in Artifact \ built : Newest(marker[a]) => bin[a] \in Right(a)

ArtifactInv == ArtifactTypes /\ OneStart

-----------------------------------------------------------------------------
(* Binaries: what is left of a start *)

(* The constants. *)
LEMMA NoVersion ==
    /\ Absent \notin Version /\ Dev \notin Version
    /\ Version \subseteq Nat /\ 1 \in Version
    /\ \A v \in Version : v < MaxVersion => v + 1 \in Version
  BY ArtifactAssumption DEF Version

(* What is left after the first step, when that is done. *)
LEMMA RestOrdered ==
    ASSUME NEW s \in Seq(StartStep), Ordered(s), s # <<>>
    PROVE  /\ Tail(s) \in Seq(StartStep) /\ Ordered(Tail(s))
           /\ Len(Tail(s)) = Len(s) - 1
           /\ \A i \in 1..Len(Tail(s)) : Tail(s)[i] = s[i + 1]
<1> DEFINE t == Tail(s)
<1>1. s \in Seq(StartStep) /\ s # <<>>
  OBVIOUS
<1>2. Ordered(s)
  OBVIOUS
<1>3. t \in Seq(StartStep) /\ Len(t) = Len(s) - 1 /\ Len(s) \in Nat /\ Len(t) \in Nat
  BY <1>1
<1>4. \A i \in 1..Len(t) : t[i] = s[i + 1]
  BY <1>1
<1> HIDE DEF t
<1>5. Ordered(t)
  <2> SUFFICES ASSUME NEW i \in 1..Len(t)
               PROVE  /\ t[i][1] = "check" => t[i][2] \in {"engine", "kernel"}
                      /\ t[i][1] = "dev" =>
                            /\ t[i][2] \in built /\ i + 3 <= Len(t)
                            /\ \A j \in (i + 1)..(i + 3) : t[j][1] \in Writes
                      /\ t[i][2] \notin built =>
                            /\ t[i][1] = "empty" => i = 1
                            /\ t[i][1] = "fill" => i = 1 \/ (i = 2 /\ t[1] = Step("empty", t[i][2]))
                            /\ t[i][1] = "mark" => i = 1 \/ t[i - 1] = Step("fill", t[i][2])
    BY DEF Ordered
  <2> DEFINE k == i + 1
  <2>1. k \in 1..Len(s) /\ t[i] = s[k] /\ k - 1 = i /\ k # 1 /\ i \in Nat
    BY <1>3, <1>4
  <2>2. \A j \in (i + 1)..(i + 3) : i + 3 <= Len(t) => t[j] = s[j + 1] /\ j + 1 \in (k + 1)..(k + 3)
    BY <1>3, <1>4
  <2>3. i # 1 => t[i - 1] = s[i]
    BY <1>3, <1>4
  <2> HIDE DEF k
  <2>4. /\ s[k][1] = "check" => s[k][2] \in {"engine", "kernel"}
        /\ s[k][1] = "dev" =>
              /\ s[k][2] \in built /\ k + 3 <= Len(s)
              /\ \A j \in (k + 1)..(k + 3) : s[j][1] \in Writes
        /\ s[k][2] \notin built =>
              /\ s[k][1] = "empty" => k = 1
              /\ s[k][1] = "fill" => k = 1 \/ (k = 2 /\ s[1] = Step("empty", s[k][2]))
              /\ s[k][1] = "mark" => k = 1 \/ s[k - 1] = Step("fill", s[k][2])
    BY <1>2, <2>1 DEF Ordered
  <2>5. t[i][1] = "check" => t[i][2] \in {"engine", "kernel"}
    BY <2>1, <2>4
  <2>6. t[i][1] = "dev" => t[i][2] \in built /\ i + 3 <= Len(t) /\ \A j \in (i + 1)..(i + 3) : t[j][1] \in Writes
    BY <2>1, <2>2, <2>4, <1>3
  <2>7. t[i][2] \notin built /\ t[i][1] = "empty" => i = 1
    BY <2>1, <2>4
  <2>8. t[i][2] \notin built /\ t[i][1] = "fill" => i = 1
    BY <2>1, <2>4
  <2>9. t[i][2] \notin built /\ t[i][1] = "mark" => i = 1 \/ t[i - 1] = Step("fill", t[i][2])
    BY <2>1, <2>3, <2>4
  <2> QED BY <2>5, <2>6, <2>7, <2>8, <2>9
<1> QED BY <1>3, <1>4, <1>5 DEF t

(* The registry's version stays known. *)
LEMMA RestAsked ==
    ASSUME NEW s \in Seq(StartStep), NEW ver, Asked(s, ver), s # <<>>, s[1][1] # "registry"
    PROVE  Asked(Tail(s), ver)
<1> DEFINE t == Tail(s)
<1>1. s \in Seq(StartStep) /\ s # <<>> /\ Asked(s, ver) /\ s[1][1] # "registry"
  OBVIOUS
<1>3. Len(t) = Len(s) - 1 /\ Len(s) \in Nat /\ Len(t) \in Nat
  BY <1>1
<1>4. \A i \in 1..Len(t) : t[i] = s[i + 1]
  BY <1>1
<1> HIDE DEF t
<1> SUFFICES ASSUME NEW i \in 1..Len(t), t[i][1] = "check", ver = Absent
             PROVE  \E j \in 1..(i - 1) : t[j][1] = "registry"
  BY DEF Asked, t
<1> DEFINE k == i + 1
<1>5. k \in 1..Len(s) /\ s[k][1] = "check" /\ k - 1 = i
  BY <1>3, <1>4
<1> HIDE DEF k
<1>6. PICK j \in 1..(k - 1) : s[j][1] = "registry"
  BY <1>1, <1>5 DEF Asked
<1> DEFINE m == j - 1
<1>7. j # 1 /\ m \in 1..(i - 1) /\ m + 1 = j /\ m \in 1..Len(t)
  BY <1>1, <1>3, <1>5, <1>6
<1> HIDE DEF m
<1>8. t[m] = s[m + 1]
  BY <1>4, <1>7
<1> QED BY <1>6, <1>7, <1>8

(* Nothing but builds is written. *)
Calm(todo) == \A i \in 1..Len(todo) : todo[i][2] \notin built => todo[i][1] \notin Writes

(* Steps in front of others that write nothing but builds. *)
LEMMA Joined ==
    ASSUME NEW w \in Seq(StartStep), NEW u \in Seq(StartStep), NEW ver,
           Ordered(w), Ordered(u), Calm(u), Asked(w, ver), Asked(u, ver)
    PROVE  /\ w \o u \in Seq(StartStep) /\ Ordered(w \o u) /\ Asked(w \o u, ver)
           /\ Calm(w) => Calm(w \o u)
<1> DEFINE n == Len(w)
           m == Len(u)
           t == w \o u
<1>1. t \in Seq(StartStep) /\ n \in Nat /\ m \in Nat /\ Len(t) = n + m
  OBVIOUS
<1>2. \A i \in 1..n : t[i] = w[i]
  OBVIOUS
<1>3. \A i \in 1..m : t[n + i] = u[i]
  OBVIOUS
<1> HIDE DEF n, t, m
<1>4. \A i \in 1..Len(t) : i \in 1..n \/ \E k \in 1..m : i = n + k /\ t[i] = u[k]
  <2> SUFFICES ASSUME NEW i \in 1..Len(t), i \notin 1..n
               PROVE  \E k \in 1..m : i = n + k /\ t[i] = u[k]
    OBVIOUS
  <2> DEFINE k == i - n
  <2>1. k \in 1..m /\ i = n + k
    BY <1>1
  <2> HIDE DEF k
  <2> QED BY <2>1, <1>3
<1>5. Ordered(t)
  <2> SUFFICES ASSUME NEW i \in 1..Len(t)
               PROVE  /\ t[i][1] = "check" => t[i][2] \in {"engine", "kernel"}
                      /\ t[i][1] = "dev" =>
                            /\ t[i][2] \in built /\ i + 3 <= Len(t)
                            /\ \A j \in (i + 1)..(i + 3) : t[j][1] \in Writes
                      /\ t[i][2] \notin built =>
                            /\ t[i][1] = "empty" => i = 1
                            /\ t[i][1] = "fill" => i = 1 \/ (i = 2 /\ t[1] = Step("empty", t[i][2]))
                            /\ t[i][1] = "mark" => i = 1 \/ t[i - 1] = Step("fill", t[i][2])
    BY DEF Ordered
  <2>1. CASE i \in 1..n
    <3>1. t[i] = w[i] /\ t[1] = w[1] /\ (i # 1 => t[i - 1] = w[i - 1])
      <4>1. i \in 1..n /\ 1 \in 1..n /\ (i # 1 => i - 1 \in 1..n)
        BY <1>1, <2>1
      <4> QED BY <1>2, <4>1
    <3>2. i + 3 <= n => i + 3 <= Len(t) /\ \A j \in (i + 1)..(i + 3) : t[j] = w[j]
      BY <1>1, <1>2, <2>1
    <3>3. /\ w[i][1] = "check" => w[i][2] \in {"engine", "kernel"}
          /\ w[i][1] = "dev" =>
                /\ w[i][2] \in built /\ i + 3 <= n
                /\ \A j \in (i + 1)..(i + 3) : w[j][1] \in Writes
          /\ w[i][2] \notin built =>
                /\ w[i][1] = "empty" => i = 1
                /\ w[i][1] = "fill" => i = 1 \/ (i = 2 /\ w[1] = Step("empty", w[i][2]))
                /\ w[i][1] = "mark" => i = 1 \/ w[i - 1] = Step("fill", w[i][2])
      BY <2>1 DEF Ordered, n
    <3>4. t[i][1] = "dev" => t[i][2] \in built /\ i + 3 <= Len(t) /\ \A j \in (i + 1)..(i + 3) : t[j][1] \in Writes
      BY <3>1, <3>2, <3>3
    <3> QED BY <3>1, <3>3, <3>4
  <2>2. CASE i \notin 1..n
    <3>1. PICK k \in 1..m : i = n + k /\ t[i] = u[k]
      BY <1>4, <2>2
    <3>2. k + 3 <= m => i + 3 <= Len(t) /\ \A j \in (i + 1)..(i + 3) : t[j][1] = u[j - n][1] /\ j - n \in (k + 1)..(k + 3)
      <4> SUFFICES ASSUME k + 3 <= m
                   PROVE  i + 3 <= Len(t) /\ \A j \in (i + 1)..(i + 3) : t[j][1] = u[j - n][1] /\ j - n \in (k + 1)..(k + 3)
        OBVIOUS
      <4>1. i + 3 <= Len(t)
        BY <1>1, <3>1
      <4>2. ASSUME NEW j \in (i + 1)..(i + 3)
            PROVE  t[j][1] = u[j - n][1] /\ j - n \in (k + 1)..(k + 3)
        <5> DEFINE l == j - n
        <5>0. j \in Int /\ k \in Int /\ n + k + 1 <= j /\ j <= n + k + 3 /\ k >= 1
          BY <1>1, <3>1, <4>2
        <5>1. l \in 1..m /\ j = n + l /\ l \in (k + 1)..(k + 3)
          BY <1>1, <5>0
        <5> HIDE DEF l
        <5>2. t[j] = u[l]
          BY <1>3, <5>1
        <5> QED BY <5>1, <5>2 DEF l
      <4> QED BY <4>1, <4>2
    <3>3. /\ u[k][1] = "check" => u[k][2] \in {"engine", "kernel"}
          /\ u[k][1] = "dev" =>
                /\ u[k][2] \in built /\ k + 3 <= m
                /\ \A j \in (k + 1)..(k + 3) : u[j][1] \in Writes
          /\ u[k][2] \notin built => u[k][1] \notin Writes
      BY <3>1 DEF Ordered, Calm, m
    <3>4. t[i][1] = "dev" => t[i][2] \in built /\ i + 3 <= Len(t) /\ \A j \in (i + 1)..(i + 3) : t[j][1] \in Writes
      BY <3>1, <3>2, <3>3
    <3>5. t[i][2] \notin built => t[i][1] \notin Writes
      BY <3>1, <3>3
    <3>6. t[i][1] = "check" => t[i][2] \in {"engine", "kernel"}
      BY <3>1, <3>3
    <3> QED BY <3>4, <3>5, <3>6 DEF Writes
  <2> QED BY <2>1, <2>2
<1>6. Asked(t, ver)
  <2> SUFFICES ASSUME NEW i \in 1..Len(t), t[i][1] = "check", ver = Absent
               PROVE  \E j \in 1..(i - 1) : t[j][1] = "registry"
    BY DEF Asked
  <2>1. CASE i \in 1..n
    <3>1. PICK j \in 1..(i - 1) : w[j][1] = "registry"
      BY <1>2, <2>1 DEF Asked, n
    <3>2. t[j] = w[j]
      BY <1>1, <1>2, <2>1, <3>1
    <3> QED BY <3>1, <3>2
  <2>2. CASE i \notin 1..n
    <3>1. PICK k \in 1..m : i = n + k /\ t[i] = u[k]
      BY <1>4, <2>2
    <3>2. PICK j \in 1..(k - 1) : u[j][1] = "registry"
      BY <3>1 DEF Asked, m
    <3> DEFINE l == n + j
    <3>3. l \in 1..(i - 1) /\ j \in 1..m
      BY <1>1, <3>1, <3>2
    <3>4. t[l] = u[j]
      BY <1>3, <3>3
    <3> HIDE DEF l
    <3> QED BY <3>2, <3>3, <3>4
  <2> QED BY <2>1, <2>2
<1>7. ASSUME Calm(w) PROVE Calm(t)
  <2> SUFFICES ASSUME NEW i \in 1..Len(t), t[i][2] \notin built
               PROVE  t[i][1] \notin Writes
    BY DEF Calm
  <2>1. CASE i \in 1..n
    BY <1>2, <1>7, <2>1 DEF Calm, n
  <2>2. CASE i \notin 1..n
    <3>1. PICK k \in 1..m : i = n + k /\ t[i] = u[k]
      BY <1>4, <2>2
    <3> QED BY <3>1 DEF Calm, m
  <2> QED BY <2>1, <2>2
<1> QED BY <1>1, <1>5, <1>6, <1>7 DEF t

(* After a step that does not write a binary, only builds are written. *)
LEMMA CalmRest ==
    ASSUME NEW s \in Seq(StartStep), Ordered(s), s # <<>>, s[1][1] \notin {"empty", "fill"}
    PROVE  Calm(Tail(s))
<1>0. /\ Len(Tail(s)) = Len(s) - 1 /\ Len(s) \in Nat
      /\ \A i \in 1..Len(Tail(s)) : Tail(s)[i] = s[i + 1]
  OBVIOUS
<1> SUFFICES ASSUME NEW i \in 1..Len(Tail(s)), Tail(s)[i][2] \notin built,
                    Tail(s)[i][1] \in Writes
             PROVE  FALSE
  BY DEF Calm
<1> DEFINE k == i + 1
           a == s[k][2]
<1>1. k \in 1..Len(s) /\ s[k][2] \notin built /\ s[k][1] \in Writes /\ k # 1 /\ k - 1 \in 1..Len(s)
  BY <1>0
<1> HIDE DEF k
<1>2. ASSUME NEW l \in 1..Len(s), s[l][2] \notin built, s[l][1] = "fill", l # 1
      PROVE  FALSE
  <2>1. s[1] = Step("empty", s[l][2])
    BY <1>2 DEF Ordered
  <2> QED BY <2>1 DEF Step, Writes
<1>3. CASE s[k][1] = "empty"
  BY <1>1, <1>3 DEF Ordered
<1>4. CASE s[k][1] = "fill"
  BY <1>1, <1>2, <1>4
<1>5. CASE s[k][1] = "mark"
  <2>1. s[k - 1] = Step("fill", s[k][2])
    BY <1>1, <1>5 DEF Ordered
  <2> DEFINE l == k - 1
  <2>2. l \in 1..Len(s) /\ s[l] = Step("fill", s[k][2])
    BY <1>1, <2>1
  <2> HIDE DEF l
  <2>3. s[l][1] = "fill" /\ s[l][2] \notin built
    BY <1>1, <2>2 DEF Step
  <2>4. CASE l = 1
    BY <2>3, <2>4 DEF Writes
  <2>5. CASE l # 1
    BY <1>2, <2>2, <2>3, <2>5
  <2> QED BY <2>4, <2>5
<1> QED BY <1>1, <1>3, <1>4, <1>5 DEF Writes

(* The steps of a download. *)
LEMMA Downloads ==
    ASSUME NEW a \in Artifact, NEW ver
    PROVE  /\ DoWrite(a) \in Seq(StartStep) /\ Ordered(DoWrite(a)) /\ Asked(DoWrite(a), ver)
           /\ <<Step("mark", a)>> \in Seq(StartStep) /\ Ordered(<<Step("mark", a)>>)
           /\ Asked(<<Step("mark", a)>>, ver)
           /\ <<Step("empty", a), Step("fill", a)>> \in Seq(StartStep)
           /\ Ordered(<<Step("empty", a), Step("fill", a)>>)
           /\ Asked(<<Step("empty", a), Step("fill", a)>>, ver)
<1>1. /\ Step("empty", a) \in StartStep /\ Step("fill", a) \in StartStep /\ Step("mark", a) \in StartStep
      /\ Step("empty", a)[1] = "empty" /\ Step("fill", a)[1] = "fill" /\ Step("mark", a)[1] = "mark"
      /\ Step("empty", a)[2] = a /\ Step("fill", a)[2] = a /\ Step("mark", a)[2] = a
  BY DEF Step, StartStep
<1> DEFINE e == Step("empty", a)
           f == Step("fill", a)
           m == Step("mark", a)
           w == <<e, f, m>>
           u == <<m>>
           k == <<e, f>>
<1>2. /\ w \in Seq(StartStep) /\ Len(w) = 3 /\ w[1] = e /\ w[2] = f /\ w[3] = m
      /\ u \in Seq(StartStep) /\ Len(u) = 1 /\ u[1] = m
      /\ k \in Seq(StartStep) /\ Len(k) = 2 /\ k[1] = e /\ k[2] = f
  BY <1>1
<1>3. \A i \in 1..3 : i = 1 \/ i = 2 \/ i = 3
  OBVIOUS
<1> HIDE DEF w, u, k
<1>4. Ordered(w) /\ Asked(w, ver)
  BY <1>1, <1>2, <1>3 DEF Ordered, Asked
<1>5. Ordered(u) /\ Asked(u, ver)
  BY <1>1, <1>2, <1>3 DEF Ordered, Asked
<1>6. Ordered(k) /\ Asked(k, ver)
  <2>1. \A i \in 1..Len(k) : i = 1 \/ i = 2
    BY <1>2
  <2> QED BY <1>1, <1>2, <2>1 DEF Ordered, Asked
<1> QED BY <1>2, <1>4, <1>5, <1>6 DEF DoWrite, w, u, k

(* Copies of builds write nothing else. *)
LEMMA Copies ==
    ASSUME NEW a \in Artifact, a \in built, NEW ver
    PROVE  LET w == <<Step("dev", a)>> \o DoWrite(a) IN
           w \in Seq(StartStep) /\ Ordered(w) /\ Asked(w, ver) /\ Calm(w)
<1> DEFINE d == Step("dev", a)
           e == Step("empty", a)
           f == Step("fill", a)
           m == Step("mark", a)
           w == <<d>> \o <<e, f, m>>
<1>1. /\ d \in StartStep /\ e \in StartStep /\ f \in StartStep /\ m \in StartStep
      /\ d[1] = "dev" /\ e[1] = "empty" /\ f[1] = "fill" /\ m[1] = "mark"
      /\ d[2] = a /\ e[2] = a /\ f[2] = a /\ m[2] = a
  BY DEF Step, StartStep
<1>2. /\ w \in Seq(StartStep) /\ Len(w) = 4
      /\ w[1] = d /\ w[2] = e /\ w[3] = f /\ w[4] = m
  BY <1>1
<1>3. \A i \in 1..4 : i = 1 \/ i = 2 \/ i = 3 \/ i = 4
  OBVIOUS
<1> HIDE DEF w, d, e, f, m
<1>5. \A j \in (1 + 1)..(1 + 3) : w[j][1] \in Writes
  <2>1. \A j \in (1 + 1)..(1 + 3) : j = 2 \/ j = 3 \/ j = 4
    OBVIOUS
  <2> QED BY <1>1, <1>2, <2>1 DEF Writes
<1>6. \A i \in 1..Len(w) : w[i][2] = a /\ w[i][1] # "check"
  BY <1>1, <1>2, <1>3
<1>7. \A i \in 1..Len(w) : w[i][1] = "dev" => i = 1
  BY <1>1, <1>2, <1>3
<1>8. Ordered(w)
  BY <1>2, <1>5, <1>6, <1>7 DEF Ordered
<1> QED BY <1>2, <1>6, <1>8 DEF DoWrite, Calm, Asked, w, d, e, f, m

(* What a start has to do when it begins. *)
LEMMA Programs ==
    ASSUME built \subseteq Artifact, NEW t \in {DevStart, Ignite, Prepare}
    PROVE  t \in Seq(StartStep) /\ Ordered(t) /\ Asked(t, Absent) /\ Calm(t)
<1> DEFINE Fit(x) == x \in Seq(StartStep) /\ Ordered(x) /\ Asked(x, Absent) /\ Calm(x)
           e == IF "engine" \in built THEN <<Step("dev", "engine")>> \o DoWrite("engine") ELSE <<>>
           k == IF "kernel" \in built THEN <<Step("dev", "kernel")>> \o DoWrite("kernel") ELSE <<>>
           g == <<Step("registry", "all"), Step("check", "engine"),
                  Step("check", "kernel"), Step("driver", "driver")>>
           h == <<Step("driver", "driver"), Step("kernel", "kernel"), Step("find", "kernel")>>
<1>0. Fit(<<>>)
  BY DEF Ordered, Asked, Calm
<1>1. "engine" \in Artifact /\ "kernel" \in Artifact
  BY DEF Artifact
<1>2. Fit(e)
  BY <1>0, <1>1, Copies
<1>3. Fit(k)
  BY <1>0, <1>1, Copies
<1>4. Fit(g)
  <2>1. /\ g \in Seq(StartStep) /\ Len(g) = 4 /\ g[1][1] = "registry"
        /\ g[2] = <<"check", "engine">> /\ g[3] = <<"check", "kernel">> /\ g[4][1] = "driver"
    BY DEF Step, StartStep, Artifact
  <2>2. \A i \in 1..4 : i = 1 \/ i = 2 \/ i = 3 \/ i = 4
    OBVIOUS
  <2> HIDE DEF g
  <2>3. \A i \in 1..Len(g) : /\ g[i][1] \notin Writes \cup {"dev"}
                             /\ g[i][1] = "check" => g[i][2] \in {"engine", "kernel"} /\ 1 \in 1..(i - 1)
    BY <2>1, <2>2 DEF Writes
  <2> QED BY <2>1, <2>3 DEF Ordered, Asked, Calm, Writes
<1>5. Fit(h)
  <2>1. /\ h \in Seq(StartStep) /\ Len(h) = 3
        /\ h[1][1] = "driver" /\ h[2][1] = "kernel" /\ h[3][1] = "find"
    BY DEF Step, StartStep, Artifact
  <2>2. \A i \in 1..3 : i = 1 \/ i = 2 \/ i = 3
    OBVIOUS
  <2> HIDE DEF h
  <2>3. \A i \in 1..Len(h) : h[i][1] \notin Writes \cup {"dev", "check"}
    BY <2>1, <2>2 DEF Writes
  <2> QED BY <2>1, <2>3 DEF Ordered, Asked, Calm, Writes
<1>6. DevStart = e \o k /\ Ignite = (e \o k) \o g /\ Prepare = h
  BY DEF DevStart, Ignite, Prepare, DevSync
<1> HIDE DEF e, k, g, h
<1>7. Fit(e \o k)
  BY <1>2, <1>3, Joined
<1> DEFINE ek == e \o k
<1> HIDE DEF ek
<1>8. Fit(ek \o g)
  BY <1>4, <1>7, Joined DEF ek
<1> QED BY <1>5, <1>6, <1>7, <1>8 DEF ek

-----------------------------------------------------------------------------
(* Binaries: the steps *)

(* A record with other steps, another answer and another mark. *)
Leaves(t, v, g, m) == [todo |-> t, ver |-> v, got |-> g, mark |-> m]

(* Its fields. *)
LEMMA LeavesFields ==
    ASSUME NEW t, NEW v, NEW g, NEW m
    PROVE  LET x == Leaves(t, v, g, m) IN x.todo = t /\ x.ver = v /\ x.got = g /\ x.mark = m
  BY DEF Leaves

(* The old record but for these. *)
Turned(r, t, g, m) == [r EXCEPT !.todo = t, !.got = g, !.mark = m]
Onward(r, t) == [r EXCEPT !.todo = t]
Informed(r, t, v) == [r EXCEPT !.todo = t, !.ver = v]

(* It is what Take and Go leave. *)
LEMMA LeavesOthers ==
    ASSUME NEW r \in StartRecord, NEW t, NEW g, NEW m
    PROVE  /\ Turned(r, t, g, m) = Leaves(t, r.ver, g, m)
           /\ Onward(r, t) = Leaves(t, r.ver, r.got, r.mark)
           /\ Informed(r, t, g) = Leaves(t, g, r.got, r.mark)
<1>1. [r EXCEPT !.todo = t] = Leaves(t, r.ver, r.got, r.mark)
  BY DEF StartRecord, Leaves
<1> DEFINE G(z) == [z EXCEPT !.got = g]
           M(z) == [z EXCEPT !.mark = m]
           V(z) == [z EXCEPT !.ver = g]
           T(z) == [z EXCEPT !.todo = t]
<1>2. \A s, v, h, n :
        /\ G(Leaves(s, v, h, n)) = Leaves(s, v, g, n)
        /\ M(Leaves(s, v, h, n)) = Leaves(s, v, h, m)
        /\ V(Leaves(s, v, h, n)) = Leaves(s, g, h, n)
  BY DEF Leaves
<1>3. T(r) = Leaves(t, r.ver, r.got, r.mark)
  BY <1>1
<1> HIDE DEF G, M, V, T
<1>4. M(G(T(r))) = Leaves(t, r.ver, g, m) /\ V(T(r)) = Leaves(t, g, r.got, r.mark)
  BY <1>2, <1>3
<1>5. M(G(T(r))) = Turned(r, t, g, m)
  BY Zenon DEF G, M, T, Turned
<1>6. V(T(r)) = Informed(r, t, g) /\ T(r) = Onward(r, t)
  BY Zenon DEF V, T, Informed, Onward
<1> QED BY <1>3, <1>4, <1>5, <1>6

(* It is a record of a start, too. *)
LEMMA Rewritten ==
    ASSUME NEW t \in Seq(StartStep), NEW v \in Version \cup {Absent}, Ordered(t), Asked(t, v),
           NEW g \in Version \cup {Absent, Dev, ErrorPage}, NEW m \in Version \cup {Absent, Dev},
           m \in Version => m <= published, v \in Version => v <= published
    PROVE  Begins(Leaves(t, v, g, m))
<1> DEFINE x == Leaves(t, v, g, m)
<1>1. x \in StartRecord
  BY DEF StartRecord, Leaves
<1>2. x.todo = t /\ x.ver = v /\ x.got = g /\ x.mark = m
  BY LeavesFields
<1> HIDE DEF x
<1>3. Begins(x)
  BY <1>1, <1>2 DEF Begins
<1> QED BY <1>3 DEF x

(* A start that does nothing. *)
LEMMA NoBegin == Begins(NoStart) /\ NoStart.todo = <<>>
<1>1. NoStart \in StartRecord /\ NoStart.todo = <<>> /\ NoStart.ver = Absent /\ NoStart.mark = Absent
  BY DEF NoStart, StartRecord
<1> QED BY <1>1, NoVersion DEF Begins, Ordered, Asked

(* Where nothing but builds is written, what is marked does not matter. *)
LEMMA CalmSolo ==
    ASSUME NEW r, Calm(r.todo), NEW m, NEW b,
           r.ver # Absent =>
               \A a \in {"engine", "kernel"} \ built : m[a] \in Version => m[a] <= r.ver
    PROVE  Solo(r, m, b)
<1>1. ASSUME NEW i \in 1..Len(r.todo), NEW a \in Artifact \ built
      PROVE  r.todo[i] \notin {Step("empty", a), Step("fill", a), Step("mark", a)}
  BY DEF Calm, Writes, Step
<1> QED BY <1>1 DEF Solo

(* What is on disk is typed, and is what the newest marker says. *)
Fits(m, b) ==
    /\ b \in [Artifact -> Version \cup {Absent, Torn, Dev, ErrorPage}]
    /\ m \in [Artifact -> Version \cup {Absent, Dev}]
    /\ \A a \in Artifact : m[a] \in Version => m[a] <= published
    /\ ~crossed => \A a \in Artifact \ built : Newest(m[a]) => b[a] \in Right(a)

(* So it is, before a step. *)
LEMMA DiskFits == ASSUME ArtifactInv PROVE Fits(marker, bin)
  BY DEF ArtifactInv, ArtifactTypes, OneStart, Fits

(* One start takes a step, which changes its record to r: what is left to  *)
(* show is what the step writes.                                           *)
LEMMA Advance ==
    ASSUME ArtifactInv, NEW p \in Starters, Running(p), NEW r, Begins(r),
           start' = [start EXCEPT ![p] = r],
           UNCHANGED <<published, offered, built, crossed>>,
           Fits(marker', bin'), ~crossed => Solo(r, marker', bin')
    PROVE  ArtifactInv'
<1>1. start \in [Starters -> StartRecord] /\ r \in StartRecord /\ \A q \in Starters : Begins(start[q])
  BY DEF ArtifactInv, ArtifactTypes, Begins
<1>2. start' \in [Starters -> StartRecord] /\ start'[p] = r /\ \A q \in Starters : q # p => start'[q] = start[q]
  BY <1>1
<1>3. \A q \in Starters : Begins(start'[q])
  BY <1>1, <1>2
<1>4. \A q \in Starters : Begins(start[q])'
  <2> SUFFICES ASSUME NEW q \in Starters PROVE Begins(start[q])'
    OBVIOUS
  <2>1. Begins(start'[q])
    BY <1>3
  <2> QED BY <2>1 DEF Begins, Ordered, Asked
<1>5. ArtifactTypes'
  BY <1>2, <1>4 DEF ArtifactInv, ArtifactTypes, Fits
<1>6. ASSUME ~crossed PROVE OneStart'
  <2>0. OneStart /\ ~crossed'
    BY <1>6 DEF ArtifactInv
  <2>1. \A q \in Starters : start[q].todo # <<>> => q = p
    BY <2>0, <1>6 DEF OneStart, Running
  <2>2. \A q \in Starters : start'[q].todo # <<>> => q = p
    BY <2>1, <1>2
  <2>3. \A q \in Starters : Solo(start'[q], marker', bin')
    <3> SUFFICES ASSUME NEW q \in Starters PROVE Solo(start'[q], marker', bin')
      OBVIOUS
    <3>1. CASE q = p
      BY <3>1, <1>2, <1>6
    <3>2. CASE q # p
      BY <3>2, <2>2 DEF Solo
    <3> QED BY <3>1, <3>2
  <2>4. \A q \in Starters : Solo(start[q], marker, bin)'
    <3> SUFFICES ASSUME NEW q \in Starters PROVE Solo(start[q], marker, bin)'
      OBVIOUS
    <3>1. Solo(start'[q], marker', bin')
      BY <2>3
    <3> QED BY <3>1 DEF Solo, Newest, Right
  <2>5. (\A a \in Artifact \ built : Newest(marker[a]) => bin[a] \in Right(a))'
    BY <1>6 DEF Newest, Right, Fits
  <2>6. \A a, q \in Starters : Running(a)' /\ Running(q)' => a = q
    BY <2>2 DEF Running
  <2> QED BY <2>4, <2>5, <2>6 DEF OneStart
<1>7. OneStart'
  BY <1>6 DEF OneStart
<1> QED BY <1>5, <1>7 DEF ArtifactInv

(* What is known of the record of a start that takes a step. *)
LEMMA Stepping ==
    ASSUME ArtifactInv, NEW p \in Starters, Running(p)
    PROVE  LET s == start[p].todo IN
           /\ start[p] \in StartRecord /\ Begins(start[p])
           /\ s \in Seq(StartStep) /\ s # <<>> /\ Ordered(s) /\ Asked(s, start[p].ver)
           /\ s[1] = Head(s) /\ 1 \in 1..Len(s)
           /\ Rest(p) \in Seq(StartStep) /\ Ordered(Rest(p)) /\ Len(Rest(p)) = Len(s) - 1
           /\ \A i \in 1..Len(Rest(p)) : Rest(p)[i] = s[i + 1]
           /\ s[1][1] # "registry" => Asked(Rest(p), start[p].ver)
           /\ s[1][1] \notin {"empty", "fill"} => Calm(Rest(p))
           /\ start[p].ver \in Version => start[p].ver <= published
           /\ start[p].mark \in Version => start[p].mark <= published
<1> DEFINE s == start[p].todo
<1>1. start[p] \in StartRecord /\ Begins(start[p])
  BY DEF ArtifactInv, ArtifactTypes
<1>2. s \in Seq(StartStep) /\ s # <<>> /\ Ordered(s) /\ Asked(s, start[p].ver)
  BY <1>1 DEF Begins, StartRecord, Running
<1>3. /\ start[p].ver \in Version => start[p].ver <= published
      /\ start[p].mark \in Version => start[p].mark <= published
  BY <1>1 DEF Begins
<1>4. Rest(p) = Tail(s)
  BY DEF Rest
<1> HIDE DEF s
<1>5. s[1] = Head(s) /\ 1 \in 1..Len(s)
  BY <1>2
<1>6. /\ Tail(s) \in Seq(StartStep) /\ Ordered(Tail(s)) /\ Len(Tail(s)) = Len(s) - 1
      /\ \A i \in 1..Len(Tail(s)) : Tail(s)[i] = s[i + 1]
  BY <1>2, RestOrdered
<1>7. s[1][1] # "registry" => Asked(Tail(s), start[p].ver)
  BY <1>2, RestAsked
<1>8. s[1][1] \notin {"empty", "fill"} => Calm(Tail(s))
  BY <1>2, CalmRest
<1> QED BY <1>1, <1>2, <1>3, <1>4, <1>5, <1>6, <1>7, <1>8 DEF s

(* A start that ends. *)
LEMMA Ending ==
    ASSUME ArtifactInv, NEW p \in Starters, Running(p), start' = [start EXCEPT ![p] = NoStart],
           UNCHANGED <<published, offered, built, crossed, bin, marker>>
    PROVE  ArtifactInv'
<1>1. Begins(NoStart) /\ Solo(NoStart, marker', bin')
  BY NoBegin DEF Solo
<1> DEFINE r == NoStart
<1>2. Begins(r) /\ Solo(r, marker', bin') /\ start' = [start EXCEPT ![p] = r]
  BY <1>1
<1> HIDE DEF r
<1>3. Fits(marker', bin')
  BY DiskFits
<1> QED BY <1>2, <1>3, Advance

(* A start that goes on to the calm steps t, with another answer and mark. *)
LEMMA GoingOn ==
    ASSUME ArtifactInv, NEW p \in Starters, Running(p),
           NEW t \in Seq(StartStep), Ordered(t), Calm(t), Asked(t, start[p].ver),
           NEW g \in Version \cup {Absent, Dev, ErrorPage}, NEW m \in Version \cup {Absent, Dev},
           m \in Version => m <= published,
           start' = [start EXCEPT ![p] = Leaves(t, start[p].ver, g, m)],
           UNCHANGED <<published, offered, built, crossed, bin, marker>>
    PROVE  ArtifactInv'
<1> DEFINE v == start[p].ver
           r == Leaves(t, v, g, m)
<1>1. v \in Version \cup {Absent} /\ (v \in Version => v <= published) /\ Asked(t, v)
  BY Stepping DEF StartRecord
<1>3. start' = [start EXCEPT ![p] = r]
  OBVIOUS
<1>5. ~crossed => /\ start[p].todo # <<>> /\ Solo(start[p], marker, bin)
  BY DEF ArtifactInv, OneStart, Running
<1>6. ~crossed /\ v # Absent =>
          \A a \in {"engine", "kernel"} \ built : marker'[a] \in Version => marker'[a] <= v
  BY <1>5 DEF Solo
<1> HIDE DEF v
<1>2. Begins(r) /\ r.todo = t /\ r.ver = v
  BY <1>1, Rewritten, LeavesFields
<1> HIDE DEF r
<1>4. ~crossed => Solo(r, marker', bin')
  BY <1>2, <1>6, CalmSolo
<1>7. Fits(marker', bin')
  BY DiskFits
<1> QED BY <1>2, <1>3, <1>4, <1>7, Advance

(* The next step, where this one wrote nothing. *)
LEMMA Skipping ==
    ASSUME ArtifactInv, NEW p \in Starters, Running(p),
           NEW t \in Seq(StartStep), Ordered(t), Calm(t), Asked(t, start[p].ver),
           Go(p, t), UNCHANGED <<published, offered, built, crossed, bin, marker>>
    PROVE  ArtifactInv'
<1>1. CASE t = <<>>
  BY <1>1, Ending DEF Go, End
<1>2. CASE t # <<>>
  <2> DEFINE g == start[p].got
             m == start[p].mark
  <2>1. /\ start[p] \in StartRecord /\ g \in Version \cup {Absent, Dev, ErrorPage}
        /\ m \in Version \cup {Absent, Dev} /\ (m \in Version => m <= published)
    BY Stepping DEF StartRecord
  <2>2. Onward(start[p], t) = Leaves(t, start[p].ver, g, m)
    BY <2>1, LeavesOthers
  <2>3. start' = [start EXCEPT ![p] = Onward(start[p], t)]
    BY <1>2, Zenon DEF Go, Onward
  <2>4. start' = [start EXCEPT ![p] = Leaves(t, start[p].ver, g, m)]
    BY <2>2, <2>3
  <2> HIDE DEF g, m
  <2> QED BY <2>1, <2>4, GoingOn
<1> QED BY <1>1, <1>2

(* What Take leaves. *)
LEMMA Taken ==
    ASSUME ArtifactInv, NEW p \in Starters, NEW t, NEW g, NEW m, Take(p, g, m, t)
    PROVE  start' = [start EXCEPT ![p] = Leaves(t, start[p].ver, g, m)]
<1>1. start \in [Starters -> StartRecord]
  BY DEF ArtifactInv, ArtifactTypes
<1>2. Turned(start[p], t, g, m) = Leaves(t, start[p].ver, g, m)
  BY <1>1, LeavesOthers
<1>3. start' = [start EXCEPT ![p] = Turned(start[p], t, g, m)]
  BY <1>1, Zenon DEF Take, Turned
<1> QED BY <1>2, <1>3

(* A start puts the steps w of a download before what is left, where it    *)
(* may.                                                                    *)
Fetches(p, a, w, g, m) ==
    /\ Head(start[p].todo)[1] \notin {"registry", "empty", "fill"}
    /\ w \in {DoWrite(a), <<Step("mark", a)>>, <<Step("empty", a), Step("fill", a)>>}
    /\ Take(p, g, m, w \o Rest(p))
    /\ ~crossed /\ a \notin built =>
           /\ w # <<Step("mark", a)>> => ~Newest(marker[a])
           /\ w # <<Step("empty", a), Step("fill", a)>> =>
                 /\ a # "driver" => m = start[p].ver
                 /\ Newest(m) => (IF w = <<Step("mark", a)>> THEN bin[a] ELSE g) \in Right(a)

(* It keeps the invariant. *)
LEMMA Fetching ==
    ASSUME ArtifactInv, NEW p \in Starters, Running(p), NEW a \in Artifact, NEW w,
           NEW g \in Version \cup {Absent, Dev, ErrorPage}, NEW m \in Version \cup {Absent, Dev},
           m \in Version => m <= published, Fetches(p, a, w, g, m),
           UNCHANGED <<published, offered, built, crossed, bin, marker>>
    PROVE  ArtifactInv'
<1> DEFINE v == start[p].ver
           u == Rest(p)
           t == w \o u
           r == Leaves(t, v, g, m)
<1>1. /\ v \in Version \cup {Absent} /\ (v \in Version => v <= published)
      /\ u \in Seq(StartStep) /\ Ordered(u) /\ Calm(u) /\ Asked(u, v)
  BY Stepping DEF StartRecord, Fetches
<1>0. w \in {DoWrite(a), <<Step("mark", a)>>, <<Step("empty", a), Step("fill", a)>>}
  BY DEF Fetches
<1>2. w \in Seq(StartStep) /\ Ordered(w) /\ Asked(w, v)
  BY <1>0, Downloads
<1>3. start' = [start EXCEPT ![p] = r]
  BY Taken DEF Fetches
<1>5. ~crossed => /\ start[p].todo # <<>> /\ Solo(start[p], marker, bin)
  BY DEF ArtifactInv, OneStart, Running
<1>6. ~crossed /\ v # Absent =>
          \A b \in {"engine", "kernel"} \ built : marker'[b] \in Version => marker'[b] <= v
  BY <1>5 DEF Solo
<1>7. ~crossed /\ a \notin built =>
               /\ w # <<Step("mark", a)>> => ~Newest(marker'[a])
               /\ w # <<Step("empty", a), Step("fill", a)>> =>
                     /\ a # "driver" => m = v
                     /\ Newest(m) => (IF w = <<Step("mark", a)>> THEN bin'[a] ELSE g) \in Right(a)
  BY DEF Fetches
<1>8. /\ Len(w) \in Nat /\ Len(u) \in Nat /\ Len(t) = Len(w) + Len(u)
      /\ \A i \in 1..Len(w) : t[i] = w[i]
      /\ \A i \in 1..Len(t) : i > Len(w) => t[i] = u[i - Len(w)] /\ i - Len(w) \in 1..Len(u)
  BY <1>1, <1>2
<1> HIDE DEF v, u
<1>9. t \in Seq(StartStep) /\ Ordered(t) /\ Asked(t, v)
  BY <1>1, <1>2, Joined
<1> HIDE DEF t
<1>10. Begins(r) /\ r.todo = t /\ r.ver = v /\ r.mark = m /\ r.got = g
  BY <1>1, <1>9, Rewritten, LeavesFields
<1> HIDE DEF r
<1>11. ASSUME NEW i \in 1..Len(t), NEW b \in Artifact \ built,
              t[i] \in {Step("empty", b), Step("fill", b), Step("mark", b)}
       PROVE  i \in 1..Len(w) /\ t[i] = w[i] /\ a = b
  <2>1. CASE i > Len(w)
    <3> DEFINE k == i - Len(w)
    <3>1. t[i] = u[k] /\ k \in 1..Len(u)
      BY <1>8, <2>1
    <3> HIDE DEF k
    <3>2. t[i][2] \notin built /\ t[i][1] \in Writes
      BY <1>11 DEF Step, Writes
    <3> QED BY <1>1, <3>1, <3>2 DEF Calm
  <2>2. CASE ~(i > Len(w))
    <3>1. i \in 1..Len(w) /\ t[i] = w[i]
      BY <1>8, <2>2
    <3>2. w[i][2] = a
      <4>1. CASE w = DoWrite(a)
        <5>1. Len(w) = 3 /\ w[1] = Step("empty", a) /\ w[2] = Step("fill", a) /\ w[3] = Step("mark", a)
          BY <4>1 DEF DoWrite
        <5>2. i = 1 \/ i = 2 \/ i = 3
          BY <3>1, <5>1
        <5> QED BY <5>1, <5>2 DEF Step
      <4>2. CASE w = <<Step("mark", a)>>
        <5>1. Len(w) = 1 /\ w[1] = Step("mark", a)
          BY <4>2
        <5>2. i = 1
          BY <3>1, <5>1
        <5> QED BY <5>1, <5>2 DEF Step
      <4>3. CASE w = <<Step("empty", a), Step("fill", a)>>
        <5>1. Len(w) = 2 /\ w[1] = Step("empty", a) /\ w[2] = Step("fill", a)
          BY <4>3
        <5>2. i = 1 \/ i = 2
          BY <3>1, <5>1
        <5> QED BY <5>1, <5>2 DEF Step
      <4> QED BY <1>0, <4>1, <4>2, <4>3
    <3>3. t[i][2] = b
      BY <1>11 DEF Step
    <3> QED BY <3>1, <3>2, <3>3
  <2> QED BY <2>1, <2>2
<1>12. Step("empty", a)[1] = "empty" /\ Step("fill", a)[1] = "fill" /\ Step("mark", a)[1] = "mark"
  BY DEF Step
<1>13. ASSUME NEW i \in 1..Len(w)
       PROVE  /\ w = <<Step("mark", a)>> => i = 1 /\ w[i] = Step("mark", a)
              /\ w # <<Step("mark", a)>> /\ i = 1 => w[i] = Step("empty", a)
              /\ w = <<Step("empty", a), Step("fill", a)>> => w[i] # Step("mark", a)
  <2>1. CASE w = DoWrite(a)
    <3>1. Len(w) = 3 /\ w[1] = Step("empty", a)
      BY <2>1 DEF DoWrite
    <3>2. w # <<Step("mark", a)>> /\ w # <<Step("empty", a), Step("fill", a)>>
      <4>1. Len(<<Step("mark", a)>>) = 1 /\ Len(<<Step("empty", a), Step("fill", a)>>) = 2
        OBVIOUS
      <4> QED BY <3>1, <4>1
    <3> QED BY <3>1, <3>2
  <2>2. CASE w = <<Step("mark", a)>>
    <3>1. Len(w) = 1 /\ w[1] = Step("mark", a) /\ Len(<<Step("empty", a), Step("fill", a)>>) = 2
      BY <2>2
    <3>2. i = 1 /\ w # <<Step("empty", a), Step("fill", a)>>
      BY <3>1, <1>13
    <3> QED BY <3>1, <3>2, <2>2
  <2>3. CASE w = <<Step("empty", a), Step("fill", a)>>
    <3>1. Len(w) = 2 /\ w[1] = Step("empty", a) /\ w[2] = Step("fill", a) /\ Len(<<Step("mark", a)>>) = 1
      BY <2>3
    <3>2. i = 1 \/ i = 2
      BY <3>1, <1>13
    <3>3. w # <<Step("mark", a)>>
      BY <3>1
    <3> QED BY <1>12, <3>1, <3>2, <3>3
  <2> QED BY <1>0, <2>1, <2>2, <2>3
<1>14. ASSUME ~crossed, NEW i \in 1..Len(t), NEW b \in Artifact \ built
       PROVE  /\ t[i] \in {Step("empty", b), Step("fill", b)} => ~Newest(marker'[b])
              /\ t[i] = Step("mark", b) =>
                  /\ b # "driver" => m = v
                  /\ Newest(m) => (IF i = 1 THEN bin'[b] ELSE g) \in Right(b)
  <2>1. ASSUME t[i] \in {Step("empty", b), Step("fill", b)} PROVE ~Newest(marker'[b])
    <3>1. i \in 1..Len(w) /\ t[i] = w[i] /\ a = b
      BY <1>11, <2>1
    <3>2. w # <<Step("mark", a)>>
      BY <1>12, <1>13, <2>1, <3>1
    <3> QED BY <1>7, <1>14, <3>1, <3>2
  <2>2. ASSUME t[i] = Step("mark", b)
        PROVE  /\ b # "driver" => m = v
               /\ Newest(m) => (IF i = 1 THEN bin'[b] ELSE g) \in Right(b)
    <3>1. i \in 1..Len(w) /\ t[i] = w[i] /\ a = b
      BY <1>11, <2>2
    <3>2. w # <<Step("empty", a), Step("fill", a)>>
      BY <1>13, <2>2, <3>1
    <3>3. i = 1 <=> w = <<Step("mark", a)>>
      BY <1>12, <1>13, <2>2, <3>1
    <3> QED BY <1>7, <1>14, <3>1, <3>2, <3>3
  <2> QED BY <2>1, <2>2
<1>15. ~crossed => Solo(r, marker', bin')
  BY <1>6, <1>10, <1>14 DEF Solo
<1>16. Fits(marker', bin')
  BY DiskFits
<1>17. Begins(r) /\ UNCHANGED <<published, offered, built, crossed>>
  BY <1>10
<1> QED BY <1>3, <1>15, <1>16, <1>17, Advance

(* The registry is read, or is not there. *)
LEMMA RegistryStep ==
    ASSUME ArtifactInv, NEW p \in Starters, ReadRegistry(p)
    PROVE  ArtifactInv'
<1>1. Running(p) /\ Head(start[p].todo)[1] = "registry"
  BY DEF ReadRegistry, At
<1>2. UNCHANGED <<published, offered, built, crossed, bin, marker>>
  BY DEF ReadRegistry, Disk, World
<1>3. CASE End(p)
  BY <1>1, <1>2, <1>3, Ending DEF End
<1>4. CASE ~End(p)
  <2> DEFINE v == published
             t == Rest(p)
             g == start[p].got
             m == start[p].mark
             r == Leaves(t, v, g, m)
  <2>1. start[p] \in StartRecord /\ start \in [Starters -> StartRecord] /\ published \in Version
    BY <1>1, Stepping DEF ArtifactInv, ArtifactTypes
  <2>2. start' = [start EXCEPT ![p] = Informed(start[p], t, v)]
    BY <1>4, <2>1, Zenon DEF ReadRegistry, Informed
  <2>3. start' = [start EXCEPT ![p] = r]
    BY <2>1, <2>2, LeavesOthers
  <2>4. /\ g \in Version \cup {Absent, Dev, ErrorPage} /\ m \in Version \cup {Absent, Dev}
        /\ m \in Version => m <= published
        /\ v \in Version /\ v <= published /\ v # Absent
    BY <1>1, <2>1, Stepping, NoVersion DEF StartRecord
  <2>5. t \in Seq(StartStep) /\ Ordered(t) /\ Calm(t)
    BY <1>1, Stepping
  <2>6. ~crossed => \A a \in {"engine", "kernel"} \ built : marker'[a] \in Version => marker'[a] <= v
    BY <1>2 DEF ArtifactInv, ArtifactTypes, Artifact
  <2> HIDE DEF v, t, g, m
  <2>7. Asked(t, v)
    BY <2>4 DEF Asked
  <2>11. Begins(Leaves(t, v, g, m))
    BY <2>4, <2>5, <2>7, Rewritten
  <2>8. Begins(r) /\ r.todo = t /\ r.ver = v
    BY <2>11, LeavesFields
  <2> HIDE DEF r
  <2>9. ~crossed => Solo(r, marker', bin')
    BY <2>5, <2>6, <2>8, CalmSolo
  <2>10. Fits(marker', bin')
    BY <1>2, DiskFits
  <2> QED BY <1>1, <1>2, <2>3, <2>8, <2>9, <2>10, Advance
<1> QED BY <1>3, <1>4

(* What a start that is alone knows of the file it checks. *)
LEMMA Unmarked ==
    ASSUME ArtifactInv, ~crossed, NEW a \in Artifact \ built, a # "driver"
    PROVE  Missing(a) => ~Newest(marker[a])
  BY NoVersion DEF ArtifactInv, ArtifactTypes, OneStart, Newest, Right, Missing

(* The engine's, or the kernel's, version check. *)
LEMMA CheckStep ==
    ASSUME ArtifactInv, NEW p \in Starters, Check(p)
    PROVE  ArtifactInv'
<1> DEFINE a == Of(p)
           ver == start[p].ver
           w == DoWrite(a)
           u == <<Step("mark", a)>>
<1>1. Running(p) /\ Head(start[p].todo)[1] = "check"
  BY DEF Check, At
<1>2. UNCHANGED <<published, offered, built, crossed, bin, marker>>
  BY DEF Check, Disk, World
<1>3. /\ Rest(p) \in Seq(StartStep) /\ Ordered(Rest(p)) /\ Calm(Rest(p))
      /\ Asked(Rest(p), ver) /\ start[p] \in StartRecord
      /\ ver \in Version => ver <= published
  BY <1>1, Stepping
<1>4. a \in {"engine", "kernel"} /\ ver # Absent
  <2> DEFINE s == start[p].todo
  <2>1. Ordered(s) /\ Asked(s, ver) /\ s[1] = Head(s) /\ 1 \in 1..Len(s)
    BY <1>1, Stepping
  <2>2. s[1][1] = "check"
    BY <1>1, <2>1
  <2>3. a = s[1][2]
    BY <2>1 DEF Of
  <2> HIDE DEF s, a
  <2>4. a \in {"engine", "kernel"}
    BY <2>1, <2>2, <2>3 DEF Ordered
  <2>5. ver # Absent \/ \E j \in 1..(1 - 1) : s[j][1] = "registry"
    BY <2>1, <2>2 DEF Asked
  <2> QED BY <2>4, <2>5
<1>5. ver \in Version /\ published \in Version /\ a \in Artifact /\ a # "driver"
  BY <1>3, <1>4 DEF StartRecord, ArtifactInv, ArtifactTypes, Artifact
<1>6. ~crossed /\ a \notin built => /\ marker[a] \in Version => marker[a] <= ver
                                    /\ Missing(a) => ~Newest(marker[a])
  <2>1. ~crossed => Solo(start[p], marker, bin) /\ start[p].todo # <<>>
    BY <1>1 DEF ArtifactInv, OneStart, Running
  <2> HIDE DEF a, ver
  <2>2. ~crossed /\ a \notin built => (marker[a] \in Version => marker[a] <= ver)
    BY <1>4, <2>1 DEF Solo, ver
  <2> QED BY <1>5, <2>2, Unmarked
<1>7. ~crossed /\ a \notin built /\ Stale(p, a) => ~Newest(marker[a])
  <2> SUFFICES ASSUME ~crossed, a \notin built, Stale(p, a), Newest(marker[a]) PROVE FALSE
    OBVIOUS
  <2>1. marker[a] = published /\ marker[a] # ver /\ ver <= published /\ published <= ver
    BY <1>3, <1>5, <1>6 DEF Stale, Newest
  <2> QED BY <1>5, <2>1, NoVersion
<1>8. CASE Go(p, Rest(p))
  BY <1>1, <1>2, <1>3, <1>8, Skipping
<1>9. CASE End(p)
  BY <1>1, <1>2, <1>9, Ending DEF End
<1>10. CASE Stale(p, a) /\ offered[published] /\ Take(p, published, ver, w \o Rest(p))
  <2>1. Newest(ver) => published \in Right(a)
    BY DEF Right
  <2>2. w # u
    <3>1. Len(w) = 3 /\ Len(u) = 1
      BY DEF DoWrite
    <3> QED BY <3>1
  <2>3. Fetches(p, a, w, published, ver)
    BY <1>1, <1>7, <1>10, <2>1, <2>2 DEF Fetches
  <2> HIDE DEF a, ver, w
  <2> QED BY <1>1, <1>2, <1>3, <1>5, <2>3, Fetching
<1>11. CASE Stale(p, a) /\ ~offered[published] /\ Take(p, Absent, ver, u \o Rest(p))
  <2>1. ~Newest(ver)
    BY <1>11 DEF Newest
  <2>2. Fetches(p, a, u, Absent, ver)
    BY <1>1, <1>7, <1>11, <2>1 DEF Fetches
  <2> HIDE DEF a, ver, u
  <2> QED BY <1>1, <1>2, <1>3, <1>5, <2>2, Fetching
<1>12. \/ Go(p, Rest(p)) \/ End(p)
       \/ Stale(p, a) /\ offered[published] /\ Take(p, published, ver, w \o Rest(p))
       \/ Stale(p, a) /\ ~offered[published] /\ Take(p, Absent, ver, u \o Rest(p))
  BY DEF Check
<1> QED BY <1>8, <1>9, <1>10, <1>11, <1>12

(* The driver, of which the marker decides alone. *)
LEMMA DriverStep ==
    ASSUME ArtifactInv, NEW p \in Starters, Driver(p)
    PROVE  ArtifactInv'
<1> DEFINE a == "driver"
           ver == published
           w == DoWrite(a)
<1>1. Running(p) /\ Head(start[p].todo)[1] = "driver"
  BY DEF Driver, At
<1>2. UNCHANGED <<published, offered, built, crossed, bin, marker>>
  BY DEF Driver, Disk, World
<1>3. /\ Rest(p) \in Seq(StartStep) /\ Ordered(Rest(p)) /\ Calm(Rest(p))
      /\ Asked(Rest(p), start[p].ver)
  BY <1>1, Stepping
<1>4. published \in Version /\ a \in Artifact /\ published <= published
  BY NoVersion DEF ArtifactInv, ArtifactTypes, Artifact
<1>8. CASE Go(p, Rest(p))
  BY <1>1, <1>2, <1>3, <1>8, Skipping
<1>10. ASSUME marker["driver"] # published, NEW got \in {published, ErrorPage},
              Take(p, got, ver, w \o Rest(p))
       PROVE  ArtifactInv'
  <2>1. got \in Right(a) /\ ~Newest(marker[a])
    BY <1>10 DEF Right, Newest
  <2>2. w # <<Step("mark", a)>>
    <3>1. Len(w) = 3 /\ Len(<<Step("mark", a)>>) = 1
      BY DEF DoWrite
    <3> QED BY <3>1
  <2>3. Fetches(p, a, w, got, ver)
    BY <1>1, <1>10, <2>1, <2>2 DEF Fetches
  <2>4. got \in Version \cup {Absent, Dev, ErrorPage} /\ ver \in Version \cup {Absent, Dev} /\ ver <= published
    BY <1>4
  <2> HIDE DEF a, ver, w
  <2> QED BY <1>1, <1>2, <1>4, <2>3, <2>4, Fetching
<1> QED BY <1>8, <1>10 DEF Driver

(* A kernel that is nowhere. *)
LEMMA KernelStep ==
    ASSUME ArtifactInv, NEW p \in Starters, Kernel(p)
    PROVE  ArtifactInv'
<1> DEFINE a == "kernel"
           w == <<Step("empty", a), Step("fill", a)>>
<1>1. Running(p) /\ Head(start[p].todo)[1] = "kernel"
  BY DEF Kernel, At
<1>2. UNCHANGED <<published, offered, built, crossed, bin, marker>>
  BY DEF Kernel, Disk, World
<1>3. /\ Rest(p) \in Seq(StartStep) /\ Ordered(Rest(p)) /\ Calm(Rest(p))
      /\ Asked(Rest(p), start[p].ver)
  BY <1>1, Stepping
<1>4. published \in Version /\ a \in Artifact /\ Absent \notin Version
  BY NoVersion DEF ArtifactInv, ArtifactTypes, Artifact
<1>8. CASE Go(p, Rest(p))
  BY <1>1, <1>2, <1>3, <1>8, Skipping
<1>10. ASSUME Missing("kernel"), "kernel" \notin built, NEW got \in {published, ErrorPage},
              Take(p, got, Absent, w \o Rest(p))
       PROVE  ArtifactInv'
  <2>1. ~crossed => ~Newest(marker[a])
    BY <1>4, <1>10, Unmarked
  <2>2. Fetches(p, a, w, got, Absent)
    BY <1>1, <1>10, <2>1 DEF Fetches
  <2>4. got \in Version \cup {Absent, Dev, ErrorPage}
    BY <1>4
  <2> HIDE DEF a, w
  <2> QED BY <1>1, <1>2, <1>4, <2>2, <2>4, Fetching
<1> QED BY <1>8, <1>10 DEF Kernel

(* A build is copied, or the file is in use. *)
LEMMA CopyStep ==
    ASSUME ArtifactInv, NEW p \in Starters, Copy(p)
    PROVE  ArtifactInv'
<1> DEFINE s == start[p].todo
           t == Rest(p)
<1>1. Running(p) /\ Head(s)[1] = "dev"
  BY DEF Copy, At
<1>2. UNCHANGED <<published, offered, built, crossed, bin, marker>>
  BY DEF Copy, Disk, World
<1>3. /\ t \in Seq(StartStep) /\ Ordered(t) /\ Calm(t) /\ Asked(t, start[p].ver)
      /\ Len(t) = Len(s) - 1 /\ Len(s) \in Nat /\ 1 \in 1..Len(s) /\ s[1] = Head(s) /\ Ordered(s)
      /\ \A i \in 1..Len(t) : t[i] = s[i + 1]
  BY <1>1, Stepping
<1>4. CASE Take(p, Dev, Dev, t)
  <2>1. start' = [start EXCEPT ![p] = Leaves(t, start[p].ver, Dev, Dev)]
    BY <1>4, Taken
  <2>2. Dev \in Version => Dev <= published
    BY NoVersion
  <2> HIDE DEF t
  <2> QED BY <1>1, <1>2, <1>3, <2>1, <2>2, GoingOn
<1>5. CASE Go(p, SubSeq(t, 4, Len(t)))
  <2>1. 1 + 3 <= Len(s) /\ \A j \in (1 + 1)..(1 + 3) : s[j][1] \in Writes
    BY <1>1, <1>3 DEF Ordered
  <2>2. Len(t) >= 3 /\ \A i \in 1..3 : t[i][1] # "registry"
    <3>1. Len(t) = Len(s) - 1 /\ Len(s) \in Nat /\ \A i \in 1..Len(t) : t[i] = s[i + 1]
      BY <1>3
    <3> HIDE DEF t, s
    <3>2. Len(t) >= 3
      BY <2>1, <3>1
    <3>3. ASSUME NEW i \in 1..3 PROVE t[i][1] # "registry"
      <4> DEFINE k == i + 1
      <4>1. k \in (1 + 1)..(1 + 3) /\ i \in 1..Len(t)
        BY <3>1, <3>2
      <4>2. t[i] = s[k]
        BY <3>1, <4>1
      <4> HIDE DEF k
      <4>3. t[i][1] \in Writes
        BY <2>1, <4>1, <4>2
      <4> QED BY <4>3 DEF Writes
    <3> QED BY <3>2, <3>3
  <2> DEFINE t1 == Tail(t)
             t2 == Tail(t1)
             t3 == Tail(t2)
             v == start[p].ver
  <2> HIDE DEF t, s, v
  <2>3. t # <<>> /\ t[1][1] # "registry"
    BY <1>3, <2>2
  <2>4. t1 \in Seq(StartStep) /\ Ordered(t1) /\ Len(t1) = Len(t) - 1 /\ \A i \in 1..Len(t1) : t1[i] = t[i + 1]
    BY <1>3, <2>3, RestOrdered
  <2>5. Asked(t1, v)
    BY <1>3, <2>3, RestAsked DEF v
  <2> HIDE DEF t1
  <2>6. t1 # <<>> /\ t1[1][1] # "registry" /\ Len(t1) >= 2 /\ t1[1] = t[2] /\ Len(t1) \in Nat
    BY <2>2, <2>4, <1>3
  <2>7. t2 \in Seq(StartStep) /\ Ordered(t2) /\ Len(t2) = Len(t1) - 1 /\ \A i \in 1..Len(t2) : t2[i] = t1[i + 1]
    BY <2>4, <2>6, RestOrdered
  <2>8. Asked(t2, v)
    BY <2>4, <2>5, <2>6, RestAsked
  <2> HIDE DEF t2
  <2>9. t2 # <<>> /\ t2[1] = t[3] /\ Len(t2) >= 1 /\ Len(t2) \in Nat
    <3>1. 2 \in 1..Len(t1) /\ 1 \in 1..Len(t2)
      BY <2>6, <2>7
    <3>2. t2[1] = t1[2] /\ t1[2] = t[3]
      BY <2>4, <2>7, <3>1
    <3> QED BY <2>7, <3>1, <3>2
  <2>10. t2[1][1] # "registry"
    BY <2>2, <2>9
  <2>11. t3 \in Seq(StartStep) /\ Ordered(t3) /\ Len(t3) = Len(t2) - 1 /\ \A i \in 1..Len(t3) : t3[i] = t2[i + 1]
    BY <2>7, <2>9, RestOrdered
  <2>12. Asked(t3, v)
    BY <2>7, <2>8, <2>9, <2>10, RestAsked
  <2> HIDE DEF t3
  <2>13. Len(t3) = Len(t) - 3 /\ Len(t3) \in Nat /\ \A i \in 1..Len(t3) : t3[i] = t[i + 3]
    <3>1. Len(t3) = Len(t) - 3 /\ Len(t3) \in Nat
      BY <1>3, <2>4, <2>7, <2>11
    <3>2. ASSUME NEW i \in 1..Len(t3) PROVE t3[i] = t[i + 3]
      <4>1. i + 1 \in 1..Len(t2) /\ i + 2 \in 1..Len(t1) /\ i \in Nat
        BY <3>1, <3>2, <2>4, <2>7, <2>11
      <4> DEFINE j == i + 1
                 k == i + 2
      <4>2. j \in 1..Len(t2) /\ k \in 1..Len(t1) /\ j + 1 = k /\ k + 1 = i + 3
        BY <4>1
      <4>3. t3[i] = t2[j]
        BY <2>11, <3>2
      <4> HIDE DEF j, k
      <4>4. t2[j] = t1[k] /\ t1[k] = t[k + 1]
        BY <2>4, <2>7, <4>2
      <4> QED BY <4>2, <4>3, <4>4
    <3> QED BY <3>1, <3>2
  <2>14. Calm(t3)
    <3> SUFFICES ASSUME NEW i \in 1..Len(t3), t3[i][2] \notin built PROVE t3[i][1] \notin Writes
      BY DEF Calm
    <3> DEFINE j == i + 3
    <3>1. j \in 1..Len(t) /\ t3[i] = t[j]
      BY <1>3, <2>13
    <3> HIDE DEF j
    <3> QED BY <1>3, <3>1 DEF Calm
  <2>15. SubSeq(t, 4, Len(t)) = t3
    <3> DEFINE x == SubSeq(t, 4, Len(t))
    <3>1. x \in Seq(StartStep) /\ Len(x) = Len(t) - 3 /\ \A i \in 1..Len(x) : x[i] = t[i + 3]
      BY <1>3, <2>2
    <3> HIDE DEF x
    <3>2. Len(x) = Len(t3) /\ \A i \in 1..Len(x) : x[i] = t3[i]
      BY <2>13, <3>1
    <3>3. x = t3
      BY <2>11, <3>1, <3>2
    <3> QED BY <3>3 DEF x
  <2>16. Go(p, t3)
    BY <1>5, <2>15
  <2> QED BY <1>1, <1>2, <2>11, <2>12, <2>14, <2>16, Skipping DEF v
<1> QED BY <1>4, <1>5 DEF Copy

(* A record that goes on, or ends. *)
LEMMA GoLeaves ==
    ASSUME ArtifactInv, NEW p \in Starters, Running(p), Go(p, Rest(p)),
           Head(start[p].todo)[1] # "registry"
    PROVE  \E r : /\ Begins(r) /\ start' = [start EXCEPT ![p] = r]
                  /\ \/ r.todo = <<>>
                     \/ r = Leaves(Rest(p), start[p].ver, start[p].got, start[p].mark)
<1>1. CASE Rest(p) = <<>>
  <2>1. start' = [start EXCEPT ![p] = NoStart]
    BY <1>1 DEF Go, End
  <2> QED BY <2>1, NoBegin
<1>2. CASE Rest(p) # <<>>
  <2> DEFINE t == Rest(p)
             v == start[p].ver
             g == start[p].got
             m == start[p].mark
  <2>1. start' = [start EXCEPT ![p] = Onward(start[p], t)]
    BY <1>2, Zenon DEF Go, Onward
  <2>2. start[p] \in StartRecord
    BY Stepping
  <2>3. start' = [start EXCEPT ![p] = Leaves(t, v, g, m)]
    BY <2>1, <2>2, LeavesOthers
  <2>4. v \in Version \cup {Absent} /\ g \in Version \cup {Absent, Dev, ErrorPage} /\ m \in Version \cup {Absent, Dev}
    BY <2>2 DEF StartRecord
  <2>5. (m \in Version => m <= published) /\ (v \in Version => v <= published)
    BY Stepping
  <2>6. t \in Seq(StartStep) /\ Ordered(t) /\ Asked(t, v)
    BY Stepping
  <2> HIDE DEF t, v, g, m
  <2>7. Begins(Leaves(t, v, g, m))
    BY <2>4, <2>5, <2>6, Rewritten
  <2> QED BY <2>3, <2>7 DEF t, v, g, m
<1> QED BY <1>1, <1>2

(* What is still to be written of a binary that is not built, after the    *)
(* first step, is a mark of what is filled.                                *)
LEMMA StillToWrite ==
    ASSUME ArtifactInv, NEW p \in Starters, Running(p), NEW i \in 1..Len(Rest(p)),
           NEW b \in Artifact \ built
    PROVE  LET s == start[p].todo IN
           /\ Rest(p)[i] # Step("empty", b)
           /\ Rest(p)[i] = Step("fill", b) => i = 1 /\ s[1] = Step("empty", b)
           /\ Rest(p)[i] = Step("mark", b) =>
                \/ i = 1 /\ s[1] = Step("fill", b)
                \/ i = 2 /\ s[1] = Step("empty", b)
<1> DEFINE s == start[p].todo
           t == Rest(p)
           k == i + 1
<1>1. /\ s \in Seq(StartStep) /\ Ordered(s) /\ Len(t) = Len(s) - 1 /\ Len(s) \in Nat
      /\ \A j \in 1..Len(t) : t[j] = s[j + 1]
  BY Stepping
<1>2. k \in 1..Len(s) /\ t[i] = s[k] /\ k # 1 /\ i = k - 1
  BY <1>1
<1>3. \A w : Step(w, b)[1] = w /\ Step(w, b)[2] = b
  BY DEF Step
<1> HIDE DEF s, t, k
<1>4. s[k] # Step("empty", b)
  BY <1>1, <1>2, <1>3 DEF Ordered
<1>5. ASSUME NEW l \in 1..Len(s), s[l] = Step("fill", b), l # 1
      PROVE  l = 2 /\ s[1] = Step("empty", b)
  BY <1>1, <1>3, <1>5 DEF Ordered
<1>6. s[k] = Step("mark", b) => s[i] = Step("fill", b) /\ i \in 1..Len(s)
  <2> SUFFICES ASSUME s[k] = Step("mark", b) PROVE s[i] = Step("fill", b) /\ i \in 1..Len(s)
    OBVIOUS
  <2>1. s[k - 1] = Step("fill", b)
    BY <1>1, <1>2, <1>3 DEF Ordered
  <2> QED BY <1>1, <1>2, <2>1
<1>7. t[i] = Step("fill", b) => i = 1 /\ s[1] = Step("empty", b)
  BY <1>2, <1>5
<1>8. t[i] = Step("mark", b) => (i = 1 /\ s[1] = Step("fill", b)) \/ (i = 2 /\ s[1] = Step("empty", b))
  BY <1>2, <1>5, <1>6
<1> QED BY <1>2, <1>4, <1>7, <1>8 DEF s, t

(* The file is emptied. *)
LEMMA EmptyStep ==
    ASSUME ArtifactInv, NEW p \in Starters, Empty(p)
    PROVE  ArtifactInv'
<1> DEFINE s == start[p].todo
           t == Rest(p)
           c == Of(p)
<1>1. Running(p) /\ Head(s)[1] = "empty" /\ Go(p, t) /\ bin' = [bin EXCEPT ![c] = Torn]
  BY DEF Empty, At
<1>2. UNCHANGED <<published, offered, built, crossed, marker>>
  BY DEF Empty, World
<1>3. s \in Seq(StartStep) /\ s[1] = Head(s) /\ 1 \in 1..Len(s)
  BY <1>1, Stepping
<1>4. s[1] = Step("empty", c)
  BY <1>1, <1>3 DEF StartStep, Step, Of
<1>5. ~crossed => Solo(start[p], marker, bin) /\ s # <<>>
  BY <1>1 DEF ArtifactInv, OneStart, Running
<1>6. ~crossed /\ c \in Artifact \ built => ~Newest(marker[c])
  BY <1>3, <1>4, <1>5 DEF Solo
<1>7. bin \in [Artifact -> Version \cup {Absent, Torn, Dev, ErrorPage}] /\ Fits(marker, bin)
  BY DiskFits DEF Fits
<1>8. Fits(marker', bin')
  BY <1>1, <1>2, <1>6, <1>7 DEF Fits
<1>9. PICK r : /\ Begins(r) /\ start' = [start EXCEPT ![p] = r]
               /\ r.todo = <<>> \/ r = Leaves(t, start[p].ver, start[p].got, start[p].mark)
  BY <1>1, GoLeaves
<1>10. ~crossed => Solo(r, marker', bin')
  <2> SUFFICES ASSUME ~crossed PROVE Solo(r, marker', bin')
    OBVIOUS
  <2>1. CASE r.todo = <<>>
    BY <2>1 DEF Solo
  <2>2. CASE r.todo # <<>>
    <3>1. r.todo = t /\ r.ver = start[p].ver /\ r.got = start[p].got /\ r.mark = start[p].mark
      BY <1>9, <2>2, LeavesFields
    <3>2. r.ver # Absent =>
            \A a \in {"engine", "kernel"} \ built : marker'[a] \in Version => marker'[a] <= r.ver
      BY <1>2, <1>5, <3>1 DEF Solo
    <3>3. ASSUME NEW i \in 1..Len(t), NEW a \in Artifact \ built
          PROVE  /\ t[i] \in {Step("empty", a), Step("fill", a)} => ~Newest(marker'[a])
                 /\ t[i] = Step("mark", a) =>
                     /\ a # "driver" => r.mark = r.ver
                     /\ Newest(r.mark) => (IF i = 1 THEN bin'[a] ELSE r.got) \in Right(a)
      <4>1. t[i] \in {Step("empty", a), Step("fill", a)} => ~Newest(marker'[a])
        <5> SUFFICES ASSUME t[i] \in {Step("empty", a), Step("fill", a)} PROVE ~Newest(marker'[a])
          OBVIOUS
        <5>1. s[1] = Step("empty", a)
          BY <1>1, <3>3, StillToWrite
        <5> QED BY <1>2, <1>3, <1>5, <5>1 DEF Solo
      <4>2. t[i] = Step("mark", a) => i = 2 /\ s[1] = Step("empty", a)
        <5>1. s[1] # Step("fill", a)
          BY <1>4 DEF Step
        <5> QED BY <1>1, <3>3, <5>1, StillToWrite
      <4>3. ASSUME t[i] = Step("mark", a)
            PROVE  /\ a # "driver" => r.mark = r.ver
                   /\ Newest(r.mark) => r.got \in Right(a)
        <5> DEFINE k == i + 1
        <5>1. k \in 1..Len(s) /\ s[k] = Step("mark", a) /\ k # 1
          BY <1>1, <3>3, <4>3, Stepping
        <5> HIDE DEF k, s, t
        <5> QED BY <1>5, <3>1, <5>1 DEF Solo, s
      <4> QED BY <4>1, <4>2, <4>3
    <3> HIDE DEF t
    <3> QED BY <3>1, <3>2, <3>3 DEF Solo
  <2> QED BY <2>1, <2>2
<1> QED BY <1>1, <1>2, <1>8, <1>9, <1>10, Advance

(* It is filled. *)
LEMMA FillStep ==
    ASSUME ArtifactInv, NEW p \in Starters, Fill(p)
    PROVE  ArtifactInv'
<1> DEFINE s == start[p].todo
           t == Rest(p)
           c == Of(p)
<1>1. Running(p) /\ Head(s)[1] = "fill" /\ Go(p, t) /\ bin' = [bin EXCEPT ![c] = start[p].got]
  BY DEF Fill, At
<1>2. UNCHANGED <<published, offered, built, crossed, marker>>
  BY DEF Fill, World
<1>3. s \in Seq(StartStep) /\ s[1] = Head(s) /\ 1 \in 1..Len(s) /\ start[p] \in StartRecord
  BY <1>1, Stepping
<1>4. s[1] = Step("fill", c)
  BY <1>1, <1>3 DEF StartStep, Step, Of
<1>5. ~crossed => Solo(start[p], marker, bin) /\ s # <<>>
  BY <1>1 DEF ArtifactInv, OneStart, Running
<1>6. ~crossed /\ c \in Artifact \ built => ~Newest(marker[c])
  BY <1>3, <1>4, <1>5 DEF Solo
<1>7. bin \in [Artifact -> Version \cup {Absent, Torn, Dev, ErrorPage}] /\ Fits(marker, bin)
  BY DiskFits DEF Fits
<1>g. start[p].got \in Version \cup {Absent, Torn, Dev, ErrorPage}
  BY <1>3 DEF StartRecord
<1>8. Fits(marker', bin')
  BY <1>1, <1>2, <1>6, <1>7, <1>g DEF Fits
<1>9. PICK r : /\ Begins(r) /\ start' = [start EXCEPT ![p] = r]
               /\ r.todo = <<>> \/ r = Leaves(t, start[p].ver, start[p].got, start[p].mark)
  BY <1>1, GoLeaves
<1>10. ~crossed => Solo(r, marker', bin')
  <2> SUFFICES ASSUME ~crossed PROVE Solo(r, marker', bin')
    OBVIOUS
  <2>1. CASE r.todo = <<>>
    BY <2>1 DEF Solo
  <2>2. CASE r.todo # <<>>
    <3>1. r.todo = t /\ r.ver = start[p].ver /\ r.got = start[p].got /\ r.mark = start[p].mark
      BY <1>9, <2>2, LeavesFields
    <3>2. r.ver # Absent =>
            \A a \in {"engine", "kernel"} \ built : marker'[a] \in Version => marker'[a] <= r.ver
      BY <1>2, <1>5, <3>1 DEF Solo
    <3>3. ASSUME NEW i \in 1..Len(t), NEW a \in Artifact \ built
          PROVE  /\ t[i] \notin {Step("empty", a), Step("fill", a)}
                 /\ t[i] = Step("mark", a) =>
                     /\ a # "driver" => r.mark = r.ver
                     /\ Newest(r.mark) => (IF i = 1 THEN bin'[a] ELSE r.got) \in Right(a)
      <4>0. s[1] # Step("empty", a) /\ (s[1] = Step("fill", a) => c = a)
        BY <1>4 DEF Step
      <4>1. t[i] \notin {Step("empty", a), Step("fill", a)}
        BY <1>1, <3>3, <4>0, StillToWrite
      <4>2. t[i] = Step("mark", a) => i = 1 /\ c = a
        BY <1>1, <3>3, <4>0, StillToWrite
      <4>3. ASSUME t[i] = Step("mark", a)
            PROVE  /\ a # "driver" => r.mark = r.ver
                   /\ Newest(r.mark) => bin'[a] \in Right(a)
        <5> DEFINE k == i + 1
        <5>1. k \in 1..Len(s) /\ s[k] = Step("mark", a) /\ k # 1
          BY <1>1, <3>3, <4>3, Stepping
        <5> HIDE DEF k
        <5>2. bin'[a] = r.got
          BY <1>1, <1>7, <3>1, <4>2, <4>3
        <5> HIDE DEF s, t, c
        <5>3. /\ a # "driver" => r.mark = r.ver
              /\ Newest(r.mark) => r.got \in Right(a)
          BY <1>5, <3>1, <5>1 DEF Solo, s
        <5> QED BY <5>2, <5>3
      <4> QED BY <4>1, <4>2, <4>3
    <3> HIDE DEF t
    <3> QED BY <3>1, <3>2, <3>3 DEF Solo
  <2> QED BY <2>1, <2>2
<1> QED BY <1>1, <1>2, <1>8, <1>9, <1>10, Advance

(* The disk is full: no mark is written. *)
LEMMA FillFailsStep ==
    ASSUME ArtifactInv, NEW p \in Starters, FillFails(p)
    PROVE  ArtifactInv'
<1> DEFINE s == start[p].todo
           t == Rest(p)
           v == start[p].ver
           x == IF t # <<>> /\ Head(t)[1] = "mark" THEN Tail(t) ELSE t
<1>1. Running(p) /\ Head(s)[1] = "fill" /\ Go(p, x)
  BY DEF FillFails, At
<1>2. UNCHANGED <<published, offered, built, crossed, bin, marker>>
  BY DEF FillFails, Disk, World
<1>3. /\ t \in Seq(StartStep) /\ Ordered(t) /\ Asked(t, v) /\ s[1] = Head(s)
      /\ s \in Seq(StartStep) /\ Ordered(s) /\ Len(t) = Len(s) - 1 /\ Len(s) \in Nat /\ 1 \in 1..Len(s)
      /\ \A i \in 1..Len(t) : t[i] = s[i + 1]
  BY <1>1, Stepping
<1> HIDE DEF s, t, v
<1>4. ASSUME NEW i \in 1..Len(t), t[i][2] \notin built, t[i][1] \in Writes
      PROVE  i = 1 /\ t[i][1] = "mark"
  <2> DEFINE k == i + 1
  <2>1. k \in 1..Len(s) /\ s[k] = t[i] /\ k # 1 /\ i = k - 1 /\ i \in 1..Len(s)
    BY <1>3
  <2> HIDE DEF k
  <2>2. ASSUME NEW l \in 1..Len(s), s[l][2] \notin built, s[l][1] = "fill", l # 1 PROVE FALSE
    <3>1. s[1] = Step("empty", s[l][2])
      BY <1>3, <2>2 DEF Ordered
    <3> QED BY <1>1, <1>3, <3>1 DEF Step
  <2>3. t[i][1] # "empty"
    BY <1>3, <1>4, <2>1 DEF Ordered
  <2>4. t[i][1] # "fill"
    BY <1>4, <2>1, <2>2
  <2>5. CASE t[i][1] = "mark"
    <3>1. s[k - 1] = Step("fill", s[k][2])
      BY <1>3, <1>4, <2>1, <2>5 DEF Ordered
    <3>2. s[i][1] = "fill" /\ s[i][2] \notin built
      BY <1>4, <2>1, <3>1 DEF Step
    <3> QED BY <2>1, <2>2, <2>5, <3>2
  <2> QED BY <1>4, <2>3, <2>4, <2>5 DEF Writes
<1>5. CASE t # <<>> /\ Head(t)[1] = "mark"
  <2> DEFINE u == Tail(t)
  <2>1. t[1][1] = "mark"
    BY <1>3, <1>5
  <2>2. u \in Seq(StartStep) /\ Ordered(u) /\ Len(u) = Len(t) - 1 /\ \A i \in 1..Len(u) : u[i] = t[i + 1]
    BY <1>3, <1>5, RestOrdered
  <2>3. Asked(u, v)
    BY <1>3, <1>5, <2>1, RestAsked
  <2> HIDE DEF u
  <2>4. Calm(u)
    <3> SUFFICES ASSUME NEW i \in 1..Len(u), u[i][2] \notin built PROVE u[i][1] \notin Writes
      BY DEF Calm
    <3> DEFINE k == i + 1
    <3>1. k \in 1..Len(t) /\ u[i] = t[k] /\ k # 1
      BY <1>3, <2>2
    <3> HIDE DEF k
    <3> QED BY <1>4, <3>1
  <2>5. Go(p, u)
    BY <1>1, <1>5 DEF u
  <2> QED BY <1>1, <1>2, <2>2, <2>3, <2>4, <2>5, Skipping DEF v
<1>6. CASE ~(t # <<>> /\ Head(t)[1] = "mark")
  <2>1. \A i \in 1..Len(t) : i = 1 => t[i][1] # "mark"
    BY <1>3, <1>6
  <2>2. Calm(t)
    BY <1>4, <2>1 DEF Calm
  <2>3. Go(p, t)
    BY <1>1, <1>6
  <2> QED BY <1>1, <1>2, <1>3, <2>2, <2>3, Skipping DEF v
<1> QED BY <1>5, <1>6

(* What was written is marked. *)
LEMMA MarkStep ==
    ASSUME ArtifactInv, NEW p \in Starters, Mark(p)
    PROVE  ArtifactInv'
<1> DEFINE s == start[p].todo
           t == Rest(p)
           c == Of(p)
           k == start[p].mark
<1>1. Running(p) /\ Head(s)[1] = "mark" /\ Go(p, t) /\ marker' = [marker EXCEPT ![c] = k]
  BY DEF Mark, At
<1>2. UNCHANGED <<published, offered, built, crossed, bin>>
  BY DEF Mark, World
<1>3. /\ s \in Seq(StartStep) /\ s[1] = Head(s) /\ 1 \in 1..Len(s) /\ start[p] \in StartRecord
      /\ Calm(t) /\ (k \in Version => k <= published)
  BY <1>1, Stepping
<1>4. s[1] = Step("mark", c) /\ k \in Version \cup {Absent, Dev}
  BY <1>1, <1>3 DEF StartStep, StartRecord, Step, Of
<1>5. ~crossed => Solo(start[p], marker, bin) /\ s # <<>>
  BY <1>1 DEF ArtifactInv, OneStart, Running
<1>6. ~crossed /\ c \in Artifact \ built =>
        /\ c # "driver" => k = start[p].ver
        /\ Newest(k) => bin[c] \in Right(c)
  BY <1>3, <1>4, <1>5 DEF Solo
<1>7. marker \in [Artifact -> Version \cup {Absent, Dev}] /\ Fits(marker, bin)
  BY DiskFits DEF Fits
<1>8. Fits(marker', bin')
  BY <1>1, <1>2, <1>3, <1>4, <1>6, <1>7 DEF Fits
<1>9. PICK r : /\ Begins(r) /\ start' = [start EXCEPT ![p] = r]
               /\ r.todo = <<>> \/ r = Leaves(t, start[p].ver, start[p].got, k)
  BY <1>1, GoLeaves
<1>10. ~crossed => Solo(r, marker', bin')
  <2> SUFFICES ASSUME ~crossed PROVE Solo(r, marker', bin')
    OBVIOUS
  <2>1. CASE r.todo = <<>>
    BY <2>1 DEF Solo
  <2>2. CASE r.todo # <<>>
    <3>1. r.todo = t /\ r.ver = start[p].ver
      BY <1>9, <2>2, LeavesFields
    <3>2. ASSUME r.ver # Absent, NEW a \in {"engine", "kernel"} \ built, marker'[a] \in Version
          PROVE  marker'[a] <= r.ver
      <4>0. a \in Artifact \ built /\ a # "driver"
        BY DEF Artifact
      <4>1. CASE a = c
        <5>1. marker'[a] = k /\ k = r.ver
          BY <1>1, <1>6, <1>7, <3>1, <4>0, <4>1
        <5>2. marker'[a] = r.ver
          BY <5>1
        <5>3. r.ver \in Nat
          BY <3>2, <5>2, NoVersion
        <5> QED BY <5>2, <5>3
      <4>2. CASE a # c
        <5>1. marker'[a] = marker[a]
          BY <1>1, <1>7, <4>0, <4>2
        <5> QED BY <1>5, <3>1, <3>2, <5>1 DEF Solo
      <4> QED BY <4>1, <4>2
    <3> HIDE DEF t
    <3> QED BY <1>3, <3>1, <3>2, CalmSolo
  <2> QED BY <2>1, <2>2
<1> QED BY <1>1, <1>2, <1>8, <1>9, <1>10, Advance

(* A start begins. *)
LEMMA BeginStep ==
    ASSUME ArtifactInv, NEW p \in Starters, BeginStart(p)
    PROVE  ArtifactInv'
<1>1. PICK todo \in {DevStart, Ignite, Prepare} :
          start' = [start EXCEPT ![p] = Onward(NoStart, todo)]
  BY Zenon DEF BeginStart, Onward
<1>2. /\ UNCHANGED <<published, offered, built, bin, marker>>
      /\ crossed' = (crossed \/ \E q \in Starters : Running(q))
  BY DEF BeginStart, Disk
<1>3. built \subseteq Artifact /\ start \in [Starters -> StartRecord] /\ crossed \in BOOLEAN
  BY DEF ArtifactInv, ArtifactTypes
<1>4. todo \in Seq(StartStep) /\ Ordered(todo) /\ Asked(todo, Absent) /\ Calm(todo)
  BY <1>3, Programs
<1> DEFINE r == Leaves(todo, Absent, Absent, Absent)
<1>0. /\ NoStart \in StartRecord
      /\ NoStart.ver = Absent /\ NoStart.got = Absent /\ NoStart.mark = Absent
  BY NoBegin DEF Begins, NoStart
<1>5. start' = [start EXCEPT ![p] = r]
  BY <1>0, <1>1, LeavesOthers
<1>14. Begins(Leaves(todo, Absent, Absent, Absent))
  BY <1>4, NoVersion, Rewritten
<1>6. Begins(r) /\ r.todo = todo /\ r.ver = Absent
  BY <1>14, LeavesFields
<1> HIDE DEF r
<1>7. /\ start' \in [Starters -> StartRecord] /\ start'[p] = r
      /\ \A q \in Starters : q # p => start'[q] = start[q]
  BY <1>3, <1>5, <1>6 DEF Begins
<1>8. \A q \in Starters : Begins(start'[q])
  BY <1>6, <1>7 DEF ArtifactInv, ArtifactTypes
<1>9. \A q \in Starters : Begins(start[q])'
  <2> SUFFICES ASSUME NEW q \in Starters PROVE Begins(start[q])'
    OBVIOUS
  <2>1. Begins(start'[q])
    BY <1>8
  <2> QED BY <1>2, <2>1 DEF Begins, Ordered, Asked
<1>10. crossed' \in BOOLEAN
  BY <1>2, <1>3
<1>11. ArtifactTypes'
  BY <1>2, <1>7, <1>9, <1>10 DEF ArtifactInv, ArtifactTypes
<1>12. ASSUME ~crossed' PROVE OneStart'
  <2>1. ~crossed /\ \A q \in Starters : start[q].todo = <<>>
    BY <1>2, <1>12 DEF Running
  <2>2. \A q \in Starters : start'[q].todo # <<>> => q = p
    BY <1>7, <2>1
  <2>3. Solo(r, marker', bin')
    BY <1>4, <1>6, CalmSolo
  <2>4. \A q \in Starters : Solo(start'[q], marker', bin')
    <3> SUFFICES ASSUME NEW q \in Starters PROVE Solo(start'[q], marker', bin')
      OBVIOUS
    <3>1. CASE q = p
      BY <1>7, <2>3, <3>1
    <3>2. CASE q # p
      BY <2>2, <3>2 DEF Solo
    <3> QED BY <3>1, <3>2
  <2>5. \A q \in Starters : Solo(start[q], marker, bin)'
    <3> SUFFICES ASSUME NEW q \in Starters PROVE Solo(start[q], marker, bin)'
      OBVIOUS
    <3>1. Solo(start'[q], marker', bin')
      BY <2>4
    <3> QED BY <1>2, <3>1 DEF Solo, Newest, Right
  <2>6. (\A a \in Artifact \ built : Newest(marker[a]) => bin[a] \in Right(a))'
    BY <1>2, <2>1 DEF ArtifactInv, OneStart, Newest, Right
  <2>7. \A a, q \in Starters : Running(a)' /\ Running(q)' => a = q
    BY <2>2 DEF Running
  <2> QED BY <2>5, <2>6, <2>7 DEF OneStart
<1>13. OneStart'
  BY <1>12 DEF OneStart
<1> QED BY <1>11, <1>13 DEF ArtifactInv

(* A version is published: no marker names it. *)
LEMMA PublishStep ==
    ASSUME ArtifactInv, Publish
    PROVE  ArtifactInv'
<1>1. /\ UNCHANGED <<offered, built, start, crossed, bin, marker>>
      /\ published' = published + 1 /\ published < MaxVersion
  BY DEF Publish, Disk
<1>2. published \in Version /\ published' \in Version /\ published \in Nat /\ Version \subseteq Nat
  BY <1>1, NoVersion DEF ArtifactInv, ArtifactTypes
<1>3. \A v \in Version : v <= published => v <= published' /\ v # published'
  BY <1>1, <1>2
<1>4. \A q \in Starters : Begins(start[q])'
  <2> SUFFICES ASSUME NEW q \in Starters PROVE Begins(start[q])'
    OBVIOUS
  <2>1. Begins(start[q])
    BY DEF ArtifactInv, ArtifactTypes
  <2> QED BY <1>1, <1>3, <2>1 DEF Begins, Ordered, Asked
<1>5. \A a \in Artifact : marker'[a] \in Version => marker'[a] <= published'
  BY <1>1, <1>3 DEF ArtifactInv, ArtifactTypes
<1>6. ArtifactTypes'
  BY <1>1, <1>2, <1>4, <1>5 DEF ArtifactInv, ArtifactTypes
<1>7. ASSUME ~crossed PROVE OneStart'
  <2>1. \A a \in Artifact : marker[a] # published'
    BY <1>2, <1>3 DEF ArtifactInv, ArtifactTypes
  <2>2. \A q \in Starters : start[q].mark # published'
    <3> SUFFICES ASSUME NEW q \in Starters PROVE start[q].mark # published'
      OBVIOUS
    <3>1. start[q].mark \in Version => start[q].mark <= published
      BY DEF ArtifactInv, ArtifactTypes, Begins
    <3> QED BY <1>2, <1>3, <3>1
  <2>3. \A q \in Starters : Solo(start[q], marker, bin)'
    <3> SUFFICES ASSUME NEW q \in Starters PROVE Solo(start[q], marker, bin)'
      OBVIOUS
    <3>1. Solo(start[q], marker, bin)
      BY <1>7 DEF ArtifactInv, OneStart
    <3> QED BY <1>1, <2>1, <2>2, <3>1 DEF Solo, Newest
  <2>4. (\A a \in Artifact \ built : Newest(marker[a]) => bin[a] \in Right(a))'
    BY <1>1, <2>1 DEF Newest
  <2>5. (\A p, q \in Starters : Running(p) /\ Running(q) => p = q)'
    BY <1>1, <1>7 DEF ArtifactInv, OneStart, Running
  <2> QED BY <2>3, <2>4, <2>5 DEF OneStart
<1>8. OneStart'
  BY <1>1, <1>7 DEF OneStart
<1> QED BY <1>6, <1>8 DEF ArtifactInv

(* Every step. *)
LEMMA ArtifactStep ==
    ASSUME ArtifactInv, [ArtifactNext]_artifactVars
    PROVE  ArtifactInv'
<1>1. CASE UNCHANGED artifactVars
  <2>1. UNCHANGED <<bin, marker, published, offered, built, start, crossed>>
    BY <1>1 DEF artifactVars
  <2>2. ArtifactTypes'
    BY <2>1 DEF ArtifactInv, ArtifactTypes, Begins, Ordered, Asked
  <2>3. OneStart'
    BY <2>1 DEF ArtifactInv, OneStart, Running, Solo, Newest, Right
  <2> QED BY <2>2, <2>3 DEF ArtifactInv
<1>2. CASE Publish
  BY <1>2, PublishStep
<1>3. ASSUME NEW p \in Starters, Find(p) PROVE ArtifactInv'
  <2>1. /\ Running(p) /\ End(p)
        /\ UNCHANGED <<published, offered, built, crossed, bin, marker>>
    BY <1>3 DEF Find, At, Disk, World
  <2> QED BY <2>1, Ending DEF End
<1>4. ASSUME NEW p \in Starters, StartCrash(p) PROVE ArtifactInv'
  <2>1. /\ Running(p) /\ start' = [start EXCEPT ![p] = NoStart]
        /\ UNCHANGED <<published, offered, built, crossed, bin, marker>>
    BY <1>4 DEF StartCrash, Disk
  <2> QED BY <2>1, Ending
<1> QED BY <1>1, <1>2, <1>3, <1>4, BeginStep, RegistryStep, CheckStep, DriverStep, KernelStep,
           CopyStep, EmptyStep, FillStep, FillFailsStep, MarkStep DEF ArtifactNext

(* At first. *)
LEMMA ArtifactStart == ArtifactInit => ArtifactInv
<1> SUFFICES ASSUME ArtifactInit PROVE ArtifactInv
  OBVIOUS
<1>1. PICK v \in {Absent} \cup {u \in {1} : offered[u]} : bin = [a \in Artifact |-> v]
  BY DEF ArtifactInit
<1>2. /\ published = 1 /\ offered \in [Version -> BOOLEAN] /\ marker = bin
      /\ built \subseteq Artifact /\ crossed = FALSE
      /\ start = [p \in Starters |-> NoStart]
  BY ArtifactAssumption DEF ArtifactInit, Artifact
<1>3. v \in Version \cup {Absent} /\ (v \in Version => v = 1) /\ 1 <= 1
  BY <1>1, NoVersion
<1>4. Begins(NoStart) /\ NoStart.todo = <<>> /\ NoStart \in StartRecord
  BY NoBegin DEF Begins
<1>5. ArtifactTypes
  BY <1>1, <1>2, <1>3, <1>4, NoVersion DEF ArtifactTypes
<1>6. OneStart
  <2>1. \A p \in Starters : start[p].todo = <<>>
    BY <1>2, <1>4
  <2>2. \A a \in Artifact : Newest(marker[a]) => bin[a] \in Right(a)
    BY <1>2 DEF Newest, Right
  <2> QED BY <2>1, <2>2 DEF OneStart, Running, Solo
<1> QED BY <1>5, <1>6 DEF ArtifactInv

(* The invariant of the binaries. *)
THEOREM BinariesAreSound == Spec => []ArtifactInv
<1>1. Init => ArtifactInv
  BY ArtifactStart DEF Init
<1>2. ArtifactInv /\ [Next]_installVars => ArtifactInv'
  <2>1. [Next]_installVars => [ArtifactNext]_artifactVars
    BY DEF Next, installVars
  <2> QED BY <2>1, ArtifactStep
<1> QED BY <1>1, <1>2, PTL DEF Spec

(* What a start skips is right, for any number of processes, versions,     *)
(* starts and crashes: while starts do not overlap, where the marker of a  *)
(* binary that is not built names the newest version, which is offered,    *)
(* the file is that version, or, of the driver, an answer.                 *)
THEOREM SkippedIsCurrent == Spec => []MarkerCurrent
<1>1. ArtifactInv => MarkerCurrent
  <2> SUFFICES ASSUME ArtifactInv, ~crossed, NEW a \in Artifact \ built,
                      marker[a] = published, offered[published]
               PROVE  bin[a] \in Right(a)
    BY DEF MarkerCurrent, Right
  <2> QED BY DEF ArtifactInv, OneStart, Newest
<1> QED BY <1>1, BinariesAreSound, PTL
=============================================================================
