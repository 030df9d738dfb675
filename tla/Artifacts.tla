------------------------------ MODULE Artifacts ------------------------------
(***************************************************************************)
(* The binaries that a start of the program keeps up to date: the engine,  *)
(* the kernel and the GPU driver (bootstrapper.rs, DriverProvisioner,      *)
(* EngineManager::prepare_engine).                                         *)
(*                                                                         *)
(* Beside each binary lies a marker with the version it is said to have.   *)
(* A start compares the marker with the registry's version and downloads   *)
(* the binary when they differ.  Markers and binaries are written one      *)
(* after the other, in place, by every process that starts.                *)
(***************************************************************************)
EXTENDS Naturals, Sequences, FiniteSets

CONSTANTS Starters,       \* processes that start, or prepare an engine
          MaxVersion,     \* bound: versions published
          Buildable,      \* binaries that may be built in the working directory
          MaxStarts,      \* bound
          MaxStartCrashes, \* bound
          Absent,         \* no such file
          Torn,           \* emptied and not filled
          Dev,            \* the build, and the marker "dev-release"
          ErrorPage       \* the body of an answer that is not the file

ASSUME ArtifactAssumption ==
    /\ MaxVersion \in Nat \ {0} /\ MaxStarts \in Nat /\ MaxStartCrashes \in Nat
    /\ Buildable \subseteq {"engine", "kernel"}
    /\ {Absent, Torn, Dev, ErrorPage} \cap 1..MaxVersion = {}

VARIABLES
    bin,       \* bin[a]: what the file of a holds
    marker,    \* marker[a]: the version its marker names
    published, \* the newest version
    offered,   \* offered[v]: the manifest of v names this platform
    built,     \* what is built in the working directory
    start,     \* start[p]: what p still has to do
    crossed,   \* history: two processes provisioned at the same time
    starts,    \* starts begun
    fallen     \* crashes

artifactVars == <<bin, marker, published, offered, built, start, crossed, starts, fallen>>

Artifact == {"engine", "kernel", "driver"}
Version == 1..MaxVersion
NoStart == [todo |-> <<>>, ver |-> Absent, got |-> Absent, mark |-> Absent]
Missing(a) == bin[a] = Absent

Step(what, a) == <<what, a>>

\* Mutant of DoWrite: the marker is written before the binary.
DoWriteMarkFirst(a) == <<Step("mark", a), Step("empty", a), Step("fill", a)>>

DoWrite(a) == <<Step("empty", a), Step("fill", a), Step("mark", a)>>

(* sync_dev_artifacts: copy what is built and mark it "dev-release". *)
DevSync ==
    (IF "engine" \in built THEN <<Step("dev", "engine")>> \o DoWrite("engine") ELSE <<>>)
        \o (IF "kernel" \in built THEN <<Step("dev", "kernel")>> \o DoWrite("kernel") ELSE <<>>)

(* ignite, with and without is_dev_sync *)
DevStart == DevSync
Ignite == DevSync \o <<Step("registry", "all"), Step("check", "engine"),
                       Step("check", "kernel"), Step("driver", "driver")>>

(* prepare_engine on a machine with a GPU *)
Prepare == <<Step("driver", "driver"), Step("kernel", "kernel"), Step("find", "kernel")>>

(* A new machine, or one that the first version was installed on.          *)
ArtifactInit ==
    /\ published = 1
    /\ offered \in [Version -> BOOLEAN]
    /\ bin \in {[a \in Artifact |-> v] : v \in {Absent} \cup {u \in {1} : offered[u]}}
    /\ marker = bin
    /\ built \in SUBSET Buildable
    /\ start = [p \in Starters |-> NoStart]
    /\ crossed = FALSE /\ starts = 0 /\ fallen = 0

Running(p) == start[p].todo # <<>>
At(p, what) == Running(p) /\ Head(start[p].todo)[1] = what
Of(p) == Head(start[p].todo)[2]
Rest(p) == Tail(start[p].todo)

End(p) == start' = [start EXCEPT ![p] = NoStart]
Go(p, todo) ==
    IF todo = <<>> THEN End(p) ELSE start' = [start EXCEPT ![p].todo = todo]
Take(p, got, mark, todo) ==
    start' = [start EXCEPT ![p].todo = todo, ![p].got = got, ![p].mark = mark]
Disk == <<bin, marker>>
World == <<published, offered, built, crossed, starts, fallen>>

BeginStart(p) ==
    /\ ~Running(p) /\ starts < MaxStarts
    /\ \E todo \in {DevStart, Ignite, Prepare} \ {<<>>} :
           start' = [start EXCEPT ![p] = [NoStart EXCEPT !.todo = todo]]
    /\ starts' = starts + 1
    /\ crossed' = (crossed \/ \E q \in Starters : Running(q))
    /\ UNCHANGED <<published, offered, built, fallen>> /\ UNCHANGED Disk

(* A new version, with its manifests, is published. *)
Publish ==
    /\ published < MaxVersion
    /\ published' = published + 1
    /\ UNCHANGED <<offered, built, start, crossed, starts, fallen>> /\ UNCHANGED Disk

(* Without the registry the start goes on as it is. *)
ReadRegistry(p) ==
    /\ At(p, "registry")
    /\ \/ End(p)
       \/ start' = [start EXCEPT ![p].todo = Rest(p), ![p].ver = published]
    /\ UNCHANGED Disk /\ UNCHANGED World

(* Version check, manifest and download of the engine or the kernel: the   *)
(* whole answer is in memory, and its status looked at, before the file is *)
(* touched.  Where the manifest does not name the platform and the file is *)
(* there, only the marker is written.  A failure is forgiven when there is *)
(* a file, "cached".  Nothing is done for a kernel without a fingerprint.  *)
Stale(p, a) == Missing(a) \/ marker[a] # start[p].ver

Check(p) ==
    LET a == Of(p)
        ver == start[p].ver
    IN
    /\ At(p, "check")
    /\ \/ ~Stale(p, a) /\ Go(p, Rest(p))
       \/ Stale(p, a) /\ offered[published] /\ Take(p, published, ver, DoWrite(a) \o Rest(p))
       \/ /\ Stale(p, a) /\ ~offered[published] /\ ~Missing(a)
          /\ Take(p, Absent, ver, <<Step("mark", a)>> \o Rest(p))
       \/ Stale(p, a) /\ ~Missing(a) /\ Go(p, Rest(p))
       \/ Missing(a) /\ End(p)
       \/ a = "kernel" /\ End(p)
    /\ UNCHANGED Disk /\ UNCHANGED World

(* provision_for_hardware: the marker decides alone, and any answer is     *)
(* taken.  Errors are ignored by its callers.                              *)
Driver(p) ==
    /\ At(p, "driver")
    /\ \/ /\ marker["driver"] # published
          /\ \E got \in {published, ErrorPage} :
                 Take(p, got, published, DoWrite("driver") \o Rest(p))
       \/ Go(p, Rest(p))
    /\ UNCHANGED Disk /\ UNCHANGED World

(* prepare_engine downloads a kernel that is nowhere (provision_kernel):   *)
(* any answer is taken, and the marker that is written is not the one that *)
(* ignite reads.                                                           *)
Kernel(p) ==
    /\ At(p, "kernel")
    /\ \/ /\ Missing("kernel") /\ "kernel" \notin built
          /\ \E got \in {published, ErrorPage} :
                 Take(p, got, Absent, <<Step("empty", "kernel"), Step("fill", "kernel")>> \o Rest(p))
       \/ Go(p, Rest(p))
    /\ UNCHANGED Disk /\ UNCHANGED World

Find(p) ==
    /\ At(p, "find")
    /\ End(p)
    /\ UNCHANGED Disk /\ UNCHANGED World

(* A build is copied, unless the file is in use; then it is marked. *)
Copy(p) ==
    /\ At(p, "dev")
    /\ \/ Take(p, Dev, Dev, Rest(p))
       \/ Go(p, SubSeq(Rest(p), 4, Len(Rest(p))))
    /\ UNCHANGED Disk /\ UNCHANGED World

(* std::fs::write and std::fs::copy empty the file, then fill it. *)
Empty(p) ==
    /\ At(p, "empty")
    /\ bin' = [bin EXCEPT ![Of(p)] = Torn]
    /\ Go(p, Rest(p))
    /\ UNCHANGED marker /\ UNCHANGED World

Fill(p) ==
    /\ At(p, "fill")
    /\ bin' = [bin EXCEPT ![Of(p)] = start[p].got]
    /\ Go(p, Rest(p))
    /\ UNCHANGED marker /\ UNCHANGED World

(* The disk is full: the file stays torn, is not marked, and passes for    *)
(* the cached one.                                                         *)
FillFails(p) ==
    /\ At(p, "fill")
    /\ Go(p, IF Rest(p) # <<>> /\ Head(Rest(p))[1] = "mark" THEN Tail(Rest(p)) ELSE Rest(p))
    /\ UNCHANGED Disk /\ UNCHANGED World

\* Mutant of Mark: the marker names what was downloaded.
MarkGot(p) ==
    /\ At(p, "mark")
    /\ marker' = [marker EXCEPT ![Of(p)] = start[p].got]
    /\ Go(p, Rest(p))
    /\ UNCHANGED bin /\ UNCHANGED World

Mark(p) ==
    /\ At(p, "mark")
    /\ marker' = [marker EXCEPT ![Of(p)] = start[p].mark]
    /\ Go(p, Rest(p))
    /\ UNCHANGED bin /\ UNCHANGED World

StartCrash(p) ==
    /\ Running(p) /\ fallen < MaxStartCrashes
    /\ fallen' = fallen + 1
    /\ start' = [start EXCEPT ![p] = NoStart]
    /\ UNCHANGED <<published, offered, built, crossed, starts>> /\ UNCHANGED Disk

ArtifactNext ==
    \/ Publish
    \/ \E p \in Starters :
        \/ BeginStart(p) \/ ReadRegistry(p) \/ Check(p) \/ Driver(p) \/ Kernel(p)
        \/ Find(p) \/ Copy(p) \/ Empty(p) \/ Fill(p) \/ FillFails(p) \/ Mark(p) \/ StartCrash(p)
=============================================================================
