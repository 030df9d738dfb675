-------------------------- MODULE InstallProperties --------------------------
(***************************************************************************)
(* What installed files are worth after failures, crashes, retries and     *)
(* operations of other processes, and how far that goes.                   *)
(***************************************************************************)
EXTENDS Install

(* Types: an inode has pieces of the weights; binaries and markers are     *)
(* versions or what can be in their place; a registry names components.    *)
InstallTypeOK ==
    /\ shared \in BOOLEAN /\ late \subseteq Pullers \X Inode /\ short \subseteq Inode
    /\ link \in [Dirs \X Names -> Inode \cup {0}] /\ body \in [Inode -> SUBSET All]
    /\ unit \in [Dirs \X UnitFiles -> {"absent", "torn", "whole"}]
    /\ bin \in [Artifact -> Version \cup {Absent, Torn, Dev, ErrorPage}]
    /\ marker \in [Artifact -> Version \cup {Absent, Dev}]
    /\ reg \in [{"yaml", "bin"} -> (SUBSET Comp) \cup {NoFile, Garbled}]
    /\ man \in [Comp -> Permission \cup {NoFile, Garbled}]
    /\ cache \in [Comp -> [val : Permission \cup {NoFile, Garbled, Foreign}, fresh : BOOLEAN]]

(* The last piece of weights that the manager renamed, or will rename,     *)
(* may still have to be written, or be lost.                               *)
Owed(i) == IF i \in short \/ \E p \in Pullers : <<p, i>> \in late THEN {Pieces} ELSE {}

(* Visible weights lack nothing, whatever failed, was aborted, retried,    *)
(* purged or killed, and while the other downloader works on the same      *)
(* model, but the last piece that the manager did not wait for: unless two *)
(* downloads of a kind shared their partial file, which nothing prevents.  *)
WeightsComplete ==
    ~mixed => \A d \in Dirs :
        WeightsIn(d) => LET i == link[<<d, "weights">>] IN body[i] \cup Owed(i) = All

(* A unit has its weights: the manifest, which makes a directory a unit,   *)
(* is written after them, through crashes and both downloaders; only a     *)
(* purge, under way, cut, or next to a download, leaves a manifest alone,  *)
(* and only in its own directory.  So where the two directories are one, a *)
(* model that the list shows with a local path is cached.                  *)
UnitHasWeights ==
    \A d \in Dirs :
        UnitIn(d) /\ (d = "visible" => ~purged /\ \A p \in Pullers : pull[p].at # "purge")
            => WeightsIn(d)

(* A download that reports success leaves in its directory the weights,    *)
(* and a unit unless a crash tore the manifest; a purge that does, leaves  *)
(* nothing, and where the directories are one nothing that the list shows. *)
PullHonest ==
    [][\A p \in Pullers :
        (pull[p].at # "idle" /\ pull'[p].res = "ok" /\ ~purged') =>
            IF pull[p].kind = "purge" THEN ~Cached' /\ (shared => ~Recommended'.path)
            ELSE \A d \in Dirs : DirOf(pull[p].kind) = d =>
                    WeightsIn(d)' /\ (died = 0 => UnitIn(d)')]_modelVars

(* What a start skips is right: where the marker of the engine or of the   *)
(* kernel names the newest version, the file is that version, through      *)
(* crashes, a full disk, failed answers and kernels that prepare_engine    *)
(* stored, and a driver so marked is a whole answer.  Not where starts     *)
(* overlap, where a build is copied over the file, or where the version is *)
(* not offered for the platform.                                           *)
MarkerCurrent ==
    \A a \in Artifact \ built :
        (~crossed /\ marker[a] = published /\ offered[published]) =>
            bin[a] \in {published} \cup (IF a = "driver" THEN {ErrorPage} ELSE {})

(* Nothing changes components; executions may be under way. *)
Settled == \A p \in Workers : Busy(p) => job[p].op = "execute"

(* The registry that a load finds. *)
RegistryNow == Installed \cap (IF Readable(reg["bin"]) THEN reg["bin"] ELSE InYaml)

(* A component is registered exactly when the last operation on it that    *)
(* was alone reported so: a crash of an operation on another component,    *)
(* which tears one of the two files, loses nothing, as the other is whole, *)
(* and before the binary file was first written there is nothing to lose.  *)
(* A second crash may, while the first one's damage is repaired: a load    *)
(* from the YAML file, when it drops a component, rewrites that file       *)
(* first; and of two emptied files a load makes an empty registry.         *)
RegistryKept ==
    Settled /\ lost <= 1 =>
        \A c \in Comp : told[c].listed \in BOOLEAN => (c \in RegistryNow) = told[c].listed

(* No execution of a component uses another permission than the one that   *)
(* was last confirmed, by an installation or a change, however the cache   *)
(* of the manifest came about and whether the clock ticked, as long as no  *)
(* execution overlapped the change.  A manifest that a crash emptied stays *)
(* empty, though the change be confirmed, and then nothing is executed.    *)
PermissionInForce ==
    Settled => \A c \in Comp : told[c].perm \in Permission =>
        IF CacheUsed(c) THEN cache[c].val = told[c].perm ELSE man[c] \in {told[c].perm, Garbled}
=============================================================================
