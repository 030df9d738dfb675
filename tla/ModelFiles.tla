----------------------------- MODULE ModelFiles -----------------------------
(***************************************************************************)
(* The files of one model: the two downloaders that fetch it               *)
(* (ModelDownloader of models/fetch and ModelManager with its installer),  *)
(* the purge of the terminal's menu, and what a crash leaves.              *)
(*                                                                         *)
(* The fetch and the purge use the models directory below the working      *)
(* directory, or BITSHIT_MODELS_DIR; the manager and the roster use that   *)
(* of the EnvironmentManager.  They are one directory when the program     *)
(* runs from its repository, and two when it is installed.                 *)
(*                                                                         *)
(* A downloader writes a partial file and renames it when it has all the   *)
(* pieces.  The name of the partial file belongs to the downloader, not to *)
(* the download: two downloads of a kind share it.  So files are inodes: a *)
(* rename moves an inode that another process may still be writing.  The   *)
(* manager does not flush: tokio writes the last piece when it has time.   *)
(***************************************************************************)
EXTENDS Naturals, FiniteSets

CONSTANTS Pullers,       \* processes and tasks that use the directory
          Pieces,        \* pieces of the weights
          MaxPulls,      \* bound: downloads and purges
          MaxPullCrashes \* bound

ASSUME ModelAssumption == Pieces \in Nat \ {0} /\ MaxPulls \in Nat /\ MaxPullCrashes \in Nat

VARIABLES
    shared, \* the two directories are one
    link,   \* link[d, name]: the inode of that name in d, 0 when there is none
    body,   \* body[inode]: the pieces it has
    late,   \* <<p, inode>>: the last piece, which p still has to write
    unit,   \* unit[<<d, f>>]: model_manifest.json and structural_dna.json
    there,  \* there[d]: the directory of the model exists
    pull,   \* pull[p]: the download or the purge of p
    short,  \* history: inodes whose last piece was lost, which nobody was told
    mixed,  \* history: two downloads of a kind wrote at the same time
    purged, \* history: a purge ran next to something else, or was cut
    pulls,  \* operations begun
    died    \* crashes

files == <<shared, link, body, late, unit, there>>
pullHistory == <<short, mixed, purged, pulls, died>>
modelVars == <<files, pull, pullHistory>>

All == 1..Pieces
Inode == 1..MaxPulls
Names == {"weights", "gguf.part", "part"}
UnitFiles == {"manifest", "dna"}

(* get_models_dir of the fetch, and models_dir of the EnvironmentManager.  *)
Dirs == {"visible", "home"}
Home == IF shared THEN "visible" ELSE "home"
DirOf(k) == IF k = "manage" THEN Home ELSE "visible"
PartOf(k) == <<DirOf(k), IF k = "fetch" THEN "gguf.part" ELSE "part">>
WeightsIn(d) == link[<<d, "weights">>] # 0
UnitIn(d) == unit[<<d, "manifest">>] = "whole"
NoPull == [kind |-> "none", at |-> "idle", ino |-> 0, pos |-> 0, todo |-> {}, res |-> "none",
           list |-> FALSE]
Writing(p) == pull[p].at \in {"chunk", "rename"}

(* ModelDownloader::get_cached_path: an exact file or any .gguf or .bin,   *)
(* which a partial file is not.                                            *)
Cached == WeightsIn("visible")

(* AutonomousDiscovery: a directory with a readable manifest is a unit.    *)
Listed == UnitIn(Home)

(* load_installation_file: an entry of the library knows no file.          *)
Template == [path |-> FALSE]

(* load_roster: a local unit takes the place of the library's entry.       *)
RosterEntry == IF Listed THEN [path |-> TRUE] ELSE Template

(* get_recommendations: an entry is cached when the downloader finds its   *)
(* weights, whatever the roster says of it.                                *)
Recommended == [path |-> RosterEntry.path \/ Cached, cached |-> Cached]

(* The entries of the directory that the purge removes. *)
Present == {n \in Names : link[<<"visible", n>>] # 0}
            \cup {f \in UnitFiles : unit[<<"visible", f>>] # "absent"}

ModelInit ==
    /\ shared \in BOOLEAN
    /\ link = [e \in Dirs \X Names |-> 0]
    /\ body = [i \in Inode |-> {}] /\ late = {}
    /\ unit = [e \in Dirs \X UnitFiles |-> "absent"]
    /\ there = [d \in Dirs |-> FALSE]
    /\ pull = [p \in Pullers |-> NoPull]
    /\ short = {} /\ mixed = FALSE /\ purged = FALSE /\ pulls = 0 /\ died = 0

GoTo(p, at) == pull' = [pull EXCEPT ![p].at = at]

(* The entry of the model list that p shows follows p's own operations.    *)
ListAfter(p, res) ==
    CASE res = "ok" /\ pull[p].kind = "fetch" -> TRUE
      [] res = "ok" /\ pull[p].kind = "purge" -> FALSE
      [] OTHER -> pull[p].list

Finish(p, res) ==
    pull' = [pull EXCEPT ![p] = [NoPull EXCEPT !.kind = pull[p].kind, !.res = res,
                                              !.list = ListAfter(p, res)]]

BeginOn(p, k, at) ==
    /\ pull[p].at = "idle" /\ pulls < MaxPulls
    /\ pulls' = pulls + 1
    /\ pull' = [pull EXCEPT ![p] = [NoPull EXCEPT !.kind = k, !.at = at, !.list = pull[p].list,
                                                 !.todo = IF k = "purge" THEN Present ELSE {}]]
    /\ purged' = (purged \/ \E q \in Pullers :
                     pull[q].at # "idle" /\ "purge" \in {k, pull[q].kind})
    /\ there' = IF k = "purge" THEN there ELSE [there EXCEPT ![DirOf(k)] = TRUE]
    /\ UNCHANGED <<shared, link, body, late, unit, short, mixed, died>>

(* The list of models is made anew; until then it may be out of date.      *)
Look(p) ==
    /\ pull[p].at = "idle" /\ pull[p].list # Recommended.cached
    /\ pull' = [pull EXCEPT ![p].list = Recommended.cached]
    /\ UNCHANGED files /\ UNCHANGED pullHistory

(* pull.rs looks at the disk and details.rs at the list: a cached model is *)
(* loaded, another one is fetched.                                         *)
BeginFetch(p) ==
    (~Cached \/ ~pull[p].list) /\ BeginOn(p, "fetch", "open")

\* Mutant of BeginManage: weights alone make the model healthy.
BeginManageWeights(p) ==
    BeginOn(p, "manage", IF WeightsIn(Home) THEN "healthy" ELSE "open")

(* pull_model_with_manifest: weights and DNA make the model healthy.       *)
BeginManage(p) ==
    BeginOn(p, "manage",
            IF WeightsIn(Home) /\ unit[<<Home, "dna">>] # "absent" THEN "healthy" ELSE "open")

(* purge_model, which the list offers for a cached model. *)
BeginPurge(p) == pull[p].list /\ there["visible"] /\ BeginOn(p, "purge", "purge")

Healthy(p) ==
    /\ pull[p].at = "healthy"
    /\ Finish(p, "ok")
    /\ UNCHANGED files /\ UNCHANGED pullHistory

(* An inode that a name, an operation or a late piece refers to. *)
Used(i) ==
    \/ \E e \in Dirs \X Names : link[e] = i
    \/ \E q \in Pullers : pull[q].ino = i \/ <<q, i>> \in late

(* The answer comes and the partial file is created, or emptied; the       *)
(* manager downloads only when the weights are not there.                  *)
OpenPart(p) ==
    LET part == PartOf(pull[p].kind)
        ino == IF link[part] # 0 THEN link[part]
               ELSE CHOOSE i \in Inode : ~Used(i)
    IN
    /\ pull[p].at = "open" /\ there[part[1]]
    /\ ~(pull[p].kind = "manage" /\ WeightsIn(Home))
    /\ link' = [link EXCEPT ![part] = ino]
    /\ body' = [body EXCEPT ![ino] = {}]
    /\ pull' = [pull EXCEPT ![p].at = "chunk", ![p].ino = ino]
    /\ short' = short \ {ino}
    /\ mixed' = (mixed \/ \E q \in Pullers : Writing(q) /\ pull[q].kind = pull[p].kind)
    /\ UNCHANGED <<shared, late, there, purged, pulls, died>>

\* Mutant of Open: the manifest is written before the weights.
OpenListed(p) == OpenPart(p) /\ unit' = [unit EXCEPT ![<<DirOf(pull[p].kind), "manifest">>] = "whole"]

Open(p) == OpenPart(p) /\ UNCHANGED unit

(* ... or the manager finds the weights, which another one downloaded.     *)
AlreadyThere(p) ==
    /\ pull[p].at = "open" /\ pull[p].kind = "manage" /\ WeightsIn(Home)
    /\ GoTo(p, "manifest")
    /\ UNCHANGED files /\ UNCHANGED pullHistory

(* HTTP error, lost connection, or no directory any more: the partial file *)
(* stays as it is.                                                         *)
Fail(p) ==
    /\ pull[p].at \in {"open", "chunk"}
    /\ Finish(p, "failed")
    /\ UNCHANGED files /\ UNCHANGED pullHistory

(* The user aborts; seen when the next piece arrives.                      *)
Abort(p) ==
    /\ pull[p].at = "chunk" /\ pull[p].kind = "fetch"
    /\ link' = [link EXCEPT ![PartOf("fetch")] = 0]
    /\ Finish(p, "aborted")
    /\ UNCHANGED <<shared, body, late, unit, there>> /\ UNCHANGED pullHistory

\* Mutant of Chunk: an answer that ends early is taken for the whole file.
ChunkCut(p) ==
    LET n == pull[p].pos + 1 IN
    /\ pull[p].at = "chunk" /\ n <= Pieces
    /\ body' = [body EXCEPT ![pull[p].ino] = @ \cup {n}]
    /\ pull' = [pull EXCEPT ![p].pos = n, ![p].at = "rename"]
    /\ UNCHANGED <<shared, link, late, unit, there>> /\ UNCHANGED pullHistory

(* write_all of tokio returns before the piece is in the file; the next    *)
(* call waits for it and has its error.  After the last piece the fetch    *)
(* flushes and the manager calls nothing.                                  *)
Chunk(p) ==
    LET n == pull[p].pos + 1
        unflushed == n = Pieces /\ pull[p].kind = "manage"
    IN
    /\ pull[p].at = "chunk" /\ n <= Pieces
    /\ body' = IF unflushed THEN body ELSE [body EXCEPT ![pull[p].ino] = @ \cup {n}]
    /\ late' = IF unflushed THEN late \cup {<<p, pull[p].ino>>} ELSE late
    /\ pull' = [pull EXCEPT ![p].pos = n, ![p].at = IF n = Pieces THEN "rename" ELSE "chunk"]
    /\ UNCHANGED <<shared, link, unit, there>> /\ UNCHANGED pullHistory

LateWrite(p) ==
    \E i \in Inode :
        /\ <<p, i>> \in late /\ late' = late \ {<<p, i>>}
        /\ body' = [body EXCEPT ![i] = @ \cup {Pieces}]
        /\ UNCHANGED <<shared, link, unit, there, pull>> /\ UNCHANGED pullHistory

(* A full disk: the error stays in a file that nobody asks any more.       *)
LateLost(p) ==
    \E i \in Inode :
        /\ <<p, i>> \in late /\ late' = late \ {<<p, i>>}
        /\ short' = short \cup {i}
        /\ UNCHANGED <<shared, link, body, unit, there, pull, mixed, purged, pulls, died>>

(* The rename takes what has the name of the partial file by then.         *)
Rename(p) ==
    LET part == PartOf(pull[p].kind) IN
    /\ pull[p].at = "rename"
    /\ IF link[part] = 0
         THEN Finish(p, "failed") /\ UNCHANGED link
         ELSE /\ link' = [link EXCEPT ![<<part[1], "weights">>] = link[part], ![part] = 0]
              /\ GoTo(p, "manifest")
    /\ UNCHANGED <<shared, body, late, unit, there>> /\ UNCHANGED pullHistory

(* Fails when the directory is gone. *)
SaveUnit(p) ==
    LET d == DirOf(pull[p].kind) IN
    /\ pull[p].at = "manifest"
    /\ IF there[d] THEN unit' = [unit EXCEPT ![<<d, "manifest">>] = "whole"] /\ GoTo(p, "dna")
                   ELSE Finish(p, "failed") /\ UNCHANGED unit
    /\ UNCHANGED <<shared, link, body, late, there>> /\ UNCHANGED pullHistory

(* generate_cluaiz_dna, whose error the manager ignores, and the last look *)
(* of the fetch at the weights.                                            *)
SaveDna(p) ==
    LET d == DirOf(pull[p].kind) IN
    /\ pull[p].at = "dna"
    /\ unit' = IF there[d] THEN [unit EXCEPT ![<<d, "dna">>] = "whole"] ELSE unit
    /\ Finish(p, IF pull[p].kind = "manage" \/ (there[d] /\ WeightsIn(d)) THEN "ok" ELSE "failed")
    /\ UNCHANGED <<shared, link, body, late, there>> /\ UNCHANGED pullHistory

(* remove_dir_all removes the entries it has read, then the directory,     *)
(* which fails when something was added.                                   *)
PurgeEntry(p) ==
    /\ pull[p].at = "purge"
    /\ \E n \in pull[p].todo :
        /\ pull' = [pull EXCEPT ![p].todo = @ \ {n}]
        /\ link' = IF n \in Names THEN [link EXCEPT ![<<"visible", n>>] = 0] ELSE link
        /\ unit' = IF n \in UnitFiles THEN [unit EXCEPT ![<<"visible", n>>] = "absent"] ELSE unit
    /\ UNCHANGED <<shared, body, late, there>> /\ UNCHANGED pullHistory

PurgeEnd(p) ==
    /\ pull[p].at = "purge" /\ pull[p].todo = {}
    /\ there' = [there EXCEPT !["visible"] = @ /\ Present # {}]
    /\ Finish(p, IF there["visible"] /\ Present = {} THEN "ok" ELSE "failed")
    /\ UNCHANGED <<shared, link, body, late, unit>> /\ UNCHANGED pullHistory

(* A crash leaves the file that was being written torn, or untouched, and  *)
(* a late piece unwritten.                                                 *)
PullCrash(p) ==
    LET e == <<DirOf(pull[p].kind), pull[p].at>> IN
    /\ pull[p].at # "idle" /\ died < MaxPullCrashes
    /\ died' = died + 1
    /\ pull' = [pull EXCEPT ![p] = [NoPull EXCEPT !.list = Cached]]
    /\ unit' \in IF pull[p].at \in UnitFiles /\ there[e[1]]
                 THEN {unit, [unit EXCEPT ![e] = "torn"]} ELSE {unit}
    /\ late' = {l \in late : l[1] # p}
    /\ short' = short \cup {i \in Inode : <<p, i>> \in late}
    /\ purged' = (purged \/ pull[p].at = "purge")
    /\ UNCHANGED <<shared, link, body, there, mixed, pulls>>

ModelNext ==
    \E p \in Pullers :
        \/ Look(p) \/ BeginFetch(p) \/ BeginManage(p) \/ BeginPurge(p)
        \/ Healthy(p) \/ Open(p) \/ AlreadyThere(p) \/ Fail(p) \/ Abort(p)
        \/ Chunk(p) \/ LateWrite(p) \/ LateLost(p) \/ Rename(p) \/ SaveUnit(p) \/ SaveDna(p)
        \/ PurgeEntry(p) \/ PurgeEnd(p) \/ PullCrash(p)
=============================================================================
