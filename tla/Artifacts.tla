------------------------------ MODULE Artifacts ------------------------------
(***************************************************************************)
(* The artifacts that tasks leave behind: ArtifactService, which keeps a   *)
(* content file and a metadata sidecar of each on disk, and ArtifactIndex, *)
(* the map in memory that everything is listed and looked up in, beside    *)
(* the /artifact commands that delete and that rebuild the index.          *)
(*                                                                         *)
(* An id is a fresh uuid, so each artifact is saved once. All of them are  *)
(* of one day: one directory, read at once. Saves, deletions and rebuilds  *)
(* interleave at their awaits; nothing orders them.                        *)
(***************************************************************************)
EXTENDS Naturals, Sequences, FiniteSets

CONSTANTS Artifact, Deleter, Rebuilder, MaxFaults, None

ASSUME ArtifactsAssumption ==
  IsFiniteSet(Artifact) /\ None \notin Artifact /\ MaxFaults \in Nat

VARIABLES
  content, sidecar, \* the two files of each artifact
  index,            \* ArtifactIndex.recordsById
  save,             \* the await each save() is suspended at
  deletion,         \* of each deleteMany() the await and the ids to come
  rebuild,          \* of each rebuild() the await, the keys to come, the one read
  up,               \* createArtifactModule has returned
  asked,            \* the artifacts somebody has asked to delete
  past,             \* see Disturbance
  faults

disk == <<content, sidecar>>
calls == <<save, deletion, rebuild>>
storeVars == <<disk, index, calls, up, asked, past, faults>>

File == {"none", "partial", "whole"}

\* overlap: a rebuild and a deletion, or two rebuilds, were at work at once, or
\*          an artifact was deleted before its save() was over
\* failed:  a rebuild ended with an error
\* Both last until a rebuild has begun while none of these was at work.
Disturbance == {"overlap", "failed"}

NoDeletion == [at |-> "idle", todo |-> <<>>]
NoRebuild == [at |-> "idle", keys |-> {}, held |-> None]

Deleting == {d \in Deleter : deletion[d] # NoDeletion}
Rebuilding == {r \in Rebuilder : rebuild[r] # NoRebuild}
Saving == {a \in Artifact : save[a] \in {"content", "sidecar", "adding"}}

StoreTypeOK ==
  /\ content \in [Artifact -> File] /\ sidecar \in [Artifact -> File]
  /\ index \subseteq Artifact
  /\ save \in [Artifact -> {"none", "content", "sidecar", "adding", "over"}]
  /\ deletion \in [Deleter -> [at : {"content", "sidecar", "index"}, todo : Seq(Artifact) \ {<<>>}]
                              \cup {NoDeletion}]
  /\ rebuild \in [Rebuilder -> [at : {"list", "read", "put"}, keys : SUBSET Artifact,
                                held : Artifact \cup {None}] \cup {NoRebuild}]
  /\ \A r \in Rebuilder : rebuild[r].at = "put" <=> rebuild[r].held # None
  /\ up \in BOOLEAN
  /\ asked \subseteq Artifact
  /\ past \subseteq Disturbance
  /\ faults \in 0..MaxFaults

StoreInit ==
  /\ content = [a \in Artifact |-> "none"] /\ sidecar = [a \in Artifact |-> "none"]
  /\ index = {}
  /\ save = [a \in Artifact |-> "none"]
  /\ deletion = [d \in Deleter |-> NoDeletion]
  /\ rebuild = [r \in Rebuilder |-> NoRebuild]
  /\ up = TRUE
  /\ asked = {} /\ past = {} /\ faults = 0

Fault == faults < MaxFaults /\ faults' = faults + 1
Disturb(d, condition) == past' = IF condition THEN past \cup {d} ELSE past

-----------------------------------------------------------------------------
(* ArtifactService.save                                                    *)

\* Mutant of StartSave: the sidecar is written first.
StartWithSidecar(a) ==
  /\ up /\ save[a] = "none"
  /\ save' = [save EXCEPT ![a] = "content"]
  /\ sidecar' = [sidecar EXCEPT ![a] = "whole"]
  /\ content' = [content EXCEPT ![a] = "partial"]
  /\ UNCHANGED <<index, deletion, rebuild, up, asked, past, faults>>

StartSave(a) ==
  /\ up /\ save[a] = "none"
  /\ save' = [save EXCEPT ![a] = "content"]
  /\ content' = [content EXCEPT ![a] = "partial"]
  /\ UNCHANGED <<sidecar, index, deletion, rebuild, up, asked, past, faults>>

ContentWritten(a) ==
  /\ save[a] = "content"
  /\ save' = [save EXCEPT ![a] = "sidecar"]
  /\ content' = [content EXCEPT ![a] = "whole"]
  /\ sidecar' = [sidecar EXCEPT ![a] = "partial"]
  /\ UNCHANGED <<index, deletion, rebuild, up, asked, past, faults>>

SidecarWritten(a) ==
  /\ save[a] = "sidecar"
  /\ save' = [save EXCEPT ![a] = "adding"]
  /\ sidecar' = [sidecar EXCEPT ![a] = "whole"]
  /\ UNCHANGED <<content, index, deletion, rebuild, up, asked, past, faults>>

AddToIndex(a) ==
  /\ save[a] = "adding"
  /\ save' = [save EXCEPT ![a] = "over"]
  /\ index' = index \cup {a}
  /\ UNCHANGED <<disk, deletion, rebuild, up, asked, past, faults>>

\* A write fails, and what it has written stays.
SaveFails(a) ==
  /\ Fault
  /\ save[a] \in {"content", "sidecar"}
  /\ save' = [save EXCEPT ![a] = "over"]
  /\ UNCHANGED <<disk, index, deletion, rebuild, up, asked, past>>

-----------------------------------------------------------------------------
(* ArtifactService.deleteMany; deleteByFilter asks for what it finds in    *)
(* the index.                                                              *)

\* Ids that are not found are passed over, up to one that is.
GoOn(d, ids, known) ==
  LET found == {i \in DOMAIN ids : ids[i] \in known}
  IN  deletion' = [deletion EXCEPT ![d] =
        IF found = {} THEN NoDeletion
        ELSE [at |-> "content",
              todo |-> SubSeq(ids, CHOOSE i \in found : \A j \in found : i <= j, Len(ids))]]

Id(d) == Head(deletion[d].todo)

\* Nobody knows an id before its save() has begun.
StartDelete(d, ids) ==
  /\ up /\ deletion[d] = NoDeletion
  /\ \A i \in DOMAIN ids : save[ids[i]] # "none"
  /\ GoOn(d, ids, index)
  /\ asked' = asked \cup {ids[i] : i \in DOMAIN ids}
  /\ Disturb("overlap", Rebuilding # {} \/ \E i \in DOMAIN ids : ids[i] \in Saving)
  /\ UNCHANGED <<disk, index, save, rebuild, up, faults>>

RemoveContent(d) ==
  /\ deletion[d].at = "content"
  /\ content' = [content EXCEPT ![Id(d)] = "none"]
  /\ deletion' = [deletion EXCEPT ![d].at = "sidecar"]
  /\ UNCHANGED <<sidecar, index, save, rebuild, up, asked, past, faults>>

RemoveSidecar(d) ==
  /\ deletion[d].at = "sidecar"
  /\ sidecar' = [sidecar EXCEPT ![Id(d)] = "none"]
  /\ deletion' = [deletion EXCEPT ![d].at = "index"]
  /\ UNCHANGED <<content, index, save, rebuild, up, asked, past, faults>>

RemoveFromIndex(d) ==
  /\ deletion[d].at = "index"
  /\ index' = index \ {Id(d)}
  /\ GoOn(d, Tail(deletion[d].todo), index')
  /\ UNCHANGED <<disk, save, rebuild, up, asked, past, faults>>

\* A failed id does not keep the rest from being deleted.
RemoveFails(d) ==
  /\ Fault
  /\ deletion[d].at \in {"content", "sidecar"}
  /\ GoOn(d, Tail(deletion[d].todo), index)
  /\ UNCHANGED <<disk, index, save, rebuild, up, asked, past>>

-----------------------------------------------------------------------------
(* ArtifactIndex.rebuild                                                   *)

Begin(r) ==
  /\ up /\ rebuild[r] = NoRebuild
  /\ rebuild' = [rebuild EXCEPT ![r].at = "list"]
  /\ past' = IF Rebuilding = {} /\ Deleting = {} /\ Saving \cap asked = {} THEN {}
             ELSE past \cup {"overlap"}

\* Mutant of StartRebuild: what the map holds stays.
StartWithout(r) ==
  /\ Begin(r)
  /\ UNCHANGED <<disk, index, save, deletion, up, asked, faults>>

StartRebuild(r) ==
  /\ Begin(r)
  /\ index' = {}
  /\ UNCHANGED <<disk, save, deletion, up, asked, faults>>

ToRead(keys) == IF keys = {} THEN NoRebuild ELSE [at |-> "read", keys |-> keys, held |-> None]

ListKeys(r) ==
  /\ rebuild[r].at = "list"
  /\ rebuild' = [rebuild EXCEPT ![r] = ToRead({a \in Artifact : sidecar[a] # "none"})]
  /\ UNCHANGED <<disk, index, save, deletion, up, asked, past, faults>>

\* The file has been read; the map is set when the stream has ended.
ReadSidecar(r, a) ==
  /\ rebuild[r].at = "read" /\ a \in rebuild[r].keys
  /\ sidecar[a] = "whole"
  /\ rebuild' = [rebuild EXCEPT ![r] = [at |-> "put", keys |-> @.keys \ {a}, held |-> a]]
  /\ UNCHANGED <<disk, index, save, deletion, up, asked, past, faults>>

PutRecord(r) ==
  /\ rebuild[r].at = "put"
  /\ index' = index \cup {rebuild[r].held}
  /\ rebuild' = [rebuild EXCEPT ![r] = ToRead(@.keys)]
  /\ UNCHANGED <<disk, save, deletion, up, asked, past, faults>>

\* The sidecar is gone, or not the JSON it should be, or cannot be read.
RebuildFails(r) ==
  /\ \/ /\ rebuild[r].at = "read"
        /\ \E a \in rebuild[r].keys : sidecar[a] # "whole"
        /\ UNCHANGED faults
     \/ rebuild[r].at \in {"list", "read"} /\ Fault
  /\ rebuild' = [rebuild EXCEPT ![r] = NoRebuild]
  /\ past' = past \cup {"failed"}
  /\ UNCHANGED <<disk, index, save, deletion, up, asked>>

-----------------------------------------------------------------------------
Crash ==
  /\ Fault
  /\ up /\ up' = FALSE
  /\ index' = {}
  /\ save' = [a \in Artifact |-> IF a \in Saving THEN "over" ELSE save[a]]
  /\ deletion' = [d \in Deleter |-> NoDeletion]
  /\ rebuild' = [r \in Rebuilder |-> NoRebuild]
  /\ UNCHANGED <<disk, asked, past>>

\* createArtifactModule rebuilds before anybody else runs. With a torn sidecar
\* it throws, and with it main(), at every start.
StartUp ==
  /\ ~up /\ up' = TRUE
  /\ \A a \in Artifact : sidecar[a] # "partial"
  /\ index' = {a \in Artifact : sidecar[a] = "whole"}
  /\ past' = {}
  /\ UNCHANGED <<disk, calls, asked, faults>>

\* The way out: whoever operates the controller removes the torn file.
RemoveTorn(a) ==
  /\ ~up /\ sidecar[a] = "partial"
  /\ sidecar' = [sidecar EXCEPT ![a] = "none"]
  /\ UNCHANGED <<content, index, calls, up, asked, past, faults>>

\* Without repetitions: deleteMany passes over an id it has seen.
Requests == {s \in UNION {[1..n -> Artifact] : n \in 1..Cardinality(Artifact)} :
               \A i, j \in DOMAIN s : s[i] = s[j] => i = j}

StoreNext ==
  \/ \E a \in Artifact : \/ StartSave(a) \/ ContentWritten(a) \/ SidecarWritten(a)
                         \/ AddToIndex(a) \/ SaveFails(a) \/ RemoveTorn(a)
  \/ \E d \in Deleter : \/ \E ids \in Requests : StartDelete(d, ids)
                        \/ RemoveContent(d) \/ RemoveSidecar(d) \/ RemoveFromIndex(d)
                        \/ RemoveFails(d)
  \/ \E r \in Rebuilder : \/ StartRebuild(r) \/ ListKeys(r) \/ PutRecord(r) \/ RebuildFails(r)
                          \/ \E a \in Artifact : ReadSidecar(r, a)
  \/ Crash \/ StartUp

StoreSpec == StoreInit /\ [][StoreNext]_storeVars

-----------------------------------------------------------------------------
\* The index is a cache of the sidecars: when no call is at work they hold the
\* same artifacts, whatever saves, deletions, failures and restarts there were,
\* unless a rebuild overlapped a deletion or failed, and even then from the
\* next rebuild on that no deletion overlaps (saves always may).
IndexAgrees ==
  up /\ Saving = {} /\ Deleting = {} /\ Rebuilding = {} /\ past = {} =>
    index = {a \in Artifact : sidecar[a] = "whole"}

\* What is listed can be fetched, unless somebody has asked to delete it: no
\* save that failed or died half way, and no restart or rebuild that met one,
\* puts an artifact into the index whose content is not there.
ListedIsFetchable == \A a \in index \ asked : content[a] = "whole"
=============================================================================
