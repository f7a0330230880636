--------------------------- MODULE ArtifactStore ----------------------------
(***************************************************************************)
(* One artifact: its object or its files, the row that lists it, and those *)
(* who save and load it.  Artifacts are kept under the hash of their bytes,*)
(* so all who save it write the same bytes, at the same paths, and may say *)
(* different content types.  Two artifacts share nothing.                  *)
(***************************************************************************)
EXTENDS Naturals, FiniteSets

CONSTANTS
    Savers, Loaders, Types,
    Json,            \* the one content type whose decoding needs all bytes
    StoreSettings,   \* what a behaviour may have, see Setting
    Absent, Partial, Bytes, NoRow

ASSUME StoreAssumption == Absent \notin {Partial, Bytes} \cup Types

VARIABLES
    setting,   \* the store, how many saves may overlap, saves and mishaps left
    files,     \* the store: at each path nothing, an unfinished file, or all
    open,      \* the file each saver is writing, wherever it has moved since
    save,      \* the call each saver is in
    load,      \* the call each loader is in
    indexed,   \* the artifact's row: the content type it lists
    first      \* the type that the first save declared
storeVars == <<setting, files, open, save, load, indexed, first>>

Setting == [store : {"fs", "s3"}, together : Nat, saves : Nat, mishaps : Nat, harmed : BOOLEAN]
ASSUME SaversAssumption == IsFiniteSet(Savers) /\ StoreSettings \subseteq Setting

Paths == {"content", "meta", "content.tmp", "meta.tmp"}
Putting == {"object", "exists", "openContent", "writeContent", "openMeta", "writeMeta",
            "renameContent", "renameMeta", "unlinkContent", "unlinkMeta"}
Ended == {"none", "saved", "content-only", "failed", "crashed"}
Errors == {"NOT_FOUND", "STORE_ERROR", "TYPE_MISMATCH", "DECODING_FAILED"}

StoreTypeOK ==
    /\ setting \in Setting
    /\ files \in [Paths -> {Absent, Partial, Bytes} \cup Types]
    /\ open \in [Savers -> Paths \cup {"none", "unlinked"}]
    /\ save \in [Savers -> [at : Putting \cup Ended \cup {"upsert"}, type : Types,
                            threw : BOOLEAN]]
    /\ load \in [Loaders -> [at : {"none", "meta", "loaded"} \cup Errors,
                             bytes : {Absent, Partial, Bytes}]]
    /\ indexed \in Types \cup {NoRow} /\ first \in Types \cup {Absent}

StoreInit ==
    /\ setting \in StoreSettings
    /\ files = [p \in Paths |-> Absent]
    /\ open = [s \in Savers |-> "none"]
    /\ \E t \in Types : save = [s \in Savers |-> [at |-> "none", type |-> t, threw |-> FALSE]]
    /\ load = [l \in Loaders |-> [at |-> "none", bytes |-> Absent]]
    /\ indexed = NoRow /\ first = Absent

-----------------------------------------------------------------------------
(* ArtifactWriter.save: encode, put the bytes, and then write the row.     *)
SaveGoes(s, at) == save' = [save EXCEPT ![s].at = at]
In(s, at) == save[s].at = at /\ UNCHANGED <<load, first>>
Mishap == /\ setting.mishaps > 0
          /\ setting' = [setting EXCEPT !.mishaps = @ - 1, !.harmed = TRUE]
Store == UNCHANGED <<files, open>>

SavesNow(s, t) ==
    /\ save[s].at \in Ended /\ setting.saves > 0
    /\ Cardinality({q \in Savers : save[q].at \in Putting}) < setting.together
    /\ save' = [save EXCEPT ![s] = [at |-> IF setting.store = "fs" THEN "exists" ELSE "object",
                                    type |-> t, threw |-> FALSE]]
    /\ first' = IF first = Absent THEN t ELSE first
    /\ setting' = [setting EXCEPT !.saves = @ - 1]
    /\ UNCHANGED <<files, open, load, indexed>>

(* S3ArtifactStore.putBytes: one request, which replaces what was there.   *)
PutsObject(s) ==
    /\ In(s, "object") /\ UNCHANGED <<open, indexed>>
    /\ \/ /\ files' = [files EXCEPT !["content"] = Bytes, !["meta"] = save[s].type]
          /\ SaveGoes(s, "upsert") /\ UNCHANGED setting
       \/ Mishap /\ SaveGoes(s, "failed") /\ UNCHANGED files

(* FsArtifactStore.putBytes.  Content that is there is left alone, and an  *)
(* error while looking for it counts as not there.  mkdir may throw, and   *)
(* then there is nothing to clean up.                                      *)
(* Mutant: looks for a file of another save under way.                     *)
MutAnyFile == files["content"] # Absent \/ files["content.tmp"] # Absent
IsThere == files["content"] # Absent

Exists(s) ==
    /\ In(s, "exists") /\ Store /\ UNCHANGED indexed
    /\ \/ SaveGoes(s, IF IsThere THEN "upsert" ELSE "openContent") /\ UNCHANGED setting
       \/ Mishap /\ (SaveGoes(s, "openContent") \/ (~IsThere /\ SaveGoes(s, "failed")))

(* Every saver has the same temporary names.  A writer holds the file, not *)
(* its name: renamed or unlinked, that is the file it goes on to write.    *)
(* Mutant: writes the content where it will be read.                       *)
MutInPlace == "content"
TmpContent == "content.tmp"
Renamed(from, to) ==
    [q \in Savers |-> IF open[q] = from THEN to ELSE IF open[q] = to THEN "unlinked" ELSE open[q]]

Throws(s) ==
    /\ save' = [save EXCEPT ![s].at = "unlinkContent", ![s].threw = TRUE]
    /\ open' = [open EXCEPT ![s] = "none"] /\ UNCHANGED files

Opens(s, at, path, next) ==
    /\ In(s, at) /\ UNCHANGED indexed
    /\ \/ /\ files' = [files EXCEPT ![path] = Partial] /\ open' = [open EXCEPT ![s] = path]
          /\ SaveGoes(s, next) /\ UNCHANGED setting
       \/ Mishap /\ Throws(s)

Writes(s, at, data, next) ==
    /\ In(s, at) /\ UNCHANGED indexed
    /\ \/ /\ files' = [p \in Paths |-> IF p = open[s] THEN data ELSE files[p]]
          /\ open' = [open EXCEPT ![s] = "none"]
          /\ SaveGoes(s, next) /\ UNCHANGED setting
       \/ Mishap /\ Throws(s)

Renames(s, at, from, to, next) ==
    /\ In(s, at) /\ UNCHANGED indexed
    /\ \/ /\ files[from] # Absent
          /\ files' = [files EXCEPT ![to] = files[from], ![from] = Absent]
          /\ open' = Renamed(from, to)
          /\ SaveGoes(s, next) /\ UNCHANGED setting
       \/ files[from] = Absent /\ Throws(s) /\ UNCHANGED setting
       \/ Mishap /\ Throws(s)

(* cleanupTmp swallows its errors.                                         *)
Unlinks(s, at, path, next) ==
    /\ In(s, at) /\ UNCHANGED indexed /\ SaveGoes(s, next)
    /\ \/ /\ files' = [files EXCEPT ![path] = Absent] /\ open' = Renamed(path, "unlinked")
          /\ UNCHANGED setting
       \/ Mishap /\ Store

PutBytes(s) ==
    \/ Exists(s)
    \/ Opens(s, "openContent", TmpContent, "writeContent")
    \/ Writes(s, "writeContent", Bytes, "openMeta")
    \/ Opens(s, "openMeta", "meta.tmp", "writeMeta")
    \/ Writes(s, "writeMeta", save[s].type, "renameContent")
    \/ Renames(s, "renameContent", TmpContent, "content", "renameMeta")
    \/ Renames(s, "renameMeta", "meta.tmp", "meta", "unlinkContent")
    \/ Unlinks(s, "unlinkContent", TmpContent, "unlinkMeta")
    \/ Unlinks(s, "unlinkMeta", "meta.tmp", IF save[s].threw THEN "failed" ELSE "upsert")

(* PrismaArtifactRepository.writeArtifact: an upsert by hash.              *)
Upserts(s) ==
    /\ In(s, "upsert") /\ Store
    /\ \/ indexed' = save[s].type /\ SaveGoes(s, "saved") /\ UNCHANGED setting
       \/ Mishap /\ SaveGoes(s, "content-only") /\ UNCHANGED indexed

(* The process dies; what it has written stays as it is.                   *)
Crashes(s) ==
    /\ save[s].at \in Putting \cup {"upsert"} /\ Mishap
    /\ SaveGoes(s, "crashed") /\ open' = [open EXCEPT ![s] = "none"]
    /\ UNCHANGED <<files, load, indexed, first>>

-----------------------------------------------------------------------------
(* ArtifactReader.load.  want is the type asked for, or Absent when the    *)
(* caller takes any.                                                       *)
Decoded(bytes, want) ==
    IF want \notin {Absent, files["meta"]} THEN "TYPE_MISMATCH"
    ELSE IF files["meta"] = Json /\ bytes = Partial THEN "DECODING_FAILED"
    ELSE "loaded"
LoadAnswers(l, bytes, at) ==
    load' = [load EXCEPT ![l] = [at |-> at, bytes |-> IF at \in Errors THEN Absent ELSE bytes]]
Loads(l, at) == load[l].at = at /\ UNCHANGED <<setting, files, open, save, indexed, first>>

GetsObject(l) ==
    /\ Loads(l, "none") /\ setting.store = "s3"
    /\ \/ LoadAnswers(l, Absent, "STORE_ERROR")
       \/ files["content"] = Absent /\ LoadAnswers(l, Absent, "NOT_FOUND")
       \/ /\ files["content"] # Absent
          /\ \E want \in Types \cup {Absent} : LoadAnswers(l, Bytes, Decoded(Bytes, want))

(* FsArtifactStore.getBytes: the content, then its type.  Where there is   *)
(* no content, another store may have written the same bytes in the legacy *)
(* layout, under a name that tells the type.                               *)
ReadsContent(l) ==
    /\ Loads(l, "none") /\ setting.store = "fs"
    /\ \/ LoadAnswers(l, Absent, "STORE_ERROR")
       \/ files["content"] # Absent /\ LoadAnswers(l, files["content"], "meta")
       \/ /\ files["content"] = Absent
          /\ \/ LoadAnswers(l, Absent, "NOT_FOUND")
             \/ \E at \in {"loaded", "TYPE_MISMATCH"} : LoadAnswers(l, Bytes, at)

(* A sidecar that is missing or not whole is an error, not "not found".    *)
ReadsMeta(l) ==
    /\ Loads(l, "meta")
    /\ \/ LoadAnswers(l, load[l].bytes, "STORE_ERROR")
       \/ /\ files["meta"] \in Types
          /\ \E want \in Types \cup {Absent} :
                LoadAnswers(l, load[l].bytes, Decoded(load[l].bytes, want))

-----------------------------------------------------------------------------
StoreNext ==
    \/ \E s \in Savers : \/ \E t \in Types : SavesNow(s, t)
                         \/ PutsObject(s) \/ PutBytes(s) \/ Upserts(s) \/ Crashes(s)
    \/ \E l \in Loaders : GetsObject(l) \/ ReadsContent(l) \/ ReadsMeta(l)

StoreSpec == StoreInit /\ [][StoreNext]_storeVars

-----------------------------------------------------------------------------
AtRest == \A s \in Savers : save[s].at \notin Putting
OneAtATime == setting.together = 1

(* What can be read is whole.  When saves do not overlap it is so at every *)
(* moment, and whoever dies (fs-artifact-store.ts:62-65); when they do, it *)
(* is so again when all have returned, and nothing is left behind.         *)
FilesAreWhole ==
    OneAtATime \/ (AtRest /\ ~setting.harmed) =>
        /\ files["content"] \in {Absent, Bytes}
        /\ files["meta"] \in {Absent} \cup Types
        /\ AtRest /\ ~setting.harmed => /\ files["content.tmp"] = Absent
                                        /\ files["meta.tmp"] = Absent

(* A save that has answered "saved" can be loaded, with all its bytes, and *)
(* under the type declared first (fs-artifact-store.ts:52-55), when no     *)
(* other save overlapped it and nothing failed.                            *)
SavedIsLoaded ==
    /\ OneAtATime =>
          \A l \in Loaders : load[l].at = "loaded" => load[l].bytes = Bytes
    /\ OneAtATime /\ ~setting.harmed /\ (\E s \in Savers : save[s].at = "saved") =>
          /\ files["content"] = Bytes /\ files["meta"] \in Types
          /\ setting.store = "fs" => files["meta"] = first

(* The index lists nothing that is not there, whatever overlaps, fails or  *)
(* dies.                                                                   *)
ListedIsThere == indexed # NoRow => files["content"] # Absent

(* Both promises of the store hold only of saves that do not overlap: two  *)
(* saves of the same bytes share their temporary file, and one of them may *)
(* rename it while the other writes it.                                    *)
StoreIsWhole == StoreTypeOK /\ FilesAreWhole /\ SavedIsLoaded
=============================================================================
