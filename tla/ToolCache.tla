----------------------------- MODULE ToolCache ------------------------------
(***************************************************************************)
(* `ft install` and the downloader's cache: install_tool and               *)
(* _prepare_cached_asset in ft/src/ft/installer.py.                        *)
(*                                                                         *)
(* One cache entry (one tool, target, OS, architecture and version) holds  *)
(* three files: the upstream checksum manifest, the asset, and a           *)
(* metadata.json with the SHA-256 of the asset.  Procs are installs of     *)
(* that tool; each has an install root of its own, and they share the      *)
(* entry, as image builds share the cache mount of the Dockerfiles.  No    *)
(* lock is taken.                                                          *)
(*                                                                         *)
(* A file's content is a kind and the upstream revision it came from: a    *)
(* digest is modelled by the content it is the digest of.                  *)
(***************************************************************************)
EXTENDS Integers, FiniteSets

CONSTANTS
    Procs,       \* the installs
    Tools,       \* the manifest's tools
    Checked,     \* those with a checksum_url
    Raw,         \* those whose asset is the binary itself, not an archive
    MaxRelease,  \* bound: how often upstream publishes this version
    MaxFaults    \* bound: crashes, network failures and disk faults

ASSUME ToolAssumption ==
    /\ Checked \subseteq Tools
    /\ Raw \subseteq Tools
    /\ MaxRelease \in Nat /\ MaxRelease >= 1
    /\ MaxFaults \in Nat

VARIABLES
    tool,      \* the tool whose entry this is
    release,   \* the revision upstream serves for its version
    meta,      \* metadata.json: None, Torn, or the content it has the digest of
    sums,      \* the checksum manifest
    asset,     \* the asset
    writers,   \* the installs that have the file of each name open for writing
    pc,        \* where each install is
    known,     \* cached_metadata["asset_sha256"]
    digest,    \* asset_sha256
    unpacked,  \* what the install staged in its temporary workspace
    root,      \* what the install's root holds: the support files and the binary
    faults,    \* how many faults there have been
    calm,      \* calm[p]: nothing has disturbed p's attempt since it began
    alone,     \* alone[p]: no other install has been active since p's attempt began
    overlap    \* whether two installs were ever active at once

cache == <<meta, sums, asset, writers>>
local == <<known, digest, unpacked>>
history == <<calm, alone, overlap>>
vars == <<tool, release, cache, pc, local, root, faults, history>>

\* part: still being written, or left so by a crash or a connection that closed
\* early; bad: decayed on disk, or written by two installs at once; torn: a copy
\* or a write that was cut off.
Kinds   == {"none", "part", "whole", "bad", "torn"}
Content == [kind : Kinds, rev : 0..MaxRelease]
None    == [kind |-> "none", rev |-> 0]
Torn    == [kind |-> "torn", rev |-> 0]

Ended == {"idle", "done", "failed"}
Steps == {"purge", "sums", "sums_open", "sums_arrive", "check", "fetch", "fetch_open",
          "fetch_arrive", "verify", "record", "unpack", "support", "binary", "healthcheck"}

Active(p) == pc[p] \notin Ended
Goto(p, label) == pc' = [pc EXCEPT ![p] = label]

\* The asset's digest is the one its checksum manifest names.  A manifest that
\* is cut or damaged names none.
Matches(content) == sums.kind = "whole" /\ content = sums

metadata_matches == meta.kind \notin {"none", "torn"}

-----------------------------------------------------------------------------
Init ==
    /\ tool \in Tools
    /\ release = 1
    /\ meta = None /\ sums = None /\ asset = None
    /\ writers = [file \in {"sums", "asset"} |-> {}]
    /\ pc = [p \in Procs |-> "idle"]
    /\ known = [p \in Procs |-> None]
    /\ digest = [p \in Procs |-> None]
    /\ unpacked = [p \in Procs |-> None]
    /\ root = [p \in Procs |-> [support |-> None, binary |-> None]]
    /\ faults = 0
    /\ calm = [p \in Procs |-> FALSE]
    /\ alone = [p \in Procs |-> FALSE]
    /\ overlap = FALSE

\* From now on p works alone, or nobody does.
Joins(p) ==
    LET quiet == \A q \in Procs : ~Active(q)
    IN  /\ calm' = [q \in Procs |-> q = p /\ quiet]
        /\ alone' = [q \in Procs |-> q = p /\ quiet]
        /\ overlap' = (overlap \/ ~quiet)

\* Faulty: the digest takes part in the comparison, so no metadata ever matches.
BeginNeverMatching(p) ==
    /\ ~Active(p)
    /\ Goto(p, "purge")
    /\ known' = [known EXCEPT ![p] = None]
    /\ digest' = [digest EXCEPT ![p] = None]
    /\ unpacked' = [unpacked EXCEPT ![p] = None]
    /\ Joins(p)
    /\ UNCHANGED <<tool, release, cache, root, faults>>

\* An install, or the retry of one, reads metadata.json.
Begin(p) ==
    /\ ~Active(p)
    /\ Goto(p, IF metadata_matches THEN "sums" ELSE "purge")
    /\ known' = [known EXCEPT ![p] = IF metadata_matches THEN meta ELSE None]
    /\ digest' = [digest EXCEPT ![p] = IF metadata_matches THEN meta ELSE None]
    /\ unpacked' = [unpacked EXCEPT ![p] = None]
    /\ Joins(p)
    /\ UNCHANGED <<tool, release, cache, root, faults>>

Empty ==
    /\ meta' = None /\ sums' = None /\ asset' = None
    /\ writers' = [file \in {"sums", "asset"} |-> {}]

\* Faulty: only the metadata and the asset are removed.
PurgeKeepingSums(p) ==
    /\ pc[p] = "purge"
    /\ Goto(p, "sums")
    /\ meta' = None /\ asset' = None
    /\ writers' = [writers EXCEPT !["asset"] = {}]
    /\ UNCHANGED <<tool, release, sums, local, root, faults, history>>

\* rmtree of the entry; with ignore_errors it may fail and nobody is told.
Purge(p) ==
    /\ pc[p] = "purge"
    /\ Goto(p, "sums")
    /\ \/ Empty /\ UNCHANGED <<faults, calm>>
       \/ /\ faults < MaxFaults
          /\ faults' = faults + 1
          /\ calm' = [calm EXCEPT ![p] = FALSE]
          /\ UNCHANGED cache
    /\ UNCHANGED <<tool, release, local, root, alone, overlap>>

\* A checksum manifest that is there is not fetched again.
FetchSums(p) ==
    /\ pc[p] = "sums"
    /\ Goto(p, IF tool \in Checked /\ sums = None THEN "sums_open" ELSE "check")
    /\ UNCHANGED <<tool, release, cache, local, root, faults, history>>

\* The server has answered, and the file is opened: it is made, or emptied
\* under whoever still writes it.
Opens(p, file, content) ==
    /\ content' = [kind |-> IF writers[file] = {} THEN "part" ELSE "bad", rev |-> release]
    /\ writers' = [writers EXCEPT ![file] = @ \cup {p}]

OpenSums(p) ==
    /\ pc[p] = "sums_open"
    /\ Opens(p, "sums", sums)
    /\ Goto(p, "sums_arrive")
    /\ UNCHANGED <<tool, release, meta, asset, local, root, faults, history>>

\* How a download ends: all of it, or as much as there was when the connection
\* closed, which nothing notices.  The bytes go to the file that was opened,
\* which may no longer be the one under that name; what two installs wrote at
\* once may be whole or not.
Arrives(p, file, content) ==
    /\ writers' = [writers EXCEPT ![file] = @ \ {p}]
    /\ \/ /\ \E kind \in IF p \notin writers[file] THEN {content.kind}
                       ELSE IF content.kind = "part" THEN {"whole"}
                       ELSE {"whole", "bad"} :
                content' = [content EXCEPT !.kind = kind]
          /\ UNCHANGED <<faults, calm>>
       \/ /\ faults < MaxFaults
          /\ faults' = faults + 1
          /\ calm' = [calm EXCEPT ![p] = FALSE]
          /\ UNCHANGED content

SumsArrive(p) ==
    /\ pc[p] = "sums_arrive"
    /\ Goto(p, "check")
    /\ Arrives(p, "sums", sums)
    /\ UNCHANGED <<tool, release, meta, asset, local, root, alone, overlap>>

Unlink == asset' = None /\ writers' = [writers EXCEPT !["asset"] = {}]

\* metadata.json records another asset than the cached one.
Stale(p) == known[p] # None /\ asset # known[p]

\* Faulty: an asset that agrees with metadata.json is not held against the
\* checksum manifest.
CheckCachedAgainstMetadata(p) ==
    /\ pc[p] = "check"
    /\ \/ asset = None /\ Goto(p, "fetch") /\ UNCHANGED <<asset, writers, digest>>
       \/ asset # None /\ Stale(p) /\ Goto(p, "fetch") /\ Unlink /\ UNCHANGED digest
       \/ /\ asset # None /\ ~Stale(p)
          /\ Goto(p, "record")
          /\ digest' = [digest EXCEPT ![p] = asset]
          /\ UNCHANGED <<asset, writers>>
    /\ UNCHANGED <<tool, release, meta, sums, known, unpacked, root, faults, history>>

\* The asset in the cache is used when it is what metadata.json recorded and
\* what the checksum manifest names; otherwise it is unlinked.
CheckCached(p) ==
    /\ pc[p] = "check"
    /\ \/ asset = None /\ Goto(p, "fetch") /\ UNCHANGED <<asset, writers, digest>>
       \/ asset # None /\ Stale(p) /\ Goto(p, "fetch") /\ Unlink /\ UNCHANGED digest
       \/ /\ asset # None /\ ~Stale(p)
          /\ tool \in Checked /\ sums = None
          /\ Goto(p, "failed")
          /\ UNCHANGED <<asset, writers, digest>>
       \/ /\ asset # None /\ ~Stale(p)
          /\ tool \in Checked /\ sums # None /\ ~Matches(asset)
          /\ Goto(p, "fetch") /\ Unlink
          /\ digest' = [digest EXCEPT ![p] = None]
       \/ /\ asset # None /\ ~Stale(p)
          /\ tool \in Checked => Matches(asset)
          /\ Goto(p, "record")
          /\ digest' = [digest EXCEPT ![p] = asset]
          /\ UNCHANGED <<asset, writers>>
    /\ UNCHANGED <<tool, release, meta, sums, known, unpacked, root, faults, history>>

\* Whether the asset exists is asked again: one that another install has begun
\* since is neither fetched nor verified.
FetchAsset(p) ==
    /\ pc[p] = "fetch"
    /\ Goto(p, IF asset = None THEN "fetch_open" ELSE "record")
    /\ UNCHANGED <<tool, release, cache, local, root, faults, history>>

\* Faulty: the asset of a version that is not out yet is asked for.
OpenAssetTooNew(p) ==
    /\ pc[p] = "fetch_open"
    /\ asset' = [kind |-> "part", rev |-> release + 1]
    /\ writers' = [writers EXCEPT !["asset"] = @ \cup {p}]
    /\ Goto(p, "fetch_arrive")
    /\ UNCHANGED <<tool, release, meta, sums, local, root, faults, history>>

OpenAsset(p) ==
    /\ pc[p] = "fetch_open"
    /\ Opens(p, "asset", asset)
    /\ Goto(p, "fetch_arrive")
    /\ UNCHANGED <<tool, release, meta, sums, local, root, faults, history>>

AssetArrives(p) ==
    /\ pc[p] = "fetch_arrive"
    /\ Goto(p, "verify")
    /\ Arrives(p, "asset", asset)
    /\ UNCHANGED <<tool, release, meta, sums, local, root, alone, overlap>>

\* Faulty: a manifest must be there, but what it names is not compared.
VerifyWithoutComparing(p) ==
    /\ pc[p] = "verify"
    /\ digest' = [digest EXCEPT ![p] = asset]
    /\ Goto(p, IF asset = None \/ (tool \in Checked /\ sums.kind # "whole")
               THEN "failed" ELSE "record")
    /\ UNCHANGED <<tool, release, cache, known, unpacked, root, faults, history>>

Verify(p) ==
    /\ pc[p] = "verify"
    /\ digest' = [digest EXCEPT ![p] = asset]
    /\ Goto(p, IF asset = None \/ (tool \in Checked /\ ~Matches(asset))
               THEN "failed" ELSE "record")
    /\ UNCHANGED <<tool, release, cache, known, unpacked, root, faults, history>>

\* metadata.json is written, with the digest at hand or else that of whatever
\* file is there now, and the digests are done with.
Record(p) ==
    LET recorded == IF digest[p] # None THEN digest[p] ELSE asset
    IN  /\ pc[p] = "record"
        /\ meta' = IF recorded # None THEN recorded ELSE meta
        /\ Goto(p, IF recorded # None THEN "unpack" ELSE "failed")
        /\ known' = [known EXCEPT ![p] = None]
        /\ digest' = [digest EXCEPT ![p] = None]
        /\ UNCHANGED <<tool, release, sums, asset, writers, unpacked, root, faults, history>>

\* An archive that is not whole cannot be extracted; a raw binary is copied
\* whatever it holds.
Unpack(p) ==
    LET readable == asset # None /\ (tool \notin Raw => asset.kind = "whole")
    IN  /\ pc[p] = "unpack"
        /\ unpacked' = [unpacked EXCEPT ![p] = IF readable THEN asset ELSE @]
        /\ Goto(p, IF readable THEN "support" ELSE "failed")
        /\ UNCHANGED <<tool, release, cache, known, digest, root, faults, history>>

InstallSupport(p) ==
    /\ pc[p] = "support"
    /\ root' = [root EXCEPT ![p].support = unpacked[p]]
    /\ Goto(p, "binary")
    /\ UNCHANGED <<tool, release, cache, local, faults, history>>

\* The binary is installed last, and the temporary workspace removed.
InstallBinary(p) ==
    /\ pc[p] = "binary"
    /\ root' = [root EXCEPT ![p].binary = unpacked[p]]
    /\ unpacked' = [unpacked EXCEPT ![p] = None]
    /\ Goto(p, "healthcheck")
    /\ UNCHANGED <<tool, release, cache, known, digest, faults, history>>

\* The version command of a published binary works; what a damaged one does
\* is anybody's guess.
Healthcheck(p) ==
    /\ pc[p] = "healthcheck"
    /\ \E ok \in BOOLEAN :
          /\ root[p].binary.kind = "whole" => ok
          /\ Goto(p, IF ok THEN "done" ELSE "failed")
    /\ UNCHANGED <<tool, release, cache, local, root, faults, history>>

\* A crash, a full disk or a lost connection: the attempt is over, and the
\* file it was writing stays as far as it got.
Fails(p) ==
    /\ Active(p)
    /\ faults < MaxFaults
    /\ faults' = faults + 1
    /\ Goto(p, "failed")
    /\ calm' = [calm EXCEPT ![p] = FALSE]
    /\ meta' = IF pc[p] = "record" THEN Torn ELSE meta
    /\ known' = [known EXCEPT ![p] = None]
    /\ digest' = [digest EXCEPT ![p] = None]
    /\ unpacked' = [unpacked EXCEPT ![p] = None]
    /\ root' = CASE pc[p] = "support" -> [root EXCEPT ![p].support = Torn]
                 [] pc[p] = "binary"  -> [root EXCEPT ![p].binary = Torn]
                 [] OTHER             -> root
    /\ writers' = [file \in {"sums", "asset"} |-> writers[file] \ {p}]
    /\ UNCHANGED <<tool, release, sums, asset, alone, overlap>>

\* Upstream replaces the files of the version.
Rerelease ==
    /\ release < MaxRelease
    /\ release' = release + 1
    /\ calm' = [p \in Procs |-> FALSE]
    /\ UNCHANGED <<tool, cache, pc, local, root, faults, alone, overlap>>

\* A cached file decays while no install runs.
Decay ==
    /\ \A p \in Procs : ~Active(p)
    /\ faults < MaxFaults
    /\ faults' = faults + 1
    /\ \/ /\ asset # None
          /\ asset' = [asset EXCEPT !.kind = "bad"]
          /\ UNCHANGED sums
       \/ /\ sums # None
          /\ sums' = [sums EXCEPT !.kind = "bad"]
          /\ UNCHANGED asset
    /\ UNCHANGED <<tool, release, meta, writers, pc, local, root, history>>

Install(p) ==
    \/ Begin(p) \/ Purge(p) \/ FetchSums(p) \/ OpenSums(p) \/ SumsArrive(p)
    \/ CheckCached(p) \/ FetchAsset(p) \/ OpenAsset(p) \/ AssetArrives(p) \/ Verify(p)
    \/ Record(p) \/ Unpack(p) \/ InstallSupport(p) \/ InstallBinary(p) \/ Healthcheck(p) \/ Fails(p)

Next == (\E p \in Procs : Install(p)) \/ Rerelease \/ Decay

Spec == Init /\ [][Next]_vars

-----------------------------------------------------------------------------
TypeOK ==
    /\ tool \in Tools
    /\ release \in 1..MaxRelease
    /\ meta \in Content /\ sums \in Content /\ asset \in Content
    /\ writers \in [{"sums", "asset"} -> SUBSET Procs]
    /\ pc \in [Procs -> Ended \cup Steps]
    /\ known \in [Procs -> Content]
    /\ digest \in [Procs -> Content]
    /\ unpacked \in [Procs -> Content]
    /\ root \in [Procs -> [support : Content, binary : Content]]
    /\ faults \in 0..MaxFaults
    /\ calm \in [Procs -> BOOLEAN]
    /\ alone \in [Procs -> BOOLEAN]
    /\ overlap \in BOOLEAN

\* No damaged download reaches an install root: of a tool whose asset checks
\* itself (an archive), or that has a checksum manifest and was never
\* installed twice at once, a root holds published content or the remains of
\* an interrupted copy, and after a completed install the support files and
\* the binary come from one and the same download (install_tool).
InstalledIsWhole ==
    tool \notin Raw \/ (tool \in Checked /\ ~overlap) =>
        \A p \in Procs :
            /\ root[p].support.kind \in {"none", "whole", "torn"}
            /\ root[p].binary.kind \in {"none", "whole", "torn"}
            /\ pc[p] = "done" =>
                  root[p].binary.kind = "whole" /\ root[p].support = root[p].binary

\* An install that has the entry of a checked tool for itself verifies what it
\* uses, whatever overlapping, interrupted or damaged attempts left there, and
\* metadata that vouch for a half-written asset among it: what it records,
\* unpacks and installs is what the checksum manifest names, and when it is done
\* its root holds the whole of one download (_prepare_cached_asset).
AloneIsVerified ==
    tool \in Checked =>
        \A p \in Procs : alone[p] =>
            /\ pc[p] \in {"unpack", "support", "binary", "healthcheck"} =>
                  meta = asset /\ Matches(asset)
            /\ pc[p] = "healthcheck" => root[p] = [support |-> asset, binary |-> asset]
            /\ pc[p] = "done" =>
                  root[p].binary.kind = "whole" /\ root[p].support = root[p].binary

\* The digest that metadata.json records is that of an asset which the checksum
\* manifest named, as containers/README.md:75 has it ("checksum verification
\* from upstream checksum manifests").  It fails when another install creates
\* the asset between the two times _prepare_cached_asset asks whether it exists.
RecordedIsPublished ==
    tool \in Checked => meta.kind \in {"none", "torn", "whole"}

\* The entry holds a published asset that an install would use as it stands.
Verified ==
    /\ asset.kind = "whole" /\ asset = meta
    /\ tool \in Checked => Matches(asset)

\* A verified asset is reused: installs that do not overlap neither unlink it
\* nor download it again, nor forget that it is verified (docs/container-usage.md,
\* test_install_tool_reuses_cached_downloads).
VerifiedIsKept ==
    [][Verified /\ ~overlap' =>
          /\ asset' = asset \/ asset'.kind = "bad"
          /\ meta' = meta \/ meta' = Torn]_vars

\* Whatever interrupted, short or damaged attempts left in the cache, one
\* undisturbed attempt succeeds: of a tool with a checksum manifest, whose
\* release was not replaced, whose cached manifest has not decayed, and whose
\* entry was never used by two installs at once (a crash of one of those can
\* leave a cut manifest beside metadata that matches, which no retry replaces).
UndisturbedSucceeds ==
    tool \in Checked /\ release = 1 /\ sums.kind # "bad" /\ ~overlap =>
        \A p \in Procs : calm[p] => pc[p] # "failed"
=============================================================================
